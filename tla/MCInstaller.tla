------------------------------ MODULE MCInstaller ------------------------------
(* Small instances of Installer and DatabaseSettings for TLC: the thread that *)
(* installs, and what it stores.                                              *)
EXTENDS Installer, DatabaseSettings, TLC

\* The wizard's steps are general, database and email.  The first two throw
\* when they are given null, the last returns; here, one step of each kind.
MCRequired == {1}

SymmetricRequests == Permutations(Requesters)

MCUsers == {"main", "installer", "request", "directory"}
MCModules == {"dspace", "database"}
MCSettings == {"installed", "name", "url", "driver", "dialect"}

\* The two share no state, so no interleaving of them reaches anything new:
\* each is explored while the other is at its start.
InstallationInit == Init /\ SettingsInit
InstallationSpec ==
    /\ InstallationInit
    /\ [][ \/ SettingsInit /\ Next /\ UNCHANGED settingsVars
           \/ Init /\ SettingsNext /\ UNCHANGED vars ]_<<vars, settingsVars>>

\* Bound: in a process that was started again, first uses do not cross and
\* files are loaded.
OrderlyRestart == restarts > 0 => crossed = {} /\ torn = {}
=============================================================================
