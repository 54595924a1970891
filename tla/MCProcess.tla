------------------------------- MODULE MCProcess -------------------------------
(* Small instances of Installer and WebLifecycle for TLC: what waits for what *)
(* in the process.                                                            *)
EXTENDS Installer, WebLifecycle

\* As in MCInstaller: one step of each kind.
MCRequired == {1}

\* Starter.main() initialises and starts; the tests of the uninitialised
\* service start and stop it; with <<"init">> the hook finds a service that
\* was never started, the only one destroy() gets to its end with.
StarterAndTests == {<<"init", "start">>, <<"start">>, <<"stop">>, <<"init">>}

\* The two share no state, so no interleaving of them reaches anything new:
\* each is explored, with the fairness it assumes, while the other is at its
\* start.
ProcessInit == Init /\ WebInit
InstallerMoves == WebInit /\ calls["main"] = <<"init", "start">>
WebMoves == Init

ProcessNext ==
    \/ InstallerMoves /\ Next /\ UNCHANGED webVars
    \/ WebMoves /\ WebNext /\ UNCHANGED vars

ProcessSpec ==
    /\ ProcessInit
    /\ [][ProcessNext]_<<vars, webVars>>
    /\ WF_vars(InstallerMoves /\ Run)
    /\ \A r \in Requesters : WF_vars(InstallerMoves /\ Request(r))
    /\ \A s \in Stoppers : WF_vars(InstallerMoves /\ Stop(s))
    /\ \A t \in Threads : WF_webVars(WebMoves /\ Work(t))
    /\ WF_webVars(WebMoves /\ (CheckEnd \/ HookGoesOn \/ HookWaits \/ HookEnd))
=============================================================================
