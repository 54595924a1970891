---------------------------- MODULE MCInstallPage ----------------------------
(* Small instances of InstallPage for TLC. *)
EXTENDS InstallPage, TLC

\* As in MCInstaller: one step of each kind.
MCRequired == {1}

SymmetricPages == Permutations(Pages)
=============================================================================
