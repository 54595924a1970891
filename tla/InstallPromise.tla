--------------------------- MODULE InstallPromise ---------------------------
(***************************************************************************)
(* What the background installer promises to whoever asks for an           *)
(* installation: one installation, whose steps run one after the other in  *)
(* the order of the list, each at most once, none after a step that        *)
(* failed.  Nothing is said here of threads, monitors, wakeups or of the   *)
(* requests whose objects the steps receive; Installer.tla implements this *)
(* specification with them.                                                *)
(***************************************************************************)
EXTENDS Naturals, Sequences

CONSTANTS Requesters,   \* the requests an input object can come from
          StepCount,    \* the length of the list of steps
          Required,     \* the steps whose install() rejects a null input
          NoObject      \* the null input

VARIABLES phase,        \* "idle", "running" or "finished"
          log           \* the steps executed so far, in order

Entry == [step : 1..StepCount, list : Requesters,
          input : Requesters \cup {NoObject}, ok : BOOLEAN]

\* Whether some executed step failed.
Failed == \E n \in DOMAIN log : ~log[n].ok

Init ==
    /\ phase = "idle"
    /\ log = <<>>

\* The installer is handed a list and leaves its idle state.
Begin ==
    /\ phase = "idle"
    /\ phase' = "running"
    /\ UNCHANGED log

\* The next step of the list is executed, with or without success.
Perform(e) ==
    /\ phase = "running"
    /\ ~Failed
    /\ e.step = Len(log) + 1
    /\ e.ok => e.input # NoObject \/ e.step \notin Required
    /\ log' = Append(log, e)
    /\ UNCHANGED phase

\* The installation ends, on a failure or with the whole list executed.
End ==
    /\ phase = "running"
    /\ Failed \/ Len(log) = StepCount
    /\ phase' = "finished"
    /\ UNCHANGED log

Next ==
    \/ Begin
    \/ \E e \in Entry : Perform(e)
    \/ End

Spec == Init /\ [][Next]_<<phase, log>>
=============================================================================
