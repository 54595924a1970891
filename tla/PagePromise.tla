----------------------------- MODULE PagePromise -----------------------------
(***************************************************************************)
(* What the final page of the wizard promises to the person who looks at   *)
(* it: it asks for an installation once, and tells one outcome.  An error  *)
(* is told only while no answer has come, success only after one has.      *)
(* Nothing is said of requests, timers and retries; InstallPage.tla        *)
(* implements this specification with them.                                *)
(***************************************************************************)
CONSTANT Pages

VARIABLES outcome,    \* what each page tells
          answered    \* the pages whose question the server has answered

Outcomes == {"none", "waiting", "accepted", "confirmed", "failed", "left"}

Init ==
    /\ outcome = [p \in Pages |-> "none"]
    /\ answered = [p \in Pages |-> FALSE]

Turn(p, from, to) ==
    /\ outcome[p] = from
    /\ outcome' = [outcome EXCEPT ![p] = to]
    /\ UNCHANGED answered

\* The page asks for an installation.
Ask(p) == Turn(p, "none", "waiting")

\* The server answers the page that waits.
Answer(p) ==
    /\ outcome[p] = "waiting"
    /\ ~answered[p]
    /\ answered' = [answered EXCEPT ![p] = TRUE]
    /\ UNCHANGED outcome

\* The answer arrives.
Accept(p) == answered[p] /\ Turn(p, "waiting", "accepted")

\* Success is told.
Confirm(p) == Turn(p, "accepted", "confirmed")

\* An error is told.
Fail(p) == Turn(p, "waiting", "failed")

\* The page is closed or loaded anew.
Leave(p) ==
    /\ outcome[p] # "left"
    /\ outcome' = [outcome EXCEPT ![p] = "left"]
    /\ UNCHANGED answered

Next ==
    \E p \in Pages :
        Ask(p) \/ Answer(p) \/ Accept(p) \/ Confirm(p) \/ Fail(p) \/ Leave(p)

Spec == Init /\ [][Next]_<<outcome, answered>>
=============================================================================
