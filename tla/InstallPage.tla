----------------------------- MODULE InstallPage -----------------------------
(***************************************************************************)
(* The last page of the wizard in the browser, and what it talks to:       *)
(* InstallService, ServerOperations and Operation (lyncode/services,       *)
(* lyncode/operations, lyncode/core), the wizard's forms and session       *)
(* (InstallController), /rest/server (StatusServerController) and the      *)
(* network between them.  The installer is InstallPromise.                 *)
(*                                                                         *)
(* Pages are loads of the wizard in the tabs of one browser, which share   *)
(* one session.  A page runs one callback at a time, to its end; a request *)
(* is "sent" until it is handled, then its answer is "ok" (HTTP 200) or    *)
(* "failed" until the page takes it, or it is an "orphan": nobody waits    *)
(* for it any more, but the server may still get it.                       *)
(***************************************************************************)
EXTENDS Naturals, Sequences

CONSTANTS
    Pages,         \* the loads of a wizard page
    StepCount,     \* the number of installation steps
    Required,      \* the steps whose validate() never returns null
    NoObject,      \* a null input
    None,          \* no page
    MaxFailures    \* bound on the requests that the network loses

ASSUME PageAssumption ==
    /\ StepCount \in Nat \ {0}
    /\ Required \subseteq 1..StepCount
    /\ NoObject \notin Pages
    /\ None \notin Pages
    /\ MaxFailures \in Nat

VARIABLES
    page,        \* what each page shows
    form,        \* the step whose form it shows
    intact,      \* history: the pages that began with the first form and whose
                 \* session has not expired since
    timers,      \* the timeouts set by the page
    net,         \* the requests of a page, by what is asked and their stage
    session,     \* the steps with an object in the session
    installed,   \* dspace.installed
    up,          \* the server handles requests
    refreshDue,  \* its context is to be refreshed
    final,       \* the handlers about to call doFinal(), by page
    answered,    \* history: the server has answered a page's install request
    phase,       \* the installation,
    log,         \* as in InstallPromise
    given,       \* what it was given: the page that asked and its objects
    failures     \* the requests lost so far

browser == <<page, form, timers>>
server == <<session, intact, installed, up, refreshDue, final>>
installer == <<phase, log, given>>
vars == <<browser, net, server, answered, installer, failures>>

Job == INSTANCE InstallPromise WITH Requesters <- Pages

Step == 1..StepCount
Asked == {"install", "status"}
Stages == {"sent", "orphan", "ok", "failed"}
PageStates == {"closed", "form", "progress", "confirmed", "error", "left"}

TypeOK ==
    /\ page \in [Pages -> PageStates]
    /\ form \in [Pages -> Step]
    /\ timers \in [Pages -> Nat]
    /\ net \in [Pages -> [Asked -> [Stages -> Nat]]]
    /\ session \subseteq Step
    /\ intact \in [Pages -> BOOLEAN]
    /\ installed \in BOOLEAN
    /\ up \in BOOLEAN
    /\ refreshDue \in BOOLEAN
    /\ final \in [Pages -> BOOLEAN]
    /\ answered \in [Pages -> BOOLEAN]
    /\ phase \in {"idle", "running", "finished"}
    /\ log \in Seq(Job!Entry)
    /\ given \in [page : Pages \cup {None}, objects : SUBSET Step]
    /\ failures \in 0..MaxFailures

Init ==
    /\ page = [p \in Pages |-> "closed"]
    /\ form = [p \in Pages |-> 1]
    /\ timers = [p \in Pages |-> 0]
    /\ net = [p \in Pages |-> [a \in Asked |-> [s \in Stages |-> 0]]]
    /\ session = {}
    /\ intact = [p \in Pages |-> FALSE]
    /\ installed = FALSE
    /\ up = TRUE
    /\ refreshDue = FALSE
    /\ final = [p \in Pages |-> FALSE]
    /\ answered = [p \in Pages |-> FALSE]
    /\ Job!Init
    /\ given = [page |-> None, objects |-> {}]
    /\ failures = 0

-----------------------------------------------------------------------------
(* Requests.                                                               *)

\* $.ajax: the request is on its way, done or error will be called once.
Get(p, a) == net' = [net EXCEPT ![p][a]["sent"] = @ + 1]

\* A request goes from one stage to another.
Turn(p, a, s, t) ==
    net' = [net EXCEPT ![p][a][s] = @ - 1, ![p][a][t] = @ + 1]

\* A request or answer is used up.
Take(p, a, s) == net' = [net EXCEPT ![p][a][s] = @ - 1]

Has(p, a, s) == net[p][a][s] > 0

-----------------------------------------------------------------------------
(* The wizard: a page is got from the server while it handles requests and *)
(* the interceptor lets /install through.                                  *)

WizardServed == up /\ ~installed

\* InstallController.indexAction: the form of the first step.
Index(p) ==
    /\ page[p] = "closed"
    /\ WizardServed
    /\ page' = [page EXCEPT ![p] = "form"]
    /\ intact' = [intact EXCEPT ![p] = TRUE]
    /\ UNCHANGED <<form, timers, net, session, installed, up, refreshDue,
                   final, answered, installer, failures>>

\* The final page's script: a service is made, and install() called on it.
LoadFinal(p) ==
    /\ page' = [page EXCEPT ![p] = "progress"]
    /\ Get(p, "install")

\* Fault: the object is stored under the name of the next step.
StoreNext(i) ==
    \/ session' = session \cup ({i + 1} \cap Step)
    \/ i \notin Required /\ session' = session \ {i}

\* The session attribute of step i is the object validate() returns; a null
\* one removes it.
Store(i) ==
    \/ session' = session \cup {i}
    \/ i \notin Required /\ session' = session \ {i}

\* Fault: the last step is not noticed.
SubmitPastLast(p) ==
    /\ page[p] = "form"
    /\ WizardServed
    /\ Store(form[p])
    /\ form' = [form EXCEPT ![p] = @ + 1]
    /\ UNCHANGED <<page, timers, net, intact, installed, up, refreshDue,
                   final, answered, installer, failures>>

\* InstallController.stepAction: the form of a page is sent and validated.
\* (If that throws, the page shows the same form again.)
Submit(p) ==
    /\ page[p] = "form"
    /\ WizardServed
    /\ Store(form[p])
    /\ \/ /\ form[p] < StepCount
          /\ form' = [form EXCEPT ![p] = @ + 1]
          /\ UNCHANGED <<page, net>>
       \/ /\ form[p] = StepCount
          /\ LoadFinal(p)
          /\ form' = [form EXCEPT ![p] = 1]
    /\ UNCHANGED <<timers, intact, installed, up, refreshDue, final, answered,
                   installer, failures>>

\* InstallController.finalAction: somebody goes to /install/final directly.
Final(p) ==
    /\ page[p] = "closed"
    /\ WizardServed
    /\ LoadFinal(p)
    /\ UNCHANGED <<form, timers, server, answered, installer, failures>>

\* The session ends by timeout; the next request begins an empty one.
ExpireSession ==
    /\ session # {}
    /\ session' = {}
    /\ intact' = [p \in Pages |-> FALSE]
    /\ UNCHANGED <<browser, net, installed, up, refreshDue, final, answered,
                   installer, failures>>

-----------------------------------------------------------------------------
(* The final page's callbacks.                                             *)

\* InstallService.install, success: the first check in `interval' from now.
InstallAnswered(p) ==
    /\ page[p] # "left"
    /\ Has(p, "install", "ok")
    /\ Take(p, "install", "ok")
    /\ timers' = [timers EXCEPT ![p] = @ + 1]
    /\ UNCHANGED <<page, form, server, answered, installer, failures>>

\* Fault: the checks begin after an error as well.
InstallFailedPolls(p) ==
    /\ page[p] # "left"
    /\ Has(p, "install", "failed")
    /\ Take(p, "install", "failed")
    /\ page' = [page EXCEPT ![p] = "error"]
    /\ timers' = [timers EXCEPT ![p] = @ + 1]
    /\ UNCHANGED <<form, server, answered, installer, failures>>

\* ServerOperations.install, error: Dialog.error.
InstallFailed(p) ==
    /\ page[p] # "left"
    /\ Has(p, "install", "failed")
    /\ Take(p, "install", "failed")
    /\ page' = [page EXCEPT ![p] = "error"]
    /\ UNCHANGED <<form, timers, server, answered, installer,
                   failures>>

\* Fault: the timeout is an interval.
CheckStatusForEver(p) ==
    /\ timers[p] > 0
    /\ Get(p, "status")
    /\ UNCHANGED <<browser, server, answered, installer, failures>>

\* A timeout fires: checkStatus() asks for the status.
CheckStatus(p) ==
    /\ timers[p] > 0
    /\ timers' = [timers EXCEPT ![p] = @ - 1]
    /\ Get(p, "status")
    /\ UNCHANGED <<page, form, server, answered, installer, failures>>

\* checkStatus, success: okCallback shows the confirmation.
StatusAnswered(p) ==
    /\ page[p] # "left"
    /\ Has(p, "status", "ok")
    /\ Take(p, "status", "ok")
    /\ page' = [page EXCEPT ![p] = "confirmed"]
    /\ UNCHANGED <<form, timers, server, answered, installer,
                   failures>>

\* Fault: a check that fails is the last.
StatusFailedStops(p) ==
    /\ page[p] # "left"
    /\ Has(p, "status", "failed")
    /\ Take(p, "status", "failed")
    /\ UNCHANGED <<browser, server, answered, installer, failures>>

\* checkStatus, error: the next check in `interval' from now.
StatusFailed(p) ==
    /\ page[p] # "left"
    /\ Has(p, "status", "failed")
    /\ Take(p, "status", "failed")
    /\ timers' = [timers EXCEPT ![p] = @ + 1]
    /\ UNCHANGED <<page, form, server, answered, installer, failures>>

\* The page is closed or loaded anew (which makes another page): its
\* timeouts and answers go with it, a request on its way may arrive.
Leave(p) ==
    /\ page[p] \notin {"closed", "left"}
    /\ page' = [page EXCEPT ![p] = "left"]
    /\ form' = [form EXCEPT ![p] = 1]
    /\ timers' = [timers EXCEPT ![p] = 0]
    /\ net' = [net EXCEPT ![p] =
                 [a \in Asked |-> [s \in Stages |->
                    IF s = "orphan" /\ a = "install"
                    THEN @["install"]["orphan"] + @["install"]["sent"]
                    ELSE 0]]]
    /\ UNCHANGED <<server, answered, installer, failures>>

-----------------------------------------------------------------------------
(* The server.                                                             *)

\* DSpaceInstallService.install: the lists go to the installer's thread, or
\* are dropped if its state forbids it.  A running installation may get
\* them too: its thread may be blocked or waiting inside a step.
HandOver(p) ==
    \/ /\ phase \in {"idle", "running"}
       /\ given' = [page |-> p, objects |-> session]
       /\ IF phase = "idle" THEN Job!Begin ELSE UNCHANGED <<phase, log>>
    \/ UNCHANGED installer

\* StatusServerController.installAction.  It answers with 200, also when it
\* catches an exception; only if it has written the answer it goes on to
\* doFinal().  Nobody reads the answer to an orphan.
ServeInstall(p, s) ==
    /\ up
    /\ Has(p, "install", s)
    /\ \/ /\ HandOver(p)
          /\ final' = [final EXCEPT ![p] = TRUE]
       \/ /\ HandOver(p)
          /\ UNCHANGED final
    /\ \/ /\ s = "sent"
          /\ Turn(p, "install", "sent", "ok")
          /\ answered' = [answered EXCEPT ![p] = TRUE]
       \/ /\ s = "orphan"
          /\ Take(p, "install", "orphan")
          /\ UNCHANGED answered
    /\ UNCHANGED <<browser, session, intact, installed, up, refreshDue,
                   failures>>

\* statusAction: always true.
ServeStatus(p) ==
    /\ up
    /\ Has(p, "status", "sent")
    /\ Turn(p, "status", "sent", "ok")
    /\ UNCHANGED <<browser, server, answered, installer, failures>>

\* doFinal: dspace.installed is set, a change of which has the context
\* refreshed (by the directory thread, later).
DoFinal(p) ==
    /\ final[p]
    /\ final' = [final EXCEPT ![p] = FALSE]
    /\ installed' = TRUE
    /\ refreshDue' = (refreshDue \/ ~installed)
    /\ UNCHANGED <<browser, net, session, intact, up, answered, installer,
                   failures>>

\* The refresh begins, and ends.
GoDown ==
    /\ refreshDue
    /\ refreshDue' = FALSE
    /\ up' = FALSE
    /\ UNCHANGED <<browser, net, session, intact, installed, final, answered,
                   installer, failures>>
GoUp ==
    /\ ~up
    /\ up' = TRUE
    /\ UNCHANGED <<browser, net, session, intact, installed, refreshDue, final,
                   answered, installer, failures>>

\* A request or its answer is lost, at any time for a few of them and for
\* all that come while the context is refreshed.  An install request that
\* the page gives up may still be handled.
Lose(p, a) ==
    /\ failures' = IF up THEN failures + 1 ELSE failures
    /\ failures' <= MaxFailures
    /\ \/ /\ Has(p, a, "sent")
          /\ Turn(p, a, "sent", "failed")
       \/ /\ a = "install"
          /\ Has(p, a, "sent")
          /\ net' = [net EXCEPT ![p][a]["sent"] = @ - 1,
                                ![p][a]["orphan"] = @ + 1,
                                ![p][a]["failed"] = @ + 1]
       \/ /\ Has(p, a, "ok")
          /\ Turn(p, a, "ok", "failed")
    /\ UNCHANGED <<browser, server, answered, installer>>

\* The installer executes its next step, with or without success.
PerformStep(ok) ==
    /\ Len(log) < StepCount
    /\ Job!Perform([step |-> Len(log) + 1, list |-> given.page,
                    input |-> IF Len(log) + 1 \in given.objects
                              THEN given.page ELSE NoObject,
                    ok |-> ok])
    /\ UNCHANGED <<browser, net, server, answered, given, failures>>

\* The installation ends, and the thread with its lists.
EndInstallation ==
    /\ Job!End
    /\ given' = [page |-> None, objects |-> {}]
    /\ UNCHANGED <<browser, net, server, answered, failures>>

-----------------------------------------------------------------------------
Callback(p) ==
    \/ InstallAnswered(p) \/ InstallFailed(p)
    \/ CheckStatus(p) \/ StatusAnswered(p) \/ StatusFailed(p)

User(p) == Index(p) \/ Submit(p) \/ Final(p) \/ Leave(p)

Reply(p) ==
    \/ ServeInstall(p, "sent") \/ ServeStatus(p)
    \/ \E a \in Asked : Lose(p, a)

Next ==
    \/ \E p \in Pages :
         \/ Callback(p) \/ User(p) \/ Reply(p)
         \/ ServeInstall(p, "orphan") \/ DoFinal(p)
    \/ ExpireSession \/ GoDown \/ GoUp
    \/ \E ok \in BOOLEAN : PerformStep(ok)
    \/ EndInstallation

Spec == Init /\ [][Next]_vars

\* Callbacks are called, requests handled or lost, a refresh ends.
Fairness ==
    /\ \A p \in Pages : WF_vars(Callback(p)) /\ WF_vars(Reply(p))
    /\ WF_vars(GoUp)

FairSpec == Spec /\ Fairness

-----------------------------------------------------------------------------
(* Properties.                                                             *)

\* The requests of page p that have still to call back.
Calls(p, a) == net[p][a]["sent"] + net[p][a]["ok"] + net[p][a]["failed"]

\* Nothing cancels a check and nobody counts them (`stop' is never read):
\* a page that shows progress has exactly one request or timeout to come,
\* so it never polls twice over and never goes quiet; every other page has
\* none, so nothing changes what it has told.
OneChain ==
    \A p \in Pages :
        Calls(p, "install") + Calls(p, "status") + timers[p] =
            IF page[p] = "progress" THEN 1 ELSE 0

\* Whoever goes through the wizard's forms, in any number of tabs, in a
\* session that does not expire, does not have a step that needs its object
\* run without it, whichever request's lists the installer got.
FollowedWizardFeedsInstaller ==
    \A n \in DOMAIN log :
        /\ intact[log[n].list]
        /\ log[n].step \in Required
        => log[n].input # NoObject

\* "DSpace is being installed, please, wait" (final.html.twig 34) is not the
\* last a page that stays open says: checks are repeated until one succeeds.
OutcomeReached ==
    \A p \in Pages : page[p] = "progress" ~> page[p] # "progress"

\* The page keeps PagePromise: one question, one outcome; no error after an
\* answer, no success before.
Outcome == [p \in Pages |->
    CASE page[p] \in {"closed", "form"} -> "none"
      [] page[p] = "progress" ->
           IF Calls(p, "install") > 0 THEN "waiting" ELSE "accepted"
      [] page[p] = "error" -> "failed"
      [] OTHER -> page[p]]

Promise == INSTANCE PagePromise WITH outcome <- Outcome
PagePromiseSpec == Promise!Spec
=============================================================================
