----------------------------- MODULE WizardProofs -----------------------------
(***************************************************************************)
(* Proof that whoever follows the wizard feeds the installer, for any      *)
(* number of pages and steps: what the session holds while a page is on    *)
(* its way through the forms, and what the installer was given.            *)
(***************************************************************************)
EXTENDS InstallPageProofs

\* The server may still be handed page p's install request.
Asking(p) == Has(p, "install", "sent") \/ Has(p, "install", "orphan")

\* The forms that p has behind it are in its session, all of them when it
\* asks for the installation.
FormsInv(p) ==
    /\ page[p] \in {"closed", "form"} => ~Has(p, "install", "orphan")
    /\ page[p] = "closed" => form[p] = 1 /\ ~intact[p]
    /\ intact[p] /\ page[p] = "form" =>
         \A i \in Required : i < form[p] => i \in session
    /\ intact[p] /\ Asking(p) => Required \subseteq session

\* So they are in what the installer was given by p, and in what it used.
FedInv(p) ==
    /\ page[p] = "closed" => /\ given.page # p
                             /\ \A n \in DOMAIN log : log[n].list # p
    /\ intact[p] /\ given.page = p => Required \subseteq given.objects
    /\ \A n \in DOMAIN log :
         intact[p] /\ log[n].list = p /\ log[n].step \in Required
           => log[n].input # NoObject

WizardInv == Inv /\ \A p \in Pages : FormsInv(p) /\ FedInv(p)

-----------------------------------------------------------------------------
(* Steps that go no further with the forms of page q.                      *)

Quiet(q) ==
    /\ intact'[q] => intact[q] /\ Required \cap session \subseteq session'
    /\ page'[q] \in {"closed", "form"} =>
         /\ page'[q] = page[q] /\ form'[q] = form[q]
         /\ Has(q, "install", "orphan")' => Has(q, "install", "orphan")
    /\ Asking(q)' => Asking(q)

LEMMA QuietForms ==
  ASSUME NEW q \in Pages, FormsInv(q), Quiet(q)
  PROVE  FormsInv(q)'
  BY DEF FormsInv, Quiet

LEMMA QuietFed ==
  ASSUME NEW q \in Pages, FedInv(q), intact'[q] => intact[q],
         page'[q] = "closed" => page[q] = "closed", UNCHANGED installer
  PROVE  FedInv(q)'
  BY DEF FedInv, installer

\* A step that changes only requests and what pages show.
LEMMA QuietStep ==
  ASSUME WizardInv, NEW p \in Pages,
         UNCHANGED <<form, session, intact, installer>>,
         \A q \in Pages \ {p} : page'[q] = page[q] /\ net'[q] = net[q],
         page'[p] \in {"closed", "form"} =>
           /\ page'[p] = page[p]
           /\ Has(p, "install", "orphan")' => Has(p, "install", "orphan"),
         Asking(p)' => Asking(p)
  PROVE  \A q \in Pages : FormsInv(q)' /\ FedInv(q)'
  <1>1. \A q \in Pages : Quiet(q)
    BY DEF Quiet, Asking, Has
  <1>2. \A q \in Pages : page'[q] = "closed" => page[q] = "closed"
    OBVIOUS
  <1>3. QED
    BY <1>1, <1>2, QuietForms, QuietFed DEF WizardInv

LEMMA CallbackWizard ==
  ASSUME WizardInv, NEW p \in Pages, Callback(p)
  PROVE  \A q \in Pages : FormsInv(q)' /\ FedInv(q)'
  <1> TypeOK /\ PageInv(p)
    BY DEF WizardInv, Inv
  <1>1. UNCHANGED <<form, session, intact, installer>>
    BY DEF Callback, InstallAnswered, InstallFailed, CheckStatus,
           StatusAnswered, StatusFailed, server
  <1>2. /\ \A q \in Pages \ {p} : net'[q] = net[q]
        /\ Has(p, "install", "sent")' = Has(p, "install", "sent")
        /\ Has(p, "install", "orphan")' = Has(p, "install", "orphan")
    <2>1. CASE InstallAnswered(p)
      BY <2>1, TakenCalls DEF InstallAnswered, Asked, Stages
    <2>2. CASE InstallFailed(p)
      BY <2>2, TakenCalls DEF InstallFailed, Asked, Stages
    <2>3. CASE CheckStatus(p)
      BY <2>3, GetNet DEF CheckStatus, Asked, Stages, Has
    <2>4. CASE StatusAnswered(p)
      BY <2>4, TakenCalls DEF StatusAnswered, Asked, Stages
    <2>5. CASE StatusFailed(p)
      BY <2>5, TakenCalls DEF StatusFailed, Asked, Stages
    <2>6. QED
      BY <2>1, <2>2, <2>3, <2>4, <2>5 DEF Callback
  <1>3. /\ \A q \in Pages \ {p} : page'[q] = page[q]
        /\ page'[p] \in {"closed", "form"} => page'[p] = page[p]
    BY DEF TypeOK, Callback, InstallAnswered, InstallFailed, CheckStatus,
           StatusAnswered, StatusFailed
  <1>4. QED
    BY <1>1, <1>2, <1>3, QuietStep DEF Asking

LEMMA LeaveWizard ==
  ASSUME WizardInv, NEW p \in Pages, Leave(p)
  PROVE  \A q \in Pages : FormsInv(q)' /\ FedInv(q)'
  <1> TypeOK /\ PageInv(p)
    BY DEF WizardInv, Inv
  <1>1. /\ UNCHANGED <<session, intact, installer>> /\ page'[p] = "left"
        /\ \A q \in Pages \ {p} : page'[q] = page[q] /\ form'[q] = form[q]
    BY DEF Leave, server, TypeOK
  <1>2. \A q \in Pages \ {p} : net'[q] = net[q]
    BY LeaveKeeps DEF PageKept, Same
  <1> DEFINE N == [a \in Asked |-> [s \in Stages |->
                     IF s = "orphan" /\ a = "install"
                     THEN net[p]["install"]["orphan"] + net[p]["install"]["sent"]
                     ELSE 0]]
  <1>3. net'[p] = N
    BY DEF Leave, TypeOK
  <1>4. /\ net'[p]["install"]["sent"] = 0
        /\ net'[p]["install"]["orphan"] =
             net[p]["install"]["orphan"] + net[p]["install"]["sent"]
    BY <1>3 DEF Asked, Stages
  <1>5. net[p]["install"]["orphan"] \in Nat /\ net[p]["install"]["sent"] \in Nat
    BY Counts DEF TypeOK, NetType
  <1>6. Asking(p)' => Asking(p)
    BY <1>4, <1>5 DEF Asking, Has
  <1>7. \A q \in Pages : Quiet(q)
    BY <1>1, <1>2, <1>6 DEF Quiet, Asking, Has
  <1>8. QED
    BY <1>1, <1>7, QuietForms, QuietFed DEF WizardInv

LEMMA LoseWizard ==
  ASSUME WizardInv, NEW p \in Pages, NEW a \in Asked, Lose(p, a)
  PROVE  \A q \in Pages : FormsInv(q)' /\ FedInv(q)'
  <1> TypeOK /\ PageInv(p)
    BY DEF WizardInv, Inv
  <1>1. UNCHANGED <<page, form, session, intact, installer>>
    BY DEF Lose, browser, server
  <1>2. \A q \in Pages \ {p} : page'[q] = page[q] /\ net'[q] = net[q]
    BY <1>1, LoseKeeps DEF PageKept, Same
  <1>3. CASE Has(p, "install", "sent")
    <2>1. page'[p] = "progress" /\ Asking(p)
      BY <1>1, <1>3, WaitingPage DEF Asking
    <2>2. QED
      BY <1>1, <1>2, <2>1, QuietStep
  <1>4. CASE ~Has(p, "install", "sent")
    <2>1. \E s \in {"sent", "ok"} : Has(p, a, s) /\ Turn(p, a, s, "failed")
      BY <1>4 DEF Lose
    <2>2. /\ Has(p, "install", "sent")' => Has(p, "install", "sent")
          /\ Has(p, "install", "orphan")' = Has(p, "install", "orphan")
      <3>1. PICK s \in {"sent", "ok"} : Has(p, a, s) /\ Turn(p, a, s, "failed")
        BY <2>1
      <3>2. /\ \A u \in Stages \ {s, "failed"} : Has(p, a, u)' = Has(p, a, u)
            /\ \A b \in Asked \ {a} : \A u \in Stages :
                 Has(p, b, u)' = Has(p, b, u)
        BY <3>1, TurnedCalls
      <3>3. a = "install" => s = "ok"
        BY <1>4, <3>1
      <3>4. QED
        BY <3>2, <3>3 DEF Asked, Stages
    <2>3. QED
      BY <1>1, <1>2, <2>2, QuietStep DEF Asking
  <1>5. QED
    BY <1>3, <1>4

LEMMA ServeStatusWizard ==
  ASSUME WizardInv, NEW p \in Pages, ServeStatus(p)
  PROVE  \A q \in Pages : FormsInv(q)' /\ FedInv(q)'
  <1> TypeOK /\ PageInv(p)
    BY DEF WizardInv, Inv
  <1>1. UNCHANGED <<page, form, session, intact, installer>>
    BY DEF ServeStatus, browser, server
  <1>2. /\ Has(p, "install", "sent")' = Has(p, "install", "sent")
        /\ Has(p, "install", "orphan")' = Has(p, "install", "orphan")
        /\ \A q \in Pages \ {p} : net'[q] = net[q]
    BY TurnedCalls DEF ServeStatus, Asked, Stages
  <1>3. QED
    BY <1>1, <1>2, QuietStep DEF Asking

-----------------------------------------------------------------------------
(* Steps through the forms.                                                *)

\* A page that has asked nothing has no request for the server.
LEMMA NothingAsked ==
  ASSUME WizardInv, NEW p \in Pages, page[p] \in {"closed", "form"}
  PROVE  ~Asking(p)
  <1>1. ~Has(p, "install", "sent")
    BY WaitingPage DEF WizardInv, Inv
  <1>2. QED
    BY <1>1 DEF WizardInv, FormsInv, Asking

\* The final page asks with every form behind it.
LEMMA LoadFinalForms ==
  ASSUME WizardInv, NEW p \in Pages, page[p] \in {"closed", "form"},
         LoadFinal(p), intact[p]' => Required \subseteq session'
  PROVE  FormsInv(p)' /\ \A q \in Pages \ {p} : net'[q] = net[q]
  <1>1. page'[p] = "progress" /\ Get(p, "install")
    BY DEF LoadFinal, WizardInv, Inv, TypeOK
  <1>2. \A q \in Pages \ {p} : net'[q] = net[q]
    BY <1>1, GetNet DEF WizardInv, Inv, Asked
  <1>3. QED
    BY <1>1, <1>2 DEF FormsInv

LEMMA ClosedForm ==
  ASSUME WizardInv, NEW p \in Pages, page[p] = "closed"
  PROVE  form[p] = 1 /\ ~intact[p]
  BY DEF WizardInv, FormsInv

LEMMA IndexWizard ==
  ASSUME WizardInv, NEW p \in Pages, Index(p)
  PROVE  \A q \in Pages : FormsInv(q)' /\ FedInv(q)'
  <1>1. /\ page[p] = "closed" /\ page'[p] = "form"
        /\ UNCHANGED <<form, net, session, installer>>
        /\ \A q \in Pages \ {p} : page'[q] = page[q] /\ intact'[q] = intact[q]
    BY DEF Index, WizardInv, Inv, TypeOK
  <1>2. \A q \in Pages \ {p} : FormsInv(q)' /\ FedInv(q)'
    <2>1. \A q \in Pages \ {p} : Quiet(q)
      BY <1>1 DEF Quiet, Asking, Has
    <2>2. QED
      BY <1>1, <2>1, QuietForms, QuietFed DEF WizardInv
  <1>3. FedInv(p)'
    BY <1>1 DEF WizardInv, FedInv, installer
  <1>4. FormsInv(p)'
    <2>1. ~Asking(p)'
      BY <1>1, NothingAsked DEF Asking, Has
    <2>2. form'[p] = 1
      BY <1>1, ClosedForm
    <2>3. \A i \in Required : ~(i < 1)
      BY PageAssumption
    <2>4. QED
      BY <1>1, <2>1, <2>2, <2>3 DEF FormsInv, Asking
  <1>5. QED
    BY <1>2, <1>3, <1>4

LEMMA SubmitWizard ==
  ASSUME WizardInv, NEW p \in Pages, Submit(p)
  PROVE  \A q \in Pages : FormsInv(q)' /\ FedInv(q)'
  <1> TypeOK
    BY DEF WizardInv, Inv
  <1>1. /\ page[p] = "form" /\ Store(form[p])
        /\ UNCHANGED <<intact, installer>>
    BY DEF Submit
  <1>2. /\ form[p] \in Required => form[p] \in session'
        /\ Required \cap session \subseteq session'
    BY <1>1 DEF Store
  <1>3. /\ \A i \in Required : i \in Nat
        /\ \A i \in Required : i <= StepCount
        /\ form[p] \in Nat /\ StepCount \in Nat
    BY PageAssumption DEF TypeOK, Step
  <1>4. intact[p] => \A i \in Required : i < form[p] + 1 => i \in session'
    <2>1. ASSUME intact[p], NEW i \in Required, i < form[p] + 1
          PROVE  i \in session'
      <3>1. CASE i = form[p]
        BY <1>2, <3>1
      <3>2. CASE i < form[p]
        BY <1>1, <1>2, <2>1, <3>2 DEF WizardInv, FormsInv
      <3>3. QED
        BY <1>3, <2>1, <3>1, <3>2
    <2>2. QED
      BY <2>1
  <1>5. CASE /\ form' = [form EXCEPT ![p] = @ + 1]
             /\ UNCHANGED <<page, net>>
    <2>1. form'[p] = form[p] + 1 /\ \A q \in Pages \ {p} : form'[q] = form[q]
      BY <1>5 DEF TypeOK
    <2>2. ~Asking(p)'
      BY <1>1, <1>5, NothingAsked DEF Asking, Has
    <2>3. FormsInv(p)'
      BY <1>1, <1>4, <1>5, <2>1, <2>2 DEF FormsInv, Asking
    <2>4. \A q \in Pages \ {p} : Quiet(q)
      BY <1>1, <1>2, <1>5, <2>1 DEF Quiet, Asking, Has
    <2>5. QED
      BY <1>1, <1>5, <2>3, <2>4, QuietForms, QuietFed DEF WizardInv
  <1>6. CASE /\ form[p] = StepCount
             /\ LoadFinal(p)
             /\ form' = [form EXCEPT ![p] = 1]
    <2>1. \A i \in Required : i < form[p] + 1
      BY <1>3, <1>6
    <2>2. intact'[p] => Required \subseteq session'
      BY <1>1, <1>4, <2>1
    <2>3. FormsInv(p)' /\ \A q \in Pages \ {p} : net'[q] = net[q]
      BY <1>1, <1>6, <2>2, LoadFinalForms
    <2>4. /\ page'[p] = "progress"
          /\ \A q \in Pages \ {p} : page'[q] = page[q] /\ form'[q] = form[q]
      BY <1>6 DEF LoadFinal, TypeOK
    <2>5. \A q \in Pages \ {p} : Quiet(q)
      BY <1>1, <1>2, <2>3, <2>4 DEF Quiet, Asking, Has
    <2>6. QED
      BY <1>1, <2>3, <2>4, <2>5, QuietForms, QuietFed DEF WizardInv
  <1>7. QED
    BY <1>5, <1>6 DEF Submit

LEMMA FinalWizard ==
  ASSUME WizardInv, NEW p \in Pages, Final(p)
  PROVE  \A q \in Pages : FormsInv(q)' /\ FedInv(q)'
  <1> TypeOK
    BY DEF WizardInv, Inv
  <1>1. /\ page[p] = "closed" /\ LoadFinal(p) /\ ~intact[p]
        /\ UNCHANGED <<form, session, intact, installer>>
    BY ClosedForm DEF Final, server
  <1>2. FormsInv(p)' /\ \A q \in Pages \ {p} : net'[q] = net[q]
    BY <1>1, LoadFinalForms
  <1>3. page'[p] = "progress" /\ \A q \in Pages \ {p} : page'[q] = page[q]
    BY <1>1 DEF LoadFinal, TypeOK
  <1>4. \A q \in Pages \ {p} : Quiet(q)
    BY <1>1, <1>2, <1>3 DEF Quiet, Asking, Has
  <1>5. QED
    BY <1>1, <1>2, <1>3, <1>4, QuietForms, QuietFed DEF WizardInv

-----------------------------------------------------------------------------
(* Steps of the server and of the installer.                               *)

LEMMA ServeInstallWizard ==
  ASSUME WizardInv, NEW p \in Pages, NEW s \in {"sent", "orphan"},
         ServeInstall(p, s)
  PROVE  \A q \in Pages : FormsInv(q)' /\ FedInv(q)'
  <1> TypeOK /\ PageInv(p)
    BY DEF WizardInv, Inv
  <1>1. /\ HandOver(p) /\ Asking(p)
        /\ UNCHANGED <<page, form, session, intact>>
    BY DEF ServeInstall, Asking, browser
  <1>2. page[p] \notin {"closed", "form"}
    BY <1>1, NothingAsked
  <1>3. \A q \in Pages \ {p} : net'[q] = net[q]
    BY ServeInstallKeeps, ServeOrphanKeeps DEF PageKept, Same
  <1>4. \A q \in Pages : FormsInv(q)'
    <2>1. \A q \in Pages : Quiet(q)
      BY <1>1, <1>2, <1>3 DEF Quiet, Asking, Has
    <2>2. QED
      BY <2>1, QuietForms DEF WizardInv
  <1>5. \A q \in Pages : FedInv(q)'
    <2>1. CASE UNCHANGED installer
      BY <1>1, <2>1, QuietFed DEF WizardInv
    <2>2. CASE /\ given' = [page |-> p, objects |-> session]
               /\ IF phase = "idle" THEN Job!Begin ELSE UNCHANGED <<phase, log>>
      <3>1. given'.page = p /\ given'.objects = session /\ UNCHANGED log
        BY <2>2 DEF Job!Begin
      <3>2. intact[p] => Required \subseteq session
        BY <1>1 DEF WizardInv, FormsInv
      <3>3. QED
        BY <1>1, <1>2, <3>1, <3>2 DEF WizardInv, FedInv
    <2>3. QED
      BY <1>1, <2>1, <2>2 DEF HandOver
  <1>6. QED
    BY <1>4, <1>5

LEMMA PerformStepWizard ==
  ASSUME WizardInv, NEW ok \in BOOLEAN, PerformStep(ok)
  PROVE  \A q \in Pages : FormsInv(q)' /\ FedInv(q)'
  <1> DEFINE e == [step |-> Len(log) + 1, list |-> given.page,
                   input |-> IF Len(log) + 1 \in given.objects
                             THEN given.page ELSE NoObject,
                   ok |-> ok]
  <1>1. /\ phase = "running" /\ log' = Append(log, e)
        /\ UNCHANGED <<page, form, net, session, intact, given>>
    BY DEF PerformStep, Job!Perform, browser, server
  <1>2. given.page \in Pages /\ given.page # NoObject /\ log \in Seq(Job!Entry)
    BY <1>1, PageAssumption DEF WizardInv, Inv, GivenInv, TypeOK
  <1> HIDE DEF e
  <1>3. /\ DOMAIN log' = DOMAIN log \cup {Len(log) + 1}
        /\ \A n \in DOMAIN log : log'[n] = log[n]
        /\ log'[Len(log) + 1] = e
    <2>1. Len(log') = Len(log) + 1 /\ Len(log) \in Nat /\ DOMAIN log = 1..Len(log)
          /\ DOMAIN log' = 1..Len(log')
      BY <1>1, <1>2
    <2>2. QED
      BY <1>1, <1>2, <2>1
  <1>4. \A q \in Pages : FormsInv(q)'
    <2>1. \A q \in Pages : Quiet(q)
      BY <1>1 DEF Quiet, Asking, Has
    <2>2. QED
      BY <2>1, QuietForms DEF WizardInv
  <1>5. ASSUME NEW q \in Pages PROVE FedInv(q)'
    <2>1. FedInv(q)
      BY DEF WizardInv
    <2>2. e.list = given.page /\ (page[q] = "closed" => e.list # q)
      BY <2>1 DEF FedInv, e
    <2>3. intact[q] /\ e.list = q /\ e.step \in Required => e.input # NoObject
      BY <1>2, <2>1 DEF FedInv, e
    <2>4. QED
      BY <1>1, <1>3, <2>1, <2>2, <2>3 DEF FedInv
  <1>6. QED
    BY <1>4, <1>5

LEMMA EndWizard ==
  ASSUME WizardInv, EndInstallation
  PROVE  \A q \in Pages : FormsInv(q)' /\ FedInv(q)'
  <1>1. /\ given'.page = None /\ UNCHANGED log
        /\ UNCHANGED <<page, form, net, session, intact>>
    BY DEF EndInstallation, Job!End, browser, server
  <1>2. \A q \in Pages : Quiet(q)
    BY <1>1 DEF Quiet, Asking, Has
  <1>3. \A q \in Pages : FedInv(q)'
    BY <1>1, PageAssumption DEF WizardInv, FedInv
  <1>4. QED
    BY <1>2, <1>3, QuietForms DEF WizardInv

\* Steps that neither page nor installer takes part in.
LEMMA AsideWizard ==
  ASSUME WizardInv, UNCHANGED <<browser, net, installer>>,
         \A q \in Pages :
           intact'[q] => intact[q] /\ Required \cap session \subseteq session'
  PROVE  \A q \in Pages : FormsInv(q)' /\ FedInv(q)'
  <1>1. \A q \in Pages : Quiet(q)
    BY DEF Quiet, Asking, Has, browser
  <1>2. \A q \in Pages : page'[q] = "closed" => page[q] = "closed"
    BY DEF browser
  <1>3. QED
    BY <1>1, <1>2, QuietForms, QuietFed DEF WizardInv

-----------------------------------------------------------------------------
LEMMA InitWizard == Init => WizardInv
  <1> SUFFICES ASSUME Init PROVE WizardInv
    OBVIOUS
  <1>1. Inv
    BY InitInv
  <1>2. ASSUME NEW p \in Pages PROVE FormsInv(p) /\ FedInv(p)
    <2>1. /\ page[p] = "closed" /\ form[p] = 1 /\ ~intact[p]
          /\ log = <<>> /\ given.page = None
      BY DEF Init, Job!Init
    <2>2. ~Asking(p)
      BY DEF Init, Asking, Has, Asked, Stages
    <2>3. QED
      BY <2>1, <2>2, PageAssumption DEF FormsInv, FedInv, Asking
  <1>3. QED
    BY <1>1, <1>2 DEF WizardInv

LEMMA NextWizard == WizardInv /\ [Next]_vars => WizardInv'
  <1> SUFFICES ASSUME WizardInv, [Next]_vars PROVE WizardInv'
    OBVIOUS
  <1>1. Inv'
    BY NextInv DEF WizardInv
  <1> DEFINE Goal == \A q \in Pages : FormsInv(q)' /\ FedInv(q)'
  <1>2. ASSUME NEW p \in Pages, Callback(p) PROVE Goal
    BY <1>2, CallbackWizard
  <1>3. ASSUME NEW p \in Pages, User(p) PROVE Goal
    BY <1>3, IndexWizard, SubmitWizard, FinalWizard, LeaveWizard DEF User
  <1>4. ASSUME NEW p \in Pages, Reply(p) \/ ServeInstall(p, "orphan") PROVE Goal
    BY <1>4, ServeInstallWizard, ServeStatusWizard, LoseWizard DEF Reply
  <1>5. ASSUME NEW p \in Pages, DoFinal(p) PROVE Goal
    BY <1>5, AsideWizard DEF DoFinal
  <1>6. ASSUME ExpireSession PROVE Goal
    BY <1>6, AsideWizard DEF ExpireSession
  <1>7. ASSUME GoDown \/ GoUp PROVE Goal
    BY <1>7, AsideWizard DEF GoDown, GoUp
  <1>8. ASSUME \E ok \in BOOLEAN : PerformStep(ok) PROVE Goal
    BY <1>8, PerformStepWizard
  <1>9. ASSUME EndInstallation PROVE Goal
    BY <1>9, EndWizard
  <1>10. ASSUME UNCHANGED vars PROVE Goal
    BY <1>10, AsideWizard DEF vars, server
  <1>11. Goal
    BY <1>2, <1>3, <1>4, <1>5, <1>6, <1>7, <1>8, <1>9, <1>10 DEF Next
  <1>12. QED
    BY <1>1, <1>11 DEF WizardInv

\* Whoever goes through the forms of the wizard (InstallController 48-75) in
\* a session that lasts has every step that needs its object run with one,
\* for any number of tabs and of steps and whatever the network loses.
THEOREM FollowedWizardAlways == Spec => []FollowedWizardFeedsInstaller
  <1>1. WizardInv => FollowedWizardFeedsInstaller
    <2> SUFFICES ASSUME WizardInv, NEW n \in DOMAIN log,
                        intact[log[n].list], log[n].step \in Required
                 PROVE  log[n].input # NoObject
      BY DEF FollowedWizardFeedsInstaller
    <2>1. log[n] \in Job!Entry
      BY DEF WizardInv, Inv, TypeOK
    <2>2. log[n].list \in Pages
      BY <2>1 DEF Job!Entry
    <2>3. QED
      BY <2>2 DEF WizardInv, FedInv
  <1>2. QED
    BY <1>1, InitWizard, NextWizard, PTL DEF Spec

=============================================================================
