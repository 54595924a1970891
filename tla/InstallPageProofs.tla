-------------------------- MODULE InstallPageProofs --------------------------
(***************************************************************************)
(* Proofs about the installation page, for any number of pages, steps and  *)
(* lost requests.                                                          *)
(***************************************************************************)
EXTENDS InstallPage, SequenceTheorems, TLAPS

\* What is known of one page: what it has to come, and whether the server
\* has answered it.
PageInv(p) ==
    /\ Calls(p, "install") + Calls(p, "status") + timers[p] =
         IF page[p] = "progress" THEN 1 ELSE 0
    /\ Has(p, "install", "sent") => ~answered[p]
    /\ Has(p, "install", "ok") => answered[p]
    /\ page[p] \in {"closed", "form"} => ~answered[p]

\* A running installation was given lists.
GivenInv == phase = "running" => given.page \in Pages

Inv == TypeOK /\ GivenInv /\ \A p \in Pages : PageInv(p)

\* A page that an action leaves alone.
Same(q) ==
    /\ page'[q] = page[q]
    /\ timers'[q] = timers[q]
    /\ net'[q] = net[q]
    /\ answered'[q] = answered[q]

LEMMA SameInv ==
  ASSUME NEW q \in Pages, Same(q), PageInv(q)
  PROVE  PageInv(q)' /\ Outcome[q]' = Outcome[q]
  BY DEF Same, PageInv, Calls, Has, Outcome

\* The request that a page sends.
LEMMA GetNet ==
  ASSUME TypeOK, NEW p \in Pages, NEW a \in Asked, Get(p, a)
  PROVE  /\ net' \in [Pages -> [Asked -> [Stages -> Nat]]]
         /\ \A q \in Pages \ {p} : net'[q] = net[q]
         /\ \A b \in Asked \ {a} : net'[p][b] = net[p][b]
         /\ net'[p][a]["sent"] = net[p][a]["sent"] + 1
         /\ \A u \in Stages \ {"sent"} : net'[p][a][u] = net[p][a][u]
  <1>1. net[p][a] \in [Stages -> Nat] /\ "sent" \in Stages
    BY DEF TypeOK, Stages
  <1>2. net[p][a]["sent"] + 1 \in Nat
    BY <1>1
  <1>3. QED
    BY <1>1, <1>2 DEF TypeOK, Get

\* A request that changes its stage.
LEMMA TurnNet ==
  ASSUME TypeOK, NEW p \in Pages, NEW a \in Asked,
         NEW s \in Stages, NEW t \in Stages, s # t,
         Has(p, a, s), Turn(p, a, s, t)
  PROVE  /\ net' \in [Pages -> [Asked -> [Stages -> Nat]]]
         /\ \A q \in Pages \ {p} : net'[q] = net[q]
         /\ \A b \in Asked \ {a} : net'[p][b] = net[p][b]
         /\ net'[p][a][s] = net[p][a][s] - 1
         /\ net'[p][a][t] = net[p][a][t] + 1
         /\ \A u \in Stages \ {s, t} : net'[p][a][u] = net[p][a][u]
  <1>1. net[p][a] \in [Stages -> Nat]
    BY DEF TypeOK
  <1>2. net[p][a][s] - 1 \in Nat /\ net[p][a][t] + 1 \in Nat
    BY <1>1 DEF Has
  <1>3. net' = [net EXCEPT ![p] = [net[p] EXCEPT ![a] =
                  [[net[p][a] EXCEPT ![s] = net[p][a][s] - 1]
                     EXCEPT ![t] = net[p][a][t] + 1]]]
    BY DEF Turn, TypeOK
  <1>4. QED
    BY <1>1, <1>2, <1>3 DEF TypeOK

\* A request that is used up.
LEMMA TakeNet ==
  ASSUME TypeOK, NEW p \in Pages, NEW a \in Asked, NEW s \in Stages,
         Has(p, a, s), Take(p, a, s)
  PROVE  /\ net' \in [Pages -> [Asked -> [Stages -> Nat]]]
         /\ \A q \in Pages \ {p} : net'[q] = net[q]
         /\ \A b \in Asked \ {a} : net'[p][b] = net[p][b]
         /\ net'[p][a][s] = net[p][a][s] - 1
         /\ \A u \in Stages \ {s} : net'[p][a][u] = net[p][a][u]
  <1>1. net[p][a] \in [Stages -> Nat] /\ net[p][a][s] - 1 \in Nat
    BY DEF TypeOK, Has
  <1>2. QED
    BY <1>1 DEF TypeOK, Take

-----------------------------------------------------------------------------
(* What each action does to its page.                                      *)

NetType == net \in [Pages -> [Asked -> [Stages -> Nat]]]

\* The counts of a page are natural numbers.
LEMMA Counts ==
  ASSUME NetType, NEW p \in Pages
  PROVE  \A a \in {"install", "status"},
            s \in {"sent", "orphan", "ok", "failed"} : net[p][a][s] \in Nat
  BY DEF NetType, Asked, Stages

LEMMA CallCounts ==
  ASSUME NetType, NEW p \in Pages
  PROVE  Calls(p, "install") \in Nat /\ Calls(p, "status") \in Nat
  <1>1. /\ net[p]["install"]["sent"] \in Nat /\ net[p]["install"]["ok"] \in Nat
        /\ net[p]["install"]["failed"] \in Nat /\ net[p]["status"]["sent"] \in Nat
        /\ net[p]["status"]["ok"] \in Nat /\ net[p]["status"]["failed"] \in Nat
    BY Counts
  <1>2. QED
    BY <1>1 DEF Calls

\* What an action of page p keeps.
PageKept(p) ==
    /\ NetType' /\ PageInv(p)'
    /\ page' \in [Pages -> PageStates]
    /\ timers' \in [Pages -> Nat]
    /\ answered' \in [Pages -> BOOLEAN]
    /\ \A q \in Pages \ {p} : Same(q)

\* The promised step an action of page p takes.
Told(p) == Outcome[p]

LEMMA IndexKeeps ==
  ASSUME TypeOK, NEW p \in Pages, PageInv(p), Index(p)
  PROVE  PageKept(p) /\ Told(p) = "none" /\ Told(p)' = "none" /\ UNCHANGED answered
  BY DEF TypeOK, PageInv, Index, PageKept, NetType, Same, Told, Outcome, PageStates, Calls, Has, WizardServed

LEMMA LoadFinalKeeps ==
  ASSUME TypeOK, NEW p \in Pages, PageInv(p), page[p] \in {"closed", "form"},
         LoadFinal(p), UNCHANGED <<timers, answered>>
  PROVE  PageKept(p) /\ Told(p) = "none" /\ Told(p)' = "waiting" /\ UNCHANGED answered
  <1>1. NetType /\ NetType'
    BY GetNet DEF TypeOK, NetType, LoadFinal, Asked
  <1>2. /\ Calls(p, "install")' = Calls(p, "install") + 1
        /\ Calls(p, "status")' = Calls(p, "status")
        /\ net'[p]["install"]["ok"] = net[p]["install"]["ok"]
    BY <1>1, GetNet, Counts DEF LoadFinal, Asked, Stages, Calls
  <1>3. page'[p] = "progress" /\ timers'[p] = timers[p]
    BY DEF LoadFinal, TypeOK
  <1>4. timers[p] \in Nat /\ Calls(p, "install") \in Nat /\ Calls(p, "status") \in Nat
    BY <1>1, CallCounts DEF TypeOK
  <1>5. PageInv(p)'
    BY <1>2, <1>3, <1>4 DEF PageInv, Has
  <1>6. \A q \in Pages \ {p} : Same(q)
    BY GetNet DEF LoadFinal, Asked, Same, TypeOK
  <1>7. Told(p) = "none" /\ Told(p)' = "waiting"
    BY <1>2, <1>3, <1>4, <1>5 DEF Told, Outcome, PageInv
  <1>8. QED
    BY <1>1, <1>5, <1>6, <1>7 DEF PageKept, LoadFinal, TypeOK, PageStates

\* A page that waits for the first answer.
LEMMA WaitingPage ==
  ASSUME TypeOK, NEW p \in Pages, PageInv(p),
         NEW s \in {"sent", "ok", "failed"}, Has(p, "install", s)
  PROVE  /\ Calls(p, "install") = 1 /\ Calls(p, "status") = 0 /\ timers[p] = 0
         /\ net[p]["install"][s] = 1
         /\ page[p] = "progress" /\ Told(p) = "waiting"
  <1>1. NetType
    BY DEF TypeOK, NetType
  <1>2. /\ net[p]["install"]["sent"] \in Nat /\ net[p]["install"]["ok"] \in Nat
        /\ net[p]["install"]["failed"] \in Nat
        /\ net[p]["install"]["orphan"] \in Nat
    BY <1>1, Counts
  <1>3. timers[p] \in Nat /\ Calls(p, "install") \in Nat /\ Calls(p, "status") \in Nat
    BY <1>1, CallCounts DEF TypeOK
  <1>4. Calls(p, "install") >= net[p]["install"][s] /\ net[p]["install"][s] > 0
    BY <1>2 DEF Calls, Has
  <1>5. Calls(p, "install") + Calls(p, "status") + timers[p] \in {0, 1}
    BY DEF PageInv
  <1>6. Calls(p, "install") = 1 /\ Calls(p, "status") = 0 /\ timers[p] = 0
    BY <1>2, <1>3, <1>4, <1>5
  <1>7. page[p] = "progress"
    BY <1>6 DEF PageInv
  <1>8. Told(p) = "waiting"
    BY <1>6, <1>7 DEF Told, Outcome
  <1>9. QED
    BY <1>2, <1>4, <1>6, <1>7, <1>8 DEF Calls

\* A page that waits for a later one, or for its timeout.
LEMMA AcceptedPage ==
  ASSUME TypeOK, NEW p \in Pages, PageInv(p),
         \/ timers[p] > 0
         \/ \E s \in {"sent", "ok", "failed"} : Has(p, "status", s)
  PROVE  /\ Calls(p, "install") = 0
         /\ Calls(p, "status") + timers[p] = 1
         /\ page[p] = "progress" /\ Told(p) = "accepted"
  <1>1. NetType
    BY DEF TypeOK, NetType
  <1>2. /\ net[p]["status"]["sent"] \in Nat /\ net[p]["status"]["ok"] \in Nat
        /\ net[p]["status"]["failed"] \in Nat
    BY <1>1, Counts
  <1>3. timers[p] \in Nat /\ Calls(p, "install") \in Nat /\ Calls(p, "status") \in Nat
    BY <1>1, CallCounts DEF TypeOK
  <1>4. Calls(p, "status") + timers[p] > 0
    <2>1. CASE timers[p] > 0
      BY <1>3, <2>1
    <2>2. CASE \E s \in {"sent", "ok", "failed"} : Has(p, "status", s)
      <3>1. PICK s \in {"sent", "ok", "failed"} : Has(p, "status", s)
        BY <2>2
      <3>2. Calls(p, "status") >= net[p]["status"][s] /\ net[p]["status"][s] > 0
        BY <1>2, <3>1 DEF Calls, Has
      <3>3. QED
        BY <1>2, <1>3, <3>2
    <2>3. QED
      BY <2>1, <2>2
  <1>5. Calls(p, "install") + Calls(p, "status") + timers[p] \in {0, 1}
    BY DEF PageInv
  <1>6. Calls(p, "install") = 0 /\ Calls(p, "status") + timers[p] = 1
    BY <1>3, <1>4, <1>5
  <1>7. Calls(p, "install") + Calls(p, "status") + timers[p] = 1
    BY <1>3, <1>6
  <1>8. page[p] = "progress"
    BY <1>7 DEF PageInv
  <1>9. Told(p) = "accepted"
    BY <1>6, <1>8 DEF Told, Outcome
  <1>10. QED
    BY <1>6, <1>8, <1>9

\* The calls to come when one is used up, is sent, or only moves on.
LEMMA TakenCalls ==
  ASSUME TypeOK, NEW p \in Pages, NEW a \in Asked,
         NEW s \in {"sent", "ok", "failed"}, Has(p, a, s), Take(p, a, s)
  PROVE  /\ NetType /\ NetType'
         /\ Calls(p, a)' = Calls(p, a) - 1
         /\ \A b \in Asked \ {a} : Calls(p, b)' = Calls(p, b)
         /\ \A t \in Stages \ {s} : Has(p, a, t)' = Has(p, a, t)
         /\ \A b \in Asked \ {a} : \A t \in Stages : Has(p, b, t)' = Has(p, b, t)
         /\ \A q \in Pages \ {p} : net'[q] = net[q]
  <1>1. NetType /\ NetType'
    BY TakeNet DEF TypeOK, NetType, Stages
  <1>2. /\ net'[p][a][s] = net[p][a][s] - 1
        /\ \A t \in Stages \ {s} : net'[p][a][t] = net[p][a][t]
        /\ \A b \in Asked \ {a} : net'[p][b] = net[p][b]
        /\ \A q \in Pages \ {p} : net'[q] = net[q]
    BY TakeNet DEF Stages
  <1>3. /\ net[p][a]["sent"] \in Nat /\ net[p][a]["ok"] \in Nat
        /\ net[p][a]["failed"] \in Nat
    BY <1>1, Counts DEF Asked
  <1>4. Calls(p, a)' = Calls(p, a) - 1
    BY <1>2, <1>3 DEF Calls, Stages
  <1>5. QED
    BY <1>1, <1>2, <1>4 DEF Calls, Has

LEMMA TurnedCalls ==
  ASSUME TypeOK, NEW p \in Pages, NEW a \in Asked,
         NEW s \in {"sent", "ok", "failed"}, NEW t \in {"sent", "ok", "failed"},
         s # t, Has(p, a, s), Turn(p, a, s, t)
  PROVE  /\ NetType /\ NetType'
         /\ Calls(p, a)' = Calls(p, a)
         /\ \A b \in Asked \ {a} : Calls(p, b)' = Calls(p, b)
         /\ net'[p][a][s] = net[p][a][s] - 1
         /\ \A u \in Stages \ {s, t} : Has(p, a, u)' = Has(p, a, u)
         /\ \A b \in Asked \ {a} : \A u \in Stages : Has(p, b, u)' = Has(p, b, u)
         /\ \A q \in Pages \ {p} : net'[q] = net[q]
  <1> s \in Stages /\ t \in Stages
    BY DEF Stages
  <1>1. NetType /\ NetType'
    <2>1. NetType
      BY DEF TypeOK, NetType
    <2>2. QED
      BY <2>1, TurnNet DEF NetType
  <1>2. /\ net'[p][a][s] = net[p][a][s] - 1
        /\ net'[p][a][t] = net[p][a][t] + 1
        /\ \A u \in Stages \ {s, t} : net'[p][a][u] = net[p][a][u]
        /\ \A b \in Asked \ {a} : net'[p][b] = net[p][b]
        /\ \A q \in Pages \ {p} : net'[q] = net[q]
    BY TurnNet
  <1>3. /\ net[p][a]["sent"] \in Nat /\ net[p][a]["ok"] \in Nat
        /\ net[p][a]["failed"] \in Nat
    BY <1>1, Counts DEF Asked
  <1>4. Calls(p, a)' = Calls(p, a)
    <2>1. \A u \in {"sent", "ok", "failed"} :
            net'[p][a][u] = net[p][a][u] +
              (IF u = s THEN 0 - 1 ELSE IF u = t THEN 1 ELSE 0)
      BY <1>2, <1>3 DEF Stages
    <2>2. \/ s = "sent" /\ t \in {"ok", "failed"}
          \/ s = "ok" /\ t \in {"sent", "failed"}
          \/ s = "failed" /\ t \in {"sent", "ok"}
      OBVIOUS
    <2>3. QED
      BY <1>3, <2>1, <2>2 DEF Calls
  <1>5. QED
    BY <1>1, <1>2, <1>4 DEF Calls, Has

-----------------------------------------------------------------------------
(* The callbacks of the page.                                              *)

LEMMA InstallAnsweredKeeps ==
  ASSUME TypeOK, NEW p \in Pages, PageInv(p), InstallAnswered(p)
  PROVE  /\ PageKept(p) /\ UNCHANGED answered /\ answered[p]
         /\ Told(p) = "waiting" /\ Told(p)' = "accepted"
  <1>1. /\ Calls(p, "install") = 1 /\ Calls(p, "status") = 0 /\ timers[p] = 0
        /\ page[p] = "progress" /\ Told(p) = "waiting"
        /\ net[p]["install"]["ok"] = 1
    BY WaitingPage DEF InstallAnswered
  <1>2. /\ NetType'
        /\ Calls(p, "install")' = 0 /\ Calls(p, "status")' = 0
        /\ Has(p, "install", "sent")' = Has(p, "install", "sent")
        /\ \A q \in Pages \ {p} : net'[q] = net[q]
    BY <1>1, TakenCalls DEF InstallAnswered, Asked, Stages
  <1>3. timers'[p] = 1 /\ page'[p] = "progress" /\ timers' \in [Pages -> Nat]
    BY <1>1 DEF InstallAnswered, TypeOK
  <1>4. UNCHANGED answered /\ answered[p]
    BY DEF InstallAnswered, PageInv
  <1>5. PageInv(p)'
    BY <1>2, <1>3, <1>4 DEF PageInv
  <1>6. \A q \in Pages \ {p} : Same(q)
    BY <1>2 DEF InstallAnswered, Same, TypeOK
  <1>7. Told(p)' = "accepted"
    BY <1>2, <1>3 DEF Told, Outcome
  <1>8. QED
    BY <1>1, <1>2, <1>3, <1>4, <1>5, <1>6, <1>7 DEF PageKept, InstallAnswered, TypeOK

LEMMA InstallFailedKeeps ==
  ASSUME TypeOK, NEW p \in Pages, PageInv(p), InstallFailed(p)
  PROVE  /\ PageKept(p) /\ UNCHANGED answered
         /\ Told(p) = "waiting" /\ Told(p)' = "failed"
  <1>1. /\ Calls(p, "install") = 1 /\ Calls(p, "status") = 0 /\ timers[p] = 0
        /\ Told(p) = "waiting"
    BY WaitingPage DEF InstallFailed
  <1>2. /\ NetType'
        /\ Calls(p, "install")' = 0 /\ Calls(p, "status")' = 0
        /\ Has(p, "install", "sent")' = Has(p, "install", "sent")
        /\ Has(p, "install", "ok")' = Has(p, "install", "ok")
        /\ \A q \in Pages \ {p} : net'[q] = net[q]
    BY <1>1, TakenCalls DEF InstallFailed, Asked, Stages
  <1>3. timers'[p] = 0 /\ page'[p] = "error" /\ UNCHANGED <<timers, answered>>
    BY <1>1 DEF InstallFailed, TypeOK
  <1>4. PageInv(p)'
    BY <1>2, <1>3 DEF PageInv
  <1>5. \A q \in Pages \ {p} : Same(q)
    BY <1>2 DEF InstallFailed, Same, TypeOK
  <1>6. Told(p)' = "failed"
    BY <1>3 DEF Told, Outcome
  <1>7. QED
    BY <1>1, <1>2, <1>3, <1>4, <1>5, <1>6
    DEF PageKept, InstallFailed, TypeOK, PageStates

LEMMA CheckStatusKeeps ==
  ASSUME TypeOK, NEW p \in Pages, PageInv(p), CheckStatus(p)
  PROVE  PageKept(p) /\ UNCHANGED answered /\ Told(p)' = Told(p)
  <1>1. /\ Calls(p, "install") = 0 /\ Calls(p, "status") + timers[p] = 1
        /\ page[p] = "progress" /\ Told(p) = "accepted"
    BY AcceptedPage DEF CheckStatus
  <1>2. NetType /\ NetType'
    BY GetNet DEF TypeOK, NetType, CheckStatus, Asked
  <1>3. /\ timers[p] \in Nat /\ timers[p] > 0 /\ Calls(p, "status") \in Nat
    BY <1>2, CallCounts DEF TypeOK, CheckStatus
  <1>4. /\ net'[p]["install"] = net[p]["install"]
        /\ net'[p]["status"]["sent"] = net[p]["status"]["sent"] + 1
        /\ net'[p]["status"]["ok"] = net[p]["status"]["ok"]
        /\ net'[p]["status"]["failed"] = net[p]["status"]["failed"]
        /\ \A q \in Pages \ {p} : net'[q] = net[q]
    BY GetNet DEF CheckStatus, Asked, Stages
  <1>5. /\ net[p]["status"]["sent"] \in Nat /\ net[p]["status"]["ok"] \in Nat
        /\ net[p]["status"]["failed"] \in Nat
    BY <1>2, Counts
  <1>6. Calls(p, "install")' = 0 /\ Calls(p, "status")' = Calls(p, "status") + 1
    BY <1>1, <1>4, <1>5 DEF Calls
  <1>7. timers'[p] = timers[p] - 1 /\ timers' \in [Pages -> Nat]
    BY <1>3 DEF CheckStatus, TypeOK
  <1>8. UNCHANGED <<page, answered>>
    BY DEF CheckStatus
  <1>9. PageInv(p)'
    <2>1. Calls(p, "install")' + Calls(p, "status")' + timers'[p] = 1
      BY <1>1, <1>3, <1>6, <1>7
    <2>2. QED
      BY <1>1, <1>4, <1>8, <2>1 DEF PageInv, Has
  <1>10. \A q \in Pages \ {p} : Same(q)
    BY <1>4 DEF CheckStatus, Same, TypeOK
  <1>11. Told(p)' = "accepted"
    BY <1>1, <1>6, <1>8 DEF Told, Outcome
  <1>12. QED
    BY <1>1, <1>2, <1>7, <1>8, <1>9, <1>10, <1>11 DEF PageKept, TypeOK

LEMMA StatusAnsweredKeeps ==
  ASSUME TypeOK, NEW p \in Pages, PageInv(p), StatusAnswered(p)
  PROVE  /\ PageKept(p) /\ UNCHANGED answered
         /\ Told(p) = "accepted" /\ Told(p)' = "confirmed"
  <1>1. /\ Calls(p, "install") = 0 /\ Calls(p, "status") + timers[p] = 1
        /\ page[p] = "progress" /\ Told(p) = "accepted"
    BY AcceptedPage DEF StatusAnswered
  <1>2. /\ NetType /\ NetType'
        /\ Calls(p, "install")' = 0 /\ Calls(p, "status")' = Calls(p, "status") - 1
        /\ Has(p, "install", "sent")' = Has(p, "install", "sent")
        /\ Has(p, "install", "ok")' = Has(p, "install", "ok")
        /\ \A q \in Pages \ {p} : net'[q] = net[q]
    BY <1>1, TakenCalls DEF StatusAnswered, Asked, Stages
  <1>3. page'[p] = "confirmed" /\ UNCHANGED <<timers, answered>>
    BY DEF StatusAnswered, TypeOK
  <1>4. timers[p] \in Nat /\ Calls(p, "status") \in Nat
    BY <1>2, CallCounts DEF TypeOK
  <1>5. Calls(p, "install")' + Calls(p, "status")' + timers'[p] = 0
    BY <1>1, <1>2, <1>3, <1>4
  <1>6. PageInv(p)'
    BY <1>2, <1>3, <1>5 DEF PageInv
  <1>7. \A q \in Pages \ {p} : Same(q)
    BY <1>2 DEF StatusAnswered, Same, TypeOK
  <1>8. Told(p)' = "confirmed"
    BY <1>3 DEF Told, Outcome
  <1>9. QED
    BY <1>1, <1>2, <1>3, <1>6, <1>7, <1>8
    DEF PageKept, StatusAnswered, TypeOK, PageStates

LEMMA StatusFailedKeeps ==
  ASSUME TypeOK, NEW p \in Pages, PageInv(p), StatusFailed(p)
  PROVE  PageKept(p) /\ UNCHANGED answered /\ Told(p)' = Told(p)
  <1>1. /\ Calls(p, "install") = 0 /\ Calls(p, "status") + timers[p] = 1
        /\ page[p] = "progress" /\ Told(p) = "accepted"
    BY AcceptedPage DEF StatusFailed
  <1>2. /\ NetType /\ NetType'
        /\ Calls(p, "install")' = 0 /\ Calls(p, "status")' = Calls(p, "status") - 1
        /\ Has(p, "install", "sent")' = Has(p, "install", "sent")
        /\ Has(p, "install", "ok")' = Has(p, "install", "ok")
        /\ \A q \in Pages \ {p} : net'[q] = net[q]
    BY <1>1, TakenCalls DEF StatusFailed, Asked, Stages
  <1>3. UNCHANGED <<page, answered>>
    BY DEF StatusFailed
  <1>4. timers[p] \in Nat /\ Calls(p, "status") \in Nat
    BY <1>2, CallCounts DEF TypeOK
  <1>5. timers'[p] = timers[p] + 1 /\ timers' \in [Pages -> Nat]
    BY <1>4 DEF StatusFailed, TypeOK
  <1>6. Calls(p, "install")' + Calls(p, "status")' + timers'[p] = 1
    BY <1>1, <1>2, <1>4, <1>5
  <1>7. PageInv(p)'
    BY <1>1, <1>2, <1>3, <1>6 DEF PageInv
  <1>8. \A q \in Pages \ {p} : Same(q)
    BY <1>2 DEF StatusFailed, Same, TypeOK
  <1>9. Told(p)' = "accepted"
    BY <1>1, <1>2, <1>3 DEF Told, Outcome
  <1>10. QED
    BY <1>1, <1>2, <1>3, <1>5, <1>7, <1>8, <1>9 DEF PageKept, TypeOK

LEMMA LeaveKeeps ==
  ASSUME TypeOK, NEW p \in Pages, PageInv(p), Leave(p)
  PROVE  /\ PageKept(p) /\ UNCHANGED answered
         /\ Told(p) # "left" /\ Told(p)' = "left"
  <1> DEFINE N == [a \in Asked |-> [s \in Stages |->
                     IF s = "orphan" /\ a = "install"
                     THEN net[p]["install"]["orphan"] + net[p]["install"]["sent"]
                     ELSE 0]]
  <1>1. net' = [net EXCEPT ![p] = N]
    BY DEF Leave
  <1>2. /\ net[p]["install"]["orphan"] \in Nat /\ net[p]["install"]["sent"] \in Nat
    BY Counts DEF TypeOK, NetType
  <1>3. N \in [Asked -> [Stages -> Nat]]
    BY <1>2
  <1>4. /\ net' \in [Pages -> [Asked -> [Stages -> Nat]]] /\ net'[p] = N
        /\ \A q \in Pages \ {p} : net'[q] = net[q]
    BY <1>1, <1>3 DEF TypeOK
  <1>5. \A a \in {"install", "status"}, s \in {"sent", "ok", "failed"} :
          net'[p][a][s] = 0
    BY <1>4 DEF Asked, Stages
  <1>6. Calls(p, "install")' = 0 /\ Calls(p, "status")' = 0
    BY <1>5 DEF Calls
  <1>7. /\ page'[p] = "left" /\ timers'[p] = 0 /\ UNCHANGED answered
        /\ page' \in [Pages -> PageStates] /\ timers' \in [Pages -> Nat]
    BY DEF Leave, TypeOK, PageStates, server
  <1>8. PageInv(p)'
    BY <1>5, <1>6, <1>7 DEF PageInv, Has
  <1>9. \A q \in Pages \ {p} : Same(q)
    BY <1>4, <1>7 DEF Leave, Same, TypeOK
  <1>10. Told(p) # "left" /\ Told(p)' = "left"
    <2>1. page[p] \in {"form", "progress", "confirmed", "error"}
      BY DEF Leave, TypeOK, PageStates
    <2>2. QED
      BY <1>7, <2>1 DEF Told, Outcome
  <1>11. QED
    BY <1>4, <1>7, <1>8, <1>9, <1>10 DEF PageKept, NetType, TypeOK

-----------------------------------------------------------------------------
(* What the server and the network do to a page.                           *)

LEMMA MovedOn ==
  ASSUME TypeOK, NEW p \in Pages, PageInv(p), NetType',
         UNCHANGED <<page, timers, answered>>,
         Calls(p, "install")' = Calls(p, "install"),
         Calls(p, "status")' = Calls(p, "status"),
         Has(p, "install", "sent")' => Has(p, "install", "sent"),
         Has(p, "install", "ok")' => Has(p, "install", "ok"),
         \A q \in Pages \ {p} : net'[q] = net[q]
  PROVE  PageKept(p) /\ UNCHANGED answered /\ Told(p)' = Told(p)
  <1>1. PageInv(p)'
    BY DEF PageInv
  <1>2. \A q \in Pages \ {p} : Same(q)
    BY DEF Same
  <1>3. Told(p)' = Told(p)
    BY DEF Told, Outcome
  <1>4. QED
    BY <1>1, <1>2, <1>3 DEF PageKept, TypeOK

LEMMA ServeInstallKeeps ==
  ASSUME TypeOK, NEW p \in Pages, PageInv(p), ServeInstall(p, "sent")
  PROVE  /\ PageKept(p)
         /\ ~answered[p] /\ answered' = [answered EXCEPT ![p] = TRUE]
         /\ Told(p) = "waiting" /\ Told(p)' = "waiting"
  <1>1. /\ Turn(p, "install", "sent", "ok") /\ Has(p, "install", "sent")
        /\ answered' = [answered EXCEPT ![p] = TRUE]
        /\ UNCHANGED <<page, timers>>
    BY DEF ServeInstall, browser
  <1>2. /\ Calls(p, "install") = 1 /\ Calls(p, "status") = 0 /\ timers[p] = 0
        /\ net[p]["install"]["sent"] = 1
        /\ page[p] = "progress" /\ Told(p) = "waiting"
    BY <1>1, WaitingPage
  <1>3. /\ NetType'
        /\ Calls(p, "install")' = 1 /\ Calls(p, "status")' = 0
        /\ ~Has(p, "install", "sent")'
        /\ \A q \in Pages \ {p} : net'[q] = net[q]
    BY <1>1, <1>2, TurnedCalls DEF Asked, Has
  <1>4. ~answered[p] /\ answered'[p] /\ answered' \in [Pages -> BOOLEAN]
    BY <1>1 DEF PageInv, TypeOK
  <1>5. PageInv(p)'
    BY <1>1, <1>2, <1>3, <1>4 DEF PageInv
  <1>6. \A q \in Pages \ {p} : Same(q)
    BY <1>1, <1>3 DEF Same, TypeOK
  <1>7. Told(p)' = "waiting"
    BY <1>1, <1>2, <1>3 DEF Told, Outcome
  <1>8. QED
    BY <1>1, <1>2, <1>3, <1>4, <1>5, <1>6, <1>7 DEF PageKept, TypeOK

LEMMA ServeOrphanKeeps ==
  ASSUME TypeOK, NEW p \in Pages, PageInv(p), ServeInstall(p, "orphan")
  PROVE  PageKept(p) /\ UNCHANGED answered /\ Told(p)' = Told(p)
  <1>1. Take(p, "install", "orphan") /\ Has(p, "install", "orphan")
    BY DEF ServeInstall
  <1>2. UNCHANGED <<page, timers, answered>>
    BY DEF ServeInstall, browser
  <1>3. /\ NetType'
        /\ \A q \in Pages \ {p} : net'[q] = net[q]
        /\ net'[p]["status"] = net[p]["status"]
        /\ net'[p]["install"]["sent"] = net[p]["install"]["sent"]
        /\ net'[p]["install"]["ok"] = net[p]["install"]["ok"]
        /\ net'[p]["install"]["failed"] = net[p]["install"]["failed"]
    BY <1>1, TakeNet DEF NetType, Asked, Stages
  <1>4. QED
    BY <1>2, <1>3, MovedOn DEF Calls, Has

LEMMA ServeStatusKeeps ==
  ASSUME TypeOK, NEW p \in Pages, PageInv(p), ServeStatus(p)
  PROVE  PageKept(p) /\ UNCHANGED answered /\ Told(p)' = Told(p)
  <1>1. /\ Turn(p, "status", "sent", "ok") /\ Has(p, "status", "sent")
        /\ UNCHANGED <<page, timers, answered>>
    BY DEF ServeStatus, browser
  <1>2. /\ NetType'
        /\ Calls(p, "status")' = Calls(p, "status")
        /\ Calls(p, "install")' = Calls(p, "install")
        /\ Has(p, "install", "sent")' = Has(p, "install", "sent")
        /\ Has(p, "install", "ok")' = Has(p, "install", "ok")
        /\ \A q \in Pages \ {p} : net'[q] = net[q]
    BY <1>1, TurnedCalls DEF Asked, Stages
  <1>3. QED
    BY <1>1, <1>2, MovedOn

\* A request that goes on to "failed".
LEMMA FailedCall ==
  ASSUME TypeOK, NEW p \in Pages, NEW a \in Asked, PageInv(p),
         NEW s \in {"sent", "ok"}, Has(p, a, s), Turn(p, a, s, "failed"),
         UNCHANGED <<page, timers, answered>>
  PROVE  PageKept(p) /\ UNCHANGED answered /\ Told(p)' = Told(p)
  <1>1. /\ NetType'
        /\ Calls(p, a)' = Calls(p, a)
        /\ \A b \in Asked \ {a} : Calls(p, b)' = Calls(p, b)
        /\ net'[p][a][s] = net[p][a][s] - 1
        /\ \A u \in Stages \ {s, "failed"} : Has(p, a, u)' = Has(p, a, u)
        /\ \A b \in Asked \ {a} : \A u \in Stages : Has(p, b, u)' = Has(p, b, u)
        /\ \A q \in Pages \ {p} : net'[q] = net[q]
    BY TurnedCalls
  <1>2. \A b \in Asked : Calls(p, b)' = Calls(p, b)
    BY <1>1
  <1>3. \A b \in Asked, u \in {"sent", "ok"} : Has(p, b, u)' => Has(p, b, u)
    BY <1>1 DEF Stages, Has
  <1>4. QED
    BY <1>1, <1>2, <1>3, MovedOn DEF Asked

LEMMA LoseKeeps ==
  ASSUME TypeOK, NEW p \in Pages, NEW a \in Asked, PageInv(p), Lose(p, a)
  PROVE  PageKept(p) /\ UNCHANGED answered /\ Told(p)' = Told(p)
  <1>1. UNCHANGED <<page, timers, answered>>
    BY DEF Lose, browser
  <1>2. CASE Has(p, a, "sent") /\ Turn(p, a, "sent", "failed")
    BY <1>1, <1>2, FailedCall
  <1>3. CASE Has(p, a, "ok") /\ Turn(p, a, "ok", "failed")
    BY <1>1, <1>3, FailedCall
  <1>4. CASE /\ a = "install"
             /\ Has(p, a, "sent")
             /\ net' = [net EXCEPT ![p][a]["sent"] = @ - 1,
                                   ![p][a]["orphan"] = @ + 1,
                                   ![p][a]["failed"] = @ + 1]
    <2> DEFINE n == net[p]["install"]
    <2>1. NetType /\ n \in [Stages -> Nat]
      BY DEF TypeOK, NetType, Asked
    <2>2. /\ n["sent"] \in Nat /\ n["ok"] \in Nat /\ n["failed"] \in Nat
          /\ n["orphan"] \in Nat /\ n["sent"] > 0
      BY <1>4, <2>1 DEF Stages, Has
    <2> DEFINE m == [[[n EXCEPT !["sent"] = n["sent"] - 1]
                         EXCEPT !["orphan"] = n["orphan"] + 1]
                         EXCEPT !["failed"] = n["failed"] + 1]
    <2>3. m \in [Stages -> Nat]
      <3>1. /\ n["sent"] - 1 \in Nat /\ n["orphan"] + 1 \in Nat
            /\ n["failed"] + 1 \in Nat
        BY <2>2
      <3>2. QED
        BY <2>1, <3>1
    <2>4. /\ m["sent"] = n["sent"] - 1 /\ m["ok"] = n["ok"]
          /\ m["failed"] = n["failed"] + 1
      BY <2>1 DEF Stages
    <2>5. net' = [net EXCEPT ![p] = [net[p] EXCEPT !["install"] = m]]
      BY <1>4, <2>1 DEF TypeOK
    <2> HIDE DEF m
    <2>6. /\ NetType'
          /\ net'[p]["install"] = m
          /\ net'[p]["status"] = net[p]["status"]
          /\ \A q \in Pages \ {p} : net'[q] = net[q]
      BY <2>3, <2>5 DEF TypeOK, NetType, Asked
    <2>7. Calls(p, "install")' = Calls(p, "install")
      BY <2>2, <2>4, <2>6 DEF Calls
    <2>8. /\ Calls(p, "status")' = Calls(p, "status")
          /\ Has(p, "install", "sent")' => Has(p, "install", "sent")
          /\ Has(p, "install", "ok")' => Has(p, "install", "ok")
      BY <2>2, <2>4, <2>6 DEF Calls, Has
    <2>9. QED
      BY <1>1, <2>6, <2>7, <2>8, MovedOn
  <1>5. QED
    BY <1>2, <1>3, <1>4 DEF Lose

-----------------------------------------------------------------------------
(* All pages at a step of one of them.                                     *)

\* What a step keeps of the pages, and how the promise sees it.
PagesKept ==
    /\ NetType'
    /\ page' \in [Pages -> PageStates]
    /\ timers' \in [Pages -> Nat]
    /\ answered' \in [Pages -> BOOLEAN]
    /\ \A q \in Pages : PageInv(q)'
    /\ [Promise!Next]_<<Outcome, answered>>

LEMMA OthersKept ==
  ASSUME \A q \in Pages : PageInv(q), NEW p \in Pages, PageKept(p)
  PROVE  /\ \A q \in Pages : PageInv(q)'
         /\ Outcome' = [Outcome EXCEPT ![p] = Told(p)']
  <1>1. \A q \in Pages \ {p} : PageInv(q)' /\ Outcome[q]' = Outcome[q]
    BY SameInv DEF PageKept
  <1>2. PageInv(p)'
    BY DEF PageKept
  <1> DEFINE O(q) ==
         CASE page[q] \in {"closed", "form"} -> "none"
           [] page[q] = "progress" ->
                IF Calls(q, "install") > 0 THEN "waiting" ELSE "accepted"
           [] page[q] = "error" -> "failed"
           [] OTHER -> page[q]
  <1>3. Outcome = [q \in Pages |-> O(q)] /\ Outcome' = [q \in Pages |-> O(q)']
    BY DEF Outcome
  <1> HIDE DEF O
  <1>4. QED
    BY <1>1, <1>2, <1>3 DEF Told

\* A step that the promise does not see.
LEMMA Unseen ==
  ASSUME \A q \in Pages : PageInv(q), NEW p \in Pages, PageKept(p),
         UNCHANGED answered, Told(p)' = Told(p)
  PROVE  PagesKept
  <1>1. /\ \A q \in Pages : PageInv(q)'
        /\ Outcome' = [Outcome EXCEPT ![p] = Outcome[p]]
    BY OthersKept DEF Told
  <1>2. Outcome' = Outcome
    BY <1>1 DEF Outcome
  <1>3. QED
    BY <1>1, <1>2 DEF PagesKept, PageKept

\* A step that the promise sees as a turn of page p.
LEMMA Seen ==
  ASSUME \A q \in Pages : PageInv(q), NEW p \in Pages, PageKept(p),
         UNCHANGED answered,
         \/ Told(p) = "none" /\ Told(p)' = "waiting"
         \/ answered[p] /\ Told(p) = "waiting" /\ Told(p)' = "accepted"
         \/ Told(p) = "accepted" /\ Told(p)' = "confirmed"
         \/ Told(p) = "waiting" /\ Told(p)' = "failed"
         \/ Told(p) # "left" /\ Told(p)' = "left"
  PROVE  PagesKept
  <1>1. /\ \A q \in Pages : PageInv(q)'
        /\ Outcome' = [Outcome EXCEPT ![p] = Told(p)']
    BY OthersKept
  <1>2. \/ Promise!Ask(p) \/ Promise!Accept(p) \/ Promise!Confirm(p)
        \/ Promise!Fail(p) \/ Promise!Leave(p)
    BY <1>1 DEF Told, Promise!Ask, Promise!Accept, Promise!Confirm,
                Promise!Fail, Promise!Leave, Promise!Turn
  <1>3. Promise!Next
    BY <1>2 DEF Promise!Next
  <1>4. QED
    BY <1>1, <1>3 DEF PagesKept, PageKept

LEMMA PageStepKeeps ==
  ASSUME Inv, NEW p \in Pages,
         Callback(p) \/ User(p) \/ Reply(p) \/ ServeInstall(p, "orphan")
  PROVE  PagesKept
  <1> TypeOK /\ PageInv(p) /\ \A q \in Pages : PageInv(q)
    BY DEF Inv
  <1>1. CASE InstallAnswered(p)
    BY <1>1, InstallAnsweredKeeps, Seen
  <1>2. CASE InstallFailed(p)
    BY <1>2, InstallFailedKeeps, Seen
  <1>3. CASE CheckStatus(p)
    BY <1>3, CheckStatusKeeps, Unseen
  <1>4. CASE StatusAnswered(p)
    BY <1>4, StatusAnsweredKeeps, Seen
  <1>5. CASE StatusFailed(p)
    BY <1>5, StatusFailedKeeps, Unseen
  <1>6. CASE Index(p)
    BY <1>6, IndexKeeps, Unseen
  <1>7. CASE Submit(p) /\ form[p] < StepCount
    <2>1. UNCHANGED <<page, net, timers, answered>>
      <3>1. form[p] \in Nat /\ StepCount \in Nat
        BY PageAssumption DEF TypeOK, Step
      <3>2. form[p] # StepCount
        BY <1>7, <3>1
      <3>3. QED
        BY <1>7, <3>2 DEF Submit
    <2>2. NetType /\ NetType'
      BY <2>1 DEF TypeOK, NetType
    <2>3. PageKept(p) /\ Told(p)' = Told(p)
      BY <2>1, <2>2, MovedOn DEF Calls, Has
    <2>4. QED
      BY <2>1, <2>3, Unseen
  <1>8. CASE Submit(p) /\ form[p] = StepCount
    <2>1. /\ LoadFinal(p) /\ UNCHANGED <<timers, answered>>
          /\ page[p] \in {"closed", "form"}
      <3>1. ~(form[p] < StepCount)
        BY <1>8, PageAssumption
      <3>2. QED
        BY <1>8, <3>1 DEF Submit
    <2>2. QED
      BY <2>1, LoadFinalKeeps, Seen
  <1>9. CASE Final(p)
    <2>1. /\ LoadFinal(p) /\ UNCHANGED <<timers, answered>>
          /\ page[p] \in {"closed", "form"}
      BY <1>9 DEF Final
    <2>2. QED
      BY <2>1, LoadFinalKeeps, Seen
  <1>10. CASE Leave(p)
    BY <1>10, LeaveKeeps, Seen
  <1>11. CASE ServeInstall(p, "sent")
    <2>1. /\ PageKept(p) /\ ~answered[p]
          /\ answered' = [answered EXCEPT ![p] = TRUE]
          /\ Told(p) = "waiting" /\ Told(p)' = "waiting"
      BY <1>11, ServeInstallKeeps
    <2>2. /\ \A q \in Pages : PageInv(q)'
          /\ Outcome' = [Outcome EXCEPT ![p] = Outcome[p]]
      BY <2>1, OthersKept DEF Told
    <2>3. Outcome' = Outcome
      BY <2>2 DEF Outcome
    <2>4. Promise!Answer(p)
      BY <2>1, <2>3 DEF Promise!Answer, Told
    <2>5. QED
      BY <2>1, <2>2, <2>4 DEF PagesKept, PageKept, Promise!Next
  <1>12. CASE ServeInstall(p, "orphan")
    BY <1>12, ServeOrphanKeeps, Unseen
  <1>13. CASE ServeStatus(p)
    BY <1>13, ServeStatusKeeps, Unseen
  <1>14. CASE \E a \in Asked : Lose(p, a)
    BY <1>14, LoseKeeps, Unseen
  <1>15. Submit(p) => form[p] < StepCount \/ form[p] = StepCount
    BY DEF Submit
  <1>16. QED
    BY <1>1, <1>2, <1>3, <1>4, <1>5, <1>6, <1>7, <1>8, <1>9, <1>10, <1>11,
       <1>12, <1>13, <1>14, <1>15 DEF Callback, User, Reply

\* A step that leaves the pages alone.
LEMMA PagesAlone ==
  ASSUME Inv, UNCHANGED <<page, timers, net, answered>>
  PROVE  PagesKept
  <1>1. \A q \in Pages : PageInv(q)'
    BY SameInv DEF Same, Inv
  <1>2. NetType' /\ UNCHANGED <<Outcome, answered>>
    BY DEF NetType, Inv, TypeOK, Outcome, Calls
  <1>3. QED
    BY <1>1, <1>2 DEF PagesKept, Inv, TypeOK

-----------------------------------------------------------------------------
(* The types of the server and of the installer.                           *)

ServerType ==
    /\ form \in [Pages -> Step]
    /\ session \subseteq Step
    /\ intact \in [Pages -> BOOLEAN]
    /\ installed \in BOOLEAN
    /\ up \in BOOLEAN
    /\ refreshDue \in BOOLEAN
    /\ final \in [Pages -> BOOLEAN]
    /\ failures \in 0..MaxFailures

InstallerType ==
    /\ phase \in {"idle", "running", "finished"}
    /\ log \in Seq(Job!Entry)
    /\ given \in [page : Pages \cup {None}, objects : SUBSET Step]
    /\ GivenInv

LEMMA StoreType ==
  ASSUME session \subseteq Step, NEW i \in Step, Store(i)
  PROVE  session' \subseteq Step
  BY DEF Store

LEMMA HandOverType ==
  ASSUME InstallerType, session \subseteq Step, NEW p \in Pages, HandOver(p)
  PROVE  InstallerType'
  <1>1. CASE UNCHANGED installer
    BY <1>1 DEF installer, InstallerType, GivenInv
  <1>2. CASE /\ phase \in {"idle", "running"}
             /\ given' = [page |-> p, objects |-> session]
             /\ IF phase = "idle" THEN Job!Begin ELSE UNCHANGED <<phase, log>>
    <2>1. phase' = "running" /\ UNCHANGED log
      BY <1>2 DEF Job!Begin
    <2>2. given' \in [page : Pages \cup {None}, objects : SUBSET Step]
      BY <1>2
    <2>3. given'.page = p
      BY <1>2
    <2>4. QED
      BY <2>1, <2>2, <2>3 DEF InstallerType, GivenInv
  <1>3. QED
    BY <1>1, <1>2 DEF HandOver

LEMMA PerformStepType ==
  ASSUME InstallerType, NEW ok \in BOOLEAN, PerformStep(ok)
  PROVE  InstallerType'
  <1> DEFINE e == [step |-> Len(log) + 1, list |-> given.page,
                   input |-> IF Len(log) + 1 \in given.objects
                             THEN given.page ELSE NoObject,
                   ok |-> ok]
  <1>1. Job!Perform(e) /\ Len(log) < StepCount /\ UNCHANGED given
    BY DEF PerformStep
  <1>2. phase = "running" /\ UNCHANGED phase /\ log' = Append(log, e)
    BY <1>1 DEF Job!Perform
  <1>3. given.page \in Pages
    BY <1>2 DEF InstallerType, GivenInv
  <1>4. Len(log) + 1 \in 1..StepCount
    BY <1>1, PageAssumption DEF InstallerType
  <1>5. e \in Job!Entry
    BY <1>3, <1>4 DEF Job!Entry
  <1>6. log' \in Seq(Job!Entry)
    BY <1>2, <1>5 DEF InstallerType
  <1>7. QED
    BY <1>1, <1>2, <1>6 DEF InstallerType, GivenInv

LEMMA TypeStep ==
  ASSUME Inv, [Next]_vars
  PROVE  ServerType' /\ InstallerType'
  <1>1. ServerType /\ InstallerType
    BY DEF Inv, TypeOK, ServerType, InstallerType
  <1>2. ASSUME NEW p \in Pages, Callback(p) PROVE ServerType' /\ InstallerType'
    BY <1>1, <1>2
    DEF Callback, InstallAnswered, InstallFailed, CheckStatus, StatusAnswered,
        StatusFailed, ServerType, InstallerType, GivenInv, server, installer
  <1>3. ASSUME NEW p \in Pages, User(p) PROVE ServerType' /\ InstallerType'
    <2>1. CASE Index(p)
      BY <1>1, <2>1 DEF Index, ServerType, InstallerType, GivenInv, installer
    <2>2. CASE Submit(p)
      <3>1. session' \subseteq Step
        BY <1>1, <2>2, StoreType DEF Submit, ServerType
      <3>2. form' \in [Pages -> Step]
        <4>1. form[p] \in Nat /\ form[p] >= 1 /\ StepCount \in Nat /\ StepCount >= 1
          BY <1>1, PageAssumption DEF ServerType, Step
        <4>2. \/ form[p] < StepCount /\ form' = [form EXCEPT ![p] = form[p] + 1]
              \/ form' = [form EXCEPT ![p] = 1]
          BY <2>2 DEF Submit
        <4>3. (form[p] < StepCount => form[p] + 1 \in Step) /\ 1 \in Step
          BY <4>1 DEF Step
        <4>4. QED
          BY <1>1, <4>2, <4>3 DEF ServerType
      <3>3. QED
        BY <1>1, <2>2, <3>1, <3>2
        DEF Submit, ServerType, InstallerType, GivenInv, installer
    <2>3. CASE Final(p)
      BY <1>1, <2>3 DEF Final, ServerType, InstallerType, GivenInv, installer, server
    <2>4. CASE Leave(p)
      <3>1. form' \in [Pages -> Step]
        BY <1>1, <2>4, PageAssumption DEF Leave, ServerType, Step
      <3>2. QED
        BY <1>1, <2>4, <3>1
        DEF Leave, ServerType, InstallerType, GivenInv, installer, server
    <2>5. QED
      BY <1>3, <2>1, <2>2, <2>3, <2>4 DEF User
  <1>4. ASSUME NEW p \in Pages, NEW s \in Stages, ServeInstall(p, s)
        PROVE  ServerType' /\ InstallerType'
    <2>1. HandOver(p)
      BY <1>4 DEF ServeInstall
    <2>2. final' \in [Pages -> BOOLEAN]
      BY <1>1, <1>4 DEF ServeInstall, ServerType
    <2>3. QED
      BY <1>1, <1>4, <2>1, <2>2, HandOverType DEF ServeInstall, ServerType, browser
  <1>5. ASSUME NEW p \in Pages, ServeStatus(p) PROVE ServerType' /\ InstallerType'
    BY <1>1, <1>5
    DEF ServeStatus, ServerType, InstallerType, GivenInv, installer, server, browser
  <1>6. ASSUME NEW p \in Pages, NEW a \in Asked, Lose(p, a)
        PROVE  ServerType' /\ InstallerType'
    <2>1. failures' \in 0..MaxFailures
      BY <1>1, <1>6, PageAssumption DEF Lose, ServerType
    <2>2. QED
      BY <1>1, <1>6, <2>1
      DEF Lose, ServerType, InstallerType, GivenInv, installer, server, browser
  <1>7. ASSUME NEW p \in Pages, DoFinal(p) PROVE ServerType' /\ InstallerType'
    <2>1. final' \in [Pages -> BOOLEAN] /\ refreshDue' \in BOOLEAN
      BY <1>1, <1>7 DEF DoFinal, ServerType
    <2>2. QED
      BY <1>1, <1>7, <2>1
      DEF DoFinal, ServerType, InstallerType, GivenInv, installer, browser
  <1>8. CASE ExpireSession \/ GoDown \/ GoUp
    BY <1>1, <1>8
    DEF ExpireSession, GoDown, GoUp, ServerType, InstallerType, GivenInv,
        installer, browser
  <1>9. ASSUME NEW ok \in BOOLEAN, PerformStep(ok)
        PROVE  ServerType' /\ InstallerType'
    <2>1. InstallerType'
      BY <1>1, <1>9, PerformStepType
    <2>2. QED
      BY <1>1, <1>9, <2>1 DEF PerformStep, ServerType, server, browser
  <1>10. CASE EndInstallation
    <2>1. phase' = "finished" /\ UNCHANGED log
      BY <1>10 DEF EndInstallation, Job!End
    <2>2. given' \in [page : Pages \cup {None}, objects : SUBSET Step]
      BY <1>10 DEF EndInstallation
    <2>3. QED
      BY <1>1, <1>10, <2>1, <2>2
      DEF EndInstallation, ServerType, InstallerType, GivenInv, server, browser
  <1>11. CASE UNCHANGED vars
    BY <1>1, <1>11
    DEF vars, browser, server, installer, ServerType, InstallerType, GivenInv
  <1>12. QED
    BY <1>2, <1>3, <1>4, <1>5, <1>6, <1>7, <1>8, <1>9, <1>10, <1>11
    DEF Next, Reply, Stages

LEMMA PagesStep ==
  ASSUME Inv, [Next]_vars
  PROVE  PagesKept
  <1>1. ASSUME NEW p \in Pages,
               Callback(p) \/ User(p) \/ Reply(p) \/ ServeInstall(p, "orphan")
        PROVE  PagesKept
    BY <1>1, PageStepKeeps
  <1>2. ASSUME NEW p \in Pages, DoFinal(p) PROVE PagesKept
    BY <1>2, PagesAlone DEF DoFinal, browser
  <1>3. CASE ExpireSession \/ GoDown \/ GoUp
    BY <1>3, PagesAlone DEF ExpireSession, GoDown, GoUp, browser
  <1>4. CASE \E ok \in BOOLEAN : PerformStep(ok)
    BY <1>4, PagesAlone DEF PerformStep, browser
  <1>5. CASE EndInstallation
    BY <1>5, PagesAlone DEF EndInstallation, browser
  <1>6. CASE UNCHANGED vars
    BY <1>6, PagesAlone DEF vars, browser
  <1>7. QED
    BY <1>1, <1>2, <1>3, <1>4, <1>5, <1>6 DEF Next

-----------------------------------------------------------------------------
(* The invariant, and what follows from it.                                *)

LEMMA InitInv == Init => Inv
  <1> SUFFICES ASSUME Init PROVE Inv
    OBVIOUS
  <1>1. /\ page = [p \in Pages |-> "closed"] /\ timers = [p \in Pages |-> 0]
        /\ net = [p \in Pages |-> [a \in Asked |-> [s \in Stages |-> 0]]]
        /\ answered = [p \in Pages |-> FALSE]
        /\ phase = "idle" /\ log = <<>>
    BY DEF Init, Job!Init
  <1>2. 1 \in Step /\ 0 \in 0..MaxFailures
    BY PageAssumption DEF Step
  <1>3. log \in Seq(Job!Entry)
    BY <1>1
  <1>4. TypeOK
    <2>1. /\ form \in [Pages -> Step] /\ failures \in 0..MaxFailures
          /\ intact \in [Pages -> BOOLEAN] /\ final \in [Pages -> BOOLEAN]
          /\ answered \in [Pages -> BOOLEAN]
      BY <1>1, <1>2 DEF Init
    <2>2. given \in [page : Pages \cup {None}, objects : SUBSET Step]
      BY DEF Init
    <2>3. net \in [Pages -> [Asked -> [Stages -> Nat]]]
      BY <1>1
    <2>4. page \in [Pages -> PageStates] /\ timers \in [Pages -> Nat]
      BY <1>1 DEF PageStates
    <2>5. session \subseteq Step /\ installed \in BOOLEAN /\ up \in BOOLEAN
          /\ refreshDue \in BOOLEAN
      BY DEF Init
    <2>6. QED
      BY <1>1, <1>3, <2>1, <2>2, <2>3, <2>4, <2>5 DEF TypeOK
  <1>5. ASSUME NEW p \in Pages PROVE PageInv(p)
    <2>1. \A a \in {"install", "status"}, s \in {"sent", "ok", "failed"} :
            net[p][a][s] = 0
      BY <1>1 DEF Asked, Stages
    <2>2. Calls(p, "install") = 0 /\ Calls(p, "status") = 0
      BY <2>1 DEF Calls
    <2>3. page[p] = "closed" /\ timers[p] = 0 /\ ~answered[p]
      BY <1>1
    <2>4. QED
      BY <2>1, <2>2, <2>3 DEF PageInv, Has
  <1>6. QED
    BY <1>1, <1>4, <1>5 DEF Inv, GivenInv

LEMMA NextInv == Inv /\ [Next]_vars => Inv' /\ [Promise!Next]_<<Outcome, answered>>
  <1> SUFFICES ASSUME Inv, [Next]_vars
               PROVE  Inv' /\ [Promise!Next]_<<Outcome, answered>>
    OBVIOUS
  <1>1. PagesKept /\ ServerType' /\ InstallerType'
    BY PagesStep, TypeStep
  <1>2. TypeOK'
    BY <1>1 DEF TypeOK, PagesKept, ServerType, InstallerType, NetType
  <1>3. QED
    BY <1>1, <1>2 DEF Inv, PagesKept, InstallerType

\* Pages, requests, server and installer keep the values the types allow: in
\* particular no count of requests goes below zero (one call back for each
\* request of operations.js, one firing for each setTimeout of install.js).
THEOREM TypeCorrect == Spec => []TypeOK
  <1>1. Inv => TypeOK
    BY DEF Inv
  <1>2. QED
    BY <1>1, InitInv, NextInv, PTL DEF Spec

\* A page that shows progress has exactly one request or timeout to come,
\* any other page none (install.js 17-39: the chain of checkStatus calls),
\* for any number of pages and of lost requests.
THEOREM OneChainAlways == Spec => []OneChain
  <1>1. Inv => OneChain
    BY DEF Inv, PageInv, OneChain
  <1>2. QED
    BY <1>1, InitInv, NextInv, PTL DEF Spec

\* Requests, retries and losses (install.js, server.js, operations.js)
\* implement one question with one outcome: every step of the pages is a
\* step of PagePromise or one it does not see.
THEOREM PagePromiseKept == Spec => PagePromiseSpec
  <1>1. Init => Promise!Init
    BY DEF Init, Promise!Init, Outcome
  <1>2. QED
    BY <1>1, InitInv, NextInv, PTL DEF Spec, PagePromiseSpec, Promise!Spec

=============================================================================
