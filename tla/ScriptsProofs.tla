---------------------------- MODULE ScriptsProofs ----------------------------
(***************************************************************************)
(* Proofs about two scripts of the browser code, its dialogs and its class *)
(* library, for every set of dialogs, classes and property names.          *)
(*                                                                         *)
(* Lookup and Ancestors follow the chain of prototypes by recursion.  That *)
(* the recursion has one solution is part of the invariant of the classes: *)
(* extend() adds a class that no other class has as its parent.            *)
(***************************************************************************)
EXTENDS ClassObject, Dialogs, SequenceTheorems, TLAPS

-----------------------------------------------------------------------------
(* Dialogs.                                                                *)

\* A bar that is not shown yet has no answers; a question has no gestures; a
\* message that lost a gesture was used when it could not close, or closes.
BarInv(b) ==
    /\ place[b] = "absent" => answers[b].yes = 0 /\ answers[b].no = 0
    /\ kind[b] = "question" => place[b] # "absent" /\ armed[b] = {}
    /\ kind[b] = "question" /\ ~rushed[b] =>
          answers[b].yes + answers[b].no =
              IF place[b] \in {"closing", "closed"} THEN 1 ELSE 0
    /\ place[b] \in {"opening", "shown"} /\ kind[b] # "question"
          /\ armed[b] # Gestures => rushed[b]

DialogInv == DialogTypeOK /\ \A b \in Bars : BarInv(b)

LEMMA DialogStart == DialogInit => DialogInv
  BY DialogAssumption DEF DialogInit, DialogInv, DialogTypeOK, BarInv

LEMMA DialogTypes ==
    ASSUME DialogTypeOK, [DialogNext]_dialogVars
    PROVE  DialogTypeOK'
  <1> USE DEF DialogTypeOK
  <1>1. CASE UNCHANGED dialogVars
    BY <1>1 DEF dialogVars
  <1>2. ASSUME NEW b \in Bars, Error(b) \/ Success(b) \/ Question(b)
        PROVE  DialogTypeOK'
    <2>1. ASSUME NEW k \in {"error", "success", "question"},
                 NEW gestures \in SUBSET Gestures, Noty(b, k, gestures)
          PROVE  DialogTypeOK'
      BY <2>1 DEF Noty
    <2> QED
      BY <1>2, <2>1 DEF Error, Success, Question
  <1>3. ASSUME NEW b \in Bars, Opened(b) \/ Removed(b)
        PROVE  DialogTypeOK'
    BY <1>3 DEF Opened, Removed
  <1>4. ASSUME NEW b \in Bars, Close(b), Use(b)
        PROVE  /\ place' \in [Bars -> {"absent", "opening", "shown", "closing", "closed"}]
               /\ rushed' \in [Bars -> BOOLEAN]
    BY <1>4 DEF Close, Use
  <1>5. ASSUME NEW b \in Bars, NEW g \in Gestures, Gesture(b, g)
        PROVE  DialogTypeOK'
    <2>1. armed' \in [Bars -> SUBSET Gestures]
      BY <1>5 DEF Gesture
    <2> QED
      BY <1>4, <1>5, <2>1 DEF Gesture
  <1>6. ASSUME NEW b \in Bars, NEW button \in {"yes", "no"}, Press(b, button)
        PROVE  DialogTypeOK'
    <2>1. answers[b][button] + 1 \in 0..MaxPresses
      BY <1>6, DialogAssumption DEF Press
    <2>2. answers' \in [Bars -> [yes : 0..MaxPresses, no : 0..MaxPresses]]
      BY <1>6, <2>1 DEF Press
    <2> QED
      BY <1>4, <1>6, <2>2 DEF Press
  <1> QED
    BY <1>1, <1>2, <1>3, <1>5, <1>6 DEF DialogNext

\* The other bars do not notice.
LEMMA BarSame ==
    ASSUME NEW b \in Bars, BarInv(b),
           kind'[b] = kind[b], place'[b] = place[b], armed'[b] = armed[b],
           answers'[b] = answers[b], rushed'[b] = rushed[b]
    PROVE  BarInv(b)'
  BY DEF BarInv

LEMMA DialogStep == DialogInv /\ [DialogNext]_dialogVars => DialogInv'
  <1> SUFFICES ASSUME DialogInv, [DialogNext]_dialogVars PROVE DialogInv'
    OBVIOUS
  <1>1. DialogTypeOK /\ DialogTypeOK' /\ \A b \in Bars : BarInv(b)
    BY DialogTypes DEF DialogInv
  <1>2. CASE UNCHANGED dialogVars
    BY <1>1, <1>2, BarSame DEF dialogVars, DialogInv
  <1>3. ASSUME NEW b \in Bars, Error(b) \/ Success(b) \/ Question(b)
        PROVE  \A c \in Bars : BarInv(c)'
    <2>1. \A c \in Bars \ {b} : BarInv(c)'
      BY <1>1, <1>3, BarSame DEF Error, Success, Question, Noty, DialogTypeOK
    <2>2. BarInv(b)'
      BY <1>1, <1>3 DEF Error, Success, Question, Noty, DialogTypeOK, BarInv
    <2> QED
      BY <2>1, <2>2
  <1>4. ASSUME NEW b \in Bars, Opened(b) \/ Removed(b)
        PROVE  \A c \in Bars : BarInv(c)'
    <2>1. \A c \in Bars \ {b} : BarInv(c)'
      BY <1>1, <1>4, BarSame DEF Opened, Removed, DialogTypeOK
    <2>2. BarInv(b)'
      BY <1>1, <1>4 DEF Opened, Removed, DialogTypeOK, BarInv
    <2> QED
      BY <2>1, <2>2
  <1>5. ASSUME NEW b \in Bars, NEW g \in Gestures, Gesture(b, g)
        PROVE  \A c \in Bars : BarInv(c)'
    <2>1. \A c \in Bars \ {b} : BarInv(c)'
      BY <1>1, <1>5, BarSame DEF Gesture, Close, Use, DialogTypeOK
    <2>2. BarInv(b)'
      <3>1. kind[b] # "question" /\ UNCHANGED <<kind, answers>> /\ OnScreen(b)
        BY <1>1, <1>5 DEF Gesture, BarInv
      <3>2. /\ place'[b] = IF place[b] = "shown" THEN "closing" ELSE place[b]
            /\ rushed'[b] <=> rushed[b] \/ place[b] # "shown"
        BY <1>1, <1>5 DEF Gesture, Close, Use, DialogTypeOK
      <3> QED
        BY <3>1, <3>2 DEF BarInv, OnScreen
    <2> QED
      BY <2>1, <2>2
  <1>6. ASSUME NEW b \in Bars, NEW button \in {"yes", "no"}, Press(b, button)
        PROVE  \A c \in Bars : BarInv(c)'
    <2>1. \A c \in Bars \ {b} : BarInv(c)'
      BY <1>1, <1>6, BarSame DEF Press, Close, Use, DialogTypeOK
    <2>2. BarInv(b)'
      <3>1. kind[b] = "question" /\ UNCHANGED <<kind, armed>> /\ OnScreen(b)
        BY <1>6 DEF Press
      <3>2. /\ place'[b] = IF place[b] = "shown" THEN "closing" ELSE place[b]
            /\ rushed'[b] <=> rushed[b] \/ place[b] # "shown"
        BY <1>1, <1>6 DEF Press, Close, Use, DialogTypeOK
      <3>3. answers'[b].yes + answers'[b].no = answers[b].yes + answers[b].no + 1
        <4>1. answers[b].yes \in Int /\ answers[b].no \in Int
          BY <1>1 DEF DialogTypeOK
        <4>2. CASE button = "yes"
          <5>1. answers'[b].yes = answers[b].yes + 1 /\ answers'[b].no = answers[b].no
            BY <1>1, <1>6, <4>2 DEF Press, DialogTypeOK
          <5> QED
            BY <4>1, <5>1
        <4>3. CASE button = "no"
          <5>1. answers'[b].no = answers[b].no + 1 /\ answers'[b].yes = answers[b].yes
            BY <1>1, <1>6, <4>3 DEF Press, DialogTypeOK
          <5> QED
            BY <4>1, <5>1
        <4> QED
          BY <4>2, <4>3
      <3> QED
        BY <1>1, <3>1, <3>2, <3>3 DEF BarInv, OnScreen
    <2> QED
      BY <2>1, <2>2
  <1> QED
    BY <1>1, <1>2, <1>3, <1>4, <1>5, <1>6 DEF DialogNext, DialogInv

\* Type correctness of the dialogs.
THEOREM DialogTypeCorrect == DialogSpec => []DialogTypeOK
  <1>1. DialogInv => DialogTypeOK
    BY DEF DialogInv
  <1> QED
    BY <1>1, DialogStart, DialogStep, PTL DEF DialogSpec

\* A question that nobody pressed while its bar was moving is answered once
\* before it goes away, whatever happens to other dialogs.
THEOREM CalmQuestions == DialogSpec => []CalmQuestionAnsweredOnce
  <1>1. DialogInv => CalmQuestionAnsweredOnce
    BY DEF DialogInv, BarInv, CalmQuestionAnsweredOnce
  <1> QED
    BY <1>1, DialogStart, DialogStep, PTL DEF DialogSpec

\* A message stays with its gestures used up only if it met one of them before
\* it had opened.
THEOREM OnlyHasteSticks == DialogSpec => []StuckOnlyByHaste
  <1>1. DialogInv => StuckOnlyByHaste
    BY DEF DialogInv, BarInv, StuckOnlyByHaste
  <1> QED
    BY <1>1, DialogStart, DialogStep, PTL DEF DialogSpec
-----------------------------------------------------------------------------
(* Lookup and Ancestors, as solutions of their recursion.  Here o is what  *)
(* the prototypes own, and p gives the parents.                            *)

Chain(o, p, n, f) ==
    f = [d \in Classes |->
           IF d = Root \/ o[d][n].kind # "undefined" THEN o[d][n]
           ELSE f[p[d]]]
OnlyChain(o, p, n, f) == Chain(o, p, n, f) /\ \A g : Chain(o, p, n, g) => g = f

Line(p, f) ==
    f = [d \in Classes |-> IF d = Root THEN {Root} ELSE {d} \cup f[p[d]]]
OnlyLine(p, f) == Line(p, f) /\ \A g : Line(p, g) => g = f

LEMMA ChosenChain ==
    ASSUME NEW o, NEW p, NEW n, NEW f, OnlyChain(o, p, n, f)
    PROVE  (CHOOSE g : Chain(o, p, n, g)) = f
  <1>1. Chain(o, p, n, CHOOSE g : Chain(o, p, n, g))
    BY DEF OnlyChain
  <1> QED
    BY <1>1 DEF OnlyChain

LEMMA ChosenLine ==
    ASSUME NEW p, NEW f, OnlyLine(p, f)
    PROVE  (CHOOSE g : Line(p, g)) = f
  <1>1. Line(p, CHOOSE g : Line(p, g))
    BY DEF OnlyLine
  <1> QED
    BY <1>1 DEF OnlyLine

\* A new class c of which q is the parent, and which is nobody's parent.
NewLeaf(o, p, o2, p2, c, q) ==
    /\ c \in Classes \ {Root} /\ q \in Classes \ {c}
    /\ \A d \in Classes : p[d] \in Classes \ {c}
    /\ \A d \in Classes \ {c} : o2[d] = o[d] /\ p2[d] = p[d]
    /\ p2[c] = q

\* It has a place in every chain, and changes no other.
LEMMA ChainGrows ==
    ASSUME NEW o, NEW p, NEW o2, NEW p2, NEW n, NEW f,
           NEW c, NEW q, NewLeaf(o, p, o2, p2, c, q),
           o[c][n].kind = "undefined",
           OnlyChain(o, p, n, f)
    PROVE  \E f2 : /\ OnlyChain(o2, p2, n, f2)
                   /\ f2[c] = IF o2[c][n].kind # "undefined" THEN o2[c][n] ELSE f[q]
                   /\ \A d \in Classes \ {c} : f2[d] = f[d]
  <1> USE DEF NewLeaf
  <1> DEFINE v(g) == IF o2[c][n].kind # "undefined" THEN o2[c][n] ELSE g[q]
             f2 == [d \in Classes |-> IF d = c THEN v(f) ELSE f[d]]
  <1>1. /\ \A d \in Classes : f[d] = IF d = Root \/ o[d][n].kind # "undefined"
                                     THEN o[d][n] ELSE f[p[d]]
        /\ DOMAIN f = Classes /\ f = [d \in Classes |-> f[d]]
    BY DEF OnlyChain, Chain
  <1>2. f2 = [d \in Classes |-> f2[d]]
    OBVIOUS
  <1>3. f2[c] = v(f) /\ \A d \in Classes \ {c} : f2[d] = f[d]
    OBVIOUS
  <1> HIDE DEF f2
  <1> HIDE DEF v
  <1>4. \A d \in Classes : f2[d] = IF d = Root \/ o2[d][n].kind # "undefined"
                                   THEN o2[d][n] ELSE f2[p2[d]]
    <2>1. f2[c] = IF o2[c][n].kind # "undefined" THEN o2[c][n] ELSE f2[p2[c]]
      BY <1>3 DEF v
    <2>2. ASSUME NEW d \in Classes \ {c}
          PROVE  f2[d] = IF d = Root \/ o2[d][n].kind # "undefined"
                         THEN o2[d][n] ELSE f2[p2[d]]
      <3>1. f2[d] = f[d] /\ o2[d] = o[d] /\ p2[d] = p[d] /\ f2[p[d]] = f[p[d]]
        BY <1>3
      <3> QED
        BY <1>1, <3>1
    <2> QED
      BY <2>1, <2>2
  <1>5. Chain(o2, p2, n, f2)
    BY <1>2, <1>4 DEF Chain
  <1>6. ASSUME NEW g, Chain(o2, p2, n, g) PROVE g = f2
    <2>1. /\ \A d \in Classes : g[d] = IF d = Root \/ o2[d][n].kind # "undefined"
                                       THEN o2[d][n] ELSE g[p2[d]]
          /\ g = [d \in Classes |-> g[d]]
      BY <1>6 DEF Chain
    <2> DEFINE h == [d \in Classes |-> IF d = c THEN g[p[c]] ELSE g[d]]
    <2>2. h[c] = g[p[c]] /\ \A d \in Classes \ {c} : h[d] = g[d]
      OBVIOUS
    <2>3. h = [d \in Classes |-> h[d]]
      OBVIOUS
    <2> HIDE DEF h
    <2>4. \A d \in Classes : h[d] = IF d = Root \/ o[d][n].kind # "undefined"
                                    THEN o[d][n] ELSE h[p[d]]
      <3>1. h[c] = h[p[c]]
        BY <2>2
      <3>2. ASSUME NEW d \in Classes \ {c}
            PROVE  h[d] = IF d = Root \/ o[d][n].kind # "undefined"
                          THEN o[d][n] ELSE h[p[d]]
        <4>1. h[d] = g[d] /\ o2[d] = o[d] /\ p2[d] = p[d] /\ h[p[d]] = g[p[d]]
          BY <2>2
        <4> QED
          BY <2>1, <4>1
      <3> QED
        BY <3>1, <3>2
    <2>5. Chain(o, p, n, h)
      BY <2>3, <2>4 DEF Chain
    <2>6. h = f
      BY <2>5 DEF OnlyChain
    <2>7. \A d \in Classes \ {c} : g[d] = f[d]
      BY <2>2, <2>6
    <2>8. g[c] = v(f)
      BY <2>1, <2>7 DEF v
    <2>9. \A d \in Classes : g[d] = f2[d]
      BY <1>3, <2>7, <2>8
    <2> QED
      BY <1>2, <2>1, <2>9
  <1>7. OnlyChain(o2, p2, n, f2)
    BY <1>5, <1>6 DEF OnlyChain
  <1> QED
    BY <1>3, <1>7 DEF v

LEMMA LineGrows ==
    ASSUME NEW o, NEW p, NEW o2, NEW p2, NEW f,
           NEW c, NEW q, NewLeaf(o, p, o2, p2, c, q),
           OnlyLine(p, f)
    PROVE  \E f2 : /\ OnlyLine(p2, f2) /\ f2[c] = {c} \cup f[q]
                   /\ \A d \in Classes \ {c} : f2[d] = f[d]
  <1> USE DEF NewLeaf
  <1> DEFINE f2 == [d \in Classes |-> IF d = c THEN {c} \cup f[q] ELSE f[d]]
  <1>1. /\ \A d \in Classes : f[d] = IF d = Root THEN {Root} ELSE {d} \cup f[p[d]]
        /\ DOMAIN f = Classes /\ f = [d \in Classes |-> f[d]]
    BY DEF OnlyLine, Line
  <1>2. f2 = [d \in Classes |-> f2[d]]
    OBVIOUS
  <1>3. f2[c] = {c} \cup f[q] /\ \A d \in Classes \ {c} : f2[d] = f[d]
    OBVIOUS
  <1> HIDE DEF f2
  <1>4. \A d \in Classes : f2[d] = IF d = Root THEN {Root} ELSE {d} \cup f2[p2[d]]
    <2>1. f2[c] = {c} \cup f2[p2[c]]
      BY <1>3
    <2>2. ASSUME NEW d \in Classes \ {c}
          PROVE  f2[d] = IF d = Root THEN {Root} ELSE {d} \cup f2[p2[d]]
      <3>1. f2[d] = f[d] /\ p2[d] = p[d] /\ f2[p[d]] = f[p[d]]
        BY <1>3
      <3> QED
        BY <1>1, <3>1
    <2> QED
      BY <2>1, <2>2
  <1>5. Line(p2, f2)
    BY <1>2, <1>4 DEF Line
  <1>6. ASSUME NEW g, Line(p2, g) PROVE g = f2
    <2>1. /\ \A d \in Classes : g[d] = IF d = Root THEN {Root} ELSE {d} \cup g[p2[d]]
          /\ g = [d \in Classes |-> g[d]]
      BY <1>6 DEF Line
    <2> DEFINE h == [d \in Classes |-> IF d = c THEN {c} \cup g[p[c]] ELSE g[d]]
    <2>2. h[c] = {c} \cup g[p[c]] /\ \A d \in Classes \ {c} : h[d] = g[d]
      OBVIOUS
    <2>3. h = [d \in Classes |-> h[d]]
      OBVIOUS
    <2> HIDE DEF h
    <2>4. \A d \in Classes : h[d] = IF d = Root THEN {Root} ELSE {d} \cup h[p[d]]
      <3>1. h[c] = {c} \cup h[p[c]]
        BY <2>2
      <3>2. ASSUME NEW d \in Classes \ {c}
            PROVE  h[d] = IF d = Root THEN {Root} ELSE {d} \cup h[p[d]]
        <4>1. h[d] = g[d] /\ p2[d] = p[d] /\ h[p[d]] = g[p[d]]
          BY <2>2
        <4> QED
          BY <2>1, <4>1
      <3> QED
        BY <3>1, <3>2
    <2>5. Line(p, h)
      BY <2>3, <2>4 DEF Line
    <2>6. h = f
      BY <2>5 DEF OnlyLine
    <2>7. \A d \in Classes : g[d] = f2[d]
      BY <1>3, <2>1, <2>2, <2>6
    <2> QED
      BY <1>2, <2>1, <2>7
  <1>7. OnlyLine(p2, f2)
    BY <1>5, <1>6 DEF OnlyLine
  <1> QED
    BY <1>3, <1>7

-----------------------------------------------------------------------------
(* The invariant of the classes.                                           *)

\* A class that does not exist yet has nothing and is nobody's parent.
TreeInv ==
    /\ \A c \in classes : parent[c] \in classes
    /\ \A c \in Classes \ classes :
          parent[c] = Root /\ \A n \in Names : own[c][n] = Undefined
    /\ \A n \in Names : \E f : OnlyChain(own, parent, n, f)
    /\ \E f : OnlyLine(parent, f)

\* A class has no init, or one function that all its ancestors with an init
\* have too, and that one of them, or the class itself, was given.
InitInv ==
    /\ \A c \in Classes, n \in Names : Lookup(c, n) \in Value
    /\ \A c \in classes :
          Lookup(c, "init") = Undefined \/ IsFunction(Lookup(c, "init"))
    /\ \A c \in classes :
          /\ Ancestors(c) \subseteq classes
          /\ \A a \in Ancestors(c) :
                IsFunction(Lookup(a, "init")) =>
                    Lookup(c, "init") = Lookup(a, "init")
    /\ \A c \in classes, g \in Classes :
          Lookup(c, "init") = Given("function", g) =>
              g \in Ancestors(c) /\ Lookup(g, "init") = Given("function", g)

ClassInv ==
    /\ ClassTypeOK /\ TreeInv /\ InitInv
    /\ initializing = astray
    /\ InitRunsOnce

\* What Lookup and Ancestors are, given the solution.
LEMMA LookupIs ==
    ASSUME NEW n, NEW f, OnlyChain(own, parent, n, f), NEW c
    PROVE  Lookup(c, n) = f[c]
  <1>1. Lookup(c, n) = (CHOOSE g : Chain(own, parent, n, g))[c]
    BY DEF Lookup, Chain
  <1> QED
    BY <1>1, ChosenChain

LEMMA LookupWillBe ==
    ASSUME NEW n, NEW f, OnlyChain(own', parent', n, f), NEW c
    PROVE  Lookup(c, n)' = f[c]
  <1>1. Lookup(c, n)' = (CHOOSE g : Chain(own', parent', n, g))[c]
    BY DEF Lookup, Chain
  <1> QED
    BY <1>1, ChosenChain

LEMMA AncestorsAre ==
    ASSUME NEW f, OnlyLine(parent, f), NEW c
    PROVE  Ancestors(c) = f[c]
  <1>1. Ancestors(c) = (CHOOSE g : Line(parent, g))[c]
    BY DEF Ancestors, Line
  <1> QED
    BY <1>1, ChosenLine

LEMMA AncestorsWillBe ==
    ASSUME NEW f, OnlyLine(parent', f), NEW c
    PROVE  Ancestors(c)' = f[c]
  <1>1. Ancestors(c)' = (CHOOSE g : Line(parent', g))[c]
    BY DEF Ancestors, Line
  <1> QED
    BY <1>1, ChosenLine

-----------------------------------------------------------------------------
(* The start: all chains lead to the root at once.                         *)

LEMMA TreeStart == ClassInit => TreeInv
  <1> SUFFICES ASSUME ClassInit PROVE TreeInv
    OBVIOUS
  <1> USE ClassAssumption
  <1>1. /\ classes = {Root} /\ \A c \in Classes : parent[c] = Root
        /\ \A c \in Classes \ {Root}, n \in Names : own[c][n] = Undefined
    BY DEF ClassInit
  <1>2. ASSUME NEW n \in Names PROVE \E f : OnlyChain(own, parent, n, f)
    <2> DEFINE f == [d \in Classes |-> own[Root][n]]
    <2>1. \A d \in Classes \ {Root} : own[d][n].kind = "undefined"
      BY <1>1 DEF Undefined, Given
    <2>2. ASSUME NEW g,
                 \A d \in Classes : g[d] = IF d = Root \/ own[d][n].kind # "undefined"
                                           THEN own[d][n] ELSE g[parent[d]]
          PROVE  \A d \in Classes : g[d] = own[Root][n]
      BY <1>1, <2>1, <2>2
    <2>3. Chain(own, parent, n, f)
      BY <1>1, <2>1 DEF Chain
    <2>4. ASSUME NEW g, Chain(own, parent, n, g) PROVE g = f
      <3>1. /\ \A d \in Classes : g[d] = IF d = Root \/ own[d][n].kind # "undefined"
                                         THEN own[d][n] ELSE g[parent[d]]
            /\ g = [d \in Classes |-> g[d]]
        BY <2>4 DEF Chain
      <3>2. \A d \in Classes : g[d] = own[Root][n]
        BY <2>2, <3>1
      <3> QED
        BY <3>1, <3>2
    <2>5. OnlyChain(own, parent, n, f)
      BY <2>3, <2>4 DEF OnlyChain
    <2> QED
      BY <2>5
  <1>3. \E f : OnlyLine(parent, f)
    <2> DEFINE f == [d \in Classes |-> {d, Root}]
    <2>1. Line(parent, f)
      BY <1>1 DEF Line
    <2>2. ASSUME NEW g, Line(parent, g) PROVE g = f
      <3>1. /\ \A d \in Classes : g[d] = IF d = Root THEN {Root}
                                         ELSE {d} \cup g[parent[d]]
            /\ g = [d \in Classes |-> g[d]]
        BY <2>2 DEF Line
      <3>2. g[Root] = {Root}
        BY <3>1
      <3>3. \A d \in Classes : g[d] = {d, Root}
        BY <1>1, <3>1, <3>2
      <3> QED
        BY <3>1, <3>3
    <2>3. OnlyLine(parent, f)
      BY <2>1, <2>2 DEF OnlyLine
    <2> QED
      BY <2>3
  <1> QED
    BY <1>1, <1>2, <1>3 DEF TreeInv

\* One step along the chain.
LEMMA LookupStep ==
    ASSUME TreeInv, NEW n \in Names, NEW c \in Classes
    PROVE  Lookup(c, n) = IF c = Root \/ own[c][n].kind # "undefined"
                          THEN own[c][n] ELSE Lookup(parent[c], n)
  <1>1. PICK f : OnlyChain(own, parent, n, f)
    BY DEF TreeInv
  <1>2. \A d : Lookup(d, n) = f[d]
    BY <1>1, LookupIs
  <1>3. f[c] = IF c = Root \/ own[c][n].kind # "undefined"
               THEN own[c][n] ELSE f[parent[c]]
    BY <1>1 DEF OnlyChain, Chain
  <1> QED
    BY <1>2, <1>3

LEMMA AncestorsStep ==
    ASSUME TreeInv, NEW c \in Classes
    PROVE  Ancestors(c) = IF c = Root THEN {Root} ELSE {c} \cup Ancestors(parent[c])
  <1>1. PICK f : OnlyLine(parent, f)
    BY DEF TreeInv
  <1>2. \A d : Ancestors(d) = f[d]
    BY <1>1, AncestorsAre
  <1>3. f[c] = IF c = Root THEN {Root} ELSE {c} \cup f[parent[c]]
    BY <1>1 DEF OnlyLine, Line
  <1> QED
    BY <1>2, <1>3

LEMMA ClassStart == ClassInit => ClassInv
  <1> SUFFICES ASSUME ClassInit PROVE ClassInv
    OBVIOUS
  <1> USE ClassAssumption
  <1>1. TreeInv
    BY TreeStart
  <1>2. /\ classes = {Root} /\ \A c \in Classes : parent[c] = Root
        /\ objects = <<>> /\ running = <<>> /\ initializing = FALSE /\ astray = FALSE
        /\ prototypeInits = [c \in Classes |-> 0]
    BY DEF ClassInit
  <1>3. \A c \in Classes, n \in Names : own[c][n] \in Value
    BY DEF ClassInit, Value, Undefined, Given
  <1>4. ClassTypeOK
    <2>1. own \in [Classes -> [Names -> Value]]
      <3>1. Undefined \in Value /\ Given("function", Root) \in Value
        BY DEF Undefined, Given, Value
      <3> QED
        BY <3>1 DEF ClassInit
    <2>2. parent \in [Classes -> Classes] /\ prototypeInits \in [Classes -> Nat]
      BY <1>2 DEF ClassInit
    <2>3. /\ objects \in Seq([class : classes, inits : Seq(Value), astray : BOOLEAN])
          /\ running \in Seq(DOMAIN objects)
      BY <1>2
    <2> QED
      BY <1>2, <2>1, <2>2, <2>3 DEF ClassTypeOK
  <1>5. own[Root]["init"] = Undefined
    BY DEF ClassInit
  <1>6. InitInv
    <2>1. \A n \in Names : Lookup(Root, n) = own[Root][n]
      BY <1>1, LookupStep
    <2>2. \A c \in Classes, n \in Names : Lookup(c, n) \in Value
      <3> SUFFICES ASSUME NEW c \in Classes, NEW n \in Names PROVE Lookup(c, n) \in Value
        OBVIOUS
      <3>1. Lookup(c, n) = IF c = Root \/ own[c][n].kind # "undefined"
                           THEN own[c][n] ELSE Lookup(Root, n)
        BY <1>1, <1>2, LookupStep
      <3> QED
        BY <1>3, <2>1, <3>1
    <2>3. Lookup(Root, "init") = Undefined
      BY <1>5, <2>1
    <2>4. Ancestors(Root) = {Root}
      BY <1>1, AncestorsStep
    <2>5. \A g : Undefined # Given("function", g)
      BY DEF Undefined, Given
    <2> QED
      BY <1>2, <2>2, <2>3, <2>4, <2>5 DEF InitInv
  <1>7. InitRunsOnce
    BY <1>2 DEF InitRunsOnce
  <1> QED
    BY <1>1, <1>2, <1>4, <1>6, <1>7 DEF ClassInv

-----------------------------------------------------------------------------
(* Extending.                                                              *)

LEMMA ExtendTypes ==
    ASSUME ClassTypeOK, NEW c \in Classes, NEW p \in classes,
           NEW d \in Definitions, Extend(c, p, d)
    PROVE  /\ c \notin classes /\ c # Root /\ c # p /\ p \in Classes
           /\ parent'[c] = p
           /\ \A x \in Classes \ {c} : own'[x] = own[x] /\ parent'[x] = parent[x]
           /\ \A n \in Names : own'[c][n] = IF d[n] = "undefined" THEN Undefined
                                            ELSE Given(d[n], c)
           /\ \A n \in Names : own'[c][n] \in Value
           /\ classes' = classes \cup {c}
           /\ own' \in [Classes -> [Names -> Value]]
           /\ parent' \in [Classes -> Classes]
  <1> USE DEF ClassTypeOK
  <1>1. c \notin classes /\ c # Root /\ c # p /\ p \in Classes
    BY DEF Extend
  <1>2. parent'[c] = p /\ \A x \in Classes \ {c} : parent'[x] = parent[x]
    BY DEF Extend
  <1> DEFINE o == [n \in Names |-> IF d[n] = "undefined" THEN Undefined
                                   ELSE Given(d[n], c)]
  <1>3. own' = [own EXCEPT ![c] = o]
    BY DEF Extend, Copy
  <1>4. o \in [Names -> Value]
    <2>1. ASSUME NEW n \in Names PROVE o[n] \in Value
      <3>1. d[n] \in {"undefined", "data", "function"}
        BY DEF Definitions
      <3> QED
        BY <3>1, ClassAssumption DEF Undefined, Given, Value
    <2> QED
      BY <2>1
  <1>5. own'[c] = o /\ \A x \in Classes \ {c} : own'[x] = own[x]
    <2> HIDE DEF o
    <2> QED
      BY <1>3
  <1>6. own' \in [Classes -> [Names -> Value]]
    <2> HIDE DEF o
    <2> QED
      BY <1>3, <1>4
  <1>7. parent' \in [Classes -> Classes]
    BY <1>1 DEF Extend
  <1>8. classes' = classes \cup {c}
    BY DEF Extend
  <1> QED
    BY <1>1, <1>2, <1>4, <1>5, <1>6, <1>7, <1>8

\* The new class finds its own properties and its parent's, it has itself and
\* its parent's ancestors; nothing changes for the other classes.
LEMMA ExtendFacts ==
    ASSUME ClassTypeOK, TreeInv, NEW c \in Classes, NEW p \in classes,
           NEW d \in Definitions, Extend(c, p, d)
    PROVE  /\ TreeInv'
           /\ \A x \in Classes \ {c}, n \in Names : Lookup(x, n)' = Lookup(x, n)
           /\ \A n \in Names : Lookup(c, n)' = IF d[n] # "undefined"
                                               THEN Given(d[n], c) ELSE Lookup(p, n)
           /\ \A x \in Classes \ {c} : Ancestors(x)' = Ancestors(x)
           /\ Ancestors(c)' = {c} \cup Ancestors(p)
  <1> USE ClassAssumption
  <1>1. /\ c \notin classes /\ c # Root /\ c # p /\ p \in Classes
        /\ parent'[c] = p
        /\ \A x \in Classes \ {c} : own'[x] = own[x] /\ parent'[x] = parent[x]
        /\ \A n \in Names : own'[c][n] = IF d[n] = "undefined" THEN Undefined
                                         ELSE Given(d[n], c)
        /\ classes' = classes \cup {c}
    BY ExtendTypes
  <1>2. NewLeaf(own, parent, own', parent', c, p)
    <2>1. \A x \in Classes : parent[x] \in Classes \ {c}
      BY <1>1 DEF TreeInv, ClassTypeOK
    <2> QED
      BY <1>1, <2>1 DEF NewLeaf
  <1>3. \A n \in Names : own[c][n].kind = "undefined"
    BY <1>1 DEF TreeInv, Undefined, Given
  <1>4. \A n \in Names : own'[c][n].kind # "undefined" <=> d[n] # "undefined"
    <2> SUFFICES ASSUME NEW n \in Names
                 PROVE  own'[c][n].kind # "undefined" <=> d[n] # "undefined"
      OBVIOUS
    <2>1. CASE d[n] = "undefined"
      <3>1. own'[c][n] = Undefined
        BY <1>1, <2>1
      <3> QED
        BY <2>1, <3>1 DEF Undefined, Given
    <2>2. CASE d[n] # "undefined"
      <3>1. own'[c][n] = Given(d[n], c)
        BY <1>1, <2>2
      <3> QED
        BY <2>2, <3>1 DEF Given
    <2> QED
      BY <2>1, <2>2
  <1>5. ASSUME NEW n \in Names
        PROVE  /\ \E f : OnlyChain(own', parent', n, f)
               /\ \A x \in Classes \ {c} : Lookup(x, n)' = Lookup(x, n)
               /\ Lookup(c, n)' = IF d[n] # "undefined"
                                  THEN Given(d[n], c) ELSE Lookup(p, n)
    <2>1. PICK f : OnlyChain(own, parent, n, f)
      BY DEF TreeInv
    <2>2. PICK f2 :
            /\ OnlyChain(own', parent', n, f2)
            /\ f2[c] = IF own'[c][n].kind # "undefined" THEN own'[c][n] ELSE f[p]
            /\ \A x \in Classes \ {c} : f2[x] = f[x]
      BY <1>2, <1>3, <2>1, ChainGrows
    <2>5. \A x : Lookup(x, n) = f[x]
      BY <2>1, LookupIs
    <2>6. \A x : Lookup(x, n)' = f2[x]
      BY <2>2, LookupWillBe
    <2>7. f2[c] = IF d[n] # "undefined" THEN Given(d[n], c) ELSE f[p]
      BY <1>1, <1>4, <2>2
    <2> QED
      BY <2>2, <2>5, <2>6, <2>7
  <1>6. /\ \E f : OnlyLine(parent', f)
        /\ \A x \in Classes \ {c} : Ancestors(x)' = Ancestors(x)
        /\ Ancestors(c)' = {c} \cup Ancestors(p)
    <2>1. PICK f : OnlyLine(parent, f)
      BY DEF TreeInv
    <2>2. PICK f2 : /\ OnlyLine(parent', f2) /\ f2[c] = {c} \cup f[p]
                    /\ \A x \in Classes \ {c} : f2[x] = f[x]
      BY <1>2, <2>1, LineGrows
    <2>5. \A x : Ancestors(x) = f[x]
      BY <2>1, AncestorsAre
    <2>6. \A x : Ancestors(x)' = f2[x]
      BY <2>2, AncestorsWillBe
    <2> QED
      BY <1>1, <2>2, <2>5, <2>6
  <1>7. TreeInv'
    <2>1. \A x \in classes' : parent'[x] \in classes'
      BY <1>1 DEF TreeInv, ClassTypeOK
    <2>2. \A x \in Classes \ classes' :
            parent'[x] = Root /\ \A n \in Names : own'[x][n] = Undefined
      BY <1>1 DEF TreeInv
    <2> QED
      BY <1>5, <1>6, <2>1, <2>2 DEF TreeInv
  <1> QED
    BY <1>5, <1>6, <1>7

LEMMA ExtendInits ==
    ASSUME ClassTypeOK, TreeInv, InitInv, NEW c \in Classes, NEW p \in classes,
           NEW d \in Definitions, Extend(c, p, d)
    PROVE  InitInv'
  <1> USE ClassAssumption
  <1>1. /\ c \notin classes /\ p \in Classes /\ c # p
        /\ classes' = classes \cup {c} /\ classes \subseteq Classes
    BY ExtendTypes DEF ClassTypeOK
  <1>2. /\ \A x \in Classes \ {c}, n \in Names : Lookup(x, n)' = Lookup(x, n)
        /\ \A n \in Names : Lookup(c, n)' = IF d[n] # "undefined"
                                            THEN Given(d[n], c) ELSE Lookup(p, n)
        /\ \A x \in Classes \ {c} : Ancestors(x)' = Ancestors(x)
        /\ Ancestors(c)' = {c} \cup Ancestors(p)
    BY ExtendFacts
  <1>3. \A n \in Names : d[n] # "undefined" => Given(d[n], c) \in Value
    BY DEF Definitions, Given, Value
  <1>4. d["init"] = "undefined" \/ d["init"] = "function"
    BY DEF Definitions
  <1>5. \A x \in Classes, n \in Names : Lookup(x, n)' \in Value
    BY <1>1, <1>2, <1>3 DEF InitInv
  <1>6. \A x \in classes' :
          Lookup(x, "init")' = Undefined \/ IsFunction(Lookup(x, "init"))'
    <2>1. \A x \in classes :
            Lookup(x, "init")' = Undefined \/ IsFunction(Lookup(x, "init"))'
      BY <1>1, <1>2 DEF InitInv, IsFunction
    <2>2. Lookup(c, "init")' = Undefined \/ IsFunction(Lookup(c, "init"))'
      <3>1. CASE d["init"] = "undefined"
        BY <1>2, <3>1 DEF InitInv, IsFunction
      <3>2. CASE d["init"] = "function"
        <4>1. Lookup(c, "init")' = Given("function", c)
          BY <1>2, <3>2
        <4> QED
          BY <4>1 DEF IsFunction, Given
      <3> QED
        BY <1>4, <3>1, <3>2
    <2> QED
      BY <1>1, <2>1, <2>2
  <1>7. \A x \in classes' :
          /\ Ancestors(x)' \subseteq classes'
          /\ \A a \in Ancestors(x)' :
                IsFunction(Lookup(a, "init"))' => Lookup(x, "init")' = Lookup(a, "init")'
    <2>1. ASSUME NEW x \in classes
          PROVE  /\ Ancestors(x)' \subseteq classes'
                 /\ \A a \in Ancestors(x)' :
                       IsFunction(Lookup(a, "init"))' =>
                           Lookup(x, "init")' = Lookup(a, "init")'
      <3>1. Ancestors(x)' = Ancestors(x) /\ Ancestors(x) \subseteq classes
        BY <1>1, <1>2 DEF InitInv
      <3>2. \A a \in classes : Lookup(a, "init")' = Lookup(a, "init")
        BY <1>1, <1>2
      <3> QED
        BY <1>1, <3>1, <3>2 DEF InitInv, IsFunction
    <2>2. /\ Ancestors(c)' \subseteq classes'
          /\ \A a \in Ancestors(c)' :
                IsFunction(Lookup(a, "init"))' =>
                    Lookup(c, "init")' = Lookup(a, "init")'
      <3>1. Ancestors(p) \subseteq classes
        BY DEF InitInv
      <3>2. ASSUME NEW a \in Ancestors(p), IsFunction(Lookup(a, "init"))'
            PROVE  Lookup(c, "init")' = Lookup(a, "init")'
        <4>1. Lookup(a, "init")' = Lookup(a, "init")
          BY <1>1, <1>2, <3>1
        <4>2. IsFunction(Lookup(a, "init"))
          BY <3>2, <4>1 DEF IsFunction
        <4>3. Lookup(p, "init") = Lookup(a, "init")
          BY <4>2 DEF InitInv
        <4>4. d["init"] # "function"
          BY <4>2, <4>3 DEF Extend, Overrides
        <4> QED
          BY <1>2, <1>4, <4>1, <4>3, <4>4
      <3> QED
        BY <1>1, <1>2, <3>1, <3>2
    <2> QED
      BY <1>1, <2>1, <2>2
  <1>8. ASSUME NEW x \in classes', NEW g \in Classes,
               Lookup(x, "init")' = Given("function", g)
        PROVE  g \in Ancestors(x)' /\ Lookup(g, "init")' = Given("function", g)
    <2>1. CASE x \in classes
      <3>1. Lookup(x, "init") = Given("function", g) /\ Ancestors(x)' = Ancestors(x)
        BY <1>1, <1>2, <1>8, <2>1
      <3>2. g \in Ancestors(x) /\ Lookup(g, "init") = Given("function", g)
        BY <2>1, <3>1 DEF InitInv
      <3>3. g \in classes
        BY <2>1, <3>2 DEF InitInv
      <3> QED
        BY <1>1, <1>2, <3>1, <3>2, <3>3
    <2>2. CASE x = c /\ d["init"] = "function"
      <3>1. Lookup(c, "init")' = Given("function", c)
        BY <1>2, <2>2
      <3>2. g = c
        BY <1>8, <2>2, <3>1 DEF Given
      <3> QED
        BY <1>2, <2>2, <3>1, <3>2
    <2>3. CASE x = c /\ d["init"] = "undefined"
      <3>1. Lookup(p, "init") = Given("function", g)
        BY <1>2, <1>8, <2>3
      <3>2. g \in Ancestors(p) /\ Lookup(g, "init") = Given("function", g)
        BY <3>1 DEF InitInv
      <3>3. g \in classes
        BY <3>2 DEF InitInv
      <3> QED
        BY <1>1, <1>2, <2>3, <3>2, <3>3
    <2> QED
      BY <1>1, <1>4, <2>1, <2>2, <2>3
  <1> QED
    BY <1>5, <1>6, <1>7, <1>8 DEF InitInv

-----------------------------------------------------------------------------
(* All steps.                                                              *)

LEMMA SeqGrows ==
    ASSUME NEW S, NEW T, S \subseteq T, NEW s \in Seq(S)
    PROVE  s \in Seq(T)
  <1>1. Len(s) \in Nat /\ s = [i \in 1..Len(s) |-> s[i]]
    OBVIOUS
  <1>2. \A i \in 1..Len(s) : s[i] \in T
    BY ElementOfSeq
  <1> QED
    BY <1>1, <1>2

\* Steps that make no class.
LEMMA SameClasses ==
    ASSUME TreeInv, InitInv, UNCHANGED <<classes, parent, own>>
    PROVE  /\ TreeInv' /\ InitInv'
           /\ \A c \in Classes, n \in Names : Lookup(c, n)' = Lookup(c, n)
  <1>1. TreeInv'
    BY DEF TreeInv
  <1>2. ASSUME NEW n \in Names, NEW c PROVE Lookup(c, n)' = Lookup(c, n)
    <2>1. PICK f : OnlyChain(own, parent, n, f)
      BY DEF TreeInv
    <2>2. OnlyChain(own', parent', n, f)
      BY <2>1
    <2>3. Lookup(c, n) = f[c]
      BY <2>1, LookupIs
    <2>4. Lookup(c, n)' = f[c]
      BY <2>2, LookupWillBe
    <2> QED
      BY <2>3, <2>4
  <1>3. ASSUME NEW c PROVE Ancestors(c)' = Ancestors(c)
    <2>1. PICK f : OnlyLine(parent, f)
      BY DEF TreeInv
    <2>2. OnlyLine(parent', f)
      BY <2>1
    <2>3. Ancestors(c) = f[c]
      BY <2>1, AncestorsAre
    <2>4. Ancestors(c)' = f[c]
      BY <2>2, AncestorsWillBe
    <2> QED
      BY <2>3, <2>4
  <1>4. "init" \in Names
    BY ClassAssumption
  <1>5. InitInv'
    BY <1>2, <1>3, <1>4 DEF InitInv, IsFunction
  <1> QED
    BY <1>1, <1>2, <1>5

\* What runs on an object of a class, and on a prototype.
LEMMA InitsFacts ==
    ASSUME InitInv, NEW c \in Classes
    PROVE  /\ InitsOf(c, FALSE) \in Seq(Value)
           /\ InitsOf(c, TRUE) = <<>>
           /\ InitsOf(c, TRUE) \o InitsOf(c, FALSE) = InitsOf(c, FALSE)
  <1>1. Lookup(c, "init") \in Value
    BY ClassAssumption DEF InitInv
  <1>2. InitsOf(c, FALSE) = <<Lookup(c, "init")>> \/ InitsOf(c, FALSE) = <<>>
    BY DEF InitsOf
  <1>3. InitsOf(c, FALSE) \in Seq(Value)
    <2>1. \A v \in Value : <<v>> \in Seq(Value)
      OBVIOUS
    <2>2. <<Lookup(c, "init")>> \in Seq(Value)
      BY <1>1, <2>1, Zenon
    <2>3. <<>> \in Seq(Value)
      OBVIOUS
    <2> QED
      BY <1>2, <2>2, <2>3, Zenon
  <1>4. InitsOf(c, TRUE) = <<>>
    BY DEF InitsOf
  <1>5. \A s \in Seq(Value) : <<>> \o s = s
    OBVIOUS
  <1> QED
    BY <1>3, <1>4, <1>5

LEMMA SameInits ==
    ASSUME NEW c, Lookup(c, "init")' = Lookup(c, "init")
    PROVE  InitsOf(c, FALSE)' = InitsOf(c, FALSE)
  BY DEF InitsOf, IsFunction

\* The inits of an object are those of its class, unless it was made astray.
Rightly(o) == o.inits = IF o.astray THEN <<>> ELSE InitsOf(o.class, FALSE)

LEMMA ObjectAt ==
    ASSUME ClassTypeOK, NEW i \in DOMAIN objects
    PROVE  objects[i].class \in classes /\ objects[i].class \in Classes
  <1>1. /\ objects \in Seq([class : classes, inits : Seq(Value), astray : BOOLEAN])
        /\ classes \subseteq Classes
    BY DEF ClassTypeOK
  <1>2. i \in 1..Len(objects)
    BY <1>1
  <1>3. objects[i] \in [class : classes, inits : Seq(Value), astray : BOOLEAN]
    BY <1>1, <1>2, ElementOfSeq
  <1> QED
    BY <1>1, <1>3

LEMMA AllRightly ==
    ASSUME (\A i \in DOMAIN objects : Rightly(objects[i]))',
           \A c \in Classes : prototypeInits'[c] = 0
    PROVE  InitRunsOnce'
  BY DEF InitRunsOnce, Rightly

\* Steps that change no object and nothing that is looked up.
LEMMA SameObjects ==
    ASSUME ClassTypeOK, InitRunsOnce, UNCHANGED <<objects, prototypeInits>>,
           \A x \in classes : Lookup(x, "init")' = Lookup(x, "init")
    PROVE  InitRunsOnce'
  <1>1. ASSUME NEW i \in DOMAIN objects
        PROVE  Rightly(objects[i])'
    <2>1. Rightly(objects[i]) /\ objects[i].class \in classes
      BY ObjectAt DEF InitRunsOnce, Rightly
    <2>2. InitsOf(objects[i].class, FALSE)' = InitsOf(objects[i].class, FALSE)
      BY <2>1, SameInits
    <2> QED
      BY <2>1, <2>2 DEF Rightly
  <1> QED
    BY <1>1 DEF InitRunsOnce, Rightly

LEMMA MakeKeeps ==
    ASSUME ClassInv, NEW c \in classes, New(c) \/ Create(c)
    PROVE  ClassInv'
  <1> USE DEF ClassInv
  <1>1. /\ UNCHANGED <<classes, parent, own, prototypeInits>>
        /\ c \in Classes
    BY DEF New, Create, ClassTypeOK
  <1>a. astray' \in BOOLEAN
    BY DEF New, Create, ClassTypeOK
  <1>b. initializing' = astray'
    BY DEF New, Create
  <1> DEFINE is == IF astray' THEN <<>> ELSE InitsOf(c, FALSE)
  <1>2. Make(c, is)
    <2>1. CASE New(c)
      <3>1. InitsOf(c, initializing) = is
        <4>1. CASE astray
          <5>1. astray' = TRUE /\ initializing = TRUE
            BY <2>1, <4>1 DEF New, ClassTypeOK
          <5> QED
            BY <1>1, <5>1, InitsFacts
        <4>2. CASE ~astray
          <5>1. astray' = FALSE /\ initializing = FALSE
            BY <2>1, <4>2 DEF New, ClassTypeOK
          <5> QED
            BY <5>1
        <4> QED
          BY <4>1, <4>2
      <3>2. Make(c, InitsOf(c, initializing))
        BY <2>1 DEF New
      <3> QED
        BY <3>1, <3>2
    <2>2. CASE Create(c)
      <3>1. is = InitsOf(c, FALSE)
        BY <2>2 DEF Create
      <3>2. InitsOf(c, TRUE) \o InitsOf(c, FALSE) = is
        BY <1>1, <3>1, InitsFacts
      <3>3. Make(c, InitsOf(c, TRUE) \o InitsOf(c, FALSE))
        BY <2>2 DEF Create
      <3> QED
        BY <3>2, <3>3
    <2> QED
      BY <2>1, <2>2
  <1>c. is \in Seq(Value)
    <2>1. InitsOf(c, FALSE) \in Seq(Value)
      BY <1>1, InitsFacts
    <2>2. <<>> \in Seq(Value)
      OBVIOUS
    <2> QED
      BY <2>1, <2>2
  <1> DEFINE o == [class |-> c, inits |-> is, astray |-> astray']
  <1>3. /\ objects' = Append(objects, o)
        /\ running' = running \/ running' = Append(running, Len(objects) + 1)
    BY <1>2 DEF Make
  <1> HIDE DEF is
  <1>4. o \in [class : classes, inits : Seq(Value), astray : BOOLEAN]
    BY <1>a, <1>c
  <1>5. TreeInv' /\ InitInv' /\ \A x \in Classes : Lookup(x, "init")' = Lookup(x, "init")
    BY <1>1, SameClasses, ClassAssumption
  <1> HIDE DEF o
  <1>6. /\ objects' \in Seq([class : classes, inits : Seq(Value), astray : BOOLEAN])
        /\ Len(objects') = Len(objects) + 1 /\ Len(objects) \in Nat
        /\ DOMAIN objects = 1..Len(objects) /\ DOMAIN objects' = 1..Len(objects')
        /\ \A i \in 1..Len(objects) : objects'[i] = objects[i]
        /\ objects'[Len(objects) + 1] = o
    BY <1>3, <1>4 DEF ClassTypeOK
  <1>7. running' \in Seq(DOMAIN objects')
    <2>1. running \in Seq(DOMAIN objects')
      BY <1>6, SeqGrows DEF ClassTypeOK
    <2>2. Len(objects) + 1 \in DOMAIN objects'
      BY <1>6
    <2> QED
      BY <1>3, <2>1, <2>2
  <1>8. ClassTypeOK'
    BY <1>1, <1>a, <1>b, <1>6, <1>7 DEF ClassTypeOK
  <1>9. \A x \in Classes : InitsOf(x, FALSE)' = InitsOf(x, FALSE)
    BY <1>5, SameInits
  <1>10. InitRunsOnce'
    <2>1. ASSUME NEW e, NEW i \in 1..Len(objects), e = objects[i]
          PROVE  Rightly(e)'
      <3>1. i \in DOMAIN objects
        BY <1>6
      <3>2. Rightly(e) /\ e.class \in Classes
        BY <2>1, <3>1, ObjectAt DEF InitRunsOnce, Rightly
      <3>3. InitsOf(e.class, FALSE)' = InitsOf(e.class, FALSE)
        BY <1>9, <3>2
      <3> QED
        BY <3>2, <3>3 DEF Rightly
    <2>2. ASSUME NEW e, e = o
          PROVE  Rightly(e)'
      <3>1. e.class = c /\ e.inits = is /\ e.astray = astray'
        BY <2>2 DEF o
      <3>2. InitsOf(c, FALSE)' = InitsOf(c, FALSE)
        BY <1>1, <1>9
      <3>3. InitsOf(e.class, FALSE)' = InitsOf(c, FALSE)
        BY <3>1, <3>2
      <3> QED
        BY <3>1, <3>3 DEF Rightly, is
    <2>3. ASSUME NEW e, NEW i \in DOMAIN objects', e = objects'[i]
          PROVE  Rightly(e)'
      <3>1. i \in 1..Len(objects) \/ i = Len(objects) + 1
        BY <1>6
      <3> QED
        BY <1>6, <2>1, <2>2, <2>3, <3>1
    <2>4. \A x \in Classes : prototypeInits'[x] = 0
      BY <1>1 DEF InitRunsOnce
    <2>5. (\A i \in DOMAIN objects : Rightly(objects[i]))'
      BY <2>3
    <2> QED
      BY <2>4, <2>5, AllRightly
  <1> QED
    BY <1>b, <1>5, <1>8, <1>10

\* Steps that only end inits, and may leave the flag as a stray call does.
LEMMA EndKeeps ==
    ASSUME ClassInv,
           \/ InitReturns
           \/ CallAstray
           \/ \E p \in classes, d \in Definitions : ExtendThrows(p, d)
    PROVE  ClassInv'
  <1> USE DEF ClassInv
  <1>1. UNCHANGED <<classes, parent, own, objects, prototypeInits>>
    BY DEF InitReturns, CallAstray, ExtendThrows
  <1>a. astray' \in BOOLEAN
    BY DEF InitReturns, CallAstray, ExtendThrows, ClassTypeOK
  <1>b. initializing' = astray'
    <2>1. CASE InitReturns
      BY <2>1 DEF InitReturns
    <2>2. CASE CallAstray
      <3>1. initializing' = TRUE /\ astray' = TRUE
        BY <2>2 DEF CallAstray
      <3> QED
        BY <3>1, Zenon
    <2>3. CASE \E p \in classes, d \in Definitions : ExtendThrows(p, d)
      <3>1. initializing' = FALSE /\ astray' = FALSE
        BY <2>3 DEF ExtendThrows
      <3> QED
        BY <3>1, Zenon
    <2> QED
      BY <2>1, <2>2, <2>3
  <1>2. running' \in Seq(DOMAIN objects)
    <2>1. running \in Seq(DOMAIN objects) /\ Len(running) \in Nat
      BY DEF ClassTypeOK
    <2>2. PICK k \in 0..Len(running) : running' = SubSeq(running, 1, k)
      BY <2>1 DEF InitReturns, CallAstray, ExtendThrows, Unwind
    <2>3. \A i \in 1..k : running[i] \in DOMAIN objects
      BY <2>1, <2>2, ElementOfSeq
    <2> QED
      BY <2>1, <2>2, <2>3
  <1>3. ClassTypeOK'
    BY <1>1, <1>a, <1>b, <1>2 DEF ClassTypeOK
  <1>4. TreeInv' /\ InitInv' /\ \A x \in Classes : Lookup(x, "init")' = Lookup(x, "init")
    BY <1>1, SameClasses, ClassAssumption
  <1>5. InitRunsOnce'
    BY <1>1, <1>4, SameObjects DEF ClassTypeOK
  <1> QED
    BY <1>b, <1>3, <1>4, <1>5

LEMMA ExtendKeeps ==
    ASSUME ClassInv, NEW c \in Classes, NEW p \in classes,
           NEW d \in Definitions, Extend(c, p, d)
    PROVE  ClassInv'
  <1> USE DEF ClassInv
  <1>1. /\ c \notin classes /\ p \in Classes /\ classes' = classes \cup {c}
        /\ own' \in [Classes -> [Names -> Value]]
        /\ parent' \in [Classes -> Classes]
        /\ classes \subseteq Classes /\ Root \in classes
    BY ExtendTypes DEF ClassTypeOK
  <1>2. /\ UNCHANGED <<objects, running>>
        /\ initializing' = FALSE /\ astray' = FALSE
        /\ prototypeInits' = [prototypeInits EXCEPT ![c] = Len(InitsOf(p, TRUE))]
    BY DEF Extend, NewPrototype
  <1>3. Len(InitsOf(p, TRUE)) = 0
    <2>1. InitsOf(p, TRUE) = <<>>
      BY <1>1, InitsFacts
    <2>2. \A s : s = <<>> => Len(s) = 0
      OBVIOUS
    <2> QED
      BY <2>1, <2>2, Zenon
  <1>4. /\ prototypeInits' \in [Classes -> Nat]
        /\ \A x \in Classes : prototypeInits'[x] = 0
    BY <1>2, <1>3 DEF ClassTypeOK, InitRunsOnce
  <1>5. TreeInv' /\ InitInv'
    BY ExtendFacts, ExtendInits
  <1>6. \A x \in classes : Lookup(x, "init")' = Lookup(x, "init")
    BY <1>1, ExtendFacts, ClassAssumption
  <1>7. objects' \in Seq([class : classes', inits : Seq(Value), astray : BOOLEAN])
    <2>1. [class : classes, inits : Seq(Value), astray : BOOLEAN] \subseteq [class : classes', inits : Seq(Value), astray : BOOLEAN]
      BY <1>1
    <2>2. objects \in Seq([class : classes, inits : Seq(Value), astray : BOOLEAN])
      BY DEF ClassTypeOK
    <2> QED
      BY <1>2, <2>1, <2>2, SeqGrows
  <1>8. ClassTypeOK'
    BY <1>1, <1>2, <1>4, <1>7 DEF ClassTypeOK
  <1>9. InitRunsOnce'
    <2>1. \A x \in Classes : prototypeInits'[x] = prototypeInits[x]
      BY <1>4 DEF InitRunsOnce
    <2>2. prototypeInits' = prototypeInits
      BY <1>4, <2>1 DEF ClassTypeOK
    <2> QED
      BY <1>2, <1>6, <2>2, SameObjects
  <1> QED
    BY <1>2, <1>5, <1>8, <1>9

LEMMA ClassStep == ClassInv /\ [ClassNext]_classVars => ClassInv'
  <1> SUFFICES ASSUME ClassInv, [ClassNext]_classVars PROVE ClassInv'
    OBVIOUS
  <1>1. CASE UNCHANGED classVars
    <2>1. TreeInv' /\ InitInv' /\ \A x \in Classes : Lookup(x, "init")' = Lookup(x, "init")
      BY <1>1, SameClasses, ClassAssumption DEF classVars, ClassInv
    <2>4. InitRunsOnce'
      BY <1>1, <2>1, SameObjects DEF classVars, ClassInv, ClassTypeOK
    <2>5. ClassTypeOK' /\ initializing' = astray'
      BY <1>1 DEF classVars, ClassInv, ClassTypeOK
    <2> QED
      BY <2>1, <2>4, <2>5 DEF ClassInv
  <1> QED
    BY <1>1, MakeKeeps, EndKeeps, ExtendKeeps DEF ClassNext

\* Type correctness of the class library.
THEOREM ClassTypeCorrect == ClassSpec => []ClassTypeOK
  <1>1. ClassInv => ClassTypeOK
    BY DEF ClassInv
  <1> QED
    BY <1>1, ClassStart, ClassStep, PTL DEF ClassSpec

\* However deep calls of init nest and whatever extend() threw, an object is
\* initialised once, by the init its class has or inherits, unless `new' made
\* it after a call that went astray; then it is not; and a prototype never.
THEOREM InitAlwaysRunsOnce == ClassSpec => []InitRunsOnce
  <1>1. ClassInv => InitRunsOnce
    BY DEF ClassInv
  <1> QED
    BY <1>1, ClassStart, ClassStep, PTL DEF ClassSpec

\* In any tree of classes, instanceOf() recognises an object by the class that
\* gave it its init and by the descendants of that class, and by no other.
THEOREM InstancesRecognised == ClassSpec => []RecognisedByInit
  <1>1. ASSUME ClassInv, NEW x \in classes, NEW c \in classes
        PROVE  InstanceOf(x, c) <=>
                 IF IsFunction(Lookup(x, "init"))
                 THEN Lookup(x, "init").from \in Ancestors(c)
                 ELSE ~IsFunction(Lookup(c, "init"))
    <2>1. /\ Lookup(c, "init") = Undefined \/ IsFunction(Lookup(c, "init"))
          /\ Lookup(x, "init") = Undefined \/ IsFunction(Lookup(x, "init"))
      BY <1>1 DEF ClassInv, InitInv
    <2>2. ~IsFunction(Undefined)
      BY DEF IsFunction, Undefined, Given
    <2>3. CASE IsFunction(Lookup(x, "init"))
      <3>1. Lookup(x, "init") \in Value
        BY <1>1, ClassAssumption DEF ClassInv, ClassTypeOK, InitInv
      <3> DEFINE g == Lookup(x, "init").from
      <3>2. g \in Classes /\ Lookup(x, "init") = Given("function", g)
        BY <2>3, <3>1 DEF IsFunction, Given, Value
      <3>3. Lookup(g, "init") = Given("function", g)
        BY <1>1, <3>2 DEF ClassInv, InitInv
      <3>4. IsFunction(Lookup(g, "init"))
        BY <3>3 DEF IsFunction, Given
      <3> HIDE DEF g
      <3>5. g \in Ancestors(c) => Lookup(c, "init") = Given("function", g)
        BY <1>1, <3>3, <3>4 DEF ClassInv, InitInv
      <3>6. Lookup(c, "init") = Given("function", g) => g \in Ancestors(c)
        BY <1>1, <3>2 DEF ClassInv, InitInv
      <3> QED
        BY <2>3, <3>2, <3>5, <3>6 DEF InstanceOf, g
    <2>4. CASE ~IsFunction(Lookup(x, "init"))
      BY <2>1, <2>2, <2>4 DEF InstanceOf
    <2> QED
      BY <2>3, <2>4
  <1>2. ClassInv => RecognisedByInit
    <2> SUFFICES ASSUME ClassInv, NEW i \in DOMAIN objects, NEW c \in classes
                 PROVE  InstanceOf(objects[i].class, c) <=>
                          IF IsFunction(Lookup(objects[i].class, "init"))
                          THEN Lookup(objects[i].class, "init").from \in Ancestors(c)
                          ELSE ~IsFunction(Lookup(c, "init"))
      BY DEF RecognisedByInit
    <2>1. objects[i].class \in classes
      BY ObjectAt DEF ClassInv
    <2> QED
      BY <1>1, <2>1
  <1> QED
    BY <1>2, ClassStart, ClassStep, PTL DEF ClassSpec

\* Extending a class changes nothing for the classes there are.
THEOREM ExtendAlwaysIsolates == ClassSpec => ExtendIsolates
  <1>1. ASSUME ClassInv, [ClassNext]_classVars
        PROVE  \A c \in classes, n \in Names : Lookup(c, n)' = Lookup(c, n)
    <2>1. classes \subseteq Classes
      BY <1>1 DEF ClassInv, ClassTypeOK
    <2>2. CASE UNCHANGED <<classes, parent, own>>
      BY <1>1, <2>1, <2>2, SameClasses DEF ClassInv
    <2>3. ASSUME NEW c \in Classes, NEW p \in classes, NEW d \in Definitions,
                 Extend(c, p, d)
          PROVE  \A x \in classes, n \in Names : Lookup(x, n)' = Lookup(x, n)
      <3>1. c \notin classes
        BY <2>3 DEF Extend
      <3> QED
        BY <1>1, <2>1, <2>3, <3>1, ExtendFacts DEF ClassInv
    <2> QED
      BY <1>1, <2>2, <2>3 DEF ClassNext, New, Create, CallAstray, ExtendThrows,
                                  InitReturns, classVars
  <1>2. ClassInv /\ [ClassNext]_classVars =>
          [\A c \in classes, n \in Names : Lookup(c, n)' = Lookup(c, n)]_classVars
    BY <1>1
  <1> QED
    BY <1>2, ClassStart, ClassStep, PTL DEF ClassSpec, ExtendIsolates
=============================================================================
