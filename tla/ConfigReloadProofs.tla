-------------------------- MODULE ConfigReloadProofs --------------------------
(***************************************************************************)
(* Proofs about one configuration file, for every set of keys, values and  *)
(* handlers and without bounds on the changes.                             *)
(***************************************************************************)
EXTENDS ConfigReload, SequenceTheorems, TLAPS

USE ConfigReloadAssumption

Fresh == \A k \in Keys \ unsaved : Saved(mem[k]) = file[k]

\* Memory differs from the file, in a key no store is to save, only while
\* somebody is going to find out: an event is queued or polled, a refresh is
\* under way, or a change has been missed.
FreshInv ==
    /\ queued > 0 => watcher = "watching"
    /\ watcher = "cleared" => \A k \in Keys \ unsaved : mem[k] = Null
    /\ watcher = "cleared" /\ saver = "saving" => unsaved = {}
    /\ \/ Fresh \/ unseen \/ queued > 0
       \/ watcher \in {"clearing", "cleared"}
       \/ watcher = "polled" /\ batch > 0

Inv == TypeOK /\ FreshInv

LEMMA LoadedType == \A t \in Texts \cup {Many, Null} : Loaded(t) \in Value \cup {Null}
  BY DEF Loaded, Value

LEMMA AddedType ==
  \A v \in Value \cup {Null}, t \in Texts \cup {Many, Null} :
     Added(v, t) \in Value \cup {Null}
  BY LoadedType DEF Added

LEMMA SavedType == \A v \in Value \cup {Null} : Saved(v) \in Texts \cup {Many, Null}
  BY DEF Saved, Value

\* Saving what was loaded gives the file back.
LEMMA SavedLoaded == \A t \in Texts \cup {Many, Null} : Saved(Loaded(t)) = t
  <1> SUFFICES ASSUME NEW t \in Texts \cup {Many, Null} PROVE Saved(Loaded(t)) = t
    OBVIOUS
  <1>1. CASE t = Null
    BY <1>1 DEF Saved, Loaded
  <1>2. CASE t \in Texts \cup {Many}
    <2>1. Loaded(t) = [kind |-> IF t = Many THEN "list" ELSE "text", text |-> t]
      BY <1>2 DEF Loaded
    <2>2. Loaded(t) # Null
      BY <1>2, <2>1
    <2>3. QED
      BY <2>1, <2>2 DEF Saved
  <1>3. QED
    BY <1>1, <1>2

Look == [key : Keys, value : Value \cup {Null}, info : Value \cup {Null},
         at : Nat \ {0}]

LEMMA LookNext ==
  ASSUME NEW l \in Look
  PROVE  [l EXCEPT !.at = l.at + 1] \in Look
  <1>1. l.at + 1 \in Nat \ {0}
    BY DEF Look
  <1>2. QED
    BY <1>1 DEF Look

LEMMA LookTold ==
  ASSUME NEW l \in Look, NEW v \in Value \cup {Null}
  PROVE  [l EXCEPT !.info = v, !.at = 1] \in Look
  <1> DEFINE m == [l EXCEPT !.info = v]
  <1>1. m \in Look
    BY DEF Look
  <1>2. [m EXCEPT !.at = 1] \in Look
    <2> HIDE DEF m
    <2> QED
      BY <1>1 DEF Look
  <1>3. QED
    BY <1>2

LEMMA InitInv == Init => Inv
  <1> SUFFICES ASSUME Init PROVE Inv
    OBVIOUS
  <1>1. mem \in [Keys -> Value \cup {Null}]
    BY LoadedType DEF Init
  <1>2. look \in [key : Keys, value : Value \cup {Null},
                  info : Value \cup {Null}, at : Nat \ {0}]
    BY DEF Init
  <1>3. TypeOK
    <2>1. handlers \in [Keys -> Seq(Handlers)]
      BY DEF Init
    <2>2. told \in [Handlers -> [Keys -> Value \cup {Null}]]
      BY <1>1 DEF Init
    <2>3. old \in [Keys -> Value \cup {Null}]
      BY <1>1 DEF Init
    <2>4. interrupted \in BOOLEAN /\ unseen \in BOOLEAN
      BY DEF Init
    <2>5. queued \in Nat /\ batch \in Nat /\ edits \in 0..MaxEdits /\ stops \in 0..MaxStops
      BY DEF Init
    <2>6. QED
      BY <1>1, <1>2, <2>1, <2>2, <2>3, <2>4, <2>5 DEF Init, TypeOK
  <1>4. FreshInv
    BY SavedLoaded DEF Init, FreshInv, Fresh
  <1>5. QED
    BY <1>3, <1>4 DEF Inv

Change(k) ==
    \/ \E t \in Texts \cup {Null} : Edit(k, t)
    \/ \E v \in ApiValue : SetProperty(k, v) \/ AddProperty(k, v)
    \/ RemoveProperty(k)

LEMMA ChangeInv ==
  ASSUME Inv, NEW k \in Keys, Change(k)
  PROVE  Inv'
  <1> USE DEF Inv, reloader, checking
  <1>1. CASE \E t \in Texts \cup {Null} : Edit(k, t)
    <2>1. FileChanged /\ UNCHANGED <<mem, saver, unsaved>>
      BY <1>1 DEF Edit
    <2>2. file' \in [Keys -> Texts \cup {Many, Null}] /\ edits' \in 0..MaxEdits
      BY <1>1 DEF Edit, TypeOK
    <2>3a. unseen' \in BOOLEAN
      BY <2>1 DEF FileChanged, TypeOK
    <2>3. queued' \in Nat
      BY <2>1 DEF FileChanged, TypeOK
    <2>4. TypeOK'
      BY <2>1, <2>2, <2>3, <2>3a DEF FileChanged, TypeOK
    <2>5. FreshInv'
      BY <2>1 DEF FileChanged, FreshInv, TypeOK
    <2> QED
      BY <2>4, <2>5
  <1>2. ASSUME NEW v \in Value \cup {Null}, Store(k, v) PROVE Inv'
    <2>1. TypeOK'
      BY <1>2 DEF Store, TypeOK
    <2>2. \A j \in Keys \ unsaved' : j \notin unsaved /\ mem'[j] = mem[j]
      BY <1>2 DEF Store, TypeOK
    <2>3. FreshInv'
      BY <1>2, <2>2 DEF Store, FreshInv, Fresh
    <2> QED
      BY <2>1, <2>3
  <1>3. ApiValue \subseteq Value
    BY DEF ApiValue, Value
  <1> QED
    BY <1>1, <1>2, <1>3 DEF Change, SetProperty, AddProperty, RemoveProperty

\* So does a store that is finished.
LEMMA SavingInv == Inv /\ Saving => Inv'
  <1> SUFFICES ASSUME Inv, Saving PROVE Inv'
    OBVIOUS
  <1> USE DEF Inv, reloader, checking, counters
  <1>1. CASE AutoSave
    <2>1. TypeOK'
      BY <1>1 DEF AutoSave, TypeOK
    <2>2. FreshInv'
      BY <1>1 DEF AutoSave, FreshInv, Fresh
    <2> QED
      BY <2>1, <2>2
  <1>2. CASE Save
    <2>1. FileChanged /\ unsaved' = {} /\ saver' = "idle" /\ UNCHANGED <<mem, edits>>
      BY <1>2 DEF Save
    <2>2. file' \in [Keys -> Texts \cup {Many, Null}]
      BY <1>2, SavedType DEF Save, TypeOK
    <2>3a. unseen' \in BOOLEAN
      BY <2>1 DEF FileChanged, TypeOK
    <2>3. queued' \in Nat
      BY <2>1 DEF FileChanged, TypeOK
    <2>4. TypeOK'
      BY <2>1, <2>2, <2>3, <2>3a DEF FileChanged, TypeOK
    <2>5. \A k \in Keys : Saved(mem'[k]) = file'[k]
      BY <1>2 DEF Save
    <2>6. watcher' = "cleared" => \A k \in Keys : mem'[k] = Null
      BY <1>2, <2>1 DEF Save, FileChanged, FreshInv
    <2>7. queued' > 0 => watcher' = "watching"
      BY <2>1 DEF FileChanged, FreshInv
    <2>8. FreshInv'
      BY <2>1, <2>5, <2>6, <2>7 DEF FreshInv, Fresh
    <2> QED
      BY <2>4, <2>8
  <1> QED
    BY <1>1, <1>2 DEF Saving

\* A step of the directory thread keeps the invariant.
LEMMA RunInv == Inv /\ Run => Inv'
  <1> SUFFICES ASSUME Inv, Run PROVE Inv'
    OBVIOUS
  <1> USE DEF Inv, TypeOK, reloader, checking, counters, store
  <1>1. CASE Watch
    BY <1>1 DEF Watch, FreshInv, Fresh
  <1>1a. CASE RegisterFails
    BY <1>1a DEF RegisterFails, FreshInv, Fresh
  <1>2. CASE Poll
    BY <1>2 DEF Poll, FreshInv, Fresh
  <1>3. CASE TakeInterrupted
    <2>1. unseen' \in BOOLEAN /\ interrupted' \in BOOLEAN
      BY <1>3 DEF TakeInterrupted
    <2>2. TypeOK'
      BY <1>3, <2>1 DEF TakeInterrupted
    <2>3. FreshInv'
      <3>1. Fresh \/ unseen \/ queued > 0
        BY <1>3 DEF TakeInterrupted, FreshInv
      <3>2. unseen' <=> unseen \/ queued > 0
        BY <1>3, Zenon DEF TakeInterrupted
      <3>3. Fresh => Fresh'
        BY <1>3 DEF TakeInterrupted, Fresh
      <3>4. ~(queued' > 0)
        BY <1>3 DEF TakeInterrupted
      <3>5. QED
        BY <1>3, <3>1, <3>2, <3>3, <3>4 DEF TakeInterrupted, FreshInv
    <2>4. QED
      BY <2>2, <2>3
  <1>3a. CASE LoopLeft
    <2>1. unseen' \in BOOLEAN /\ batch' \in Nat
      BY <1>3a DEF LoopLeft
    <2>2. TypeOK'
      BY <1>3a, <2>1 DEF LoopLeft
    <2>3. unseen' <=> unseen \/ batch > 0
      BY <1>3a, Zenon DEF LoopLeft
    <2>4. FreshInv'
      BY <1>3a, <2>3 DEF LoopLeft, FreshInv, Fresh
    <2> QED
      BY <2>2, <2>4
  <1>4. CASE Refresh
    BY <1>4 DEF Refresh, FreshInv, Fresh
  <1>4a. CASE Clear
    BY <1>4a DEF Clear, FreshInv, Fresh
  <1>4b. CASE Load
    <2> HIDE DEF Inv, TypeOK
    <2>0. \/ unseen' = TRUE /\ mem' = mem
          \/ unseen' = FALSE /\ mem' = [k \in Keys |-> Added(mem[k], file[k])]
      BY <1>4b DEF Load
    <2> USE DEF Inv, TypeOK
    <2>1. mem' \in [Keys -> Value \cup {Null}]
      <3>1. \A k \in Keys : Added(mem[k], file[k]) \in Value \cup {Null}
        BY AddedType
      <3>2. [k \in Keys |-> Added(mem[k], file[k])] \in [Keys -> Value \cup {Null}]
        BY <3>1
      <3> QED
        BY <2>0, <3>2
    <2>2. TypeOK'
      <3>1. unseen' \in BOOLEAN
        BY <2>0
      <3>2. QED
        BY <1>4b, <2>1, <3>1 DEF Load
    <2>3. ASSUME unseen' = FALSE, NEW k \in Keys \ unsaved PROVE Saved(mem'[k]) = file[k]
      <3>1. mem'[k] = Added(mem[k], file[k]) /\ mem[k] = Null
        BY <1>4b, <2>0, <2>3 DEF Load, FreshInv
      <3>2. mem'[k] = Loaded(file[k])
        BY <3>1 DEF Added
      <3> QED
        BY <3>2, SavedLoaded
    <2>4. FreshInv'
      BY <1>4b, <2>0, <2>3 DEF Load, FreshInv, Fresh
    <2> QED
      BY <2>2, <2>4
  <1>5. CASE \E k \in Keys : Compare(k)
    <2>1. PICK k \in Keys : Compare(k)
      BY <1>5
    <2>2. TypeOK'
      BY <2>1 DEF Compare
    <2>3. FreshInv'
      BY <2>1 DEF Compare, FreshInv, Fresh
    <2>4. QED
      BY <2>2, <2>3
  <1>6. CASE FireHandlers
    <2>1. mem[look.key] \in Value \cup {Null}
      OBVIOUS
    <2>2. look' \in Look
      BY <1>6, <2>1, LookTold DEF FireHandlers, Look
    <2>3. TypeOK'
      <3> HIDE DEF TypeOK
      <3>1. /\ watcher' = "firing"
            /\ UNCHANGED <<file, mem, old, handlers, told, removed, queued,
                           batch, todo, interrupted, unseen, edits, stops>>
        BY <1>6 DEF FireHandlers
      <3>2. QED
        BY <1>6, <2>2, <3>1 DEF FireHandlers, TypeOK, Look
    <2>4. FreshInv'
      BY <1>6 DEF FireHandlers, FreshInv, Fresh
    <2>5. QED
      BY <2>3, <2>4
  <1>7. CASE Handle
    <2> DEFINE h == handlers[look.key][look.at]
    <2>1. h \in Handlers
      <3>1. look.key \in Keys /\ look.at \in Nat \ {0}
        OBVIOUS
      <3>2. handlers[look.key] \in Seq(Handlers)
        BY <3>1
      <3>3. look.at \in 1..Len(handlers[look.key])
        BY <1>7, <3>1 DEF Handle
      <3>4. QED
        BY <3>2, <3>3, ElementOfSeq
    <2>2. told' \in [Handlers -> [Keys -> Value \cup {Null}]]
      BY <1>7, <2>1 DEF Handle
    <2>3. TypeOK'
      <3>1. look' \in Look
        BY <1>7, LookNext DEF Handle, Look
      <3>0. watcher' \in {"firing", "outside"}
        BY <1>7 DEF Handle
      <3>2. batch' \in Nat /\ todo' \in SUBSET Keys
        BY <1>7 DEF Handle
      <3>3. QED
        BY <1>7, <2>2, <3>0, <3>1, <3>2 DEF Handle, Look
    <2>4. FreshInv'
      BY <1>7 DEF Handle, FreshInv, Fresh
    <2>5. QED
      BY <2>3, <2>4
  <1>8. CASE StoreOldValue
    BY <1>8 DEF StoreOldValue, FreshInv, Fresh
  <1>9. CASE EndCheck
    BY <1>9 DEF EndCheck, FreshInv, Fresh
  <1>10. CASE EndBatch
    BY <1>10 DEF EndBatch, FreshInv, Fresh
  <1>11. QED
    BY <1>1, <1>1a, <1>2, <1>3, <1>3a, <1>4, <1>4a, <1>4b, <1>5, <1>6, <1>7, <1>8,
       <1>9, <1>10 DEF Run

LEMMA CallerInv ==
  ASSUME Inv,
         \/ StopService
         \/ \E k \in Keys, h \in Handlers :
               RegisterHandler(h, k) \/ UnregisterHandler(h, k)
  PROVE  Inv'
  <1> USE DEF Inv, TypeOK, reloader, checking, counters, store
  <1>1. CASE StopService
    BY <1>1 DEF StopService, FreshInv, Fresh
  <1>2. ASSUME NEW k \in Keys, NEW h \in Handlers, RegisterHandler(h, k)
        PROVE  Inv'
    BY <1>2 DEF RegisterHandler, FreshInv, Fresh
  <1>3. ASSUME NEW k \in Keys, NEW h \in Handlers, UnregisterHandler(h, k)
        PROVE  Inv'
    BY <1>3 DEF UnregisterHandler, FreshInv, Fresh
  <1>4. QED
    BY <1>1, <1>2, <1>3

LEMMA NextInv == Inv /\ [Next]_vars => Inv'
  <1>1. Inv /\ UNCHANGED vars => Inv'
    BY DEF Inv, TypeOK, FreshInv, Fresh, vars, reloader, checking, counters, store
  <1>2. QED
    BY <1>1, RunInv, ChangeInv, SavingInv, CallerInv DEF Next, Change

\* Type correctness.
THEOREM TypeCorrect == Spec => []TypeOK
  <1>1. Inv => TypeOK
    BY DEF Inv
  <1>2. QED
    BY <1>1, InitInv, NextInv, PTL DEF Spec

\* When the directory thread is at rest, memory and file agree, but for what
\* was stored in the middle of a refresh.
THEOREM MemoryStaysFresh == Spec => []MemoryFresh
  <1>1. Inv => MemoryFresh
    BY DEF Inv, FreshInv, MemoryFresh, Fresh, AtRest
  <1>2. QED
    BY <1>1, InitInv, NextInv, PTL DEF Spec
-----------------------------------------------------------------------------
(* What check() compares with and what handlers are told, if no handler    *)
(* throws.                                                                 *)

Calm == Throwing = {}

\* The old value of a key differs from the current one only while a check of
\* that key is to come, a store is still to be saved, or a change has been
\* missed.
CheckInv ==
    /\ batch > 0 => watcher \notin {"outside", "watching"}
    /\ todo # {} => watcher \in {"checking", "compared", "firing"}
    /\ watcher \in {"compared", "firing"} =>
          /\ look.key \in todo
          /\ look.value = mem[look.key] \/ unseen \/ saver # "idle"

OldInv(k) ==
    handlers[k] # <<>> =>
        \/ old[k] = mem[k] \/ unseen \/ queued > 0 \/ batch > 0 \/ k \in todo
        \/ saver # "idle" \/ watcher \in {"clearing", "cleared"}

\* The program does not change a key of an administrator in memory but for a
\* refresh, so that a check sees one value of it, tells every handler, and
\* remembers it.
IsText(v) == v # Null => v.kind = "text" /\ v.text # Many
Telling(k) == watcher \in {"compared", "firing"} /\ look.key = k

ToldInv(k) ==
    /\ IsText(mem[k]) /\ IsText(old[k]) /\ file[k] # Many
    /\ watcher = "cleared" => mem[k] = Null
    /\ handlers[k] # <<>> => old[k] = mem[k] \/ k \in todo \/ watcher = "cleared"
    /\ Telling(k) => /\ look.value = mem[k] /\ look.value # old[k]
                     /\ watcher = "firing" => look.info = mem[k]
    /\ IsInjective(handlers[k])
    /\ \A p \in 1..Len(handlers[k]) :
          told[handlers[k][p]][k] =
              IF watcher = "firing" /\ look.key = k /\ p < look.at
              THEN mem[k] ELSE old[k]

CalmInv ==
    /\ CheckInv
    /\ \A k \in Keys : OldInv(k)
    /\ \A k \in Keys \ ApiKeys : ToldInv(k)

LEMMA AppendNew ==
  ASSUME NEW s \in Seq(Handlers), IsInjective(s),
         NEW h \in Handlers, h \notin Range(s)
  PROVE  /\ IsInjective(Append(s, h))
         /\ Len(Append(s, h)) = Len(s) + 1 /\ Len(s) \in Nat
         /\ \A p \in 1..Len(s) : Append(s, h)[p] = s[p]
         /\ \A p \in 1..Len(s) : s[p] # h
         /\ Append(s, h)[Len(s) + 1] = h
  <1>1. /\ Len(Append(s, h)) = Len(s) + 1 /\ Len(s) \in Nat
        /\ DOMAIN s = 1..Len(s) /\ DOMAIN Append(s, h) = 1..(Len(s) + 1)
        /\ \A p \in 1..Len(s) : Append(s, h)[p] = s[p]
        /\ Append(s, h)[Len(s) + 1] = h
    OBVIOUS
  <1>2. \A p \in 1..Len(s) : s[p] # h
    BY <1>1 DEF Range
  <1>3. IsInjective(Append(s, h))
    BY <1>1, <1>2 DEF IsInjective
  <1> QED
    BY <1>1, <1>2, <1>3

LEMMA CalmInit == Init => CalmInv
  <1> SUFFICES ASSUME Init PROVE CalmInv
    OBVIOUS
  <1>1. CheckInv /\ \A k \in Keys : OldInv(k)
    BY DEF Init, CheckInv, OldInv
  <1>2. ASSUME NEW k \in Keys PROVE ToldInv(k)
    <2>1. mem[k] = Loaded(file[k]) /\ old[k] = mem[k] /\ handlers[k] = InitialHandlers
      BY DEF Init
    <2>0. file[k] \in Texts \cup {Null}
      BY DEF Init
    <2>2. IsText(mem[k]) /\ file[k] # Many
      BY <2>0, <2>1 DEF IsText, Loaded
    <2>3. \A p \in 1..Len(InitialHandlers) : InitialHandlers[p] \in Handlers
      BY ElementOfSeq
    <2>4. \A h \in Handlers : told[h][k] = mem[k]
      BY DEF Init
    <2> QED
      BY <2>1, <2>2, <2>3, <2>4 DEF ToldInv, Telling, Init
  <1> QED
    BY <1>1, <1>2 DEF CalmInv

\* A change of the file: by the program, of a key of its own, or not at all in
\* memory.
LEMMA ChangeCalm ==
  ASSUME Inv, CalmInv, NEW k \in Keys,
         \/ \E t \in Texts \cup {Null} : Edit(k, t)
         \/ k \in ApiKeys /\ Change(k)
  PROVE  CalmInv'
  <1> USE DEF reloader, checking
  <1>1. CASE \E t \in Texts \cup {Null} : Edit(k, t)
    <2>1. /\ UNCHANGED <<mem, saver, old, handlers, told, watcher, batch, todo, look>>
          /\ (unseen => unseen') /\ (queued > 0 => queued' > 0)
      BY <1>1 DEF Edit, FileChanged, Inv, TypeOK
    <2>2. \A j \in Keys : file'[j] # Many \/ file'[j] = file[j]
      BY <1>1 DEF Edit, Inv, TypeOK
    <2>3. CheckInv'
      BY <2>1 DEF CalmInv, CheckInv
    <2>4. \A j \in Keys : OldInv(j)'
      BY <2>1 DEF CalmInv, OldInv
    <2>5. \A j \in Keys \ ApiKeys : ToldInv(j)'
      BY <2>1, <2>2 DEF CalmInv, ToldInv, Telling
    <2> QED
      BY <2>3, <2>4, <2>5 DEF CalmInv
  <1>2. ASSUME k \in ApiKeys, NEW v, Store(k, v) PROVE CalmInv'
    <2>1. /\ UNCHANGED <<file, old, handlers, told, watcher, batch, todo, look>>
          /\ saver' = "stored"
          /\ \A j \in Keys \ {k} : mem'[j] = mem[j]
      BY <1>2 DEF Store, Inv, TypeOK
    <2>2. CheckInv'
      BY <2>1 DEF CalmInv, CheckInv
    <2>3. \A j \in Keys : OldInv(j)'
      BY <2>1 DEF OldInv
    <2>4. \A j \in Keys \ ApiKeys : ToldInv(j)'
      BY <1>2, <2>1 DEF CalmInv, ToldInv, Telling
    <2> QED
      BY <2>2, <2>3, <2>4 DEF CalmInv
  <1> QED
    BY <1>1, <1>2 DEF Change, SetProperty, AddProperty, RemoveProperty

\* A store that is finished is saved, and noticed, or will be loaded over.
LEMMA SavingCalm == ASSUME Inv, CalmInv, Saving PROVE CalmInv'
  <1> USE DEF reloader, checking
  <1>1. CASE AutoSave
    <2>1. UNCHANGED <<mem, file, old, handlers, told, watcher, queued, unseen,
                      batch, todo, look>>
      BY <1>1 DEF AutoSave
    <2>2. saver # "idle" /\ (saver' # "idle" \/ watcher \in {"clearing", "cleared"})
      BY <1>1 DEF AutoSave
    <2>3. CheckInv'
      BY <2>1, <2>2 DEF CalmInv, CheckInv
    <2>4. \A j \in Keys : OldInv(j)'
      BY <2>1, <2>2 DEF OldInv
    <2>5. \A j \in Keys \ ApiKeys : ToldInv(j)'
      BY <2>1 DEF CalmInv, ToldInv, Telling
    <2> QED
      BY <2>3, <2>4, <2>5 DEF CalmInv
  <1>2. CASE Save
    <2>1. /\ UNCHANGED <<mem, old, handlers, told, watcher, batch, todo, look>>
          /\ \A j \in Keys : file'[j] = Saved(mem[j])
      BY <1>2 DEF Save, FileChanged
    <2>2. IF watcher = "watching" THEN queued' > 0 ELSE unseen'
      BY <1>2 DEF Save, FileChanged, Inv, TypeOK
    <2>3. CheckInv'
      BY <2>1, <2>2 DEF CalmInv, CheckInv
    <2>4. \A j \in Keys : OldInv(j)'
      BY <2>1, <2>2 DEF OldInv
    <2>5. ASSUME NEW j \in Keys \ ApiKeys PROVE ToldInv(j)'
      <3>1. ToldInv(j)
        BY DEF CalmInv
      <3>2. file'[j] # Many
        BY <2>1, <3>1 DEF ToldInv, IsText, Saved
      <3> QED
        BY <2>1, <3>1, <3>2 DEF ToldInv, Telling
    <2> QED
      BY <2>3, <2>4, <2>5 DEF CalmInv
  <1> QED
    BY <1>1, <1>2 DEF Saving

\* Steps that only the bookkeeping of the thread takes part in.
LEMMA CalmSame ==
  ASSUME Inv, CalmInv,
         UNCHANGED <<file, mem, saver, old, handlers, told>>,
         watcher' \notin {"compared", "firing", "cleared"},
         watcher \notin {"compared", "firing", "clearing", "cleared"},
         todo' = todo, batch' > 0 => watcher' \notin {"outside", "watching"},
         todo # {} => watcher' = "checking",
         unseen \/ queued > 0 \/ batch > 0 =>
            unseen' \/ queued' > 0 \/ batch' > 0 \/ watcher' = "clearing"
  PROVE  CalmInv'
  <1>1. CheckInv'
    BY DEF CalmInv, CheckInv, LookupsFree
  <1>2. \A j \in Keys : OldInv(j)'
    BY DEF CalmInv, OldInv
  <1>3. \A j \in Keys \ ApiKeys : ToldInv(j)'
    BY DEF CalmInv, ToldInv, Telling
  <1> QED
    BY <1>1, <1>2, <1>3 DEF CalmInv

LEMMA RunCalm == ASSUME Calm, Inv, CalmInv, Run PROVE CalmInv'
  <1> USE DEF reloader, checking, counters, store
  <1>0. TypeOK /\ CheckInv
    BY DEF Inv, CalmInv
  <1>1a. CASE RegisterFails
    BY <1>0, <1>1a, CalmSame DEF RegisterFails, CheckInv
  <1>3a. CASE LoopLeft
    <2>1. unseen' <=> unseen \/ batch > 0
      BY <1>3a, Zenon DEF LoopLeft
    <2> QED
      BY <1>0, <1>3a, <2>1, CalmSame DEF LoopLeft, CheckInv
  <1>1. CASE Watch
    <2>1. ~(queued > 0)
      BY <1>1 DEF Inv, FreshInv, Watch
    <2> QED
      BY <1>0, <1>1, <2>1, CalmSame DEF Watch, CheckInv, LookupsFree
  <1>2. CASE Poll
    BY <1>0, <1>2, CalmSame DEF Poll, CheckInv, LookupsFree
  <1>3. CASE TakeInterrupted
    BY <1>0, <1>3, CalmSame DEF TakeInterrupted, CheckInv, LookupsFree
  <1>4. CASE EndCheck
    BY <1>0, <1>4, CalmSame DEF EndCheck, CheckInv, LookupsFree
  <1>5. CASE EndBatch
    BY <1>0, <1>5, CalmSame DEF EndBatch, CheckInv, LookupsFree
  <1>6. CASE Refresh
    BY <1>0, <1>6, CalmSame DEF Refresh, CheckInv
  <1>6a. CASE Clear
    <2>1. /\ UNCHANGED <<file, saver, old, handlers, told, look, queued, batch, todo>>
          /\ watcher' = "cleared" /\ watcher = "clearing"
          /\ \A k \in Keys : mem'[k] = Null
      BY <1>6a DEF Clear
    <2>2. CheckInv'
      BY <2>1 DEF CalmInv, CheckInv
    <2>3. \A j \in Keys : OldInv(j)'
      BY <2>1 DEF OldInv
    <2>4. \A j \in Keys \ ApiKeys : ToldInv(j)'
      BY <2>1 DEF CalmInv, ToldInv, Telling, IsText
    <2> QED
      BY <2>2, <2>3, <2>4 DEF CalmInv
  <1>6b. CASE Load
    <2>1. /\ UNCHANGED <<file, saver, old, handlers, told, look, queued, batch>>
          /\ watcher' = "checking" /\ watcher = "cleared"
          /\ todo' = {k \in Keys : handlers[k] # <<>>}
          /\ \A k \in Keys : mem'[k] = mem[k] \/ mem'[k] = Added(mem[k], file[k])
      BY <1>6b DEF Load
    <2>2. CheckInv'
      BY <2>1 DEF CalmInv, CheckInv
    <2>3. \A j \in Keys : OldInv(j)'
      BY <2>1 DEF OldInv
    <2>4. ASSUME NEW j \in Keys \ ApiKeys PROVE IsText(mem'[j])
      <3>1. mem[j] = Null /\ file[j] # Many
        BY <2>1 DEF CalmInv, ToldInv
      <3>2. mem'[j] = Null \/ mem'[j] = Loaded(file[j])
        BY <2>1, <3>1 DEF Added
      <3>3. Loaded(file[j]) # Null =>
              Loaded(file[j]).kind = "text" /\ Loaded(file[j]).text = file[j]
        BY <3>1 DEF Loaded
      <3> QED
        BY <3>1, <3>2, <3>3 DEF IsText
    <2>5. \A j \in Keys \ ApiKeys : ToldInv(j)'
      BY <2>1, <2>4 DEF CalmInv, ToldInv, Telling
    <2> QED
      BY <2>2, <2>3, <2>5 DEF CalmInv
  <1>7. ASSUME NEW k \in Keys, Compare(k) PROVE CalmInv'
    <2>1. /\ UNCHANGED <<file, mem, saver, handlers, told, queued, batch, unseen>>
          /\ watcher = "checking" /\ k \in todo
      BY <1>7 DEF Compare
    <2>2. CASE SameType(old[k], mem[k]) /\ old[k] # mem[k]
      <3>1. /\ watcher' = "compared" /\ old' = old /\ todo' = todo
            /\ look'.key = k /\ look'.value = mem[k]
        BY <1>0, <1>7, <2>2 DEF Compare, TypeOK
      <3>2. CheckInv'
        BY <2>1, <3>1 DEF CheckInv, LookupsFree
      <3>3. \A j \in Keys : OldInv(j)'
        BY <2>1, <3>1 DEF CalmInv, OldInv
      <3>4. \A j \in Keys \ ApiKeys : ToldInv(j)'
        BY <2>1, <2>2, <3>1 DEF CalmInv, ToldInv, Telling
      <3> QED
        BY <3>2, <3>3, <3>4 DEF CalmInv
    <2>3. CASE ~(SameType(old[k], mem[k]) /\ old[k] # mem[k])
      <3>1. /\ watcher' = watcher /\ look' = look /\ todo' = todo \ {k}
            /\ old' = [old EXCEPT ![k] = mem[k]]
        BY <1>7, <2>3 DEF Compare
      <3>2. old'[k] = mem[k] /\ \A j \in Keys \ {k} : old'[j] = old[j]
        BY <1>0, <3>1 DEF TypeOK
      <3>3. CheckInv'
        BY <2>1, <3>1 DEF CheckInv, LookupsFree
      <3>4. \A j \in Keys : OldInv(j)'
        BY <2>1, <3>1, <3>2 DEF CalmInv, OldInv
      <3>5. k \notin ApiKeys => old[k] = mem[k]
        BY <2>3 DEF CalmInv, ToldInv, IsText, SameType
      <3>6. \A j \in Keys \ ApiKeys : ToldInv(j)'
        BY <2>1, <3>1, <3>2, <3>5 DEF CalmInv, ToldInv, Telling
      <3> QED
        BY <3>3, <3>4, <3>6 DEF CalmInv
    <2> QED
      BY <2>2, <2>3
  <1>8. CASE FireHandlers
    <2>1. /\ UNCHANGED <<file, mem, saver, old, handlers, told, queued, batch, todo, unseen>>
          /\ watcher = "compared" /\ watcher' = "firing"
          /\ look'.key = look.key /\ look'.value = look.value
          /\ look'.info = mem[look.key] /\ look'.at = 1
      BY <1>0, <1>8 DEF FireHandlers, TypeOK
    <2>2. CheckInv'
      BY <2>1 DEF CalmInv, CheckInv, LookupsFree
    <2>3. \A j \in Keys : OldInv(j)'
      BY <2>1 DEF CalmInv, OldInv
    <2>4. \A j \in Keys \ ApiKeys : ToldInv(j)'
      BY <1>0, <2>1 DEF CalmInv, ToldInv, Telling, TypeOK
    <2> QED
      BY <2>2, <2>3, <2>4 DEF CalmInv
  <1>9. CASE Handle
    <2> DEFINE key == look.key
               h == handlers[key][look.at]
    <2>1. /\ UNCHANGED <<file, mem, saver, old, handlers, queued, batch, todo, unseen, watcher>>
          /\ watcher = "firing" /\ key \in Keys
          /\ look'.key = key /\ look'.value = look.value /\ look'.info = look.info
          /\ look.at \in 1..Len(handlers[key]) /\ look'.at = look.at + 1
          /\ told' = [told EXCEPT ![h][key] = look.info]
      BY <1>0, <1>9 DEF Handle, TypeOK, Calm
    <2>2. CheckInv'
      BY <2>1 DEF CalmInv, CheckInv, LookupsFree
    <2>3. \A j \in Keys : OldInv(j)'
      BY <2>1 DEF CalmInv, OldInv
    <2>4. ASSUME NEW j \in Keys \ ApiKeys PROVE ToldInv(j)'
      <3>1. ToldInv(j)
        BY DEF CalmInv
      <3>2. h \in Handlers /\ \A p \in 1..Len(handlers[j]) : handlers[j][p] \in Handlers
        BY <1>0, <2>1, ElementOfSeq DEF TypeOK
      <3>3. CASE j # key
        <4>1. \A g \in Handlers : told'[g][j] = told[g][j]
          BY <1>0, <2>1, <3>2, <3>3 DEF TypeOK
        <4> QED
          BY <2>1, <3>1, <3>2, <3>3, <4>1 DEF ToldInv, Telling
      <3>4. CASE j = key
        <4>1. /\ told'[h][key] = look.info
              /\ \A g \in Handlers \ {h} : told'[g][key] = told[g][key]
          BY <1>0, <2>1, <3>2 DEF TypeOK
        <4>2. look.info = mem[key] /\ IsInjective(handlers[key])
          BY <2>1, <3>1, <3>4 DEF ToldInv, Telling
        <4>3. \A p \in 1..Len(handlers[key]) : handlers[key][p] = h => p = look.at
          BY <1>0, <2>1, <4>2 DEF IsInjective, TypeOK
        <4>4. \A p \in 1..Len(handlers[key]) :
                told'[handlers[key][p]][key] =
                   IF p < look.at + 1 THEN mem[key] ELSE old[key]
          <5> SUFFICES ASSUME NEW p \in 1..Len(handlers[key])
                       PROVE  told'[handlers[key][p]][key] =
                                IF p < look.at + 1 THEN mem[key] ELSE old[key]
            OBVIOUS
          <5>1. CASE p = look.at
            BY <2>1, <4>1, <4>2, <5>1
          <5>2. CASE p # look.at
            <6>1. told'[handlers[key][p]][key] = told[handlers[key][p]][key]
              BY <3>2, <3>4, <4>1, <4>3, <5>2
            <6>2. p < look.at <=> p < look.at + 1
              BY <1>0, <2>1, <5>2 DEF TypeOK
            <6> QED
              BY <2>1, <3>1, <3>4, <6>1, <6>2 DEF ToldInv
          <5> QED
            BY <5>1, <5>2
        <4> QED
          BY <2>1, <3>1, <3>4, <4>2, <4>4 DEF ToldInv, Telling
      <3> QED
        BY <3>3, <3>4
    <2> QED
      BY <2>2, <2>3, <2>4 DEF CalmInv
  <1>10. CASE StoreOldValue
    <2> DEFINE key == look.key
    <2>1. /\ UNCHANGED <<file, mem, saver, handlers, told, queued, batch, unseen, look>>
          /\ watcher = "firing" /\ watcher' = "checking" /\ key \in Keys
          /\ look.at \in Nat \ {0} /\ look.at > Len(handlers[key])
          /\ todo' = todo \ {key}
          /\ old'[key] = look.value /\ \A j \in Keys \ {key} : old'[j] = old[j]
      BY <1>0, <1>10 DEF StoreOldValue, TypeOK
    <2>2. CheckInv'
      BY <2>1 DEF CalmInv, CheckInv, LookupsFree
    <2>3. \A j \in Keys : OldInv(j)'
      BY <1>0, <2>1 DEF CalmInv, OldInv, CheckInv
    <2>4. ASSUME NEW j \in Keys \ ApiKeys PROVE ToldInv(j)'
      <3>1. ToldInv(j)
        BY DEF CalmInv
      <3>2. CASE j # key
        BY <2>1, <3>1, <3>2 DEF ToldInv, Telling
      <3>3. CASE j = key
        <4>1. look.value = mem[key]
          BY <2>1, <3>1, <3>3 DEF ToldInv, Telling
        <4>2. \A p \in 1..Len(handlers[key]) : p < look.at
          BY <1>0, <2>1 DEF TypeOK
        <4> QED
          BY <2>1, <3>1, <3>3, <4>1, <4>2 DEF ToldInv, Telling
      <3> QED
        BY <3>2, <3>3
    <2> QED
      BY <2>2, <2>3, <2>4 DEF CalmInv
  <1> QED
    BY <1>1, <1>1a, <1>2, <1>3, <1>3a, <1>4, <1>5, <1>6, <1>6a, <1>6b, <1>7, <1>8,
       <1>9, <1>10 DEF Run

LEMMA CallerCalm ==
  ASSUME Inv, CalmInv,
         \/ StopService
         \/ \E k \in Keys, h \in Handlers :
               RegisterHandler(h, k) \/ UnregisterHandler(h, k)
  PROVE  CalmInv'
  <1> USE DEF reloader, checking, counters, store
  <1>0. TypeOK /\ CheckInv
    BY DEF Inv, CalmInv
  <1>1. CASE UNCHANGED <<file, mem, saver, old, handlers, told, watcher, batch, todo, look,
                         queued, unseen>>
    BY <1>1 DEF CalmInv, CheckInv, LookupsFree, OldInv, ToldInv, Telling
  <1>2. StopService => UNCHANGED <<file, mem, saver, old, handlers, told,
                                   watcher, batch, todo, look, queued, unseen>>
    BY DEF StopService
  <1>3. ASSUME NEW k \in Keys, NEW h \in Handlers, UnregisterHandler(h, k)
        PROVE  UNCHANGED <<file, mem, saver, old, handlers, told, watcher, batch,
                           todo, look, queued, unseen>>
    BY <1>3 DEF UnregisterHandler
  <1>4. ASSUME NEW k \in Keys, NEW h \in Handlers, RegisterHandler(h, k)
        PROVE  CalmInv'
    <2> DEFINE s == handlers[k]
    <2>1. /\ UNCHANGED <<file, mem, saver, watcher, batch, todo, look, queued, unseen>>
          /\ LookupsFree /\ todo = {} /\ h \notin Range(s) /\ s \in Seq(Handlers)
          /\ handlers'[k] = Append(s, h)
          /\ old'[k] = mem[k] /\ told'[h][k] = mem[k]
      BY <1>0, <1>4 DEF RegisterHandler, TypeOK, CheckInv, LookupsFree
    <2>2. \A j \in Keys \ {k} :
            /\ handlers'[j] = handlers[j] /\ old'[j] = old[j]
            /\ \A g \in Handlers : told'[g][j] = told[g][j]
      BY <1>0, <1>4 DEF RegisterHandler, TypeOK
    <2>3. \A g \in Handlers \ {h} : told'[g][k] = told[g][k]
      BY <1>0, <1>4 DEF RegisterHandler, TypeOK
    <2>4. CheckInv'
      BY <1>0, <2>1 DEF CheckInv, LookupsFree
    <2>5. \A j \in Keys : OldInv(j)'
      BY <2>1, <2>2 DEF CalmInv, OldInv
    <2>6. ASSUME NEW j \in Keys \ ApiKeys PROVE ToldInv(j)'
      <3>1. ToldInv(j) /\ \A p \in 1..Len(handlers[j]) : handlers[j][p] \in Handlers
        BY <1>0, ElementOfSeq DEF CalmInv, TypeOK
      <3>2. CASE j # k
        BY <2>1, <2>2, <3>1, <3>2 DEF ToldInv, Telling
      <3>3. CASE j = k
        <4>1. /\ IsInjective(Append(s, h))
              /\ Len(Append(s, h)) = Len(s) + 1 /\ Len(s) \in Nat
              /\ \A p \in 1..Len(s) : Append(s, h)[p] = s[p]
              /\ \A p \in 1..Len(s) : s[p] # h
              /\ Append(s, h)[Len(s) + 1] = h
          <5>1. IsInjective(s) /\ s \in Seq(Handlers) /\ h \notin Range(s)
            BY <2>1, <3>1, <3>3 DEF ToldInv
          <5> HIDE DEF s
          <5> QED
            BY <5>1, AppendNew
        <4>2. \A p \in 1..Len(s) : told[s[p]][k] = mem[k]
          <5> SUFFICES ASSUME NEW p \in 1..Len(s) PROVE told[s[p]][k] = mem[k]
            OBVIOUS
          <5>1. s # <<>>
            BY <4>1
          <5>2. old[k] = mem[k] /\ watcher # "firing"
            BY <2>1, <3>1, <3>3, <5>1 DEF ToldInv, LookupsFree
          <5> QED
            BY <3>1, <3>3, <5>2 DEF ToldInv
        <4>3. \A p \in 1..(Len(s) + 1) : told'[Append(s, h)[p]][k] = mem[k]
          BY <2>1, <2>3, <3>1, <3>3, <4>1, <4>2
        <4>4. ~Telling(k)' /\ watcher' # "firing"
          BY <2>1 DEF Telling, LookupsFree
        <4> QED
          BY <2>1, <3>1, <3>3, <4>1, <4>3, <4>4 DEF ToldInv
      <3> QED
        BY <3>2, <3>3
    <2> QED
      BY <2>4, <2>5, <2>6 DEF CalmInv
  <1> QED
    BY <1>1, <1>2, <1>3, <1>4

LEMMA NextCalm == ASSUME Calm PROVE Inv /\ CalmInv /\ [Next]_vars => CalmInv'
  <1> SUFFICES ASSUME Inv, CalmInv, [Next]_vars PROVE CalmInv'
    OBVIOUS
  <1>1. CASE UNCHANGED vars
    BY <1>1 DEF vars, store, reloader, checking, counters, CalmInv, CheckInv,
       LookupsFree, OldInv, ToldInv, Telling
  <1> QED
    BY <1>1, RunCalm, ChangeCalm, SavingCalm, CallerCalm DEF Next, Change

\* When the directory thread is at rest, the values check() compares with next
\* are the current ones, for any number of keys and handlers that come and go,
\* if no handler throws.
THEOREM OldValuesStayCurrent == ASSUME Calm PROVE Spec => []OldValuesCurrent
  <1>1. Inv /\ CalmInv => OldValuesCurrent
    BY DEF CalmInv, CheckInv, OldInv, OldValuesCurrent, AtRest, LookupsFree, Inv, TypeOK
  <1> QED
    BY <1>1, InitInv, CalmInit, NextInv, NextCalm, PTL DEF Spec

\* ... and every handler of a key that only an administrator changes was told
\* the value the key has now, or found it when it was registered.
THEOREM HandlersGetTold == ASSUME Calm PROVE Spec => []HandlersTold
  <1>1. ASSUME Inv, CalmInv, AtRest, NEW k \in Keys \ ApiKeys,
               NEW h \in Range(handlers[k])
        PROVE  told[h][k] = mem[k]
    <2>1. handlers[k] \in Seq(Handlers) /\ ToldInv(k) /\ CheckInv
      BY <1>1 DEF Inv, TypeOK, CalmInv
    <2>2. PICK p \in 1..Len(handlers[k]) : h = handlers[k][p]
      BY <1>1, <2>1 DEF Range
    <2>3. handlers[k] # <<>> /\ watcher = "watching" /\ todo = {}
      BY <1>1, <2>1, <2>2 DEF AtRest, CheckInv, LookupsFree
    <2> QED
      BY <2>1, <2>2, <2>3 DEF ToldInv
  <1>2. Inv /\ CalmInv => HandlersTold
    BY <1>1 DEF HandlersTold
  <1> QED
    BY <1>2, InitInv, CalmInit, NextInv, NextCalm, PTL DEF Spec

\* A handler is called for changes only: what it is told of a key that only an
\* administrator changes is not what it was told before.
THEOREM OnlyCalledForChanges == ASSUME Calm PROVE Spec => CalledForChanges
  <1>1. ASSUME Inv, CalmInv, [Next]_vars,
               watcher = "firing", look.key \notin ApiKeys, look'.at > look.at
        PROVE  told' # told
    <2>0. TypeOK /\ look.key \in Keys /\ look.at \in Nat
      BY <1>1 DEF Inv, TypeOK
    <2>1. Handle
      BY <1>1, <2>0 DEF Next, Run, Watch, RegisterFails, Poll, TakeInterrupted,
         LoopLeft, Refresh, Clear, Load, Compare, FireHandlers, StoreOldValue,
         EndCheck, EndBatch, StopService, SetProperty, AddProperty, RemoveProperty,
         Store, Saving, AutoSave, Save, Edit, FileChanged, RegisterHandler,
         UnregisterHandler, LookupsFree, vars, store, checking, reloader, counters
    <2> DEFINE h == handlers[look.key][look.at]
    <2>2. look.at \in 1..Len(handlers[look.key]) /\ h \in Handlers
      BY <2>0, <2>1, ElementOfSeq DEF Handle, TypeOK
    <2>3. told'[h][look.key] = look.info
      BY <2>0, <2>1, <2>2 DEF Handle, TypeOK
    <2>4. ToldInv(look.key)
      BY <1>1, <2>0 DEF CalmInv
    <2>5. /\ told[h][look.key] = old[look.key]
          /\ look.info = mem[look.key] /\ mem[look.key] # old[look.key]
      BY <1>1, <2>0, <2>2, <2>4 DEF ToldInv, Telling
    <2> QED
      BY <2>3, <2>5
  <1>2. Inv /\ CalmInv /\ [Next]_vars =>
          [watcher = "firing" /\ look.key \notin ApiKeys /\ look'.at > look.at
              => told' # told]_vars
    BY <1>1
  <1> QED
    BY <1>2, InitInv, CalmInit, NextInv, NextCalm, PTL DEF Spec, CalledForChanges
=============================================================================
