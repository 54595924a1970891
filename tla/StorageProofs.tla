----------------------------- MODULE StorageProofs -----------------------------
(***************************************************************************)
(* Proofs about the storage service, for every set of threads, bitstreams, *)
(* bundles and asset stores, with any number of crashes.                   *)
(*                                                                         *)
(* Inv follows a key through its life: fresh, in the hands of the one      *)
(* thread that stores or registers the bitstream, an object of that        *)
(* thread's session only, and a row, from which other sessions load.       *)
(***************************************************************************)
EXTENDS Storage, SequenceTheorems, TLAPS

-----------------------------------------------------------------------------
(* The invariant.                                                          *)

\* A call that makes a bitstream.
Makes(t) == call[t] # None /\ call[t].op \in {"store", "register"}

Beginning == {"finding", "assigning", "listing", "ready"}
Ending == {"locating", "copying", "closing"}

\* All bits of a file are in some directory.
Written(n) == \E d \in Dirs : files[d][n] = "whole"

\* What kind of call is in which place.
CallInv(t) ==
    /\ pc[t] = "idle" <=> call[t] = None
    /\ pc[t] \in Ending => Makes(t)
    /\ pc[t] \in {"copying", "closing"} =>
          call[t].op = "store" /\ place[t] \in Dirs
    /\ call[t] # None /\ ~Makes(t) => object[t][call[t].id] # None

\* A bitstream that is being made is known to nobody else, and deleted.
MakerInv(t) ==
    Makes(t) =>
        /\ call[t].id \in used \ failed /\ rows[call[t].id] = None
        /\ call[t].name \in
              IF call[t].op = "store" THEN {call[t].id} ELSE Paths
        /\ \A u \in Threads \ {t} :
              /\ object[u][call[t].id] = None
              /\ call[u] # None => call[u].id # call[t].id
        /\ IF pc[t] \in Ending
           THEN /\ Mine(t) # None /\ Mine(t).deleted
                /\ Mine(t).name = call[t].name
           ELSE Mine(t) = None

\* The file of a bitstream that is being stored is where store() put it.
FileInv(t) ==
    Makes(t) /\ call[t].op = "store" =>
        \A d \in Dirs :
            files[d][call[t].id] =
                IF d # place[t] THEN "none"
                ELSE IF pc[t] = "copying" THEN "part"
                ELSE IF pc[t] = "closing" THEN "whole" ELSE "none"

\* Nobody knows anything of a key that was not generated.
FreshInv(i) ==
    i \notin used =>
        /\ rows[i] = None
        /\ \A t \in Threads : object[t][i] = None
        /\ \A t \in Threads : call[t] # None => call[t].id # i
        /\ \A d \in Dirs : files[d][i] = "none"

RowInv(i) ==
    /\ rows[i] # None => rows[i].name \in {i} \cup Paths
    /\ Live(rows[i]) => Written(rows[i].name) /\ i \notin failed

\* An object that is not a row yet is in one session only.
ObjectInv(t, i) ==
    object[t][i] # None =>
        /\ object[t][i].name \in {i} \cup Paths
        /\ ~object[t][i].deleted => Written(object[t][i].name) /\ i \notin failed
        /\ rows[i] # None => object[t][i].name = rows[i].name
        /\ rows[i] = None => \A u \in Threads \ {t} : object[u][i] = None

\* A row that is written again is written as deleted, and no bundle keeps it.
PendingInv(t) ==
    \A i \in pending[t] :
        /\ object[t][i] # None
        /\ rows[i] # None => object[t][i].deleted
        /\ object[t][i].deleted =>
              \A b \in Bundles : primary[b] = i => b \in cleared[t]

ThreadInv == \A t \in Threads : CallInv(t) /\ MakerInv(t) /\ FileInv(t)
SessionInv ==
    \A t \in Threads : PendingInv(t) /\ \A i \in Ids : ObjectInv(t, i)
FailedUsed == failed \subseteq used
DataInv == FailedUsed /\ \A i \in Ids : FreshInv(i) /\ RowInv(i)

Inv == TypeOK /\ ThreadInv /\ SessionInv /\ DataInv /\ PrimaryNeverDeleted

-----------------------------------------------------------------------------
(* The invariant of the asset stores, which needs a list that is read by   *)
(* one thread at a time.                                                   *)

OneLister ==
    \A t, u \in Threads :
        pc[t] \in {"assigning", "listing"} /\ pc[u] \in {"assigning", "listing"}
            => t = u

\* The bits of a row are where a process looks for them.
HasBits(row) ==
    /\ Slot(row.number) \in 1..Len(Configured)
    /\ files[Configured[Slot(row.number)]][row.name] = "whole"

ListInv ==
    /\ Len(stores) <= Len(Configured)
    /\ \A k \in 1..Len(stores) : stores[k] = Configured[k]
    /\ \A t \in Threads : pc[t] = "listing" => at[t] = Len(stores) + 1

PlaceInv ==
    /\ \A i \in Ids : Live(rows[i]) => HasBits(rows[i])
    /\ \A t \in Threads, i \in Ids : Live(object[t][i]) => HasBits(object[t][i])
    /\ \A t \in Threads : pc[t] \in {"copying", "closing"} =>
          /\ Slot(Mine(t).number) \in 1..Len(Configured)
          /\ place[t] = Configured[Slot(Mine(t).number)]

-----------------------------------------------------------------------------
(* The start.                                                              *)

\* A default or listed store has a place in the list.
LEMMA SlotOfStore ==
    ASSUME NEW number \in -1..(Len(Configured) - 1)
    PROVE  Slot(number) \in 1..Len(Configured)
  BY StorageAssumption DEF Slot

LEMMA InitInv == Init => Inv
  <1> SUFFICES ASSUME Init PROVE Inv
    OBVIOUS
  <1> USE StorageAssumption
  <1>1. PICK number \in [Old -> -1..(Len(Configured) - 1)],
             present \in SUBSET (Range(Configured) \X Paths) :
          /\ rows = [i \in Ids |->
                IF i \in Old
                THEN [number |-> number[i], name |-> i, deleted |-> FALSE]
                ELSE None]
          /\ files = [d \in Dirs |-> [n \in Names |->
                IF \/ <<d, n>> \in present
                   \/ n \in Old /\ d = Configured[Slot(number[n])]
                THEN "whole" ELSE "none"]]
    BY DEF Init
  <1>2. \A i \in Old :
          /\ rows[i] \in Row /\ rows[i] # None
          /\ rows[i].name = i /\ ~rows[i].deleted
          /\ Written(i)
    <2> SUFFICES ASSUME NEW i \in Old
                 PROVE  /\ rows[i] \in Row /\ rows[i] # None
                        /\ rows[i].name = i /\ ~rows[i].deleted
                        /\ Written(i)
      OBVIOUS
    <2>1. rows[i] = [number |-> number[i], name |-> i, deleted |-> FALSE]
      BY <1>1
    <2>2. rows[i] \in Row
      BY <2>1 DEF Row, Numbers, Names
    <2>3. Configured[Slot(number[i])] \in Dirs
      BY SlotOfStore
    <2>4. files[Configured[Slot(number[i])]][i] = "whole"
      BY <1>1, <2>3 DEF Names
    <2>5. Written(i)
      BY <2>3, <2>4 DEF Written
    <2>6. rows[i] # None
      BY <2>2
    <2> QED
      BY <2>1, <2>2, <2>5, <2>6
  <1>3. \A i \in Ids \ Old : rows[i] = None /\ \A d \in Dirs : files[d][i] = "none"
    BY <1>1 DEF Names
  <1>4. TypeOK
    <2>1. rows \in [Ids -> Row \cup {None}]
      BY <1>1, <1>2, <1>3
    <2>2. files \in [Dirs -> [Names -> {"none", "part", "whole"}]]
      BY <1>1
    <2>3. primary \in [Bundles -> Ids \cup {None}]
      BY DEF Init
    <2>4. stores \in Seq(Dirs)
      BY DEF Init
    <2>5. listed \in BOOLEAN /\ raced \in BOOLEAN
      BY DEF Init
    <2>7. /\ object \in [Threads -> [Ids -> Row \cup {None}]]
          /\ at \in [Threads -> 1..(Len(Configured) + 1)]
          /\ used \in SUBSET Ids /\ failed \in SUBSET Ids
          /\ crashes \in 0..MaxCrashes
      BY DEF Init, NoObjects
    <2>6. /\ pc \in [Threads -> {"idle", "finding", "assigning", "listing",
                                "ready", "locating", "copying", "closing"}]
          /\ call \in [Threads -> Call \cup {None}]
          /\ place \in [Threads -> Dirs \cup {None}]
          /\ pending \in [Threads -> SUBSET Ids]
          /\ cleared \in [Threads -> SUBSET Bundles]
          /\ reading \in [Threads -> Ids \cup {None}]
      BY DEF Init
    <2> QED
      BY <2>1, <2>2, <2>3, <2>4, <2>5, <2>6, <2>7 DEF TypeOK
  <1>5. ThreadInv
    BY DEF Init, ThreadInv, CallInv, MakerInv, FileInv, Makes, Ending
  <1>6. SessionInv
    BY DEF Init, SessionInv, PendingInv, ObjectInv, NoObjects
  <1>7. DataInv
    BY <1>2, <1>3 DEF Init, DataInv, FailedUsed, FreshInv, RowInv, NoObjects, Live
  <1>8. PrimaryNeverDeleted
    BY <1>2 DEF Init, PrimaryNeverDeleted, Live
  <1> QED
    BY <1>4, <1>5, <1>6, <1>7, <1>8 DEF Inv

-----------------------------------------------------------------------------
(* Steps before the bitstream is touched.                                  *)

\* The thread stays before the part of its call that does something.
Prepares(t) ==
    /\ pc[t] \in Beginning
    /\ \E q \in Beginning : pc' = [pc EXCEPT ![t] = q]
    /\ UNCHANGED <<database, files, call, place, session, used, failed>>

LEMMA PreparesKeeps ==
    ASSUME Inv, NEW t \in Threads, Prepares(t), TypeOK'
    PROVE  Inv'
  <1> USE DEF Inv, Prepares, database, session
  <1>1. \A u \in Threads :
          \/ pc'[u] = pc[u]
          \/ pc[u] \in Beginning /\ pc'[u] \in Beginning
    BY DEF TypeOK
  <1>2. \A u \in Threads : (Makes(u)' <=> Makes(u)) /\ Mine(u)' = Mine(u)
    BY DEF Makes, Mine
  <1>3. ThreadInv'
    <2> SUFFICES ASSUME NEW u \in Threads
                 PROVE  CallInv(u)' /\ MakerInv(u)' /\ FileInv(u)'
      BY DEF ThreadInv
    <2>1. CallInv(u) /\ MakerInv(u) /\ FileInv(u)
      BY DEF ThreadInv
    <2>2. CallInv(u)'
      BY <1>1, <1>2, <2>1 DEF CallInv, Beginning, Ending
    <2>3. MakerInv(u)'
      BY <1>1, <1>2, <2>1 DEF MakerInv, Beginning, Ending
    <2>4. FileInv(u)'
      BY <1>1, <1>2, <2>1 DEF FileInv, Beginning
    <2> QED
      BY <2>2, <2>3, <2>4
  <1>4. SessionInv' /\ DataInv' /\ PrimaryNeverDeleted'
    BY DEF SessionInv, PendingInv, ObjectInv, DataInv, FailedUsed, FreshInv, RowInv, Written,
       PrimaryNeverDeleted, Live
  <1> QED
    BY <1>3, <1>4

LEMMA FindingKeeps ==
    ASSUME Inv, NEW t \in Threads,
           FindStores(t) \/ AssignStores(t) \/ AddStore(t)
    PROVE  Inv'
  <1> USE DEF service, control, history
  <1>1. Prepares(t)
    <2>1. pc[t] \in Beginning
      BY DEF FindStores, AssignStores, AddStore, GoTo, Beginning
    <2>2. \E q \in Beginning : pc' = [pc EXCEPT ![t] = q]
      <3>1. CASE AddStore(t)
        <4>1. pc' = [pc EXCEPT ![t] = "listing"]
          BY <3>1 DEF AddStore, Inv, TypeOK
        <4> QED
          BY <4>1 DEF Beginning
      <3>2. CASE ~AddStore(t)
        BY <3>2 DEF FindStores, AssignStores, GoTo, Beginning
      <3> QED
        BY <3>1, <3>2
    <2>3. UNCHANGED <<database, files, call, place, session, used, failed>>
      BY DEF FindStores, AssignStores, AddStore
    <2> QED
      BY <2>1, <2>2, <2>3 DEF Prepares
  <1>2. TypeOK'
    <2>1. stores' \in Seq(Dirs)
      <3>1. stores \in Seq(Dirs) /\ Configured \in Seq(Dirs)
        BY StorageAssumption DEF Inv, TypeOK
      <3>2. CASE AddStore(t)
        <4>1. at[t] \in 1..Len(Configured)
          BY <3>1, <3>2, StorageAssumption DEF AddStore, Inv, TypeOK
        <4>2. Configured[at[t]] \in Dirs
          BY <3>1, <4>1
        <4> QED
          BY <3>1, <3>2, <4>2 DEF AddStore
      <3>3. CASE ~AddStore(t)
        <4>1. CASE AssignStores(t)
          BY <4>1 DEF AssignStores
        <4>2. CASE FindStores(t)
          BY <3>1, <4>2 DEF FindStores
        <4> QED
          BY <3>3, <4>1, <4>2
      <3> QED
        BY <3>2, <3>3
    <2>2. at' \in [Threads -> 1..(Len(Configured) + 1)]
      BY StorageAssumption
      DEF Inv, TypeOK, FindStores, AssignStores, AddStore
    <2>3. raced' \in BOOLEAN
      <3>1. raced' = raced \/ FindStores(t)
        BY DEF AssignStores, AddStore
      <3> QED
        BY <3>1 DEF Inv, TypeOK, FindStores
    <2>4. /\ listed' \in BOOLEAN
          /\ UNCHANGED <<database, files, call, place, session, reading,
                         used, failed, crashes>>
      BY DEF Inv, TypeOK, FindStores, AssignStores, AddStore
    <2> QED
      BY <1>1, <2>1, <2>2, <2>3, <2>4
      DEF Inv, TypeOK, Prepares, Beginning, database, session
  <1> QED
    BY <1>1, <1>2, PreparesKeeps

-----------------------------------------------------------------------------
(* The beginning of a call.                                                *)

\* The key of a call is fresh, or an object of the thread's session.
Begins(t, c) ==
    /\ Begin(t, c)
    /\ \/ /\ c.op \in {"store", "register"}
          /\ c.name \in IF c.op = "store" THEN {c.id} ELSE Paths
          /\ c.id \notin used /\ used' = used \cup {c.id}
       \/ /\ c.op \in {"retrieve", "delete"}
          /\ object[t][c.id] # None /\ used' = used

LEMMA BeginsKeeps ==
    ASSUME Inv, NEW t \in Threads, NEW c \in Call, Begins(t, c)
    PROVE  Inv'
  <1> USE DEF Inv, Begins, Begin, database, service, session
  <1>1. /\ pc[t] = "idle" /\ call[t] = None /\ c # None /\ c.id \in Ids
        /\ ~Makes(t)
    BY StorageAssumption DEF GoTo, ThreadInv, CallInv, Call, Makes
  <1>2. /\ pc'[t] = "finding" /\ call'[t] = c
        /\ \A u \in Threads \ {t} : pc'[u] = pc[u] /\ call'[u] = call[u]
    BY DEF GoTo, TypeOK
  <1>3. c.id \in used'
    BY <1>1 DEF DataInv, FreshInv
  <1>4. TypeOK'
    <2>1. /\ pc' \in [Threads -> {"idle", "finding", "assigning", "listing",
                                 "ready", "locating", "copying", "closing"}]
          /\ call' \in [Threads -> Call \cup {None}]
      BY DEF GoTo, TypeOK
    <2>2. used' \in SUBSET Ids
      BY <1>1 DEF TypeOK
    <2> QED
      BY <2>1, <2>2 DEF TypeOK
  <1>5. ThreadInv'
    <2> SUFFICES ASSUME NEW u \in Threads
                 PROVE  CallInv(u)' /\ MakerInv(u)' /\ FileInv(u)'
      BY DEF ThreadInv
    <2>1. CallInv(u) /\ MakerInv(u) /\ FileInv(u)
      BY DEF ThreadInv
    <2>2. CASE u = t
      <3>1. CallInv(u)'
        BY <1>1, <1>2, <2>2 DEF CallInv, Makes, Ending
      <3>2. Makes(u)' => c.id \notin used
        BY <1>2, <2>2 DEF Makes
      <3>3. MakerInv(u)' /\ FileInv(u)'
        <4> SUFFICES ASSUME Makes(u)' PROVE MakerInv(u)' /\ FileInv(u)'
          BY DEF MakerInv, FileInv
        <4>1. /\ rows[c.id] = None
              /\ \A v \in Threads : object[v][c.id] = None
              /\ \A v \in Threads : call[v] # None => call[v].id # c.id
              /\ \A d \in Dirs : files[d][c.id] = "none"
          BY <1>1, <3>2 DEF DataInv, FreshInv
        <4>2. c.id \notin failed
          BY <3>2, <1>1 DEF DataInv, FailedUsed
        <4>3. MakerInv(u)'
          BY <1>2, <1>3, <2>2, <3>2, <4>1, <4>2 DEF MakerInv, Mine, Ending, Makes
        <4>4. FileInv(u)'
          BY <1>2, <2>2, <4>1 DEF FileInv
        <4> QED
          BY <4>3, <4>4
      <3> QED
        BY <3>1, <3>3
    <2>3. CASE u # t
      <3>1. pc'[u] = pc[u] /\ call'[u] = call[u] /\ (Makes(u)' <=> Makes(u))
        BY <1>2, <2>3 DEF Makes
      <3>2. CallInv(u)' /\ FileInv(u)'
        BY <2>1, <3>1 DEF CallInv, FileInv
      <3>3. Makes(u) => call[u].id # c.id
        BY <1>1, <2>1, <2>3 DEF MakerInv, DataInv, FreshInv
      <3>4. MakerInv(u)'
        BY <1>2, <2>1, <2>3, <3>1, <3>3 DEF MakerInv, Mine
      <3> QED
        BY <3>2, <3>4
    <2> QED
      BY <2>2, <2>3
  <1>6. SessionInv' /\ PrimaryNeverDeleted'
    BY DEF SessionInv, PendingInv, ObjectInv, Written, PrimaryNeverDeleted, Live
  <1>7. DataInv'
    <2> SUFFICES ASSUME NEW i \in Ids PROVE FreshInv(i)' /\ RowInv(i)'
      BY DEF DataInv, FailedUsed
    <2>1. FreshInv(i) /\ RowInv(i)
      BY DEF DataInv
    <2>2. FreshInv(i)'
      BY <1>2, <1>3, <2>1 DEF FreshInv
    <2>3. RowInv(i)'
      BY <2>1 DEF RowInv, Written, Live
    <2> QED
      BY <2>2, <2>3
  <1> QED
    BY <1>4, <1>5, <1>6, <1>7

LEMMA BeginningKeeps ==
    ASSUME Inv, NEW t \in Threads, NEW i \in Ids,
           \/ BeginStore(t, i)
           \/ BeginOther(t, "retrieve", i) \/ BeginOther(t, "delete", i)
           \/ \E number \in 0..Len(Configured), path \in Paths :
                 BeginRegister(t, i, number, path)
    PROVE  Inv'
  <1>1. CASE BeginStore(t, i)
    <2> DEFINE c == [op |-> "store", id |-> i, number |-> 0, name |-> i]
    <2>1. c \in Call
      BY StorageAssumption DEF Call, Numbers, Names
    <2>2. Begins(t, c)
      BY <1>1 DEF BeginStore, Begins
    <2> QED
      BY <2>1, <2>2, BeginsKeeps
  <1>2. ASSUME NEW op \in {"retrieve", "delete"}, BeginOther(t, op, i)
        PROVE  Inv'
    <2> DEFINE c == [op |-> op, id |-> i, number |-> 0, name |-> i]
    <2>1. c \in Call
      BY StorageAssumption DEF Call, Numbers, Names
    <2>2. Begins(t, c)
      BY <1>2 DEF BeginOther, Begins
    <2> QED
      BY <2>1, <2>2, BeginsKeeps
  <1>3. ASSUME NEW number \in 0..Len(Configured), NEW path \in Paths,
               BeginRegister(t, i, number, path)
        PROVE  Inv'
    <2> DEFINE c == [op |-> "register", id |-> i, number |-> number, name |-> path]
    <2>1. c \in Call
      BY StorageAssumption DEF Call, Numbers, Names
    <2>2. Begins(t, c)
      BY <1>3 DEF BeginRegister, Begins
    <2> QED
      BY <2>1, <2>2, BeginsKeeps
  <1> QED
    BY <1>1, <1>2, <1>3
-----------------------------------------------------------------------------
(* Making a bitstream.                                                     *)

LEMMA MakerFacts ==
    ASSUME Inv, NEW t \in Threads, Makes(t)
    PROVE  /\ call[t] \in Call /\ call[t].id \in Ids /\ call[t].id \in used
           /\ call[t].id \notin failed /\ rows[call[t].id] = None
           /\ \A b \in Bundles : primary[b] # call[t].id
           /\ \A u \in Threads \ {t} :
                 /\ object[u][call[t].id] = None
                 /\ call[u] # None => call[u].id # call[t].id
           /\ \A u \in Threads \ {t} : Makes(u) => call[u].id # call[t].id
  <1>1. call[t] \in Call /\ call[t].id \in Ids
    BY DEF Inv, TypeOK, Makes, Call
  <1>2. MakerInv(t)
    BY DEF Inv, ThreadInv
  <1>3. \A b \in Bundles : primary[b] # call[t].id
    BY <1>1, <1>2, StorageAssumption
    DEF Inv, PrimaryNeverDeleted, Live, MakerInv
  <1> QED
    BY <1>1, <1>2, <1>3 DEF MakerInv, Makes

LEMMA SaveType ==
    ASSUME NEW t \in Threads, NEW i \in Ids, Save(t, i),
           pending \in [Threads -> SUBSET Ids]
    PROVE  pending' \in [Threads -> SUBSET Ids]
  BY DEF Save

LEMMA SaveNewKeeps ==
    ASSUME Inv, NEW t \in Threads, SaveNew(t)
    PROVE  Inv'
  <1> DEFINE k == call[t].id
  <1> USE DEF Inv, SaveNew, database, service, history
  <1>1. /\ pc[t] = "ready" /\ call[t] # None /\ Makes(t)
        /\ CallInv(t) /\ MakerInv(t) /\ FileInv(t)
    BY DEF ThreadInv, CallInv, Makes, Calls
  <1>2. k \in Ids /\ k \in used /\ rows[k] = None /\ object[t][k] = None
    BY <1>1, MakerFacts DEF MakerInv, Mine, Ending
  <1>3. /\ NewRow(t) \in Row /\ NewRow(t) # None
        /\ NewRow(t).deleted /\ NewRow(t).name = call[t].name
    <2>1. call[t].number \in Numbers /\ call[t].name \in Names
      BY <1>1, MakerFacts DEF Call
    <2>2. NewRow(t) \in Row
      BY <2>1 DEF NewRow, Row
    <2> QED
      BY <2>2, StorageAssumption DEF NewRow
  <1>4. /\ pc'[t] = "locating"
        /\ \A u \in Threads \ {t} : pc'[u] = pc[u]
        /\ \A u \in Threads : call'[u] = call[u] /\ (Makes(u)' <=> Makes(u))
    BY DEF TypeOK, Makes
  <1>5. /\ object'[t][k] = NewRow(t)
        /\ \A u \in Threads, i \in Ids :
              u # t \/ i # k => object'[u][i] = object[u][i]
    BY <1>2 DEF TypeOK
  <1>6. /\ pending'[t] \in {pending[t], pending[t] \cup {k}}
        /\ \A u \in Threads \ {t} : pending'[u] = pending[u]
    BY DEF TypeOK, Save
  <1>7. TypeOK'
    <2>1. pc' \in [Threads -> {"idle", "finding", "assigning", "listing",
                               "ready", "locating", "copying", "closing"}]
      BY DEF TypeOK
    <2>2. object' \in [Threads -> [Ids -> Row \cup {None}]]
      BY <1>2, <1>3 DEF TypeOK
    <2>3. pending' \in [Threads -> SUBSET Ids]
      BY <1>2, SaveType DEF TypeOK
    <2> QED
      BY <2>1, <2>2, <2>3 DEF TypeOK
  <1>8. ThreadInv'
    <2> SUFFICES ASSUME NEW u \in Threads
                 PROVE  CallInv(u)' /\ MakerInv(u)' /\ FileInv(u)'
      BY DEF ThreadInv
    <2>1. CallInv(u) /\ MakerInv(u) /\ FileInv(u)
      BY DEF ThreadInv
    <2>2. CASE u = t
      <3>1. CallInv(u)'
        BY <1>1, <1>4, <2>2 DEF CallInv, Ending
      <3>2. MakerInv(u)'
        BY <1>1, <1>2, <1>3, <1>4, <1>5, <2>2 DEF MakerInv, Mine, Ending
      <3>3. FileInv(u)'
        BY <1>1, <1>4, <2>2 DEF FileInv
      <3> QED
        BY <3>1, <3>2, <3>3
    <2>3. CASE u # t
      <3>1. CallInv(u)'
        <4>1. call[u] # None => call[u].id \in Ids
          BY DEF TypeOK, Call
        <4> QED
          BY <1>4, <1>5, <2>1, <2>3, <4>1 DEF CallInv
      <3>2. MakerInv(u)'
        <4> SUFFICES ASSUME Makes(u) PROVE MakerInv(u)'
          BY <1>4 DEF MakerInv
        <4>1. call[u].id # k /\ call[u].id \in Ids
          BY <1>1, <2>3, MakerFacts
        <4>2. \A v \in Threads : object'[v][call[u].id] = object[v][call[u].id]
          BY <1>5, <4>1
        <4> QED
          BY <1>4, <2>1, <2>3, <4>2 DEF MakerInv, Mine
      <3>3. FileInv(u)'
        BY <1>4, <2>1, <2>3 DEF FileInv
      <3> QED
        BY <3>1, <3>2, <3>3
    <2> QED
      BY <2>2, <2>3
  <1>9. SessionInv'
    <2>1. ASSUME NEW u \in Threads PROVE PendingInv(u)'
      <3> SUFFICES ASSUME NEW i \in pending'[u]
                   PROVE  /\ object'[u][i] # None
                          /\ rows[i] # None => object'[u][i].deleted
                          /\ object'[u][i].deleted =>
                               \A b \in Bundles : primary[b] = i => b \in cleared[u]
        BY DEF PendingInv
      <3>1. CASE u = t /\ i = k
        BY <1>1, <1>2, <1>3, <1>5, <3>1, MakerFacts
      <3>2. CASE u # t \/ i # k
        <4>1. i \in pending[u] /\ i \in Ids
          BY <1>6, <3>2 DEF TypeOK
        <4> QED
          BY <1>5, <3>2, <4>1 DEF SessionInv, PendingInv
      <3> QED
        BY <3>1, <3>2
    <2>2. ASSUME NEW u \in Threads, NEW i \in Ids PROVE ObjectInv(u, i)'
      <3>1. CASE i = k
        <4>1. \A v \in Threads \ {t} : object'[v][k] = None
          BY <1>1, <1>2, <1>5, MakerFacts
        <4>2. call[t].name \in {k} \cup Paths
          BY <1>1 DEF MakerInv
        <4> QED
          BY <1>2, <1>3, <1>5, <3>1, <4>1, <4>2 DEF ObjectInv
      <3>2. CASE i # k
        <4>1. \A v \in Threads : object'[v][i] = object[v][i]
          BY <1>5, <3>2
        <4> QED
          BY <4>1 DEF SessionInv, ObjectInv, Written
      <3> QED
        BY <3>1, <3>2
    <2> QED
      BY <2>1, <2>2 DEF SessionInv
  <1>10. DataInv'
    <2> SUFFICES ASSUME NEW i \in Ids PROVE FreshInv(i)' /\ RowInv(i)'
      BY DEF DataInv, FailedUsed
    <2>1. FreshInv(i) /\ RowInv(i)
      BY DEF DataInv
    <2>2. FreshInv(i)'
      BY <1>2, <1>4, <1>5, <2>1 DEF FreshInv
    <2>3. RowInv(i)'
      BY <2>1 DEF RowInv, Written, Live
    <2> QED
      BY <2>2, <2>3
  <1>11. PrimaryNeverDeleted'
    BY DEF PrimaryNeverDeleted, Live
  <1> QED
    BY <1>7, <1>8, <1>9, <1>10, <1>11
\* Nobody but the thread has to do with the file it writes.
LEMMA WritingKeeps ==
    ASSUME Inv, NEW t \in Threads, Makes(t), call[t].op = "store",
           \A d \in Dirs, n \in Names \ {call[t].id} : files'[d][n] = files[d][n],
           UNCHANGED <<database, session, history, call>>
    PROVE  /\ SessionInv' /\ DataInv' /\ PrimaryNeverDeleted'
           /\ \A u \in Threads \ {t} : FileInv(u) => (pc'[u] = pc[u] /\ place'[u] = place[u] => FileInv(u)')
  <1> DEFINE k == call[t].id
  <1> USE DEF database, session, history
  <1>1. /\ k \in Ids /\ k \in used /\ rows[k] = None /\ k \in Names
        /\ Mine(t) # None => Mine(t).deleted
        /\ \A u \in Threads \ {t} : object[u][k] = None
        /\ \A u \in Threads \ {t} : Makes(u) => call[u].id # k
    BY MakerFacts DEF Inv, ThreadInv, MakerInv, Names
  <1>2. \A n \in Names \ {k} : Written(n) => Written(n)'
    BY DEF Written
  <1>3. \A i \in Ids : \A path \in {i} \cup Paths : path \in Names /\ (path = k => i = k)
    BY <1>1, StorageAssumption DEF Names
  <1>4. SessionInv'
    <2> SUFFICES ASSUME NEW u \in Threads, NEW i \in Ids
                 PROVE  ObjectInv(u, i)'
      BY DEF Inv, SessionInv, PendingInv
    <2>1. ObjectInv(u, i)
      BY DEF Inv, SessionInv
    <2>2. CASE object[u][i] # None /\ ~object[u][i].deleted
      <3>1. object[u][i].name # k
        BY <1>1, <1>3, <2>1, <2>2 DEF ObjectInv, Mine
      <3> QED
        BY <1>2, <1>3, <2>1, <3>1 DEF ObjectInv
    <2>3. CASE object[u][i] = None \/ object[u][i].deleted
      BY <2>1, <2>3 DEF ObjectInv
    <2> QED
      BY <2>2, <2>3
  <1>5. DataInv'
    <2> SUFFICES ASSUME NEW i \in Ids PROVE FreshInv(i)' /\ RowInv(i)'
      BY DEF Inv, DataInv, FailedUsed
    <2>1. FreshInv(i) /\ RowInv(i)
      BY DEF Inv, DataInv
    <2>2. FreshInv(i)'
      BY <1>1, <2>1 DEF FreshInv, Names
    <2>3. RowInv(i)'
      BY <1>1, <1>2, <1>3, <2>1 DEF RowInv, Live
    <2> QED
      BY <2>2, <2>3
  <1>6. PrimaryNeverDeleted'
    BY DEF Inv, PrimaryNeverDeleted, Live
  <1>7. ASSUME NEW u \in Threads \ {t}, FileInv(u), pc'[u] = pc[u],
               place'[u] = place[u]
        PROVE  FileInv(u)'
    <2>1. Makes(u)' <=> Makes(u)
      BY DEF Makes
    <2>2. Makes(u) => call[u].id \in Names \ {k}
      BY <1>1, MakerFacts DEF Names
    <2> QED
      BY <1>7, <2>1, <2>2 DEF FileInv
  <1> QED
    BY <1>4, <1>5, <1>6, <1>7

\* The store of a row is in the list, if it is found there.
LEMMA FoundDir ==
    ASSUME TypeOK, NEW row \in Row, Found(row)
    PROVE  Slot(row.number) \in 1..Len(stores) /\ Dir(row) \in Dirs
  <1>1. row.number \in -1..Len(Configured) /\ Len(Configured) \in Nat
    BY StorageAssumption DEF Row, Numbers
  <1>2. Slot(row.number) \in Nat \ {0}
    BY <1>1 DEF Slot
  <1>3. stores \in Seq(Dirs) /\ Len(stores) \in Nat
    BY DEF TypeOK
  <1>4. Slot(row.number) \in 1..Len(stores)
    BY <1>2, <1>3 DEF Found
  <1> QED
    BY <1>3, <1>4 DEF Dir

LEMMA WriteKeeps ==
    ASSUME Inv, NEW t \in Threads, CreateFile(t) \/ Copy(t)
    PROVE  Inv'
  <1> DEFINE k == call[t].id
  <1> USE DEF Inv, database, service, session, history
  <1>1. /\ Makes(t) /\ call[t].op = "store" /\ CallInv(t) /\ MakerInv(t) /\ FileInv(t)
        /\ call[t].name = k /\ k \in Ids /\ k \in Names
    BY MakerFacts DEF ThreadInv, CallInv, MakerInv, CreateFile, Copy, GoTo, Ending, Names
  <1>2. \A u \in Threads : (Makes(u)' <=> Makes(u)) /\ Mine(u)' = Mine(u)
    BY DEF Makes, Mine, CreateFile, Copy
  <1>3. PICK d0 \in Dirs, w \in {"part", "whole"} :
          /\ files' = [files EXCEPT ![d0][k] = w]
          /\ place' = [place EXCEPT ![t] = d0]
          /\ pc' = [pc EXCEPT ![t] = IF w = "part" THEN "copying" ELSE "closing"]
          /\ w = "part" => pc[t] = "locating"
          /\ w = "whole" => pc[t] = "copying" /\ place[t] = d0
    <2>1. CASE CreateFile(t)
      <3>1. Dir(Mine(t)) \in Dirs
        <4>1. Mine(t) \in Row
          BY <1>1, <2>1 DEF CreateFile, GoTo, MakerInv, Ending, Mine, TypeOK
        <4> QED
          BY <2>1, <4>1, FoundDir DEF CreateFile
      <3> QED
        BY <1>1, <2>1, <3>1 DEF CreateFile, GoTo
    <2>2. CASE Copy(t)
      <3>1. place[t] \in Dirs /\ place' = [place EXCEPT ![t] = place[t]]
        BY <1>1, <2>2 DEF Copy, GoTo, CallInv, TypeOK
      <3> QED
        BY <1>1, <2>2, <3>1 DEF Copy, GoTo
    <2> QED
      BY <2>1, <2>2
  <1>4. /\ \A u \in Threads \ {t} : pc'[u] = pc[u] /\ place'[u] = place[u]
        /\ pc'[t] = IF w = "part" THEN "copying" ELSE "closing"
        /\ place'[t] = d0
        /\ \A d \in Dirs, n \in Names :
              files'[d][n] = IF d = d0 /\ n = k THEN w ELSE files[d][n]
    BY <1>1, <1>3 DEF TypeOK
  <1>5. UNCHANGED <<database, session, history, call>>
    BY DEF CreateFile, Copy
  <1>6. /\ SessionInv' /\ DataInv' /\ PrimaryNeverDeleted'
        /\ \A u \in Threads \ {t} : FileInv(u) => FileInv(u)'
    BY <1>1, <1>4, <1>5, WritingKeeps
  <1>7. TypeOK'
    <2>1. /\ pc' \in [Threads -> {"idle", "finding", "assigning", "listing",
                               "ready", "locating", "copying", "closing"}]
          /\ place' \in [Threads -> Dirs \cup {None}]
      BY <1>3 DEF TypeOK
    <2>2. files' \in [Dirs -> [Names -> {"none", "part", "whole"}]]
      BY <1>1, <1>3 DEF TypeOK
    <2>3. UNCHANGED <<listed, stores, at, reading, crashes>>
      BY DEF CreateFile, Copy
    <2> QED
      BY <1>5, <2>1, <2>2, <2>3 DEF TypeOK
  <1>8. ThreadInv'
    <2> SUFFICES ASSUME NEW u \in Threads
                 PROVE  CallInv(u)' /\ MakerInv(u)' /\ FileInv(u)'
      BY DEF ThreadInv
    <2>1. CallInv(u) /\ MakerInv(u) /\ FileInv(u)
      BY DEF ThreadInv
    <2>2. CASE u = t
      <3>1. pc[t] \in Ending /\ pc'[t] \in Ending /\ pc'[t] \in {"copying", "closing"}
        BY <1>3, <1>4 DEF Ending
      <3>2. CallInv(t)'
        BY <1>1, <1>2, <1>4, <1>5, <3>1 DEF CallInv, Ending
      <3>3. MakerInv(t)'
        BY <1>1, <1>2, <1>5, <3>1 DEF MakerInv
      <3>4. FileInv(t)'
        <4> SUFFICES ASSUME NEW d \in Dirs
                     PROVE  files'[d][k] =
                              IF d # d0 THEN "none"
                              ELSE IF pc'[t] = "copying" THEN "part"
                              ELSE IF pc'[t] = "closing" THEN "whole" ELSE "none"
          BY <1>1, <1>2, <1>4, <1>5 DEF FileInv
        <4>1. files[d][k] = IF d # place[t] THEN "none"
                            ELSE IF pc[t] = "copying" THEN "part"
                            ELSE IF pc[t] = "closing" THEN "whole" ELSE "none"
          BY <1>1 DEF FileInv
        <4> QED
          BY <1>1, <1>3, <1>4, <4>1
      <3> QED
        BY <2>2, <3>2, <3>3, <3>4
    <2>3. CASE u # t
      <3>1. CallInv(u)'
        BY <1>2, <1>4, <1>5, <2>1, <2>3 DEF CallInv
      <3>2. MakerInv(u)'
        BY <1>2, <1>4, <1>5, <2>1, <2>3 DEF MakerInv
      <3> QED
        BY <1>6, <2>1, <2>3, <3>1, <3>2
    <2> QED
      BY <2>2, <2>3
  <1> QED
    BY <1>6, <1>7, <1>8
-----------------------------------------------------------------------------
(* The end of a call.                                                      *)

\* What the end of a call is for the thread and for the others.
LEMMA OverFacts ==
    ASSUME TypeOK, NEW t \in Threads, Over(t)
    PROVE  /\ pc'[t] = "idle" /\ call'[t] = None /\ ~Makes(t)'
           /\ \A u \in Threads \ {t} :
                 /\ pc'[u] = pc[u] /\ call'[u] = call[u] /\ place'[u] = place[u]
                 /\ Makes(u)' <=> Makes(u)
           /\ pc' \in [Threads -> {"idle", "finding", "assigning", "listing",
                               "ready", "locating", "copying", "closing"}]
           /\ call' \in [Threads -> Call \cup {None}]
           /\ place' \in [Threads -> Dirs \cup {None}]
           /\ at' = at
  BY DEF Over, TypeOK, Makes

\* The other threads' calls do not notice, if their bitstreams stay as they are.
LEMMA OverKeepsThreads ==
    ASSUME Inv, NEW t \in Threads, Over(t), UNCHANGED <<database, files, used>>,
           \A u \in Threads \ {t}, i \in Ids : object'[u][i] = object[u][i],
           \A u \in Threads \ {t} : Makes(u) =>
               object'[t][call[u].id] = object[t][call[u].id]
               /\ (call[u].id \in failed' => call[u].id \in failed)
    PROVE  ThreadInv'
  <1> USE DEF Inv, database
  <1> SUFFICES ASSUME NEW u \in Threads
               PROVE  CallInv(u)' /\ MakerInv(u)' /\ FileInv(u)'
    BY DEF ThreadInv
  <1>1. CallInv(u) /\ MakerInv(u) /\ FileInv(u)
    BY DEF ThreadInv
  <1>2. CASE u = t
    BY <1>2, OverFacts DEF CallInv, MakerInv, FileInv, Ending
  <1>3. CASE u # t
    <2>1. call[u] # None => call[u].id \in Ids
      BY DEF TypeOK, Call
    <2>2. CallInv(u)'
      BY <1>1, <1>3, <2>1, OverFacts DEF CallInv
    <2>3. MakerInv(u)'
      <3> SUFFICES ASSUME Makes(u) PROVE MakerInv(u)'
        BY <1>3, OverFacts DEF MakerInv
      <3>1. \A v \in Threads : object'[v][call[u].id] = object[v][call[u].id]
        BY <1>3, <2>1 DEF Makes
      <3>2. /\ call'[u] = call[u] /\ pc'[u] = pc[u]
            /\ \A v \in Threads : call'[v] # None => call'[v] = call[v]
        BY <1>3, OverFacts
      <3> QED
        BY <1>1, <1>3, <3>1, <3>2 DEF MakerInv, Mine
    <2>4. FileInv(u)'
      BY <1>1, <1>3, OverFacts DEF FileInv
    <2> QED
      BY <2>2, <2>3, <2>4
  <1> QED
    BY <1>2, <1>3

LEMMA ObjectType ==
    ASSUME NEW t \in Threads, NEW i \in Ids, NEW row \in Row \cup {None},
           object \in [Threads -> [Ids -> Row \cup {None}]],
           object' = [object EXCEPT ![t][i] = row]
    PROVE  object' \in [Threads -> [Ids -> Row \cup {None}]]
  OBVIOUS

LEMMA ReturnKeeps ==
    ASSUME Inv, NEW t \in Threads, Store(t) \/ Register(t)
    PROVE  Inv'
  <1> DEFINE k == call[t].id
  <1> USE DEF Inv, database, service, history
  <1>1. /\ Return(t) /\ Over(t) /\ Save(t, k)
        /\ object' = [object EXCEPT ![t][k].deleted = FALSE]
        /\ UNCHANGED <<database, files, service, cleared, reading, history,
                   crashes>>
    BY DEF Store, Register, Return
  <1>2. /\ Makes(t) /\ CallInv(t) /\ MakerInv(t) /\ FileInv(t) /\ pc[t] \in Ending
    BY DEF ThreadInv, CallInv, Store, Register, Ending
  <1>3. /\ k \in Ids /\ k \in used /\ k \notin failed /\ rows[k] = None
        /\ object[t][k] \in Row /\ object[t][k].name = call[t].name
        /\ call[t].name \in {k} \cup Paths
    BY <1>2, MakerFacts DEF MakerInv, Mine, TypeOK
  <1>4. Written(call[t].name)
    <2>1. CASE Store(t)
      <3>1. /\ pc[t] = "closing" /\ call[t].op = "store" /\ place[t] \in Dirs
            /\ call[t].name = k
        BY <1>2, <2>1 DEF Store, CallInv, MakerInv
      <3>2. files[place[t]][k] = "whole"
        BY <1>2, <3>1 DEF FileInv
      <3> QED
        BY <3>1, <3>2 DEF Written
    <2>2. CASE Register(t)
      BY <1>3, <2>2, FoundDir DEF Register, Written, Mine
    <2> QED
      BY <2>1, <2>2
  <1>5. /\ object'[t][k] = [object[t][k] EXCEPT !.deleted = FALSE]
        /\ \A u \in Threads, i \in Ids :
              u # t \/ i # k => object'[u][i] = object[u][i]
    BY <1>1, <1>3 DEF TypeOK
  <1>6. /\ object'[t][k] \in Row /\ object'[t][k] # None
        /\ ~object'[t][k].deleted /\ object'[t][k].name = call[t].name
    <2>1. object'[t][k] \in Row /\ ~object'[t][k].deleted /\ object'[t][k].name = call[t].name
      BY <1>3, <1>5 DEF Row
    <2> QED
      BY <2>1, StorageAssumption
  <1>7. /\ pending'[t] \in {pending[t], pending[t] \cup {k}}
        /\ \A u \in Threads \ {t} : pending'[u] = pending[u]
    BY <1>1 DEF TypeOK, Save
  <1>8. TypeOK'
    <2>1. object' \in [Threads -> [Ids -> Row \cup {None}]]
      <3> DEFINE row == [object[t][k] EXCEPT !.deleted = FALSE]
      <3>1. row \in Row /\ object' = [object EXCEPT ![t][k] = row]
        BY <1>1, <1>3, <1>5, <1>6 DEF TypeOK
      <3> HIDE DEF row
      <3> QED
        BY <1>3, <3>1, ObjectType DEF TypeOK
    <2>2. pending' \in [Threads -> SUBSET Ids]
      BY <1>1, <1>3, SaveType DEF TypeOK
    <2> QED
      BY <1>1, <2>1, <2>2, OverFacts DEF TypeOK
  <1>9. ThreadInv'
    BY <1>1, <1>2, <1>5, MakerFacts, OverKeepsThreads
  <1>10. SessionInv'
    <2>1. ASSUME NEW u \in Threads PROVE PendingInv(u)'
      <3> SUFFICES ASSUME NEW i \in pending'[u]
                   PROVE  /\ object'[u][i] # None
                          /\ rows[i] # None => object'[u][i].deleted
                          /\ object'[u][i].deleted =>
                               \A b \in Bundles : primary[b] = i => b \in cleared[u]
        BY <1>1 DEF PendingInv
      <3>1. CASE u = t /\ i = k
        BY <1>3, <1>6, <3>1
      <3>2. CASE u # t \/ i # k
        <4>1. i \in pending[u] /\ i \in Ids
          BY <1>7, <3>2 DEF TypeOK
        <4> QED
          BY <1>5, <3>2, <4>1 DEF SessionInv, PendingInv
      <3> QED
        BY <3>1, <3>2
    <2>0. \A n : Written(n)' <=> Written(n)
      BY <1>1 DEF Written
    <2>2. ASSUME NEW u \in Threads, NEW i \in Ids PROVE ObjectInv(u, i)'
      <3>1. CASE i = k
        <4>1. \A v \in Threads \ {t} : object'[v][k] = None
          BY <1>2, <1>3, <1>5, MakerFacts
        <4> QED
          BY <1>1, <1>3, <1>4, <1>6, <2>0, <3>1, <4>1 DEF ObjectInv
      <3>2. CASE i # k
        <4>1. \A v \in Threads : object'[v][i] = object[v][i]
          BY <1>5, <3>2
        <4> QED
          BY <1>1, <2>0, <4>1 DEF SessionInv, ObjectInv
      <3> QED
        BY <3>1, <3>2
    <2> QED
      BY <2>1, <2>2 DEF SessionInv
  <1>11. DataInv'
    <2> SUFFICES ASSUME NEW i \in Ids PROVE FreshInv(i)' /\ RowInv(i)'
      BY <1>1 DEF DataInv, FailedUsed
    <2>1. FreshInv(i) /\ RowInv(i)
      BY DEF DataInv
    <2>2. FreshInv(i)'
      BY <1>1, <1>3, <1>5, <2>1, OverFacts DEF FreshInv
    <2>3. RowInv(i)'
      BY <1>1, <2>1 DEF RowInv, Written, Live
    <2> QED
      BY <2>2, <2>3
  <1>12. PrimaryNeverDeleted'
    BY <1>1 DEF PrimaryNeverDeleted, Live
  <1> QED
    BY <1>8, <1>9, <1>10, <1>11, <1>12
LEMMA ThrowKeeps ==
    ASSUME Inv, NEW t \in Threads, Throw(t)
    PROVE  Inv'
  <1> DEFINE k == call[t].id
  <1> USE DEF Inv, Throw, database, service, session
  <1>1. Makes(t) /\ MakerInv(t) /\ pc[t] \in Ending /\ Over(t)
    BY DEF ThreadInv, CallInv, Ending
  <1>2. /\ k \in Ids /\ k \in used /\ rows[k] = None
        /\ object[t][k].deleted /\ failed' = failed \cup {k}
        /\ \A u \in Threads \ {t} : object[u][k] = None
        /\ \A u \in Threads \ {t} : Makes(u) => call[u].id # k
    BY <1>1, MakerFacts DEF MakerInv, Mine
  <1>3. TypeOK'
    BY <1>2, OverFacts DEF TypeOK
  <1>4. ThreadInv'
    BY <1>2, OverKeepsThreads
  <1>5. \A n : Written(n)' <=> Written(n)
    BY DEF Written
  <1>6. SessionInv'
    <2> SUFFICES ASSUME NEW u \in Threads, NEW i \in Ids PROVE ObjectInv(u, i)'
      BY DEF SessionInv, PendingInv
    <2>1. ObjectInv(u, i)
      BY DEF SessionInv
    <2> QED
      BY <1>2, <1>5, <2>1 DEF ObjectInv
  <1>7. DataInv'
    <2>1. FailedUsed'
      BY <1>2 DEF DataInv, FailedUsed
    <2>2. ASSUME NEW i \in Ids PROVE FreshInv(i)' /\ RowInv(i)'
      <3>1. FreshInv(i) /\ RowInv(i)
        BY DEF DataInv
      <3>2. FreshInv(i)'
        BY <3>1, OverFacts DEF FreshInv
      <3>3. RowInv(i)'
        BY <1>2, <1>5, <3>1 DEF RowInv, Live
      <3> QED
        BY <3>2, <3>3
    <2> QED
      BY <2>1, <2>2 DEF DataInv
  <1>8. PrimaryNeverDeleted'
    BY DEF PrimaryNeverDeleted, Live
  <1> QED
    BY <1>3, <1>4, <1>6, <1>7, <1>8

\* init() throws before the bitstream exists.
LEMMA InitThrowsKeeps ==
    ASSUME Inv, NEW t \in Threads, InitThrows(t)
    PROVE  Inv'
  <1> DEFINE k == call[t].id
  <1> USE DEF Inv, InitThrows, database, service, session
  <1>1. /\ Over(t) /\ pc[t] = "listing" /\ call[t] # None /\ CallInv(t)
        /\ MakerInv(t) /\ k \in Ids
    BY DEF ThreadInv, CallInv, TypeOK, Call
  <1>2. \/ ~Makes(t) /\ failed' = failed
        \/ /\ Makes(t) /\ failed' = failed \cup {k} /\ k \in used
           /\ rows[k] = None /\ \A u \in Threads : object[u][k] = None
           /\ \A u \in Threads \ {t} : Makes(u) => call[u].id # k
    <2>1. CASE Makes(t)
      <3>1. failed' = failed \cup {k}
        BY <2>1 DEF Makes
      <3>2. object[t][k] = None
        BY <1>1, <2>1 DEF MakerInv, Mine, Ending
      <3> QED
        BY <2>1, <3>1, <3>2, MakerFacts
    <2>2. CASE ~Makes(t)
      BY <1>1, <2>2 DEF Makes
    <2> QED
      BY <2>1, <2>2
  <1>3. TypeOK'
    <2>1. failed' \in SUBSET Ids
      BY <1>1, <1>2 DEF TypeOK
    <2> QED
      BY <1>1, <2>1, OverFacts DEF TypeOK
  <1>4. ThreadInv'
    BY <1>1, <1>2, OverKeepsThreads
  <1>5. \A n : Written(n)' <=> Written(n)
    BY DEF Written
  <1>6. SessionInv'
    <2> SUFFICES ASSUME NEW u \in Threads, NEW i \in Ids PROVE ObjectInv(u, i)'
      BY DEF SessionInv, PendingInv
    <2>1. ObjectInv(u, i)
      BY DEF SessionInv
    <2> QED
      BY <1>2, <1>5, <2>1 DEF ObjectInv
  <1>7. DataInv'
    <2>1. FailedUsed'
      BY <1>2 DEF DataInv, FailedUsed
    <2>2. ASSUME NEW i \in Ids PROVE FreshInv(i)' /\ RowInv(i)'
      <3>1. FreshInv(i) /\ RowInv(i)
        BY DEF DataInv
      <3>2. FreshInv(i)'
        BY <1>1, <3>1, OverFacts DEF FreshInv
      <3>3. RowInv(i)'
        BY <1>2, <1>5, <3>1 DEF RowInv, Live
      <3> QED
        BY <3>2, <3>3
    <2> QED
      BY <2>1, <2>2 DEF DataInv
  <1>8. PrimaryNeverDeleted'
    BY DEF PrimaryNeverDeleted, Live
  <1> QED
    BY <1>3, <1>4, <1>6, <1>7, <1>8

LEMMA RetrieveKeeps ==
    ASSUME Inv, NEW t \in Threads, Retrieve(t)
    PROVE  Inv'
  <1> USE DEF Inv, Retrieve, database, service, session, history
  <1>1. call[t] # None /\ Over(t)
    BY DEF ThreadInv, CallInv, Calls
  <1>2. reading' \in [Threads -> Ids \cup {None}]
    <2>1. call[t].id \in Ids
      BY <1>1 DEF TypeOK, Call
    <2> QED
      BY <2>1 DEF TypeOK
  <1>3. TypeOK'
    BY <1>2, OverFacts DEF TypeOK
  <1>4. ThreadInv'
    BY OverKeepsThreads
  <1>5. \A n : Written(n)' <=> Written(n)
    BY DEF Written
  <1>6. SessionInv'
    BY <1>5 DEF SessionInv, PendingInv, ObjectInv
  <1>7. DataInv'
    <2> SUFFICES ASSUME NEW i \in Ids PROVE FreshInv(i)' /\ RowInv(i)'
      BY DEF DataInv, FailedUsed
    <2>1. FreshInv(i) /\ RowInv(i)
      BY DEF DataInv
    <2>2. FreshInv(i)'
      BY <2>1, OverFacts DEF FreshInv
    <2> QED
      BY <1>5, <2>1, <2>2 DEF RowInv, Live
  <1>8. PrimaryNeverDeleted'
    BY DEF PrimaryNeverDeleted, Live
  <1> QED
    BY <1>3, <1>4, <1>6, <1>7, <1>8

LEMMA DeleteKeeps ==
    ASSUME Inv, NEW t \in Threads, Delete(t)
    PROVE  Inv'
  <1> DEFINE k == call[t].id
             row == [object[t][k] EXCEPT !.deleted = TRUE]
  <1> USE DEF Inv, database, service, session, history
  <1>1. /\ CallInv(t) /\ call[t] # None /\ Over(t) /\ k \in Ids
        /\ UNCHANGED <<database, files, service, reading, history, crashes>>
    BY DEF ThreadInv, CallInv, Delete, Calls, TypeOK, Call
  <1>2. object[t][k] # None /\ object[t][k] \in Row
    <2>1. object[t][k] # None
      BY <1>1 DEF CallInv, Makes, Delete, Calls
    <2> QED
      BY <1>1, <2>1 DEF TypeOK
  <1>3. row \in Row /\ row # None /\ row.deleted /\ row.name = object[t][k].name
    <2>1. row \in Row /\ row.deleted /\ row.name = object[t][k].name
      BY <1>2 DEF Row
    <2> QED
      BY <2>1, StorageAssumption
  <1>4. \/ rows[k] = None /\ UNCHANGED session
        \/ /\ rows[k] # None
           /\ cleared' = [cleared EXCEPT ![t] = @ \cup {b \in Bundles : primary[b] = k}]
           /\ pending' = [pending EXCEPT ![t] = @ \cup {k}]
           /\ object' = [object EXCEPT ![t][k] = row]
    BY <1>1 DEF Delete, TypeOK
  <1> HIDE DEF row
  <1>5. TypeOK'
    <2>1. object' \in [Threads -> [Ids -> Row \cup {None}]]
      BY <1>1, <1>3, <1>4, ObjectType DEF TypeOK
    <2>2. pending' \in [Threads -> SUBSET Ids]
      <3>1. CASE pending' = [pending EXCEPT ![t] = @ \cup {k}]
        BY <1>1, <3>1 DEF TypeOK
      <3>2. CASE UNCHANGED session
        BY <3>2 DEF TypeOK
      <3> QED
        BY <1>4, <3>1, <3>2
    <2>3. cleared' \in [Threads -> SUBSET Bundles]
      <3>1. CASE cleared' = [cleared EXCEPT ![t] = @ \cup {b \in Bundles : primary[b] = k}]
        BY <3>1 DEF TypeOK
      <3>2. CASE UNCHANGED session
        BY <3>2 DEF TypeOK
      <3> QED
        BY <1>4, <3>1, <3>2
    <2> QED
      BY <1>1, <2>1, <2>2, <2>3, OverFacts DEF TypeOK
  <1>6. \A n : Written(n)' <=> Written(n)
    BY <1>1 DEF Written
  <1>7. \A u \in Threads, i \in Ids :
          \/ object'[u][i] = object[u][i]
          \/ u = t /\ i = k /\ rows[k] # None /\ object'[u][i] = row
    BY <1>1, <1>4 DEF TypeOK
  <1>8. ThreadInv'
    <2>1. ASSUME NEW u \in Threads \ {t}, Makes(u)
          PROVE  object'[t][call[u].id] = object[t][call[u].id]
      BY <1>7, <2>1, MakerFacts
    <2> QED
      BY <1>1, <1>7, <2>1, OverKeepsThreads
  <1>9. SessionInv'
    <2>1. ASSUME NEW u \in Threads PROVE PendingInv(u)'
      <3> SUFFICES ASSUME NEW i \in pending'[u]
                   PROVE  /\ object'[u][i] # None
                          /\ rows[i] # None => object'[u][i].deleted
                          /\ object'[u][i].deleted =>
                               \A b \in Bundles : primary[b] = i => b \in cleared'[u]
        BY <1>1 DEF PendingInv
      <3>1. CASE u = t /\ i = k /\ rows[k] # None
        <4>1. object'[t][k] = row
          BY <1>1, <1>4, <3>1 DEF TypeOK
        <4>2. \A b \in Bundles : primary[b] = k => b \in cleared'[t]
          BY <1>4, <3>1 DEF TypeOK
        <4> QED
          BY <1>3, <3>1, <4>1, <4>2
      <3>2. CASE u # t \/ i # k \/ rows[k] = None
        <4>1. i \in pending[u] /\ i \in Ids /\ cleared[u] \subseteq cleared'[u]
          BY <1>4, <3>2 DEF TypeOK
        <4>2. object'[u][i] = object[u][i]
          BY <1>7, <3>2, <4>1
        <4> QED
          BY <4>1, <4>2 DEF SessionInv, PendingInv
      <3> QED
        BY <3>1, <3>2
    <2>2. ASSUME NEW u \in Threads, NEW i \in Ids PROVE ObjectInv(u, i)'
      <3>1. \A v \in Threads : object[v][i] = None => object'[v][i] = None
        BY <1>2, <1>7
      <3>2. ObjectInv(u, i)
        BY DEF SessionInv
      <3>3. CASE object'[u][i] = object[u][i]
        BY <1>1, <1>6, <3>1, <3>2, <3>3 DEF ObjectInv
      <3>4. CASE u = t /\ i = k /\ rows[k] # None /\ object'[u][i] = row
        BY <1>1, <1>2, <1>3, <3>2, <3>4 DEF ObjectInv
      <3> QED
        BY <1>7, <3>3, <3>4
    <2> QED
      BY <2>1, <2>2 DEF SessionInv
  <1>10. DataInv'
    <2> SUFFICES ASSUME NEW i \in Ids PROVE FreshInv(i)' /\ RowInv(i)'
      BY <1>1 DEF DataInv, FailedUsed
    <2>1. FreshInv(i) /\ RowInv(i)
      BY DEF DataInv
    <2>2. FreshInv(i)'
      BY <1>1, <1>7, <2>1, OverFacts DEF FreshInv
    <2>3. RowInv(i)'
      BY <1>1, <1>6, <2>1 DEF RowInv, Live
    <2> QED
      BY <2>2, <2>3
  <1>11. PrimaryNeverDeleted'
    BY <1>1 DEF PrimaryNeverDeleted, Live
  <1> QED
    BY <1>5, <1>8, <1>9, <1>10, <1>11
-----------------------------------------------------------------------------
(* The session of a thread, and the process.                               *)

LEMMA LoadKeeps ==
    ASSUME Inv, NEW t \in Threads, NEW i \in Ids, Load(t, i)
    PROVE  Inv'
  <1> USE DEF Inv, Load, database, service, control, history
  <1>1. /\ pc[t] = "idle" /\ call[t] = None /\ ~Makes(t)
        /\ rows[i] # None /\ rows[i] \in Row
    BY DEF ThreadInv, CallInv, Makes, TypeOK
  <1>2. /\ object'[t][i] = rows[i]
        /\ \A u \in Threads, j \in Ids :
              u # t \/ j # i => object'[u][j] = object[u][j]
    BY DEF TypeOK
  <1>3. \A n : Written(n)' <=> Written(n)
    BY DEF Written
  <1>4. TypeOK'
    <2>1. object' \in [Threads -> [Ids -> Row \cup {None}]]
      BY <1>1, ObjectType DEF TypeOK
    <2> QED
      BY <2>1 DEF TypeOK
  <1>5. ThreadInv'
    <2> SUFFICES ASSUME NEW u \in Threads
                 PROVE  CallInv(u)' /\ MakerInv(u)' /\ FileInv(u)'
      BY DEF ThreadInv
    <2>1. CallInv(u) /\ MakerInv(u) /\ FileInv(u) /\ (Makes(u)' <=> Makes(u))
      BY DEF ThreadInv, Makes
    <2>2. call[u] # None => u # t /\ call[u].id \in Ids
      BY <1>1 DEF TypeOK, Call
    <2>3. CallInv(u)' /\ FileInv(u)'
      BY <1>2, <2>1, <2>2 DEF CallInv, FileInv
    <2>4. MakerInv(u)'
      <3> SUFFICES ASSUME Makes(u) PROVE MakerInv(u)'
        BY <2>1 DEF MakerInv
      <3>1. call[u].id # i /\ call[u].id \in Ids
        BY <1>1, MakerFacts
      <3>2. \A v \in Threads : object'[v][call[u].id] = object[v][call[u].id]
        BY <1>2, <3>1
      <3> QED
        BY <2>1, <3>2 DEF MakerInv, Mine
    <2> QED
      BY <2>3, <2>4
  <1>6. SessionInv'
    <2>1. ASSUME NEW u \in Threads PROVE PendingInv(u)'
      <3> SUFFICES ASSUME NEW j \in pending[u]
                   PROVE  /\ object'[u][j] # None
                          /\ rows[j] # None => object'[u][j].deleted
                          /\ object'[u][j].deleted =>
                               \A b \in Bundles : primary[b] = j => b \in cleared[u]
        BY DEF PendingInv
      <3>1. j \in Ids /\ object[u][j] # None
        BY DEF TypeOK, SessionInv, PendingInv
      <3>2. object'[u][j] = object[u][j]
        BY <1>2, <3>1
      <3> QED
        BY <3>2 DEF SessionInv, PendingInv
    <2>2. ASSUME NEW u \in Threads, NEW j \in Ids PROVE ObjectInv(u, j)'
      <3>1. CASE u = t /\ j = i
        BY <1>1, <1>2, <1>3, <3>1 DEF ObjectInv, DataInv, RowInv, Live
      <3>2. CASE u # t \/ j # i
        <4>1. object'[u][j] = object[u][j] /\ ObjectInv(u, j)
          BY <1>2, <3>2 DEF SessionInv
        <4>2. rows[j] = None => \A v \in Threads : object'[v][j] = object[v][j]
          BY <1>1, <1>2
        <4> QED
          BY <1>3, <4>1, <4>2 DEF ObjectInv
      <3> QED
        BY <3>1, <3>2
    <2> QED
      BY <2>1, <2>2 DEF SessionInv
  <1>7. DataInv'
    <2> SUFFICES ASSUME NEW j \in Ids PROVE FreshInv(j)' /\ RowInv(j)'
      BY DEF DataInv, FailedUsed
    <2>1. FreshInv(j) /\ RowInv(j)
      BY DEF DataInv
    <2>2. FreshInv(j)'
      BY <1>1, <1>2, <2>1 DEF FreshInv
    <2>3. RowInv(j)'
      BY <1>3, <2>1 DEF RowInv, Live
    <2> QED
      BY <2>2, <2>3
  <1>8. PrimaryNeverDeleted'
    BY DEF PrimaryNeverDeleted, Live
  <1> QED
    BY <1>4, <1>5, <1>6, <1>7, <1>8

\* A session that is gone has nothing of anything.
LEMMA CloseFacts ==
    ASSUME TypeOK, NEW t \in Threads, CloseSession(t)
    PROVE  /\ \A i \in Ids : object'[t][i] = None
           /\ pending'[t] = {} /\ cleared'[t] = {} /\ reading'[t] = None
           /\ \A u \in Threads \ {t} :
                 /\ object'[u] = object[u] /\ pending'[u] = pending[u]
                 /\ cleared'[u] = cleared[u]
           /\ object' \in [Threads -> [Ids -> Row \cup {None}]]
           /\ pending' \in [Threads -> SUBSET Ids]
           /\ cleared' \in [Threads -> SUBSET Bundles]
           /\ reading' \in [Threads -> Ids \cup {None}]
  <1>1. /\ \A i \in Ids : object'[t][i] = None
        /\ \A u \in Threads \ {t} : object'[u] = object[u]
        /\ object' \in [Threads -> [Ids -> Row \cup {None}]]
    BY DEF CloseSession, TypeOK, NoObjects
  <1>2. /\ pending'[t] = {} /\ \A u \in Threads \ {t} : pending'[u] = pending[u]
        /\ pending' \in [Threads -> SUBSET Ids]
    BY DEF CloseSession, TypeOK
  <1>3. /\ cleared'[t] = {} /\ \A u \in Threads \ {t} : cleared'[u] = cleared[u]
        /\ cleared' \in [Threads -> SUBSET Bundles]
    BY DEF CloseSession, TypeOK
  <1>4. reading'[t] = None /\ reading' \in [Threads -> Ids \cup {None}]
    BY DEF CloseSession, TypeOK
  <1> QED
    BY <1>1, <1>2, <1>3, <1>4

\* A row that is written has the bits of its object, one that is written
\* again is deleted.
LEMMA CompleteFacts ==
    ASSUME Inv, NEW t \in Threads, Complete(t)
    PROVE  /\ \A i \in Ids : rows'[i] = IF i \in pending[t] THEN object[t][i] ELSE rows[i]
           /\ \A i \in Ids : rows[i] # None => rows'[i] # None
           /\ \A i \in Ids : rows[i] # None =>
                 /\ rows'[i].name = rows[i].name
                 /\ rows'[i] # rows[i] => rows'[i].deleted
           /\ \A i \in Ids : i \in pending[t] =>
                 object[t][i] # None /\ rows'[i] = object[t][i] /\ ObjectInv(t, i)
           /\ rows' \in [Ids -> Row \cup {None}]
  <1> USE DEF Inv
  <1>1. \A i \in Ids : rows'[i] = IF i \in pending[t] THEN object[t][i] ELSE rows[i]
    BY DEF Complete
  <1>2. \A i \in Ids : i \in pending[t] =>
          object[t][i] # None /\ rows'[i] = object[t][i] /\ ObjectInv(t, i)
    BY <1>1 DEF SessionInv, PendingInv
  <1>3. \A i \in Ids : rows[i] # None => rows'[i] # None
    BY <1>1, <1>2
  <1>4. \A i \in Ids : rows[i] # None =>
                 /\ rows'[i].name = rows[i].name
                 /\ rows'[i] # rows[i] => rows'[i].deleted
    BY <1>1, <1>2 DEF SessionInv, PendingInv, ObjectInv
  <1>5. rows' \in [Ids -> Row \cup {None}]
    BY DEF Complete, TypeOK
  <1> QED
    BY <1>1, <1>2, <1>3, <1>4, <1>5

LEMMA CompleteKeeps ==
    ASSUME Inv, NEW t \in Threads, Complete(t)
    PROVE  Inv'
  <1> USE DEF Inv, service, control, history
  <1>1. /\ pc[t] = "idle" /\ call[t] = None /\ CloseSession(t)
        /\ UNCHANGED <<files, service, control, history, crashes>>
        /\ primary' = [b \in Bundles |-> IF b \in cleared[t] THEN None
                                         ELSE primary[b]]
    BY DEF ThreadInv, CallInv, Complete
  <1>2. \A u \in Threads : /\ Makes(u)' <=> Makes(u)
                           /\ call[u] # None => u # t /\ call[u].id \in Ids
    BY <1>1 DEF Makes, TypeOK, Call
  <1>3. \A n : Written(n)' <=> Written(n)
    BY <1>1 DEF Written
  <1>4. TypeOK'
    BY <1>1, CloseFacts, CompleteFacts DEF TypeOK
  <1>5. ThreadInv'
    <2> SUFFICES ASSUME NEW u \in Threads
                 PROVE  CallInv(u)' /\ MakerInv(u)' /\ FileInv(u)'
      BY DEF ThreadInv
    <2>1. CallInv(u) /\ MakerInv(u) /\ FileInv(u)
      BY DEF ThreadInv
    <2>2. CallInv(u)' /\ FileInv(u)'
      BY <1>1, <1>2, <2>1, CloseFacts DEF CallInv, FileInv
    <2>3. MakerInv(u)'
      <3> SUFFICES ASSUME Makes(u) PROVE MakerInv(u)'
        BY <1>2 DEF MakerInv
      <3>1. /\ u # t /\ call[u].id \in Ids /\ object[t][call[u].id] = None
            /\ rows[call[u].id] = None
        BY <1>2, MakerFacts DEF Makes
      <3>2. rows'[call[u].id] = None
        BY <3>1, CompleteFacts
      <3>3. /\ object'[u] = object[u]
            /\ \A v \in Threads : object[v][call[u].id] = None
                                    => object'[v][call[u].id] = None
        BY <1>1, <3>1, CloseFacts
      <3> QED
        BY <1>1, <2>1, <3>2, <3>3 DEF MakerInv, Mine
    <2> QED
      BY <2>2, <2>3
  <1>6. \A u \in Threads \ {t}, i \in Ids :
          object[u][i] # None /\ i \in pending[t] => rows[i] # None
    BY CompleteFacts DEF ObjectInv
  <1>7. SessionInv'
    <2> SUFFICES ASSUME NEW u \in Threads
                 PROVE  PendingInv(u)' /\ \A i \in Ids : ObjectInv(u, i)'
      BY DEF SessionInv
    <2>1. CASE u = t
      BY <1>1, <2>1, CloseFacts DEF PendingInv, ObjectInv
    <2>2. CASE u # t
      <3>1. PendingInv(u)'
        <4> SUFFICES ASSUME NEW i \in pending[u]
                     PROVE  /\ object[u][i] # None
                            /\ rows'[i] # None => object[u][i].deleted
                            /\ object[u][i].deleted =>
                                 \A b \in Bundles : primary'[b] = i => b \in cleared[u]
          BY <1>1, <2>2, CloseFacts DEF PendingInv
        <4>1. /\ i \in Ids /\ object[u][i] # None
              /\ rows[i] # None => object[u][i].deleted
              /\ object[u][i].deleted =>
                   \A b \in Bundles : primary[b] = i => b \in cleared[u]
          BY DEF TypeOK, SessionInv, PendingInv
        <4>2. rows'[i] # None => rows[i] # None
          BY <1>6, <2>2, <4>1, CompleteFacts
        <4>3. \A b \in Bundles : primary'[b] = i => primary[b] = i
          BY <1>1, <4>1, StorageAssumption
        <4> QED
          BY <4>1, <4>2, <4>3
      <3>2. ASSUME NEW i \in Ids PROVE ObjectInv(u, i)'
        <4>1. ObjectInv(u, i) /\ object'[u][i] = object[u][i]
          BY <1>1, <2>2, CloseFacts DEF SessionInv
        <4> SUFFICES ASSUME object[u][i] # None
                     PROVE  /\ rows'[i] # None => object[u][i].name = rows'[i].name
                            /\ rows'[i] = None =>
                                 \A v \in Threads \ {u} : object'[v][i] = None
          BY <1>1, <1>3, <4>1 DEF ObjectInv
        <4>2. CASE rows[i] # None
          BY <4>1, <4>2, CompleteFacts DEF ObjectInv
        <4>3. CASE rows[i] = None
          <5>1. rows'[i] = None
            BY <1>6, <2>2, <4>3, CompleteFacts
          <5> QED
            BY <1>1, <4>1, <4>3, <5>1, CloseFacts DEF ObjectInv
        <4> QED
          BY <4>2, <4>3
      <3> QED
        BY <3>1, <3>2
    <2> QED
      BY <2>1, <2>2
  <1>8. DataInv'
    <2> SUFFICES ASSUME NEW i \in Ids PROVE FreshInv(i)' /\ RowInv(i)'
      BY <1>1 DEF DataInv, FailedUsed
    <2>1. FreshInv(i) /\ RowInv(i)
      BY DEF DataInv
    <2>2. FreshInv(i)'
      <3> SUFFICES ASSUME i \notin used PROVE FreshInv(i)'
        BY <1>1 DEF FreshInv
      <3>1. rows'[i] = None
        BY <2>1, CompleteFacts DEF FreshInv
      <3>2. \A u \in Threads : object'[u][i] = None
        BY <1>1, <2>1, CloseFacts DEF FreshInv
      <3> QED
        BY <1>1, <2>1, <3>1, <3>2 DEF FreshInv
    <2>3. RowInv(i)'
      <3>1. CASE i \in pending[t]
        BY <1>1, <1>3, <3>1, CompleteFacts DEF RowInv, ObjectInv, Live
      <3>2. CASE i \notin pending[t]
        BY <1>1, <1>3, <2>1, <3>2, CompleteFacts DEF RowInv, Live
      <3> QED
        BY <3>1, <3>2
    <2> QED
      BY <2>2, <2>3
  <1>9. PrimaryNeverDeleted'
    <2> SUFFICES ASSUME NEW b \in Bundles, primary'[b] # None
                 PROVE  rows'[primary'[b]] # None /\ ~rows'[primary'[b]].deleted
      BY DEF PrimaryNeverDeleted, Live
    <2> DEFINE i == primary[b]
    <2>1. primary'[b] = i /\ b \notin cleared[t] /\ i # None /\ i \in Ids
      BY <1>1 DEF TypeOK
    <2>2. Live(rows[i])
      BY <2>1 DEF PrimaryNeverDeleted
    <2>3. i \notin pending[t]
      BY <2>1, <2>2 DEF SessionInv, PendingInv, Live
    <2>4. rows'[i] = rows[i]
      BY <2>1, <2>3, CompleteFacts
    <2> HIDE DEF i
    <2> QED
      BY <2>1, <2>2, <2>4 DEF Live
  <1> QED
    BY <1>4, <1>5, <1>7, <1>8, <1>9

LEMMA AbortKeeps ==
    ASSUME Inv, NEW t \in Threads, Abort(t)
    PROVE  Inv'
  <1> USE DEF Inv, Abort, database, service, control, history
  <1>1. pc[t] = "idle" /\ call[t] = None
    BY DEF ThreadInv, CallInv
  <1>2. \A u \in Threads : /\ Makes(u)' <=> Makes(u)
                           /\ call[u] # None => u # t /\ call[u].id \in Ids
    BY <1>1 DEF Makes, TypeOK, Call
  <1>3. \A n : Written(n)' <=> Written(n)
    BY DEF Written
  <1>4. \A u \in Threads, i \in Ids : object[u][i] = None => object'[u][i] = None
    BY CloseFacts
  <1>5. TypeOK'
    BY CloseFacts DEF TypeOK
  <1>6. ThreadInv'
    <2> SUFFICES ASSUME NEW u \in Threads
                 PROVE  CallInv(u)' /\ MakerInv(u)' /\ FileInv(u)'
      BY DEF ThreadInv
    <2>1. CallInv(u) /\ MakerInv(u) /\ FileInv(u)
      BY DEF ThreadInv
    <2>2. CallInv(u)' /\ FileInv(u)'
      BY <1>1, <1>2, <2>1, CloseFacts DEF CallInv, FileInv
    <2>3. MakerInv(u)'
      <3> SUFFICES ASSUME Makes(u) PROVE MakerInv(u)'
        BY <1>2 DEF MakerInv
      <3>1. u # t /\ call[u].id \in Ids
        BY <1>2 DEF Makes
      <3>2. object'[u] = object[u]
        BY <3>1, CloseFacts
      <3> QED
        BY <1>4, <2>1, <3>1, <3>2 DEF MakerInv, Mine
    <2> QED
      BY <2>2, <2>3
  <1>7. SessionInv'
    <2> SUFFICES ASSUME NEW u \in Threads
                 PROVE  PendingInv(u)' /\ \A i \in Ids : ObjectInv(u, i)'
      BY DEF SessionInv
    <2>1. CASE u = t
      BY <2>1, CloseFacts DEF PendingInv, ObjectInv
    <2>2. CASE u # t
      <3>1. object'[u] = object[u] /\ pending'[u] = pending[u] /\ cleared'[u] = cleared[u]
        BY <2>2, CloseFacts
      <3>2. PendingInv(u)'
        BY <3>1 DEF SessionInv, PendingInv
      <3>3. ASSUME NEW i \in Ids PROVE ObjectInv(u, i)'
        BY <1>3, <1>4, <3>1 DEF SessionInv, ObjectInv
      <3> QED
        BY <3>2, <3>3
    <2> QED
      BY <2>1, <2>2
  <1>8. DataInv'
    <2> SUFFICES ASSUME NEW i \in Ids PROVE FreshInv(i)' /\ RowInv(i)'
      BY DEF DataInv, FailedUsed
    <2>1. FreshInv(i) /\ RowInv(i)
      BY DEF DataInv
    <2> QED
      BY <1>3, <1>4, <2>1 DEF FreshInv, RowInv, Live
  <1>9. PrimaryNeverDeleted'
    BY DEF PrimaryNeverDeleted, Live
  <1> QED
    BY <1>5, <1>6, <1>7, <1>8, <1>9

LEMMA CrashKeeps ==
    ASSUME Inv, Crash
    PROVE  Inv'
  <1> USE StorageAssumption DEF Inv, Crash, database, history
  <1>1. \A n : Written(n)' <=> Written(n)
    BY DEF Written
  <1>2. \A t \in Threads : pc'[t] = "idle" /\ call'[t] = None
                           /\ \A i \in Ids : object'[t][i] = None
    BY DEF NoObjects
  <1>3. TypeOK'
    <2>1. crashes' \in 0..MaxCrashes
      BY DEF TypeOK
    <2>2. stores' \in Seq(Dirs)
      OBVIOUS
    <2>5. listed' \in BOOLEAN /\ raced' \in BOOLEAN
      BY DEF TypeOK
    <2>3. /\ object' \in [Threads -> [Ids -> Row \cup {None}]]
          /\ at' \in [Threads -> 1..(Len(Configured) + 1)]
      BY DEF NoObjects
    <2>4. /\ pc' \in [Threads -> {"idle", "finding", "assigning", "listing",
                               "ready", "locating", "copying", "closing"}]
          /\ call' \in [Threads -> Call \cup {None}]
          /\ place' \in [Threads -> Dirs \cup {None}]
          /\ pending' \in [Threads -> SUBSET Ids]
          /\ cleared' \in [Threads -> SUBSET Bundles]
          /\ reading' \in [Threads -> Ids \cup {None}]
      OBVIOUS
    <2> QED
      BY <2>1, <2>2, <2>3, <2>4, <2>5 DEF TypeOK
  <1>4. ThreadInv'
    BY <1>2 DEF ThreadInv, CallInv, MakerInv, FileInv, Makes, Ending
  <1>5. SessionInv'
    BY <1>2 DEF SessionInv, PendingInv, ObjectInv
  <1>6. DataInv'
    BY <1>1, <1>2 DEF DataInv, FailedUsed, FreshInv, RowInv, Live
  <1>7. PrimaryNeverDeleted'
    BY DEF PrimaryNeverDeleted, Live
  <1> QED
    BY <1>3, <1>4, <1>5, <1>6, <1>7
-----------------------------------------------------------------------------
(* The theorems.                                                           *)

LEMMA NextInv == Inv /\ [Next]_vars => Inv'
  <1> SUFFICES ASSUME Inv, [Next]_vars PROVE Inv'
    OBVIOUS
  <1>1. CASE UNCHANGED vars
    <2> USE <1>1 DEF vars, database, service, session, control, history, Inv
    <2>1. TypeOK'
      BY DEF TypeOK
    <2>2. \A u \in Threads : (Makes(u)' <=> Makes(u)) /\ Mine(u)' = Mine(u)
      BY DEF Makes, Mine
    <2>3. \A n \in Names : Written(n)' <=> Written(n)
      BY DEF Written
    <2>4. ThreadInv'
      <3>1. \A u \in Threads : CallInv(u)'
        BY <2>2 DEF ThreadInv, CallInv
      <3>2. \A u \in Threads : MakerInv(u)'
        BY <2>2 DEF ThreadInv, MakerInv
      <3>3. \A u \in Threads : FileInv(u)'
        BY <2>2 DEF ThreadInv, FileInv
      <3> QED
        BY <3>1, <3>2, <3>3 DEF ThreadInv
    <2>5. SessionInv'
      <3>1. \A u \in Threads : PendingInv(u)'
        BY DEF SessionInv, PendingInv
      <3>2. \A u \in Threads, i \in Ids : ObjectInv(u, i)'
        BY DEF SessionInv, ObjectInv, Written
      <3> QED
        BY <3>1, <3>2 DEF SessionInv
    <2>6. DataInv'
      BY DEF DataInv, FailedUsed, FreshInv, RowInv, Live, Written
    <2>7. PrimaryNeverDeleted'
      BY DEF PrimaryNeverDeleted, Live
    <2> QED
      BY <2>1, <2>4, <2>5, <2>6, <2>7
  <1>2. CASE Next
    BY <1>2, FindingKeeps, BeginningKeeps, SaveNewKeeps, WriteKeeps, ReturnKeeps,
       ThrowKeeps, InitThrowsKeeps, RetrieveKeeps, DeleteKeeps, LoadKeeps, CompleteKeeps,
       AbortKeeps, CrashKeeps DEF Next, InCall
  <1> QED
    BY <1>1, <1>2

\* Every reachable state satisfies the invariant.
THEOREM Invariance == Spec => []Inv
  BY InitInv, NextInv, PTL DEF Spec

\* Type correctness of the storage service.
THEOREM TypeCorrect == Spec => []TypeOK
  <1>1. Inv => TypeOK
    BY DEF Inv
  <1> QED
    BY <1>1, Invariance, PTL

\* No row becomes live for a bitstream for which store() or register() has
\* thrown an exception, whatever the caller does with its session afterwards.
THEOREM FailureAlwaysLeavesDeleted == Spec => []FailureLeavesDeleted
  <1>1. Inv => FailureLeavesDeleted
    BY DEF Inv, TypeOK, DataInv, RowInv, FailureLeavesDeleted
  <1> QED
    BY <1>1, Invariance, PTL

\* No bundle keeps a primary bitstream that is deleted.
THEOREM PrimaryStaysLive == Spec => []PrimaryNeverDeleted
  <1>1. Inv => PrimaryNeverDeleted
    BY DEF Inv
  <1> QED
    BY <1>1, Invariance, PTL
-----------------------------------------------------------------------------
(* The bits of a live row are where a process looks for them, if no two    *)
(* threads read the list of asset stores at the same time.                 *)

LEMMA InitPlaces == Init => ListInv /\ PlaceInv
  <1> SUFFICES ASSUME Init PROVE ListInv /\ PlaceInv
    OBVIOUS
  <1> USE StorageAssumption
  <1>1. PICK number \in [Old -> -1..(Len(Configured) - 1)],
             present \in SUBSET (Range(Configured) \X Paths) :
          /\ rows = [i \in Ids |->
                IF i \in Old
                THEN [number |-> number[i], name |-> i, deleted |-> FALSE]
                ELSE None]
          /\ files = [d \in Dirs |-> [n \in Names |->
                IF \/ <<d, n>> \in present
                   \/ n \in Old /\ d = Configured[Slot(number[n])]
                THEN "whole" ELSE "none"]]
    BY DEF Init
  <1>2. ListInv
    BY DEF Init, ListInv
  <1>3. ASSUME NEW i \in Ids, Live(rows[i]) PROVE HasBits(rows[i])
    <2>1. i \in Old /\ rows[i].number = number[i] /\ rows[i].name = i
      BY <1>1, <1>3 DEF Live
    <2>2. Slot(number[i]) \in 1..Len(Configured)
      BY <2>1, SlotOfStore
    <2>3. Configured[Slot(number[i])] \in Dirs /\ i \in Names
      BY <2>2 DEF Names
    <2>4. files[Configured[Slot(number[i])]][i] = "whole"
      BY <1>1, <2>1, <2>3
    <2> QED
      BY <2>1, <2>2, <2>4 DEF HasBits
  <1>4. PlaceInv
    BY <1>3 DEF Init, PlaceInv, NoObjects, Live
  <1> QED
    BY <1>2, <1>4

LEMMA ListKept ==
    ASSUME Inv, OneLister, ListInv, [Next]_vars
    PROVE  ListInv'
  <1> USE StorageAssumption
  <1>1. TypeOK /\ stores \in Seq(Dirs) /\ Len(Configured) \in Nat
    BY DEF Inv, TypeOK
  <1>2. CASE /\ UNCHANGED <<stores, at>>
             /\ \A u \in Threads : pc'[u] = "listing" => pc[u] = "listing"
    BY <1>2 DEF ListInv
  <1>3. CASE Crash
    BY <1>3 DEF ListInv, Crash
  <1>4. ASSUME NEW t \in Threads, AssignStores(t) PROVE ListInv'
    <2>1. stores' = <<>> /\ at'[t] = 1
      BY <1>1, <1>4 DEF AssignStores, TypeOK
    <2>2. \A u \in Threads : pc'[u] = "listing" => u = t
      BY <1>1, <1>4 DEF AssignStores, GoTo, OneLister, TypeOK
    <2> QED
      BY <1>1, <2>1, <2>2 DEF ListInv
  <1>5. ASSUME NEW t \in Threads, AddStore(t) PROVE ListInv'
    <2>1. \A u \in Threads : pc[u] = "listing" => u = t
      BY <1>5 DEF AddStore, OneLister
    <2>2. /\ at[t] = Len(stores) + 1 /\ at[t] <= Len(Configured)
          /\ stores' = Append(stores, Configured[at[t]])
          /\ at'[t] = at[t] + 1 /\ pc' = pc
      BY <1>1, <1>5, <2>1 DEF AddStore, ListInv, TypeOK
    <2>3. Configured[at[t]] \in Dirs /\ Len(stores) \in Nat
      BY <1>1, <2>2
    <2>4. Len(stores') = Len(stores) + 1
      BY <1>1, <2>2, <2>3
    <2>5. \A j \in 1..Len(stores') : stores'[j] = Configured[j]
      BY <1>1, <2>2, <2>3, <2>4 DEF ListInv
    <2> QED
      BY <2>1, <2>2, <2>3, <2>4, <2>5 DEF ListInv
  <1>6. ASSUME NEW t \in Threads, FindStores(t)
        PROVE  ListInv'
    BY <1>1, <1>2, <1>6 DEF FindStores, GoTo, TypeOK, service
  <1>7. ASSUME NEW t \in Threads,
               CreateFile(t) \/ Copy(t) \/ SaveNew(t) \/ Store(t) \/ Register(t)
                 \/ Throw(t) \/ InitThrows(t) \/ Retrieve(t) \/ Delete(t)
        PROVE  ListInv'
    BY <1>1, <1>2, <1>7 DEF CreateFile, Copy, SaveNew, Store, Register, Throw,
       InitThrows, Retrieve, Delete, Return, Over, GoTo, TypeOK, service, session
  <1>8. ASSUME NEW t \in Threads, Complete(t) \/ Abort(t) \/ \E i \in Ids : Load(t, i)
        PROVE  ListInv'
    BY <1>2, <1>8 DEF Complete, Abort, Load, service, control
  <1>9. ASSUME NEW t \in Threads, NEW c, Begin(t, c)
        PROVE  ListInv'
    BY <1>1, <1>2, <1>9 DEF Begin, GoTo, TypeOK, service
  <1>10. ASSUME NEW t \in Threads, NEW i \in Ids,
                \/ BeginStore(t, i) \/ BeginOther(t, "retrieve", i)
                \/ BeginOther(t, "delete", i)
                \/ \E number \in 0..Len(Configured), path \in Paths :
                      BeginRegister(t, i, number, path)
         PROVE  ListInv'
    BY <1>9, <1>10 DEF BeginStore, BeginRegister, BeginOther
  <1>11. CASE UNCHANGED vars
    BY <1>2, <1>11 DEF vars, service, control
  <1> QED
    BY <1>3, <1>4, <1>5, <1>6, <1>7, <1>8, <1>10, <1>11 DEF Next, InCall

\* The bits of a row stay where they are.
LEMMA HasBitsStays ==
    ASSUME NEW row \in Row, HasBits(row),
           \A d \in Dirs, n \in Names : files[d][n] = "whole" => files'[d][n] = "whole"
    PROVE  HasBits(row)'
  BY StorageAssumption DEF HasBits, Row

\* What a step may do to rows, objects and files being stored.
LEMMA PlacesStay ==
    ASSUME Inv, PlaceInv,
           \A d \in Dirs, n \in Names : files[d][n] = "whole" => files'[d][n] = "whole",
           \A i \in Ids : Live(rows'[i]) =>
               \/ rows'[i] = rows[i]
               \/ \E u \in Threads : rows'[i] = object[u][i],
           \A u \in Threads, i \in Ids : Live(object'[u][i]) =>
               \/ object'[u][i] = object[u][i]
               \/ object'[u][i] = rows[i]
               \/ HasBits(object[u][i])' ,
           \A u \in Threads : pc'[u] \in {"copying", "closing"} =>
               \/ /\ pc[u] \in {"copying", "closing"}
                  /\ place'[u] = place[u] /\ Mine(u)'.number = Mine(u).number
               \/ /\ Slot(Mine(u)'.number) \in 1..Len(Configured)
                  /\ place'[u] = Configured[Slot(Mine(u)'.number)]
    PROVE  PlaceInv'
  <1>1. /\ \A i \in Ids : rows[i] \in Row \cup {None}
        /\ \A u \in Threads, i \in Ids : object[u][i] \in Row \cup {None}
    BY DEF Inv, TypeOK
  <1>2. ASSUME NEW i \in Ids, Live(rows[i])
        PROVE  rows[i] \in Row /\ HasBits(rows[i])
    BY <1>1, <1>2 DEF PlaceInv, Live
  <1>3. ASSUME NEW u \in Threads, NEW i \in Ids, Live(object[u][i])
        PROVE  object[u][i] \in Row /\ HasBits(object[u][i])
    BY <1>1, <1>3 DEF PlaceInv, Live
  <1>4. ASSUME NEW row \in Row, HasBits(row)
        PROVE  HasBits(row)'
    BY <1>4, HasBitsStays
  <1>5. \A i \in Ids : Live(rows'[i]) => HasBits(rows[i])'
    <2> SUFFICES ASSUME NEW i \in Ids, Live(rows'[i]) PROVE HasBits(rows[i])'
      OBVIOUS
    <2>1. PICK row \in Row : row = rows'[i] /\ HasBits(row)
      BY <1>2, <1>3 DEF Live
    <2>2. HasBits(row)'
      BY <1>4, <2>1
    <2> QED
      BY <2>1, <2>2 DEF HasBits
  <1>6. \A u \in Threads, i \in Ids : Live(object'[u][i]) => HasBits(object[u][i])'
    <2> SUFFICES ASSUME NEW u \in Threads, NEW i \in Ids, Live(object'[u][i]),
                        ~HasBits(object[u][i])'
                 PROVE  FALSE
      OBVIOUS
    <2>1. PICK row \in Row : row = object'[u][i] /\ HasBits(row)
      BY <1>2, <1>3 DEF Live
    <2>2. HasBits(row)'
      BY <1>4, <2>1
    <2> QED
      BY <2>1, <2>2 DEF HasBits
  <1>7. \A u \in Threads : pc'[u] \in {"copying", "closing"} =>
          /\ Slot(Mine(u)'.number) \in 1..Len(Configured)
          /\ place'[u] = Configured[Slot(Mine(u)'.number)]
    BY DEF PlaceInv
  <1>8. \A i \in Ids : Live(rows[i])' => HasBits(rows[i])'
    BY <1>5 DEF Live
  <1>9. \A u \in Threads, i \in Ids : Live(object[u][i])' => HasBits(object[u][i])'
    BY <1>6 DEF Live
  <1> QED
    BY <1>7, <1>8, <1>9 DEF PlaceInv, Slot

\* Steps that do not touch rows, objects and files.
LEMMA PlacesUntouched ==
    ASSUME Inv, PlaceInv, UNCHANGED <<rows, files, object>>,
           \A u \in Threads : pc'[u] \in {"copying", "closing"} =>
               /\ pc[u] \in {"copying", "closing"}
               /\ place'[u] = place[u] /\ call'[u] = call[u]
    PROVE  PlaceInv'
  BY PlacesStay DEF Mine

\* A store that is read from the list is the configured one.
LEMMA FoundPlace ==
    ASSUME TypeOK, ListInv, NEW row \in Row, Found(row)
    PROVE  /\ Slot(row.number) \in 1..Len(Configured)
           /\ Dir(row) = Configured[Slot(row.number)]
  BY FoundDir, StorageAssumption DEF ListInv, Dir, TypeOK

LEMMA PlaceKept ==
    ASSUME Inv, OneLister, ListInv, PlaceInv, [Next]_vars
    PROVE  PlaceInv'
  <1>0. TypeOK
    BY DEF Inv
  <1>1. ASSUME NEW t \in Threads,
               \/ FindStores(t) \/ AssignStores(t) \/ AddStore(t)
               \/ InitThrows(t) \/ Throw(t) \/ Retrieve(t)
        PROVE  PlaceInv'
    BY <1>0, <1>1, PlacesUntouched DEF FindStores, AssignStores, AddStore,
       InitThrows, Throw, Retrieve, Over, GoTo, TypeOK, database, session
  <1>2. ASSUME NEW t \in Threads, NEW c, Begin(t, c)
        PROVE  PlaceInv'
    BY <1>0, <1>2, PlacesUntouched DEF Begin, GoTo, TypeOK, database, session
  <1>3. ASSUME NEW t \in Threads, NEW i \in Ids,
               \/ BeginStore(t, i) \/ BeginOther(t, "retrieve", i)
               \/ BeginOther(t, "delete", i)
               \/ \E number \in 0..Len(Configured), path \in Paths :
                     BeginRegister(t, i, number, path)
        PROVE  PlaceInv'
    BY <1>2, <1>3 DEF BeginStore, BeginRegister, BeginOther
  <1>4. CASE UNCHANGED vars
    BY <1>4, PlacesUntouched DEF vars, database, control, session
  <1>5. ASSUME NEW t \in Threads, SaveNew(t) PROVE PlaceInv'
    <2>1. /\ UNCHANGED <<rows, files, call, place>>
          /\ object' = [object EXCEPT ![t][call[t].id] = NewRow(t)]
          /\ pc'[t] = "locating" /\ \A u \in Threads \ {t} : pc'[u] = pc[u]
      BY <1>0, <1>5 DEF SaveNew, database, TypeOK
    <2>2. NewRow(t).deleted
      BY DEF NewRow
    <2>3. \A u \in Threads, i \in Ids : Live(object'[u][i]) => object'[u][i] = object[u][i]
      BY <1>0, <2>1, <2>2 DEF TypeOK, Live
    <2>4. \A u \in Threads : pc'[u] \in {"copying", "closing"} =>
            pc[u] \in {"copying", "closing"} /\ Mine(u)' = Mine(u)
      BY <1>0, <2>1 DEF TypeOK, Mine
    <2> QED
      BY <2>1, <2>3, <2>4, PlacesStay
  <1>6. ASSUME NEW t \in Threads, Delete(t) PROVE PlaceInv'
    <2>1. /\ UNCHANGED <<rows, files>> /\ Over(t)
          /\ object' = object \/ object' = [object EXCEPT ![t][call[t].id].deleted = TRUE]
      BY <1>6 DEF Delete, database, session
    <2>2. \A u \in Threads, i \in Ids : Live(object'[u][i]) => object'[u][i] = object[u][i]
      <3>1. CASE object' = object
        BY <3>1
      <3>2. CASE object' = [object EXCEPT ![t][call[t].id].deleted = TRUE]
        <4>1. call[t] # None
          BY <1>6 DEF Delete, Calls, Inv, ThreadInv, CallInv
        <4>2. call[t].id \in Ids /\ object[t][call[t].id] # None
          BY <1>0, <1>6, <4>1 DEF Delete, Calls, Inv, ThreadInv, CallInv, Makes,
             TypeOK, Call
        <4>3. object[t][call[t].id] \in Row
          BY <1>0, <4>2 DEF TypeOK
        <4>4. object'[t][call[t].id].deleted
          BY <1>0, <3>2, <4>2, <4>3 DEF TypeOK, Row
        <4> QED
          BY <1>0, <3>2, <4>4 DEF TypeOK, Live
      <3> QED
        BY <2>1, <3>1, <3>2
    <2>3. \A u \in Threads : pc'[u] \in {"copying", "closing"} =>
            /\ pc[u] \in {"copying", "closing"} /\ place'[u] = place[u]
            /\ Mine(u)' = Mine(u)
      BY <1>0, <2>1 DEF Over, TypeOK, Mine
    <2> QED
      BY <2>1, <2>2, <2>3, PlacesStay
  <1>7. ASSUME NEW t \in Threads, CreateFile(t) \/ Copy(t) PROVE PlaceInv'
    <2>1. /\ Makes(t) /\ call[t].op = "store" /\ call[t] \in Call
          /\ call[t].name = call[t].id /\ FileInv(t)
          /\ pc[t] = "locating" => Mine(t) # None
          /\ Mine(t) \in Row \cup {None}
      <3>1. pc[t] \in {"locating", "copying"} /\ call[t].op = "store"
        BY <1>7 DEF CreateFile, Copy, GoTo, Inv, ThreadInv, CallInv
      <3>2. Makes(t) /\ MakerInv(t) /\ FileInv(t)
        BY <3>1 DEF Inv, ThreadInv, CallInv, Ending
      <3>3. call[t] \in Call /\ call[t].id \in Ids
        BY <3>2, MakerFacts
      <3>4. Mine(t) \in Row \cup {None}
        BY <1>0, <3>3 DEF TypeOK, Mine
      <3> QED
        BY <3>1, <3>2, <3>3, <3>4 DEF MakerInv, Ending
    <2>2. UNCHANGED <<rows, object, call>> /\ \A u \in Threads : Mine(u)' = Mine(u)
      BY <1>7 DEF CreateFile, Copy, database, session, Mine
    <2>3. \A d \in Dirs, n \in Names : files[d][n] = "whole" => files'[d][n] = "whole"
      <3>1. CASE CreateFile(t)
        <4>1. \A d \in Dirs : files[d][call[t].name] # "whole"
          BY <2>1, <3>1 DEF FileInv, CreateFile, GoTo
        <4> QED
          BY <1>0, <3>1, <4>1 DEF CreateFile, TypeOK
      <3>2. CASE Copy(t)
        BY <1>0, <3>2 DEF Copy, TypeOK
      <3> QED
        BY <1>7, <3>1, <3>2
    <2>4. \A u \in Threads \ {t} : pc'[u] = pc[u] /\ place'[u] = place[u]
      BY <1>0, <1>7 DEF CreateFile, Copy, GoTo, TypeOK
    <2>5. \/ pc[t] \in {"copying", "closing"} /\ place'[t] = place[t]
          \/ /\ Slot(Mine(t).number) \in 1..Len(Configured)
             /\ place'[t] = Configured[Slot(Mine(t).number)]
      <3>1. CASE CreateFile(t)
        <4>1. Found(Mine(t)) /\ Mine(t) \in Row /\ place'[t] = Dir(Mine(t))
          BY <1>0, <2>1, <3>1 DEF CreateFile, GoTo, TypeOK
        <4> QED
          BY <1>0, <4>1, FoundPlace
      <3>2. CASE Copy(t)
        BY <3>2 DEF Copy, GoTo
      <3> QED
        BY <1>7, <3>1, <3>2
    <2>6. \A u \in Threads : pc'[u] \in {"copying", "closing"} =>
            \/ pc[u] \in {"copying", "closing"} /\ place'[u] = place[u]
            \/ /\ Slot(Mine(u)'.number) \in 1..Len(Configured)
               /\ place'[u] = Configured[Slot(Mine(u)'.number)]
      BY <2>2, <2>4, <2>5
    <2> QED
      BY <2>2, <2>3, <2>6, PlacesStay
  <1>8. ASSUME NEW t \in Threads, Store(t) \/ Register(t) PROVE PlaceInv'
    <2>1. /\ UNCHANGED <<rows, files>> /\ Over(t)
          /\ object' = [object EXCEPT ![t][call[t].id].deleted = FALSE]
      BY <1>8 DEF Store, Register, Return, database
    <2>2. /\ Makes(t) /\ call[t] \in Call /\ call[t].id \in Ids
          /\ Mine(t) \in Row /\ Mine(t).name = call[t].name
      <3>1. pc[t] \in Ending /\ Makes(t) /\ MakerInv(t)
        BY <1>8 DEF Store, Register, Inv, ThreadInv, CallInv, Ending
      <3>2. call[t] \in Call /\ call[t].id \in Ids
        BY <3>1, MakerFacts
      <3>3. Mine(t) \in Row \cup {None}
        BY <1>0, <3>2 DEF TypeOK, Mine
      <3> QED
        BY <3>1, <3>2, <3>3 DEF MakerInv
    <2>3. HasBits(Mine(t))
      <3>1. CASE Store(t)
        <4>1. /\ pc[t] = "closing" /\ call[t].op = "store" /\ place[t] \in Dirs
              /\ FileInv(t) /\ MakerInv(t)
          BY <3>1 DEF Store, Inv, ThreadInv, CallInv
        <4>2. call[t].name = call[t].id /\ files[place[t]][call[t].id] = "whole"
          BY <2>2, <4>1 DEF FileInv, MakerInv
        <4>3. /\ Slot(Mine(t).number) \in 1..Len(Configured)
              /\ place[t] = Configured[Slot(Mine(t).number)]
          BY <4>1 DEF PlaceInv
        <4> QED
          BY <2>2, <4>2, <4>3 DEF HasBits
      <3>2. CASE Register(t)
        BY <1>0, <2>2, <3>2, FoundPlace DEF Register, HasBits
      <3> QED
        BY <1>8, <3>1, <3>2
    <2>4. /\ object'[t][call[t].id].number = Mine(t).number
          /\ object'[t][call[t].id].name = Mine(t).name
      BY <1>0, <2>1, <2>2 DEF Mine, TypeOK, Row
    <2>5. \A u \in Threads, i \in Ids :
            Live(object'[u][i]) => object'[u][i] = object[u][i] \/ HasBits(object[u][i])'
      <3>1. \A u \in Threads, i \in Ids :
              u # t \/ i # call[t].id => object'[u][i] = object[u][i]
        BY <1>0, <2>1 DEF TypeOK
      <3>2. \A i \in Ids : i = call[t].id => HasBits(object[t][i])'
        BY <2>1, <2>3, <2>4 DEF HasBits
      <3> QED
        BY <3>1, <3>2
    <2>6. \A u \in Threads : pc'[u] \in {"copying", "closing"} =>
            /\ pc[u] \in {"copying", "closing"} /\ place'[u] = place[u]
            /\ Mine(u)' = Mine(u)
      BY <1>0, <2>1 DEF Over, TypeOK, Mine
    <2> QED
      BY <2>1, <2>5, <2>6, PlacesStay
  <1>9. ASSUME NEW t \in Threads, NEW i \in Ids, Load(t, i) PROVE PlaceInv'
    <2>1. /\ UNCHANGED <<rows, files, call, pc, place>>
          /\ object' = [object EXCEPT ![t][i] = rows[i]]
          /\ pc[t] = "idle"
      BY <1>9 DEF Load, database, control
    <2>2. \A u \in Threads, j \in Ids :
            object'[u][j] = object[u][j] \/ object'[u][j] = rows[j]
      BY <1>0, <2>1 DEF TypeOK
    <2>3. \A u \in Threads : pc[u] \in {"copying", "closing"} => Mine(u)' = Mine(u)
      BY <1>0, <2>1 DEF TypeOK, Mine
    <2> QED
      BY <2>1, <2>2, <2>3, PlacesStay
  <1>10. ASSUME NEW t \in Threads, Complete(t) \/ Abort(t) PROVE PlaceInv'
    <2>1. /\ UNCHANGED <<files, call, pc, place>>
          /\ object' = [object EXCEPT ![t] = NoObjects]
          /\ pc[t] = "idle"
      BY <1>10 DEF Complete, Abort, CloseSession, control
    <2>2. \A i \in Ids : \/ rows'[i] = rows[i]
                         \/ rows'[i] = object[t][i]
      BY <1>10 DEF Complete, Abort, database
    <2>3. \A u \in Threads, j \in Ids :
            object'[u][j] = object[u][j] \/ object'[u][j] = None
      BY <1>0, <2>1 DEF TypeOK, NoObjects
    <2>4. \A u \in Threads : pc[u] \in {"copying", "closing"} => Mine(u)' = Mine(u)
      BY <1>0, <2>1 DEF TypeOK, Mine
    <2> QED
      BY <2>1, <2>2, <2>3, <2>4, PlacesStay DEF Live
  <1>11. CASE Crash
    <2>1. /\ UNCHANGED <<rows, files>>
          /\ \A u \in Threads : pc'[u] = "idle"
          /\ \A u \in Threads, i \in Ids : object'[u][i] = None
      BY <1>11 DEF Crash, database, NoObjects
    <2> QED
      BY <2>1, PlacesStay DEF Live
  <1> QED
    BY <1>1, <1>3, <1>4, <1>5, <1>6, <1>7, <1>8, <1>9, <1>10, <1>11 DEF Next, InCall

\* As long as no two threads came first at the same time, the one that fills
\* the list does so after the field was set, and alone.
RaceInv ==
    ~raced =>
        /\ OneLister
        /\ \A t \in Threads : pc[t] = "assigning" => ~listed
        /\ \A t \in Threads : pc[t] = "listing" => listed

LEMMA RaceKept ==
    ASSUME Inv, RaceInv, [Next]_vars
    PROVE  RaceInv' /\ (raced => raced')
  <1> USE DEF RaceInv, OneLister, history
  <1>0. TypeOK
    BY DEF Inv
  <1>1. CASE /\ UNCHANGED <<raced, listed>>
             /\ \A u \in Threads : pc'[u] \in {"assigning", "listing"}
                                     => pc'[u] = pc[u]
    BY <1>1
  <1>2. CASE Crash
    BY <1>2 DEF Crash
  <1>3. ASSUME NEW t \in Threads, FindStores(t)
        PROVE  RaceInv' /\ (raced => raced')
    <2>1. /\ listed' = listed /\ (raced => raced')
          /\ ~raced' => ~raced /\ (listed \/ \A u \in Threads : pc[u] # "assigning")
          /\ pc'[t] = IF listed THEN "ready" ELSE "assigning"
          /\ \A u \in Threads \ {t} : pc'[u] = pc[u]
      BY <1>0, <1>3 DEF FindStores, GoTo, TypeOK, service
    <2> QED
      BY <2>1
  <1>4. ASSUME NEW t \in Threads, AssignStores(t)
        PROVE  RaceInv' /\ (raced => raced')
    <2>1. /\ listed' = TRUE /\ raced' = raced
          /\ pc[t] = "assigning" /\ pc'[t] = "listing"
          /\ \A u \in Threads \ {t} : pc'[u] = pc[u]
      BY <1>0, <1>4 DEF AssignStores, GoTo, TypeOK
    <2> QED
      BY <2>1
  <1>5. ASSUME NEW t \in Threads, AddStore(t)
        PROVE  RaceInv' /\ (raced => raced')
    BY <1>1, <1>5 DEF AddStore
  <1>6. ASSUME NEW t \in Threads,
               CreateFile(t) \/ Copy(t) \/ SaveNew(t) \/ Store(t) \/ Register(t)
                 \/ Throw(t) \/ InitThrows(t) \/ Retrieve(t) \/ Delete(t)
        PROVE  RaceInv' /\ (raced => raced')
    BY <1>0, <1>1, <1>6 DEF CreateFile, Copy, SaveNew, Store, Register, Throw,
       InitThrows, Retrieve, Delete, Return, Over, GoTo, TypeOK, service
  <1>7. ASSUME NEW t \in Threads, Complete(t) \/ Abort(t) \/ \E i \in Ids : Load(t, i)
        PROVE  RaceInv' /\ (raced => raced')
    BY <1>1, <1>7 DEF Complete, Abort, Load, service, control
  <1>8. ASSUME NEW t \in Threads, NEW c, Begin(t, c)
        PROVE  RaceInv' /\ (raced => raced')
    BY <1>0, <1>1, <1>8 DEF Begin, GoTo, TypeOK, service
  <1>9. ASSUME NEW t \in Threads, NEW i \in Ids,
                \/ BeginStore(t, i) \/ BeginOther(t, "retrieve", i)
                \/ BeginOther(t, "delete", i)
                \/ \E number \in 0..Len(Configured), path \in Paths :
                      BeginRegister(t, i, number, path)
         PROVE  RaceInv' /\ (raced => raced')
    BY <1>8, <1>9 DEF BeginStore, BeginRegister, BeginOther
  <1>10. CASE UNCHANGED vars
    BY <1>1, <1>10 DEF vars, service, control
  <1> QED
    BY <1>2, <1>3, <1>4, <1>5, <1>6, <1>7, <1>9, <1>10 DEF Next, InCall

\* What holds of the asset stores until two threads came first.
StoreInv == RaceInv /\ (~raced => ListInv /\ PlaceInv)

LEMMA StoresAreConfigured == Spec => []StoreInv
  <1>1. Init => StoreInv
    BY InitPlaces DEF Init, StoreInv, RaceInv, OneLister
  <1>2. Inv /\ StoreInv /\ [Next]_vars => StoreInv'
    BY RaceKept, ListKept, PlaceKept DEF StoreInv, RaceInv
  <1> QED
    BY <1>1, <1>2, Invariance, PTL DEF Spec

\* A row that is visible and live has all its bits where a process that reads
\* the configuration looks for them, for any number of threads, an init() that
\* throws half-way, failing stores, aborted sessions and crashes, unless two
\* threads found no list of asset stores at the same time.
THEOREM LiveRowsKeepBits == Spec => []LiveRowHasBits
  <1>1. StoreInv => LiveRowHasBits
    BY StorageAssumption
    DEF StoreInv, PlaceInv, HasBits, LiveRowHasBits, BitsStored, Whole
  <1> QED
    BY <1>1, StoresAreConfigured, PTL

\* Under the same condition, the bits a thread was given of a bitstream that is
\* live in its session are all there.
THEOREM ReadersGetWholeFiles == Spec => []ReadsWholeFiles
  <1>1. Inv /\ StoreInv => ReadsWholeFiles
    BY StorageAssumption
    DEF Inv, TypeOK, StoreInv, PlaceInv, HasBits, ReadsWholeFiles, Whole
  <1> QED
    BY <1>1, Invariance, StoresAreConfigured, PTL

\* With one thread there is no race: every live row has its bits.
THEOREM OneThreadKeepsBits ==
    ASSUME \A t, u \in Threads : t = u
    PROVE  Spec => []BitsStored
  <1>1. Init => ~raced
    BY DEF Init
  <1>2. ASSUME ~raced, [Next]_vars PROVE ~raced'
    <2>1. ASSUME NEW t \in Threads, FindStores(t) PROVE ~raced'
      BY <1>2, <2>1 DEF FindStores, GoTo
    <2>2. CASE ~\E t \in Threads : FindStores(t)
      <3>1. raced' = raced
        BY <1>2, <2>2 DEF Next, InCall, vars, history, AssignStores, AddStore,
           InitThrows, SaveNew, CreateFile, Copy, Store, Register, Return, Throw,
           Retrieve, Delete, Complete, Abort, BeginStore, BeginRegister,
           BeginOther, Begin, Load, Crash
      <3> QED
        BY <1>2, <3>1
    <2> QED
      BY <2>1, <2>2
  <1>3. ~raced /\ LiveRowHasBits => BitsStored
    BY DEF LiveRowHasBits
  <1> QED
    BY <1>1, <1>2, <1>3, LiveRowsKeepBits, PTL DEF Spec
-----------------------------------------------------------------------------
(* The threads, sessions and stores implement the promise.                 *)

Entries == [i \in Ids |-> Entry(rows[i])]
Stored == [n \in Names |-> Bits(n)]

\* What everybody sees of a row.
LEMMA EntryFacts ==
    ASSUME NEW row \in Row
    PROVE  /\ Entry(row) = [name |-> row.name, deleted |-> row.deleted]
           /\ Entry(row) \in Promise!Entry /\ Entry(row) # None
           /\ Entry(row).name = row.name /\ Entry(row).deleted = row.deleted
  <1>1. row # None /\ row.name \in Names /\ row.deleted \in BOOLEAN
    BY StorageAssumption DEF Row
  <1>2. Entry(row) = [name |-> row.name, deleted |-> row.deleted]
    BY <1>1 DEF Entry
  <1>3. Entry(row) \in [name : Names, deleted : BOOLEAN]
    BY <1>1, <1>2
  <1>4. Entry(row) # None
    BY <1>3, StorageAssumption
  <1> QED
    BY <1>2, <1>3, <1>4 DEF Promise!Entry

LEMMA DeletedEntry ==
    ASSUME NEW e \in Promise!Entry, NEW f \in Promise!Entry,
           f.name = e.name, f.deleted = TRUE
    PROVE  f = [e EXCEPT !.deleted = TRUE]
  BY DEF Promise!Entry

LEMMA EntriesType ==
    ASSUME NEW table \in [Ids -> Row \cup {None}]
    PROVE  [i \in Ids |-> Entry(table[i])] \in [Ids -> Promise!Entry \cup {None}]
  <1>1. \A i \in Ids : Entry(table[i]) \in Promise!Entry \cup {None}
    BY EntryFacts DEF Entry
  <1> QED
    BY <1>1

LEMMA StoredFacts ==
    ASSUME NEW n \in Names
    PROVE  /\ Stored[n] \in {"none", "part", "whole"}
           /\ Stored[n] = "whole" <=> Written(n)
  BY DEF Stored, Bits, Written

LEMMA PromiseInit == Init => Promise!Init
  <1> SUFFICES ASSUME Init PROVE Promise!Init
    OBVIOUS
  <1>1. Inv /\ TypeOK
    BY InitInv DEF Inv
  <1>2. Entries \in [Ids -> Promise!Entry \cup {None}]
    BY <1>1, EntriesType DEF TypeOK, Entries
  <1>3. Stored \in [Names -> {"none", "part", "whole"}]
    BY DEF Stored, Bits
  <1>4. ASSUME NEW i \in Ids, Entries[i] # None, ~Entries[i].deleted
        PROVE  Stored[Entries[i].name] = "whole"
    <2>1. rows[i] \in Row /\ Entries[i] = Entry(rows[i])
      BY <1>1, <1>4 DEF TypeOK, Entries, Entry
    <2>2. Entries[i].name = rows[i].name /\ ~rows[i].deleted /\ rows[i].name \in Names
      BY <1>4, <2>1, EntryFacts DEF Row
    <2>3. Written(rows[i].name)
      BY <1>1, <2>1, <2>2, StorageAssumption DEF Inv, DataInv, RowInv, Live
    <2> QED
      BY <2>2, <2>3, StoredFacts
  <1> QED
    BY <1>2, <1>3, <1>4 DEF Promise!Init, Promise!Whole, Entries, Stored

\* The file of a bitstream that is being stored has no row, and grows.
LEMMA WritesSeen ==
    ASSUME Inv, NEW t \in Threads, CreateFile(t) \/ Copy(t)
    PROVE  Promise!Write(call[t].id)
  <1> DEFINE k == call[t].id
  <1>1. pc[t] \in {"locating", "copying"} /\ call[t].op = "store"
    BY DEF CreateFile, Copy, GoTo, Inv, ThreadInv, CallInv
  <1>2. Makes(t) /\ MakerInv(t) /\ FileInv(t) /\ CallInv(t) /\ TypeOK
    BY <1>1 DEF Inv, ThreadInv, CallInv, Ending
  <1>3. /\ k \in Ids /\ k \in Names /\ rows[k] = None /\ call[t].name = k
        /\ k \notin Paths
    BY <1>1, <1>2, MakerFacts, StorageAssumption DEF MakerInv, Names
  <1>4. \A i \in Ids : rows[i] # None => rows[i].name # k
    BY <1>3 DEF Inv, DataInv, RowInv
  <1>5. \A i \in Ids : Entries[i] # None => Entries[i].name # k
    <2> SUFFICES ASSUME NEW i \in Ids, Entries[i] # None PROVE Entries[i].name # k
      OBVIOUS
    <2>1. rows[i] \in Row /\ Entries[i] = Entry(rows[i])
      BY <1>2 DEF TypeOK, Entries, Entry
    <2> QED
      BY <1>4, <2>1, StorageAssumption, EntryFacts
  <1>6. \A d \in Dirs : files[d][k] # "whole"
    BY <1>1, <1>2 DEF FileInv
  <1>7. Stored[k] # "whole"
    BY <1>3, <1>6, StoredFacts DEF Written
  <1>8. PICK d \in Dirs, b \in {"part", "whole"} : files' = [files EXCEPT ![d][k] = b]
    <2>1. CASE CreateFile(t)
      <3>1. Found(Mine(t)) /\ Mine(t) # None /\ Mine(t) \in Row \cup {None}
        BY <1>2, <1>3, <2>1 DEF CreateFile, GoTo, MakerInv, Ending, TypeOK, Mine
      <3>2. Dir(Mine(t)) \in Dirs
        BY <1>2, <3>1, FoundDir
      <3> QED
        BY <1>3, <2>1, <3>2 DEF CreateFile
    <2>2. CASE Copy(t)
      BY <1>2, <1>3, <2>2 DEF Copy, GoTo, CallInv
    <2> QED
      BY <2>1, <2>2
  <1>9. files'[d][k] = b /\ \A e \in Dirs \ {d} : files'[e][k] = files[e][k]
    BY <1>2, <1>3, <1>8 DEF TypeOK
  <1>10. \A e \in Dirs, n \in Names \ {k} : files'[e][n] = files[e][n]
    BY <1>2, <1>3, <1>8 DEF TypeOK
  <1>11. \A n \in Names : Stored'[n] = IF n = k THEN b ELSE Stored[n]
    <2>1. Stored'[k] = b
      BY <1>3, <1>6, <1>9 DEF Stored, Bits
    <2>2. ASSUME NEW n \in Names \ {k} PROVE Stored'[n] = Stored[n]
      BY <1>10 DEF Stored, Bits
    <2> QED
      BY <2>1, <2>2
  <1>12. Stored' = [Stored EXCEPT ![k] = b]
    BY <1>11 DEF Stored
  <1>13. Entries' = Entries
    BY DEF CreateFile, Copy, database, Entries
  <1>14. /\ \A i \in Ids : Entries[i] # None /\ Entries[i].name = k => Entries[i].deleted
         /\ Stored[k] # "whole"
         /\ \E c \in {"part", "whole"} : Stored' = [Stored EXCEPT ![k] = c]
         /\ Entries' = Entries
    BY <1>5, <1>7, <1>12, <1>13
  <1> QED
    BY <1>14 DEF Promise!Write, Entries, Stored

\* A session that is completed is one commit of the promise.
LEMMA CommitSeen ==
    ASSUME Inv, NEW t \in Threads, Complete(t)
    PROVE  Promise!Commit
  <1>1. TypeOK /\ files' = files /\ rows' \in [Ids -> Row \cup {None}]
    BY CompleteFacts DEF Inv, Complete
  <1>2. Stored' = Stored
    BY <1>1 DEF Stored, Bits
  <1>3. Entries' = [i \in Ids |-> Entry(rows'[i])]
    BY DEF Entries, Entry
  <1>4. Entries' \in [Ids -> Promise!Entry \cup {None}]
    BY <1>1, <1>3, EntriesType
  <1>5. ASSUME NEW i \in Ids
        PROVE  \/ Entries'[i] = Entries[i]
               \/ /\ Entries[i] = None /\ Entries'[i] \in Promise!Entry
                  /\ Entries'[i].deleted \/ Stored[Entries'[i].name] = "whole"
               \/ Entries[i] # None /\ Entries'[i] = [Entries[i] EXCEPT !.deleted = TRUE]
    <2>1. Entries[i] = Entry(rows[i]) /\ Entries'[i] = Entry(rows'[i])
      BY <1>3 DEF Entries
    <2>2. rows[i] \in Row \cup {None} /\ rows'[i] \in Row \cup {None}
      BY <1>1 DEF TypeOK
    <2>3. CASE rows'[i] = rows[i]
      BY <2>1, <2>3
    <2>4. CASE rows'[i] # rows[i] /\ rows[i] = None
      <3>1. rows'[i] \in Row /\ i \in pending[t] /\ ObjectInv(t, i) /\ rows'[i] = object[t][i]
        BY <2>2, <2>4, CompleteFacts
      <3>2. rows'[i].deleted \/ Written(rows'[i].name)
        BY <3>1, StorageAssumption DEF ObjectInv
      <3>3. rows'[i].name \in Names
        BY <3>1 DEF Row
      <3>4. Entries'[i].deleted \/ Stored[Entries'[i].name] = "whole"
        BY <2>1, <3>1, <3>2, <3>3, EntryFacts, StoredFacts
      <3> QED
        BY <2>1, <2>4, <3>1, <3>4, EntryFacts DEF Entry
    <2>5. CASE rows'[i] # rows[i] /\ rows[i] # None
      <3>1. /\ rows[i] \in Row /\ rows'[i] \in Row
            /\ rows'[i].name = rows[i].name /\ rows'[i].deleted
        BY <2>2, <2>5, CompleteFacts
      <3>2. rows'[i].deleted = TRUE
        BY <3>1 DEF Row
      <3>3. /\ Entries[i] \in Promise!Entry /\ Entries'[i] \in Promise!Entry
            /\ Entries[i] # None
            /\ Entries'[i].name = Entries[i].name /\ Entries'[i].deleted = TRUE
        BY <2>1, <3>1, <3>2, EntryFacts
      <3> QED
        BY <3>3, DeletedEntry
    <2> QED
      BY <2>3, <2>4, <2>5
  <1> QED
    BY <1>2, <1>4, <1>5
    DEF Promise!Commit, Promise!Successor, Promise!Whole, Entries, Stored

LEMMA PromiseStep ==
    Inv /\ [Next]_vars =>
        [Promise!Next]_<<[i \in Ids |-> Entry(rows[i])], [n \in Names |-> Bits(n)]>>
  <1> SUFFICES ASSUME Inv, [Next]_vars
               PROVE  Promise!Next \/ UNCHANGED <<Entries, Stored>>
    BY DEF Entries, Stored
  <1>1. CASE UNCHANGED <<rows, files>>
    BY <1>1 DEF Entries, Stored, Entry, Bits
  <1>2. CASE \E t \in Threads : CreateFile(t) \/ Copy(t)
    <2>1. PICK t \in Threads : CreateFile(t) \/ Copy(t)
      BY <1>2
    <2>2. Promise!Write(call[t].id)
      BY <2>1, WritesSeen
    <2>3. call[t].op = "store" /\ call[t] # None
      BY <2>1 DEF CreateFile, Copy, GoTo, Inv, ThreadInv, CallInv, Ending, Makes
    <2>4. call[t].id \in Names
      BY <2>3 DEF Inv, TypeOK, Call, Names
    <2> QED
      BY <2>2, <2>4 DEF Promise!Next
  <1>3. CASE \E t \in Threads : Complete(t)
    BY <1>3, CommitSeen DEF Promise!Next
  <1>4. Crash \/ (\E t \in Threads : Abort(t)) \/ UNCHANGED vars
          => UNCHANGED <<rows, files>>
    BY DEF Crash, Abort, vars, database
  <1>5. ASSUME NEW t \in Threads,
               \/ FindStores(t) \/ AssignStores(t) \/ AddStore(t)
               \/ InitThrows(t) \/ SaveNew(t) \/ Throw(t) \/ Retrieve(t)
               \/ Delete(t) \/ Store(t) \/ Register(t)
        PROVE  UNCHANGED <<rows, files>>
    BY <1>5 DEF FindStores, AssignStores, AddStore, InitThrows, SaveNew, Throw,
       Retrieve, Delete, Store, Register, Return, database
  <1>6. ASSUME NEW t \in Threads, NEW i \in Ids,
               \/ BeginStore(t, i) \/ BeginOther(t, "retrieve", i)
               \/ BeginOther(t, "delete", i) \/ Load(t, i)
               \/ \E number \in 0..Len(Configured), path \in Paths :
                     BeginRegister(t, i, number, path)
        PROVE  UNCHANGED <<rows, files>>
    BY <1>6 DEF BeginStore, BeginOther, BeginRegister, Begin, Load, database
  <1> QED
    BY <1>1, <1>2, <1>3, <1>4, <1>5, <1>6 DEF Next, InCall

\* Sessions, asset stores, failing saves, crashes and the race of init()
\* implement the promise: bits are written before a row is live, a live row
\* only becomes deleted, and what is deleted never comes back.
THEOREM StoragePromiseKept == Spec => PromiseSpec
  BY PromiseInit, PromiseStep, Invariance, PTL DEF Spec, PromiseSpec, Promise!Spec
=============================================================================
