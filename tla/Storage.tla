-------------------------------- MODULE Storage --------------------------------
(***************************************************************************)
(* DSpaceStorageService: bitstreams as rows of a table and files of asset  *)
(* stores, used by threads that have a database session each.              *)
(*                                                                         *)
(* Hibernate and its database are modelled from how DSpaceDao uses them:   *)
(* the session of a thread begins a transaction and keeps the objects it   *)
(* was given or has loaded; save() only registers a new object and does    *)
(* nothing for a known one.  When the caller completes the transaction,    *)
(* the objects that are new or changed are written as they are then, all   *)
(* at once.  save() swallows every exception.                              *)
(*                                                                         *)
(* The list of asset stores is read on the first use, without a lock.      *)
(* Then init() reads assetstore.incoming with a getter that casts what the *)
(* file has, text or nothing, to int: the caller gets an exception when    *)
(* the list is complete, the later ones find the list, and new bitstreams  *)
(* go to store 0 whatever the property says.  That the file of the storage *)
(* module can be made and loaded is assumed.                               *)
(***************************************************************************)
EXTENDS Integers, Sequences, Functions

CONSTANTS
    Threads,      \* the threads that use the service
    Ids,          \* the bitstreams
    Old,          \* those that are there at the start
    Paths,        \* the names of files that can be registered
    Bundles,      \* the bundles, which may have a primary bitstream
    Dirs,         \* the directories of asset stores
    Configured,   \* the list of those in the configuration
    None,         \* a null reference
    SaveMayFail,  \* whether save() may fail
    MaxCrashes    \* bound: crashes of the process

\* A stored file is named by its generated key, here the bitstream itself.
Names == Ids \cup Paths
\* Store -1 is the default one; one number more than there are stores.
Numbers == -1..Len(Configured)
Row == [number : Numbers, name : Names, deleted : BOOLEAN]
Call == [op : {"store", "register", "retrieve", "delete"}, id : Ids,
         number : Numbers, name : Names]

ASSUME StorageAssumption ==
    /\ Old \subseteq Ids /\ Ids \cap Paths = {}
    /\ Configured \in Seq(Dirs) /\ Configured # <<>>
    /\ None \notin Ids /\ None \notin Dirs
    /\ None \notin Row /\ None \notin Call
    /\ None \notin [name : Names, deleted : BOOLEAN]
    /\ SaveMayFail \in BOOLEAN /\ MaxCrashes \in Nat

VARIABLES
    rows,       \* the committed rows of table bitstream
    primary,    \* the committed primary bitstream of each bundle
    files,      \* what each directory has of each file
    listed,     \* whether the field assetstores is set
    stores,     \* the list it refers to
    pc,         \* where a thread is in its call
    call,       \* the call, or None
    at,         \* the store init() reads next
    place,      \* the directory of the file store() writes
    object,     \* the objects of a thread's session
    pending,    \* those that will be written
    cleared,    \* the bundles of the session that lost their primary bitstream
    reading,    \* the bitstream whose bits a thread was given last
    used,       \* the keys generated so far
    failed,     \* history: the bitstreams store() or register() threw an
                \* exception for
    raced,      \* history: whether two threads came first at the same time
    crashes     \* counter for the bound

database == <<rows, primary>>
service == <<listed, stores>>
session == <<object, pending, cleared>>
control == <<pc, call, at, place>>
history == <<used, failed, raced>>
vars == <<database, files, service, control, session, reading, history,
          crashes>>

Slot(number) == IF number = -1 THEN 1 ELSE number + 1

TypeOK ==
    /\ rows \in [Ids -> Row \cup {None}]
    /\ primary \in [Bundles -> Ids \cup {None}]
    /\ files \in [Dirs -> [Names -> {"none", "part", "whole"}]]
    /\ listed \in BOOLEAN
    /\ stores \in Seq(Dirs)
    /\ pc \in [Threads -> {"idle", "finding", "assigning", "listing",
                           "ready", "locating", "copying", "closing"}]
    /\ call \in [Threads -> Call \cup {None}]
    /\ at \in [Threads -> 1..(Len(Configured) + 1)]
    /\ place \in [Threads -> Dirs \cup {None}]
    /\ object \in [Threads -> [Ids -> Row \cup {None}]]
    /\ pending \in [Threads -> SUBSET Ids]
    /\ cleared \in [Threads -> SUBSET Bundles]
    /\ reading \in [Threads -> Ids \cup {None}]
    /\ used \in SUBSET Ids
    /\ failed \in SUBSET Ids
    /\ raced \in BOOLEAN
    /\ crashes \in 0..MaxCrashes

NoObjects == [i \in Ids |-> None]

Init ==
    /\ \E number \in [Old -> -1..(Len(Configured) - 1)] :
          /\ rows = [i \in Ids |->
                       IF i \in Old
                       THEN [number |-> number[i], name |-> i, deleted |-> FALSE]
                       ELSE None]
          /\ \E present \in SUBSET (Range(Configured) \X Paths) :
                files = [d \in Dirs |-> [n \in Names |->
                    IF \/ <<d, n>> \in present
                       \/ n \in Old /\ d = Configured[Slot(number[n])]
                    THEN "whole" ELSE "none"]]
    /\ primary \in [Bundles -> Old \cup {None}]
    /\ listed = FALSE /\ stores = <<>>
    /\ pc = [t \in Threads |-> "idle"]
    /\ call = [t \in Threads |-> None]
    /\ at = [t \in Threads |-> 1]
    /\ place = [t \in Threads |-> None]
    /\ object = [t \in Threads |-> NoObjects]
    /\ pending = [t \in Threads |-> {}]
    /\ cleared = [t \in Threads |-> {}]
    /\ reading = [t \in Threads |-> None]
    /\ used = Old /\ failed = {} /\ raced = FALSE
    /\ crashes = 0

-----------------------------------------------------------------------------
(* Calls, and init(), with which each of them begins.                      *)

GoTo(t, from, to) ==
    /\ pc[t] = from
    /\ pc' = [pc EXCEPT ![t] = to]

\* The call is over, with a result or an exception.
Over(t) ==
    /\ pc' = [pc EXCEPT ![t] = "idle"]
    /\ call' = [call EXCEPT ![t] = None]
    /\ place' = [place EXCEPT ![t] = None]
    /\ UNCHANGED at

Begin(t, c) ==
    /\ GoTo(t, "idle", "finding")
    /\ call' = [call EXCEPT ![t] = c]
    /\ UNCHANGED <<database, files, service, at, place, session, reading,
                   failed, raced, crashes>>

\* store() and register() make a new bitstream; store() generates its key.
BeginStore(t, i) ==
    /\ i \notin used
    /\ used' = used \cup {i}
    /\ Begin(t, [op |-> "store", id |-> i, number |-> 0, name |-> i])
BeginRegister(t, i, number, path) ==
    /\ i \notin used
    /\ used' = used \cup {i}
    /\ Begin(t, [op |-> "register", id |-> i, number |-> number,
                 name |-> path])

\* retrieve() and delete() get a bitstream of the thread's session.
BeginOther(t, op, i) ==
    /\ object[t][i] # None
    /\ Begin(t, [op |-> op, id |-> i, number |-> 0, name |-> i])
    /\ UNCHANGED used

FindStores(t) ==
    /\ GoTo(t, "finding", IF listed THEN "ready" ELSE "assigning")
    /\ raced' = (raced \/ (~listed /\ \E u \in Threads : pc[u] = "assigning"))
    /\ UNCHANGED <<database, files, service, call, at, place, session,
                   reading, used, failed, crashes>>

\* The empty list is there for everybody to see.
AssignStores(t) ==
    /\ GoTo(t, "assigning", "listing")
    /\ listed' = TRUE
    /\ stores' = <<>>
    /\ at' = [at EXCEPT ![t] = 1]
    /\ UNCHANGED <<database, files, call, place, session, reading, history,
                   crashes>>

\* The next store is added to whichever list the field refers to; of two
\* threads that add at the same time, one may overwrite what the other added.
AddStore(t) ==
    /\ pc[t] = "listing" /\ at[t] <= Len(Configured)
    /\ at' = [at EXCEPT ![t] = @ + 1]
    /\ \/ stores' = Append(stores, Configured[at[t]])
       \/ (\E u \in Threads \ {t} : pc[u] = "listing") /\ UNCHANGED stores
    /\ UNCHANGED <<database, files, listed, pc, call, place, session, reading,
                   history, crashes>>

\* Reading a property throws, that of the incoming store always: the list
\* stays as it is.
InitThrows(t) ==
    /\ pc[t] = "listing"
    /\ failed' = failed \cup (IF call[t].op \in {"store", "register"}
                             THEN {call[t].id} ELSE {})
    /\ Over(t)
    /\ UNCHANGED <<database, files, service, session, reading, used, raced,
                   crashes>>

-----------------------------------------------------------------------------
(* getFile().                                                              *)

Found(row) == Slot(row.number) <= Len(stores)
Dir(row) == stores[Slot(row.number)]

-----------------------------------------------------------------------------
(* store() and register().                                                 *)

Calls(t, op) == pc[t] = "ready" /\ call[t].op = op

\* Fault: the stores are counted from one.
NewRowCountedFromOne(t) ==
    [number |-> call[t].number + 1, name |-> call[t].name, deleted |-> TRUE]

\* For store(), the call has the number in the field incoming, which is 0.
NewRow(t) ==
    [number |-> call[t].number, name |-> call[t].name, deleted |-> TRUE]

\* DSpaceDao.save(): the object is in the session's care, or the exception
\* is logged.
Save(t, i) ==
    \/ pending' = [pending EXCEPT ![t] = @ \cup {i}]
    \/ SaveMayFail /\ UNCHANGED pending

\* Fault: the new row is not marked as deleted.
SaveNewLive(t) ==
    /\ Calls(t, "store") \/ Calls(t, "register")
    /\ pc' = [pc EXCEPT ![t] = "locating"]
    /\ object' = [object EXCEPT ![t][call[t].id] =
                    [NewRow(t) EXCEPT !.deleted = FALSE]]
    /\ Save(t, call[t].id)
    /\ UNCHANGED <<database, files, service, call, at, place, cleared,
                   reading, history, crashes>>

\* The new row is marked as deleted, and saved.
SaveNew(t) ==
    /\ Calls(t, "store") \/ Calls(t, "register")
    /\ pc' = [pc EXCEPT ![t] = "locating"]
    /\ object' = [object EXCEPT ![t][call[t].id] = NewRow(t)]
    /\ Save(t, call[t].id)
    /\ UNCHANGED <<database, files, service, call, at, place, cleared,
                   reading, history, crashes>>

Mine(t) == object[t][call[t].id]

\* store() makes the file ...
CreateFile(t) ==
    /\ GoTo(t, "locating", "copying")
    /\ call[t].op = "store" /\ Found(Mine(t))
    /\ place' = [place EXCEPT ![t] = Dir(Mine(t))]
    /\ files' = [files EXCEPT ![Dir(Mine(t))][call[t].name] = "part"]
    /\ UNCHANGED <<database, service, call, at, session, reading, history,
                   crashes>>

\* Faults: the stream is not written to its end; the row is live before the
\* streams are closed.
CopyUnflushed(t) ==
    /\ GoTo(t, "copying", "closing")
    /\ UNCHANGED <<database, files, service, call, at, place, session,
                   reading, history, crashes>>
CopyLive(t) ==
    /\ GoTo(t, "copying", "closing")
    /\ files' = [files EXCEPT ![place[t]][call[t].name] = "whole"]
    /\ object' = [object EXCEPT ![t][call[t].id].deleted = FALSE]
    /\ UNCHANGED <<database, service, call, at, place, pending, cleared,
                   reading, history, crashes>>

\* ... copies the stream ...
Copy(t) ==
    /\ GoTo(t, "copying", "closing")
    /\ files' = [files EXCEPT ![place[t]][call[t].name] = "whole"]
    /\ UNCHANGED <<database, service, call, at, place, session, reading,
                   history, crashes>>

\* The row is live, and saved again.
Return(t) ==
    /\ object' = [object EXCEPT ![t][call[t].id].deleted = FALSE]
    /\ Save(t, call[t].id)
    /\ Over(t)
    /\ UNCHANGED <<database, files, service, cleared, reading, history, crashes>>

\* ... and returns when both streams are closed.
Store(t) ==
    /\ pc[t] = "closing"
    /\ Return(t)

\* register() reads the file to its end, for the checksum.
Register(t) ==
    /\ pc[t] = "locating" /\ call[t].op = "register"
    /\ Found(Mine(t)) /\ files[Dir(Mine(t))][call[t].name] = "whole"
    /\ Return(t)

\* An exception: there is no such store, or an error of input or output.
Throw(t) ==
    /\ pc[t] \in {"locating", "copying", "closing"}
    /\ failed' = failed \cup {call[t].id}
    /\ Over(t)
    /\ UNCHANGED <<database, files, service, session, reading, used, raced,
                   crashes>>

-----------------------------------------------------------------------------
(* retrieve() and delete().                                                *)

Retrieve(t) ==
    /\ Calls(t, "retrieve")
    /\ \/ /\ Found(Mine(t)) /\ files[Dir(Mine(t))][Mine(t).name] # "none"
          /\ reading' = [reading EXCEPT ![t] = call[t].id]
       \/ UNCHANGED reading
    /\ Over(t)
    /\ UNCHANGED <<database, files, service, session, history, crashes>>

\* Fault: bundles keep their primary bitstream.
DeleteKeepsPrimary(t) ==
    /\ Calls(t, "delete")
    /\ IF rows[call[t].id] = None THEN UNCHANGED session
       ELSE /\ pending' = [pending EXCEPT ![t] = @ \cup {call[t].id}]
            /\ object' = [object EXCEPT ![t][call[t].id].deleted = TRUE]
            /\ UNCHANGED cleared
    /\ Over(t)
    /\ UNCHANGED <<database, files, service, reading, history, crashes>>

\* delete() of a bitstream made in this session throws: it has no list of
\* bundles yet.
Delete(t) ==
    /\ Calls(t, "delete")
    /\ IF rows[call[t].id] = None THEN UNCHANGED session
       ELSE /\ cleared' = [cleared EXCEPT ![t] = @ \cup
                             {b \in Bundles : primary[b] = call[t].id}]
            /\ pending' = [pending EXCEPT ![t] = @ \cup {call[t].id}]
            /\ object' = [object EXCEPT ![t][call[t].id].deleted = TRUE]
    /\ Over(t)
    /\ UNCHANGED <<database, files, service, reading, history, crashes>>

-----------------------------------------------------------------------------
(* The session of a thread, between its calls, and the process.            *)

\* selectById(), of a row the session does not know yet.
Load(t, i) ==
    /\ pc[t] = "idle"
    /\ rows[i] # None /\ object[t][i] = None
    /\ object' = [object EXCEPT ![t][i] = rows[i]]
    /\ UNCHANGED <<database, files, service, control, pending, cleared,
                   reading, history, crashes>>

CloseSession(t) ==
    /\ object' = [object EXCEPT ![t] = NoObjects]
    /\ pending' = [pending EXCEPT ![t] = {}]
    /\ cleared' = [cleared EXCEPT ![t] = {}]
    /\ reading' = [reading EXCEPT ![t] = None]

\* The caller completes the transaction.
Complete(t) ==
    /\ pc[t] = "idle"
    /\ rows' = [i \in Ids |-> IF i \in pending[t] THEN object[t][i]
                              ELSE rows[i]]
    /\ primary' = [b \in Bundles |-> IF b \in cleared[t] THEN None
                                     ELSE primary[b]]
    /\ CloseSession(t)
    /\ UNCHANGED <<files, service, control, history, crashes>>

\* The caller aborts it, or completing it fails.
Abort(t) ==
    /\ pc[t] = "idle"
    /\ CloseSession(t)
    /\ UNCHANGED <<database, files, service, control, history, crashes>>

\* The process ends at any moment and is started again.
Crash ==
    /\ crashes < MaxCrashes
    /\ crashes' = crashes + 1
    /\ listed' = FALSE /\ stores' = <<>>
    /\ pc' = [t \in Threads |-> "idle"]
    /\ call' = [t \in Threads |-> None]
    /\ at' = [t \in Threads |-> 1]
    /\ place' = [t \in Threads |-> None]
    /\ object' = [t \in Threads |-> NoObjects]
    /\ pending' = [t \in Threads |-> {}]
    /\ cleared' = [t \in Threads |-> {}]
    /\ reading' = [t \in Threads |-> None]
    /\ UNCHANGED <<database, files, history>>

-----------------------------------------------------------------------------
InCall(t) ==
    \/ FindStores(t) \/ AssignStores(t) \/ AddStore(t) \/ InitThrows(t)
    \/ SaveNew(t) \/ CreateFile(t) \/ Copy(t) \/ Store(t) \/ Register(t)
    \/ Throw(t) \/ Retrieve(t) \/ Delete(t)

Next ==
    \/ Crash
    \/ \E t \in Threads :
          \/ InCall(t) \/ Complete(t) \/ Abort(t)
          \/ \E i \in Ids :
                \/ BeginStore(t, i) \/ Load(t, i)
                \/ BeginOther(t, "retrieve", i) \/ BeginOther(t, "delete", i)
                \/ \E number \in 0..Len(Configured), path \in Paths :
                      BeginRegister(t, i, number, path)

Spec == Init /\ [][Next]_vars

-----------------------------------------------------------------------------
(* Properties.                                                             *)

Live(row) == row # None /\ ~row.deleted

\* All the bits are where a process that reads the configuration looks for
\* them.
Whole(row) ==
    /\ Slot(row.number) <= Len(Configured)
    /\ files[Configured[Slot(row.number)]][row.name] = "whole"

\* A row that is visible and live has all its bits.
BitsStored == \A i \in Ids : Live(rows[i]) => Whole(rows[i])

\* It has, through failing stores, an init() that throws half-way, aborted
\* sessions and crashes, unless two threads read the configuration at the same
\* time: these may end up with one list in which stores come twice (init).
LiveRowHasBits == ~raced => BitsStored

\* The bits a thread was given of a bitstream that is live in its session are
\* all there: reading does not overtake the storing of the same bitstream by
\* another thread, nor by a process that crashed.  Of a bitstream that is not
\* live in the session nothing is said: retrieve() looks neither at the row nor
\* at its deleted flag, and hands out what there is.
ReadsWholeFiles ==
    \A t \in Threads :
        ~raced /\ reading[t] # None /\ Live(object[t][reading[t]])
            => Whole(object[t][reading[t]])

\* "If this method throws an exception ... metadata entries with the deleted
\* flag set", says StorageService of store(): no row becomes live for it,
\* whatever the caller does with its session afterwards.
FailureLeavesDeleted == \A i \in failed : ~Live(rows[i])

\* No bundle has a primary bitstream that is deleted.
PrimaryNeverDeleted ==
    \A b \in Bundles : primary[b] # None => Live(rows[primary[b]])

\* The threads, sessions and stores implement the promise of the service.
Entry(row) ==
    IF row = None THEN None ELSE [name |-> row.name, deleted |-> row.deleted]
Bits(n) ==
    IF \E d \in Dirs : files[d][n] = "whole" THEN "whole"
    ELSE IF \E d \in Dirs : files[d][n] = "part" THEN "part" ELSE "none"

Promise == INSTANCE StoragePromise
    WITH entry <- [i \in Ids |-> Entry(rows[i])],
         bits <- [n \in Names |-> Bits(n)]
PromiseSpec == Promise!Spec
=============================================================================
