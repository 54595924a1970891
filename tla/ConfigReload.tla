---------------------------- MODULE ConfigReload ----------------------------
(***************************************************************************)
(* One configuration file and everything that keeps it and its copies      *)
(* alike: the PropertiesConfiguration in memory, which saves every change  *)
(* made through the API (auto-save), the ConfigurationReloader with the    *)
(* change handlers of each key and the value it last saw, and the          *)
(* ConfigurationChangeLookup thread, which watches the directory and lets  *)
(* the reloader check the file.                                            *)
(*                                                                         *)
(* check() and its handlers run under the lock on `lookups', which         *)
(* registering and unregistering take too; setProperty, addProperty and    *)
(* removeProperty do not take it and come between any two steps of it.     *)
(*                                                                         *)
(* PropertiesConfiguration is a library, modelled from how it is used.     *)
(* Its setters and getters take one lock: a store is a change of memory    *)
(* and, if auto-save is on by then, a write of all of memory.  refresh()   *)
(* takes no lock: it turns auto-save off, empties memory, adds what the    *)
(* file holds to what is in memory, and turns auto-save on again.          *)
(***************************************************************************)
(* Of the other files of the directory only that their events share the    *)
(* list of polled events is modelled.  A file is read and written in one   *)
(* step, and the test of addProperty and removeProperty is one step with   *)
(* the change of memory.                                                   *)
(***************************************************************************)
EXTENDS Naturals, Sequences, Functions

CONSTANTS
    Keys,             \* the keys of the file
    Texts,            \* the values a line of the file can give a key
    Many,             \* several values of one key, whichever they are
    Null,             \* no value: the key is not there
    Handlers,         \* the change handlers
    InitialHandlers,  \* the list of those registered at the start, for every key
    Throwing,         \* those that may throw a RuntimeException
    ApiKeys,          \* the keys the program itself stores
    ApiKinds,         \* the kinds of values it stores
    Unreadable,       \* whether loading the file or watching it may fail
    OthersBreak,      \* whether an event of another file may end the loop
    MaxWatches,       \* WatchServices the process can make; none is closed
    MaxEdits,         \* bound: edits of the file and stores
    MaxStops          \* bound: calls of stop() on the reloader service

ASSUME ConfigReloadAssumption ==
    /\ Null \notin Texts /\ Many \notin Texts /\ Many # Null
    /\ Null \notin [kind : {"text", "object", "list"}, text : Texts \cup {Many}]
    /\ InitialHandlers \in Seq(Handlers) /\ IsInjective(InitialHandlers)
    /\ Throwing \subseteq Handlers
    /\ Keys # {} /\ ApiKeys \subseteq Keys
    /\ ApiKinds \subseteq {"text", "object"}
    /\ Unreadable \in BOOLEAN /\ OthersBreak \in BOOLEAN
    /\ MaxWatches \in Nat
    /\ MaxEdits \in Nat /\ MaxStops \in Nat

VARIABLES
    file,         \* the text of each key in the file
    mem,          \* the value of each key in memory
    saver,        \* the store under way: memory "stored", "saving" the file
    old,          \* ConfigurationReloader.oldValues
    handlers,     \* ConfigurationReloader.handlers, <<>> for an absent list
    watcher,      \* where ConfigurationChangeLookup.run() is
    watches,      \* the WatchServices made so far
    queued,       \* the events waiting in the current WatchService
    batch,        \* the events of pollEvents() still to be handled
    todo,         \* the keys check() has still to look at
    look,         \* the key check() looks at, the value it read for it, the
                  \* one it tells the handlers and the next handler's place
    interrupted,  \* the thread's interrupt status
    told,         \* history: the value a handler was last told of, or found
    removed,      \* history: the handlers that were unregistered
    unseen,       \* history: a change of the file no queued event tells of
    unsaved,      \* history: keys stored since memory was emptied or written
    edits, stops  \* counters for the bounds

reloader == <<old, handlers, told, removed>>
checking == <<batch, todo, look>>
counters == <<edits, stops>>
store == <<file, mem, saver, unsaved>>
vars == <<store, reloader, watcher, watches, queued, checking, interrupted,
          unseen, counters>>

\* An object is what the program stored, a Boolean or an Integer; what is
\* loaded from the file is text, or a list of the values of a key that has
\* more than one.
Value == [kind : {"text", "object", "list"}, text : Texts \cup {Many}]
Loaded(t) ==
    IF t = Null THEN Null
    ELSE [kind |-> IF t = Many THEN "list" ELSE "text", text |-> t]
Saved(v) == IF v = Null THEN Null ELSE v.text

\* load() adds: a value stored since memory was emptied stays beside it.
Added(v, t) ==
    IF v = Null THEN Loaded(t) ELSE IF t = Null THEN v ELSE Loaded(Many)

TypeOK ==
    /\ file \in [Keys -> Texts \cup {Many, Null}]
    /\ mem \in [Keys -> Value \cup {Null}]
    /\ saver \in {"idle", "stored", "saving"}
    /\ old \in [Keys -> Value \cup {Null}]
    /\ handlers \in [Keys -> Seq(Handlers)]
    /\ watcher \in {"outside", "watching", "polled", "clearing", "cleared",
                    "checking", "compared", "firing"}
    /\ watches \in 0..MaxWatches
    /\ queued \in Nat /\ batch \in Nat
    /\ todo \in SUBSET Keys
    /\ look \in [key : Keys, value : Value \cup {Null},
                 info : Value \cup {Null}, at : Nat \ {0}]
    /\ interrupted \in BOOLEAN
    /\ told \in [Handlers -> [Keys -> Value \cup {Null}]]
    /\ removed \in SUBSET (Handlers \X Keys)
    /\ unseen \in BOOLEAN
    /\ unsaved \in SUBSET Keys
    /\ edits \in 0..MaxEdits /\ stops \in 0..MaxStops

Init ==
    /\ file \in [Keys -> Texts \cup {Null}]
    /\ mem = [k \in Keys |-> Loaded(file[k])]
    /\ old = mem
    /\ saver = "idle"
    /\ handlers = [k \in Keys |-> InitialHandlers]
    /\ watcher = "outside" /\ watches = 0
    /\ queued = 0 /\ batch = 0
    /\ todo = {}
    /\ look = [key |-> CHOOSE k \in Keys : TRUE, value |-> Null,
               info |-> Null, at |-> 1]
    /\ interrupted = FALSE
    /\ told = [h \in Handlers |-> mem]
    /\ removed = {}
    /\ unseen = FALSE
    /\ unsaved = {}
    /\ edits = 0 /\ stops = 0

-----------------------------------------------------------------------------
(* Changes of the file.                                                    *)

\* The directory changes: the current WatchService gets an event, and if the
\* thread has none at this moment nobody is told.
FileChanged ==
    /\ IF watcher = "watching" THEN queued' = queued + 1 /\ UNCHANGED unseen
       ELSE unseen' = TRUE /\ UNCHANGED queued
    /\ UNCHANGED <<reloader, watcher, watches, checking, interrupted, stops>>

\* An administrator edits a line.
Edit(k, t) ==
    /\ edits < MaxEdits
    /\ edits' = edits + 1
    /\ file' = [file EXCEPT ![k] = t]
    /\ UNCHANGED <<mem, saver, unsaved>>
    /\ FileChanged

\* A value is stored in memory, or none.
Store(k, v) ==
    /\ saver = "idle"
    /\ edits < MaxEdits
    /\ edits' = edits + 1
    /\ mem' = [mem EXCEPT ![k] = v]
    /\ saver' = "stored"
    /\ unsaved' = unsaved \cup {k}
    /\ UNCHANGED <<file, reloader, watcher, watches, queued, checking,
                   interrupted, unseen, stops>>

SetProperty(k, v) == Store(k, v)
AddProperty(k, v) == mem[k] = Null /\ Store(k, v)
RemoveProperty(k) == mem[k] # Null /\ Store(k, Null)

\* Auto-save: a refresh turns it off while it empties and fills memory.
AutoSave ==
    /\ saver = "stored"
    /\ saver' = IF watcher \in {"clearing", "cleared"} THEN "idle" ELSE "saving"
    /\ UNCHANGED <<file, mem, unsaved, reloader, watcher, watches, queued,
                   checking, interrupted, unseen, counters>>

\* All of memory is written, as it is by now.
Save ==
    /\ saver = "saving"
    /\ saver' = "idle"
    /\ file' = [k \in Keys |-> Saved(mem[k])]
    /\ unsaved' = {}
    /\ UNCHANGED <<mem, edits>>
    /\ FileChanged

Saving == AutoSave \/ Save

-----------------------------------------------------------------------------
(* The directory thread and ConfigurationReloader.check().                 *)

\* Each turn of the loop makes a WatchService of its own and closes none;
\* when no more can be made, the loop goes round without doing anything.
Watch ==
    /\ watcher = "outside"
    /\ watches < MaxWatches
    /\ watches' = watches + 1
    /\ watcher' = "watching"
    /\ queued' = 0
    /\ UNCHANGED <<store, reloader, checking, interrupted, unseen, counters>>

\* The directory cannot be registered: the exception is logged.
RegisterFails ==
    /\ Unreadable
    /\ watcher = "outside"
    /\ watches < MaxWatches
    /\ watches' = watches + 1
    /\ UNCHANGED <<store, reloader, watcher, queued, checking, interrupted,
                   unseen, counters>>

\* Fault: the events are polled and not handled.
PollNothing ==
    /\ watcher = "watching" /\ ~interrupted /\ queued > 0
    /\ watcher' = "polled"
    /\ queued' = 0
    /\ UNCHANGED <<store, watches, reloader, checking, interrupted, unseen,
                   counters>>

\* take() and pollEvents().
Poll ==
    /\ watcher = "watching" /\ ~interrupted /\ queued > 0
    /\ watcher' = "polled"
    /\ batch' = queued
    /\ queued' = 0
    /\ UNCHANGED <<store, watches, reloader, todo, look, interrupted, unseen,
                   counters>>

\* take() in an interrupted thread throws.  The loop catches the exception
\* and makes a new WatchService: what was queued is gone.
TakeInterrupted ==
    /\ watcher = "watching" /\ interrupted
    /\ watcher' = "outside"
    /\ interrupted' = FALSE
    /\ unseen' = (unseen \/ queued > 0)
    /\ queued' = 0
    /\ UNCHANGED <<store, watches, reloader, checking, counters>>

\* An event without a context (OVERFLOW) or an exception of another file's
\* handler leaves the loop over the events: those still to come are dropped.
LoopLeft ==
    /\ OthersBreak
    /\ watcher = "polled"
    /\ watcher' = "outside"
    /\ unseen' = (unseen \/ batch > 0)
    /\ batch' = 0
    /\ UNCHANGED <<store, watches, reloader, queued, todo, look, interrupted,
                   counters>>

\* check() takes the lock on `lookups` and refreshes: auto-save is off.
Refresh ==
    /\ watcher = "polled" /\ batch > 0
    /\ watcher' = "clearing"
    /\ batch' = batch - 1
    /\ UNCHANGED <<store, watches, reloader, queued, todo, look, interrupted,
                   unseen, counters>>

\* Fault: what the file holds is loaded on top of what is in memory.
ClearForgotten ==
    /\ watcher = "clearing"
    /\ watcher' = "cleared"
    /\ UNCHANGED <<store, watches, reloader, queued, checking, interrupted,
                   unseen, counters>>

Clear ==
    /\ watcher = "clearing"
    /\ watcher' = "cleared"
    /\ mem' = [k \in Keys |-> Null]
    /\ unsaved' = {}
    /\ UNCHANGED <<file, saver, watches, reloader, queued, checking,
                   interrupted, unseen, counters>>

\* The file is loaded, or an exception is logged; auto-save is on again, and
\* the keys with handlers are looked at.
Load ==
    /\ watcher = "cleared"
    /\ \/ /\ mem' = [k \in Keys |-> Added(mem[k], file[k])]
          /\ unseen' = FALSE
       \/ /\ Unreadable
          /\ unseen' = TRUE
          /\ UNCHANGED mem
    /\ watcher' = "checking"
    /\ todo' = {k \in Keys : handlers[k] # <<>>}
    /\ UNCHANGED <<file, saver, unsaved, watches, reloader, queued, batch,
                   look, interrupted, counters>>

\* Fault: a key that is added or removed has no type to compare.
SameTypeOfBoth(v, w) == v # Null /\ w # Null /\ v.kind = w.kind

SameType(v, w) == v # Null /\ w # Null => v.kind = w.kind

\* check() reads the value of a key and compares it with the old one.
Compare(k) ==
    /\ watcher = "checking" /\ k \in todo
    /\ saver = "idle"
    /\ IF SameType(old[k], mem[k]) /\ old[k] # mem[k]
       THEN /\ watcher' = "compared"
            /\ look' = [look EXCEPT !.key = k, !.value = mem[k]]
            /\ UNCHANGED <<old, todo>>
       ELSE /\ old' = [old EXCEPT ![k] = mem[k]]
            /\ todo' = todo \ {k}
            /\ UNCHANGED <<watcher, look>>
    /\ UNCHANGED <<store, watches, handlers, told, removed, queued, batch,
                   interrupted, unseen, counters>>

\* fireHandlers() reads the value again, for the event it will pass on.
FireHandlers ==
    /\ watcher = "compared"
    /\ saver = "idle"
    /\ watcher' = "firing"
    /\ look' = [look EXCEPT !.info = mem[look.key], !.at = 1]
    /\ UNCHANGED <<store, watches, reloader, queued, batch, todo, interrupted,
                   unseen, counters>>

\* Fault: the thread ends with an exception of a handler.
HandleUncaught ==
    /\ watcher = "firing"
    /\ look.at <= Len(handlers[look.key])
    /\ LET h == handlers[look.key][look.at] IN
          /\ told' = [told EXCEPT ![h][look.key] = look.info]
          /\ \/ look' = [look EXCEPT !.at = look.at + 1] /\ UNCHANGED watcher
             \/ h \in Throwing /\ watcher' = "ended" /\ UNCHANGED look
    /\ UNCHANGED <<store, watches, old, handlers, removed, queued, batch, todo,
                   interrupted, unseen, counters>>

\* The next handler is told.  An exception of it ends check() and leaves the
\* loop over the events; run() logs it and goes on with its outer loop.  What
\* events are left tell of changes this check has loaded already.
Handle ==
    /\ watcher = "firing"
    /\ look.at <= Len(handlers[look.key])
    /\ LET h == handlers[look.key][look.at] IN
          /\ told' = [told EXCEPT ![h][look.key] = look.info]
          /\ \/ /\ look' = [look EXCEPT !.at = look.at + 1]
                /\ UNCHANGED <<watcher, batch, todo>>
             \/ /\ h \in Throwing
                /\ watcher' = "outside"
                /\ batch' = 0 /\ todo' = {}
                /\ UNCHANGED look
    /\ UNCHANGED <<store, watches, old, handlers, removed, queued, interrupted,
                   unseen, counters>>

\* Fault: the old value is not replaced.
StoreOldValueForgotten ==
    /\ watcher = "firing"
    /\ look.at > Len(handlers[look.key])
    /\ todo' = todo \ {look.key}
    /\ watcher' = "checking"
    /\ UNCHANGED <<store, watches, reloader, queued, batch, look, interrupted,
                   unseen, counters>>

\* With all handlers told, the value read first becomes the old one.
StoreOldValue ==
    /\ watcher = "firing"
    /\ look.at > Len(handlers[look.key])
    /\ old' = [old EXCEPT ![look.key] = look.value]
    /\ todo' = todo \ {look.key}
    /\ watcher' = "checking"
    /\ UNCHANGED <<store, watches, handlers, told, removed, queued, batch, look,
                   interrupted, unseen, counters>>

EndCheck ==
    /\ watcher = "checking" /\ todo = {}
    /\ watcher' = "polled"
    /\ UNCHANGED <<store, watches, reloader, queued, checking, interrupted,
                   unseen, counters>>

EndBatch ==
    /\ watcher = "polled" /\ batch = 0
    /\ watcher' = "outside"
    /\ UNCHANGED <<store, watches, reloader, queued, checking, interrupted,
                   unseen, counters>>

Run ==
    \/ Watch \/ RegisterFails \/ Poll \/ TakeInterrupted \/ LoopLeft
    \/ Refresh \/ Clear \/ Load
    \/ \E k \in Keys : Compare(k)
    \/ FireHandlers \/ Handle \/ StoreOldValue \/ EndCheck \/ EndBatch

\* ConfigurationReloaderService.stop() only interrupts the thread.
StopService ==
    /\ stops < MaxStops
    /\ stops' = stops + 1
    /\ interrupted' = TRUE
    /\ UNCHANGED <<store, watches, reloader, watcher, queued, checking, unseen,
                   edits>>

-----------------------------------------------------------------------------
(* Registering and unregistering, under the lock check() holds.            *)

LookupsFree == watcher \in {"outside", "watching", "polled"}

\* Fault: the text of the file is remembered in place of the value.
RegisterHandlerText(h, k) ==
    /\ LookupsFree /\ saver = "idle"
    /\ h \notin Range(handlers[k])
    /\ handlers' = [handlers EXCEPT ![k] = Append(@, h)]
    /\ old' = [old EXCEPT ![k] = Saved(mem[k])]
    /\ told' = [told EXCEPT ![h][k] = mem[k]]
    /\ removed' = removed \ {<<h, k>>}
    /\ UNCHANGED <<store, watches, watcher, queued, checking, interrupted, unseen,
                   counters>>

\* addHandler() overwrites the old value other handlers still wait for.
\* Every caller registers a new object.
RegisterHandler(h, k) ==
    /\ LookupsFree /\ saver = "idle"
    /\ h \notin Range(handlers[k])
    /\ handlers' = [handlers EXCEPT ![k] = Append(@, h)]
    /\ old' = [old EXCEPT ![k] = mem[k]]
    /\ told' = [told EXCEPT ![h][k] = mem[k]]
    /\ removed' = removed \ {<<h, k>>}
    /\ UNCHANGED <<store, watches, watcher, queued, checking, interrupted, unseen,
                   counters>>

\* removeHandler() collects the places of the handler as Integer objects, and
\* List.remove(Object) looks for a handler equal to the Integer: none is
\* removed.
UnregisterHandler(h, k) ==
    /\ LookupsFree
    /\ handlers[k] # <<>>
    /\ removed' = removed \cup {<<h, k>>}
    /\ UNCHANGED <<store, watches, old, handlers, told, watcher, queued, checking,
                   interrupted, unseen, counters>>

-----------------------------------------------------------------------------
ApiValue == [kind : ApiKinds, text : Texts]

Next ==
    \/ Run \/ Saving \/ StopService
    \/ \E k \in ApiKeys :
          \/ \E v \in ApiValue : SetProperty(k, v) \/ AddProperty(k, v)
          \/ RemoveProperty(k)
    \/ \E k \in Keys :
          \/ \E t \in Texts \cup {Null} : Edit(k, t)
          \/ \E h \in Handlers : RegisterHandler(h, k)
                                 \/ UnregisterHandler(h, k)

Spec == Init /\ [][Next]_vars

\* No thread is left without the processor; a handler returns.
FairSpec == Spec /\ WF_vars(Run) /\ WF_vars(Saving)

-----------------------------------------------------------------------------
(* Properties.                                                             *)

AtRest == watcher = "watching" /\ queued = 0 /\ ~unseen /\ saver = "idle"

\* When the thread waits for events, has none queued and missed none, memory
\* and file agree, whatever was edited, stored and saved meanwhile and however
\* it fell together with a refresh; but for a key the program stored while a
\* refresh had auto-save off and memory empty.
MemoryFresh ==
    AtRest => \A k \in Keys \ unsaved : Saved(mem[k]) = file[k]

\* ... and the values check() compares with next are the current ones, so the
\* next change of a key is noticed.  An exception of a handler breaks this.
OldValuesCurrent ==
    AtRest => \A k \in Keys : handlers[k] # <<>> => old[k] = mem[k]

\* ... and every registered handler was told the value its key has now, or
\* found it when it was registered.  This needs handlers that do not throw
\* and a key the program does not store itself: between the two reads of a
\* value in check() and fireHandlers() a store may be noticed and not told,
\* addHandler() hides a stored value from the handlers already there, and a
\* value that changes its class is not reported.
HandlersTold ==
    AtRest => \A k \in Keys \ ApiKeys : \A h \in Range(handlers[k]) :
                 told[h][k] = mem[k]

\* A handler is called for changes only: where just an administrator changes
\* a key, what a handler is told of it is not what it was told before.
CalledForChanges ==
    [][watcher = "firing" /\ look.key \notin ApiKeys /\ look'.at > look.at
          => told' # told]_vars

\* "Removes an handler", says ConfigurationService of unregisterHandler: a
\* handler that was unregistered is not told of later changes.
RemovedHandlersSilent ==
    [][\A p \in removed : told'[p[1]][p[2]] # told[p[1]][p[2]] =>
          p \notin removed']_vars

\* A queued event of this file leads to a check: only an event of another
\* file that ends the loop, or an interrupt, keeps it from that.
EventsChecked ==
    watcher = "watching" /\ queued > 0 /\ stops = MaxStops /\ ~interrupted
       ~> watcher = "checking" \/ (watcher = "outside" /\ unseen)

\* The thread always comes back to wait for events while it can make a
\* WatchService: no exception of a handler and no interrupt ends its loop.
KeepsWatching == []<>(watcher = "watching" \/ watches = MaxWatches)

\* A handler is there "to deal with changed properties", says
\* ConfigurationService: sooner or later it knows what the file says.
ChangesDealtWith ==
    \A k \in Keys : <>[](edits = MaxEdits) =>
       <>[](\A h \in Range(handlers[k]) : Saved(told[h][k]) = file[k])
=============================================================================
