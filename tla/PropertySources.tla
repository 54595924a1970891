--------------------------- MODULE PropertySources ---------------------------
(***************************************************************************)
(* DSpaceConfigurationService's search for the source of a module, which   *)
(* creates it on its first use: a PropertiesConfiguration with all of the  *)
(* module's file in memory, a reloader that will refresh it, and a place   *)
(* in Spring's list of property sources.  No lock is held from one of      *)
(* these steps to the next, so two threads may both find no source: each   *)
(* makes a configuration, the source placed last replaces the other one,   *)
(* and only the first reloader of a file is ever found.                    *)
(*                                                                         *)
(* A setting is there or not; its value does not matter.  Spring's list is *)
(* a LinkedList: a search that overlaps an addition may throw.  Two        *)
(* additions at the same moment, which could corrupt it, are left out.     *)
(* A store changes memory and then, if auto-save is on, writes the file; a *)
(* refresh turns auto-save off, empties memory and loads the file, if it   *)
(* can be loaded.  The source of DSpace's own module can always be made:   *)
(* without it no system is ever installed.                                 *)
(*                                                                         *)
(* These are the steps of one thread; who takes them, and what for, is in  *)
(* DatabaseSettings.                                                       *)
(***************************************************************************)
EXTENDS Naturals

CONSTANTS
    Users,     \* the threads
    Modules,   \* the modules, one file each
    Default,   \* the module of DSpace itself
    Settings,  \* the names of settings
    Nobody,    \* no thread
    Unreadable \* whether a file may fail to be loaded, or to be made

ASSUME PropertySourcesAssumption ==
    Default \in Modules /\ Nobody \notin Users /\ Unreadable \in BOOLEAN

VARIABLES
    files,    \* the settings in the file of each module
    made,     \* the threads that made a configuration of a module
    memory,   \* the settings in the memory of the configuration one made
    source,   \* whose configuration is the source of a module in the list
    watched,  \* whose configuration the module's reloader refreshes
    at,       \* where a thread is in getSource(), or in saving a store
    on,       \* for which module
    found,    \* and whose configuration it got
    changed,  \* the modules whose file changed since the last check
    reload,   \* where the refresh of a configuration is, or "no"
    reloaded, \* the module whose configuration is refreshed, or was last
    stored,   \* history: what was in a file when the process began or was
              \* saved by the program since, and not edited
    crossed,  \* history: the modules whose first use was crossed by another
              \* one, or whose file was edited with nobody watching it
    torn      \* history: the modules whose file could not be loaded once, or
              \* for which a store met a refresh

lists == <<source, watched>>
configurations == <<made, memory>>
places == <<at, on, found>>
refreshing == <<changed, reload, reloaded>>
settingsHistory == <<stored, crossed, torn>>
sourceVars == <<files, configurations, lists, places, refreshing, settingsHistory>>

SourcesTypeOK ==
    /\ files \in [Modules -> SUBSET Settings]
    /\ made \in [Modules -> SUBSET Users]
    /\ memory \in [Modules -> [Users -> SUBSET Settings]]
    /\ source \in [Modules -> Users \cup {Nobody}]
    /\ watched \in [Modules -> Users \cup {Nobody}]
    /\ at \in [Users -> {"idle", "creating", "registering", "placing", "using",
                     "saving"}]
    /\ on \in [Users -> Modules]
    /\ found \in [Users -> Users \cup {Nobody}]
    /\ changed \in SUBSET Modules
    /\ reload \in {"no", "clearing", "cleared", "loaded"}
    /\ reloaded \in Modules
    /\ stored \in [Modules -> SUBSET Settings]
    /\ crossed \in SUBSET Modules /\ torn \in SUBSET Modules

\* A process begins with the files and nothing else.
Begins ==
    /\ made = [m \in Modules |-> {}]
    /\ memory = [m \in Modules |-> [u \in Users |-> {}]]
    /\ source = [m \in Modules |-> Nobody]
    /\ watched = [m \in Modules |-> Nobody]
    /\ at = [u \in Users |-> "idle"]
    /\ on = [u \in Users |-> Default]
    /\ found = [u \in Users |-> Nobody]
    /\ changed = {} /\ reload = "no" /\ reloaded = Default
    /\ stored = files
    /\ crossed = {} /\ torn = {}

\* The same of the next state.
BeginsAgain ==
    /\ made' = [m \in Modules |-> {}]
    /\ memory' = [m \in Modules |-> [u \in Users |-> {}]]
    /\ source' = [m \in Modules |-> Nobody]
    /\ watched' = [m \in Modules |-> Nobody]
    /\ at' = [u \in Users |-> "idle"]
    /\ on' = [u \in Users |-> Default]
    /\ found' = [u \in Users |-> Nobody]
    /\ changed' = {} /\ reload' = "no" /\ reloaded' = Default
    /\ stored' = files'
    /\ crossed' = {} /\ torn' = {}

-----------------------------------------------------------------------------
(* getSource()                                                             *)

\* A search is over a list to which another thread is adding.
Overlaps(u) == \E v \in Users \ {u} : at[v] = "placing"

GoOn(u, place) == at' = [at EXCEPT ![u] = place]

\* The loop over the list finds the module's source, or none.
Search(u, m) ==
    /\ at[u] = "idle"
    /\ on' = [on EXCEPT ![u] = m]
    /\ found' = [found EXCEPT ![u] = source[m]]
    /\ GoOn(u, IF source[m] = Nobody THEN "creating" ELSE "using")
    /\ UNCHANGED <<files, configurations, lists, refreshing, settingsHistory>>

\* Fault: the configuration is made without its file.
CreateEmpty(u) ==
    LET m == on[u]
    IN  /\ at[u] = "creating"
        /\ made' = [made EXCEPT ![m] = @ \cup {u}]
        /\ memory' = [memory EXCEPT ![m][u] = {}]
        /\ crossed' = IF made[m] = {} THEN crossed ELSE crossed \cup {m}
        /\ GoOn(u, "registering")
        /\ UNCHANGED <<files, lists, on, found, refreshing, stored, torn>>

\* new DSpacePropertySource(): the file is made if it is not there and loaded.
Create(u) ==
    LET m == on[u]
    IN  /\ at[u] = "creating"
        /\ made' = [made EXCEPT ![m] = @ \cup {u}]
        /\ memory' = [memory EXCEPT ![m][u] = files[m]]
        /\ crossed' = IF made[m] = {} THEN crossed ELSE crossed \cup {m}
        /\ GoOn(u, "registering")
        /\ UNCHANGED <<files, lists, on, found, refreshing, stored, torn>>

\* It cannot be made or loaded: getSource() logs that and returns null.
CreateFails(u) ==
    /\ Unreadable
    /\ at[u] = "creating" /\ on[u] # Default
    /\ GoOn(u, "idle")
    /\ UNCHANGED <<files, configurations, lists, on, found, refreshing,
                   settingsHistory>>

\* addReloader(): looking for a reloader and adding one each take the lock
\* on `lookups', but of two that were added the first is the one that counts.
Register(u, lookupsFree) ==
    LET m == on[u]
    IN  /\ at[u] = "registering"
        /\ lookupsFree
        /\ watched' = [watched EXCEPT ![m] = IF @ = Nobody THEN u ELSE @]
        /\ GoOn(u, "placing")
        /\ UNCHANGED <<files, configurations, source, on, found, refreshing,
                       settingsHistory>>

\* The same by the services of a context that was refreshed: they have a
\* `lookups' of their own, which no thread reads.
RegisterUnwatched(u) ==
    /\ at[u] = "registering"
    /\ GoOn(u, "placing")
    /\ UNCHANGED <<files, configurations, lists, on, found, refreshing,
                   settingsHistory>>

\* addAfter(DEFAULT_MODULE, source) needs the source of that module.
CanPlace(u) == on[u] = Default \/ source[Default] # Nobody

\* addFirst() or addAfter(): a source of the same name is removed first.
Place(u) ==
    /\ at[u] = "placing"
    /\ CanPlace(u)
    /\ source' = [source EXCEPT ![on[u]] = u]
    /\ found' = [found EXCEPT ![u] = u]
    /\ GoOn(u, "using")
    /\ UNCHANGED <<files, configurations, watched, on, refreshing, settingsHistory>>

\* The search throws because of an overlapping addition, or addAfter() does.
GetSourceThrows(u, m) ==
    /\ \/ at[u] = "idle" /\ Overlaps(u)
       \/ at[u] = "placing" /\ on[u] = m /\ ~CanPlace(u)
    /\ GoOn(u, "idle")
    /\ UNCHANGED <<files, configurations, lists, on, found, refreshing,
                   settingsHistory>>

-----------------------------------------------------------------------------
(* What is done with the source.                                           *)

Has(u, k) == k \in memory[on[u]][found[u]]

\* The default getProperty() asks all sources in the list.
Environment == UNION {memory[m][source[m]] : m \in {n \in Modules : source[n] # Nobody}}

Got(u) ==
    /\ at[u] = "using"
    /\ GoOn(u, "idle")
    /\ UNCHANGED <<files, configurations, lists, on, found, refreshing,
                   settingsHistory>>

\* A refresh of the configuration has auto-save off.
AutoSaveOff(m, u) ==
    reload \in {"clearing", "cleared"} /\ reloaded = m /\ watched[m] = u

\* setProperty(): one thread at a time stores in a configuration.
SetSetting(u, k) ==
    LET m == on[u]
    IN  /\ at[u] = "using"
        /\ \A v \in Users : at[v] = "saving" => <<on[v], found[v]>> # <<m, found[u]>>
        /\ memory' = [memory EXCEPT ![m][found[u]] = @ \cup {k}]
        /\ GoOn(u, IF AutoSaveOff(m, found[u]) THEN "idle" ELSE "saving")
        /\ torn' = IF AutoSaveOff(m, found[u]) THEN torn \cup {m} ELSE torn
        /\ UNCHANGED <<files, made, lists, on, found, refreshing, stored, crossed>>

\* Auto-save writes all of memory over the file.
Save(u) ==
    LET m == on[u]
    IN  /\ at[u] = "saving"
        /\ files' = [files EXCEPT ![m] = memory[m][found[u]]]
        /\ stored' = [stored EXCEPT ![m] = @ \cup memory[m][found[u]]]
        /\ changed' = changed \cup {m}
        /\ GoOn(u, "idle")
        /\ UNCHANGED <<configurations, lists, on, found, reload, reloaded,
                       crossed, torn>>

\* addProperty() leaves a setting that is there as it is.
AddSetting(u, k) ==
    \/ at[u] = "using" /\ ~Has(u, k) /\ SetSetting(u, k)
    \/ Got(u) /\ Has(u, k)

-----------------------------------------------------------------------------
(* The file from outside.                                                  *)

\* An administrator adds or removes a line.  With the configuration loaded
\* and no reloader that watches it, nobody will ever tell.
EditFile(m, k) ==
    /\ files' = [files EXCEPT ![m] = IF k \in @ THEN @ \ {k} ELSE @ \cup {k}]
    /\ changed' = changed \cup {m}
    /\ stored' = [stored EXCEPT ![m] = @ \ {k}]
    /\ crossed' = IF made[m] # {} /\ watched[m] = Nobody
                  THEN crossed \cup {m} ELSE crossed
    /\ UNCHANGED <<configurations, lists, places, reload, reloaded, torn>>

\* checkChanges() and check(): the configuration of the module's reloader, if
\* it has one, is refreshed, with auto-save off.
Reload(m) ==
    /\ reload = "no" /\ m \in changed
    /\ changed' = changed \ {m}
    /\ IF watched[m] = Nobody THEN UNCHANGED <<reload, reloaded, torn>>
       ELSE /\ reload' = "clearing" /\ reloaded' = m
            /\ torn' = IF \E u \in Users : at[u] = "saving" /\ on[u] = m
                       THEN torn \cup {m} ELSE torn
    /\ UNCHANGED <<files, configurations, lists, places, stored, crossed>>

Clear ==
    /\ reload = "clearing"
    /\ reload' = "cleared"
    /\ memory' = [memory EXCEPT ![reloaded][watched[reloaded]] = {}]
    /\ UNCHANGED <<files, made, lists, places, changed, reloaded,
                   settingsHistory>>

\* Fault: the file is not read again.
LoadForgotten ==
    /\ reload = "cleared"
    /\ reload' = "loaded"
    /\ UNCHANGED <<files, configurations, lists, places, changed, reloaded,
                   settingsHistory>>

\* The file is loaded, or an exception is logged and memory stays empty.
Load ==
    /\ reload = "cleared"
    /\ reload' = "loaded"
    /\ \/ /\ memory' = [memory EXCEPT
                           ![reloaded][watched[reloaded]] = @ \cup files[reloaded]]
          /\ UNCHANGED torn
       \/ /\ Unreadable
          /\ torn' = torn \cup {reloaded}
          /\ UNCHANGED memory
    /\ UNCHANGED <<files, made, lists, places, changed, reloaded, stored, crossed>>

Checked ==
    /\ reload = "loaded"
    /\ reload' = "no"
    /\ UNCHANGED <<files, configurations, lists, places, changed, reloaded,
                   settingsHistory>>

-----------------------------------------------------------------------------
(* Properties.                                                             *)

\* A module in the middle of a refresh, or of a store.
Busy(m) ==
    \/ reload \in {"clearing", "cleared"} /\ reloaded = m
    \/ \E u \in Users : at[u] = "saving" /\ on[u] = m

\* A source says what its file says, unless the file has changed since the
\* last check, or the module's first use was crossed by another one, when the
\* reloader may refresh one configuration and everybody use another, or the
\* file was edited before there was a reloader, or where a refreshed context
\* has put it into a list that nobody reads (getSource, addReloader); or the
\* file could not be loaded or a refresh met a store (check), of which
\* ConfigReload says what is left of it.
SourceIsCurrent ==
    \A m \in Modules \ (changed \cup crossed \cup torn) :
        source[m] # Nobody /\ ~Busy(m) => memory[m][source[m]] = files[m]

\* What the program saved stays in the file.  There are three ways to lose it
\* and no other: the first uses of the module's source crossed, and two
\* configurations save their memories over one another's; the file could not
\* be loaded, and a later store saves the emptied memory over it; a refresh
\* met a store (getSource, setAutoSave, check).
NothingLost ==
    \A m \in Modules \ (crossed \cup torn) : stored[m] \subseteq files[m]
=============================================================================
