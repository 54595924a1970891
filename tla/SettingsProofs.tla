---------------------------- MODULE SettingsProofs ----------------------------
(***************************************************************************)
(* What DatabaseSettings and PropertySources state as invariants, proved   *)
(* for any number of edits and restarts.                                   *)
(***************************************************************************)
EXTENDS DatabaseSettings, TLAPS

\* The configuration of a module is being refreshed.
Refreshing(m) == reload \in {"clearing", "cleared"} /\ reloaded = m
Cleared(m) == reload = "cleared" /\ reloaded = m
Saves(u, m) == at[u] = "saving" /\ on[u] = m

\* A source in the list and a configuration under a reloader were made, and
\* who has got one got one that was made; somebody watches the default one.
SourceInv ==
    /\ \A m \in Modules : source[m] # Nobody => source[m] \in made[m]
    /\ source[Default] # Nobody => watched[Default] # Nobody
    /\ \A m \in Modules : watched[m] # Nobody => watched[m] \in made[m]
    /\ \A u \in Users :
          at[u] \in {"registering", "placing"} => u \in made[on[u]]
    /\ \A u \in Users :
          at[u] \in {"placing", "using"} /\ on[u] = Default
          => watched[Default] # Nobody
    /\ \A u \in Users :
          at[u] \in {"using", "saving"} => found[u] \in made[on[u]]

\* One thread saves a configuration at a time, and nobody one that is being
\* refreshed.
SaveInv ==
    /\ \A u, v \in Users :
          /\ at[u] = "saving" /\ at[v] = "saving"
          /\ on[u] = on[v] /\ found[u] = found[v]
          => u = v
    /\ reload # "no" => watched[reloaded] # Nobody
    /\ \A m \in Modules \ torn, u \in Users :
          Refreshing(m) /\ Saves(u, m) => found[u] # watched[m]

\* Until two uses or a use and an edit cross, a load fails or a store meets a
\* refresh, a module has one configuration, which is a copy of its file up to
\* the edits that are still to be told, the store that is being saved, and the
\* refresh that empties it.
CopyInv ==
    \A m \in Modules \ (crossed \cup torn) :
        /\ \A u, v \in made[m] : u = v
        /\ stored[m] \subseteq files[m]
        /\ \A u \in made[m] :
              /\ Cleared(m) => memory[m][u] = {}
              /\ ~Cleared(m) => stored[m] \subseteq memory[m][u]
              /\ /\ ~Refreshing(m)
                 /\ m \notin changed \/ watched[m] = Nobody \/ settingEdits = 0
                 => /\ files[m] \subseteq memory[m][u]
                    /\ (\A v \in Users : ~Saves(v, m)) => memory[m][u] = files[m]

\* The default source is main's, from the start of the program on; before
\* there is none, and no other.
MainInv ==
    /\ boot # "failed"
    /\ boot = "context" =>
          /\ building \in {"dataSource", "factory"}
          /\ \A m \in Modules : source[m] = Nobody
          /\ \A u \in Users : at[u] = "idle"
    /\ boot = "init" =>
          /\ building = "no"
          /\ \A u \in Users \ {"main"} : at[u] = "idle"
          /\ at["main"] # "idle" => on["main"] = "dspace"
          /\ at["main"] = "using" => source["dspace"] = "main"
    /\ boot # "started" => request = "none"
    /\ request = "none" => job = 0
    /\ at["installer"] = "saving" => job \in 1..4
    /\ boot = "started" => source["dspace"] = "main" /\ at["main"] = "idle"
    /\ reload # "no" => boot = "started" /\ building = "no"
    /\ made["dspace"] \subseteq {"main"}
    /\ \A u \in Users :
          /\ on[u] = "dspace"
          /\ at[u] \in {"creating", "registering", "placing"}
          => u = "main" /\ boot = "init"

\* The mark in file and in memory.
Filed == "installed" \in files["dspace"]
Known == "installed" \in memory["dspace"]["main"]

\* As long as dspace.properties can be loaded and no store meets its refresh,
\* memory has the mark of the file, and the other way round when it is saved;
\* the handler remembers no mark that is not there.
MarkInv ==
    "dspace" \notin torn =>
        /\ "main" \in made["dspace"] =>
              /\ Filed /\ ~Cleared("dspace") => Known
              /\ Known /\ ~Filed => \E u \in Users : Saves(u, "dspace")
        /\ remembered => IF Cleared("dspace") THEN Filed ELSE Known
        /\ boot # "started" => ~remembered
        /\ bootMarked => Filed
        /\ boot = "started" /\ bootMarked => remembered /\ building = "no"
        /\ boot = "started" /\ building # "no" => Known /\ ~remembered

Reading == building \in {"driver", "url", "dialect"}
Clean ==
    driverMade /\ ~disturbed /\ settingEdits = 0 /\ "database" \notin crossed

\* The directory thread has a source only while it reads a setting.
ReadingInv ==
    /\ Reading => boot = "started"
    /\ ~Reading => at["directory"] = "idle"
    /\ at["directory"] # "idle" => on["directory"] = "database"

\* The driver gets its settings one by one, and all of them if they are there.
FactoryInv ==
    torn = {} =>
        /\ Reading => driverMade
        /\ boot = "started" /\ building \in {"factory", "dialect"} =>
              dataSource = "driver" /\ driverMade
        /\ factory # "null" => driverMade /\ factory = "driver"
        /\ building \in {"driver", "url"} => factory = "null"
        /\ ~driverMade => driver = {}
        /\ Clean => DatabaseKeys \subseteq files["database"]
        /\ Clean => driver = IF building = "driver" THEN {}
                             ELSE IF building = "url" THEN {"driver"}
                             ELSE {"driver", "url"}

SettingsInv ==
    /\ SettingsTypeOK /\ SourceInv /\ SaveInv /\ CopyInv /\ MainInv
    /\ MarkInv /\ ReadingInv /\ FactoryInv

-----------------------------------------------------------------------------
(* The steps of getSource(), of its callers and of a refresh.              *)

\* What they keep.
Kept == SourcesTypeOK /\ SourceInv /\ SaveInv /\ CopyInv

\* A thread that neither begins nor ends to save, and touches nothing else.
LEMMA MoveKeeps ==
    ASSUME SaveInv, CopyInv,
           UNCHANGED <<files, made, memory, watched, changed, reload, reloaded,
                       stored, crossed, torn, settingEdits>>,
           \A v \in Users :
              /\ at'[v] = "saving" <=> at[v] = "saving"
              /\ at[v] = "saving" => on'[v] = on[v] /\ found'[v] = found[v]
    PROVE  SaveInv' /\ CopyInv'
<1>1. \A v \in Users, m \in Modules : Saves(v, m)' <=> Saves(v, m)
  BY DEF Saves
<1>2. \A m \in Modules :
        (Refreshing(m)' <=> Refreshing(m)) /\ (Cleared(m)' <=> Cleared(m))
  BY DEF Refreshing, Cleared
<1>3. SaveInv'
  <2>1. ASSUME NEW u \in Users, NEW v \in Users,
               at'[u] = "saving", at'[v] = "saving",
               on'[u] = on'[v], found'[u] = found'[v]
        PROVE  u = v
    <3>1. /\ at[u] = "saving" /\ at[v] = "saving"
          /\ on[u] = on[v] /\ found[u] = found[v]
      BY <2>1
    <3> QED  BY <3>1 DEF SaveInv
  <2>2. ASSUME NEW m \in Modules \ torn, NEW u \in Users,
               Refreshing(m), Saves(u, m)
        PROVE  found'[u] # watched[m]
    <3>1. found'[u] = found[u]
      BY <2>2 DEF Saves
    <3> QED  BY <2>2, <3>1 DEF SaveInv
  <2> QED  BY <1>1, <1>2, <2>1, <2>2 DEF SaveInv
<1>4. CopyInv'
  BY <1>1, <1>2 DEF CopyInv
<1> QED  BY <1>3, <1>4

LEMMA SearchKeeps ==
    ASSUME Kept, NEW u \in Users, NEW m \in Modules, Search(u, m),
           UNCHANGED settingEdits
    PROVE  Kept'
<1> USE DEF Kept, Search, GoOn, configurations, lists, refreshing, settingsHistory
<1>1. SourcesTypeOK'
  BY PropertySourcesAssumption DEF SourcesTypeOK
<1>2. SourceInv'
  BY PropertySourcesAssumption DEF SourcesTypeOK, SourceInv
<1>3. SaveInv' /\ CopyInv'
  BY MoveKeeps DEF SourcesTypeOK
<1> QED  BY <1>1, <1>2, <1>3

LEMMA CreateKeeps ==
    ASSUME Kept, NEW u \in Users, Create(u), UNCHANGED settingEdits
    PROVE  Kept'
<1> USE DEF Kept, Create, GoOn, lists, refreshing
<1> DEFINE m == on[u]
<1>0. m \in Modules
  BY DEF SourcesTypeOK
<1>1. SourcesTypeOK'
  BY <1>0 DEF SourcesTypeOK
<1>2. SourceInv'
  BY <1>0 DEF SourcesTypeOK, SourceInv
<1>3. /\ \A v \in Users, n \in Modules : Saves(v, n)' <=> Saves(v, n)
      /\ \A v \in Users : at'[v] = "saving" <=> at[v] = "saving"
      /\ \A n \in Modules :
            (Refreshing(n)' <=> Refreshing(n)) /\ (Cleared(n)' <=> Cleared(n))
  BY DEF Saves, Refreshing, Cleared, SourcesTypeOK
<1>4. SaveInv'
  BY <1>3 DEF SaveInv
<1>5. CopyInv'
  <2> SUFFICES ASSUME NEW n \in Modules \ (crossed' \cup torn)
               PROVE  /\ \A v, w \in made'[n] : v = w
                      /\ stored[n] \subseteq files[n]
                      /\ \A v \in made'[n] :
                            /\ Cleared(n) => memory'[n][v] = {}
                            /\ ~Cleared(n) => stored[n] \subseteq memory'[n][v]
                            /\ /\ ~Refreshing(n)
                               /\ n \notin changed \/ watched[n] = Nobody
                                     \/ settingEdits = 0
                               => /\ files[n] \subseteq memory'[n][v]
                                  /\ (\A w \in Users : ~Saves(w, n))
                                        => memory'[n][v] = files[n]
    BY <1>3 DEF CopyInv
  <2>1. n \in Modules \ (crossed \cup torn)
    OBVIOUS
  <2>2. CASE n = m
    <3>1. made[n] = {} /\ made'[n] = {u} /\ memory'[n][u] = files[n]
      BY <2>2, <1>0 DEF SourcesTypeOK
    <3>2. ~Cleared(n)
      BY <3>1, <2>1 DEF SaveInv, SourceInv, Cleared
    <3> QED  BY <3>1, <3>2, <2>1 DEF CopyInv
  <2>3. CASE n # m
    <3>1. made'[n] = made[n] /\ memory'[n] = memory[n]
      BY <2>3, <2>1, <1>0 DEF SourcesTypeOK
    <3> QED  BY <3>1, <2>1 DEF CopyInv
  <2> QED  BY <2>2, <2>3
<1> QED  BY <1>1, <1>2, <1>4, <1>5

LEMMA CreateFailsKeeps ==
    ASSUME Kept, NEW u \in Users, CreateFails(u), UNCHANGED settingEdits
    PROVE  Kept'
<1> USE DEF Kept, CreateFails, GoOn, configurations, lists, refreshing,
            settingsHistory
<1>1. SourcesTypeOK'
  BY DEF SourcesTypeOK
<1>2. SourceInv'
  BY DEF SourcesTypeOK, SourceInv
<1>3. SaveInv' /\ CopyInv'
  BY MoveKeeps DEF SourcesTypeOK
<1> QED  BY <1>1, <1>2, <1>3

LEMMA RegisterKeeps ==
    ASSUME Kept, NEW u \in Users, NEW lookupsFree, Register(u, lookupsFree),
           UNCHANGED settingEdits
    PROVE  Kept'
<1> USE DEF Kept, Register, GoOn, configurations, refreshing, settingsHistory
<1> DEFINE m == on[u]
<1>0. m \in Modules
  BY DEF SourcesTypeOK
<1>1. SourcesTypeOK'
  BY <1>0 DEF SourcesTypeOK
<1>2. /\ \A n \in Modules : watched[n] # Nobody => watched'[n] = watched[n]
      /\ watched'[m] # Nobody
      /\ \A n \in Modules : watched'[n] \in {watched[n], u}
      /\ \A n \in Modules : watched'[n] # watched[n] => n = m
  BY <1>0, PropertySourcesAssumption DEF SourcesTypeOK
<1>3. SourceInv'
  BY <1>0, <1>2, PropertySourcesAssumption DEF SourcesTypeOK, SourceInv
<1>4. /\ \A v \in Users, n \in Modules : Saves(v, n)' <=> Saves(v, n)
      /\ \A v \in Users : at'[v] = "saving" <=> at[v] = "saving"
      /\ \A n \in Modules :
            (Refreshing(n)' <=> Refreshing(n)) /\ (Cleared(n)' <=> Cleared(n))
  BY DEF Saves, Refreshing, Cleared, SourcesTypeOK
<1>5. SaveInv'
  <2>1. reload # "no" => reloaded \in Modules /\ watched[reloaded] # Nobody
    BY DEF SaveInv, SourcesTypeOK
  <2>2. \A n \in Modules : Refreshing(n) => watched'[n] = watched[n]
    BY <1>2, <2>1 DEF Refreshing
  <2> QED  BY <1>2, <1>4, <2>1, <2>2 DEF SaveInv
<1>6. CopyInv'
  BY <1>2, <1>4 DEF CopyInv
<1> QED  BY <1>1, <1>3, <1>5, <1>6

\* With another list the reloader tells nobody; the default source has one
\* already when that happens.
LEMMA UnwatchedKeeps ==
    ASSUME Kept, NEW u \in Users, on[u] # Default, RegisterUnwatched(u),
           UNCHANGED settingEdits
    PROVE  Kept'
<1> USE DEF Kept, RegisterUnwatched, GoOn, configurations, lists, refreshing,
            settingsHistory
<1>1. SourcesTypeOK'
  BY DEF SourcesTypeOK
<1>2. SourceInv'
  BY DEF SourcesTypeOK, SourceInv
<1>3. SaveInv' /\ CopyInv'
  BY MoveKeeps DEF SourcesTypeOK
<1> QED  BY <1>1, <1>2, <1>3

LEMMA PlaceKeeps ==
    ASSUME Kept, NEW u \in Users, Place(u), UNCHANGED settingEdits
    PROVE  Kept'
<1> USE DEF Kept, Place, GoOn, configurations, refreshing, settingsHistory
<1>0. on[u] \in Modules
  BY DEF SourcesTypeOK
<1>1. SourcesTypeOK'
  BY <1>0 DEF SourcesTypeOK
<1>2. SourceInv'
  BY <1>0, PropertySourcesAssumption DEF SourcesTypeOK, SourceInv
<1>3. SaveInv' /\ CopyInv'
  BY MoveKeeps DEF SourcesTypeOK
<1> QED  BY <1>1, <1>2, <1>3

LEMMA GotKeeps ==
    ASSUME Kept, NEW u \in Users, Got(u), UNCHANGED settingEdits
    PROVE  Kept'
<1> USE DEF Kept, Got, GoOn, configurations, lists, refreshing, settingsHistory
<1>1. SourcesTypeOK'
  BY DEF SourcesTypeOK
<1>2. SourceInv'
  BY DEF SourcesTypeOK, SourceInv
<1>3. SaveInv' /\ CopyInv'
  BY MoveKeeps DEF SourcesTypeOK
<1> QED  BY <1>1, <1>2, <1>3

LEMMA ThrowKeeps ==
    ASSUME Kept, NEW u \in Users, NEW m \in Modules, GetSourceThrows(u, m),
           UNCHANGED settingEdits
    PROVE  Kept'
<1> USE DEF Kept, GetSourceThrows, GoOn, configurations, lists, refreshing,
            settingsHistory
<1>1. SourcesTypeOK'
  BY DEF SourcesTypeOK
<1>2. SourceInv'
  BY DEF SourcesTypeOK, SourceInv
<1>3. SaveInv' /\ CopyInv'
  BY MoveKeeps DEF SourcesTypeOK
<1> QED  BY <1>1, <1>2, <1>3

LEMMA SetKeeps ==
    ASSUME Kept, NEW u \in Users, NEW k \in Settings, SetSetting(u, k),
           UNCHANGED settingEdits
    PROVE  Kept'
<1> USE DEF Kept, lists, refreshing
<1> DEFINE m == on[u]
           v == found[u]
<1>0. /\ m \in Modules /\ v \in made[m] /\ v \in Users /\ at[u] = "using"
      /\ \A w \in Users : at[w] = "saving" => on[w] # m \/ found[w] # v
  BY DEF SetSetting, SourcesTypeOK, SourceInv
<1>1. /\ memory'[m][v] = memory[m][v] \cup {k}
      /\ \A n \in Modules, w \in Users :
            n # m \/ w # v => memory'[n][w] = memory[n][w]
      /\ memory' \in [Modules -> [Users -> SUBSET Settings]]
      /\ UNCHANGED <<files, made, source, watched, on, found, changed, reload,
                     reloaded, stored, crossed>>
  BY <1>0 DEF SetSetting, SourcesTypeOK
<1>2. \/ /\ Refreshing(m) /\ watched[m] = v /\ torn' = torn \cup {m}
         /\ at' = [at EXCEPT ![u] = "idle"]
      \/ /\ ~(Refreshing(m) /\ watched[m] = v) /\ torn' = torn
         /\ at' = [at EXCEPT ![u] = "saving"]
  BY DEF SetSetting, AutoSaveOff, Refreshing, GoOn
<1>3. /\ at'[u] \in {"idle", "saving"}
      /\ \A w \in Users \ {u} : at'[w] = at[w]
      /\ torn \subseteq torn' /\ torn' \in SUBSET Modules
      /\ at' \in [Users -> {"idle", "creating", "registering", "placing",
                            "using", "saving"}]
  BY <1>0, <1>2 DEF SourcesTypeOK
<1>4. SourcesTypeOK'
  BY <1>1, <1>3 DEF SourcesTypeOK
<1>5. SourceInv'
  BY <1>0, <1>1, <1>3 DEF SourceInv
<1>6. \A n \in Modules :
        (Refreshing(n)' <=> Refreshing(n)) /\ (Cleared(n)' <=> Cleared(n))
  BY <1>1 DEF Refreshing, Cleared
<1>7. SaveInv'
  <2>1. CASE torn' = torn \cup {m} /\ at' = [at EXCEPT ![u] = "idle"]
    <3>1. \A w \in Users : at'[w] = "saving" => at[w] = "saving"
      BY <1>3, <2>1 DEF SourcesTypeOK
    <3> QED  BY <1>1, <1>6, <2>1, <3>1 DEF SaveInv, Saves
  <2>2. CASE ~(Refreshing(m) /\ watched[m] = v) /\ torn' = torn
    BY <1>0, <1>1, <1>3, <1>6, <2>2 DEF SaveInv, Saves
  <2> QED  BY <1>2, <2>1, <2>2
<1>8. CopyInv'
  <2> SUFFICES ASSUME NEW n \in Modules \ (crossed \cup torn')
               PROVE  /\ \A a, b \in made[n] : a = b
                      /\ stored[n] \subseteq files[n]
                      /\ \A a \in made[n] :
                            /\ Cleared(n) => memory'[n][a] = {}
                            /\ ~Cleared(n) => stored[n] \subseteq memory'[n][a]
                            /\ /\ ~Refreshing(n)
                               /\ n \notin changed \/ watched[n] = Nobody
                                     \/ settingEdits = 0
                               => /\ files[n] \subseteq memory'[n][a]
                                  /\ (\A w \in Users : ~Saves(w, n)')
                                        => memory'[n][a] = files[n]
    BY <1>1, <1>6 DEF CopyInv
  <2>1. n \in Modules \ (crossed \cup torn) /\ made[n] \subseteq Users
    BY <1>3 DEF SourcesTypeOK
  <2>2. CASE n = m
    <3>1. \A a \in made[n] : a = v
      BY <2>1, <2>2, <1>0 DEF CopyInv
    <3>2. torn' = torn /\ at' = [at EXCEPT ![u] = "saving"] /\ ~Refreshing(n)
      <4>1. Refreshing(n) => watched[n] = v
        BY <2>1, <3>1 DEF SaveInv, SourceInv, Refreshing
      <4> QED  BY <1>2, <2>2, <4>1
    <3>3. Saves(u, n)' /\ ~Cleared(n)
      BY <1>1, <2>2, <3>2 DEF Saves, Cleared, Refreshing, SourcesTypeOK
    <3>4. /\ stored[n] \subseteq memory[n][v] /\ stored[n] \subseteq files[n]
          /\ n \notin changed \/ watched[n] = Nobody \/ settingEdits = 0
             => files[n] \subseteq memory[n][v]
      BY <1>0, <2>1, <2>2, <3>2, <3>3 DEF CopyInv
    <3> QED  BY <1>1, <2>1, <2>2, <3>1, <3>2, <3>3, <3>4
  <2>3. CASE n # m
    <3>1. \A a \in made[n] : memory'[n][a] = memory[n][a]
      BY <1>1, <2>1, <2>3
    <3>2. \A w \in Users : Saves(w, n)' <=> Saves(w, n)
      BY <1>0, <1>1, <1>3, <2>3 DEF Saves
    <3> QED  BY <2>1, <3>1, <3>2 DEF CopyInv
  <2> QED  BY <2>2, <2>3
<1> QED  BY <1>4, <1>5, <1>7, <1>8

LEMMA SaveKeeps ==
    ASSUME Kept, NEW u \in Users, Save(u), UNCHANGED settingEdits
    PROVE  Kept'
<1> USE DEF Kept, configurations, lists
<1> DEFINE m == on[u]
           v == found[u]
<1>0. m \in Modules /\ v \in made[m] /\ v \in Users /\ at[u] = "saving"
  BY DEF Save, SourcesTypeOK, SourceInv
<1>1. /\ files'[m] = memory[m][v] /\ stored'[m] = stored[m] \cup memory[m][v]
      /\ \A n \in Modules \ {m} : files'[n] = files[n] /\ stored'[n] = stored[n]
      /\ changed' = changed \cup {m}
      /\ at'[u] = "idle" /\ \A w \in Users \ {u} : at'[w] = at[w]
      /\ UNCHANGED <<made, memory, source, watched, on, found, reload,
                     reloaded, crossed, torn>>
  BY <1>0 DEF Save, GoOn, SourcesTypeOK
<1>2. SourcesTypeOK'
  <2>1. memory[m][v] \in SUBSET Settings
    BY <1>0 DEF SourcesTypeOK
  <2>2. /\ files' \in [Modules -> SUBSET Settings]
        /\ stored' \in [Modules -> SUBSET Settings]
        /\ changed' \in SUBSET Modules
        /\ at' \in [Users -> {"idle", "creating", "registering", "placing",
                              "using", "saving"}]
    BY <1>0, <2>1 DEF Save, GoOn, SourcesTypeOK
  <2> QED  BY <1>1, <2>2 DEF SourcesTypeOK
<1>3. SourceInv'
  BY <1>1 DEF SourceInv
<1>4. \A n \in Modules :
        (Refreshing(n)' <=> Refreshing(n)) /\ (Cleared(n)' <=> Cleared(n))
  BY <1>1 DEF Refreshing, Cleared
<1>5. SaveInv'
  BY <1>1, <1>4 DEF SaveInv, Saves
<1>6. CopyInv'
  <2> SUFFICES ASSUME NEW n \in Modules \ (crossed \cup torn)
               PROVE  /\ \A a, b \in made[n] : a = b
                      /\ stored'[n] \subseteq files'[n]
                      /\ \A a \in made[n] :
                            /\ Cleared(n) => memory[n][a] = {}
                            /\ ~Cleared(n) => stored'[n] \subseteq memory[n][a]
                            /\ /\ ~Refreshing(n)
                               /\ n \notin changed' \/ watched[n] = Nobody
                                     \/ settingEdits = 0
                               => /\ files'[n] \subseteq memory[n][a]
                                  /\ (\A w \in Users : ~Saves(w, n)')
                                        => memory[n][a] = files'[n]
    BY <1>1, <1>4 DEF CopyInv
  <2>1. made[n] \subseteq Users /\ \A a, b \in made[n] : a = b
    BY DEF CopyInv, SourcesTypeOK
  <2>2. CASE n = m
    <3>1. \A a \in made[n] : a = v
      BY <2>1, <2>2, <1>0
    <3>2. ~Refreshing(n) /\ ~Cleared(n)
      <4>1. Refreshing(n) => found[u] # watched[n]
        BY <1>0, <2>2 DEF SaveInv, Saves
      <4>2. Refreshing(n) => watched[n] \in made[n]
        BY DEF SaveInv, SourceInv, Refreshing
      <4> QED  BY <3>1, <4>1, <4>2 DEF Refreshing, Cleared
    <3>3. stored[n] \subseteq memory[n][v]
      BY <1>0, <2>2, <3>2 DEF CopyInv
    <3> QED  BY <1>1, <2>1, <2>2, <3>1, <3>2, <3>3
  <2>3. CASE n # m
    <3>1. /\ \A w \in Users : Saves(w, n)' <=> Saves(w, n)
          /\ n \in changed' <=> n \in changed
      BY <1>1, <2>3 DEF Saves
    <3> QED  BY <1>1, <2>3, <3>1 DEF CopyInv
  <2> QED  BY <2>2, <2>3
<1> QED  BY <1>2, <1>3, <1>5, <1>6

LEMMA EditKeeps ==
    ASSUME Kept, NEW m \in Modules, NEW k \in Settings, EditFile(m, k),
           settingEdits' # 0
    PROVE  Kept'
<1> USE DEF Kept, EditFile, configurations, lists, places
<1>1. SourcesTypeOK'
  BY DEF SourcesTypeOK
<1>2. SourceInv'
  BY DEF SourceInv
<1>3. /\ stored'[m] = stored[m] \ {k}
      /\ stored[m] \ {k} \subseteq files[m] => stored'[m] \subseteq files'[m]
      /\ \A n \in Modules \ {m} : files'[n] = files[n] /\ stored'[n] = stored[n]
      /\ changed' = changed \cup {m} /\ crossed \subseteq crossed'
      /\ m \notin crossed' => made[m] = {} \/ watched[m] # Nobody
  BY DEF SourcesTypeOK
<1>4. /\ \A v \in Users, n \in Modules : Saves(v, n)' <=> Saves(v, n)
      /\ \A n \in Modules :
            (Refreshing(n)' <=> Refreshing(n)) /\ (Cleared(n)' <=> Cleared(n))
      /\ UNCHANGED <<made, memory, watched, torn>>
  BY DEF Saves, Refreshing, Cleared
<1>5. SaveInv'
  BY <1>4 DEF SaveInv
<1>6. CopyInv'
  <2> SUFFICES ASSUME NEW n \in Modules \ (crossed' \cup torn)
               PROVE  /\ \A a, b \in made[n] : a = b
                      /\ stored'[n] \subseteq files'[n]
                      /\ \A a \in made[n] :
                            /\ Cleared(n) => memory[n][a] = {}
                            /\ ~Cleared(n) => stored'[n] \subseteq memory[n][a]
                            /\ /\ ~Refreshing(n)
                               /\ n \notin changed' \/ watched[n] = Nobody
                               => /\ files'[n] \subseteq memory[n][a]
                                  /\ (\A w \in Users : ~Saves(w, n))
                                        => memory[n][a] = files'[n]
    BY <1>4 DEF CopyInv
  <2>1. n \in Modules \ (crossed \cup torn)
    BY <1>3
  <2>2. CASE n = m
    BY <2>1, <2>2, <1>3 DEF CopyInv
  <2>3. CASE n # m
    BY <2>1, <2>3, <1>3 DEF CopyInv
  <2> QED  BY <2>2, <2>3
<1> QED  BY <1>1, <1>2, <1>5, <1>6

LEMMA ReloadKeeps ==
    ASSUME Kept, NEW m \in Modules, Reload(m), UNCHANGED settingEdits
    PROVE  Kept'
<1> USE DEF Kept, Reload, configurations, lists, places
<1>1. SourcesTypeOK'
  BY DEF SourcesTypeOK
<1>2. SourceInv'
  BY DEF SourceInv
<1>3. \A v \in Users, n \in Modules : Saves(v, n)' <=> Saves(v, n)
  BY DEF Saves
<1>4. CASE watched[m] = Nobody
  <2>1. /\ UNCHANGED <<reload, reloaded, torn, watched, crossed, memory>>
        /\ \A n \in Modules \ {m} : n \in changed' <=> n \in changed
        /\ \A n \in Modules :
              (Refreshing(n)' <=> Refreshing(n)) /\ (Cleared(n)' <=> Cleared(n))
    BY <1>4 DEF Refreshing, Cleared
  <2>2. SaveInv'
    BY <1>3, <2>1 DEF SaveInv
  <2>3. CopyInv'
    BY <1>3, <1>4, <2>1 DEF CopyInv
  <2> QED  BY <1>1, <1>2, <2>2, <2>3
<1>5. CASE watched[m] # Nobody
  <2>1. /\ reload = "no" /\ reload' = "clearing" /\ reloaded' = m
        /\ torn \subseteq torn'
        /\ (\E u \in Users : Saves(u, m)) => m \in torn'
        /\ \A n \in Modules \ {m} : n \in changed' <=> n \in changed
        /\ \A n \in Modules : Refreshing(n)' <=> n = m
        /\ \A n \in Modules : ~Cleared(n) /\ ~Cleared(n)' /\ ~Refreshing(n)
    BY <1>5 DEF Refreshing, Cleared, Saves
  <2>2. SaveInv'
    BY <1>3, <1>5, <2>1 DEF SaveInv
  <2>3. CopyInv'
    BY <1>3, <2>1 DEF CopyInv
  <2> QED  BY <1>1, <1>2, <2>2, <2>3
<1> QED  BY <1>4, <1>5

LEMMA ClearKeeps ==
    ASSUME Kept, Clear, UNCHANGED settingEdits
    PROVE  Kept'
<1> USE DEF Kept, Clear, lists, places, settingsHistory
<1> DEFINE m == reloaded
           v == watched[reloaded]
<1>0. m \in Modules /\ v \in made[m] /\ v \in Users
  BY DEF SourcesTypeOK, SaveInv, SourceInv
<1>1. /\ memory'[m][v] = {}
      /\ \A n \in Modules, w \in Users :
            n # m \/ w # v => memory'[n][w] = memory[n][w]
      /\ \A n \in Modules : (Refreshing(n)' <=> n = m) /\ (Refreshing(n) <=> n = m)
      /\ \A n \in Modules : (Cleared(n)' <=> n = m) /\ ~Cleared(n)
      /\ \A w \in Users, n \in Modules : Saves(w, n)' <=> Saves(w, n)
  BY <1>0 DEF SourcesTypeOK, Refreshing, Cleared, Saves
<1>2. SourcesTypeOK'
  BY <1>0 DEF SourcesTypeOK
<1>3. SourceInv'
  BY DEF SourceInv
<1>4. SaveInv'
  BY <1>1 DEF SaveInv
<1>5. CopyInv'
  <2> SUFFICES ASSUME NEW n \in Modules \ (crossed \cup torn)
               PROVE  /\ \A a, b \in made[n] : a = b
                      /\ stored[n] \subseteq files[n]
                      /\ \A a \in made[n] :
                            /\ n = m => memory'[n][a] = {}
                            /\ n # m => stored[n] \subseteq memory'[n][a]
                            /\ /\ n # m
                               /\ n \notin changed \/ watched[n] = Nobody
                                     \/ settingEdits = 0
                               => /\ files[n] \subseteq memory'[n][a]
                                  /\ (\A w \in Users : ~Saves(w, n))
                                        => memory'[n][a] = files[n]
    BY <1>1 DEF CopyInv
  <2>1. made[n] \subseteq Users /\ \A a, b \in made[n] : a = b
    BY DEF CopyInv, SourcesTypeOK
  <2>2. CASE n = m
    <3>1. \A a \in made[n] : a = v
      BY <2>1, <2>2, <1>0
    <3> QED  BY <1>1, <2>1, <2>2, <3>1 DEF CopyInv
  <2>3. CASE n # m
    <3>1. \A a \in made[n] : memory'[n][a] = memory[n][a]
      BY <1>1, <2>1, <2>3
    <3> QED  BY <1>1, <2>3, <3>1 DEF CopyInv
  <2> QED  BY <2>2, <2>3
<1> QED  BY <1>2, <1>3, <1>4, <1>5

LEMMA LoadKeeps ==
    ASSUME Kept, Load, UNCHANGED settingEdits
    PROVE  Kept'
<1> USE DEF Kept, Load, lists, places
<1> DEFINE m == reloaded
           v == watched[reloaded]
<1>0. m \in Modules /\ v \in made[m] /\ v \in Users
  BY DEF SourcesTypeOK, SaveInv, SourceInv
<1>1. /\ \A n \in Modules, w \in Users :
            n # m \/ w # v => memory'[n][w] = memory[n][w]
      /\ m \in torn' \/ memory'[m][v] = memory[m][v] \cup files[m]
      /\ torn \subseteq torn' /\ torn' \in SUBSET Modules
      /\ memory' \in [Modules -> [Users -> SUBSET Settings]]
  <2>1. CASE memory' = [memory EXCEPT ![m][v] = @ \cup files[m]] /\ torn' = torn
    <3>1. memory[m][v] \cup files[m] \in SUBSET Settings
      BY <1>0 DEF SourcesTypeOK
    <3> QED  BY <1>0, <2>1, <3>1 DEF SourcesTypeOK
  <2>2. CASE torn' = torn \cup {m} /\ memory' = memory
    BY <1>0, <2>2 DEF SourcesTypeOK
  <2> QED  BY <2>1, <2>2
<1>6. /\ \A n \in Modules : ~Refreshing(n)' /\ ~Cleared(n)'
      /\ \A n \in Modules : (Refreshing(n) <=> n = m) /\ (Cleared(n) <=> n = m)
      /\ \A w \in Users, n \in Modules : Saves(w, n)' <=> Saves(w, n)
  BY DEF Refreshing, Cleared, Saves
<1>2. SourcesTypeOK'
  BY <1>1 DEF SourcesTypeOK
<1>3. SourceInv'
  BY DEF SourceInv
<1>4. SaveInv'
  BY <1>6 DEF SaveInv
<1>5. CopyInv'
  <2> SUFFICES ASSUME NEW n \in Modules \ (crossed \cup torn')
               PROVE  /\ \A a, b \in made[n] : a = b
                      /\ stored[n] \subseteq files[n]
                      /\ \A a \in made[n] :
                            /\ stored[n] \subseteq memory'[n][a]
                            /\ n \notin changed \/ watched[n] = Nobody
                                  \/ settingEdits = 0
                               => /\ files[n] \subseteq memory'[n][a]
                                  /\ (\A w \in Users : ~Saves(w, n))
                                        => memory'[n][a] = files[n]
    BY <1>6 DEF CopyInv
  <2>1. /\ n \in Modules \ (crossed \cup torn) /\ made[n] \subseteq Users
        /\ \A a, b \in made[n] : a = b
    BY <1>1 DEF CopyInv, SourcesTypeOK
  <2>2. CASE n = m
    <3>1. \A a \in made[n] : a = v
      BY <2>1, <2>2, <1>0
    <3>2. memory[n][v] = {}
      BY <1>0, <1>6, <2>1, <2>2 DEF CopyInv
    <3>3. memory'[n][v] = files[n]
      BY <1>1, <2>2, <3>2
    <3> QED  BY <2>1, <2>2, <3>1, <3>3 DEF CopyInv
  <2>3. CASE n # m
    <3>1. \A a \in made[n] : memory'[n][a] = memory[n][a]
      BY <1>1, <2>1, <2>3
    <3> QED  BY <1>6, <2>1, <2>3, <3>1 DEF CopyInv
  <2> QED  BY <2>2, <2>3
<1> QED  BY <1>2, <1>3, <1>4, <1>5

LEMMA CheckedKeeps ==
    ASSUME Kept, Checked, UNCHANGED settingEdits
    PROVE  Kept'
<1> USE DEF Kept, Checked, configurations, lists, places, settingsHistory
<1>1. SourcesTypeOK'
  BY DEF SourcesTypeOK
<1>2. SourceInv'
  BY DEF SourceInv
<1>3. /\ \A n \in Modules : ~Refreshing(n)' /\ ~Cleared(n)'
      /\ \A n \in Modules : ~Refreshing(n) /\ ~Cleared(n)
      /\ \A w \in Users, n \in Modules : Saves(w, n)' <=> Saves(w, n)
  BY DEF Refreshing, Cleared, Saves
<1>4. SaveInv'
  BY <1>3 DEF SaveInv
<1>5. CopyInv'
  BY <1>3 DEF CopyInv
<1> QED  BY <1>1, <1>2, <1>4, <1>5

LEMMA NothingKeeps ==
    ASSUME Kept, UNCHANGED sourceVars, UNCHANGED settingEdits
    PROVE  Kept'
<1> USE DEF Kept, sourceVars, configurations, lists, places, refreshing,
            settingsHistory
<1>1. SourcesTypeOK' /\ SourceInv'
  BY DEF SourcesTypeOK, SourceInv
<1>2. SaveInv' /\ CopyInv'
  BY MoveKeeps
<1> QED  BY <1>1, <1>2

-----------------------------------------------------------------------------
(* The actions that create the beans.                                      *)

\* What they start from.
LEMMA Beginning ==
    ASSUME SettingsInv
    PROVE  /\ Kept
           /\ building # "no" => boot \in {"context", "started"} /\ reload = "no"
           /\ boot = "context" => ~Marked
           /\ boot = "started" /\ building # "no" /\ "dspace" \notin torn => Marked
           /\ Creator \in Users
           /\ boot = "started" => Creator = "directory"
           /\ Reading => Creator = "directory"
           /\ boot = "started" => watched["dspace"] = "main" /\ "main" \in made["dspace"]
<1> USE DatabaseSettingsAssumption
<1>1. Kept
  BY DEF SettingsInv, SettingsTypeOK, Kept
<1>2. building # "no" => boot \in {"context", "started"} /\ reload = "no"
  BY DEF SettingsInv, MainInv, SettingsTypeOK
<1>3. boot = "context" => ~Marked
  BY DEF SettingsInv, MainInv, Marked, Environment
<1>7. boot = "started" => watched["dspace"] = "main" /\ "main" \in made["dspace"]
  BY PropertySourcesAssumption DEF SettingsInv, MainInv, SourceInv
<1>4. ASSUME boot = "started", building # "no", "dspace" \notin torn PROVE Marked
  <2>1. source["dspace"] = "main" /\ "main" # Nobody /\ "dspace" \in Modules
    BY <1>4, PropertySourcesAssumption DEF SettingsInv, MainInv
  <2>2. "installed" \in memory["dspace"]["main"]
    BY <1>4 DEF SettingsInv, MarkInv, Known
  <2> QED  BY <2>1, <2>2 DEF Marked, Environment
<1>5. Creator \in Users /\ (boot = "started" => Creator = "directory")
  BY DEF Creator
<1>6. Reading => Creator = "directory"
  BY <1>5 DEF SettingsInv, ReadingInv
<1> QED  BY <1>1, <1>2, <1>3, <1>4, <1>5, <1>6, <1>7

LEMMA DataSourceStep ==
    ASSUME SettingsInv, CreateDataSource
    PROVE  SettingsInv'
<1> USE DEF SettingsInv, CreateDataSource, CreationGoesOn, actors,
            settingsCounters
<1>1. Kept'
  BY Beginning, NothingKeeps
<1>2. SettingsTypeOK'
  BY <1>1 DEF Kept, SettingsTypeOK
<1>3. UNCHANGED <<files, made, memory, source, watched, at, on, found, changed,
                  reload, reloaded, stored, crossed, torn>>
  BY DEF sourceVars, configurations, lists, places, refreshing, settingsHistory
<1>4. MainInv'
  BY <1>3, Beginning DEF MainInv
<1>5. MarkInv'
  BY <1>3 DEF MarkInv, Known, Filed, Cleared, Saves
<1>6. ReadingInv'
  BY <1>3, Beginning DEF ReadingInv, Reading
<1>7. FactoryInv'
  BY <1>3, Beginning DEF FactoryInv, Clean, Reading
<1> QED  BY <1>1, <1>2, <1>4, <1>5, <1>6, <1>7 DEF Kept

\* While the creation reads a setting, its step changes no more than where it
\* is in getSource().
LEMMA ReadingStep ==
    ASSUME SettingsInv, Reading, UNCHANGED settingEdits,
           Got(Creator) \/ CreateFails(Creator) \/ GetSourceThrows(Creator, "database")
    PROVE  /\ Kept' /\ boot = "started" /\ Creator = "directory" /\ reload = "no"
           /\ at' = [at EXCEPT !["directory"] = "idle"]
           /\ at \in [Users -> {"idle", "creating", "registering", "placing",
                                "using", "saving"}]
           /\ at["directory"] # "saving"
           /\ UNCHANGED <<files, made, memory, source, watched, on, found,
                          changed, reload, reloaded, stored, crossed, torn>>
<1> USE DatabaseSettingsAssumption
<1>1. boot = "started" /\ Creator = "directory" /\ reload = "no"
  BY Beginning DEF SettingsInv, ReadingInv, Reading
<1>2. Kept'
  BY <1>1, Beginning, GotKeeps, CreateFailsKeeps, ThrowKeeps
<1>3. /\ at["directory"] \in {"idle", "creating", "placing", "using"}
      /\ at["directory"] = "idle" => Overlaps("directory")
  BY <1>1 DEF Got, CreateFails, GetSourceThrows
<1>5. at' = [at EXCEPT !["directory"] = "idle"]
  BY <1>1 DEF Got, CreateFails, GetSourceThrows, GoOn
<1>6. at \in [Users -> {"idle", "creating", "registering", "placing", "using",
                        "saving"}]
  BY DEF SettingsInv, SettingsTypeOK, SourcesTypeOK
<1>7. UNCHANGED <<files, made, memory, source, watched, on, found, changed,
                  reload, reloaded, stored, crossed, torn>>
  BY DEF Got, CreateFails, GetSourceThrows, configurations, lists, refreshing,
         settingsHistory
<1> QED  BY <1>1, <1>2, <1>3, <1>5, <1>6, <1>7

\* Whatever it is, the sources and the mark do not notice.
LEMMA ReadingKeeps ==
    ASSUME SettingsInv, Reading,
           Got(Creator) \/ CreateFails(Creator) \/ GetSourceThrows(Creator, "database"),
           UNCHANGED <<boot, job, request, settingsCounters>>,
           building' \in {"no", "driver", "url", "factory", "dialect"},
           IF building' = "no" THEN TRUE ELSE remembered' = remembered,
           remembered' \in BOOLEAN,
           "dspace" \in torn \/ remembered' \/ remembered' = remembered
    PROVE  MainInv' /\ MarkInv' /\ ReadingInv'
<1> USE DatabaseSettingsAssumption DEF SettingsInv, settingsCounters
<1>1. /\ \A v \in Users \ {"directory"} : at'[v] = at[v]
      /\ at'["directory"] = "idle"
      /\ \A v \in Users : Saves(v, "dspace")' <=> Saves(v, "dspace")
  BY ReadingStep DEF Saves
<1>2. MainInv'
  BY <1>1, ReadingStep DEF MainInv, Reading
<1>3. MarkInv'
  <2> SUFFICES ASSUME "dspace" \notin torn PROVE MarkInv'
    BY ReadingStep DEF MarkInv
  <2>1. Known /\ ~remembered /\ ~bootMarked /\ ~Cleared("dspace")
    BY Beginning, ReadingStep DEF MarkInv, Reading, Cleared
  <2>2. (Known' <=> Known) /\ (Filed' <=> Filed) /\ ~Cleared("dspace")'
    BY <2>1, ReadingStep DEF Known, Filed, Cleared
  <2> QED  BY <1>1, <2>1, <2>2, ReadingStep DEF MarkInv
<1>4. ReadingInv'
  BY <1>1, ReadingStep DEF ReadingInv
<1> QED  BY <1>2, <1>3, <1>4

LEMMA DriverStep ==
    ASSUME SettingsInv, SetDriver
    PROVE  SettingsInv'
<1> USE DatabaseSettingsAssumption
    DEF SettingsInv, SetDriver, CreationGoesOn, actors, settingsCounters
<1>1. Reading
  BY DEF Reading
<1>2. SettingsTypeOK'
  BY <1>1, ReadingStep DEF Kept, SettingsTypeOK, DatabaseKeys
<1>3. MainInv' /\ MarkInv' /\ ReadingInv'
  BY <1>1, ReadingKeeps DEF SettingsTypeOK
<1>4. FactoryInv'
  BY <1>1, ReadingStep DEF FactoryInv, Clean, Reading
<1> QED  BY <1>1, ReadingStep, <1>2, <1>3, <1>4 DEF Kept

LEMMA UrlStep ==
    ASSUME SettingsInv, SetUrl
    PROVE  SettingsInv'
<1> USE DatabaseSettingsAssumption
    DEF SettingsInv, SetUrl, CreationGoesOn, actors, settingsCounters
<1>1. Reading
  BY DEF Reading
<1>2. SettingsTypeOK'
  BY <1>1, ReadingStep DEF Kept, SettingsTypeOK, DatabaseKeys
<1>3. MainInv' /\ MarkInv' /\ ReadingInv'
  BY <1>1, ReadingKeeps DEF SettingsTypeOK
<1>4. FactoryInv'
  BY <1>1, ReadingStep DEF FactoryInv, Clean, Reading
<1> QED  BY <1>1, ReadingStep, <1>2, <1>3, <1>4 DEF Kept

LEMMA FactoryStep ==
    ASSUME SettingsInv, CreateFactory
    PROVE  SettingsInv'
<1> USE DEF SettingsInv, CreateFactory, CreationGoesOn, CreationEnds, actors,
            settingsCounters
<1>1. Kept'
  BY Beginning, NothingKeeps
<1>2. SettingsTypeOK'
  BY <1>1 DEF Kept, SettingsTypeOK, beans
<1>3. /\ UNCHANGED <<files, made, memory, source, watched, at, on, found,
                     changed, reload, reloaded, stored, crossed, torn>>
      /\ boot \in {"context", "started"} /\ reload = "no"
      /\ UNCHANGED <<request, job, bootMarked>>
      /\ boot = "started" => boot' = "started"
      /\ boot = "context" => boot' \in {"context", "init"} /\ building' # "dialect"
      /\ boot' = "context" => building' # "no"
      /\ boot' = "init" => building' = "no"
  BY Beginning
  DEF sourceVars, configurations, lists, places, refreshing, settingsHistory
<1>4. MainInv'
  BY <1>3, DatabaseSettingsAssumption DEF MainInv
<1>5. MarkInv'
  <2> SUFFICES ASSUME "dspace" \notin torn PROVE MarkInv'
    BY <1>3 DEF MarkInv
  <2>1. ~Cleared("dspace") /\ ~Cleared("dspace")'
    BY <1>3 DEF Cleared
  <2>2. /\ Known' <=> Known
        /\ Filed' <=> Filed
        /\ \A u \in Users : Saves(u, "dspace")' <=> Saves(u, "dspace")
    BY <1>3 DEF Known, Filed, Saves
  <2>3. CASE boot = "context"
    <3>1. remembered' = remembered /\ boot' # "started"
      BY <1>3, <2>3 DEF SettingsTypeOK
    <3> QED  BY <1>3, <2>1, <2>2, <3>1 DEF MarkInv
  <2>4. CASE boot = "started"
    <3>1. Known /\ ~remembered /\ ~bootMarked
      BY <2>4 DEF MarkInv
    <3>2. building' # "no" => ~remembered'
      BY <3>1
    <3>3. boot' = "started" /\ Known' /\ ~bootMarked'
      BY <1>3, <2>2, <2>4, <3>1
    <3>4. /\ "main" \in made'["dspace"] =>
                (Known' /\ ~Filed' => \E u \in Users : Saves(u, "dspace")')
          /\ made'["dspace"] = made["dspace"]
      BY <1>3, <2>2 DEF MarkInv
    <3> QED  BY <2>1, <3>2, <3>3, <3>4 DEF MarkInv
  <2> QED  BY <1>3, <2>3, <2>4
<1>6. ReadingInv'
  BY <1>3, Beginning DEF ReadingInv, Reading
<1>7. FactoryInv'
  BY <1>3, Beginning DEF FactoryInv, Clean, Reading, beans
<1> QED  BY <1>1, <1>2, <1>4, <1>5, <1>6, <1>7 DEF Kept

LEMMA DialectStep ==
    ASSUME SettingsInv, SetDialect
    PROVE  SettingsInv'
<1> USE DatabaseSettingsAssumption
    DEF SettingsInv, SetDialect, CreationEnds, settingsCounters
<1>1. Reading
  BY DEF Reading
<1>2. boot = "started" /\ boot' = "started" /\ (remembered' <=> ~remembered)
  BY <1>1 DEF ReadingInv, SettingsTypeOK
<1>3. SettingsTypeOK'
  BY <1>1, <1>2, ReadingStep DEF Kept, SettingsTypeOK
<1>4. MainInv' /\ MarkInv' /\ ReadingInv'
  <2>1. "dspace" \in torn \/ remembered'
    BY <1>1, <1>2 DEF MarkInv, Reading
  <2> QED  BY <1>1, <1>2, <1>3, <2>1, ReadingKeeps DEF SettingsTypeOK
<1>5. FactoryInv'
  BY <1>1, <1>2, ReadingStep DEF FactoryInv, Clean, Reading
<1> QED  BY <1>1, ReadingStep, <1>3, <1>4, <1>5 DEF Kept

\* An exception while a setting is read, from the creation or from the source;
\* a driver that was made with all settings in the file finds them.
LEMMA ReadingFails ==
    ASSUME SettingsInv, Reading, CreationFails,
           \/ Got(Creator) /\ ~Has(Creator, building) /\ UNCHANGED disturbed
           \/ /\ CreateFails(Creator) \/ GetSourceThrows(Creator, "database")
              /\ disturbed' = (disturbed \/ building # "dialect")
    PROVE  SettingsInv'
<1> USE DatabaseSettingsAssumption
    DEF SettingsInv, CreationFails, beans, settingsCounters
<1>1. boot = "started" /\ boot' = boot /\ building' = "no" /\ disturbed' \in BOOLEAN
  BY DEF ReadingInv, SettingsTypeOK
<1>2. SettingsTypeOK'
  BY <1>1, ReadingStep DEF Kept, SettingsTypeOK
<1>3. MainInv' /\ MarkInv' /\ ReadingInv'
  BY <1>1, ReadingKeeps DEF SettingsTypeOK
<1>4. torn = {} /\ Clean /\ ~disturbed' => building = "dialect"
  <2> SUFFICES ASSUME torn = {}, Clean, ~disturbed', building \in {"driver", "url"}
               PROVE  FALSE
    BY DEF Reading
  <2>0. Got(Creator) /\ ~Has(Creator, building)
    OBVIOUS
  <2>1. Creator = "directory" /\ at["directory"] = "using" /\ reload = "no"
    BY <2>0, ReadingStep DEF Got
  <2>2. on["directory"] = "database"
    BY <2>1 DEF ReadingInv
  <2>3. found["directory"] \in made["database"]
    BY <2>1, <2>2 DEF SourceInv
  <2>4. files["database"] \subseteq memory["database"][found["directory"]]
    BY <2>1, <2>3 DEF CopyInv, Clean, Refreshing
  <2>5. building \in files["database"]
    BY DEF FactoryInv, DatabaseKeys
  <2> QED  BY <2>0, <2>1, <2>2, <2>4, <2>5 DEF Has
<1>5. FactoryInv'
  BY <1>1, <1>4, ReadingStep DEF FactoryInv, Clean, Reading
<1> QED  BY ReadingStep, <1>2, <1>3, <1>5 DEF Kept

LEMMA MissingStep ==
    ASSUME SettingsInv, MissingSetting \/ SourceMissing
    PROVE  SettingsInv'
<1>1. Reading
  BY DEF MissingSetting, SourceMissing, Reading
<1> QED  BY <1>1, ReadingFails DEF MissingSetting, SourceMissing

LEMMA ExceptionStep ==
    ASSUME SettingsInv, CreationMeetsException
    PROVE  SettingsInv'
<1> USE DatabaseSettingsAssumption
    DEF SettingsInv, CreationFails, beans, settingsCounters
<1>1. CASE /\ building \in {"dataSource", "factory"} /\ Overlaps(Creator)
           /\ UNCHANGED <<sourceVars, disturbed>> /\ CreationFails
  <2>1. Kept'
    BY <1>1, Beginning, NothingKeeps
  <2>2. SettingsTypeOK'
    BY <1>1, <2>1 DEF Kept, SettingsTypeOK
  <2>3. boot = "started"
    BY <1>1, Beginning DEF Overlaps, MainInv
  <2>0. UNCHANGED <<files, made, memory, source, watched, at, on, found,
                    changed, reload, reloaded, stored, crossed, torn>>
    BY <1>1
    DEF sourceVars, configurations, lists, places, refreshing, settingsHistory
  <2>4. MainInv'
    BY <1>1, <2>0, <2>3 DEF MainInv
  <2>5. MarkInv'
    BY <1>1, <2>0, <2>3 DEF MarkInv, Known, Filed, Cleared, Saves
  <2>6. ReadingInv' /\ FactoryInv'
    BY <1>1, <2>0, <2>3 DEF ReadingInv, FactoryInv, Clean, Reading
  <2> QED  BY <2>1, <2>2, <2>4, <2>5, <2>6 DEF Kept
<1>2. CASE /\ building \in {"driver", "url", "dialect"}
           /\ GetSourceThrows(Creator, "database")
           /\ disturbed' = (disturbed \/ building # "dialect")
           /\ CreationFails
  BY <1>2, ReadingFails DEF Reading
<1> QED  BY <1>1, <1>2 DEF CreationMeetsException

-----------------------------------------------------------------------------
(* The other actions.                                                      *)

\* The steps of getSource(), from where the creation, the installer and the
\* requests are.
LEMMA SourceStep ==
    ASSUME SettingsInv, NEW u \in Users, NEW m \in Modules, GetSource(u, m)
    PROVE  SettingsInv'
<1> USE DatabaseSettingsAssumption DEF SettingsInv, GetSource
<1> UNCHANGED <<creation, actors, settingsCounters>>
  OBVIOUS
<1> USE DEF creation, beans, actors, settingsCounters
<1>1. Kept'
  <2>1. UNCHANGED settingEdits
    OBVIOUS
  <2>2. ASSUME AddReloader(u) PROVE Kept'
    <3>1. u = "directory" /\ at[u] # "idle" => on[u] # Default
      BY DEF ReadingInv
    <3> QED
      BY <2>1, <2>2, <3>1, Beginning, RegisterKeeps, UnwatchedKeeps
      DEF AddReloader, RegisterUnwatched
  <2> QED
    BY <2>1, <2>2, Beginning, SearchKeeps, CreateKeeps, PlaceKeeps
<1>2. SettingsTypeOK'
  BY <1>1 DEF Kept, SettingsTypeOK
<1>3. /\ u = "directory" => m = "database" /\ Reading
      /\ u = "main" => m = "dspace" /\ boot = "init"
      /\ boot = "started" \/ u = "main"
  BY Beginning DEF NeedsSource, MainInv, ReadingInv, Reading, Creator
<1>4. /\ \A v \in Users \ {u} : at'[v] = at[v] /\ on'[v] = on[v]
      /\ UNCHANGED <<files, changed, reload, reloaded, stored, torn>>
      /\ crossed \subseteq crossed'
      /\ at[u] # "saving" /\ at'[u] # "saving"
  BY DEF Search, Create, AddReloader, Register, RegisterUnwatched, Place, GoOn,
         configurations, lists, refreshing, settingsHistory, SettingsTypeOK,
         SourcesTypeOK
<1>9. /\ \A v \in Users : Saves(v, "dspace")' <=> Saves(v, "dspace")
      /\ Cleared("dspace")' <=> Cleared("dspace")
      /\ Filed' <=> Filed
  BY <1>4 DEF Saves, Cleared, Filed
<1>10. ASSUME UNCHANGED made, UNCHANGED memory PROVE MarkInv'
  BY <1>4, <1>9, <1>10 DEF MarkInv, Known
<1>11. ASSUME on'[u] = "database" \/ u # "directory" PROVE ReadingInv'
  BY <1>3, <1>4, <1>11 DEF ReadingInv, Reading
<1>12. FactoryInv'
  BY <1>4 DEF FactoryInv, Clean, Reading
<1>5. CASE Search(u, m)
  <2>1. /\ at'[u] = IF source[m] = Nobody THEN "creating" ELSE "using"
        /\ on'[u] = m /\ UNCHANGED <<made, memory, source, watched>>
    BY <1>5 DEF Search, GoOn, configurations, lists, settingsHistory,
                SettingsTypeOK, SourcesTypeOK
  <2>2. MainInv'
    <3>1. source["dspace"] # Nobody => source["dspace"] = "main"
      BY DEF MainInv, SourceInv
    <3> QED
      BY <1>3, <1>4, <2>1, <3>1, PropertySourcesAssumption DEF MainInv
  <2> QED  BY <1>1, <1>2, <1>3, <1>10, <1>11, <1>12, <2>1, <2>2 DEF Kept
<1>6. CASE Create(u)
  <2>1. /\ at[u] = "creating" /\ at'[u] = "registering"
        /\ on[u] \in Modules
        /\ made'[on[u]] = made[on[u]] \cup {u}
        /\ memory'[on[u]][u] = files[on[u]]
        /\ \A n \in Modules \ {on[u]} :
              made'[n] = made[n] /\ memory'[n] = memory[n]
        /\ UNCHANGED <<on, source, watched>>
    BY <1>6 DEF Create, GoOn, lists, SettingsTypeOK, SourcesTypeOK
  <2>2. on[u] = "dspace" => u = "main" /\ boot = "init"
    BY <2>1 DEF MainInv
  <2>3. MainInv'
    BY <1>3, <1>4, <2>1, <2>2 DEF MainInv
  <2>4. MarkInv'
    <3>1. CASE on[u] = "dspace"
      <4>1. Known' <=> Filed
        BY <2>1, <2>2, <3>1 DEF Known, Filed
      <4>2. boot # "started"
        BY <2>2, <3>1
      <4> QED  BY <1>4, <1>9, <4>1, <4>2 DEF MarkInv
    <3>2. CASE on[u] # "dspace"
      <4>1. made'["dspace"] = made["dspace"] /\ (Known' <=> Known)
        BY <2>1, <3>2 DEF Known
      <4> QED  BY <1>4, <1>9, <4>1 DEF MarkInv
    <3> QED  BY <3>1, <3>2
  <2>5. ReadingInv'
    BY <1>11, <2>1 DEF ReadingInv
  <2> QED  BY <1>1, <1>2, <1>12, <2>3, <2>4, <2>5 DEF Kept
<1>7. CASE AddReloader(u)
  <2>1. /\ at[u] = "registering" /\ at'[u] = "placing"
        /\ UNCHANGED <<made, memory, on, source>>
    BY <1>7 DEF AddReloader, Register, RegisterUnwatched, GoOn, lists,
                configurations, settingsHistory,
                SettingsTypeOK, SourcesTypeOK
  <2>2. MainInv'
    BY <1>3, <1>4, <2>1 DEF MainInv
  <2>3. ReadingInv'
    BY <1>11, <2>1 DEF ReadingInv
  <2> QED  BY <1>1, <1>2, <1>10, <1>12, <2>1, <2>2, <2>3 DEF Kept
<1>8. CASE Place(u)
  <2>1. /\ at[u] = "placing" /\ at'[u] = "using" /\ on[u] \in Modules
        /\ source'[on[u]] = u
        /\ \A n \in Modules \ {on[u]} : source'[n] = source[n]
        /\ UNCHANGED <<made, memory, on, watched>>
    BY <1>8 DEF Place, GoOn, configurations, settingsHistory,
                SettingsTypeOK, SourcesTypeOK
  <2>2. on[u] = "dspace" => u = "main" /\ boot = "init"
    BY <2>1 DEF MainInv
  <2>3. MainInv'
    BY <1>3, <1>4, <2>1, <2>2 DEF MainInv
  <2>4. ReadingInv'
    BY <1>11, <2>1 DEF ReadingInv
  <2> QED  BY <1>1, <1>2, <1>10, <1>12, <2>1, <2>3, <2>4 DEF Kept
<1> QED  BY <1>5, <1>6, <1>7, <1>8

LEMMA HandlerStep ==
    ASSUME SettingsInv, RegisterMarkHandler
    PROVE  SettingsInv'
<1> USE DatabaseSettingsAssumption DEF SettingsInv, RegisterMarkHandler
<1> USE DEF creation, beans, settingsCounters
<1>1. Kept'
  BY Beginning, GotKeeps
<1>2. SettingsTypeOK'
  BY <1>1 DEF Kept, SettingsTypeOK
<1>3. /\ at["main"] = "using" /\ at'["main"] = "idle"
      /\ \A u \in Users \ {"main"} : at'[u] = at[u]
      /\ UNCHANGED <<files, made, memory, source, watched, on, found, changed,
                     reload, reloaded, stored, crossed, torn>>
  BY DEF Got, GoOn, configurations, lists, refreshing, settingsHistory,
         SettingsTypeOK, SourcesTypeOK
<1>4. MainInv'
  BY <1>3 DEF MainInv
<1>5. watched["dspace"] = "main" /\ "main" \in made["dspace"]
  <2>1. on["main"] = "dspace"
    BY <1>3 DEF MainInv
  <2>2. watched["dspace"] # Nobody
    BY <1>3, <2>1 DEF SourceInv
  <2> QED  BY <2>2 DEF SourceInv, MainInv
<1>6. MarkInv'
  <2>1. /\ ~Cleared("dspace") /\ ~Cleared("dspace")'
        /\ (Known' <=> Known) /\ (Filed' <=> Filed) /\ (remembered' <=> Known)
        /\ \A u \in Users : ~Saves(u, "dspace") /\ ~Saves(u, "dspace")'
        /\ building' = "no" /\ bootMarked' = bootMarked
    BY <1>3, <1>5 DEF MainInv, Cleared, Known, Filed, Saves
  <2> QED  BY <1>3, <1>5, <2>1 DEF MarkInv
<1>7. ReadingInv' /\ FactoryInv'
  BY <1>3 DEF ReadingInv, FactoryInv, Clean, Reading, MainInv
<1> QED  BY <1>1, <1>2, <1>4, <1>6, <1>7 DEF Kept

LEMMA TheProgram ==
    /\ Len(Program) = 4
    /\ \A i \in 1..4 : Program[i] \in Settings /\ ModuleOf(Program[i]) \in Modules
BY DatabaseSettingsAssumption DEF Program, ModuleOf

LEMMA HandOverStep ==
    ASSUME SettingsInv, HandOverInstallation
    PROVE  SettingsInv'
<1> USE DEF SettingsInv, HandOverInstallation
<1> USE DEF creation, beans, settingsCounters
<1>1. Kept'
  BY Beginning, NothingKeeps
<1>2. SettingsTypeOK'
  BY <1>1, TheProgram DEF Kept, SettingsTypeOK
<1>3. MainInv'
  BY DEF MainInv, sourceVars, configurations, lists, places, refreshing
<1>4. MarkInv'
  BY DEF MarkInv, Known, Filed, Cleared, Saves, sourceVars, configurations,
         places, refreshing, settingsHistory
<1>5. ReadingInv' /\ FactoryInv'
  BY DEF ReadingInv, FactoryInv, Clean, Reading, sourceVars, places,
         settingsHistory
<1> QED  BY <1>1, <1>2, <1>3, <1>4, <1>5 DEF Kept

\* Storing a setting puts the mark into memory first and then into the file,
\* or leaves it where it is; the other settings of the file stay.
LEMMA StoredStep ==
    ASSUME SettingsInv, NEW u \in {"installer", "request"},
           NEW k \in Settings, boot = "started",
           SetSetting(u, k) \/ Save(u) \/ Got(u) \/ CreateFails(u),
           UNCHANGED <<creation, settingsCounters>>,
           UNCHANGED <<boot, remembered>>,
           request' # "none", at'["installer"] = "saving" => job' \in 1..4
    PROVE  Kept' /\ MainInv' /\ MarkInv' /\ ReadingInv' /\ FactoryInv'
<1> USE DatabaseSettingsAssumption DEF SettingsInv
<1> USE DEF creation, beans, settingsCounters
<1> DEFINE m == on[u]
           v == found[u]
<1>1. Kept'
  BY Beginning, SetKeeps, SaveKeeps, GotKeeps, CreateFailsKeeps
<1>2. /\ at[u] \in {"using", "saving", "creating"} /\ at'[u] \in {"idle", "saving"}
      /\ \A w \in Users \ {u} : at'[w] = at[w]
      /\ UNCHANGED <<made, source, watched, on, found, reload, reloaded, crossed>>
      /\ torn \subseteq torn'
  BY DEF SetSetting, Save, Got, CreateFails, GoOn, configurations, lists,
         refreshing, settingsHistory, SettingsTypeOK, SourcesTypeOK
<1>3. MainInv'
  BY <1>2 DEF MainInv
<1>4. ReadingInv'
  BY <1>2 DEF ReadingInv, Reading
<1>5. /\ m \in Modules
      /\ at[u] \in {"using", "saving"} => v \in made[m] /\ v \in Users
      /\ "main" \in made["dspace"] /\ watched["dspace"] = "main"
      /\ made["dspace"] \subseteq {"main"}
  <2>1. "main" \in made["dspace"] /\ watched["dspace"] = "main"
    BY Beginning
  <2>2. made["dspace"] \subseteq {"main"}
    BY DEF MainInv
  <2>3. m \in Modules /\ made[m] \subseteq Users
    BY DEF SettingsTypeOK, SourcesTypeOK
  <2>4. at[u] \in {"using", "saving"} => v \in made[m]
    BY DEF SourceInv
  <2> QED  BY <2>1, <2>2, <2>3, <2>4
<1>6. /\ Cleared("dspace")' <=> Cleared("dspace")
      /\ \A w \in Users \ {u} : Saves(w, "dspace")' <=> Saves(w, "dspace")
  BY <1>2 DEF Cleared, Saves
<1>7. CASE Got(u) \/ CreateFails(u)
  <2>1. UNCHANGED <<files, memory, torn>> /\ at[u] # "saving" /\ at'[u] # "saving"
    BY <1>2, <1>7 DEF Got, CreateFails, configurations, settingsHistory, GoOn,
       SettingsTypeOK, SourcesTypeOK
  <2>2. MarkInv'
    <3>1. \A w \in Users : Saves(w, "dspace")' <=> Saves(w, "dspace")
      BY <1>6, <2>1 DEF Saves
    <3> QED  BY <1>2, <1>6, <2>1, <3>1 DEF MarkInv, Known, Filed
  <2>3. FactoryInv'
    BY <1>2, <2>1 DEF FactoryInv, Clean, Reading
  <2> QED  BY <1>1, <1>3, <1>4, <2>2, <2>3
<1>8. CASE SetSetting(u, k)
  <2>1. /\ at[u] = "using" /\ files' = files
        /\ memory'[m][v] = memory[m][v] \cup {k}
        /\ \A n \in Modules \ {m} : memory'[n] = memory[n]
        /\ IF Refreshing(m) /\ watched[m] = v
           THEN m \in torn' ELSE at'[u] = "saving"
    BY <1>5, <1>8 DEF SetSetting, GoOn, AutoSaveOff, Refreshing, SettingsTypeOK,
       SourcesTypeOK
  <2>2. MarkInv'
    <3> SUFFICES ASSUME "dspace" \notin torn' PROVE MarkInv'
      BY DEF MarkInv
    <3>1. MarkInv /\ "dspace" \notin torn /\ (Filed' <=> Filed)
      BY <1>2, <2>1 DEF Filed
    <3>2. CASE m = "dspace"
      <4>1. v = "main"
        BY <1>5, <2>1, <3>2
      <4>2. ~Cleared("dspace") /\ Saves(u, "dspace")' /\ (Known => Known')
        BY <1>2, <1>5, <2>1, <3>2, <4>1 DEF Refreshing, Cleared, Saves, Known
      <4> QED  BY <1>2, <1>6, <3>1, <4>2 DEF MarkInv
    <3>3. CASE m # "dspace"
      <4>1. (Known' <=> Known) /\ (Saves(u, "dspace")' <=> Saves(u, "dspace"))
        BY <1>2, <2>1, <3>3 DEF Known, Saves
      <4> QED  BY <1>2, <1>6, <3>1, <4>1 DEF MarkInv
    <3> QED  BY <3>2, <3>3
  <2>3. FactoryInv'
    BY <1>2, <2>1 DEF FactoryInv, Clean, Reading
  <2> QED  BY <1>1, <1>3, <1>4, <2>2, <2>3
<1>9. CASE Save(u)
  <2>1. /\ at[u] = "saving" /\ UNCHANGED <<memory, torn>>
        /\ files'[m] = memory[m][v]
        /\ \A n \in Modules \ {m} : files'[n] = files[n]
    BY <1>5, <1>9 DEF Save, configurations, SettingsTypeOK, SourcesTypeOK
  <2>2. ASSUME m \notin torn PROVE Refreshing(m) => watched[m] # v
    BY <1>5, <2>1, <2>2 DEF SaveInv, Saves
  <2>3. MarkInv'
    <3> SUFFICES ASSUME "dspace" \notin torn PROVE MarkInv'
      BY <2>1 DEF MarkInv
    <3>1. Known' <=> Known
      BY <2>1 DEF Known
    <3>2. CASE m = "dspace"
      <4>1. v = "main" /\ ~Cleared("dspace")
        BY <1>5, <2>1, <2>2, <3>2 DEF Refreshing, Cleared
      <4>2. Filed' <=> Known
        BY <2>1, <3>2, <4>1 DEF Known, Filed
      <4> QED  BY <1>2, <1>5, <1>6, <3>1, <4>1, <4>2 DEF MarkInv
    <3>3. CASE m # "dspace"
      <4>1. (Filed' <=> Filed) /\ ~Saves(u, "dspace") /\ ~Saves(u, "dspace")'
        BY <1>2, <2>1, <3>3 DEF Filed, Saves
      <4> QED  BY <1>2, <1>6, <3>1, <4>1 DEF MarkInv
    <3> QED  BY <3>2, <3>3
  <2>4. torn = {} /\ Clean => files["database"] \subseteq files'["database"]
    <3> SUFFICES ASSUME torn = {}, Clean, m = "database"
                 PROVE  files[m] \subseteq memory[m][v]
      BY <2>1
    <3>1. \A a \in made[m] : a = v
      BY <1>5, <2>1 DEF CopyInv, Clean
    <3>2. ~Refreshing(m)
      BY <1>5, <2>2, <3>1 DEF SaveInv, SourceInv, Refreshing
    <3> QED  BY <1>5, <2>1, <3>2 DEF CopyInv, Clean
  <2>5. FactoryInv'
    BY <1>2, <2>1, <2>4 DEF FactoryInv, Clean, Reading
  <2> QED  BY <1>1, <1>3, <1>4, <2>3, <2>5
<1> QED  BY <1>7, <1>8, <1>9

LEMMA StoreStep ==
    ASSUME SettingsInv, StoreSetting \/ SaveSetting \/ StoreNothing
    PROVE  SettingsInv'
<1> USE TheProgram DEF StoreSetting, SaveSetting, StoreNothing
<1>1. job \in 1..4
  BY DEF SettingsInv, MainInv, Save, SettingsTypeOK
<1>2. boot = "started" /\ request # "none" /\ request' = request
  BY <1>1 DEF SettingsInv, MainInv
<1>3. Program[job] \in Settings
  BY <1>1
<1>4. \/ SetSetting("installer", Program[job])
      \/ Save("installer") \/ Got("installer") \/ CreateFails("installer")
  BY DEF AddSetting
<1>5. at'["installer"] = "saving" => job' \in 1..4
  <2>1. CASE StoreSetting
    BY <1>1, <2>1
  <2>2. CASE SaveSetting \/ StoreNothing
    <3>1. at'["installer"] # "saving"
      BY <2>2, DatabaseSettingsAssumption
      DEF Save, CreateFails, GoOn, SettingsInv, SettingsTypeOK, SourcesTypeOK
    <3> QED  BY <3>1
  <2> QED  BY <2>1, <2>2
<1>6. Kept' /\ MainInv' /\ MarkInv' /\ ReadingInv' /\ FactoryInv'
  BY <1>2, <1>3, <1>4, <1>5, StoredStep
<1>7. SettingsTypeOK'
  <2>1. job' \in 0..6
    BY <1>1
  <2> QED
    BY <1>6, <2>1
    DEF Kept, SettingsInv, SettingsTypeOK, creation, beans, settingsCounters
<1> QED  BY <1>6, <1>7 DEF SettingsInv, Kept

LEMMA MarkStep ==
    ASSUME SettingsInv, MarkInstalled \/ SaveMark
    PROVE  SettingsInv'
<1> USE DEF MarkInstalled, SaveMark
<1>1. boot = "started"
  <2>1. request = "handed" \/ at["request"] = "saving"
    BY DEF Save
  <2>2. "request" \in Users \ {"main"} /\ boot \in {"context", "init", "started"}
    BY DatabaseSettingsAssumption DEF SettingsInv, SettingsTypeOK, MainInv
  <2> QED  BY <2>1, <2>2 DEF SettingsInv, MainInv
<1>2. "installed" \in Settings /\ at'["installer"] = at["installer"]
  BY DatabaseSettingsAssumption
  DEF SetSetting, Save, GoOn, SettingsInv, SettingsTypeOK, SourcesTypeOK
<1>3. request' \in {"handed", "over"} /\ job' = job
  OBVIOUS
<1>4. Kept' /\ MainInv' /\ MarkInv' /\ ReadingInv' /\ FactoryInv'
  BY <1>1, <1>2, <1>3, StoredStep DEF SettingsInv, MainInv
<1>5. SettingsTypeOK'
  BY <1>3, <1>4
  DEF Kept, SettingsInv, SettingsTypeOK, creation, beans, settingsCounters
<1> QED  BY <1>4, <1>5 DEF SettingsInv, Kept

\* An exception in the installer or in a request.
LEMMA ThrownStep ==
    ASSUME SettingsInv, NEW u \in {"installer", "request"},
           NEW m \in Modules, boot = "started", GetSourceThrows(u, m),
           UNCHANGED <<creation, settingsCounters>>,
           UNCHANGED <<boot, remembered>>,
           request' # "none", u # "installer" => job' = job
    PROVE  Kept' /\ MainInv' /\ MarkInv' /\ ReadingInv' /\ FactoryInv'
<1> USE DatabaseSettingsAssumption DEF SettingsInv
<1> USE DEF creation, beans, settingsCounters
<1>1. Kept'
  BY Beginning, ThrowKeeps
<1>2. /\ at'[u] = "idle" /\ at[u] # "saving"
      /\ \A v \in Users \ {u} : at'[v] = at[v]
      /\ UNCHANGED <<files, made, memory, source, watched, on, found, reload,
                     reloaded, crossed, torn>>
  BY DEF GetSourceThrows, GoOn, configurations, lists, refreshing,
         settingsHistory, SettingsTypeOK, SourcesTypeOK
<1>3. MainInv'
  BY <1>2 DEF MainInv
<1>4. MarkInv'
  <2>1. \A w \in Users : Saves(w, "dspace")' <=> Saves(w, "dspace")
    BY <1>2 DEF Saves
  <2> QED  BY <1>2, <2>1 DEF MarkInv, Known, Filed, Cleared
<1>5. ReadingInv' /\ FactoryInv'
  BY <1>2 DEF ReadingInv, FactoryInv, Clean, Reading
<1> QED  BY <1>1, <1>3, <1>4, <1>5

LEMMA ThrowsStep ==
    ASSUME SettingsInv, InstallerThrows \/ RequestThrows
    PROVE  SettingsInv'
<1> USE DEF InstallerThrows, RequestThrows
<1>1. boot = "started" /\ request' # "none"
  BY TheProgram DEF SettingsInv, MainInv, SettingsTypeOK
<1>2. /\ "dspace" \in Modules
      /\ \A i \in 1..Len(Program) : ModuleOf(Program[i]) \in Modules
  BY DatabaseSettingsAssumption, TheProgram
<1>3. Kept' /\ MainInv' /\ MarkInv' /\ ReadingInv' /\ FactoryInv'
  BY <1>1, <1>2, ThrownStep
<1>4. SettingsTypeOK'
  BY <1>3, TheProgram
  DEF Kept, SettingsInv, SettingsTypeOK, creation, beans, settingsCounters
<1> QED  BY <1>3, <1>4 DEF SettingsInv, Kept

LEMMA CheckStep ==
    ASSUME SettingsInv, NEW m \in Modules, CheckFile(m)
    PROVE  SettingsInv'
<1> USE DatabaseSettingsAssumption DEF SettingsInv, CheckFile
<1> USE DEF creation, beans, actors, settingsCounters
<1>1. Kept'
  BY Beginning, ReloadKeeps
<1>2. SettingsTypeOK'
  BY <1>1 DEF Kept, SettingsTypeOK
<1>3. /\ UNCHANGED <<files, made, memory, source, watched, at, on, found,
                     stored, crossed>>
      /\ torn \subseteq torn'
      /\ ~Cleared("dspace") /\ ~Cleared("dspace")'
  BY DEF Reload, configurations, lists, places, settingsHistory, Cleared
<1>4. MainInv'
  BY <1>3 DEF MainInv
<1>5. MarkInv'
  BY <1>3 DEF MarkInv, Known, Filed, Saves
<1>6. ReadingInv' /\ FactoryInv'
  BY <1>3 DEF ReadingInv, FactoryInv, Clean, Reading
<1> QED  BY <1>1, <1>2, <1>4, <1>5, <1>6 DEF Kept

LEMMA RefreshStep ==
    ASSUME SettingsInv, RefreshConfiguration
    PROVE  SettingsInv'
<1> USE DatabaseSettingsAssumption DEF SettingsInv, RefreshConfiguration
<1> USE DEF creation, beans, actors, settingsCounters
<1>1. Kept'
  BY Beginning, ClearKeeps, LoadKeeps
<1>2. SettingsTypeOK'
  BY <1>1 DEF Kept, SettingsTypeOK
<1>3. /\ UNCHANGED <<files, made, source, watched, at, on, found, reloaded,
                     stored, crossed>>
      /\ torn \subseteq torn' /\ reload # "no"
  BY DEF Clear, Load, lists, places, settingsHistory
<1>4. MainInv'
  BY <1>3 DEF MainInv
<1>5. /\ boot = "started" /\ building = "no" /\ watched["dspace"] = "main"
      /\ "main" \in made["dspace"] /\ made["dspace"] \subseteq {"main"}
  BY <1>3, Beginning DEF MainInv
<1>6. /\ Filed' <=> Filed
      /\ \A u \in Users : Saves(u, "dspace")' <=> Saves(u, "dspace")
  BY <1>3 DEF Filed, Saves
<1>7. MarkInv'
  <2> SUFFICES ASSUME "dspace" \notin torn' PROVE MarkInv'
    BY DEF MarkInv
  <2>1. CASE Clear /\ reloaded = "dspace"
    <3>1. ~Known' /\ Cleared("dspace")' /\ ~Cleared("dspace") /\ Refreshing("dspace")
      BY <1>5, <2>1 DEF Clear, Known, Cleared, Refreshing, SettingsTypeOK,
         SourcesTypeOK
    <3>2. \A u \in Users : ~Saves(u, "dspace")
      <4>1. \A u \in Users : Saves(u, "dspace") => found[u] \in made["dspace"]
        BY DEF SourceInv, Saves
      <4> QED  BY <1>3, <1>5, <3>1, <4>1 DEF SaveInv
    <3> QED  BY <1>3, <1>5, <1>6, <3>1, <3>2 DEF MarkInv
  <2>2. CASE Load /\ reloaded = "dspace"
    <3>1. memory'["dspace"]["main"] = memory["dspace"]["main"] \cup files["dspace"]
      BY <1>5, <2>2 DEF Load, SettingsTypeOK, SourcesTypeOK
    <3>2. (Known' <=> Known \/ Filed) /\ Cleared("dspace") /\ ~Cleared("dspace")'
      BY <2>2, <3>1 DEF Known, Filed, Load, Cleared
    <3> QED  BY <1>3, <1>5, <1>6, <3>2 DEF MarkInv
  <2>3. CASE reloaded # "dspace"
    <3>1. memory'["dspace"] = memory["dspace"]
      BY <2>3 DEF Clear, Load, SettingsTypeOK, SourcesTypeOK
    <3>2. (Known' <=> Known) /\ ~Cleared("dspace") /\ ~Cleared("dspace")'
      BY <1>3, <2>3, <3>1 DEF Known, Cleared
    <3> QED  BY <1>3, <1>6, <3>2 DEF MarkInv
  <2> QED  BY <2>1, <2>2, <2>3
<1>8. ReadingInv' /\ FactoryInv'
  BY <1>3 DEF ReadingInv, FactoryInv, Clean, Reading
<1> QED  BY <1>1, <1>2, <1>4, <1>7, <1>8 DEF Kept

LEMMA CompareStep ==
    ASSUME SettingsInv, CompareMark
    PROVE  SettingsInv'
<1> USE DatabaseSettingsAssumption DEF SettingsInv, CompareMark
<1> USE DEF beans, actors, settingsCounters
<1>1. Kept'
  BY Beginning, CheckedKeeps
<1>2. SettingsTypeOK'
  BY <1>1 DEF Kept, SettingsTypeOK
<1>3. /\ UNCHANGED <<files, made, memory, source, watched, at, on, found,
                     stored, crossed, torn>>
      /\ reload = "loaded" /\ reload' = "no"
  BY DEF Checked, configurations, lists, places, settingsHistory
<1>4. /\ boot = "started" /\ building = "no" /\ watched["dspace"] = "main"
      /\ building' \in {"no", "dataSource"}
      /\ building' # "no" => (Known # remembered)
  BY <1>3, Beginning DEF MainInv, Known
<1>5. MainInv'
  BY <1>3, <1>4 DEF MainInv
<1>6. MarkInv'
  <2>1. /\ ~Cleared("dspace") /\ ~Cleared("dspace")'
        /\ (Known' <=> Known) /\ (Filed' <=> Filed)
        /\ \A u \in Users : Saves(u, "dspace")' <=> Saves(u, "dspace")
    BY <1>3 DEF Cleared, Known, Filed, Saves
  <2>2. "dspace" \notin torn /\ building' # "no" => Known /\ ~remembered
    <3> SUFFICES ASSUME "dspace" \notin torn, Known # remembered
                 PROVE  Known /\ ~remembered
      BY <1>4
    <3>1. remembered => Known
      BY <2>1 DEF MarkInv
    <3>2. remembered \in BOOLEAN /\ Known \in BOOLEAN
      BY DEF SettingsTypeOK, Known
    <3> QED  BY <3>1, <3>2
  <2> QED  BY <1>3, <1>4, <2>1, <2>2 DEF MarkInv
<1>7. ReadingInv' /\ FactoryInv'
  BY <1>3, <1>4 DEF ReadingInv, FactoryInv, Clean, Reading
<1> QED  BY <1>1, <1>2, <1>5, <1>6, <1>7 DEF Kept

LEMMA EditStep ==
    ASSUME SettingsInv, NEW k \in Settings \ {"installed"}, EditSettings(k)
    PROVE  SettingsInv'
<1> USE DatabaseSettingsAssumption DEF SettingsInv, EditSettings
<1> USE DEF creation, beans, actors
<1> DEFINE m == ModuleOf(k)
<1>0. m \in Modules /\ k \in Settings
  BY DEF ModuleOf
<1>10. settingEdits \in Nat /\ settingEdits' = settingEdits + 1
  BY DEF SettingsTypeOK
<1>1. settingEdits' # 0 /\ settingEdits' \in 0..MaxEdits
  BY <1>10
<1>2. Kept'
  BY <1>0, <1>1, Beginning, EditKeeps
<1>3. SettingsTypeOK'
  BY <1>1, <1>2 DEF Kept, SettingsTypeOK
<1>4. /\ "installed" \in files'["dspace"] <=> "installed" \in files["dspace"]
      /\ UNCHANGED <<made, memory, source, watched, at, on, found, reload,
                     reloaded, torn>>
  BY DEF EditFile, configurations, lists, places, SettingsTypeOK, SourcesTypeOK
<1>5. MainInv'
  BY <1>4 DEF MainInv
<1>6. MarkInv'
  BY <1>4 DEF MarkInv, Known, Filed, Cleared, Saves
<1>7. ReadingInv' /\ FactoryInv'
  BY <1>1, <1>4 DEF ReadingInv, FactoryInv, Clean, Reading
<1> QED  BY <1>2, <1>3, <1>5, <1>6, <1>7 DEF Kept

\* A process that begins has made nothing.
LEMMA Restart ==
    ASSUME SettingsInv, RestartProcess
    PROVE  SettingsInv'
<1> USE DatabaseSettingsAssumption, PropertySourcesAssumption
    DEF SettingsInv, RestartProcess, BeginsAgain
<1>1. SourcesTypeOK'
  BY DEF SettingsTypeOK, SourcesTypeOK
<1>2. SettingsTypeOK'
  <2>1. restarts' \in 0..MaxRestarts /\ settingEdits' \in 0..MaxEdits
    BY DEF SettingsTypeOK
  <2>2. job' \in 0..Len(Program) + 2
    BY TheProgram
  <2>3. driverMade' = FALSE /\ remembered' = FALSE /\ disturbed' = FALSE
    OBVIOUS
  <2> HIDE DEF RestartProcess, SettingsInv, BeginsAgain
  <2>5. bootMarked' \in BOOLEAN
    <3>1. bootMarked' = ("installed" \in files["dspace"])
      BY DEF RestartProcess
    <3>2. \A P \in BOOLEAN : bootMarked' = P => bootMarked' \in BOOLEAN
      OBVIOUS
    <3>3. ("installed" \in files["dspace"]) \in BOOLEAN
      OBVIOUS
    <3> QED  BY <3>1, <3>2, <3>3
  <2>4. /\ boot' = "context" /\ building' = "dataSource" /\ driver' = {}
        /\ dataSource' = "null" /\ factory' = "null" /\ request' = "none"
    BY DEF RestartProcess
  <2> QED  BY <1>1, <2>1, <2>2, <2>3, <2>4, <2>5 DEF SettingsTypeOK
<1>3. SourceInv' /\ SaveInv' /\ CopyInv'
  BY DEF SourceInv, SaveInv, CopyInv, Cleared, Refreshing
<1>4. MainInv' /\ MarkInv'
  BY DEF MainInv, MarkInv, Filed, Known, Cleared
<1>5. ReadingInv' /\ FactoryInv'
  BY DEF ReadingInv, FactoryInv, Clean, Reading
<1> QED  BY <1>2, <1>3, <1>4, <1>5

LEMMA Start ==
    ASSUME SettingsInit
    PROVE  SettingsInv
<1> USE DatabaseSettingsAssumption, PropertySourcesAssumption
    DEF SettingsInit, Begins
<1>1. SettingsTypeOK
  <2>1. SourcesTypeOK
    BY DEF SourcesTypeOK
  <2>2. job \in 0..Len(Program) + 2
    BY TheProgram
  <2>3. settingEdits \in 0..MaxEdits /\ restarts \in 0..MaxRestarts
    OBVIOUS
  <2> QED  BY <2>1, <2>2, <2>3 DEF SettingsTypeOK
<1>2. SourceInv /\ SaveInv /\ CopyInv
  BY DEF SourceInv, SaveInv, CopyInv, Cleared, Refreshing
<1>3. MainInv /\ MarkInv
  BY DEF MainInv, MarkInv, Filed, Known, Cleared
<1>4. ReadingInv /\ FactoryInv
  BY DEF ReadingInv, FactoryInv, Clean, Reading
<1> QED  BY <1>1, <1>2, <1>3, <1>4 DEF SettingsInv

-----------------------------------------------------------------------------
(* The theorems.                                                           *)

LEMMA Always == SettingsSpec => []SettingsInv
<1>1. SettingsInit => SettingsInv
  BY Start
<1>2. SettingsInv /\ [SettingsNext]_settingsVars => SettingsInv'
  <2> SUFFICES ASSUME SettingsInv, [SettingsNext]_settingsVars
               PROVE  SettingsInv'
    OBVIOUS
  <2>1. CASE SettingsNext
    BY <2>1, DataSourceStep, DriverStep, UrlStep, FactoryStep, DialectStep,
       MissingStep, ExceptionStep, SourceStep, HandlerStep, HandOverStep,
       StoreStep, MarkStep, ThrowsStep, CheckStep, RefreshStep, CompareStep,
       EditStep, Restart
    DEF SettingsNext
  <2>2. CASE UNCHANGED settingsVars
    <3> USE <2>2 DEF settingsVars, creation, beans, actors, settingsCounters
    <3>1. Kept' /\ UNCHANGED sourceVars
      BY Beginning, NothingKeeps
    <3>2. SettingsTypeOK'
      BY <3>1 DEF Kept, SettingsInv, SettingsTypeOK
    <3>3. UNCHANGED <<files, made, memory, source, watched, at, on, found,
                      changed, reload, reloaded, stored, crossed, torn>>
      BY <3>1
      DEF sourceVars, configurations, lists, places, refreshing, settingsHistory
    <3>4. MainInv'
      BY <3>3 DEF SettingsInv, MainInv
    <3>5. MarkInv'
      BY <3>3 DEF SettingsInv, MarkInv, Known, Filed, Cleared, Saves
    <3>6. ReadingInv' /\ FactoryInv'
      BY <3>3 DEF SettingsInv, ReadingInv, FactoryInv, Clean, Reading
    <3> QED  BY <3>1, <3>2, <3>4, <3>5, <3>6 DEF SettingsInv, Kept
  <2> QED  BY <2>1, <2>2
<1> QED  BY <1>1, <1>2, PTL DEF SettingsSpec

\* Sources, beans and the progress of the installation keep their types.
THEOREM SettingsTypeCorrect == SettingsSpec => []SettingsTypeOK
<1>1. SettingsInv => SettingsTypeOK
  BY DEF SettingsInv
<1> QED  BY <1>1, Always, PTL

\* However often the files are edited and the process restarted, a source
\* says what its file says, unless a check is due, its first use was crossed,
\* its file could not be loaded once or a store met its refresh (getSource,
\* addReloader, check).
THEOREM SourcesStayCurrent == SettingsSpec => []SourceIsCurrent
<1>1. SettingsInv => SourceIsCurrent
  BY DEF SettingsInv, SourceInv, CopyInv, SourceIsCurrent, Busy, Refreshing, Saves
<1> QED  BY <1>1, Always, PTL

\* What the program saved is in the file until it is edited, with the same
\* exceptions: there are no other ways to lose it (setProperty, getSource,
\* check).
THEOREM NothingEverLost == SettingsSpec => []NothingLost
<1>1. SettingsInv => NothingLost
  BY DEF SettingsInv, CopyInv, NothingLost
<1> QED  BY <1>1, Always, PTL

\* No process fails in the creation of its first context, whatever its files
\* say (DSpaceDataSourceBuilder.create, isInstalled).
THEOREM FirstContextAlways == SettingsSpec => []FirstContextSucceeds
<1>1. SettingsInv => FirstContextSucceeds
  BY DEF SettingsInv, MainInv, FirstContextSucceeds
<1> QED  BY <1>1, Always, PTL

\* A process that starts with the mark in its file never refreshes its
\* context, as long as dspace.properties is loaded and no store meets its
\* refresh (addHandler, check, RefreshServiceOnChangeHandler).
THEOREM RefreshOnlyByMarkAlways == SettingsSpec => []RefreshOnlyByMark
<1>1. SettingsInv => RefreshOnlyByMark
  BY DEF SettingsInv, MarkInv, RefreshOnlyByMark
<1> QED  BY <1>1, Always, PTL

\* A session factory made after an undisturbed installation has a data source
\* with all of its settings, unless a refresh failed or met a store
\* (DSpaceDataSourceBuilder, DatabaseStep, doFinal).
THEOREM FactoryCompleteAlways == SettingsSpec => []FactoryComplete
<1>1. SettingsInv => FactoryComplete
  BY DEF SettingsInv, FactoryInv, Clean, FactoryComplete
<1> QED  BY <1>1, Always, PTL
=============================================================================
