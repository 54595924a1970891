--------------------------- MODULE DatabaseSettings ---------------------------
(***************************************************************************)
(* From the settings an installation stores to the session factory the     *)
(* DAOs use.  The steps store their settings one after another; doFinal()  *)
(* marks the system as installed as soon as the installation was handed    *)
(* over; the directory thread notices the mark and refreshes the           *)
(* application context, whose beans dataSource and sessionFactory are      *)
(* created from the settings that are there, once for the whole life of    *)
(* the process: driver and factory are kept in static fields.              *)
(*                                                                         *)
(* The context is also created at the start of the process, before any     *)
(* source is in the list: isInstalled() says no then, whatever the file    *)
(* says.                                                                   *)
(*                                                                         *)
(* The handler of the mark remembers Boolean FALSE, which isInstalled()    *)
(* says when it is made, before the source is in the list: so every change *)
(* of the mark refreshes, its loss too.                                    *)
(*                                                                         *)
(* User name and password are left out: they are stored after the url and  *)
(* read after it, and a data source goes without them.                     *)
(***************************************************************************)
EXTENDS PropertySources, Sequences

CONSTANTS
    MaxEdits,     \* bound: edits of the files
    MaxRestarts   \* bound: ends of the process

ASSUME DatabaseSettingsAssumption ==
    /\ Users = {"main", "installer", "request", "directory"}
    /\ Modules = {"dspace", "database"} /\ Default = "dspace"
    /\ Settings = {"installed", "name", "url", "driver", "dialect"}
    /\ MaxEdits \in Nat /\ MaxRestarts \in Nat

\* What GeneralStep and then DatabaseStep store.
Program == <<"name", "url", "driver", "dialect">>
ModuleOf(k) == IF k \in {"installed", "name"} THEN "dspace" ELSE "database"
DatabaseKeys == {"url", "driver", "dialect"}

VARIABLES
    boot,        \* main: "context", "init", "started" or "failed"
    building,    \* where the creation of the beans is, or "no"
    driver,      \* DSpaceDataSourceBuilder.driver: the settings it got
    driverMade,  \* and whether it is there
    dataSource,  \* the bean dataSource: "null" or "driver"
    factory,     \* DSpaceSessionFactoryBuilder.sessionFac: "null", "driver" or
                 \* "sourceless": the data source it was made with
    remembered,  \* whether the reloader's old value of the mark is there
    job,         \* the place in Program, 0 before, beyond its end after, and
                 \* one further when an exception ended it
    request,     \* "none", "handed" or "over"
    bootMarked,  \* history: whether the file had the mark at the start
    disturbed,   \* history: the driver was made before all settings were there,
                 \* while a source was being added, or when none could be made
    settingEdits, restarts  \* counters for the bounds

beans == <<driver, driverMade, dataSource, factory>>
creation == <<building, beans, disturbed>>
actors == <<boot, remembered, job, request>>
settingsCounters == <<bootMarked, settingEdits, restarts>>
settingsVars == <<sourceVars, creation, actors, settingsCounters>>

SettingsTypeOK ==
    /\ SourcesTypeOK
    /\ boot \in {"context", "init", "started", "failed"}
    /\ building \in {"no", "dataSource", "driver", "url", "factory", "dialect"}
    /\ driver \in SUBSET DatabaseKeys /\ driverMade \in BOOLEAN
    /\ dataSource \in {"null", "driver"}
    /\ factory \in {"null", "driver", "sourceless"}
    /\ remembered \in BOOLEAN
    /\ job \in 0..Len(Program) + 2
    /\ request \in {"none", "handed", "over"}
    /\ bootMarked \in BOOLEAN /\ disturbed \in BOOLEAN
    /\ settingEdits \in 0..MaxEdits /\ restarts \in 0..MaxRestarts

\* Starter.main() creates the context, and with it its beans.
SettingsInit ==
    /\ files = [m \in Modules |-> {}]
    /\ Begins
    /\ boot = "context" /\ building = "dataSource"
    /\ driver = {} /\ driverMade = FALSE
    /\ dataSource = "null" /\ factory = "null"
    /\ remembered = FALSE /\ disturbed = FALSE
    /\ job = 0 /\ request = "none"
    /\ bootMarked = FALSE
    /\ settingEdits = 0 /\ restarts = 0

-----------------------------------------------------------------------------
(* The beans dataSource and sessionFactory, created by main at the start   *)
(* and by the directory thread in a refresh.                               *)

\* Fault: isInstalled() looks into the file.
MarkedInFile == "installed" \in files["dspace"]

\* isInstalled() asks the sources that are in the list.
Marked == "installed" \in Environment

Creator == IF boot = "context" THEN "main" ELSE "directory"

\* The context is there; the check that refreshed it goes on and remembers
\* the change of the mark.
CreationEnds ==
    /\ building' = "no"
    /\ boot' = IF boot = "context" THEN "init" ELSE boot
    /\ remembered' = (remembered # (boot = "started"))

\* An exception ends the creation, and with it Starter.main() or the check.
CreationFails ==
    /\ building' = "no"
    /\ boot' = IF boot = "context" THEN "failed" ELSE boot
    /\ UNCHANGED <<beans, remembered, job, request, settingsCounters>>

CreationGoesOn(place) ==
    /\ building' = place
    /\ UNCHANGED <<actors, settingsCounters>>

\* Fault: the driver is handed out before it is configured.
CreateDataSourceLazily ==
    /\ building = "dataSource"
    /\ dataSource' = IF Marked THEN "driver" ELSE "null"
    /\ driverMade' = (driverMade \/ Marked)
    /\ CreationGoesOn("factory")
    /\ UNCHANGED <<sourceVars, driver, factory, disturbed>>

\* DSpaceDataSourceBuilder.create() up to the first setting it reads.
CreateDataSource ==
    /\ building = "dataSource"
    /\ IF Marked /\ ~driverMade
       THEN /\ driverMade' = TRUE
            /\ disturbed' = ~(DatabaseKeys \subseteq files["database"])
            /\ CreationGoesOn("driver")
            /\ UNCHANGED dataSource
       ELSE /\ dataSource' = IF Marked THEN "driver" ELSE "null"
            /\ CreationGoesOn("factory")
            /\ UNCHANGED <<driverMade, disturbed>>
    /\ UNCHANGED <<sourceVars, driver, factory>>

\* setDriverClassName() and setUrl() throw when they are given null.
SetDriver ==
    /\ building = "driver" /\ Got(Creator) /\ Has(Creator, "driver")
    /\ driver' = driver \cup {"driver"}
    /\ CreationGoesOn("url")
    /\ UNCHANGED <<driverMade, dataSource, factory, disturbed>>

SetUrl ==
    /\ building = "url" /\ Got(Creator) /\ Has(Creator, "url")
    /\ driver' = driver \cup {"url"}
    /\ dataSource' = "driver"
    /\ CreationGoesOn("factory")
    /\ UNCHANGED <<driverMade, factory, disturbed>>

\* DSpaceSessionFactoryBuilder.create() up to the dialect.
CreateFactory ==
    /\ building = "factory"
    /\ IF Marked /\ factory = "null"
       THEN CreationGoesOn("dialect")
       ELSE CreationEnds /\ UNCHANGED <<job, request, settingsCounters>>
    /\ UNCHANGED <<sourceVars, beans, disturbed>>

SetDialect ==
    /\ building = "dialect" /\ Got(Creator) /\ Has(Creator, "dialect")
    /\ factory' = IF dataSource = "null" THEN "sourceless" ELSE dataSource
    /\ CreationEnds
    /\ UNCHANGED <<driver, driverMade, dataSource, disturbed, job, request,
                   settingsCounters>>

\* A setting that is missing: the setters and Properties.put() throw.
MissingSetting ==
    /\ building \in {"driver", "url", "dialect"}
    /\ Got(Creator) /\ ~Has(Creator, building)
    /\ CreationFails
    /\ UNCHANGED disturbed

\* The database's source cannot be made: the setting is null.
SourceMissing ==
    /\ building \in {"driver", "url", "dialect"}
    /\ CreateFails(Creator)
    /\ disturbed' = (disturbed \/ building # "dialect")
    /\ CreationFails

\* isInstalled() or getSource() throws.
CreationMeetsException ==
    /\ \/ /\ building \in {"dataSource", "factory"} /\ Overlaps(Creator)
          /\ UNCHANGED <<sourceVars, disturbed>>
       \/ /\ building \in {"driver", "url", "dialect"}
          /\ GetSourceThrows(Creator, "database")
          /\ disturbed' = (disturbed \/ building # "dialect")
    /\ CreationFails

-----------------------------------------------------------------------------
(* The rest of the program.                                                *)

\* addReloader() of the services that were there from the start waits for the
\* lock the directory thread holds while it refreshes the context; what it
\* creates itself uses the new services.
AddReloader(u) ==
    \/ /\ u # "directory"
       /\ Register(u, boot = "context" \/ (building = "no" /\ reload = "no"))
    \/ u = "directory" /\ RegisterUnwatched(u)

NeedsSource(u, m) ==
    \/ /\ u = Creator /\ m = "database"
       /\ building \in {"driver", "url", "dialect"}
    \/ u = "main" /\ m = "dspace" /\ boot = "init"
    \/ /\ u = "installer" /\ job \in 1..Len(Program)
       /\ m = ModuleOf(Program[job])
    \/ u = "request" /\ m = "dspace" /\ request = "handed"

GetSource(u, m) ==
    /\ NeedsSource(u, m)
    /\ Search(u, m) \/ Create(u) \/ AddReloader(u) \/ Place(u)
    /\ UNCHANGED <<creation, actors, settingsCounters>>

\* Fault: what is there at the start is not remembered.
RegisterHandlerBlind ==
    /\ boot = "init" /\ Got("main")
    /\ boot' = "started"
    /\ UNCHANGED <<creation, remembered, job, request, settingsCounters>>

\* WebApplicationService.init() registers the handler of the mark.
RegisterMarkHandler ==
    /\ boot = "init" /\ Got("main")
    /\ boot' = "started"
    /\ remembered' = ("installed" \in memory["dspace"][watched["dspace"]])
    /\ UNCHANGED <<creation, job, request, settingsCounters>>

\* installAction() hands the installation over, or it is dropped.
HandOverInstallation ==
    /\ boot = "started" /\ request = "none" /\ ~Marked
    /\ request' = "handed"
    /\ job' \in {0, 1}
    /\ UNCHANGED <<sourceVars, creation, boot, remembered, settingsCounters>>

\* GeneralStep.install() and DatabaseStep.install(); a setting that is there
\* already, or that finds auto-save off, needs no save.
StoreSetting ==
    /\ job \in 1..Len(Program)
    /\ AddSetting("installer", Program[job])
    /\ job' = IF at'["installer"] = "saving" THEN job ELSE job + 1
    /\ UNCHANGED <<creation, boot, remembered, request, settingsCounters>>

SaveSetting ==
    /\ Save("installer")
    /\ job' = job + 1
    /\ UNCHANGED <<creation, boot, remembered, request, settingsCounters>>

\* addProperty() of a source that cannot be made stores nothing.
StoreNothing ==
    /\ job \in 1..Len(Program)
    /\ CreateFails("installer")
    /\ job' = job + 1
    /\ UNCHANGED <<creation, boot, remembered, request, settingsCounters>>

InstallerThrows ==
    /\ job \in 1..Len(Program)
    /\ GetSourceThrows("installer", ModuleOf(Program[job]))
    /\ job' = Len(Program) + 2
    /\ UNCHANGED <<creation, boot, remembered, request, settingsCounters>>

\* doFinal()
MarkInstalled ==
    /\ request = "handed"
    /\ SetSetting("request", "installed")
    /\ request' = IF at'["request"] = "saving" THEN request ELSE "over"
    /\ UNCHANGED <<creation, boot, remembered, job, settingsCounters>>

SaveMark ==
    /\ Save("request")
    /\ request' = "over"
    /\ UNCHANGED <<creation, boot, remembered, job, settingsCounters>>

RequestThrows ==
    /\ request = "handed"
    /\ GetSourceThrows("request", "dspace")
    /\ request' = "over"
    /\ UNCHANGED <<creation, boot, remembered, job, settingsCounters>>

\* The directory thread checks a file.
CheckFile(m) ==
    /\ boot = "started" /\ building = "no"
    /\ Reload(m)
    /\ UNCHANGED <<creation, actors, settingsCounters>>

RefreshConfiguration ==
    /\ Clear \/ Load
    /\ UNCHANGED <<creation, actors, settingsCounters>>

\* If the mark has come or gone, its handler refreshes the application context.
CompareMark ==
    /\ Checked
    /\ building' = IF reloaded = "dspace"
                      /\ ("installed" \in memory["dspace"][watched["dspace"]])
                            # remembered
                   THEN "dataSource" ELSE "no"
    /\ UNCHANGED <<beans, disturbed, actors, settingsCounters>>

\* An administrator edits a file, but leaves the mark alone.
EditSettings(k) ==
    /\ settingEdits < MaxEdits
    /\ settingEdits' = settingEdits + 1
    /\ EditFile(ModuleOf(k), k)
    /\ UNCHANGED <<creation, actors, bootMarked, restarts>>

\* The process ends, in whichever way, and is started again.
RestartProcess ==
    /\ restarts < MaxRestarts
    /\ restarts' = restarts + 1
    /\ UNCHANGED <<files, settingEdits>>
    /\ BeginsAgain
    /\ boot' = "context" /\ building' = "dataSource"
    /\ driver' = {} /\ driverMade' = FALSE
    /\ dataSource' = "null" /\ factory' = "null"
    /\ remembered' = FALSE /\ disturbed' = FALSE
    /\ job' = 0 /\ request' = "none"
    /\ bootMarked' = ("installed" \in files["dspace"])

SettingsNext ==
    \/ CreateDataSource \/ SetDriver \/ SetUrl \/ CreateFactory \/ SetDialect
    \/ MissingSetting \/ SourceMissing \/ CreationMeetsException
    \/ \E u \in Users, m \in Modules : GetSource(u, m)
    \/ RegisterMarkHandler
    \/ HandOverInstallation
    \/ StoreSetting \/ SaveSetting \/ StoreNothing \/ InstallerThrows
    \/ MarkInstalled \/ SaveMark \/ RequestThrows
    \/ (\E m \in Modules : CheckFile(m)) \/ RefreshConfiguration \/ CompareMark
    \/ \E k \in Settings \ {"installed"} : EditSettings(k)
    \/ RestartProcess

SettingsSpec == SettingsInit /\ [][SettingsNext]_settingsVars

-----------------------------------------------------------------------------
(* Properties.                                                             *)

\* The context main creates at the start never fails.  It rests on
\* isInstalled() not knowing yet: were the answer yes, the data source would
\* ask for the database module's source, which cannot be placed before there
\* is a default one (create, getSource).
FirstContextSucceeds == boot # "failed"

\* The running context is refreshed only in the process that was told of the
\* installation: one that starts with the mark in its file never is, unless
\* dspace.properties could not be loaded or its refresh met a store, which
\* looks as if the mark had been taken away (addHandler, check).  It is also
\* why such a process never gets a session factory.
RefreshOnlyByMark ==
    building # "no" /\ boot = "started" => ~bootMarked \/ "dspace" \in torn

\* A session factory has all the settings there are, if they were there when
\* the driver was made: only an installation that was overtaken by its own
\* mark leaves one without them (doFinal, create, DatabaseStep.install).
\* Edits, crossed first uses of the module, and refreshes that failed or met a
\* store set apart.
FactoryComplete ==
    /\ factory # "null" /\ ~disturbed /\ settingEdits = 0
    /\ "database" \notin crossed /\ torn = {}
    => factory = "driver" /\ driver = {"driver", "url"}

\* "store configuration", says DatabaseStep of the settings it adds: when the
\* installer is through with them, each source used by itself and every file
\* readable, they are in the file.
ConfigurationStored ==
    job = Len(Program) + 1 /\ crossed = {} /\ settingEdits = 0
        => DatabaseKeys \subseteq files["database"]
=============================================================================
