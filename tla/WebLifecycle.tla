---------------------------- MODULE WebLifecycle ----------------------------
(***************************************************************************)
(* The life of WebApplicationService, the embedded web server: Starter     *)
(* initialises and starts it, its change handlers halt or refresh it from  *)
(* the directory thread, and the shutdown hook destroys it.                *)
(*                                                                         *)
(* Two locks meet here.  start(), stop() and refresh() are synchronized on *)
(* the service, destroy() and init() are not; registering a change handler *)
(* takes the lock on `lookups', which the directory thread holds while it  *)
(* calls the handlers.                                                     *)
(*                                                                         *)
(* Server is Jetty's, modelled from how it is used: a server whose start   *)
(* or stop threw has failed, and may be started or stopped again;          *)
(* destroy() of a server that is not stopped throws IllegalStateException. *)
(*                                                                         *)
(* A hook that gets through with this service goes on to the other ones:   *)
(* one interrupts the directory thread, which is used to it, the next      *)
(* interrupts the installer, which waits for an installation to end (the   *)
(* steps of that are in Installer).                                        *)
(***************************************************************************)
EXTENDS Naturals, Sequences

CONSTANTS
    Wars,          \* the web applications in the webapps directory
    Programs,      \* the calls main may make: Starter's, and those of tests
    ServerMayFail, \* whether starting the server may fail (a port in use),
                   \* or stopping it
    MaxChecks      \* bound: checks of the directory thread

ASSUME WebLifecycleAssumption ==
    /\ Programs \subseteq Seq({"init", "start", "stop", "destroy"})
    /\ ServerMayFail \in BOOLEAN
    /\ MaxChecks \in Nat

Threads == {"main", "watcher", "hook"}

VARIABLES
    server,      \* the Server object of the field: "null" or its state
    known,       \* handlers: the web applications set up
    watch,       \* watchHandlers: its keys
    registered,  \* the properties that have a list of change handlers
    held,        \* the thread holding the service's monitor, or "none"
    lookups,     \* the thread holding the lock on `lookups', or "none"
    calls,       \* the calls a thread has yet to make, the current one first
    pc,          \* where a thread is in its current call
    left,        \* the keys a thread's destroy() has yet to unregister
    watching,    \* whether the directory thread was started
    fired,       \* the properties the running check has looked at
    checks,      \* counter for the bound
    starter,     \* "services", "reloading", "installer", "hooked", or "failed"
    process,     \* the JVM: "up", "stopping" or "halted"
    installer,   \* the installer's thread: "new", "alive" or "over"
    closing      \* the hook beyond this service: "no", "tested" that the
                 \* installer is alive, "waiting" for it, or "context"

service == <<server, known, watch>>
locks == <<held, lookups>>
reloader == <<watching, fired, checks>>
control == <<calls, pc, left>>
ending == <<installer, closing>>
webVars == <<service, registered, locks, control, reloader, starter, process,
          ending>>

\* PropertyReference.key(): the property of a name.
Key(name) == <<"property", name>>
Installed == Key("dspace.installed")
\* The names under which start() files the handlers it makes for the
\* connectors; it registers none of these.
ConnectorKeys == {Key("server.http"), Key("server.ajp")}
\* A web application's handler is filed under its name and registered for
\* its property webapp.<name>.active.
Active(w) == <<"webapp active", w>>

WatchKeys == {Installed} \cup {Key(w) : w \in Wars} \cup ConnectorKeys
Properties == {Installed} \cup {Active(w) : w \in Wars}

WebTypeOK ==
    /\ server \in {"null", "stopped", "running", "failed", "destroyed"}
    /\ known \in SUBSET Wars
    /\ watch \in SUBSET WatchKeys
    /\ registered \in SUBSET Properties
    /\ held \in Threads \cup {"none"}
    /\ lookups \in Threads \cup {"none"}
    /\ calls \in [Threads -> Seq({"init", "start", "stop", "destroy",
                                  "refresh"})]
    /\ pc \in [Threads -> {"ready", "destroying", "unregistering",
                           "registering", "settingUp", "starting",
                           "refreshing"}]
    /\ left \in [Threads -> SUBSET WatchKeys]
    /\ watching \in BOOLEAN
    /\ fired \in SUBSET Properties
    /\ checks \in 0..MaxChecks
    /\ starter \in {"services", "reloading", "installer", "hooked", "failed"}
    /\ process \in {"up", "stopping", "halted"}
    /\ installer \in {"new", "alive", "over"}
    /\ closing \in {"no", "tested", "waiting", "context"}

WebInit ==
    /\ server = "null" /\ known = {} /\ watch = {}
    /\ registered = {}
    /\ held = "none" /\ lookups = "none"
    /\ \E program \in Programs :
          calls = [t \in Threads |-> IF t = "main" THEN program ELSE <<>>]
    /\ pc = [t \in Threads |-> "ready"]
    /\ left = [t \in Threads |-> {}]
    /\ watching = FALSE /\ fired = {} /\ checks = 0
    /\ starter = "services"
    /\ process = "up" /\ installer = "new" /\ closing = "no"

-----------------------------------------------------------------------------
(* Calls.                                                                  *)

Calls(t, op) ==
    /\ process # "halted"
    /\ pc[t] = "ready" /\ calls[t] # <<>> /\ Head(calls[t]) = op

At(t, place) == process # "halted" /\ pc[t] = place

\* Both locks are reentrant.
MonitorFree(t) == held \in {"none", t}
LookupsFree(t) == lookups \in {"none", t}

\* The call returns.  A synchronized method gives the monitor back.
Return(t) ==
    /\ calls' = [calls EXCEPT ![t] = Tail(@)]
    /\ pc' = [pc EXCEPT ![t] = "ready"]
    /\ held' = IF held = t THEN "none" ELSE held
    /\ UNCHANGED <<lookups, fired, starter, process>>

\* The call throws a ServiceException.  A change handler logs it, the hook
\* goes on with the next service, main ends.
ThrowService(t) ==
    /\ calls' = [calls EXCEPT ![t] = <<>>]
    /\ pc' = [pc EXCEPT ![t] = "ready"]
    /\ held' = IF held = t THEN "none" ELSE held
    /\ starter' = IF t = "main" THEN "failed" ELSE starter
    /\ UNCHANGED <<lookups, fired, process>>

\* The call throws a RuntimeException.  It ends the check, with the lock on
\* `lookups', the hook, with the JVM, or main.
ThrowRuntime(t) ==
    /\ calls' = [calls EXCEPT ![t] = <<>>]
    /\ pc' = [pc EXCEPT ![t] = "ready"]
    /\ held' = IF held = t THEN "none" ELSE held
    /\ lookups' = IF lookups = t THEN "none" ELSE lookups
    /\ fired' = IF t = "watcher" THEN {} ELSE fired
    /\ starter' = IF t = "main" THEN "failed" ELSE starter
    /\ process' = IF t = "hook" THEN "halted" ELSE process

Goes(t, place) ==
    /\ pc' = [pc EXCEPT ![t] = place]
    /\ UNCHANGED <<calls, fired, starter, process>>

-----------------------------------------------------------------------------
(* The methods of WebApplicationService.                                   *)

\* server.stop(), of a server there is to stop.
Stopped == IF server \in {"running", "failed"} THEN "stopped" ELSE server

\* It throws: so does the caller, a ServiceException.
StoppingFails(t) ==
    /\ ServerMayFail
    /\ server' = "failed"
    /\ ThrowService(t)

StopService(t) ==
    /\ Calls(t, "stop")
    /\ MonitorFree(t)
    /\ \/ server' = Stopped /\ Return(t)
       \/ server \in {"running", "failed"} /\ StoppingFails(t)
    /\ UNCHANGED <<known, watch, registered, left, watching, checks>>

InitServer(t) ==
    /\ Calls(t, "init")
    /\ server' = "stopped" /\ known' = {} /\ watch' = {Installed}
    /\ Goes(t, "registering")
    /\ UNCHANGED <<registered, locks, left, watching, checks>>

InitRegister(t) ==
    /\ At(t, "registering")
    /\ LookupsFree(t)
    /\ registered' = registered \cup {Installed}
    /\ Return(t)
    /\ UNCHANGED <<service, left, watching, checks>>

\* start() of a service that was not initialised throws.
StartUninitialised(t) ==
    /\ Calls(t, "start")
    /\ MonitorFree(t)
    /\ server = "null"
    /\ ThrowService(t)
    /\ UNCHANGED <<service, registered, left, watching, checks>>

\* start() takes the monitor and stops a running server ...
StartEnter(t) ==
    /\ Calls(t, "start")
    /\ MonitorFree(t)
    /\ server # "null"
    /\ \/ /\ held' = t
          /\ server' = IF server = "running" THEN "stopped" ELSE server
          /\ Goes(t, "settingUp")
          /\ UNCHANGED lookups
       \/ server = "running" /\ StoppingFails(t)
    /\ UNCHANGED <<known, watch, registered, left, watching, checks>>

\* Fault: the change handler is registered under the web application's name.
SetupWebappByName(t, w) ==
    /\ At(t, "settingUp")
    /\ w \notin known
    /\ LookupsFree(t)
    /\ known' = known \cup {w}
    /\ registered' = registered \cup {Key(w)}
    /\ watch' = watch \cup {Key(w)}
    /\ UNCHANGED <<server, locks, control, reloader, starter, process>>

\* ... sets up each new web application, whose change handler it registers ...
SetupWebapp(t, w) ==
    /\ At(t, "settingUp")
    /\ w \notin known
    /\ LookupsFree(t)
    /\ known' = known \cup {w}
    /\ registered' = registered \cup {Active(w)}
    /\ watch' = watch \cup {Key(w)}
    /\ UNCHANGED <<server, locks, control, reloader, starter, process>>

\* ... then the connectors, whose change handlers it does not register ...
SetupConnectors(t) ==
    /\ At(t, "settingUp")
    /\ Wars \subseteq known
    /\ watch' = watch \cup ConnectorKeys
    /\ Goes(t, "starting")
    /\ UNCHANGED <<server, known, registered, locks, left, watching, checks>>

\* ... and starts the server.
StartServer(t) ==
    /\ At(t, "starting")
    /\ \/ server' = "running" /\ Return(t)
       \/ ServerMayFail /\ server' = "failed" /\ ThrowService(t)
    /\ UNCHANGED <<known, watch, registered, left, watching, checks>>

\* Fault: destroy() is synchronized.
DestroySynchronized(t) ==
    /\ Calls(t, "destroy")
    /\ MonitorFree(t)
    /\ held' = t
    /\ server' = Stopped
    /\ Goes(t, "destroying")
    /\ UNCHANGED <<known, watch, registered, lookups, left, watching, checks>>

\* destroy() calls the synchronized stop() ...
DestroyStop(t) ==
    /\ Calls(t, "destroy")
    /\ MonitorFree(t)
    /\ \/ /\ server' = Stopped
          /\ Goes(t, "destroying")
          /\ UNCHANGED locks
       \/ server \in {"running", "failed"} /\ StoppingFails(t)
    /\ UNCHANGED <<known, watch, registered, left, watching, checks>>

\* ... destroys the server, if it still is there and has not been started
\* again ...
DestroyServer(t) ==
    /\ At(t, "destroying")
    /\ \/ /\ server \in {"stopped", "destroyed"}
          /\ server' = "destroyed"
          /\ left' = [left EXCEPT ![t] = watch]
          /\ Goes(t, "unregistering")
          /\ UNCHANGED locks
       \/ /\ server \in {"null", "running", "failed"}
          /\ ThrowRuntime(t)
          /\ UNCHANGED <<server, left>>
    /\ UNCHANGED <<known, watch, registered, watching, checks>>

\* ... unregisters the handlers by the keys they are filed under (a key that
\* is no registered property has no list of handlers) ...
Unregister(t, k) ==
    /\ At(t, "unregistering")
    /\ k \in left[t]
    /\ LookupsFree(t)
    /\ \/ /\ k \in registered
          /\ left' = [left EXCEPT ![t] = @ \ {k}]
          /\ Goes(t, "unregistering")
          /\ UNCHANGED locks
       \/ /\ k \notin registered
          /\ ThrowRuntime(t)
          /\ left' = [left EXCEPT ![t] = {}]
    /\ UNCHANGED <<service, registered, watching, checks>>

\* ... and forgets everything.
DestroyEnd(t) ==
    /\ At(t, "unregistering")
    /\ left[t] = {}
    /\ server' = "null" /\ known' = {} /\ watch' = {}
    /\ Return(t)
    /\ UNCHANGED <<registered, left, watching, checks>>

RefreshEnter(t) ==
    /\ Calls(t, "refresh")
    /\ MonitorFree(t)
    /\ held' = t
    /\ Goes(t, "refreshing")
    /\ UNCHANGED <<service, registered, lookups, left, watching, checks>>

\* The refresh of the application context makes new services and leaves this
\* one as it is, or throws a BeansException.
RefreshEnd(t) ==
    /\ At(t, "refreshing")
    /\ Return(t) \/ ThrowRuntime(t)
    /\ UNCHANGED <<service, registered, left, watching, checks>>

Work(t) ==
    /\ \/ StopService(t)
       \/ InitServer(t) \/ InitRegister(t)
       \/ StartUninitialised(t) \/ StartEnter(t)
       \/ SetupConnectors(t) \/ StartServer(t)
       \/ \E w \in Wars : SetupWebapp(t, w)
       \/ DestroyStop(t) \/ DestroyServer(t) \/ DestroyEnd(t)
       \/ \E k \in WatchKeys : Unregister(t, k)
       \/ RefreshEnter(t) \/ RefreshEnd(t)
    /\ UNCHANGED ending

-----------------------------------------------------------------------------
(* Starter.main().                                                         *)

\* Fault: the reloader service comes before the web application service.
StartReloaderFirst ==
    /\ process # "halted"
    /\ starter = "services" /\ ~watching
    /\ watching' = TRUE
    /\ starter' = "reloading"
    /\ UNCHANGED <<service, registered, locks, control, fired, checks, process,
                   ending>>

\* The configuration reloader service is started after this one.
StartReloader ==
    /\ process # "halted"
    /\ starter = "services" /\ calls["main"] = <<>>
    /\ watching' = TRUE
    /\ starter' = "reloading"
    /\ UNCHANGED <<service, registered, locks, control, fired, checks, process,
                   ending>>

\* Then the installer's thread.
StartInstaller ==
    /\ process # "halted"
    /\ starter = "reloading" /\ calls["main"] = <<>>
    /\ installer' = "alive"
    /\ starter' = "installer"
    /\ UNCHANGED <<service, registered, locks, control, reloader, process, closing>>

\* A JVM that is shutting down takes no more hooks.
AddShutdownHook ==
    /\ starter = "installer"
    /\ process # "halted"
    /\ starter' = IF process = "up" THEN "hooked" ELSE "failed"
    /\ UNCHANGED <<service, registered, locks, control, reloader, process, ending>>

-----------------------------------------------------------------------------
(* The directory thread.                                                   *)

CheckBegin ==
    /\ process # "halted"
    /\ watching /\ lookups = "none" /\ checks < MaxChecks
    /\ lookups' = "watcher"
    /\ fired' = {}
    /\ checks' = checks + 1
    /\ UNCHANGED <<service, registered, held, control, watching, starter,
                   process, ending>>

\* Fault: the service is initialised before it is destroyed.
HaltInitFirst == <<"init", "start">>

\* HaltServiceOnChangeHandler.
Halt == <<"stop", "destroy", "init", "start">>

\* A changed property: dspace.installed refreshes, webapp.<name>.active
\* halts.
Fire(p) ==
    /\ process # "halted"
    /\ lookups = "watcher" /\ calls["watcher"] = <<>>
    /\ p \in registered \ fired
    /\ fired' = fired \cup {p}
    /\ calls' = [calls EXCEPT !["watcher"] =
                   IF p = Installed THEN <<"refresh">> ELSE Halt]
    /\ UNCHANGED <<service, registered, locks, pc, left, watching, checks,
                   starter, process, ending>>

CheckEnd ==
    /\ process # "halted"
    /\ lookups = "watcher" /\ calls["watcher"] = <<>>
    /\ lookups' = "none"
    /\ UNCHANGED <<service, registered, held, control, reloader, starter,
                   process, ending>>

-----------------------------------------------------------------------------
(* The shutdown of the JVM.                                                *)

Shutdown ==
    /\ process = "up"
    /\ IF starter = "hooked"
       THEN /\ process' = "stopping"
            /\ calls' = [calls EXCEPT !["hook"] = <<"destroy">>]
       ELSE process' = "halted" /\ UNCHANGED calls
    /\ UNCHANGED <<service, registered, locks, pc, left, reloader, starter,
                   ending>>

\* The hook is through with this service; the installer service looks whether
\* its thread is alive ...
HookGoesOn ==
    /\ process = "stopping" /\ calls["hook"] = <<>>
    /\ closing = "no"
    /\ closing' = IF installer = "alive" THEN "tested" ELSE "context"
    /\ UNCHANGED <<service, registered, locks, control, reloader, starter,
                   process, installer>>

\* ... and if so, waits to be told that an installation has ended.
HookWaits ==
    /\ process = "stopping" /\ closing = "tested"
    /\ closing' = "waiting"
    /\ UNCHANGED <<service, registered, locks, control, reloader, starter,
                   process, installer>>

\* Somebody installs, which may never happen: the thread tells whoever waits
\* now, and ends.
InstallationEnds ==
    /\ process # "halted" /\ installer = "alive"
    /\ installer' = "over"
    /\ closing' = IF closing = "waiting" THEN "context" ELSE closing
    /\ UNCHANGED <<service, registered, locks, control, reloader, starter,
                   process>>

\* The hook is through with all services and closes the context.
HookEnd ==
    /\ process = "stopping" /\ closing = "context"
    /\ process' = "halted"
    /\ UNCHANGED <<service, registered, locks, control, reloader, starter,
                   ending>>

-----------------------------------------------------------------------------
WebNext ==
    \/ \E t \in Threads : Work(t)
    \/ StartReloader \/ StartInstaller \/ AddShutdownHook
    \/ CheckBegin \/ (\E p \in Properties : Fire(p)) \/ CheckEnd
    \/ Shutdown \/ HookGoesOn \/ HookWaits \/ InstallationEnds \/ HookEnd

WebSpec == WebInit /\ [][WebNext]_webVars

\* A runnable thread goes on; no change of a property, no installation and no
\* shutdown has to happen.
WebFairness ==
    /\ \A t \in Threads : WF_webVars(Work(t))
    /\ WF_webVars(CheckEnd)
    /\ WF_webVars(HookGoesOn) /\ WF_webVars(HookWaits) /\ WF_webVars(HookEnd)

-----------------------------------------------------------------------------
(* Properties.                                                             *)

WaitsForLookups(t) ==
    /\ \/ pc[t] = "registering"
       \/ pc[t] = "unregistering" /\ left[t] # {}
       \/ pc[t] = "settingUp" /\ ~(Wars \subseteq known)
    /\ lookups # t
WaitsForMonitor(t) ==
    /\ pc[t] = "ready" /\ calls[t] # <<>> /\ Head(calls[t]) # "init"
    /\ held # t

\* start() takes the service's monitor and then the lock on `lookups', the
\* change handlers take them the other way round: the two never wait for each
\* other, since the reloader is started after the web server and whoever else
\* calls start() has the lock on `lookups' already.
NoCircularWait ==
    ~ \E t, u \in Threads :
         /\ t # u
         /\ held = t /\ WaitsForLookups(t)
         /\ lookups = u /\ WaitsForMonitor(u)

\* A running server, or one that failed to start or to stop, is stopped
\* before the service lets go of it and of its handlers, whichever threads
\* halt, refresh and destroy the service: no init() replaces it, no destroy()
\* forgets it.
RunningServerKept ==
    [][(server \in {"running", "failed"})
       => /\ server' \in {"running", "failed", "stopped"}
          /\ watch \subseteq watch']_webVars

\* The shutdown of the JVM comes to its end, or to the installer, for which it
\* waits until somebody installs: on its way the hook waits for no thread that
\* waits for it.  That it gets as far as the installer needs a server that
\* cannot be stopped: otherwise destroy() of a started service ends it before.
ShutdownGoesOn ==
    process = "stopping" ~> process = "halted" \/ closing = "waiting"
=============================================================================
