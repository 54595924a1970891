------------------------- MODULE WebLifecycleProofs -------------------------
(***************************************************************************)
(* Proofs about the life of the web server, for every set of web           *)
(* applications, every program of main and any number of checks.           *)
(***************************************************************************)
EXTENDS WebLifecycle, SequenceTheorems, TLAPS

\* Who has which lock: only the directory thread keeps `lookups' from one step
\* to the next, and a thread keeps the monitor inside start() and refresh().
LocksInv ==
    /\ lookups \in {"none", "watcher"}
    /\ \A t \in Threads :
          held = t => pc[t] \in {"settingUp", "starting", "refreshing"}

\* The directory thread is started when main has made its calls, and calls
\* the service with the lock on `lookups'; the hook only destroys.
OrderInv ==
    /\ watching => calls["main"] = <<>>
    /\ ~watching => lookups = "none"
    /\ calls["watcher"] # <<>> => lookups = "watcher"
    /\ calls["hook"] \in {<<>>, <<"destroy">>}
    /\ pc["hook"] \in {"ready", "destroying", "unregistering"}
    /\ \A t \in Threads : calls[t] = <<>> => pc[t] = "ready"

Inv == WebTypeOK /\ LocksInv /\ OrderInv

Op == {"init", "start", "stop", "destroy", "refresh"}
Place == {"ready", "destroying", "unregistering", "registering", "settingUp",
          "starting", "refreshing"}

LEMMA InitInv == WebInit => Inv
  <1> SUFFICES ASSUME WebInit PROVE Inv
    OBVIOUS
  <1>1. calls \in [Threads -> Seq(Op)]
    <2>1. PICK program \in Programs :
             calls = [t \in Threads |-> IF t = "main" THEN program ELSE <<>>]
      BY DEF WebInit
    <2>2. program \in Seq(Op)
      BY WebLifecycleAssumption DEF Op
    <2>3. QED
      BY <2>1, <2>2
  <1>2. calls["watcher"] = <<>> /\ calls["hook"] = <<>>
    BY DEF WebInit, Threads
  <1>3. WebTypeOK
    <2>0. watching \in BOOLEAN
      BY DEF WebInit
    <2>1. checks \in 0..MaxChecks
      BY WebLifecycleAssumption DEF WebInit
    <2>2. /\ pc \in [Threads -> Place]
          /\ left \in [Threads -> SUBSET WatchKeys]
      BY DEF WebInit, Place
    <2>3. QED
      BY <1>1, <2>0, <2>1, <2>2 DEF WebInit, WebTypeOK, Op, Place
  <1>4. LocksInv /\ OrderInv
    BY <1>2 DEF WebInit, LocksInv, OrderInv, Threads
  <1>5. QED
    BY <1>3, <1>4 DEF Inv

\* What the end of a call, of whichever kind, does to locks and calls.
Ends(t) == Return(t) \/ ThrowService(t) \/ ThrowRuntime(t)

LEMMA EndsInv ==
  ASSUME Inv, NEW t \in Threads, Ends(t), calls[t] # <<>>,
         UNCHANGED <<watching, checks>>
  PROVE  /\ LocksInv' /\ OrderInv'
         /\ calls' \in [Threads -> Seq(Op)] /\ pc' \in [Threads -> Place]
         /\ held' \in Threads \cup {"none"}
         /\ lookups' \in Threads \cup {"none"}
         /\ fired' \in SUBSET Properties
         /\ starter' \in {"services", "reloading", "installer", "hooked", "failed"}
         /\ process' \in {"up", "stopping", "halted"}
  <1> USE DEF Inv, Op, Place
  <1>1. calls[t] \in Seq(Op) /\ Tail(calls[t]) \in Seq(Op)
    BY DEF WebTypeOK
  <1>2. /\ calls' = [calls EXCEPT ![t] = calls'[t]]
        /\ calls'[t] \in {<<>>, Tail(calls[t])}
        /\ calls' \in [Threads -> Seq(Op)]
    <2>1. CASE Return(t)
      BY <1>1, <2>1 DEF Return, WebTypeOK
    <2>2. CASE ThrowService(t) \/ ThrowRuntime(t)
      <3>1. calls' = [calls EXCEPT ![t] = <<>>] /\ <<>> \in Seq(Op)
        BY <2>2 DEF ThrowService, ThrowRuntime
      <3>2. QED
        BY <3>1 DEF WebTypeOK
    <2>3. QED
      BY <2>1, <2>2 DEF Ends
  <1>3. pc' = [pc EXCEPT ![t] = "ready"] /\ pc' \in [Threads -> Place]
    BY DEF Ends, Return, ThrowService, ThrowRuntime, WebTypeOK
  <1>4. held' = IF held = t THEN "none" ELSE held
    BY DEF Ends, Return, ThrowService, ThrowRuntime
  <1>5. lookups' = lookups \/ (lookups = t /\ lookups' = "none" /\ calls'[t] = <<>>)
    BY DEF Ends, Return, ThrowService, ThrowRuntime, WebTypeOK
  <1>6. LocksInv'
    BY <1>3, <1>4, <1>5 DEF LocksInv, WebTypeOK, Threads
  <1>7. OrderInv'
    <2>1. t # "main" \/ ~watching
      BY DEF OrderInv
    <2>2. watching' => calls'["main"] = <<>>
      BY <1>2, <2>1 DEF OrderInv, WebTypeOK, Threads
    <2>3. ~watching' => lookups' = "none"
      BY <1>5 DEF OrderInv
    <2>4. calls'["watcher"] # <<>> => lookups' = "watcher"
      BY <1>2, <1>5 DEF OrderInv, WebTypeOK, Threads
    <2>5. calls'["hook"] \in {<<>>, <<"destroy">>}
      BY <1>2 DEF OrderInv, WebTypeOK, Threads
    <2>6. pc'["hook"] \in {"ready", "destroying", "unregistering"}
      BY <1>3 DEF OrderInv, WebTypeOK, Threads
    <2>7. \A u \in Threads : calls'[u] = <<>> => pc'[u] = "ready"
      BY <1>2, <1>3 DEF OrderInv, WebTypeOK
    <2>8. QED
      BY <2>2, <2>3, <2>4, <2>5, <2>6, <2>7 DEF OrderInv
  <1>8. fired' \in SUBSET Properties
    BY DEF Ends, Return, ThrowService, ThrowRuntime, WebTypeOK
  <1>9. QED
    BY <1>2, <1>3, <1>4, <1>5, <1>6, <1>7, <1>8
       DEF Ends, Return, ThrowService, ThrowRuntime, WebTypeOK

\* A call that ends keeps the invariant, when the rest of the step does.
LEMMA CallEnds ==
  ASSUME Inv, NEW t \in Threads, Ends(t), calls[t] # <<>>,
         UNCHANGED <<watching, checks, installer, closing>>,
         server' \in {"null", "stopped", "running", "failed", "destroyed"},
         known' \in SUBSET Wars, watch' \in SUBSET WatchKeys,
         registered' \in SUBSET Properties,
         left' \in [Threads -> SUBSET WatchKeys]
  PROVE  Inv'
  BY EndsInv DEF Inv, WebTypeOK, Op, Place

\* So does a step within a call.
LEMMA CallGoesOn ==
  ASSUME Inv, NEW t \in Threads, NEW place \in Place, Goes(t, place),
         calls[t] # <<>>,
         UNCHANGED <<lookups, watching, checks, installer, closing>>,
         \/ held' = held /\ held # t
         \/ held' \in {held, t} /\ place \in {"settingUp", "starting", "refreshing"},
         t = "hook" => place \in {"ready", "destroying", "unregistering"},
         server' \in {"null", "stopped", "running", "failed", "destroyed"},
         known' \in SUBSET Wars, watch' \in SUBSET WatchKeys,
         registered' \in SUBSET Properties,
         left' \in [Threads -> SUBSET WatchKeys]
  PROVE  Inv'
  <1>1. WebTypeOK'
    BY DEF Goes, Inv, WebTypeOK, Place
  <1>2. LocksInv'
    BY DEF Goes, Inv, WebTypeOK, LocksInv
  <1>3. OrderInv'
    BY DEF Goes, Inv, WebTypeOK, OrderInv, Threads
  <1>4. QED
    BY <1>1, <1>2, <1>3 DEF Inv

LEMMA InCall ==
  ASSUME Inv, NEW t \in Threads, pc[t] # "ready"
  PROVE  calls[t] # <<>>
  BY DEF Inv, OrderInv

\* The methods of the service keep the invariant.
LEMMA WorkInv ==
  ASSUME Inv, NEW t \in Threads, Work(t)
  PROVE  Inv'
  <1>0. /\ server \in {"null", "stopped", "running", "failed", "destroyed"}
        /\ known \in SUBSET Wars /\ watch \in SUBSET WatchKeys
        /\ registered \in SUBSET Properties
        /\ left \in [Threads -> SUBSET WatchKeys]
        /\ held = t => pc[t] \in {"settingUp", "starting", "refreshing"}
        /\ Stopped \in {"null", "stopped", "running", "failed", "destroyed"}
    BY DEF Inv, WebTypeOK, LocksInv, Stopped
  <1> UNCHANGED <<installer, closing>>
    BY DEF Work, ending
  <1>1. CASE StopService(t)
    BY <1>0, <1>1, CallEnds DEF StopService, StoppingFails, Calls, Ends
  <1>2. CASE InitServer(t)
    <2>1. t # "hook" /\ held # t
      BY <1>0, <1>2 DEF InitServer, Calls, Inv, OrderInv
    <2>2. watch' \in SUBSET WatchKeys
      BY <1>2 DEF InitServer, WatchKeys
    <2>3. QED
      BY <1>0, <1>2, <2>1, <2>2, CallGoesOn
         DEF InitServer, Calls, locks, Place
  <1>3. CASE InitRegister(t)
    <2>1. registered' \in SUBSET Properties
      BY <1>0, <1>3 DEF InitRegister, Properties
    <2>2. QED
      BY <1>0, <1>3, <2>1, InCall, CallEnds DEF InitRegister, At, Ends, service
  <1>4. CASE StartUninitialised(t)
    BY <1>0, <1>4, CallEnds DEF StartUninitialised, Calls, Ends, service
  <1>5. CASE StartEnter(t)
    <2>1. t # "hook"
      BY <1>5 DEF StartEnter, Calls, Inv, OrderInv
    <2>2. CASE StoppingFails(t)
      BY <1>0, <1>5, <2>2, CallEnds DEF StartEnter, StoppingFails, Calls, Ends
    <2>3. CASE Goes(t, "settingUp")
      BY <1>0, <1>5, <2>1, <2>3, CallGoesOn
         DEF StartEnter, Goes, StoppingFails, ThrowService, Calls, Place
    <2>4. QED
      BY <1>5, <2>2, <2>3 DEF StartEnter
  <1>6. CASE \E w \in Wars : SetupWebapp(t, w)
    <2>1. PICK w \in Wars : SetupWebapp(t, w)
      BY <1>6
    <2>2. /\ known' \in SUBSET Wars /\ watch' \in SUBSET WatchKeys
          /\ registered' \in SUBSET Properties
      BY <1>0, <2>1 DEF SetupWebapp, WatchKeys, Properties
    <2>3. WebTypeOK'
      BY <2>1, <2>2
         DEF SetupWebapp, locks, control, reloader, Inv, WebTypeOK
    <2>4. LocksInv' /\ OrderInv'
      BY <2>1 DEF SetupWebapp, locks, control, reloader, Inv, LocksInv, OrderInv
    <2>5. QED
      BY <2>3, <2>4 DEF Inv
  <1>7. CASE SetupConnectors(t)
    <2>1. t # "hook" /\ pc[t] # "ready"
      BY <1>7 DEF SetupConnectors, At, Inv, OrderInv
    <2>2. watch' \in SUBSET WatchKeys
      BY <1>0, <1>7 DEF SetupConnectors, WatchKeys
    <2>3. QED
      BY <1>0, <1>7, <2>1, <2>2, InCall, CallGoesOn
         DEF SetupConnectors, locks, Place
  <1>8. CASE StartServer(t)
    BY <1>0, <1>8, InCall, CallEnds DEF StartServer, At, Ends
  <1>9. CASE DestroyStop(t)
    <2>1. CASE StoppingFails(t)
      BY <1>0, <1>9, <2>1, CallEnds DEF DestroyStop, StoppingFails, Calls, Ends
    <2>2. CASE server' = Stopped /\ Goes(t, "destroying") /\ UNCHANGED locks
      BY <1>0, <1>9, <2>2, CallGoesOn DEF DestroyStop, Calls, locks, Place
    <2>3. QED
      BY <1>9, <2>1, <2>2 DEF DestroyStop
  <1>10. CASE DestroyServer(t)
    <2>1. CASE server \in {"stopped", "destroyed"}
      <3>1. left' \in [Threads -> SUBSET WatchKeys]
        BY <1>0, <1>10, <2>1 DEF DestroyServer
      <3>2. held # t
        BY <1>0, <1>10 DEF DestroyServer, At
      <3>3. QED
        BY <1>0, <1>10, <2>1, <3>1, <3>2, InCall, CallGoesOn
           DEF DestroyServer, At, locks, Place
    <2>2. CASE server \in {"null", "running", "failed"}
      BY <1>0, <1>10, <2>2, InCall, CallEnds DEF DestroyServer, At, Ends
    <2>3. QED
      BY <1>0, <2>1, <2>2
  <1>11. CASE \E k \in WatchKeys : Unregister(t, k)
    <2>1. PICK k \in WatchKeys : Unregister(t, k)
      BY <1>11
    <2>2. left' \in [Threads -> SUBSET WatchKeys]
      BY <1>0, <2>1 DEF Unregister
    <2>3. held # t
      BY <1>0, <2>1 DEF Unregister, At
    <2>4. CASE k \in registered
      BY <1>0, <2>1, <2>2, <2>3, <2>4, InCall, CallGoesOn
         DEF Unregister, At, locks, service, Place
    <2>5. CASE k \notin registered
      BY <1>0, <2>1, <2>2, <2>5, InCall, CallEnds
         DEF Unregister, At, Ends, service
    <2>6. QED
      BY <2>4, <2>5
  <1>12. CASE DestroyEnd(t)
    BY <1>0, <1>12, InCall, CallEnds DEF DestroyEnd, At, Ends
  <1>13. CASE RefreshEnter(t)
    <2>1. t # "hook"
      BY <1>13 DEF RefreshEnter, Calls, Inv, OrderInv
    <2>2. QED
      BY <1>0, <1>13, <2>1, CallGoesOn DEF RefreshEnter, Calls, service, Place
  <1>14. CASE RefreshEnd(t)
    BY <1>0, <1>14, InCall, CallEnds DEF RefreshEnd, At, Ends, service
  <1>15. QED
    BY <1>1, <1>2, <1>3, <1>4, <1>5, <1>6, <1>7, <1>8, <1>9, <1>10, <1>11,
       <1>12, <1>13, <1>14 DEF Work

\* The steps outside the service keep the invariant.
LEMMA OtherInv ==
  ASSUME Inv,
         \/ StartReloader \/ StartInstaller \/ AddShutdownHook
         \/ CheckBegin \/ (\E p \in Properties : Fire(p)) \/ CheckEnd
         \/ Shutdown \/ HookGoesOn \/ HookWaits \/ InstallationEnds \/ HookEnd
  PROVE  Inv'
  <1> USE DEF Inv, service, locks, control, reloader, ending
  <1>1. CASE StartReloader
    BY <1>1 DEF StartReloader, WebTypeOK, LocksInv, OrderInv
  <1>2. CASE AddShutdownHook
    BY <1>2 DEF AddShutdownHook, WebTypeOK, LocksInv, OrderInv
  <1>3. CASE CheckBegin
    BY <1>3, WebLifecycleAssumption
       DEF CheckBegin, WebTypeOK, LocksInv, OrderInv, Threads
  <1>4. CASE \E p \in Properties : Fire(p)
    <2>1. PICK p \in Properties : Fire(p)
      BY <1>4
    <2>2. calls' \in [Threads -> Seq(Op)]
      <3>1. Halt \in Seq(Op) /\ <<"refresh">> \in Seq(Op)
        BY DEF Halt, Op
      <3>2. QED
        BY <2>1, <3>1 DEF Fire, WebTypeOK, Op
    <2>3. WebTypeOK'
      BY <2>1, <2>2 DEF Fire, WebTypeOK, Op
    <2>4. LocksInv'
      BY <2>1 DEF Fire, LocksInv
    <2>5. OrderInv'
      BY <2>1 DEF Fire, OrderInv, Halt, WebTypeOK, Threads
    <2>6. QED
      BY <2>3, <2>4, <2>5
  <1>5. CASE CheckEnd
    BY <1>5 DEF CheckEnd, WebTypeOK, LocksInv, OrderInv
  <1>6. CASE Shutdown
    <2>1. /\ calls' \in [Threads -> Seq(Op)]
          /\ calls'["hook"] \in {<<>>, <<"destroy">>}
          /\ calls' = [calls EXCEPT !["hook"] = calls'["hook"]]
      <3>1. <<"destroy">> \in Seq(Op)
        BY DEF Op
      <3>2. QED
        BY <1>6, <3>1 DEF Shutdown, WebTypeOK, OrderInv, Op, Threads
    <2>2. process' \in {"up", "stopping", "halted"}
      BY <1>6 DEF Shutdown
    <2>3. WebTypeOK'
      BY <1>6, <2>1, <2>2 DEF Shutdown, WebTypeOK, Op
    <2>4. LocksInv'
      BY <1>6 DEF Shutdown, LocksInv
    <2>5. OrderInv'
      <3>1. calls'["hook"] = <<"destroy">> \/ UNCHANGED calls
        BY <1>6 DEF Shutdown, WebTypeOK, Threads
      <3>2. QED
        BY <1>6, <2>1, <3>1 DEF Shutdown, OrderInv, WebTypeOK, Threads
    <2>6. QED
      BY <2>3, <2>4, <2>5
  <1>7. CASE StartInstaller \/ HookGoesOn \/ HookWaits \/ InstallationEnds \/ HookEnd
    BY <1>7 DEF StartInstaller, HookGoesOn, HookWaits, InstallationEnds, HookEnd,
                WebTypeOK, LocksInv, OrderInv
  <1>8. QED
    BY <1>1, <1>2, <1>3, <1>4, <1>5, <1>6, <1>7

LEMMA NextInv == Inv /\ [WebNext]_webVars => Inv'
  <1>1. Inv /\ UNCHANGED webVars => Inv'
    BY DEF Inv, WebTypeOK, LocksInv, OrderInv, webVars, service, locks, control,
           reloader, ending
  <1>2. QED
    BY <1>1, WorkInv, OtherInv DEF WebNext

\* Type correctness.
THEOREM TypeCorrect == WebSpec => []WebTypeOK
  <1>1. Inv => WebTypeOK
    BY DEF Inv
  <1>2. QED
    BY <1>1, InitInv, NextInv, PTL DEF WebSpec

\* start(), stop(), destroy() and refresh() of the web server and the
\* registration of its change handlers never wait for each other in a circle,
\* whatever main, the directory thread and the shutdown hook are doing.
THEOREM LocksNeverCircular == WebSpec => []NoCircularWait
  <1>1. Inv => NoCircularWait
    <2> SUFFICES ASSUME Inv, NEW t \in Threads, NEW u \in Threads, t # u,
                        held = t, WaitsForLookups(t), lookups = u
                 PROVE  FALSE
      BY DEF NoCircularWait
    <2>1. pc[t] = "settingUp"
      BY DEF Inv, LocksInv, WaitsForLookups
    <2>2. u = "watcher" /\ watching
      BY DEF Inv, LocksInv, OrderInv, Threads
    <2>3. t = "main"
      BY <2>1, <2>2 DEF Inv, OrderInv, Threads
    <2>4. pc["main"] = "ready"
      BY <2>2 DEF Inv, OrderInv, Threads
    <2>5. QED
      BY <2>1, <2>3, <2>4
  <1>2. QED
    BY <1>1, InitInv, NextInv, PTL DEF WebSpec

-----------------------------------------------------------------------------
(* A running server is kept.                                               *)
(*                                                                         *)
(* destroy() gets to its end only if every handler it has filed was        *)
(* registered.  Once start() has filed the handlers of the connectors,     *)
(* which nobody registers, no destroy() ends but by an exception: what     *)
(* would initialise the service again, or forget its server, is never      *)
(* reached.  The argument needs that main does not initialise a service    *)
(* it has not destroyed; Starter and the tests call init() first.          *)
Orderly(s) == \A i \in 1..(Len(s) - 1) : s[i + 1] = "init" => s[i] = "destroy"
OrderlyMain == \A program \in Programs : Orderly(program)

Connector == Key("server.http")
Filed == Connector \in watch

\* The method a thread is in.
HeadInv == \A t \in Threads :
    /\ pc[t] = "registering" => Head(calls[t]) = "init"
    /\ pc[t] \in {"settingUp", "starting"} => Head(calls[t]) = "start"
    /\ pc[t] \in {"destroying", "unregistering"} => Head(calls[t]) = "destroy"
    /\ pc[t] = "refreshing" => Head(calls[t]) = "refresh"

\* Main initialises only a service without a server.
ProgramInv ==
    /\ Orderly(calls["main"])
    /\ calls["main"] # <<>> => starter = "services"
    /\ pc["main"] = "ready" /\ calls["main"] # <<>> /\ Head(calls["main"]) = "init"
          => server = "null"
    /\ pc["main"] \in {"registering", "settingUp", "starting"} => server # "null"
    /\ pc["main"] = "starting" => Filed

\* The directory thread halts only a service that has been started, and
\* comes no further than its destroy().
HaltInv ==
    /\ ~watching => starter \in {"services", "failed"} /\ calls["hook"] = <<>>
    /\ calls["watcher"] \in {<<>>, <<"refresh">>, Halt, Tail(Halt)}
    /\ calls["watcher"] \in {Halt, Tail(Halt)} => Filed

\* From the first start() on, there is a handler that nobody registered, and
\* every destroy() has yet to unregister it.
FiledInv ==
    /\ server = "null" => watch = {}
    /\ server \in {"running", "failed"} => Filed
    /\ (watching \/ starter = "services") /\ pc["main"] # "settingUp"
          /\ ~(registered \subseteq {Installed}) => Filed
    /\ \A t \in Threads : pc[t] = "unregistering" /\ Filed => Connector \in left[t]

KeepInv == Inv /\ HeadInv /\ ProgramInv /\ HaltInv /\ FiledInv

LEMMA KeepStart == OrderlyMain /\ WebInit => KeepInv
  <1> SUFFICES ASSUME OrderlyMain, WebInit PROVE KeepInv
    OBVIOUS
  <1>1. Orderly(calls["main"])
    BY DEF WebInit, OrderlyMain, Threads
  <1>2. calls["watcher"] = <<>> /\ calls["hook"] = <<>>
    BY DEF WebInit, Threads
  <1>3. HeadInv /\ FiledInv
    BY DEF WebInit, HeadInv, FiledInv
  <1>4. ProgramInv /\ HaltInv
    BY <1>1, <1>2 DEF WebInit, ProgramInv, HaltInv, Halt, Threads
  <1> QED
    BY <1>3, <1>4, InitInv DEF KeepInv

\* Which of its calls a thread comes to.
LEMMA NextCall ==
    ASSUME NEW s \in Seq(Op), s # <<>>, Orderly(s)
    PROVE  /\ Orderly(Tail(s))
           /\ Tail(s) # <<>> /\ Head(Tail(s)) = "init" => Head(s) = "destroy"
  <1>1. /\ Tail(s) \in Seq(Op) /\ Len(Tail(s)) = Len(s) - 1 /\ Len(s) \in Nat
        /\ \A i \in 1..(Len(s) - 1) : Tail(s)[i] = s[i + 1]
    OBVIOUS
  <1>2. Orderly(Tail(s))
    <2>1. ASSUME NEW i \in 1..(Len(Tail(s)) - 1), Tail(s)[i + 1] = "init"
          PROVE  Tail(s)[i] = "destroy"
      <3>1. /\ Tail(s)[i] = s[i + 1] /\ Tail(s)[i + 1] = s[i + 1 + 1]
            /\ i + 1 \in 1..(Len(s) - 1)
        BY <1>1
      <3> QED
        BY <2>1, <3>1 DEF Orderly
    <2> QED
      BY <2>1 DEF Orderly
  <1>3. ASSUME Tail(s) # <<>>, Head(Tail(s)) = "init" PROVE Head(s) = "destroy"
    <2>1. 1 \in 1..(Len(s) - 1)
      BY <1>1, <1>3
    <2>2. Head(Tail(s)) = s[1 + 1] /\ Head(s) = s[1]
      BY <1>1, <1>3, <2>1
    <2> QED
      BY <1>3, <2>1, <2>2 DEF Orderly
  <1> QED
    BY <1>2, <1>3

\* The directory thread's calls.
LEMMA HaltCalls ==
    /\ Halt # <<>> /\ Head(Halt) = "stop" /\ Tail(Halt) # <<>>
    /\ Head(Tail(Halt)) = "destroy"
    /\ <<"refresh">> # <<>> /\ Head(<<"refresh">>) = "refresh"
    /\ Tail(<<"refresh">>) = <<>>
  BY DEF Halt

\* While main has calls to make, the other threads have none.
LEMMA MainAlone ==
    ASSUME KeepInv, calls["main"] # <<>>
    PROVE  /\ ~watching /\ starter = "services"
           /\ calls["watcher"] = <<>> /\ calls["hook"] = <<>>
           /\ pc["watcher"] = "ready" /\ pc["hook"] = "ready"
  BY DEF KeepInv, Inv, OrderInv, ProgramInv, HaltInv, Threads

\* What the others call.
LEMMA OthersCall ==
    ASSUME KeepInv, NEW t \in {"watcher", "hook"}, calls[t] # <<>>
    PROVE  /\ calls["main"] = <<>> /\ pc["main"] = "ready" /\ watching
           /\ Head(calls[t]) \in {"refresh", "stop", "destroy"}
           /\ t = "watcher" /\ Head(calls[t]) # "refresh" => Filed
           /\ pc[t] \in {"ready", "destroying", "unregistering", "refreshing"}
  <1>1. watching /\ calls["main"] = <<>> /\ pc["main"] = "ready"
    BY DEF KeepInv, Inv, OrderInv, HaltInv, Threads
  <1>2. t = "hook" => Head(calls[t]) = "destroy"
    BY DEF KeepInv, Inv, OrderInv
  <1>3. t = "watcher" => /\ Head(calls[t]) \in {"refresh", "stop", "destroy"}
                         /\ Head(calls[t]) # "refresh" => Filed
    BY HaltCalls DEF KeepInv, HaltInv
  <1>4. pc[t] \in {"ready", "destroying", "unregistering", "refreshing"}
    BY <1>2, <1>3 DEF KeepInv, Inv, WebTypeOK, HeadInv, Threads
  <1> QED
    BY <1>1, <1>2, <1>3, <1>4

\* A method of the service as called by main: what is left to show of a step
\* that ends it, and of one that goes on.
LEMMA MainEnds ==
    ASSUME KeepInv, calls["main"] # <<>>, Ends("main"), UNCHANGED watching,
           Return("main") /\ Head(calls["main"]) = "destroy" => server' = "null",
           server' = "null" => watch' = {},
           server' \in {"running", "failed"} => Filed',
           Return("main") /\ ~(registered' \subseteq {Installed}) => Filed'
    PROVE  HeadInv' /\ ProgramInv' /\ HaltInv' /\ FiledInv'
  <1>1. "main" \in Threads /\ "watcher" \in Threads /\ "hook" \in Threads
    BY DEF Threads
  <1>2. /\ ~watching' /\ starter = "services"
        /\ calls["watcher"] = <<>> /\ calls["hook"] = <<>>
        /\ pc["watcher"] = "ready" /\ pc["hook"] = "ready"
    BY MainAlone
  <1>3. /\ calls["main"] \in Seq(Op) /\ Orderly(calls["main"])
        /\ calls \in [Threads -> Seq(Op)] /\ pc \in [Threads -> Place]
    BY <1>1 DEF KeepInv, Inv, WebTypeOK, Op, Place, ProgramInv
  <1>4. pc' = [pc EXCEPT !["main"] = "ready"]
    BY DEF Ends, Return, ThrowService, ThrowRuntime
  <1>5. \A t \in Threads : pc'[t] = "ready"
    BY <1>2, <1>3, <1>4 DEF Threads
  <1>6. \/ /\ Return("main") /\ calls' = [calls EXCEPT !["main"] = Tail(calls["main"])]
           /\ starter' = "services"
        \/ /\ calls' = [calls EXCEPT !["main"] = <<>>] /\ starter' = "failed"
    BY <1>2 DEF Ends, Return, ThrowService, ThrowRuntime
  <1>7. /\ calls'["watcher"] = <<>> /\ calls'["hook"] = <<>>
        /\ \/ Return("main") /\ calls'["main"] = Tail(calls["main"]) /\ starter' = "services"
           \/ calls'["main"] = <<>> /\ starter' = "failed"
    BY <1>1, <1>2, <1>3, <1>6
  <1>8. HeadInv'
    BY <1>5 DEF HeadInv
  <1>9. HaltInv'
    BY <1>2, <1>7, HaltCalls DEF HaltInv
  <1>10. ProgramInv'
    <2>1. Orderly(<<>>)
      BY DEF Orderly
    <2>2. CASE calls'["main"] = <<>>
      BY <1>1, <1>5, <2>1, <2>2 DEF ProgramInv
    <2>3. CASE Return("main") /\ calls'["main"] = Tail(calls["main"]) /\ starter' = "services"
      <3>1. /\ Orderly(calls'["main"])
            /\ calls'["main"] # <<>> /\ Head(calls'["main"]) = "init"
                  => Head(calls["main"]) = "destroy"
        BY <1>3, <2>3, NextCall
      <3> QED
        BY <1>1, <1>5, <2>3, <3>1 DEF ProgramInv
    <2> QED
      BY <1>7, <2>2, <2>3
  <1>11. FiledInv'
    BY <1>2, <1>5, <1>7 DEF FiledInv
  <1> QED
    BY <1>8, <1>9, <1>10, <1>11

LEMMA MainGoesOn ==
    ASSUME KeepInv, calls["main"] # <<>>, UNCHANGED watching,
           NEW place \in Place \ {"ready"}, Goes("main", place),
           place = "registering" => Head(calls["main"]) = "init",
           place \in {"settingUp", "starting"} => Head(calls["main"]) = "start",
           place \in {"destroying", "unregistering"} => Head(calls["main"]) = "destroy",
           place = "refreshing" => Head(calls["main"]) = "refresh",
           place \in {"registering", "settingUp", "starting"} => server' # "null",
           place = "starting" => Filed',
           place = "unregistering" /\ Filed' => Connector \in left'["main"],
           server' = "null" => watch' = {},
           server' \in {"running", "failed"} => Filed',
           place # "settingUp" /\ ~(registered' \subseteq {Installed}) => Filed'
    PROVE  HeadInv' /\ ProgramInv' /\ HaltInv' /\ FiledInv'
  <1>1. "main" \in Threads /\ "watcher" \in Threads /\ "hook" \in Threads
    BY DEF Threads
  <1>2. /\ ~watching' /\ starter = "services"
        /\ calls["watcher"] = <<>> /\ calls["hook"] = <<>>
        /\ pc["watcher"] = "ready" /\ pc["hook"] = "ready"
    BY MainAlone
  <1>3. pc \in [Threads -> Place] /\ Orderly(calls["main"])
    BY DEF KeepInv, Inv, WebTypeOK, Place, ProgramInv
  <1>4. /\ pc' = [pc EXCEPT !["main"] = place]
        /\ calls' = calls /\ starter' = starter
    BY DEF Goes
  <1>5. \A t \in Threads : pc'[t] = IF t = "main" THEN place ELSE "ready"
    BY <1>2, <1>3, <1>4 DEF Threads
  <1>6. HeadInv'
    BY <1>4, <1>5 DEF HeadInv
  <1>7. HaltInv'
    BY <1>2, <1>4, HaltCalls DEF HaltInv
  <1>8. ProgramInv'
    BY <1>1, <1>2, <1>3, <1>4, <1>5 DEF ProgramInv
  <1>9. FiledInv'
    BY <1>1, <1>5 DEF FiledInv
  <1> QED
    BY <1>6, <1>7, <1>8, <1>9

\* The same of a method as called by another thread, which has nothing to file.
LEMMA OtherEnds ==
    ASSUME KeepInv, NEW t \in {"watcher", "hook"}, calls[t] # <<>>, Ends(t),
           UNCHANGED <<watching, registered>>,
           Filed' <=> Filed,
           t = "watcher" /\ Return(t) => Head(calls[t]) # "destroy",
           \A u \in Threads \ {t} : left'[u] = left[u],
           server' = "null" => watch' = {},
           server' \in {"running", "failed"} => Filed'
    PROVE  HeadInv' /\ ProgramInv' /\ HaltInv' /\ FiledInv'
  <1>1. "main" \in Threads /\ "watcher" \in Threads /\ "hook" \in Threads /\ t \in Threads
    BY DEF Threads
  <1>2. calls["main"] = <<>> /\ pc["main"] = "ready" /\ watching
    BY OthersCall
  <1>3. calls \in [Threads -> Seq(Op)] /\ pc \in [Threads -> Place]
    BY DEF KeepInv, Inv, WebTypeOK, Op, Place
  <1>4. /\ pc' = [pc EXCEPT ![t] = "ready"] /\ starter' = starter
        /\ \/ Return(t) /\ calls' = [calls EXCEPT ![t] = Tail(calls[t])]
           \/ calls' = [calls EXCEPT ![t] = <<>>]
    BY DEF Ends, Return, ThrowService, ThrowRuntime
  <1>5. /\ \A u \in Threads \ {t} : pc'[u] = pc[u] /\ calls'[u] = calls[u]
        /\ pc'[t] = "ready"
        /\ \/ Return(t) /\ calls'[t] = Tail(calls[t])
           \/ calls'[t] = <<>>
    BY <1>1, <1>3, <1>4
  <1>6. HeadInv'
    BY <1>5 DEF KeepInv, HeadInv
  <1>7. ProgramInv'
    BY <1>1, <1>2, <1>5 DEF KeepInv, ProgramInv
  <1>8. HaltInv'
    <2>1. CASE t = "hook"
      BY <1>1, <1>2, <1>5, <2>1 DEF KeepInv, HaltInv
    <2>2. CASE t = "watcher"
      <3>1. calls'[t] \in {<<>>, <<"refresh">>, Halt, Tail(Halt)}
        BY <1>5, <2>2, HaltCalls DEF KeepInv, HaltInv
      <3>2. calls'[t] \in {Halt, Tail(Halt)} => Filed
        BY <1>5, <2>2, HaltCalls DEF KeepInv, HaltInv
      <3> QED
        BY <1>2, <2>2, <3>1, <3>2 DEF HaltInv
    <2> QED
      BY <2>1, <2>2
  <1>9. FiledInv'
    BY <1>1, <1>2, <1>5 DEF KeepInv, FiledInv
  <1> QED
    BY <1>6, <1>7, <1>8, <1>9

LEMMA OtherGoesOn ==
    ASSUME KeepInv, NEW t \in {"watcher", "hook"}, calls[t] # <<>>,
           UNCHANGED <<watching, registered, watch>>,
           NEW place \in {"destroying", "unregistering", "refreshing"}, Goes(t, place),
           place = "refreshing" => Head(calls[t]) = "refresh",
           place # "refreshing" => Head(calls[t]) = "destroy",
           \A u \in Threads \ {t} : left'[u] = left[u],
           place = "unregistering" /\ Filed => Connector \in left'[t],
           server' = "null" => watch' = {},
           server' \in {"running", "failed"} => Filed
    PROVE  HeadInv' /\ ProgramInv' /\ HaltInv' /\ FiledInv'
  <1>1. "main" \in Threads /\ "watcher" \in Threads /\ "hook" \in Threads /\ t \in Threads
    BY DEF Threads
  <1>2. calls["main"] = <<>> /\ pc["main"] = "ready" /\ watching
    BY OthersCall
  <1>3. pc \in [Threads -> Place]
    BY DEF KeepInv, Inv, WebTypeOK, Place
  <1>4. /\ pc' = [pc EXCEPT ![t] = place] /\ starter' = starter
        /\ calls' = calls /\ (Filed' <=> Filed)
    BY DEF Goes, Filed
  <1>5. pc'[t] = place /\ \A u \in Threads \ {t} : pc'[u] = pc[u]
    BY <1>1, <1>3, <1>4
  <1>6. HeadInv'
    BY <1>4, <1>5 DEF KeepInv, HeadInv
  <1>7. ProgramInv'
    BY <1>1, <1>2, <1>4, <1>5 DEF KeepInv, ProgramInv
  <1>8. HaltInv'
    BY <1>2, <1>4 DEF KeepInv, HaltInv
  <1>9. FiledInv'
    BY <1>1, <1>2, <1>4, <1>5 DEF KeepInv, FiledInv
  <1> QED
    BY <1>6, <1>7, <1>8, <1>9

\* The key of a connector is no property, so nothing is registered for it.
LEMMA ConnectorUnregistered ==
    ASSUME Inv
    PROVE  Connector \notin registered /\ Connector \in ConnectorKeys
  BY DEF Inv, WebTypeOK, Connector, ConnectorKeys, Properties, Installed, Active, Key

\* Main's steps.
LEMMA MainKeeps ==
    ASSUME KeepInv, Work("main")
    PROVE  HeadInv' /\ ProgramInv' /\ HaltInv' /\ FiledInv'
  <1>1. "main" \in Threads /\ Inv /\ server \in {"null", "stopped", "running", "failed", "destroyed"}
    BY DEF Threads, KeepInv, Inv, WebTypeOK
  <1>2. /\ Stopped \notin {"running", "failed"} /\ (Stopped = "null" <=> server = "null")
        /\ server = "null" => watch = {}
        /\ server \in {"running", "failed"} => Filed
    BY <1>1 DEF Stopped, KeepInv, FiledInv
  <1>3. ASSUME calls["main"] # <<>>, pc["main"] # "settingUp"
        PROVE  ~(registered \subseteq {Installed}) => Filed
    BY <1>3, MainAlone DEF KeepInv, FiledInv
  <1>4. /\ pc["main"] = "registering" => Head(calls["main"]) = "init"
        /\ pc["main"] \in {"settingUp", "starting"} => Head(calls["main"]) = "start"
        /\ pc["main"] \in {"destroying", "unregistering"} => Head(calls["main"]) = "destroy"
        /\ pc["main"] = "refreshing" => Head(calls["main"]) = "refresh"
        /\ pc["main"] \in {"registering", "settingUp", "starting"} => server # "null"
        /\ pc["main"] = "starting" => Filed
        /\ pc["main"] = "unregistering" /\ Filed => Connector \in left["main"]
    BY <1>1 DEF KeepInv, HeadInv, ProgramInv, FiledInv
  <1>5. pc["main"] # "ready" => calls["main"] # <<>>
    BY <1>1, InCall
  <1> USE DEF Place
  <1>6. CASE StopService("main")
    BY <1>2, <1>3, <1>6, MainEnds
       DEF StopService, StoppingFails, Calls, Ends, Filed
  <1>7. CASE InitServer("main")
    <2>1. calls["main"] # <<>> /\ pc["main"] = "ready" /\ Head(calls["main"]) = "init"
      BY <1>7 DEF InitServer, Calls
    <2>2. server = "null"
      BY <2>1 DEF KeepInv, ProgramInv
    <2>3. registered \subseteq {Installed}
      BY <1>2, <1>3, <2>1, <2>2 DEF Filed
    <2> QED
      BY <1>7, <2>1, <2>3, MainGoesOn DEF InitServer
  <1>8. CASE InitRegister("main")
    <2>1. pc["main"] = "registering" /\ Head(calls["main"]) = "init"
      BY <1>4, <1>8 DEF InitRegister, At
    <2>2. registered' \subseteq {Installed} <=> registered \subseteq {Installed}
      BY <1>8 DEF InitRegister
    <2> QED
      BY <1>2, <1>3, <1>4, <1>5, <1>8, <2>1, <2>2, MainEnds
         DEF InitRegister, Ends, Filed, service
  <1>9. CASE StartUninitialised("main")
    BY <1>2, <1>3, <1>9, MainEnds
       DEF StartUninitialised, Calls, Ends, Filed, service
  <1>10. CASE StartEnter("main")
    <2>1. /\ calls["main"] # <<>> /\ pc["main"] = "ready" /\ Head(calls["main"]) = "start"
          /\ server # "null" /\ UNCHANGED <<watch, registered, left, watching>>
      BY <1>10 DEF StartEnter, Calls
    <2>2. CASE StoppingFails("main") /\ server = "running"
      BY <1>2, <2>1, <2>2, MainEnds DEF StoppingFails, Ends, Filed
    <2>3. CASE /\ server' = IF server = "running" THEN "stopped" ELSE server
               /\ Goes("main", "settingUp")
      BY <1>2, <2>1, <2>3, MainGoesOn DEF Filed
    <2> QED
      BY <1>10, <2>2, <2>3 DEF StartEnter
  <1>11. CASE \E w \in Wars : SetupWebapp("main", w)
    <2>1. PICK w \in Wars : SetupWebapp("main", w)
      BY <1>11
    <2>2. /\ pc["main"] = "settingUp" /\ server' = server /\ watch \subseteq watch'
          /\ UNCHANGED <<calls, pc, left, watching, starter>>
      BY <2>1 DEF SetupWebapp, At, control, reloader
    <2>3. pc["watcher"] = "ready" /\ pc["hook"] = "ready"
      BY <1>5, <2>2, MainAlone
    <2>4. HeadInv'
      BY <2>2 DEF KeepInv, HeadInv
    <2>5. ProgramInv'
      BY <2>2 DEF KeepInv, ProgramInv
    <2>6. HaltInv'
      BY <2>2 DEF KeepInv, HaltInv, Filed
    <2>7. FiledInv'
      BY <1>2, <1>4, <2>2, <2>3 DEF FiledInv, Filed, Threads
    <2> QED
      BY <2>4, <2>5, <2>6, <2>7
  <1>12. CASE SetupConnectors("main")
    <2>1. Filed'
      BY <1>12 DEF SetupConnectors, Filed, Connector, ConnectorKeys
    <2> QED
      BY <1>4, <1>5, <1>12, <2>1, MainGoesOn DEF SetupConnectors, At
  <1>13. CASE StartServer("main")
    BY <1>2, <1>4, <1>5, <1>13, MainEnds DEF StartServer, At, Ends, Filed
  <1>14. CASE DestroyStop("main")
    <2>1. /\ calls["main"] # <<>> /\ pc["main"] = "ready" /\ Head(calls["main"]) = "destroy"
          /\ UNCHANGED <<watch, registered, left, watching>>
      BY <1>14 DEF DestroyStop, Calls
    <2>2. CASE StoppingFails("main") /\ server \in {"running", "failed"}
      <3>1. ~Return("main")
        BY <2>1, <2>2, MainAlone DEF StoppingFails, Return, ThrowService
      <3> QED
        BY <1>2, <2>1, <2>2, <3>1, MainEnds DEF StoppingFails, Ends, Filed
    <2>3. CASE server' = Stopped /\ Goes("main", "destroying")
      BY <1>2, <1>3, <2>1, <2>3, MainGoesOn DEF Filed
    <2> QED
      BY <1>14, <2>2, <2>3 DEF DestroyStop
  <1>15. CASE DestroyServer("main")
    <2>1. pc["main"] = "destroying"
      BY <1>15 DEF DestroyServer, At
    <2>2. CASE server \in {"stopped", "destroyed"}
      <3>1. /\ server' = "destroyed" /\ Goes("main", "unregistering")
            /\ UNCHANGED <<watch, registered, watching>>
            /\ left' = [left EXCEPT !["main"] = watch]
        BY <1>15, <2>2 DEF DestroyServer
      <3>2. left'["main"] = watch
        BY <1>1, <3>1 DEF Inv, WebTypeOK
      <3> QED
        BY <1>3, <1>4, <1>5, <2>1, <3>1, <3>2, MainGoesOn DEF Filed
    <2>3. CASE server \in {"null", "running", "failed"}
      <3>1. /\ ThrowRuntime("main")
            /\ UNCHANGED <<server, watch, registered, watching>>
        BY <1>15, <2>3 DEF DestroyServer
      <3>2. ~Return("main")
        BY <1>5, <2>1, <3>1, MainAlone
           DEF Return, ThrowRuntime
      <3> QED
        BY <1>2, <1>5, <2>1, <3>1, <3>2, MainEnds DEF Ends, Filed
    <2> QED
      BY <1>1, <2>2, <2>3
  <1>16. CASE \E k \in WatchKeys : Unregister("main", k)
    <2>1. PICK k \in WatchKeys : Unregister("main", k)
      BY <1>16
    <2>2. pc["main"] = "unregistering" /\ UNCHANGED <<server, watch, registered, watching>>
      BY <2>1 DEF Unregister, At, service
    <2>3. CASE k \in registered
      <3>1. Goes("main", "unregistering") /\ left' = [left EXCEPT !["main"] = @ \ {k}]
        BY <2>1, <2>3 DEF Unregister
      <3>2. left'["main"] = left["main"] \ {k} /\ k # Connector
        BY <1>1, <2>3, <3>1, ConnectorUnregistered DEF Inv, WebTypeOK
      <3> QED
        BY <1>2, <1>3, <1>4, <1>5, <2>2, <3>1, <3>2, MainGoesOn DEF Filed
    <2>4. CASE k \notin registered
      <3>1. ThrowRuntime("main")
        BY <2>1, <2>4 DEF Unregister
      <3>2. ~Return("main")
        BY <1>5, <2>2, <3>1, MainAlone DEF Return, ThrowRuntime
      <3> QED
        BY <1>2, <1>5, <2>2, <3>1, <3>2, MainEnds DEF Ends, Filed
    <2> QED
      BY <2>3, <2>4
  <1>17. CASE DestroyEnd("main")
    <2>1. /\ pc["main"] = "unregistering" /\ left["main"] = {}
          /\ server' = "null" /\ watch' = {} /\ Return("main")
          /\ UNCHANGED <<registered, watching>>
      BY <1>17 DEF DestroyEnd, At
    <2>2. ~Filed
      BY <1>4, <2>1
    <2>3. registered \subseteq {Installed}
      BY <1>3, <1>5, <2>1, <2>2
    <2> QED
      BY <1>5, <2>1, <2>3, MainEnds DEF Ends
  <1>18. CASE RefreshEnter("main")
    BY <1>2, <1>3, <1>18, MainGoesOn DEF RefreshEnter, Calls, Filed, service
  <1>19. CASE RefreshEnd("main")
    <2>1. pc["main"] = "refreshing" /\ Head(calls["main"]) = "refresh"
      BY <1>4, <1>19 DEF RefreshEnd, At
    <2> QED
      BY <1>2, <1>3, <1>5, <1>19, <2>1, MainEnds DEF RefreshEnd, Ends, Filed, service
  <1> QED
    BY <1>6, <1>7, <1>8, <1>9, <1>10, <1>11, <1>12, <1>13, <1>14, <1>15, <1>16,
       <1>17, <1>18, <1>19 DEF Work

\* An exception in its destroy() leaves the directory thread without calls,
\* whereas a return would leave it two.
LEMMA ThrowsAreNoReturns ==
    ASSUME KeepInv, calls["watcher"] # <<>>, Head(calls["watcher"]) = "destroy",
           ThrowService("watcher") \/ ThrowRuntime("watcher")
    PROVE  ~Return("watcher")
  <1>1. calls["watcher"] \in {<<>>, <<"refresh">>, Halt, Tail(Halt)}
    BY DEF KeepInv, HaltInv
  <1>2. calls["watcher"] = Tail(Halt)
    BY <1>1, HaltCalls
  <1>3. "watcher" \in Threads /\ calls \in [Threads -> Seq(Op)]
    BY DEF Threads, KeepInv, Inv, WebTypeOK, Op
  <1>4. calls'["watcher"] = <<>>
    BY <1>3 DEF ThrowService, ThrowRuntime
  <1>5. Return("watcher") => calls'["watcher"] = Tail(Tail(Halt))
    BY <1>2, <1>3 DEF Return
  <1>6. Tail(Tail(Halt)) # <<>>
    BY DEF Halt
  <1> QED
    BY <1>4, <1>5, <1>6

\* The steps of the directory thread and of the shutdown hook.
LEMMA OtherKeeps ==
    ASSUME KeepInv, NEW t \in {"watcher", "hook"}, Work(t)
    PROVE  HeadInv' /\ ProgramInv' /\ HaltInv' /\ FiledInv'
  <1>1. t \in Threads /\ Inv /\ server \in {"null", "stopped", "running", "failed", "destroyed"}
    BY DEF Threads, KeepInv, Inv, WebTypeOK
  <1>2. /\ Stopped \notin {"running", "failed"} /\ (Stopped = "null" <=> server = "null")
        /\ server = "null" => watch = {}
        /\ server \in {"running", "failed"} => Filed
    BY <1>1 DEF Stopped, KeepInv, FiledInv
  <1>3. /\ pc[t] \in {"destroying", "unregistering"} => Head(calls[t]) = "destroy"
        /\ pc[t] = "refreshing" => Head(calls[t]) = "refresh"
        /\ pc[t] = "unregistering" /\ Filed => Connector \in left[t]
    BY <1>1 DEF KeepInv, HeadInv, FiledInv
  <1>4. pc[t] # "ready" => calls[t] # <<>>
    BY <1>1, InCall
  <1>5. ASSUME calls[t] # <<>>
        PROVE  /\ Head(calls[t]) \in {"refresh", "stop", "destroy"}
               /\ t = "watcher" /\ Head(calls[t]) # "refresh" => Filed
               /\ pc[t] \in {"ready", "destroying", "unregistering", "refreshing"}
    BY <1>5, OthersCall
  <1>6. CASE StopService(t)
    BY <1>2, <1>6, OtherEnds DEF StopService, StoppingFails, Calls, Ends, Filed
  <1>7. CASE InitServer(t) \/ StartUninitialised(t) \/ StartEnter(t)
    BY <1>5, <1>7 DEF InitServer, StartUninitialised, StartEnter, Calls
  <1>8. CASE \/ InitRegister(t) \/ SetupConnectors(t) \/ StartServer(t)
             \/ \E w \in Wars : SetupWebapp(t, w)
    BY <1>4, <1>5, <1>8 DEF InitRegister, SetupConnectors, StartServer, SetupWebapp, At
  <1>9. CASE DestroyStop(t)
    <2>1. /\ calls[t] # <<>> /\ pc[t] = "ready" /\ Head(calls[t]) = "destroy"
          /\ UNCHANGED <<watch, registered, left, watching>>
      BY <1>9 DEF DestroyStop, Calls
    <2>2. CASE StoppingFails(t) /\ server \in {"running", "failed"}
      <3>1. t = "watcher" => ~Return(t)
        BY <1>1, <2>1, <2>2, ThrowsAreNoReturns DEF StoppingFails
      <3> QED
        BY <1>2, <2>1, <2>2, <3>1, OtherEnds DEF StoppingFails, Ends, Filed
    <2>3. CASE server' = Stopped /\ Goes(t, "destroying")
      BY <1>2, <2>1, <2>3, OtherGoesOn
    <2> QED
      BY <1>9, <2>2, <2>3 DEF DestroyStop
  <1>10. CASE DestroyServer(t)
    <2>1. pc[t] = "destroying"
      BY <1>10 DEF DestroyServer, At
    <2>2. CASE server \in {"stopped", "destroyed"}
      <3>1. /\ server' = "destroyed" /\ Goes(t, "unregistering")
            /\ UNCHANGED <<watch, registered, watching>>
            /\ left' = [left EXCEPT ![t] = watch]
        BY <1>10, <2>2 DEF DestroyServer
      <3>2. left'[t] = watch /\ \A u \in Threads \ {t} : left'[u] = left[u]
        BY <1>1, <3>1 DEF Inv, WebTypeOK
      <3> QED
        BY <1>3, <1>4, <2>1, <3>1, <3>2, OtherGoesOn DEF Filed
    <2>3. CASE server \in {"null", "running", "failed"}
      <3>1. /\ ThrowRuntime(t)
            /\ UNCHANGED <<server, watch, registered, left, watching>>
        BY <1>10, <2>3 DEF DestroyServer
      <3>2. t = "watcher" => ~Return(t)
        BY <1>3, <1>4, <2>1, <3>1, ThrowsAreNoReturns
      <3> QED
        BY <1>2, <1>4, <2>1, <3>1, <3>2, OtherEnds DEF Ends, Filed
    <2> QED
      BY <1>1, <2>2, <2>3
  <1>11. CASE \E k \in WatchKeys : Unregister(t, k)
    <2>1. PICK k \in WatchKeys : Unregister(t, k)
      BY <1>11
    <2>2. pc[t] = "unregistering" /\ UNCHANGED <<server, watch, registered, watching>>
      BY <2>1 DEF Unregister, At, service
    <2>3. CASE k \in registered
      <3>1. Goes(t, "unregistering") /\ left' = [left EXCEPT ![t] = @ \ {k}]
        BY <2>1, <2>3 DEF Unregister
      <3>2. /\ left'[t] = left[t] \ {k} /\ k # Connector
            /\ \A u \in Threads \ {t} : left'[u] = left[u]
        BY <1>1, <2>3, <3>1, ConnectorUnregistered DEF Inv, WebTypeOK
      <3> QED
        BY <1>2, <1>3, <1>4, <2>2, <3>1, <3>2, OtherGoesOn DEF Filed
    <2>4. CASE k \notin registered
      <3>1. ThrowRuntime(t) /\ left' = [left EXCEPT ![t] = {}]
        BY <2>1, <2>4 DEF Unregister
      <3>2. \A u \in Threads \ {t} : left'[u] = left[u]
        BY <1>1, <3>1 DEF Inv, WebTypeOK
      <3>3. t = "watcher" => ~Return(t)
        BY <1>3, <1>4, <2>2, <3>1, ThrowsAreNoReturns
      <3> QED
        BY <1>2, <1>4, <2>2, <3>1, <3>2, <3>3, OtherEnds DEF Ends, Filed
    <2> QED
      BY <2>3, <2>4
  <1>12. CASE DestroyEnd(t)
    <2>1. /\ pc[t] = "unregistering" /\ left[t] = {}
          /\ server' = "null" /\ watch' = {} /\ Return(t)
          /\ UNCHANGED <<registered, left, watching>>
      BY <1>12 DEF DestroyEnd, At
    <2>2. ~Filed /\ ~Filed'
      BY <1>3, <2>1 DEF Filed
    <2>3. t # "watcher"
      BY <1>3, <1>4, <1>5, <2>1, <2>2
    <2> QED
      BY <1>4, <2>1, <2>2, <2>3, OtherEnds DEF Ends
  <1>13. CASE RefreshEnter(t)
    BY <1>2, <1>13, OtherGoesOn DEF RefreshEnter, Calls, service
  <1>14. CASE RefreshEnd(t)
    <2>1. pc[t] = "refreshing" /\ Head(calls[t]) = "refresh"
      BY <1>3, <1>14 DEF RefreshEnd, At
    <2> QED
      BY <1>2, <1>4, <1>14, <2>1, OtherEnds DEF RefreshEnd, Ends, Filed, service
  <1> QED
    BY <1>6, <1>7, <1>8, <1>9, <1>10, <1>11, <1>12, <1>13, <1>14 DEF Work

\* The steps outside the service.
LEMMA OutsideKeeps ==
    ASSUME KeepInv,
           \/ StartReloader \/ StartInstaller \/ AddShutdownHook
           \/ CheckBegin \/ (\E p \in Properties : Fire(p)) \/ CheckEnd
           \/ Shutdown \/ HookGoesOn \/ HookWaits \/ InstallationEnds \/ HookEnd
    PROVE  HeadInv' /\ ProgramInv' /\ HaltInv' /\ FiledInv'
  <1> USE DEF service, locks, control, reloader
  <1>1. "main" \in Threads /\ "watcher" \in Threads /\ "hook" \in Threads
    BY DEF Threads
  <1>2. CASE \/ CheckBegin \/ CheckEnd
             \/ HookGoesOn \/ HookWaits \/ InstallationEnds \/ HookEnd
    BY <1>2 DEF CheckBegin, CheckEnd, HookGoesOn, HookWaits, InstallationEnds,
                HookEnd, KeepInv, HeadInv, ProgramInv, HaltInv, FiledInv, Filed
  <1>3. CASE StartReloader
    <2>1. HeadInv' /\ ProgramInv'
      BY <1>3 DEF StartReloader, KeepInv, HeadInv, ProgramInv, Filed
    <2>2. HaltInv' /\ FiledInv'
      BY <1>3 DEF StartReloader, KeepInv, HaltInv, FiledInv, Filed
    <2> QED
      BY <2>1, <2>2
  <1>4. CASE StartInstaller \/ AddShutdownHook
    <2>1. watching
      BY <1>4 DEF StartInstaller, AddShutdownHook, KeepInv, HaltInv
    <2>2. HeadInv' /\ ProgramInv'
      BY <1>4 DEF StartInstaller, AddShutdownHook, KeepInv, HeadInv, ProgramInv,
                  Filed
    <2>3. HaltInv' /\ FiledInv'
      BY <1>4, <2>1
         DEF StartInstaller, AddShutdownHook, KeepInv, HaltInv, FiledInv, Filed
    <2> QED
      BY <2>2, <2>3
  <1>5. CASE \E p \in Properties : Fire(p)
    <2>1. PICK p \in Properties : Fire(p)
      BY <1>5
    <2>2. /\ calls["watcher"] = <<>> /\ p \in registered /\ lookups = "watcher"
          /\ UNCHANGED <<server, known, watch, registered, pc, left, watching, starter>>
          /\ calls' = [calls EXCEPT !["watcher"] =
                         IF p = Installed THEN <<"refresh">> ELSE Halt]
      BY <2>1 DEF Fire
    <2>3. watching /\ calls["main"] = <<>> /\ pc["main"] = "ready" /\ pc["watcher"] = "ready"
      BY <1>1, <2>2 DEF KeepInv, Inv, OrderInv
    <2>4. /\ calls'["watcher"] = IF p = Installed THEN <<"refresh">> ELSE Halt
          /\ \A t \in Threads \ {"watcher"} : calls'[t] = calls[t]
      BY <1>1, <2>2 DEF KeepInv, Inv, WebTypeOK
    <2>5. p # Installed => Filed
      BY <2>2, <2>3 DEF KeepInv, FiledInv
    <2>6. HeadInv'
      BY <2>2, <2>3, <2>4 DEF KeepInv, HeadInv
    <2>7. ProgramInv'
      BY <1>1, <2>2, <2>3, <2>4 DEF KeepInv, ProgramInv
    <2>8. HaltInv'
      BY <2>2, <2>3, <2>4, <2>5, HaltCalls DEF HaltInv, Filed
    <2>9. FiledInv'
      BY <2>2 DEF KeepInv, FiledInv, Filed
    <2> QED
      BY <2>6, <2>7, <2>8, <2>9
  <1>6. CASE Shutdown
    <2>1. UNCHANGED <<server, known, watch, registered, pc, left, watching, starter>>
      BY <1>6 DEF Shutdown
    <2>2. \/ UNCHANGED calls
          \/ starter = "hooked" /\ calls' = [calls EXCEPT !["hook"] = <<"destroy">>]
      BY <1>6 DEF Shutdown
    <2>3. /\ \A t \in Threads \ {"hook"} : calls'[t] = calls[t]
          /\ \/ calls'["hook"] = calls["hook"]
             \/ starter = "hooked" /\ calls'["hook"] = <<"destroy">>
      BY <1>1, <2>2 DEF KeepInv, Inv, WebTypeOK
    <2>4. Head(<<"destroy">>) = "destroy"
      OBVIOUS
    <2>5. pc["hook"] \in {"ready", "destroying", "unregistering"}
      BY DEF KeepInv, Inv, OrderInv
    <2>6. HeadInv'
      <3>1. ASSUME NEW t \in Threads \ {"hook"}
            PROVE  calls'[t] = calls[t] /\ pc'[t] = pc[t]
        BY <2>1, <2>3
      <3>2. /\ pc'["hook"] \in {"ready", "destroying", "unregistering"}
            /\ pc'["hook"] # "ready" => Head(calls'["hook"]) = "destroy"
        BY <1>1, <2>1, <2>3, <2>4, <2>5 DEF KeepInv, HeadInv
      <3> QED
        BY <3>1, <3>2 DEF KeepInv, HeadInv
    <2>7. ProgramInv'
      BY <1>1, <2>1, <2>3 DEF KeepInv, ProgramInv, Filed
    <2>8. HaltInv'
      BY <1>1, <2>1, <2>3 DEF KeepInv, HaltInv, Filed
    <2>9. FiledInv'
      BY <2>1 DEF KeepInv, FiledInv, Filed
    <2> QED
      BY <2>6, <2>7, <2>8, <2>9
  <1> QED
    BY <1>2, <1>3, <1>4, <1>5, <1>6

LEMMA KeepStep == KeepInv /\ [WebNext]_webVars => KeepInv'
  <1> SUFFICES ASSUME KeepInv, [WebNext]_webVars PROVE KeepInv'
    OBVIOUS
  <1>1. Inv'
    BY NextInv DEF KeepInv
  <1>2. CASE UNCHANGED webVars
    BY <1>1, <1>2 DEF webVars, service, locks, control, reloader, KeepInv, HeadInv,
                      ProgramInv, HaltInv, FiledInv, Filed
  <1>3. CASE \E t \in Threads : Work(t)
    BY <1>1, <1>3, MainKeeps, OtherKeeps DEF KeepInv, Threads
  <1> QED
    BY <1>1, <1>2, <1>3, OutsideKeeps DEF KeepInv, WebNext

\* A running server is stopped before the service lets go of it and of its
\* handlers, whichever threads halt, refresh and destroy the service, if main
\* initialises no service it has not destroyed.
THEOREM RunningServerAlwaysKept ==
    ASSUME OrderlyMain PROVE WebSpec => RunningServerKept
  <1>1. KeepInv /\ [WebNext]_webVars =>
          [(server \in {"running", "failed"})
           => /\ server' \in {"running", "failed", "stopped"}
              /\ watch \subseteq watch']_webVars
    <2> SUFFICES ASSUME KeepInv, WebNext, server \in {"running", "failed"}
                 PROVE  /\ server' \in {"running", "failed", "stopped"}
                        /\ watch \subseteq watch'
      OBVIOUS
    <2>1. Filed
      BY DEF KeepInv, FiledInv
    <2>2. ASSUME NEW t \in Threads, InitServer(t) PROVE FALSE
      <3>1. calls[t] # <<>> /\ pc[t] = "ready" /\ Head(calls[t]) = "init"
        BY <2>2 DEF InitServer, Calls
      <3>2. t = "main"
        BY <3>1, OthersCall DEF Threads
      <3> QED
        BY <3>1, <3>2 DEF KeepInv, ProgramInv
    <2>3. ASSUME NEW t \in Threads, DestroyEnd(t) PROVE FALSE
      BY <2>1, <2>3 DEF DestroyEnd, At, KeepInv, FiledInv
    <2>4. CASE \E t \in Threads : Work(t)
      <3>1. PICK t \in Threads : Work(t)
        BY <2>4
      <3> QED
        BY <2>2, <2>3, <3>1
           DEF Work, StopService, Stopped, StoppingFails, InitRegister, StartUninitialised, StartEnter,
               SetupConnectors, StartServer, SetupWebapp, DestroyStop,
               DestroyServer, Unregister, RefreshEnter, RefreshEnd, service
    <2>5. CASE \/ StartReloader \/ StartInstaller \/ AddShutdownHook
               \/ CheckBegin \/ (\E p \in Properties : Fire(p)) \/ CheckEnd
               \/ Shutdown \/ HookGoesOn \/ HookWaits \/ InstallationEnds \/ HookEnd
      BY <2>5 DEF StartReloader, StartInstaller, AddShutdownHook, CheckBegin, Fire,
                  CheckEnd, Shutdown, HookGoesOn, HookWaits, InstallationEnds,
                  HookEnd, service
    <2> QED
      BY <2>4, <2>5 DEF WebNext
  <1> QED
    BY <1>1, KeepStart, KeepStep, PTL DEF WebSpec, RunningServerKept
=============================================================================
