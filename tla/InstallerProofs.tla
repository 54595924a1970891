--------------------------- MODULE InstallerProofs ---------------------------
(***************************************************************************)
(* Proofs about the background installer, for every number of requests,    *)
(* stopping calls and steps.                                               *)
(***************************************************************************)
EXTENDS Installer, SequenceTheorems, TLAPS

USE InstallerAssumption

\* The initial state satisfies the inductive invariant.
LEMMA InitInv == Init => Inv
  <1> SUFFICES ASSUME Init PROVE Inv
    OBVIOUS
  <1> USE DEF Init
  <1>1. TypeOK
    <2>1. log \in Seq(LogEntry)
      BY EmptySeq
    <2>2. index \in 1..(StepCount + 1)
      OBVIOUS
    <2>3. QED
      BY <2>1, <2>2 DEF TypeOK, WorkerStates, RequesterStates, StopperStates
  <1>2. MonitorInv /\ ListsInv /\ HandoverInv
    BY DEF MonitorInv, ListsInv, HandoverInv
  <1>3. LoopInv /\ ErrorInv
    BY DEF LoopInv, ErrorInv
  <1>4. InputOfSameRequest /\ NoLostWakeup /\ InterruptInv
    BY DEF InputOfSameRequest, NoLostWakeup, InterruptInv
  <1>5. QED
    BY <1>1, <1>2, <1>3, <1>4 DEF Inv

\* A step of the thread that executes no installation step.
QuietThreadStep ==
    \/ WaitNext \/ WakeSpuriously \/ LeaveWait \/ ResetError
    \/ TestLoop \/ Fetch \/ SetError \/ NotifyInstallFinish \/ Exit
    \/ InitService \/ StartService

\* Such a step keeps the invariant.
LEMMA QuietThreadStepInv == Inv /\ QuietThreadStep => Inv'
  <1> SUFFICES ASSUME Inv, QuietThreadStep PROVE Inv'
    OBVIOUS
  <1> USE DEF shared
  <1>1. UNCHANGED <<log, rpc, session, monitor, steps, args, installed>>
    BY DEF QuietThreadStep, WaitNext, WakeSpuriously, LeaveWait, ResetError,
           TestLoop, Fetch, SetError, NotifyInstallFinish, Exit, InitService,
           StartService
  <1>2. TypeOK'
    <2> USE DEF Inv, TypeOK, WorkerStates
    <2>1. CASE WaitNext BY <2>1 DEF WaitNext
    <2>2. CASE WakeSpuriously BY <2>2 DEF WakeSpuriously
    <2>3. CASE LeaveWait BY <2>3 DEF LeaveWait
    <2>4. CASE ResetError BY <2>4 DEF ResetError
    <2>5. CASE TestLoop BY <2>5 DEF TestLoop
    <2>6. CASE Fetch
      BY <2>6 DEF Fetch, ObjectAt, Input, ListsInv, MonitorInv, LoopInv
    <2>7. CASE SetError BY <2>7 DEF SetError, LoopInv
    <2>8. CASE NotifyInstallFinish
      BY <2>8 DEF NotifyInstallFinish, StopperStates
    <2>9. CASE Exit BY <2>9 DEF Exit
    <2>10. CASE InitService BY <2>10 DEF InitService
    <2>11. CASE StartService BY <2>11 DEF StartService
    <2>12. QED
      BY <2>1, <2>2, <2>3, <2>4, <2>5, <2>6, <2>7, <2>8, <2>9, <2>10, <2>11
         DEF QuietThreadStep
  <1>3. MonitorInv' /\ InputOfSameRequest'
    BY <1>1 DEF Inv, MonitorInv, InputOfSameRequest, ObjectAt
  <1>4. ListsInv'
    <2>1. CASE Fetch
      BY <1>1, <2>1 DEF Inv, ListsInv, Fetch
    <2>2. CASE ~Fetch
      <3>1. UNCHANGED current
        BY <2>2 DEF QuietThreadStep, WaitNext, WakeSpuriously, LeaveWait,
           ResetError, TestLoop, SetError, NotifyInstallFinish, Exit,
           InitService, StartService
      <3>2. QED
        BY <1>1, <3>1 DEF Inv, ListsInv
    <2>3. QED
      BY <2>1, <2>2
  <1>5. HandoverInv' /\ NoLostWakeup'
    BY <1>1 DEF Inv, HandoverInv, NoLostWakeup, QuietThreadStep, WaitNext,
       WakeSpuriously, LeaveWait, ResetError, TestLoop, Fetch, SetError,
       NotifyInstallFinish, Exit, InitService, StartService
  <1>6. LoopInv'
    <2> USE DEF Inv, TypeOK, LoopInv, ObjectAt
    <2>1. CASE WaitNext BY <1>1, <2>1 DEF WaitNext
    <2>2. CASE WakeSpuriously BY <1>1, <2>2 DEF WakeSpuriously
    <2>3. CASE LeaveWait BY <1>1, <2>3 DEF LeaveWait
    <2>4. CASE ResetError BY <1>1, <2>4 DEF ResetError
    <2>5. CASE TestLoop BY <1>1, <2>5 DEF TestLoop
    <2>6. CASE Fetch
      BY <1>1, <2>6 DEF Fetch, ListsInv, MonitorInv
    <2>7. CASE SetError BY <1>1, <2>7 DEF SetError
    <2>8. CASE NotifyInstallFinish BY <1>1, <2>8 DEF NotifyInstallFinish
    <2>9. CASE Exit BY <1>1, <2>9 DEF Exit
    <2>10. CASE InitService BY <1>1, <2>10 DEF InitService
    <2>11. CASE StartService BY <1>1, <2>11 DEF StartService
    <2>12. QED
      BY <2>1, <2>2, <2>3, <2>4, <2>5, <2>6, <2>7, <2>8, <2>9, <2>10, <2>11
         DEF QuietThreadStep
  <1>7. ErrorInv'
    <2> USE DEF Inv, TypeOK, ErrorInv
    <2>1. CASE ResetError BY <1>1, <2>1 DEF ResetError, LoopInv
    <2>2. CASE SetError BY <1>1, <2>2 DEF SetError
    <2>3. CASE TestLoop BY <1>1, <2>3 DEF TestLoop
    <2>4. CASE WaitNext BY <1>1, <2>4 DEF WaitNext
    <2>5. CASE ~(ResetError \/ SetError \/ TestLoop \/ WaitNext)
      BY <1>1, <2>5 DEF QuietThreadStep, WakeSpuriously, LeaveWait, Fetch,
         NotifyInstallFinish, Exit, InitService, StartService
    <2>6. QED
      BY <2>1, <2>2, <2>3, <2>4, <2>5
  <1>8. InterruptInv'
    BY DEF Inv, InterruptInv, QuietThreadStep, WaitNext, WakeSpuriously,
       LeaveWait, ResetError, TestLoop, Fetch, SetError, NotifyInstallFinish,
       Exit, InitService, StartService, TypeOK
  <1>9. QED
    BY <1>2, <1>3, <1>4, <1>5, <1>6, <1>7, <1>8 DEF Inv
\* An installation step that returns or throws appends the entry of the step
\* and of the input the thread has fetched.
LEMMA StepEnds ==
  ASSUME Inv, InstallReturns \/ InstallThrows
  PROVE  \E e \in LogEntry :
            /\ log' = Append(log, e)
            /\ e.step = index /\ e.step = Len(log) + 1
            /\ e.list = current.list /\ e.input = current.input
            /\ e.input = ObjectAt(e.list, e.step)
            /\ e.ok <=> InstallReturns
  <1> USE DEF Inv, TypeOK, LoopInv
  <1>1. CASE InstallReturns
    <2>1. Executed(TRUE) \in LogEntry
      BY <1>1 DEF InstallReturns, Executed, LogEntry, Input, ObjectAt, Step
    <2>2. QED
      BY <1>1, <2>1 DEF InstallReturns, Executed
  <1>2. CASE InstallThrows
    <2>1. Executed(FALSE) \in LogEntry
      BY <1>2 DEF InstallThrows, Executed, LogEntry, Input, ObjectAt, Step
    <2>2. ~InstallReturns
      BY <1>2 DEF InstallThrows, InstallReturns
    <2>3. QED
      BY <1>2, <2>1, <2>2 DEF InstallThrows, Executed
  <1>3. QED
    BY <1>1, <1>2

\* Such a step keeps the invariant.
LEMMA StepEndsInv == Inv /\ (InstallReturns \/ InstallThrows) => Inv'
  <1> SUFFICES ASSUME Inv, InstallReturns \/ InstallThrows PROVE Inv'
    OBVIOUS
  <1>1. PICK e \in LogEntry :
            /\ log' = Append(log, e)
            /\ e.step = index /\ e.step = Len(log) + 1
            /\ e.list = current.list /\ e.input = current.input
            /\ e.input = ObjectAt(e.list, e.step)
            /\ e.ok <=> InstallReturns
    BY StepEnds
  <1>2. /\ UNCHANGED <<current, shared, installed, rpc, session, spc,
                       operation>>
        /\ worker = "installing" /\ steps # None /\ index \in 1..StepCount
        /\ \/ InstallReturns /\ worker' = "testing" /\ index' = index + 1
           \/ ~InstallReturns /\ worker' = "recording" /\ index' = index
    <2>1. CASE InstallReturns
      BY <2>1 DEF Inv, TypeOK, LoopInv, InstallReturns
    <2>2. CASE InstallThrows
      BY <2>2 DEF Inv, TypeOK, LoopInv, InstallReturns, InstallThrows
    <2>3. QED
      BY <2>1, <2>2
  <1>3. /\ log' \in Seq(LogEntry)
        /\ Len(log') = Len(log) + 1
        /\ log'[Len(log) + 1] = e
        /\ \A n \in DOMAIN log : n \in DOMAIN log' /\ log'[n] = log[n]
        /\ \A n \in DOMAIN log' : n \in DOMAIN log \/ n = Len(log) + 1
    BY <1>1 DEF Inv, TypeOK
  <1> USE DEF shared
  <1>4. TypeOK'
    BY <1>2, <1>3 DEF Inv, TypeOK, WorkerStates
  <1>5. MonitorInv' /\ HandoverInv' /\ NoLostWakeup' /\ InterruptInv'
    BY <1>2 DEF Inv, MonitorInv, HandoverInv, NoLostWakeup, InterruptInv
  <1>6. ListsInv'
    BY <1>1, <1>2, <1>3 DEF Inv, ListsInv
  <1>7. LoopInv'
    BY <1>2, <1>3 DEF Inv, LoopInv, TypeOK
  <1>8. ErrorInv'
    <2>1. (\E n \in DOMAIN log' : ~log'[n].ok) <=> ~InstallReturns
      BY <1>1, <1>2, <1>3 DEF Inv, ErrorInv, TypeOK
    <2>2. QED
      BY <1>2, <2>1 DEF Inv, ErrorInv, TypeOK
  <1>9. InputOfSameRequest'
    BY <1>1, <1>2, <1>3 DEF Inv, InputOfSameRequest, ObjectAt
  <1>10. QED
    BY <1>4, <1>5, <1>6, <1>7, <1>8, <1>9 DEF Inv

\* A step of a request keeps the invariant.
LEMMA RequestInv ==
  ASSUME Inv, NEW r \in Requesters,
         Request(r) \/ \E objects \in SUBSET Step : Collect(r, objects)
  PROVE  Inv'
  <1> USE DEF thread, shared, GoTo
  <1>1. TypeOK'
    <2> USE DEF Inv, TypeOK, RequesterStates
    <2>1. CASE \E objects \in SUBSET Step : Collect(r, objects)
      BY <2>1 DEF Collect
    <2>2. CASE SetSteps(r) \/ SetArgs(r) \/ LeaveInstall(r)
      BY <2>2 DEF SetSteps, SetArgs, LeaveInstall
    <2>3. CASE NotifyNext(r)
      BY <2>3 DEF NotifyNext, WorkerStates
    <2>4. CASE CheckAlive(r) \/ CheckBlocked(r) \/ CheckWaiting(r) \/ Reply(r)
      BY <2>4 DEF CheckAlive, CheckBlocked, CheckWaiting, Reply
    <2>5. CASE DoFinal(r)
      BY <2>5 DEF DoFinal
    <2>6. QED
      BY <2>1, <2>2, <2>3, <2>4, <2>5 DEF Request
  <1>2. MonitorInv'
    BY DEF Inv, TypeOK, MonitorInv, Request, Collect, CheckAlive,
       CheckBlocked, CheckWaiting, SetSteps, SetArgs, NotifyNext,
       LeaveInstall, Reply, DoFinal
  <1>3. UNCHANGED <<index, current, log, failed, interrupted, spc>>
    BY DEF Request, Collect, CheckAlive, CheckBlocked, CheckWaiting, SetSteps,
       SetArgs, NotifyNext, LeaveInstall, Reply, DoFinal
  <1>4. rpc' = [rpc EXCEPT ![r] = rpc'[r]] /\ rpc'[r] # "browsing"
    BY DEF Inv, TypeOK, Request, Collect, CheckAlive, CheckBlocked,
       CheckWaiting, SetSteps, SetArgs, NotifyNext, LeaveInstall, Reply,
       DoFinal
  <1>5. \A q \in Requesters : rpc[q] # "browsing" => session'[q] = session[q]
    BY DEF Inv, TypeOK, Request, Collect, CheckAlive, CheckBlocked,
       CheckWaiting, SetSteps, SetArgs, NotifyNext, LeaveInstall, Reply,
       DoFinal
  <1>6. ListsInv'
    <2>1. /\ (\A q \in Requesters : rpc'[q] # "setArgs") => steps' = args'
          /\ \A q \in Requesters : rpc'[q] = "setArgs" => steps' = q
      <3>1. CASE SetSteps(r) \/ SetArgs(r)
        BY <3>1 DEF Inv, TypeOK, MonitorInv, ListsInv, SetSteps, SetArgs
      <3>2. CASE ~(SetSteps(r) \/ SetArgs(r))
        <4>1. /\ UNCHANGED <<steps, args>>
              /\ \A q \in Requesters :
                    rpc[q] = "setArgs" <=> rpc'[q] = "setArgs"
          BY <3>2 DEF Inv, TypeOK, Request, Collect, CheckAlive, CheckBlocked,
             CheckWaiting, NotifyNext, LeaveInstall, Reply, DoFinal
        <4>2. QED
          BY <4>1 DEF Inv, ListsInv
      <3>3. QED
        BY <3>1, <3>2
    <2>2. (steps' = steps \/ steps' = r) /\ (args' = args \/ args' = r)
      BY DEF Request, Collect, CheckAlive, CheckBlocked, CheckWaiting,
         SetSteps, SetArgs, NotifyNext, LeaveInstall, Reply, DoFinal
    <2>3. QED
      BY <1>3, <1>4, <2>1, <2>2 DEF Inv, ListsInv, TypeOK
  <1>7. HandoverInv' /\ NoLostWakeup'
    BY DEF Inv, TypeOK, HandoverInv, NoLostWakeup, Alive, MayBeBlocked,
       NeedsMonitor, MayBeWaiting, Request, Collect, CheckAlive, CheckBlocked,
       CheckWaiting, SetSteps, SetArgs, NotifyNext, LeaveInstall, Reply,
       DoFinal
  <1>8. LoopInv'
    <2>1. \/ worker' = worker
          \/ worker = "waiting" /\ worker' = "notified"
      <3>1. CASE NotifyNext(r)
        BY <3>1 DEF NotifyNext
      <3>2. CASE ~NotifyNext(r)
        BY <3>2 DEF Request, Collect, CheckAlive, CheckBlocked, CheckWaiting,
           SetSteps, SetArgs, LeaveInstall, Reply, DoFinal
      <3>3. QED
        BY <3>1, <3>2
    <2>2. steps' # None \/ steps' = steps
      BY DEF Request, Collect, CheckAlive, CheckBlocked, CheckWaiting,
         SetSteps, SetArgs, NotifyNext, LeaveInstall, Reply, DoFinal
    <2>3. worker = "installing" =>
            ObjectAt(current.list, index)' = ObjectAt(current.list, index)
      BY <1>3, <1>5 DEF Inv, LoopInv, ListsInv, ObjectAt
    <2>4. QED
      BY <1>3, <2>1, <2>2, <2>3 DEF Inv, LoopInv
  <1>9. ErrorInv'
    BY <1>3 DEF Inv, ErrorInv, Request, Collect, CheckAlive, CheckBlocked,
       CheckWaiting, SetSteps, SetArgs, NotifyNext, LeaveInstall, Reply,
       DoFinal
  <1>10. InputOfSameRequest'
    <2> SUFFICES ASSUME NEW n \in DOMAIN log
                 PROVE  ObjectAt(log[n].list, log[n].step)'
                            = ObjectAt(log[n].list, log[n].step)
      BY <1>3 DEF Inv, InputOfSameRequest
    <2>1. log[n].list \in Requesters /\ rpc[log[n].list] # "browsing"
      <3>1. log[n] \in LogEntry
        BY DEF Inv, TypeOK
      <3>2. QED
        BY <3>1 DEF Inv, ListsInv, LogEntry
    <2>2. QED
      BY <1>3, <1>5, <2>1 DEF ObjectAt
  <1>11. InterruptInv'
    BY <1>3 DEF Inv, InterruptInv, Request, Collect, CheckAlive, CheckBlocked,
       CheckWaiting, SetSteps, SetArgs, NotifyNext, LeaveInstall, Reply,
       DoFinal
  <1>12. QED
    BY <1>1, <1>2, <1>6, <1>7, <1>8, <1>9, <1>10, <1>11 DEF Inv

\* A step of a stopping call keeps the invariant.
LEMMA StopInv ==
  ASSUME Inv, NEW s \in Stoppers,
         \/ Stop(s) \/ WakeStopperSpuriously(s)
         \/ \E op \in {"stop", "refresh", "destroy"} : CheckRunning(s, op)
  PROVE  Inv'
  <1> USE DEF thread, shared, StopGoTo
  <1>1. UNCHANGED <<index, current, log, monitor, steps, args, failed,
                    installed, rpc, session>>
    BY DEF Stop, WakeStopperSpuriously, CheckRunning, WaitInstallFinish,
       Interrupt, Join, Restart
  <1>2. \/ worker' = worker
        \/ worker = "waiting" /\ worker' = "resetting"
        \/ worker = "new" /\ worker' = "entering"
    BY DEF Stop, WakeStopperSpuriously, CheckRunning, WaitInstallFinish,
       Interrupt, Join, Restart
  <1>3. TypeOK'
    <2> USE DEF Inv, TypeOK, StopperStates
    <2>1. CASE Interrupt(s) \/ Restart(s)
      BY <2>1 DEF Interrupt, Restart, WorkerStates
    <2>2. CASE WaitInstallFinish(s) \/ Join(s) \/ WakeStopperSpuriously(s)
      BY <2>2 DEF WaitInstallFinish, Join, WakeStopperSpuriously, AfterStop
    <2>3. CASE \E op \in {"stop", "refresh", "destroy"} : CheckRunning(s, op)
      BY <2>3 DEF CheckRunning
    <2>4. QED
      BY <2>1, <2>2, <2>3 DEF Stop
  <1>4. MonitorInv' /\ ListsInv' /\ InputOfSameRequest'
    BY <1>1 DEF Inv, MonitorInv, ListsInv, InputOfSameRequest, ObjectAt
  <1>5. HandoverInv' /\ NoLostWakeup'
    BY <1>1, <1>2 DEF Inv, HandoverInv, NoLostWakeup
  <1>6. LoopInv' /\ ErrorInv'
    BY <1>1, <1>2 DEF Inv, LoopInv, ErrorInv, ObjectAt
  <1>7. InterruptInv'
    BY <1>2 DEF Inv, TypeOK, InterruptInv, Stop, WakeStopperSpuriously,
       CheckRunning, WaitInstallFinish, Interrupt, Join, Restart, AfterStop
  <1>8. QED
    BY <1>3, <1>4, <1>5, <1>6, <1>7 DEF Inv

\* Every step keeps the invariant.
LEMMA NextInv == Inv /\ [Next]_vars => Inv'
  <1>1. Inv /\ UNCHANGED vars => Inv'
    BY DEF Inv, vars, thread, shared, TypeOK, MonitorInv, ListsInv,
       HandoverInv, LoopInv, ErrorInv, InputOfSameRequest, NoLostWakeup,
       InterruptInv, ObjectAt
  <1>2. QED
    BY <1>1, QuietThreadStepInv, StepEndsInv, RequestInv, StopInv
       DEF Next, Run, QuietThreadStep

\* The inductive invariant holds in every reachable state.
THEOREM Invariance == Spec => []Inv
  BY InitInv, NextInv, PTL DEF Spec

\* Type correctness.
THEOREM TypeCorrect == Spec => []TypeOK
  BY Invariance, PTL DEF Inv

\* Every executed step was given the object of the request whose list of
\* steps it was taken from, whatever requests ran at the same time.
THEOREM InputsNeverTorn == Spec => []InputOfSameRequest
  BY Invariance, PTL DEF Inv

\* No request leaves its list with a thread that sleeps on.
THEOREM WakeupNeverLost == Spec => []NoLostWakeup
  BY Invariance, PTL DEF Inv

\* No stopping call interrupts an installation that is going on.
THEOREM InstallationNeverInterrupted == Spec => []InterruptSparesInstallation
  <1>1. Inv => InterruptSparesInstallation
    BY DEF Inv, InterruptInv, InterruptSparesInstallation
  <1>2. QED
    BY <1>1, Invariance, PTL

-----------------------------------------------------------------------------
(* The threads implement the promise.                                      *)

\* A step that ends an installation step performs it.
LEMMA StepEndsPerforms ==
  Inv /\ (InstallReturns \/ InstallThrows) => Promise!Next
  <1> SUFFICES ASSUME Inv, InstallReturns \/ InstallThrows
               PROVE  Promise!Next
    OBVIOUS
  <1>1. PICK e \in LogEntry :
            /\ log' = Append(log, e)
            /\ e.step = index /\ e.step = Len(log) + 1
            /\ e.list = current.list /\ e.input = current.input
            /\ e.input = ObjectAt(e.list, e.step)
            /\ e.ok <=> InstallReturns
    BY StepEnds
  <1>2. /\ worker = "installing" /\ worker' \in {"testing", "recording"}
        /\ steps' = steps /\ steps # None
        /\ InstallReturns => current.input # NoObject \/ index \notin Required
    BY DEF Inv, LoopInv, InstallReturns, InstallThrows, shared
  <1>3. Phase = "running" /\ Phase' = "running"
    BY <1>2 DEF Phase
  <1>4. ~Promise!Failed
    BY <1>2 DEF Inv, ErrorInv, Promise!Failed
  <1>5. e \in Promise!Entry
    BY <1>1 DEF LogEntry, Step, Input, Promise!Entry
  <1>6. Promise!Perform(e)
    BY <1>1, <1>2, <1>3, <1>4 DEF Promise!Perform
  <1>7. QED
    BY <1>5, <1>6 DEF Promise!Next

\* The other steps of the thread begin the installation, end it or are not
\* visible.
LEMMA QuietThreadStepRefines ==
  Inv /\ QuietThreadStep => [Promise!Next]_<<Phase, log>>
  <1> SUFFICES ASSUME Inv, QuietThreadStep
               PROVE  [Promise!Next]_<<Phase, log>>
    OBVIOUS
  <1> USE DEF shared
  <1>1. CASE TestLoop
    <2>1. CASE worker' = "finishing"
      <3>1. Phase = "running" /\ Phase' = "finished" /\ UNCHANGED log
        BY <1>1, <2>1 DEF TestLoop, Phase
      <3>2. Promise!Failed \/ Len(log) = StepCount
        BY <1>1, <2>1 DEF TestLoop, Inv, TypeOK, LoopInv, ErrorInv,
           Promise!Failed
      <3>3. QED
        BY <3>1, <3>2 DEF Promise!Next, Promise!End
    <2>2. CASE worker' # "finishing"
      BY <1>1, <2>2 DEF TestLoop, Phase
    <2>3. QED
      BY <2>1, <2>2
  <1>2. CASE ResetError
    BY <1>2 DEF ResetError, Phase, Promise!Next, Promise!Begin
  <1>3. CASE ~TestLoop /\ ~ResetError
    BY <1>3 DEF QuietThreadStep, WaitNext, WakeSpuriously, LeaveWait, Fetch,
       SetError, NotifyInstallFinish, Exit, InitService, StartService, Phase,
       Inv, LoopInv
  <1>4. QED
    BY <1>1, <1>2, <1>3

\* A request begins the installation if it sets the first list of a thread
\* that was woken without one; otherwise its steps are not visible.
LEMMA RequestRefines ==
  ASSUME Inv, NEW r \in Requesters,
         Request(r) \/ \E objects \in SUBSET Step : Collect(r, objects)
  PROVE  [Promise!Next]_<<Phase, log>>
  <1> USE DEF thread, shared, GoTo
  <1>1. CASE SetSteps(r)
    BY <1>1 DEF SetSteps, Phase, Promise!Next, Promise!Begin
  <1>2. CASE NotifyNext(r)
    BY <1>2 DEF NotifyNext, Phase
  <1>3. CASE ~SetSteps(r) /\ ~NotifyNext(r)
    BY <1>3 DEF Request, Collect, CheckAlive, CheckBlocked, CheckWaiting,
       SetArgs, LeaveInstall, Reply, DoFinal, Phase
  <1>4. QED
    BY <1>1, <1>2, <1>3

\* A stopping call is not visible.
LEMMA StopRefines ==
  ASSUME NEW s \in Stoppers,
         \/ Stop(s) \/ WakeStopperSpuriously(s)
         \/ \E op \in {"stop", "refresh", "destroy"} : CheckRunning(s, op)
  PROVE  UNCHANGED <<Phase, log>>
  BY DEF Stop, WakeStopperSpuriously, CheckRunning, WaitInstallFinish,
     Interrupt, Join, Restart, thread, shared, Phase

\* The installer implements its promise.
THEOREM PromiseKept == Spec => PromiseSpec
  <1>1. Init => Promise!Init
    BY DEF Init, Promise!Init, Phase
  <1>2. Inv /\ [Next]_vars => [Promise!Next]_<<Phase, log>>
    <2>1. UNCHANGED vars => UNCHANGED <<Phase, log>>
      BY DEF vars, thread, shared, Phase
    <2>2. QED
      BY <2>1, StepEndsPerforms, QuietThreadStepRefines, RequestRefines,
         StopRefines DEF Next, Run, QuietThreadStep
  <1>3. QED
    BY <1>1, <1>2, Invariance, PTL DEF Spec, PromiseSpec, Promise!Spec
=============================================================================
