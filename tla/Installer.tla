------------------------------ MODULE Installer ------------------------------
(***************************************************************************)
(* The background installer: DSpaceInstallService, the InstallerThread it  *)
(* owns, the HTTP requests that ask for an installation                    *)
(* (StatusServerController.installAction) and the threads that stop it.    *)
(*                                                                         *)
(* The thread object has three monitors.  Its own one guards steps, args   *)
(* and exception and is a variable here, because install() keeps it over   *)
(* several steps.  Those of `locker' and `installLocker' are held only     *)
(* around a wait, notify or notifyAll, so each such block is one action.   *)
(***************************************************************************)
EXTENDS Naturals, Sequences

CONSTANTS
    Requesters,       \* the HTTP requests to /rest/server/install
    Stoppers,         \* the calls of stop(), refresh() or destroy()
    StepCount,        \* the number of installation steps
    Required,         \* the steps whose install(null) throws
    NoObject,         \* a null input: the session has no object for the step
    None,             \* a null reference, or a monitor nobody holds
    SpuriousWakeups   \* whether Object.wait() may return unnotified

ASSUME InstallerAssumption ==
    /\ StepCount \in Nat \ {0}
    /\ Required \subseteq 1..StepCount
    /\ NoObject \notin Requesters
    /\ None \notin Requesters
    /\ SpuriousWakeups \in BOOLEAN

VARIABLES
    worker,       \* where InstallerThread.run() is
    monitor,      \* the request holding the thread object's monitor, or None
    steps,        \* this.steps: the request whose list it is, or None (null)
    args,         \* this.args: the request whose objects it holds, or None
    failed,       \* whether this.exception is set
    index,        \* the loop variable of run(), counted from 1
    current,      \* the step and the input run() took from the lists
    interrupted,  \* the thread's interrupt status
    log,          \* history: the steps executed, with what they were given
    installed,    \* the configuration property dspace.installed
    rpc,          \* where each request is
    session,      \* the steps for which a request's session has an object
    spc,          \* where each stopping call is
    operation     \* which stopping call it is

thread == <<worker, index, current, log>>
shared == <<monitor, steps, args, failed, interrupted>>
vars == <<thread, shared, installed, rpc, session, spc, operation>>

Step == 1..StepCount
Input == Requesters \cup {NoObject}
LogEntry == [step : Step, list : Requesters, input : Input, ok : BOOLEAN]

WorkerStates ==
    {"absent", "new", "entering", "waiting", "notified", "resetting",
     "testing", "fetching", "installing", "recording", "finishing",
     "exiting", "terminated", "dead"}
RequesterStates ==
    {"browsing", "checkAlive", "checkBlocked", "checkWaiting", "enter",
     "setArgs", "notify", "leave", "reply", "final", "done"}
StopperStates ==
    {"idle", "waitFinish", "parked", "interrupting", "joining", "starting",
     "returned", "thrown"}

TypeOK ==
    /\ worker \in WorkerStates
    /\ monitor \in Requesters \cup {None}
    /\ steps \in Requesters \cup {None}
    /\ args \in Requesters \cup {None}
    /\ failed \in BOOLEAN
    /\ index \in 1..(StepCount + 1)
    /\ current \in [list : Requesters \cup {None}, input : Input \cup {None}]
    /\ interrupted \in BOOLEAN
    /\ log \in Seq(LogEntry)
    /\ installed \in BOOLEAN
    /\ rpc \in [Requesters -> RequesterStates]
    /\ session \in [Requesters -> SUBSET Step]
    /\ spc \in [Stoppers -> StopperStates]
    /\ operation \in [Stoppers -> {"stop", "refresh", "destroy"}]

Init ==
    /\ worker = "absent"
    /\ monitor = None
    /\ steps = None
    /\ args = None
    /\ failed = FALSE
    /\ index = 1
    /\ current = [list |-> None, input |-> None]
    /\ interrupted = FALSE
    /\ log = <<>>
    /\ installed = FALSE
    /\ rpc = [r \in Requesters |-> "browsing"]
    /\ session = [r \in Requesters |-> {}]
    /\ spc = [s \in Stoppers |-> "idle"]
    /\ operation = [s \in Stoppers |-> "stop"]

-----------------------------------------------------------------------------
(* The thread as others see it.                                            *)

\* Thread.isAlive(), FALSE as well while the service has no thread.
Alive == worker \notin {"absent", "new", "terminated", "dead"}

\* run() needs the thread object's monitor for its next step.
NeedsMonitor == worker \in {"resetting", "testing", "fetching", "recording"}

\* What Thread.getState() may return, of the two states install() asks for.
\* A notified thread is blocked on `locker'.  A step may be anywhere: it does
\* file and database work under monitors of its own.
MayBeBlocked ==
    \/ worker \in {"notified", "installing"}
    \/ NeedsMonitor /\ monitor # None
MayBeUnblocked == worker # "notified" /\ ~(NeedsMonitor /\ monitor # None)
MayBeWaiting == worker \in {"waiting", "installing"}

\* The object a request puts at position i of its list.
ObjectAt(r, i) == IF i \in session[r] THEN r ELSE NoObject

-----------------------------------------------------------------------------
(* InstallerThread.run().                                                  *)

\* waitNext(): locker.wait(), which throws at once in an interrupted thread.
WaitNext ==
    /\ worker = "entering"
    /\ worker' = IF interrupted THEN "resetting" ELSE "waiting"
    /\ interrupted' = FALSE
    /\ UNCHANGED <<monitor, steps, args, failed, index, current, log,
                   installed, rpc, session, spc, operation>>

\* The wait returns without a notify.
WakeSpuriously ==
    /\ SpuriousWakeups
    /\ worker = "waiting"
    /\ worker' = "notified"
    /\ UNCHANGED <<index, current, log, shared, installed, rpc, session,
                   spc, operation>>

\* The woken thread has `locker' again and leaves the block.
LeaveWait ==
    /\ worker = "notified"
    /\ worker' = "resetting"
    /\ UNCHANGED <<index, current, log, shared, installed, rpc, session,
                   spc, operation>>

ResetError ==
    /\ worker = "resetting"
    /\ monitor = None
    /\ failed' = FALSE
    /\ worker' = "testing"
    /\ UNCHANGED <<monitor, steps, args, index, current, interrupted, log,
                   installed, rpc, session, spc, operation>>

\* The loop condition.  getListSize() of a null list kills the thread.  The
\* size is the same for every list and only the thread sets the error, so
\* the two reads are one step.
TestLoop ==
    /\ worker = "testing"
    /\ monitor = None
    /\ worker' = IF steps = None THEN "dead"
                 ELSE IF index <= StepCount /\ ~failed THEN "fetching"
                 ELSE "finishing"
    /\ UNCHANGED <<index, current, log, shared, installed, rpc, session,
                   spc, operation>>

\* Fault: the lists are read without the monitor.
FetchUnsynchronized ==
    /\ worker = "fetching"
    /\ current' = [list |-> steps, input |-> ObjectAt(args, index)]
    /\ worker' = "installing"
    /\ UNCHANGED <<index, log, shared, installed, rpc, session, spc,
                   operation>>

\* The synchronized block that reads step i and its input.
Fetch ==
    /\ worker = "fetching"
    /\ monitor = None
    /\ current' = [list |-> steps, input |-> ObjectAt(args, index)]
    /\ worker' = "installing"
    /\ UNCHANGED <<index, log, shared, installed, rpc, session, spc,
                   operation>>

Executed(ok) == [step |-> index, list |-> current.list,
                 input |-> current.input, ok |-> ok]

\* step.install(input) returns; a step that requires its object has it.
InstallReturns ==
    /\ worker = "installing"
    /\ current.input # NoObject \/ index \notin Required
    /\ log' = Append(log, Executed(TRUE))
    /\ index' = index + 1
    /\ worker' = "testing"
    /\ UNCHANGED <<current, shared, installed, rpc, session, spc, operation>>

\* step.install(input) throws any exception.
InstallThrows ==
    /\ worker = "installing"
    /\ log' = Append(log, Executed(FALSE))
    /\ worker' = "recording"
    /\ UNCHANGED <<index, current, shared, installed, rpc, session, spc,
                   operation>>

\* Fault: the exception is lost.
SetErrorLost ==
    /\ worker = "recording"
    /\ monitor = None
    /\ index' = index + 1
    /\ worker' = "testing"
    /\ UNCHANGED <<shared, current, log, installed, rpc, session, spc,
                   operation>>

SetError ==
    /\ worker = "recording"
    /\ monitor = None
    /\ failed' = TRUE
    /\ index' = index + 1
    /\ worker' = "testing"
    /\ UNCHANGED <<monitor, steps, args, current, interrupted, log,
                   installed, rpc, session, spc, operation>>

\* Fault: the end is announced only if every step has succeeded.
NotifyOnSuccessOnly ==
    /\ worker = "finishing"
    /\ worker' = "exiting"
    /\ spc' = [s \in Stoppers |->
                 IF spc[s] = "parked" /\ ~failed THEN "interrupting"
                 ELSE spc[s]]
    /\ UNCHANGED <<index, current, log, shared, installed, rpc, session,
                   operation>>

\* notifyInstallFinish() wakes everyone parked in waitInstallFinish().
NotifyInstallFinish ==
    /\ worker = "finishing"
    /\ worker' = "exiting"
    /\ spc' = [s \in Stoppers |->
                 IF spc[s] = "parked" THEN "interrupting" ELSE spc[s]]
    /\ UNCHANGED <<index, current, log, shared, installed, rpc, session,
                   operation>>

Exit ==
    /\ worker = "exiting"
    /\ worker' = "terminated"
    /\ UNCHANGED <<index, current, log, shared, installed, rpc, session,
                   spc, operation>>

Run ==
    \/ WaitNext \/ LeaveWait \/ ResetError \/ TestLoop \/ Fetch
    \/ InstallReturns \/ InstallThrows \/ SetError
    \/ NotifyInstallFinish \/ Exit

-----------------------------------------------------------------------------
(* DSpaceInstallService.init() and start(), called once by Starter.main().  *)

InitService ==
    /\ worker = "absent"
    /\ worker' = "new"
    /\ UNCHANGED <<index, current, log, shared, installed, rpc, session,
                   spc, operation>>

StartService ==
    /\ worker = "new"
    /\ worker' = "entering"
    /\ UNCHANGED <<index, current, log, shared, installed, rpc, session,
                   spc, operation>>

-----------------------------------------------------------------------------
(* A request r: installAction(), DSpaceInstallService.install() and        *)
(* InstallerThread.install().                                              *)

GoTo(r, from, to) ==
    /\ rpc[r] = from
    /\ rpc' = [rpc EXCEPT ![r] = to]

\* installAction() collects what the wizard left in the session.
Collect(r, objects) ==
    /\ GoTo(r, "browsing", "checkAlive")
    /\ session' = [session EXCEPT ![r] = objects]
    /\ UNCHANGED <<thread, shared, installed, spc, operation>>

\* Fault: the thread's state is not tested.
CheckAliveOnly(r) ==
    /\ GoTo(r, "checkAlive", IF Alive THEN "enter" ELSE "reply")
    /\ UNCHANGED <<thread, shared, installed, session, spc, operation>>

CheckAlive(r) ==
    /\ GoTo(r, "checkAlive", IF Alive THEN "checkBlocked" ELSE "reply")
    /\ UNCHANGED <<thread, shared, installed, session, spc, operation>>

\* The first getState() of line 83.
CheckBlocked(r) ==
    /\ \/ MayBeBlocked /\ GoTo(r, "checkBlocked", "enter")
       \/ MayBeUnblocked /\ GoTo(r, "checkBlocked", "checkWaiting")
    /\ UNCHANGED <<thread, shared, installed, session, spc, operation>>

\* The second getState() of line 83; without it the request is dropped.
CheckWaiting(r) ==
    /\ \/ MayBeWaiting /\ GoTo(r, "checkWaiting", "enter")
       \/ worker # "waiting" /\ GoTo(r, "checkWaiting", "reply")
    /\ UNCHANGED <<thread, shared, installed, session, spc, operation>>

\* Fault: install() is not synchronized.
SetStepsUnsynchronized(r) ==
    /\ GoTo(r, "enter", "setArgs")
    /\ steps' = r
    /\ UNCHANGED <<thread, monitor, args, failed, interrupted, installed,
                   session, spc, operation>>

\* install() has the monitor and replaces the list of steps ...
SetSteps(r) ==
    /\ monitor = None
    /\ GoTo(r, "enter", "setArgs")
    /\ monitor' = r
    /\ steps' = r
    /\ UNCHANGED <<thread, args, failed, interrupted, installed, session,
                   spc, operation>>

\* ... then the list of inputs, clones of the session's objects ...
SetArgs(r) ==
    /\ GoTo(r, "setArgs", "notify")
    /\ args' = r
    /\ UNCHANGED <<thread, monitor, steps, failed, interrupted, installed,
                   session, spc, operation>>

\* Fault: install() does not call notifyNext().
NotifyNextForgotten(r) ==
    /\ GoTo(r, "notify", "leave")
    /\ UNCHANGED <<thread, shared, installed, session, spc, operation>>

\* ... calls notifyNext(), lost on a thread that is not in locker.wait() ...
NotifyNext(r) ==
    /\ GoTo(r, "notify", "leave")
    /\ worker' = IF worker = "waiting" THEN "notified" ELSE worker
    /\ UNCHANGED <<index, current, log, shared, installed, session, spc,
                   operation>>

\* ... and releases the monitor.
LeaveInstall(r) ==
    /\ GoTo(r, "leave", "reply")
    /\ monitor' = None
    /\ UNCHANGED <<thread, steps, args, failed, interrupted, installed,
                   session, spc, operation>>

\* The response is sent, or sending it throws and doFinal() is skipped.
Reply(r) ==
    /\ GoTo(r, "reply", "final") \/ GoTo(r, "reply", "done")
    /\ UNCHANGED <<thread, shared, installed, session, spc, operation>>

DoFinal(r) ==
    /\ GoTo(r, "final", "done")
    /\ installed' = TRUE
    /\ UNCHANGED <<thread, shared, session, spc, operation>>

Request(r) ==
    \/ CheckAlive(r) \/ CheckBlocked(r) \/ CheckWaiting(r)
    \/ SetSteps(r) \/ SetArgs(r) \/ NotifyNext(r) \/ LeaveInstall(r)
    \/ Reply(r) \/ DoFinal(r)

-----------------------------------------------------------------------------
(* A call s of stop(), refresh() or destroy(), and InstallerThread's       *)
(* interrupt(), which first waits for the installation to finish.          *)

StopGoTo(s, from, to) ==
    /\ spc[s] = from
    /\ spc' = [spc EXCEPT ![s] = to]

\* Where a call goes on when it is through with the thread.
AfterStop(s) == IF operation[s] = "refresh" THEN "starting" ELSE "returned"

CheckRunning(s, op) ==
    /\ operation' = [operation EXCEPT ![s] = op]
    /\ StopGoTo(s, "idle", IF Alive THEN "waitFinish"
                           ELSE IF op = "refresh" THEN "starting"
                           ELSE "returned")
    /\ UNCHANGED <<thread, shared, installed, rpc, session>>

\* Fault: the thread is interrupted at once, as Thread.interrupt() does.
InterruptAtOnce(s) ==
    /\ StopGoTo(s, "waitFinish", "interrupting")
    /\ UNCHANGED <<thread, shared, installed, rpc, session, operation>>

\* waitInstallFinish(): installLocker.wait(), whatever the thread is doing.
WaitInstallFinish(s) ==
    /\ StopGoTo(s, "waitFinish", "parked")
    /\ UNCHANGED <<thread, shared, installed, rpc, session, operation>>

WakeStopperSpuriously(s) ==
    /\ SpuriousWakeups
    /\ StopGoTo(s, "parked", "interrupting")
    /\ UNCHANGED <<thread, shared, installed, rpc, session, operation>>

\* super.interrupt(): a waiting thread wakes up with an exception, which
\* waitNext() swallows; a thread that is not alive ignores it.
Interrupt(s) ==
    /\ StopGoTo(s, "interrupting",
                IF operation[s] = "destroy" THEN "returned" ELSE "joining")
    /\ worker' = IF worker = "waiting" THEN "resetting" ELSE worker
    /\ interrupted' = (interrupted \/ (Alive /\ worker # "waiting"))
    /\ UNCHANGED <<monitor, steps, args, failed, index, current, log,
                   installed, rpc, session, operation>>

Join(s) ==
    /\ ~Alive
    /\ StopGoTo(s, "joining", AfterStop(s))
    /\ UNCHANGED <<thread, shared, installed, rpc, session, operation>>

\* The start() of refresh(): a thread that has run cannot be started again,
\* and one that is alive is left alone.
Restart(s) ==
    /\ StopGoTo(s, "starting",
                IF worker \in {"terminated", "dead"} THEN "thrown"
                ELSE "returned")
    /\ worker' = IF worker = "new" THEN "entering" ELSE worker
    /\ UNCHANGED <<index, current, log, shared, installed, rpc, session,
                   operation>>

Stop(s) ==
    \/ WaitInstallFinish(s) \/ Interrupt(s) \/ Join(s) \/ Restart(s)

-----------------------------------------------------------------------------
Next ==
    \/ Run \/ WakeSpuriously
    \/ InitService \/ StartService
    \/ \E r \in Requesters :
          Request(r) \/ \E objects \in SUBSET Step : Collect(r, objects)
    \/ \E s \in Stoppers :
          \/ Stop(s) \/ WakeStopperSpuriously(s)
          \/ \E op \in {"stop", "refresh", "destroy"} : CheckRunning(s, op)

Spec == Init /\ [][Next]_vars

\* Every runnable thread goes on; a step of the installation returns or
\* throws.  No request, stopping call or spurious wakeup has to happen.
Fairness ==
    /\ WF_vars(Run)
    /\ \A r \in Requesters : WF_vars(Request(r))
    /\ \A s \in Stoppers : WF_vars(Stop(s))

FairSpec == Spec /\ Fairness

-----------------------------------------------------------------------------
(* Properties.                                                             *)

\* An executed step was given the object that the request owning the list of
\* steps had for it, however many requests replace steps and args meanwhile:
\* run() never reads the two lists between the two assignments of install().
InputOfSameRequest ==
    \A n \in DOMAIN log :
        log[n].input = ObjectAt(log[n].list, log[n].step)

\* A list of steps is never left with a thread that sleeps in waitNext(): the
\* request that set it has yet to call notifyNext().  The test of the thread's
\* state in DSpaceInstallService.install() keeps requests from a thread that
\* is started but not waiting yet, where the notify would be lost.
NoLostWakeup ==
    worker = "waiting" /\ steps # None =>
        \E r \in Requesters : rpc[r] \in {"setArgs", "notify"}

\* Whoever stops the installer does not interrupt an installation: the thread
\* is interrupted when it has executed its steps.  InstallerThread overrides
\* interrupt() for this; only a spurious wakeup of its wait can break it.
InterruptSparesInstallation ==
    interrupted /\ ~SpuriousWakeups => worker \in {"exiting", "terminated"}

\* "Do not override already initialized installation processes", says the
\* comment on line 83 of DSpaceInstallService.
KeepsRunningInstallation ==
    [][(worker \in {"fetching", "installing", "recording"})
          => UNCHANGED <<steps, args>>]_vars

\* The threads and monitors implement the installer's promise: one
\* installation, its steps in order, at most once, none after a failure.
Phase ==
    IF worker \in {"finishing", "exiting", "terminated"} THEN "finished"
    ELSE IF steps # None /\
            worker \in {"testing", "fetching", "installing", "recording"}
    THEN "running" ELSE "idle"

Promise == INSTANCE InstallPromise WITH phase <- Phase
PromiseSpec == Promise!Spec

\* A request that passed the test of the thread's state sees the thread
\* through to its end: its list, or one that replaced it, is executed.
AcceptedIsServed ==
    (\E r \in Requesters : rpc[r] = "enter") ~> worker = "terminated"

\* A call that stops the installer while it works returns, once the
\* installation is over.  (One that comes when the thread sleeps in waitNext()
\* returns only if a request arrives, one that comes after
\* notifyInstallFinish() never does.)
StopperReleased ==
    \A s \in Stoppers :
        spc[s] = "parked" /\ worker \in {"notified", "resetting", "testing",
                              "fetching", "installing", "recording"}
            ~> spc[s] \in {"returned", "thrown"}

-----------------------------------------------------------------------------
(* The inductive invariant: why the properties above hold.                 *)

\* Between SetSteps and LeaveInstall a request holds the thread's monitor,
\* and nobody else does.
MonitorInv ==
    \A r \in Requesters :
        rpc[r] \in {"setArgs", "notify", "leave"} <=> monitor = r

\* Outside install() both lists are those of one request, and the session of
\* a request whose list or objects are in use does not change any more.
ListsInv ==
    /\ (\A r \in Requesters : rpc[r] # "setArgs") => steps = args
    /\ \A r \in Requesters : rpc[r] = "setArgs" => steps = r
    /\ \A r \in Requesters :
          \/ steps = r \/ args = r \/ current.list = r
          \/ \E n \in DOMAIN log : log[n].list = r
          => rpc[r] # "browsing"

\* Nobody hands a list to a thread that has not reached waitNext().
HandoverInv ==
    worker \in {"absent", "new", "entering"} =>
        /\ steps = None
        /\ \A r \in Requesters :
              rpc[r] \notin {"enter", "setArgs", "notify", "leave"}

\* Up to the loop nothing is executed; in the loop a list is there and the
\* thread works on the step that comes after those in the log.
LoopInv ==
    /\ worker \in {"absent", "new", "entering", "waiting", "notified",
                   "resetting", "dead"} => log = <<>> /\ index = 1
    /\ worker \in {"fetching", "installing", "recording"} =>
          steps # None /\ index <= StepCount
    /\ worker = "installing" =>
          /\ current.list \in Requesters
          /\ current.input = ObjectAt(current.list, index)
    /\ steps = None => log = <<>> /\ index = 1
    /\ Len(log) = IF worker = "recording" THEN index ELSE index - 1

\* The exception is set exactly when a step has thrown, and ends the loop.
ErrorInv ==
    /\ (\E n \in DOMAIN log : ~log[n].ok) <=> failed \/ worker = "recording"
    /\ worker \in {"fetching", "installing", "recording"} => ~failed
    /\ worker = "finishing" => failed \/ index = StepCount + 1

\* Without spurious wakeups, only the end of the installation lets a stopping
\* call go on to super.interrupt().
InterruptInv ==
    ~SpuriousWakeups =>
        /\ interrupted => worker \in {"exiting", "terminated"}
        /\ \A s \in Stoppers :
              spc[s] = "interrupting" => worker \in {"exiting", "terminated"}

Inv ==
    /\ TypeOK /\ MonitorInv /\ ListsInv /\ HandoverInv /\ LoopInv /\ ErrorInv
    /\ InputOfSameRequest /\ NoLostWakeup /\ InterruptInv
=============================================================================
