------------------------------ MODULE Starterd ------------------------------
(***************************************************************************)
(* The starter daemon: aos/starter/starterd_lib.cc.  It forks the          *)
(* applications of a node, restarts the ones that die, obeys StarterRpc    *)
(* commands, reports every application on the Status channel and takes     *)
(* everything down when it receives a deadly signal itself.                *)
(*                                                                         *)
(* The daemon is one thread: a handler of its event loop runs to its end   *)
(* before the next one.  Around it run the children, which exit whenever   *)
(* they like, and the clock, which advances in half seconds.  A handler    *)
(* that visits several applications takes one step for each of them,       *)
(* because children exit, and Status messages are read, in between.        *)
(***************************************************************************)
EXTENDS Integers, Sequences, FiniteSets

CONSTANTS
  Apps,          \* the applications of this node's configuration
  Autostart,     \* the ones started by Run
  Pids,          \* the process ids the kernel hands out
  MaxForks,      \* fork() fails once this many processes were created
  MaxCommands,   \* bound: commands received
  MaxLate,       \* bound: half seconds the event loop may lag behind a timer
  Frequency,     \* of the Status channel, in messages per second
  PidReuse       \* fork() may return an id that another application remembers

ASSUME StarterdAssumption ==
  /\ Autostart \subseteq Apps
  /\ Pids \subseteq Nat
  /\ MaxForks \in Nat
  /\ MaxCommands \in Nat
  /\ MaxLate \in Nat
  /\ Frequency \in Nat \ {0}
  /\ PidReuse \in BOOLEAN

VARIABLES
  app,           \* the Application objects
  applications,  \* the keys of Starter::applications_
  exiting,       \* Starter::exiting_
  cleanup,       \* cleanup_timer_
  statusTimer,   \* status_timer_
  armed,         \* the timers of the applications that are armed, by the time
                 \* at which they were
  statusCount,   \* Starter::status_count_
  busy,          \* the handler that is running, "idle" between handlers
  todo,          \* the applications that handler has yet to visit
  loop,          \* "run" until the daemon leaves: "exit" or "fatal"
  proc,          \* the kernel's processes, by process id
  sigchld,       \* a SIGCHLD is pending in the signalfd
  nextId,        \* Application::next_id_
  published,     \* the last Status message
  sends,         \* history: Status messages since status_timer_ last fired
  commands       \* history: commands received

handlerVars == <<busy, todo, loop>>
vars == <<app, applications, exiting, cleanup, statusTimer, armed, statusCount,
          handlerVars, proc, sigchld, nextId, published, sends, commands>>

(***************************************************************************)
(* Timers hold the half seconds that are left; a negative one is late.     *)
(***************************************************************************)
Off == 7
StartDelay == 2
StopDelay == 2
RestartDelay == 6
CleanupDelay_Early == 1
CleanupDelay == 3
StatusPeriod == 2

Later(t) == IF t = Off THEN Off ELSE t - 1

State == {"WAITING", "STARTING", "RUNNING", "STOPPING", "STOPPED"}
Command == {"START", "STOP", "RESTART"}
NoPid == -1
MaxStatusCount == Frequency - 1

\* Application::Application and the member initializers.
NewApplication ==
  [status |-> "STOPPED", pid |-> NoPid, id |-> NoPid,
   queue_restart |-> FALSE, terminating |-> FALSE,
   start |-> Off, restart |-> Off, stop |-> Off]

\* PopulateStatus: what a Status message says of an application.
PopulateStatus(r) == [state |-> r.status, id |-> r.id]

NoProcess == [state |-> "free", owner |-> NoPid]
Alive == {"up", "interrupted", "killed"}

Init ==
  /\ app = [a \in Apps |-> NewApplication]
  /\ applications = Apps
  /\ exiting = FALSE
  /\ cleanup = Off
  /\ statusTimer = Off
  /\ armed = <<>>
  /\ statusCount = 0
  /\ busy = "starting"
  /\ todo = Autostart
  /\ loop = "run"
  /\ proc = [p \in Pids |-> NoProcess]
  /\ sigchld = FALSE
  /\ nextId = 0
  /\ published = [a \in {} |-> PopulateStatus(NewApplication)]
  /\ sends = 0
  /\ commands = 0

-----------------------------------------------------------------------------
(***************************************************************************)
(* Status messages.                                                        *)
(***************************************************************************)

\* SendStatus: one message about every application as the handler leaves it.
SendStatus == published' = [a \in applications |-> PopulateStatus(app'[a])]

\* MaybeSendStatus, which is every application's on_change_.
MaybeSendStatus ==
  IF statusCount < MaxStatusCount
  THEN /\ SendStatus
       /\ statusCount' = statusCount + 1
       /\ sends' = sends + 1
  ELSE UNCHANGED <<published, statusCount, sends>>

Silent == UNCHANGED <<published, statusCount, sends>>

(***************************************************************************)
(* An Application.  Each operation is given the record r of the            *)
(* application as its caller left it and finishes the handler's step.      *)
(***************************************************************************)

\* kill(2): a process that is gone or is a zombie does not notice.
Signalled(p, s) ==
  IF p # NoPid /\ proc[p].state \in Alive THEN [proc EXCEPT ![p].state = s]
                                          ELSE proc

\* What fork(2) returns: the id of a new process, or a failure.
ForkResults(a) ==
  {NoPid} \union
  {p \in Pids : /\ nextId < MaxForks
                /\ proc[p].state = "free"
                /\ PidReuse \/ \A b \in Apps \ {a} : app[b].pid # p}

DoStart(a, r) ==
  IF r.status # "WAITING"
  THEN /\ app' = [app EXCEPT ![a] = r]
       /\ Silent
       /\ UNCHANGED <<proc, nextId>>
  ELSE \E pid \in ForkResults(a) :
         LET quiet == [r EXCEPT !.start = Off, !.restart = Off]
         IN /\ app' = [app EXCEPT ![a] =
                 IF pid = NoPid
                 THEN [quiet EXCEPT !.status = "STOPPED"]
                 ELSE [quiet EXCEPT !.status = "STARTING", !.pid = pid,
                                    !.id = nextId, !.start = StartDelay]]
            /\ proc' = IF pid = NoPid THEN proc
                       ELSE [proc EXCEPT ![pid] = [state |-> "up", owner |-> a]]
            /\ nextId' = IF pid = NoPid THEN nextId ELSE nextId + 1
            /\ MaybeSendStatus

DoStop(a, r, restart) ==
  LET quiet == [r EXCEPT !.restart = Off, !.start = Off]
  IN \/ /\ r.status \in {"STARTING", "RUNNING"}
        /\ app' = [app EXCEPT ![a] =
             [quiet EXCEPT !.status = "STOPPING", !.stop = StopDelay,
                           !.queue_restart = restart]]
        /\ proc' = Signalled(r.pid, "interrupted")
        /\ UNCHANGED nextId
        /\ MaybeSendStatus
     \/ /\ r.status = "WAITING" /\ restart
        /\ DoStart(a, quiet)
     \/ /\ r.status = "WAITING" /\ ~restart
        /\ app' = [app EXCEPT ![a] = [quiet EXCEPT !.status = "STOPPED"]]
        /\ UNCHANGED <<proc, nextId>>
        /\ MaybeSendStatus
     \/ /\ r.status = "STOPPING"
        /\ app' = [app EXCEPT ![a] = [quiet EXCEPT !.queue_restart = restart]]
        /\ Silent
        /\ UNCHANGED <<proc, nextId>>
     \/ /\ r.status = "STOPPED" /\ restart
        /\ DoStart(a, [quiet EXCEPT !.status = "WAITING"])
     \/ /\ r.status = "STOPPED" /\ ~restart
        /\ app' = [app EXCEPT ![a] = quiet]
        /\ Silent
        /\ UNCHANGED <<proc, nextId>>

QueueStart_KeepsTimer(a, r) ==
  /\ app' = [app EXCEPT ![a] =
       [r EXCEPT !.status = "WAITING", !.restart = RestartDelay, !.stop = Off]]
  /\ MaybeSendStatus

QueueStart(a, r) ==
  /\ app' = [app EXCEPT ![a] =
       [r EXCEPT !.status = "WAITING", !.restart = RestartDelay,
                 !.start = Off, !.stop = Off]]
  /\ MaybeSendStatus

\* terminating_ is set when DoStop has returned; DoStop does not look at it.
Terminate(a) == DoStop(a, [app[a] EXCEPT !.terminating = TRUE], FALSE)

HandleCommand_Impatient(a, cmd) ==
  LET r == app[a]
  IN \/ /\ cmd = "START"
        /\ r.status \in {"WAITING", "STOPPED", "STOPPING"}
        /\ DoStart(a, [r EXCEPT !.status = "WAITING", !.restart = Off,
                                !.stop = Off])
     \/ /\ cmd = "START"
        /\ r.status \in {"STARTING", "RUNNING"}
        /\ Silent
        /\ UNCHANGED <<app, proc, nextId>>
     \/ cmd = "STOP" /\ DoStop(a, r, FALSE)
     \/ cmd = "RESTART" /\ DoStop(a, r, TRUE)

HandleCommand(a, cmd) ==
  LET r == app[a]
  IN \/ /\ cmd = "START"
        /\ r.status \in {"WAITING", "STOPPED"}
        /\ DoStart(a, [r EXCEPT !.status = "WAITING", !.restart = Off])
     \/ /\ cmd = "START"
        /\ r.status \notin {"WAITING", "STOPPED"}
        /\ app' = [app EXCEPT ![a].queue_restart =
                     @ \/ r.status = "STOPPING"]
        /\ Silent
        /\ UNCHANGED <<proc, nextId>>
     \/ cmd = "STOP" /\ DoStop(a, r, FALSE)
     \/ cmd = "RESTART" /\ DoStop(a, r, TRUE)

-----------------------------------------------------------------------------
(***************************************************************************)
(* The handlers of the event loop.                                         *)
(***************************************************************************)
AppsLater == [a \in Apps |-> [app[a] EXCEPT !.start = Later(@),
                                            !.restart = Later(@),
                                            !.stop = Later(@)]]

starterVars == <<applications, exiting, cleanup, statusTimer>>
Idle == loop = "run" /\ busy = "idle"

\* Run: start what is to be started, then the loop and its status timer, whose
\* base is where the half seconds of the clock begin.
RunStart(a) ==
  /\ busy = "starting" /\ a \in todo
  /\ HandleCommand(a, "START")
  /\ todo' = todo \ {a}
  /\ UNCHANGED <<starterVars, busy, loop, sigchld, commands>>

RunLoop ==
  /\ busy = "starting" /\ todo = {}
  /\ busy' = "idle"
  /\ app' = AppsLater
  /\ statusTimer' = 0
  /\ UNCHANGED <<applications, exiting, cleanup, statusCount, todo, loop, proc,
                 sigchld, nextId, published, sends, commands>>

\* A command that names no application, or comes too late, is dropped.
HandleStarterRpc(a, cmd) ==
  /\ Idle
  /\ IF exiting \/ a \notin applications
     THEN UNCHANGED <<app, proc, nextId, published, statusCount, sends>>
     ELSE HandleCommand(a, cmd)
  /\ UNCHANGED <<starterVars, handlerVars, sigchld>>

(***************************************************************************)
(* Timers.  The loop serves the oldest event first.  status_timer_ is due  *)
(* at the very beginning of a half second, before any other timer that is  *)
(* due in it: the others are armed while handlers run, after it, with      *)
(* delays of whole half seconds.  Of two timers with the same delay the    *)
(* one that was armed first is due first; otherwise the order within a     *)
(* half second is open.                                                    *)
(***************************************************************************)
Timers == {cleanup, statusTimer}
            \union UNION {{app[a].start, app[a].restart, app[a].stop} : a \in Apps}

Oldest(t) == t <= 0 /\ \A u \in Timers : t <= u

Delay == [start |-> StartDelay, restart |-> RestartDelay, stop |-> StopDelay]

ArmedFirst(a, timer) ==
  \E i \in DOMAIN armed :
    /\ armed[i] = <<a, timer>>
    /\ \A j \in 1..(i - 1) : Delay[armed[j][2]] # Delay[timer]

Fires(t) == Idle /\ Oldest(t) /\ t < statusTimer

\* What a step does to the order of the timers: it arms at most one.
Arm ==
  LET Set(t) == app[t[1]][t[2]] # Off
      new == {t \in Apps \X DOMAIN Delay : ~Set(t) /\ Set(t)'}
      kept == SelectSeq(armed, LAMBDA t : Set(t)')
  IN armed' = IF new = {} THEN kept ELSE Append(kept, CHOOSE t \in new : TRUE)

OnStartTimer(a) ==
  /\ Fires(app[a].start) /\ ArmedFirst(a, "start")
  /\ app' = [app EXCEPT ![a].status = "RUNNING", ![a].start = Off]
  /\ Silent
  /\ UNCHANGED <<starterVars, handlerVars, proc, sigchld, nextId, commands>>

OnRestartTimer(a) ==
  /\ Fires(app[a].restart) /\ ArmedFirst(a, "restart")
  /\ DoStart(a, [app[a] EXCEPT !.restart = Off])
  /\ UNCHANGED <<starterVars, handlerVars, sigchld, commands>>

OnStopTimer_Patient(a) ==
  /\ Fires(app[a].stop) /\ ArmedFirst(a, "stop")
  /\ app' = [app EXCEPT ![a].stop = IF exiting THEN Off ELSE StopDelay]
  /\ proc' = Signalled(app[a].pid, IF exiting THEN "killed" ELSE "interrupted")
  /\ Silent
  /\ UNCHANGED <<starterVars, handlerVars, sigchld, nextId, commands>>

OnStopTimer(a) ==
  /\ Fires(app[a].stop) /\ ArmedFirst(a, "stop")
  /\ app' = [app EXCEPT ![a].stop = Off]
  /\ proc' = Signalled(app[a].pid, "killed")
  /\ Silent
  /\ UNCHANGED <<starterVars, handlerVars, sigchld, nextId, commands>>

OnStatusTimer_OnlyResets ==
  /\ Idle /\ Oldest(statusTimer)
  /\ statusTimer' = statusTimer + StatusPeriod
  /\ statusCount' = 0
  /\ sends' = 0
  /\ UNCHANGED <<app, applications, exiting, cleanup, handlerVars, proc,
                 sigchld, nextId, published, commands>>

OnStatusTimer ==
  /\ Idle /\ Oldest(statusTimer)
  /\ statusTimer' = statusTimer + StatusPeriod
  /\ UNCHANGED app
  /\ SendStatus
  /\ statusCount' = 0
  /\ sends' = 1
  /\ UNCHANGED <<applications, exiting, cleanup, handlerVars, proc, sigchld,
                 nextId, commands>>

OnCleanupTimer ==
  /\ Fires(cleanup)
  /\ cleanup' = Off
  /\ loop' = "exit"
  /\ UNCHANGED <<app, applications, exiting, statusTimer, statusCount, busy,
                 todo, proc, sigchld, nextId, published, sends, commands>>

(***************************************************************************)
(* Signals.                                                                *)
(***************************************************************************)

\* OnSignal with a SIGCHLD, which stands for any number of dead children.
OnSigchld ==
  /\ Idle /\ sigchld
  /\ sigchld' = FALSE
  /\ busy' = "sigchld"
  /\ todo' = applications
  /\ UNCHANGED <<app, starterVars, statusCount, loop, proc, nextId, published,
                 sends, commands>>

\* waitpid(pid_) answers for any child of the daemon that has that id.
Reaps(a) == app[a].pid # NoPid /\ proc[app[a].pid].state = "zombie"

NothingHappened(a) ==
  /\ ~Reaps(a)
  /\ Silent
  /\ UNCHANGED <<app, applications, busy, loop, proc>>

\* The queue_restart_ branch goes on in Restart.
MaybeHandleSignal(a) ==
  /\ busy = "sigchld" /\ loop = "run" /\ a \in todo
  /\ todo' = todo \ {a}
  /\ \/ NothingHappened(a)
     \/ /\ Reaps(a)
        /\ proc' = [proc EXCEPT ![app[a].pid] = NoProcess]
        /\ \/ /\ app[a].status \in {"STARTING", "RUNNING"}
              /\ QueueStart(a, app[a])
              /\ UNCHANGED <<applications, busy, loop>>
           \/ /\ app[a].status = "STOPPING"
              /\ app' = [app EXCEPT ![a].status = "STOPPED", ![a].stop = Off]
              /\ MaybeSendStatus
              /\ applications' = IF app[a].terminating
                                 THEN applications \ {a} ELSE applications
              /\ busy' = IF app[a].queue_restart /\ ~app[a].terminating
                         THEN "restart" ELSE busy
              /\ UNCHANGED loop
           \/ /\ app[a].status \in {"WAITING", "STOPPED"}
              /\ loop' = "fatal"
              /\ Silent
              /\ UNCHANGED <<app, applications, busy>>
  /\ UNCHANGED <<exiting, cleanup, statusTimer, sigchld, nextId, commands>>

Restart(a) ==
  /\ busy = "restart" /\ app[a].queue_restart /\ app[a].status = "STOPPED"
  /\ DoStart(a, [app[a] EXCEPT !.queue_restart = FALSE, !.status = "WAITING"])
  /\ busy' = "sigchld"
  /\ UNCHANGED <<starterVars, todo, loop, sigchld, commands>>

SigchldDone_Drains ==
  /\ busy = "sigchld" /\ loop = "run" /\ todo = {}
  /\ busy' = "idle"
  /\ sigchld' = FALSE
  /\ loop' = IF exiting /\ applications = {} THEN "exit" ELSE "run"
  /\ UNCHANGED <<app, starterVars, statusCount, todo, proc, nextId,
                 published, sends, commands>>

SigchldDone ==
  /\ busy = "sigchld" /\ loop = "run" /\ todo = {}
  /\ busy' = "idle"
  /\ loop' = IF exiting /\ applications = {} THEN "exit" ELSE "run"
  /\ UNCHANGED <<app, starterVars, statusCount, todo, proc, sigchld, nextId,
                 published, sends, commands>>

\* OnSignal with a signal of kStarterDeath: Cleanup, once.
OnDeadlySignal ==
  /\ Idle /\ ~exiting
  /\ exiting' = TRUE
  /\ busy' = "cleanup"
  /\ todo' = applications
  /\ UNCHANGED <<app, applications, cleanup, statusTimer, armed, statusCount, loop,
                 proc, sigchld, nextId, published, sends, commands>>

CleanupOne(a) ==
  /\ busy = "cleanup" /\ a \in todo
  /\ Terminate(a)
  /\ todo' = todo \ {a}
  /\ UNCHANGED <<starterVars, busy, loop, sigchld, commands>>

CleanupDone_NoTimer ==
  /\ busy = "cleanup" /\ todo = {}
  /\ busy' = "idle"
  /\ UNCHANGED <<app, starterVars, statusCount, todo,
                 loop, proc, sigchld, nextId, published, sends, commands>>

CleanupDone ==
  /\ busy = "cleanup" /\ todo = {}
  /\ busy' = "idle"
  /\ cleanup' = CleanupDelay
  /\ UNCHANGED <<app, applications, exiting, statusTimer, statusCount, todo,
                 loop, proc, sigchld, nextId, published, sends, commands>>

-----------------------------------------------------------------------------
(***************************************************************************)
(* The children and the clock.                                             *)
(***************************************************************************)
Exits(p) ==
  /\ loop = "run"
  /\ proc[p].state \in Alive
  /\ proc' = [proc EXCEPT ![p].state = "zombie"]
  /\ sigchld' = TRUE
  /\ UNCHANGED <<app, starterVars, armed, statusCount, handlerVars, nextId,
                 published, sends, commands>>

Tick ==
  /\ Idle
  /\ \A t \in Timers : t > -MaxLate
  /\ app' = AppsLater
  /\ cleanup' = Later(cleanup)
  /\ statusTimer' = Later(statusTimer)
  /\ UNCHANGED <<applications, exiting, armed, statusCount, handlerVars, proc,
                 sigchld, nextId, published, sends, commands>>

ReceiveCommand(a, cmd) ==
  /\ commands < MaxCommands
  /\ commands' = commands + 1
  /\ HandleStarterRpc(a, cmd)
  /\ Arm

TimerStep ==
  /\ \/ \E a \in Apps : OnStartTimer(a) \/ OnRestartTimer(a) \/ OnStopTimer(a)
     \/ OnStatusTimer
     \/ OnCleanupTimer
  /\ Arm

SigchldStep ==
  /\ \/ OnSigchld
     \/ \E a \in Apps : MaybeHandleSignal(a) \/ Restart(a)
     \/ SigchldDone
  /\ Arm

RunStep == ((\E a \in Apps : RunStart(a)) \/ RunLoop) /\ Arm

CleanupStep == ((\E a \in Apps : CleanupOne(a)) \/ CleanupDone) /\ Arm

Next ==
  \/ RunStep
  \/ \E a \in Apps, cmd \in Command : ReceiveCommand(a, cmd)
  \/ TimerStep
  \/ SigchldStep
  \/ OnDeadlySignal
  \/ CleanupStep
  \/ \E p \in Pids : Exits(p)
  \/ Tick

Spec == Init /\ [][Next]_vars

(***************************************************************************)
(* epoll serves every readable descriptor in each round, so no handler     *)
(* waits forever behind another; time passes; a process that was sent      *)
(* SIGKILL exits.  A process that was sent SIGINT need not.                *)
(***************************************************************************)
FairSpec ==
  /\ Spec
  /\ WF_vars(RunStep) /\ WF_vars(CleanupStep)
  /\ WF_vars(TimerStep) /\ WF_vars(SigchldStep)
  /\ WF_vars(Tick)
  /\ \A p \in Pids : WF_vars(Exits(p) /\ proc[p].state = "killed")

-----------------------------------------------------------------------------
Active == {"STARTING", "RUNNING", "STOPPING"}
Timer == (-MaxLate)..Off

\* The shape of the daemon's and the kernel's state.
TypeOK ==
  /\ app \in [Apps -> [status : State, pid : Pids \union {NoPid},
                       id : -1..MaxForks, queue_restart : BOOLEAN,
                       terminating : BOOLEAN, start : Timer, restart : Timer,
                       stop : Timer]]
  /\ applications \subseteq Apps
  /\ exiting \in BOOLEAN
  /\ {cleanup, statusTimer} \subseteq Timer
  /\ statusCount \in Nat
  /\ busy \in {"starting", "idle", "sigchld", "restart", "cleanup"}
  /\ todo \subseteq Apps
  /\ loop \in {"run", "exit", "fatal"}
  /\ proc \in [Pids -> [state : {"free", "zombie"} \union Alive,
                        owner : Apps \union {NoPid}]]
  /\ sigchld \in BOOLEAN
  /\ nextId \in 0..MaxForks

Unreaped(a) == {p \in Pids : proc[p].state # "free" /\ proc[p].owner = a}

\* An application has exactly one process, the one it remembers, while it is
\* STARTING, RUNNING or STOPPING, and none otherwise: no command, timer or
\* signal leaves a second copy running, signals a stranger or waits for
\* nobody.
OneProcess ==
  \A a \in Apps : Unreaped(a) = IF app[a].status \in Active
                                THEN {app[a].pid} ELSE {}

\* The three timers of an application are armed in the states they are for and
\* in no other.  A start_timer_ that outlives STARTING would call a dead
\* process RUNNING, a stop_timer_ would kill the next process, and any timer
\* armed once applications_ has erased the Application would run its callback
\* on freed memory.
TimersFollowState ==
  \A a \in Apps :
    /\ app[a].start # Off <=> app[a].status = "STARTING"
    /\ app[a].restart # Off <=> app[a].status = "WAITING"
    /\ app[a].stop # Off => app[a].status = "STOPPING"

\* A dead child that was not reaped is always announced by a pending SIGCHLD
\* when the loop is idle, although one SIGCHLD may stand for several children
\* and children die while OnSignal goes through the applications.
NoZombieForgotten ==
  Idle /\ (\E p \in Pids : proc[p].state = "zombie") => sigchld

\* When the daemon leaves its loop, every process it started was reaped, is
\* dead or was sent SIGKILL: cleanup_timer_ never beats a stop_timer_.
ExitLeavesNobody ==
  loop = "exit" => \A p \in Pids : proc[p].state \notin Alive \ {"killed"}

\* Between two firings of status_timer_ at most as many Status messages are
\* sent as the channel's frequency allows for one second.
RateLimited == sends <= Frequency

\* Once the daemon is exiting it starts no process, whatever command, timer or
\* death was under way.
NothingStartsWhileExiting == [][exiting => nextId' = nextId]_vars

\* An application that was told to stop does stop, even if it ignores SIGINT.
StopCompletes ==
  \A a \in Apps : app[a].status = "STOPPING" ~>
                  (app[a].status # "STOPPING" \/ loop # "run")

\* A deadly signal ends the daemon, although an application that is STOPPED
\* never leaves applications_.
ExitCompletes == exiting ~> loop # "run"

\* A change that the rate limit kept from being published is published later:
\* again and again the last Status message tells the truth.
StatusCatchesUp ==
  []<>(loop # "run" \/
       published = [a \in applications |-> PopulateStatus(app[a])])

\* "Does nothing if this process was not the target": a SIGCHLD that is not
\* for an application leaves it, and the daemon, alone.
SignalNotForUs == loop # "fatal"
=============================================================================
