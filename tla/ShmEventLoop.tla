---------------------------- MODULE ShmEventLoop ----------------------------
(***************************************************************************)
(* One aos::ShmEventLoop: its watchers, its timers, the epoll loop it runs *)
(* and the senders of other processes that wake it up                      *)
(* (aos/events/shm_event_loop.cc, epoll.cc, event_loop.cc, and the watcher *)
(* and the WakeUpper of aos/ipc_lib/lockless_queue.cc).                    *)
(*                                                                         *)
(* A step is one access to what the loop shares with the senders and the   *)
(* kernel: a queue, a watcher's slot, the pending signals, the quit pipe,  *)
(* a timerfd or the clock.  A queue is the sequence of the send times of   *)
(* its messages (LocklessQueue shows that messages are published in one    *)
(* order); a watcher never falls a whole queue behind.  The callbacks of   *)
(* the application may set up or disable a timer or exit, once per call.   *)
(***************************************************************************)
EXTENDS Integers, Sequences, FiniteSets

CONSTANTS
    Channels,   \* the watched channels, each with one sender at a time
    Timers,     \* the timers of the loop
    Delays,     \* how far ahead of now Setup may place a timer
    Repeats,    \* the repeat offsets given to Setup; 0 is "only once"
    MaxTime,    \* bound: the last value of the clock
    MaxSends,   \* bound: messages sent on each channel
    MaxExits,   \* bound: calls of Exit
    MaxRuns     \* bound: calls of Run

ASSUME LoopAssumption ==
    /\ Channels \cap Timers = {}
    /\ Delays \subseteq Nat /\ Repeats \subseteq Nat
    /\ MaxTime \in Nat /\ MaxSends \in Nat /\ MaxExits \in Nat /\ MaxRuns \in Nat

VARIABLES
    clock,          \* monotonic_clock::now()
    \* What the processes share.
    queue,          \* queue[c]: monotonic_sent_time of each message, in order
    tid,            \* tid[c]: our thread owns a slot of the watchers of c
    \* The senders of the other processes.
    sender,         \* sender[c]: where the sender of c is
    stamp,          \* stamp[c]: monotonic_sent_time of the message being sent
    \* The kernel.
    signals,        \* wakeup signals pending for our thread
    blocked,        \* the SignalFd exists and kWakeupSignal is blocked
    pipe,           \* bytes in the quit pipe
    exiter,         \* threads inside Quit, between the test and the write
    timerfd,        \* timerfd[t]: when it expires next, and its interval
    \* The event loop.
    pc,             \* where the thread of the loop is
    todo,           \* watchers the current for loop has still to visit
    run,            \* EPoll::run_
    index,          \* index[c]: actual_queue_index_ of the watcher
    has_new_data,   \* has_new_data[c]
    context,        \* context[c]: the message FetchNext read last
    events,         \* the heap, as a sequence in the order of the generations
    now,            \* HandleEvent's now
    checked_until,  \* HandleEvent's checked_until
    current,        \* the event being handled
    start,          \* TimerHandler::Call's monotonic_start_time
    base,           \* base[t]: base_
    repeat_offset,  \* repeat_offset[t]
    disabled,       \* disabled[t]: disabled_
    \* History and bounds.
    calls,          \* calls[c]: the messages the callback was called with
    snapped,        \* snapped[c]: length of the queue when c was registered
    published,      \* published[c]: when each message was published
    armed,          \* armed[t]: the application expects t to be called
    exits,          \* calls of Exit so far
    runs            \* calls of Run so far

senders == <<queue, sender, stamp, published>>
kernel == <<signals, blocked, pipe, exiter, timerfd>>
watching == <<index, has_new_data, context, calls, snapped>>
timing == <<base, repeat_offset, disabled, armed>>
handling == <<now, checked_until, current, start>>
bounds == <<exits, runs>>
vars == <<clock, senders, tid, kernel, pc, todo, run, events,
          watching, timing, handling, bounds>>

-----------------------------------------------------------------------------
(* Times, and the heap of events.                                          *)

\* No event is being handled.
Nobody == "nobody"

\* monotonic_clock::min_time and max_time.
min_time == -1
max_time == 1000000

\* The events of the heap are ordered by time and then by generation.
CompareEvents(i, j) ==
    \/ events[i].time < events[j].time
    \/ events[i].time = events[j].time /\ i < j

\* The place of PeekEvent() in events.
Peek == CHOOSE i \in DOMAIN events :
            \A j \in DOMAIN events \ {i} : CompareEvents(i, j)

NextTime == IF events = <<>> THEN max_time ELSE events[Peek].time

AddEvent(heap, who, time) == Append(heap, [who |-> who, time |-> time])

RemoveEvent(who) == SelectSeq(events, LAMBDA e : e.who # who)

\* EventLoopEvent::valid: an event has a time while it is in the heap.
valid(who) == \E i \in DOMAIN events : events[i].who = who

-----------------------------------------------------------------------------
(* The kernel.                                                             *)

\* A timerfd set to expire at a time, and then every interval.
SetTime(time, interval) == [at |-> time, every |-> interval]

DisabledFd == SetTime(max_time, 0)

Readable(t) == timerfd[t].at <= clock

\* TimerFd::Read takes the expirations there have been.
AfterRead(fd) ==
    IF fd.every = 0 THEN DisabledFd
    ELSE [fd EXCEPT !.at = @ + fd.every * ((clock - @) \div fd.every + 1)]

Tick ==
    /\ clock < MaxTime
    /\ clock' = clock + 1
    /\ UNCHANGED <<senders, tid, kernel, pc, todo, run, events,
                   watching, timing, handling, bounds>>

-----------------------------------------------------------------------------
(* A sender: ShmSender::DoSend.  Send reads the clock before it publishes, *)
(* and Wakeup looks at the watchers' slots after it has.                   *)

SenderStep(c, from, to) ==
    /\ sender[c] = from
    /\ sender' = [sender EXCEPT ![c] = to]
    /\ UNCHANGED <<clock, tid, blocked, pipe, exiter, timerfd, todo, run, events,
                   watching, timing, handling, bounds>>

Stamp(c) ==
    /\ Len(queue[c]) < MaxSends
    /\ SenderStep(c, "idle", "stamped")
    /\ stamp' = [stamp EXCEPT ![c] = clock]
    /\ UNCHANGED <<queue, published, signals, pc>>

Publish(c) ==
    /\ SenderStep(c, "stamped", "published")
    /\ queue' = [queue EXCEPT ![c] = Append(@, stamp[c])]
    /\ published' = [published EXCEPT ![c] = Append(@, clock)]
    /\ UNCHANGED <<stamp, signals, pc>>

\* The slot of c has the tid of a live thread.
Registered(c) == tid[c] /\ pc # "killed"

\* A slot that is empty or whose owner died is skipped.
CopyWatcher(c) ==
    /\ SenderStep(c, "published", IF Registered(c) THEN "copied" ELSE "idle")
    /\ UNCHANGED <<queue, stamp, published, signals, pc>>

\* A slot that changed hands while its pid was read is skipped.
ConfirmWatcher(c) ==
    /\ SenderStep(c, "copied", IF Registered(c) THEN "confirmed" ELSE "idle")
    /\ UNCHANGED <<queue, stamp, published, signals, pc>>

\* A thread that does not block the signal dies of it.
Signal(c) ==
    /\ SenderStep(c, "confirmed", "idle")
    /\ signals' = IF blocked THEN signals + 1 ELSE signals
    /\ pc' = IF blocked THEN pc ELSE "killed"
    /\ UNCHANGED <<queue, stamp, published>>

Wakeup(c) == CopyWatcher(c) \/ ConfirmWatcher(c) \/ Signal(c)

-----------------------------------------------------------------------------
(* Run, up to the epoll loop, and after it.                                *)

LoopStep(from, to) ==
    /\ pc = from
    /\ pc' = to
    /\ UNCHANGED <<clock, senders>>

\* The signal is blocked before the first watcher is registered.
Run ==
    /\ runs < MaxRuns
    /\ LoopStep("off", "startup")
    /\ runs' = runs + 1
    /\ blocked' = (Channels # {})
    /\ todo' = Channels
    /\ UNCHANGED <<tid, signals, pipe, exiter, timerfd, run, events,
                   watching, timing, handling, exits>>

\* ShmWatcherState::Startup: PointAtNextQueueIndex ...
PointAtNextQueueIndex(c) ==
    /\ c \in todo
    /\ LoopStep("startup", "register")
    /\ index' = [index EXCEPT ![c] = Len(queue[c]) + 1]
    /\ current' = c
    /\ UNCHANGED <<tid, kernel, todo, run, events, has_new_data, context, calls,
                   snapped, timing, now, checked_until, start, bounds>>

\* ... and then RegisterWakeup.
RegisterWakeup ==
    /\ LoopStep("register", "startup")
    /\ tid' = [tid EXCEPT ![current] = TRUE]
    /\ snapped' = [snapped EXCEPT ![current] = Len(queue[current])]
    /\ todo' = todo \ {current}
    /\ current' = Nobody
    /\ UNCHANGED <<kernel, run, events, index, has_new_data, context, calls,
                   timing, now, checked_until, start, bounds>>

\* TimerHandler::Setup, to first expire d from now and then every r.
Setup(t, d, r) ==
    /\ timerfd' = [timerfd EXCEPT ![t] = SetTime(clock + d, r)]
    /\ base' = [base EXCEPT ![t] = clock + d]
    /\ repeat_offset' = [repeat_offset EXCEPT ![t] = r]
    /\ events' = AddEvent(RemoveEvent(t), t, clock + d)
    /\ armed' = [armed EXCEPT ![t] = TRUE]
    /\ UNCHANGED <<disabled, pipe, exits>>

\* TimerHandler::Disable.
Disable(t) ==
    /\ timerfd' = [timerfd EXCEPT ![t] = DisabledFd]
    /\ events' = RemoveEvent(t)
    /\ disabled' = [disabled EXCEPT ![t] = TRUE]
    /\ armed' = [armed EXCEPT ![t] = FALSE]
    /\ UNCHANGED <<base, repeat_offset, pipe, exits>>

\* EPoll::Quit does nothing once the loop has stopped.
Quit ==
    /\ exits < MaxExits
    /\ exits' = exits + 1
    /\ pipe' = IF run THEN pipe + 1 ELSE pipe
    /\ UNCHANGED <<timerfd, events, timing>>

\* What a callback of the application may do.
Callback ==
    \/ \E t \in Timers, d \in Delays, r \in Repeats :
            clock + d <= MaxTime /\ Setup(t, d, r)
    \/ \E t \in Timers : Disable(t)
    \/ Quit
    \/ UNCHANGED <<timerfd, pipe, events, timing, exits>>

OnRun ==
    /\ todo = {}
    /\ LoopStep("startup", "run")
    /\ Callback
    /\ UNCHANGED <<tid, signals, blocked, exiter, todo, run, watching, handling,
                   runs>>

\* EPoll::Run.
EPollRun ==
    /\ LoopStep("run", "poll")
    /\ run' = TRUE
    /\ UNCHANGED <<tid, kernel, todo, events, watching, timing, handling, bounds>>

\* Once nothing is readable any more, a loop that was told to quit returns.
PollNothing ==
    /\ ~run /\ signals = 0 /\ pipe = 0 /\ \A t \in Timers : ~Readable(t)
    /\ LoopStep("poll", "unregister")
    /\ todo' = Channels
    /\ UNCHANGED <<tid, kernel, run, events, watching, timing, handling, bounds>>

UnregisterWakeup(c) ==
    /\ c \in todo
    /\ LoopStep("unregister", "unregister")
    /\ tid' = [tid EXCEPT ![c] = FALSE]
    /\ todo' = todo \ {c}
    /\ UNCHANGED <<kernel, run, events, watching, timing, handling, bounds>>

\* ~SignalFd unblocks the signal, which takes its default action if one is
\* pending.
CloseSignalFd ==
    /\ todo = {}
    /\ LoopStep("unregister", IF signals > 0 THEN "killed" ELSE "off")
    /\ blocked' = FALSE
    /\ UNCHANGED <<tid, signals, pipe, exiter, timerfd, todo, run, events,
                   watching, timing, handling, bounds>>

\* Quit from a signal handler or another thread: the test of run_ ...
QuitTest ==
    /\ exits < MaxExits
    /\ exits' = exits + 1
    /\ exiter' = IF run THEN exiter + 1 ELSE exiter
    /\ UNCHANGED <<clock, senders, tid, signals, blocked, pipe, timerfd, pc, todo,
                   run, events, watching, timing, handling, runs>>

\* ... and the write to the pipe.
QuitWrite ==
    /\ exiter > 0
    /\ exiter' = exiter - 1
    /\ pipe' = pipe + 1
    /\ UNCHANGED <<clock, senders, tid, signals, blocked, timerfd, pc, todo,
                   run, events, watching, timing, handling, bounds>>

-----------------------------------------------------------------------------
(* EPoll::Poll and ShmEventLoop::HandleEvent.                              *)

\* HandleEvent starts with nothing checked.
EnterHandleEvent ==
    checked_until' = IF Channels = {} THEN max_time ELSE min_time

PollSignal ==
    /\ signals > 0
    /\ LoopStep("poll", "top")
    /\ EnterHandleEvent
    /\ UNCHANGED <<tid, kernel, todo, run, events, watching, timing,
                   now, current, start, bounds>>

PollTimer(t) ==
    /\ Readable(t)
    /\ LoopStep("poll", "top")
    /\ timerfd' = [timerfd EXCEPT ![t] = AfterRead(@)]
    /\ EnterHandleEvent
    /\ UNCHANGED <<tid, signals, blocked, pipe, exiter, todo, run, events, watching,
                   timing, now, current, start, bounds>>

\* Mutant: the byte is read and run_ stays true.
PollQuit_KeepsRunning ==
    /\ pipe > 0
    /\ LoopStep("poll", "poll")
    /\ pipe' = pipe - 1
    /\ UNCHANGED <<tid, signals, blocked, exiter, timerfd, todo, run, events,
                   watching, timing, handling, bounds>>

PollQuit ==
    /\ pipe > 0
    /\ LoopStep("poll", "poll")
    /\ run' = FALSE
    /\ pipe' = pipe - 1
    /\ UNCHANGED <<tid, signals, blocked, exiter, timerfd, todo, events, watching,
                   timing, handling, bounds>>

\* Mutant: the watchers are checked only once in a call of HandleEvent.
Top_ChecksOnce ==
    /\ IF events = <<>> /\ checked_until # min_time
       THEN LoopStep("top", "poll") /\ UNCHANGED now
       ELSE /\ now' = clock
            /\ LoopStep("top", IF checked_until = min_time THEN "signals"
                               ELSE IF NextTime > clock THEN "poll" ELSE "pop")
    /\ UNCHANGED <<tid, kernel, todo, run, events, watching, timing,
                   checked_until, current, start, bounds>>

\* The loop of HandleEvent, up to the decision to check the watchers.
Top ==
    /\ IF events = <<>> /\ checked_until # min_time
       THEN LoopStep("top", "poll") /\ UNCHANGED now
       ELSE /\ now' = clock
            /\ LoopStep("top", IF NextTime > checked_until THEN "signals"
                               ELSE IF NextTime > clock THEN "poll" ELSE "pop")
    /\ UNCHANGED <<tid, kernel, todo, run, events, watching, timing,
                   checked_until, current, start, bounds>>

ReadSignal ==
    /\ IF signals > 0
       THEN LoopStep("signals", "signals") /\ signals' = signals - 1 /\ UNCHANGED todo
       ELSE LoopStep("signals", "check") /\ UNCHANGED signals /\ todo' = Channels
    /\ UNCHANGED <<tid, blocked, pipe, exiter, timerfd, run, events, watching,
                   timing, handling, bounds>>

\* SimpleShmFetcher::FetchNext finds a message at actual_queue_index_.
FetchNext(c) == index[c] <= Len(queue[c])

\* SimpleShmFetcher::DoFetch: a GOOD read becomes the context and moves
\* actual_queue_index_ on.  The queue forgets nothing here; in the code a
\* watcher that was lapped is a CHECK failure.
DoFetch(c, good) ==
    /\ index' = [index EXCEPT ![c] = IF good THEN @ + 1 ELSE @]
    /\ context' = [context EXCEPT ![c] = IF good THEN index[c] ELSE @]

\* Mutant: a message is fetched while the previous one is still queued.
CheckForNewData_Refetches(c, has) ==
    LET fetched == FetchNext(c)
    IN  /\ has_new_data' = [has_new_data EXCEPT ![c] = has \/ fetched]
        /\ DoFetch(c, fetched)
        /\ events' = IF fetched THEN AddEvent(events, c, queue[c][index[c]])
                     ELSE events

\* ShmWatcherState::CheckForNewData, for a watcher that does (or does not)
\* have a message its callback has not been called with.
CheckForNewData(c, has) ==
    LET fetched == ~has /\ FetchNext(c)
    IN  /\ has_new_data' = [has_new_data EXCEPT ![c] = has \/ fetched]
        /\ DoFetch(c, fetched)
        /\ events' = IF fetched THEN AddEvent(events, c, queue[c][index[c]])
                     ELSE events

CheckWatcher(c) ==
    /\ c \in todo
    /\ LoopStep("check", "check")
    /\ CheckForNewData(c, has_new_data[c])
    /\ todo' = todo \ {c}
    /\ UNCHANGED <<tid, kernel, run, calls, snapped, timing, handling, bounds>>

\* Mutant: the signals are cleared after the watchers were checked.
Checked_ClearsSignals ==
    /\ todo = {}
    /\ IF events = <<>>
       THEN LoopStep("check", "poll") /\ UNCHANGED checked_until
       ELSE /\ checked_until' = now
            /\ LoopStep("check", IF NextTime > now THEN "poll" ELSE "pop")
    /\ signals' = 0
    /\ UNCHANGED <<tid, blocked, pipe, exiter, timerfd, todo, run, events, watching,
                   timing, now, current, start, bounds>>

\* The decision after the watchers were checked.
Checked ==
    /\ todo = {}
    /\ IF events = <<>>
       THEN LoopStep("check", "poll") /\ UNCHANGED checked_until
       ELSE /\ checked_until' = now
            /\ LoopStep("check", IF NextTime > now THEN "poll" ELSE "pop")
    /\ UNCHANGED <<tid, kernel, todo, run, events, watching, timing,
                   now, current, start, bounds>>

\* PopEvent, and the event's handler up to the callback.
PopEvent ==
    LET who == events[Peek].who
    IN  /\ LoopStep("pop", "callback")
        /\ events' = RemoveEvent(who)
        /\ current' = who
        /\ start' = IF who \in Timers THEN clock ELSE start
        /\ disabled' = IF who \in Timers THEN [disabled EXCEPT ![who] = FALSE]
                       ELSE disabled
        /\ armed' = IF who \in Timers /\ repeat_offset[who] = 0
                    THEN [armed EXCEPT ![who] = FALSE] ELSE armed
        /\ calls' = IF who \in Channels
                    THEN [calls EXCEPT ![who] = Append(@, context[who])]
                    ELSE calls
        /\ UNCHANGED <<tid, kernel, todo, run, index, has_new_data, context, snapped,
                       base, repeat_offset, now, checked_until, bounds>>

CallCallback ==
    /\ LoopStep("callback", IF current \in Timers THEN "timer" ELSE "watcher")
    /\ Callback
    /\ UNCHANGED <<tid, signals, blocked, exiter, todo, run, watching, handling,
                   runs>>

\* The rest of ShmWatcherState::HandleEvent.
WatcherHandled ==
    /\ LoopStep("watcher", "top")
    /\ CheckForNewData(current, FALSE)
    /\ current' = Nobody
    /\ UNCHANGED <<tid, kernel, todo, run, calls, snapped, timing, now,
                   checked_until, start, bounds>>

\* How many periods of t have gone by when its handler starts.
ElapsedCycles(t) ==
    (start - base[t] + repeat_offset[t] - 1) \div repeat_offset[t]

\* Mutant: a timer without repeats is disarmed although its callback set it up.
Reschedule_Disarms(t) ==
    LET next == base[t] + repeat_offset[t] * ElapsedCycles(t)
    IN  IF repeat_offset[t] = 0
        THEN /\ timerfd' = [timerfd EXCEPT ![t] = DisabledFd]
             /\ UNCHANGED <<events, base>>
        ELSE IF valid(t) \/ disabled[t] THEN UNCHANGED <<events, base, timerfd>>
             ELSE /\ base' = [base EXCEPT ![t] = next]
                  /\ events' = AddEvent(events, t, next)
                  /\ timerfd' = [timerfd EXCEPT ![t] = SetTime(next, 0)]

\* Mutant: Disable in the callback is forgotten.
Reschedule_IgnoresDisable(t) ==
    LET next == base[t] + repeat_offset[t] * ElapsedCycles(t)
    IN  IF valid(t) \/ repeat_offset[t] = 0
        THEN UNCHANGED <<events, base, timerfd>>
        ELSE /\ base' = [base EXCEPT ![t] = next]
             /\ events' = AddEvent(events, t, next)
             /\ timerfd' = [timerfd EXCEPT ![t] = SetTime(next, 0)]

\* The rest of ShmTimerHandler::HandleEvent.
Reschedule(t) ==
    LET next == base[t] + repeat_offset[t] * ElapsedCycles(t)
    IN  IF valid(t) \/ disabled[t] THEN UNCHANGED <<events, base, timerfd>>
        ELSE IF repeat_offset[t] = 0
             THEN /\ timerfd' = [timerfd EXCEPT ![t] = DisabledFd]
                  /\ UNCHANGED <<events, base>>
             ELSE /\ base' = [base EXCEPT ![t] = next]
                  /\ events' = AddEvent(events, t, next)
                  /\ timerfd' = [timerfd EXCEPT ![t] = SetTime(next, 0)]

TimerHandled ==
    /\ LoopStep("timer", "top")
    /\ Reschedule(current)
    /\ current' = Nobody
    /\ start' = 0
    /\ UNCHANGED <<tid, signals, blocked, pipe, exiter, todo, run, watching,
                   repeat_offset, disabled, armed, now, checked_until, bounds>>

-----------------------------------------------------------------------------
(* The specification.                                                      *)

Init ==
    /\ clock = 0
    /\ queue = [c \in Channels |-> <<>>]
    /\ published = [c \in Channels |-> <<>>]
    /\ sender = [c \in Channels |-> "idle"]
    /\ stamp = [c \in Channels |-> 0]
    /\ tid = [c \in Channels |-> FALSE]
    /\ signals = 0 /\ blocked = FALSE /\ pipe = 0 /\ exiter = 0
    /\ timerfd = [t \in Timers |-> DisabledFd]
    /\ pc = "off" /\ todo = {} /\ run = TRUE /\ events = <<>>
    /\ index = [c \in Channels |-> 1]
    /\ has_new_data = [c \in Channels |-> FALSE]
    /\ context = [c \in Channels |-> 0]
    /\ calls = [c \in Channels |-> <<>>]
    /\ snapped = [c \in Channels |-> 0]
    /\ base = [t \in Timers |-> 0]
    /\ repeat_offset = [t \in Timers |-> 0]
    /\ disabled = [t \in Timers |-> FALSE]
    /\ armed = [t \in Timers |-> FALSE]
    /\ now = 0 /\ checked_until = min_time /\ current = Nobody /\ start = 0
    /\ exits = 0 /\ runs = 0

Send(c) == Stamp(c) \/ Publish(c) \/ Wakeup(c)

\* The thread of the loop, inside Run.
Loop ==
    \/ \E c \in Channels : \/ PointAtNextQueueIndex(c)
                           \/ CheckWatcher(c)
                           \/ UnregisterWakeup(c)
    \/ \E t \in Timers : PollTimer(t)
    \/ RegisterWakeup \/ OnRun \/ EPollRun
    \/ PollSignal \/ PollQuit \/ PollNothing \/ CloseSignalFd
    \/ Top \/ ReadSignal \/ Checked \/ PopEvent
    \/ CallCallback \/ WatcherHandled \/ TimerHandled

Next ==
    \/ Tick
    \/ \E c \in Channels : Send(c)
    \/ Run
    \/ Loop
    \/ QuitTest
    \/ QuitWrite

Spec == Init /\ [][Next]_vars

(***************************************************************************)
(* The clock goes on, a call of Send or of Quit that was begun is finished *)
(* by its thread, and the loop's thread runs; epoll_wait gives the ready   *)
(* file descriptors their turn.                                            *)
(***************************************************************************)
FairSpec ==
    /\ Spec
    /\ WF_vars(Tick)
    /\ \A c \in Channels : WF_vars(Publish(c) \/ Wakeup(c))
    /\ WF_vars(QuitWrite)
    /\ WF_vars(Loop)
    /\ SF_vars(PollQuit)

-----------------------------------------------------------------------------
(* Properties.                                                             *)

\* The types of the variables, within the bounds.
TypeOK ==
    /\ clock \in 0..MaxTime
    /\ queue \in [Channels -> Seq(0..MaxTime)]
    /\ published \in [Channels -> Seq(0..MaxTime)]
    /\ sender \in [Channels -> {"idle", "stamped", "published", "copied", "confirmed"}]
    /\ stamp \in [Channels -> 0..MaxTime]
    /\ tid \in [Channels -> BOOLEAN]
    /\ signals \in Nat /\ blocked \in BOOLEAN /\ pipe \in Nat /\ exiter \in Nat
    /\ \A t \in Timers : timerfd[t].at \in Nat /\ timerfd[t].every \in Repeats \cup {0}
    /\ pc \in {"off", "startup", "register", "run", "poll", "top", "signals", "check",
               "pop", "callback", "watcher", "timer", "unregister", "killed"}
    /\ todo \subseteq Channels
    /\ run \in BOOLEAN
    /\ index \in [Channels -> 1..(MaxSends + 1)]
    /\ has_new_data \in [Channels -> BOOLEAN]
    /\ context \in [Channels -> 0..MaxSends]
    /\ \A i \in DOMAIN events : /\ events[i].who \in Channels \cup Timers
                               /\ events[i].time \in Nat
    /\ now \in 0..MaxTime /\ start \in 0..MaxTime
    /\ checked_until \in 0..MaxTime \cup {min_time, max_time}
    /\ current \in Channels \cup Timers \cup {Nobody}
    /\ base \in [Timers -> Nat] /\ repeat_offset \in [Timers -> Repeats \cup {0}]
    /\ disabled \in [Timers -> BOOLEAN] /\ armed \in [Timers -> BOOLEAN]
    /\ calls \in [Channels -> Seq(1..MaxSends)]
    /\ snapped \in [Channels -> 0..MaxSends]
    /\ exits \in 0..MaxExits /\ runs \in 0..MaxRuns

\* The loop is about to sleep, and no wakeup is on its way to it.
Undisturbed ==
    /\ pc = "poll" /\ signals = 0
    /\ \A c \in Channels : sender[c] \in {"idle", "stamped"}

\* The event of who that is in the heap.
EventTime(who) == events[CHOOSE i \in DOMAIN events : events[i].who = who].time

(***************************************************************************)
(* A loop that goes to sleep leaves no message behind: each watcher's      *)
(* callback has been called with every message, but for one that was sent  *)
(* after HandleEvent read the clock, and for those that were published     *)
(* before the watcher was registered.                                      *)
(***************************************************************************)
WakeupNotLost ==
    Undisturbed =>
        \A c \in Channels :
            IF has_new_data[c] THEN EventTime(c) > now
            ELSE index[c] > Len(queue[c]) \/ Len(queue[c]) <= snapped[c]

(***************************************************************************)
(* What the comment in HandleEvent says: a signal that is cleared there is *)
(* safe, because CheckForNewData picks its message up.  So no message that *)
(* was signalled is left while the loop sleeps.                            *)
(***************************************************************************)
ClearedSignalPickedUp ==
    Undisturbed =>
        \A c \in Channels :
            Len(queue[c]) > snapped[c] => index[c] > Len(queue[c]) /\ ~has_new_data[c]

(***************************************************************************)
(* Within a Run a watcher's callback is called with every message that     *)
(* was published after the watcher was registered, in order and once;      *)
(* across Runs it never goes back.                                         *)
(***************************************************************************)
NoMessageSkipped ==
    \A c \in Channels :
        /\ runs = 1 /\ calls[c] # <<>> => calls[c][1] <= snapped[c] + 1
        /\ \A i \in 1..(Len(calls[c]) - 1) :
                \/ calls[c][i + 1] = calls[c][i] + 1
                \/ runs > 1 /\ calls[c][i + 1] > calls[c][i]

(***************************************************************************)
(* Events are handled in the order of their times: the next one overtakes  *)
(* an earlier message only if that was published no earlier than the       *)
(* event's own time, after its sender had read the clock.                  *)
(***************************************************************************)
NoOvertaking ==
    pc = "pop" =>
        \A c \in Channels : \A i \in index[c]..Len(queue[c]) :
            queue[c][i] < NextTime => published[c][i] >= NextTime

(***************************************************************************)
(* What the comment in HandleEvent says: while the next known event is not *)
(* after checked_until, there are no new events before it.                 *)
(***************************************************************************)
CheckedUntilIsComplete ==
    pc = "pop" =>
        \A c \in Channels : \A i \in index[c]..Len(queue[c]) :
            queue[c][i] >= NextTime

(***************************************************************************)
(* While the loop sleeps, every timer the application expects is in the    *)
(* heap and its timerfd wakes the loop up in time.                         *)
(***************************************************************************)
TimerNotLost ==
    pc = "poll" =>
        \A t \in Timers : armed[t] => valid(t) /\ timerfd[t].at <= EventTime(t)

(***************************************************************************)
(* Disable stops future calls, also when it is called from a callback of   *)
(* the timer itself or of another event of the same pass.                  *)
(***************************************************************************)
DisabledStaysQuiet ==
    \A t \in Timers : valid(t) => armed[t]

(***************************************************************************)
(* The comment in ShmTimerHandler::HandleEvent: a repeating timer is       *)
(* rescheduled for the next iteration in the future.                       *)
(***************************************************************************)
NextIterationInFuture ==
    [][pc = "timer" /\ base' # base => base'[current] > start]_vars

(***************************************************************************)
(* Run returns after Exit: once Quit has written to the pipe, the loop     *)
(* stops, whatever else wakes it up.                                       *)
(***************************************************************************)
ExitStops == (pipe > 0 /\ pc # "off") ~> (pc \in {"off", "killed"})
=============================================================================
