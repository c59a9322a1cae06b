# Verification of the AOS runtime

AOS (`src/aos/`) is the realtime runtime of this robot code: processes on one
computer publish flatbuffers on channels through lock-free queues in shared
memory, wake each other up with realtime signals, and run their callbacks on a
single-threaded event loop. A daemon starts and supervises the processes, actions
are a request protocol on top of channels, and the message bridge carries channels
between computers. These TLA+ modules model the parts of AOS in which several
processes, a process and the kernel, or two computers meet. TLC checks small
instances exhaustively; TLAPS proves the central safety properties for every size.

## 1. The system

| part | state | operations | what is hard |
|---|---|---|---|
| queue index (`ipc_lib/index.h`) | a 32-bit counter; 16+16 bits in an `Index` | increment, decrement, slot, plausibility | wraps at a multiple of the queue size, not at the word |
| lockless queue (`ipc_lib/lockless_queue.*`) | slots, messages, `next_queue_index`, an entry per sender and per pinner | `Send`, `PinIndex`, `Data`, `Read`, `LatestIndex` | no lock; senders help each other, readers see messages being reused |
| queue recovery (same file) | the entries' robust futexes, `queue_setup_lock` | constructors, destructors, `DoCleanup` | a process may die between any two stores, the cleaner included |
| mutexes, conditions (`ipc_lib/aos_sync.*`) | a futex word and list pointers per mutex, a robust list per thread | lock, trylock, timed lock, unlock, wait, signal, broadcast | the kernel reads the list of a dead thread at any moment |
| wakeups (`LocklessQueueWatcher`, `LocklessQueueWakeUpper`) | watcher slots, pending signals | register, unregister, `Wakeup` | a signal races the registration, the check and the end of a loop |
| event loop (`events/shm_event_loop.cc`, `epoll.cc`, `event_loop.cc`) | heap of events, timerfds, signalfd, quit pipe | `Run`, `Exit`, `HandleEvent`, timer `Setup` and `Disable`, callbacks | messages arrive while the loop decides to sleep |
| phased loops (`util/phased_loop.cc`) | last time, interval, offset | `Iterate`, `Reset`, `set_interval_and_offset`, `OffsetFromIntervalAndTime` | truncating division, times before the epoch |
| starter daemon (`starter/starterd_lib.cc`) | state, flags, three timers and a pid per application; the applications; the status and cleanup timers | start, stop, restart, terminate, `SIGCHLD`, deadly signals, `Status` messages | commands, timers and deaths of children race; signals coalesce |
| starter client (`starter/starter_rpc_lib.cc`) | the pending commands, a timeout | `SendCommands`, success, timeout | judges by `Status` messages that may be old |
| actions (`actions/`) | goals, statuses, the client's queue, the actor's state | enqueue, start, cancel, tick, run, abort | two one-way channels; the actor restarts |
| message bridge (`network/message_bridge_*`) | the peer's association and boot, the last message delivered | connect, forward, acknowledge, disconnect | broken associations, restarts and reboots of either end |

A `ShmSender` calls `LocklessQueueSender::Send` and then
`LocklessQueueWakeUpper::Wakeup`; a `ShmWatcherState` reads through
`LocklessQueueReader` (or pins through `LocklessQueuePinner`) when the signal
arrives; the constructors of all of them take `queue_setup_lock`, an
`aos_mutex`, and clean up after the dead first. The daemon, its clients, the
actions and the bridge are users of event loops: what they need of the layers below is
that a handler runs to its end, that messages arrive in order and that a timer that is
set fires. `PROJECT.json` lists every part with its sources, the hazards with
their lines, and the line range each definition translates.

## 2. The modules

* `QueueIndex`: the index arithmetic, with the width of its words as a constant.
* `LocklessQueue` (extends it): the memory of one queue and the operations on it.
  A process is a program counter and the locals of the call it is in (`loc`,
  `ploc`, `rloc`). `swapped` and `log` are history variables. A pinner's store of
  `pinned` waits in a store buffer (`unflushed`) until a `Flush` step: the code has
  only a compiler barrier there.
* `QueueRecovery` (extends it): `DoCleanup`, the constructors and destructors,
  and death at every step of a sender, a pinner or the cleaner. A failing `CHECK`
  is an `abort()`, a death like any other.
* `RobustMutex`: `aos_sync.cc`, with the kernel's side of the PI futexes and of the
  robust list as the code relies on them. `AbstractMutex` is what `aos_sync.h`
  promises: one owner, and the owner after a death is told. `RobustMutex`
  implements it (property `ImplementsMutex`); owner and flag are the thread id and
  `FUTEX_OWNER_DIED` in the futex word.
* `ShmEventLoop`: one event loop, its watchers and timers, the senders that wake it
  up, the signals, timerfds and quit pipe. A queue is here the sequence of the
  send times of its messages, which is what `PublishOrder` of `LocklessQueue`
  justifies; the application's callbacks set up or disable a timer or exit, once
  per call.
* `PhasedLoop`: the functions of `PhasedLoop` over the integers, with C++'s division.
  `MCShmEventLoop` extends it so that TLC evaluates its sweep `PhasedLoopSweep`.
* `Starterd`: the daemon, the kernel's processes and the clock in half seconds.
  `app[a]` is an `Application`: its `status`, `pid`, `id`, flags and three timers. Timers
  are served by their time, as `HandleEvent` pops them: `status_timer_` is due at the
  beginning of a half second and so before the others, and of two timers with the same
  delay the one armed first (`armed`) is first.
* `StarterClient` (extends it): a `StarterClient` in another process talking to that
  daemon through the two channels.
* `Actions`: one `ActionQueue` with its `TypedAction`s, one actor, the channels between
  them, and restarts of the actor.
* `MessageBridge`: a server, a client and one reliable channel; SCTP as the two sockets
  see it.
* `QueueIndexProofs`, `LocklessQueueProofs`, `PhasedLoopProofs`, `StarterdProofs`: the
  theorems.
* `MCRobustMutex`, `MCShmEventLoop`: the symmetry sets for TLC.

Definitions named `X_Y`, beside a definition `X`, are not part of a specification:
each is a plausible bug in `X` that one property catches.

### How actions correspond to code

In the modules on shared memory an action is one access to it and the local
computation up to the next one, named for what the code does there: `Send` is
`LoadNext`, `LoadSlot`, `FixNext` or `CheckPrevious`, `StoreScratch`,
`StoreQueueIndex`, `StoreToReplace`, `ExchangeSlot` (or `ExchangeSlotFails`,
`UndoToReplace`), `UpdateNext`, `TakeReplaced`, `ClearToReplace`, the search for an
unpinned scratch message (`OwnLoad` to `ClearOffer`) and `Invalidate`. The stores of
one process become visible in order (x86), and before its later loads except in
`PinIndex`. `HandleEvent` is `Top` (read the clock, decide whether to check),
`ReadSignal`, `CheckWatcher` per watcher, `Checked`, `PopEvent`, `CallCallback` and the
rest of the handler, `WatcherHandled` or `TimerHandled`.

In the modules on top of the event loop an action is one handler, because nothing else
of the same process runs meanwhile; where another process or the kernel can see or
change something in the middle, the handler is split there. `OnSignal` of the daemon is
`OnSigchld`, a `MaybeHandleSignal` per application and `SigchldDone`, because children
die in between; its `queue_restart_` branch, which forks, is `Restart`. `Run` and
`Cleanup` visit one application per step for the same reason. `SendCommands` is split
between reading the `Status` and sending the command. `DoStart` of an action is split
between the goal and `FetchNext`. Every callback of the bridge is one step.

## 3. The runs

Each run is exhaustive for its bounds. Sizes are distinct states. The name of a run and
its configuration belong together by the module: `queue_send` is
`LocklessQueueSend.cfg`, `starterd` is `StarterdRun.cfg`, and so on; `PROJECT.json` lists
them.

**`queue_send`** (1.2 million): two senders, one pinner, one slot, three sends. Every
send after the first replaces a message; both senders can be between any two
accesses of the exchange, and one can help the other by advancing
`next_queue_index`. Checked: every message is in exactly one place (`Ownership`),
an entry is in one of the states `DoCleanup` knows (`FourStates`), messages are
published in order of queue index and time (`PublishOrder`), the newest one is whole
(`NewestIntact`), a sender fills only a message nobody can see (`NoOverwrite`) and a
message whose pin was visible when its slot was read stays as it is
(`PinnedIntact`). Two senders suffice for every pair of conflicting accesses; three
laps of the queue let a message be published, pinned, replaced and filled again.
`LocklessQueueTwoSlots.cfg` checks the same with two slots (476 thousand).

**`queue_read`** (1.95 million): two senders, a reader, one slot, four sends. A
`GOOD` read returns a message that was published whole at the index asked for
(`GoodRead`), and the reader denies a message that had been published only if it
was overtaken by two laps within the first lap of the index
(`BackwardsOnlyIfLapped`). Both also hold with a pinner, a cleaner and a death, an
instance of 16.8 million states that takes ten minutes and is not kept as a run.

**`recovery_senders`** (151 thousand): two senders and a constructor that cleans up,
two deaths anywhere. The messages stay unique and the `CHECK`s hold
(`OwnershipRecovered`) and an entry that is free again is consistent and has an unused
message (`FreeIsClean`), unless the accounting of `DoCleanup` read a living sender in
the middle of an exchange; with that or without, `Send` and the cleanup return
(`SendReturns`, `CleanupReturns`). Two deaths suffice for the interesting case: a cleaner
that dies in the middle of recovering another process. Two sends are too few for the
misread message to come back as a duplicate, three are enough
(`QueueRecoveryOwnership.cfg`, section 6); the four properties hold with three sends as
well (1.1 million states, not kept as a run). **`recovery_pinner`** (311
thousand): a sender and a pinner with delayed stores, one death. `Send` and the cleanup
search for an unpinned message past living and dead pinners, and both return once the
pins stand still.

**`mutex_list`** (657 thousand): two threads, two nested mutexes, one condition, one
death. From every state the kernel's walk of a dead thread's list finds every
mutex it held (`RobustListComplete`), the next owner is told (`DeathNotified`), and
the module implements `AbstractMutex` (`ImplementsMutex`). `RobustMutexDeaths.cfg` checks
the same with three threads, one mutex and two deaths, so that the thread that was to be
told dies itself (1.4 million). **`mutex_condition`** (3.7 million): three threads, so that a broadcast has two sleepers to move to the mutex;
nobody sleeps on a free mutex (`NobodyStranded`) or through a broadcast
(`BroadcastWakesAll`).

**`loop_watchers`** (962 thousand): two channels, one timer, a message on each
channel. When the loop sleeps, a message it has not handled has a signal on the way,
or is one of the two exceptions of section 6 (`WakeupNotLost`); an event is not
overtaken by a later one that was known (`NoOvertaking`); a timer set up is
called or still armed (`TimerNotLost`) and not called after `Disable`
(`DisabledStaysQuiet`). **`loop_exit`** (817 thousand): one channel, two messages, two
calls of `Run`, one `Exit`: no message is skipped or seen twice
(`NoMessageSkipped`) and `Run` returns after `Exit` (`ExitStops`).

**`starterd`** (237 thousand): two applications, one started by `Run`, two process ids
and at most two forks (the next one fails), two commands at any time, children that die
at any time, a loop that lags half a second behind its timers, a deadly signal at any
time. An application has exactly one process while it is `STARTING`, `RUNNING` or
`STOPPING` and none otherwise (`OneProcess`); its timers are armed only in the states
they are for (`TimersFollowState`); a zombie is announced when the loop is idle
(`NoZombieForgotten`); when the daemon leaves, everything was reaped, is dead or was
sent `SIGKILL` (`ExitLeavesNobody`); a stop ends (`StopCompletes`), a deadly signal
ends the daemon (`ExitCompletes`), and the rate limit delays a `Status` but does not lose
it (`StatusCatchesUp`). Two applications are needed for one `SIGCHLD` to stand for two
deaths and for one application to be visited while another dies; two commands for
a `START` or `RESTART` to meet a `STOP` in progress.

**`actions`** (45 thousand): three actions, so that one can be current, one queued and
one replaced, one restart of the actor and one goal that `Send` refuses. No action runs twice (`RunsOnce`); the
client does not hold an action to be done while the actor runs it (`DoneMeansDone`); a
withdrawn action stops (`CancelStops`); an actor that waits to be stopped is released
(`ActorReleased`). `DoneMeansDone` and `ActorReleased` are stated for executions in which
no idle actor sends a status in the middle of an action (`Calm`; section 6), which leaves
out a restart of the actor while the client holds an action.

**`bridge`** (666 thousand): two messages, two faults (a broken association seen by
one end first, a restart of either process, a reboot of either node, a send of the client
that fails) and one refused send of the server. The newest message arrives (`NewestArrives`). A
message is published twice on the client's channel only if the client was restarted in
between or the message had been sent early, by a `Connect` that fetched it before the
watcher came to it (`RepeatsOnlyEarlyOrRestarted`): a late first message then comes
between, the client remembers only the last one, and the watcher's copy is published
again. Messages are overtaken only by such an early one (`OnlyConnectOvertakes`); a
delivery is logged for the boot in which it happened (`LoggedForTheRightBoot`). Two
faults allow a fault during the recovery from another. Seven associations are more
than two faults can use up.

**`starter_restart`** is expected to be violated; see section 6.

`CHECK_DEADLOCK` is off everywhere: the senders run out of their bound of sends, the
clock of its bound, the client of its actions, and then the system rests. That a call in
progress does not get stuck is `SendReturns`, `CleanupReturns`, `NobodyStranded`,
`ExitStops`, `StopCompletes`, `ExitCompletes`, `ActorReleased` and `NewestArrives`.

`StarterClient.cfg` (128 thousand) checks the client of a daemon with one application:
every request ends in success or timeout, even if the daemon exits (`RequestEnds`), its
timeout is running while it waits (`PendingTimesOut`), and a `RESTART` that succeeded was
handled (`RestartHappened`).

### Bounds

`MaxSends`, `MaxCrashes`, `MaxWakes`, `MaxSignals`, `MaxDeaths`, `MaxTime`, `MaxExits`,
`MaxRuns`, `MaxCommands`, `MaxForks`, `MaxActions`, `MaxRestarts`, `MaxMessages`,
`MaxFaults`, `MaxRefused`, `MaxAssociations`, `MaxRequests` bound what the environment
may do; `MaxLate` how far the daemon's loop lags; `ReadAhead` how far past the newest
message a reader asks. `Sentinel` is the largest word of a queue index
(2^32 - 1 in the code, 255 in the runs) and `LowModulus` the part of it an
`Index` keeps (2^16, 16 in the runs). The runs stay below the wrap; the wrap is
the subject of the theorems on `QueueIndex`.

### Fairness

* `FairRSpec`: weak fairness for each living sender within `Send` and for the cleaner.
  A thread that is runnable is scheduled; nothing forces it to start a call, to die
  or to pin. `SendReturns` and `CleanupReturns` carry a proviso: the pins eventually stop
  changing. Without it the search for an unpinned message can be defeated for ever,
  by a pinner that always pins the message just offered; the code has no bound on
  that loop.
* `FairSpec` of `ShmEventLoop`: the clock advances, a sender that has begun
  finishes publishing and signalling, a quit that has begun is written, the loop's
  thread runs, and `epoll_wait` eventually reports a quit pipe that stays readable
  (strong fairness on `PollQuit`: `epoll_wait` is asked for one event at a time, and
  Linux moves a descriptor it has reported behind the others that are ready).
* `FairSpec` of `Starterd`: `epoll` serves the timers and the signalfd in every round,
  time passes, and a process that was sent `SIGKILL` exits. A process that was sent
  `SIGINT` need not exit, and nobody has to send a command.
* `FairSpec` of `Actions`: the client ticks its queue, the actor handles its goals and
  polls `ShouldCancel`, and a dead actor is started again. An action need not finish by
  itself.
* `FairSpec` of `MessageBridge`: dead processes are started again, event loops serve their
  sockets and the connect timer, and SCTP notices that the other end of an
  association is gone. Two assumptions on time: the sockets are first in, first out,
  and the long connect timeout runs out only when nothing is on its way.

## 4. What is proved

`QueueIndexProofs`, for every word size and every queue size:
`IncrementIsModular`, `DecrementIsModular` (the wrapping unsigned computation is
arithmetic modulo `MaxIndex`) and `SlotsInOrder` (the successor of an index is in the
next slot, the wrap included).

`LocklessQueueProofs`, for any number of senders, pinners, readers, slots and sends:

* `TypeCorrect`: `Spec => []TypeOK`;
* `OwnershipHolds`: `Spec => []Ownership`, no interleaving duplicates or loses a
  message;
* `FourStatesHold`: `Spec => []FourStates`, wherever a sender stops, its entry is in a
  state that the recovery distinguishes;
* `NothingOverwritten`: `Spec => NoOverwrite`, no step writes a message in the queue or
  with a pinner.

Assumptions: `WidthAssumption` (the words are not empty) and `SizeAssumption` (at
least one slot, at most as many slots as words, cleaners are not senders).
`Ownership` alone is not inductive: while a sender is between the exchange and
clearing `to_replace`, the message it owns is the one in `to_replace`, not in
`scratch`. The invariant `TypeInv /\ OwnInv` adds, per sender (`EntryState`), which of
the two it is at each point of `Send`, that `to_replace` is the value the
compare-and-swap expects, and that this value names a message the sender does not
hold already. Without the last fact the exchange might put a message in the queue
twice. The proof has one step per action; the lemmas `OwnershipSame`,
`OwnershipSlot` and `OwnershipPinner` say what the three possible kinds of step
(none, an exchange with a slot, an exchange with a pinner) do to ownership.

`PhasedLoopProofs`, for every interval, offset and time, before the epoch included:
`IterateChecksHold` (the three `CHECK`s of `Iterate`), `NothingSkipped` (it picks the
first time of the loop after now), `CyclesExact` (what it returns), `ResetCountsOne`,
`NewOffsetKeepsPhase` and `OffsetAccepted` (for which triggers the constructor takes what
`OffsetFromIntervalAndTime` returns). The proofs rest on lemmas that relate the
truncating division to `\div`.

`StarterdProofs`, for any number of applications, process ids, forks and commands, any
rate limit and any lateness of the loop:

* `TimersAlwaysFollowState`: `Spec => []TimersFollowState`, without assumptions;
* `OneProcessAlways`: `Spec => []OneProcess`,
* `SignalNeverForOthers`: `Spec => []SignalNotForUs`,
* `ZombiesAlwaysAnnounced`: `Spec => []NoZombieForgotten` and
* `NobodyLeftBehind`: `Spec => []ExitLeavesNobody`, if `fork` does not return an id
  that another application remembers (`~PidReuse`; without it section 6 applies).

The argument has four layers, each an inductive invariant on top of the one before.
`TimersInv`: types, and the timers of one record agree with its state; the lemmas
`DoStartEffect`, `DoStopEffect`, `HandleCommandEffect`, `TerminateEffect`,
`SignalEffect` and their like say once what each operation does to the record, and
`NextEffect` sums up a step. `ProcInv`: `OneProcess` is not inductive by itself; it needs
that every unreaped process has an owner and that no two applications remember the same
id, or a `waitpid` could take a stranger's child. `FlagsInv`: `queue_restart_` outlives
`STOPPING` only until `Restart`, `terminating_` implies `exiting_`, `applications_`
forgets nobody that may run, and what `Cleanup` has visited does not start
again. On it rest `Announced` (a zombie without a `SIGCHLD` belongs to an application that
`OnSignal` has yet to visit) and `DeadlinesOK` (`STOPPING` without a `stop_timer_`
means that `SIGKILL` was sent; `cleanup_timer_` is behind every `stop_timer_`).
TLC checked these invariants on the instance of `starterd` before they were proved.

## 5. What is only model-checked

The liveness properties and the refinement of `AbstractMutex`; the walk of the
robust list, an induction over a linked structure; the recovery, where `Ownership`
itself fails (section 6); the event loop, the actions and the bridge;
`PublishOrder`, `PinnedIntact` and the readers' properties, whose invariant would range
over the history `log`, a sequence that grows by induction.

## 6. Where the code and its comments disagree

Checked by a run:

* `starter_restart` (`RestartHappened`): `SendCommands` takes `old_id` from the last
  `Status` (`starter_rpc_lib.cc:152`), which the daemon's rate limit may have held back.
  Two applications die and `restart_timer_` starts both again in one half second; the
  change of the first uses up the limit, and the client asks for a `RESTART` of the second
  while the last `Status` has its old id. When it is `RUNNING`, a change of the first one
  sends a `Status` with its new id before the daemon has read the `RESTART`, and the
  client reports success. The comment at 148 says that the id is tracked "to ensure that
  it actually got restarted". With one application `status_timer_` publishes the new
  process as `STARTING` first, and nothing sends a `Status` when it is `RUNNING`, so that
  the property holds there.

Kept as configurations that reproduce them; TLC finds each property violated:

* `ShmEventLoopSleeps.cfg` (`ClearedSignalPickedUp`): `HandleEvent` reads the clock
  (`shm_event_loop.cc:943`) before it clears the signals (952). A message sent in
  between is queued as a future event, its signal is cleared, and the loop sleeps until
  something else wakes it up. The comment at 949 says that clearing here is safe.
* `ShmEventLoopOrder.cfg` (`CheckedUntilIsComplete`): a message is stamped before it is
  published, so one with an earlier time may appear after the watchers have been
  checked past it (`shm_event_loop.cc:923`).
* `ShmEventLoopRepeat.cfg` (`NextIterationInFuture`): a repeating timer handled exactly
  at its base time is scheduled for the same time again (`shm_event_loop.cc:724`).
* `LocklessQueueStoreLoad.cfg` (`PinProtects`): on hardware that lets a load pass an
  earlier store, `PinIndex` (`lockless_queue.cc:1165`) returns a message that a sender
  is reusing; `index.h:142` claims full barriers.
* `LocklessQueueData.cfg` (`DataIsPinned`): `Data()` is nonnull after a `PinIndex`
  that failed (`lockless_queue.cc:1202`, against `lockless_queue.h:371`).
* `LocklessQueueBackwards.cfg` (`NeverBackwards`): the two-lap case of `queue_read`;
  `shm_event_loop.cc:325` relies on its absence.
* `LocklessQueueFarAhead.cfg` (`GoodRead` with `ReadAhead = 2`): asked for an index two
  past the newest, `Read` can return data of a send in progress
  (`lockless_queue.cc:1309`, against `lockless_queue.h:396`).
* `QueueRecoveryOwnership.cfg` (`Ownership`): the accounting of `DoCleanup` reads the
  queue, then the senders, while others send; it can miss the message a dead sender
  published and give two senders the same one (`lockless_queue.cc:354`).
* `QueueRecoveryCorrupt.cfg` (`NotCorrupt`): the same stale accounting makes a `CHECK`
  fail (`lockless_queue.cc:298`).
* `QueueRecoveryUnused.cfg` (`ClaimsUnused`): after a death with a pinned scratch
  message, `DoCleanup` discards what `SwapPinnedSenderScratch` returns (221) and the
  next sender's constructor fails its own `CHECK` (`lockless_queue.cc:868`).
* `QueueRecoveryPinned.cfg` (`PinnedIntact`): recovery invalidates a message that a
  living pinner has pinned (`lockless_queue.cc:236`).
* `StarterdPidReuse.cfg` (`SignalNotForUs`): `pid_` keeps the id of a reaped process. If
  the kernel gives it to another application, `waitpid` (`starterd_lib.cc:284`) reaps
  that one's process for this one and the daemon ends in `LOG(FATAL)`;
  `starterd_lib.h:79` says that it "does nothing if this process was not the target".
* `StarterClientResend.cfg` (`PendingTimesOut`): `Succeed` disables the timeout after it
  has called the success handler (`starter_rpc_lib.cc:223`), which the comment at 217
  allows to call `SendCommands` again; that request has no timeout.
* `ActionsHangs.cfg` (`QueueMovesOn`): the constructor of the next action fetches the
  newest status through the fetcher it shares with the current one (`actions.h:128`);
  if the current action started and ended in the statuses skipped, `Tick` waits for
  ever for it to start (`actions.h:37`: "runs the next action when the current one is
  finished running").
* `ActionsStartled.cfg` (`NotStartled`): `abort_` of an action that failed is still set
  when the next one runs, whose first `WaitUntil` returns true although nobody cancelled it
  (`actor.h:207`, against `actor.h:71`).
* `MessageBridgeRestart.cfg` (`NotResent`): a restarted client remembers the queue index
  of its local channel (`message_bridge_client_lib.cc:354`), which the server's index
  rarely equals, and publishes the last message again; the log message at 351 says that
  it "won't resend it".

Seen while modelling, without a property of their own: when `DoStart` cannot send its
goal, the destructor still cancels the action (`actions.h:227`), the idle actor answers
with a status, and the next action takes it for an interruption and is neither waited
for nor cancelled, which leaves the actor waiting to be stopped; a message sent between
`PointAtNextQueueIndex` and `RegisterWakeup` (`shm_event_loop.cc:637`) waits for
the next wakeup; a wakeup that arrives after the loop closed its signalfd kills the
process (state `"killed"` of `ShmEventLoop`); an `Exit` between `Run` and the moment
`EPoll::Run` sets `run_` is lost in a second `Run`; `mutex_lock_timeout` returns 3 and 2
where `aos_sync.h:75` says 2 and 1. `phased_loop.h` says that the cycles `Iterate`
returns "can be < 1 iff monotonic_now goes backwards between calls": by `CyclesExact` they
are also 0 when it is called twice within one interval. By `OffsetAccepted` the
constructor's `CHECK(offset < interval)` refuses what `OffsetFromIntervalAndTime`
returns for a negative multiple of the interval.

## 7. What is not modelled

Clock estimation and the robots' control code compute with real numbers. Log
reading and writing, configuration, flatbuffers, text logging and the web proxy are
sequential transformations of data or input and output. The simulated event loop
and its scheduler replay the event loop in one thread for tests: they have no
interleavings of their own. Shared memory files and realtime setup are system calls
without a protocol of their own in this code. `PROJECT.json` gives the reason part by
part.

Within the modelled parts: message contents are the number of the send that filled
them; 48-bit and 16-bit fields keep their wrap but not their layout; timing
reports, priorities, CPU affinity and the application's own file descriptors are
left out; `death_notification_init` and `_release` are one step in `QueueRecovery` (the
list behind them is `RobustMutex`); a `DCHECK`, absent from release builds, is not a
step. Users, groups, arguments and the stop reason of an application are data to the
daemon; a client has one application and one node. An actor's `RunAction` is any number
of `WaitUntil`s and a return, its statuses are always sent, a client's cancel is too (one
that is refused ends the client by `CheckOk`, `actions.h:261`), and `CheckIteration`, which
nothing in the repository calls, is left out. The bridge has one reliable channel:
unreliable ones, several peers and the statistics are left out, and so is a restart of
an association by the other end (`SCTP_RESTART`), on which either end stops with
`LOG(FATAL)`.
