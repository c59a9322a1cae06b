------------------------------- MODULE Actions -------------------------------
(***************************************************************************)
(* Actions: aos/actions.  A client starts and cancels actions through an   *)
(* ActionQueue; an actor in another process runs them.  They talk over two *)
(* channels: goals carry the run value of an action, or 0 to cancel, and   *)
(* statuses carry what the actor is running and what it ran last.          *)
(*                                                                         *)
(* The client has one factory, so all its actions share one goal sender    *)
(* and one status fetcher.  Its calls run between steps of the actor, and  *)
(* Start is split where the goal is out and the status is not yet read.    *)
(* The actor's process may be restarted at any time.  The channel of the   *)
(* goals may refuse one that is sent too fast; the actor sends so few      *)
(* statuses that their channel does not.                                   *)
(***************************************************************************)
EXTENDS Naturals, Sequences, SequencesExt

CONSTANTS
  MaxActions,    \* bound: actions the client makes
  MaxRefused,    \* bound: goals that are not sent
  MaxRestarts    \* bound: restarts of the actor's process

ASSUME ActionsAssumption == {MaxActions, MaxRefused, MaxRestarts} \subseteq Nat

VARIABLES
  goals,         \* the goals sent: run values and zeros
  statuses,      \* the statuses sent
  current,       \* ActionQueue::current_action_, or None
  next,          \* ActionQueue::next_action_, or None
  fetched,       \* the status the client's fetcher points at, 0 for none
  starting,      \* the client is in DoStart, between Send and FetchNext
  made,          \* TypedAction::run_counter_: actions made so far
  actor,         \* "down", "startup" or the State of ActorBase
  seen,          \* goals the actor's watcher has handled or skipped
  current_id,    \* ActorBase::current_id_
  abort,         \* ActorBase::abort_
  refused,       \* history: goals that were not sent
  restarts,      \* history: restarts of the actor
  disturbed,     \* history: an actor came up while the client had an action
  ran,           \* history: the actions that were run, in order
  forgotten,     \* history: the actions the client holds to be done
  startled       \* history: a RunAction gave up though nobody cancelled it

clientVars == <<current, next, fetched, starting, made, refused, forgotten>>
actorVars == <<actor, seen, current_id, abort, restarts, disturbed, ran,
               startled>>
vars == <<goals, statuses, clientVars, actorVars>>

\* No action in a unique_ptr.
None == [run |-> 0]

\* A TypedAction as its constructor leaves it.
NewAction(run) ==
  [run |-> run, sent_started |-> FALSE, has_started |-> FALSE,
   sent_cancel |-> FALSE, interrupted |-> FALSE, old_run_value |-> 0]

Status(running, last_running) ==
  [running |-> running, last_running |-> last_running]

Init ==
  /\ goals = <<>> /\ statuses = <<>>
  /\ current = None /\ next = None
  /\ fetched = 0
  /\ starting = FALSE
  /\ made = 0
  /\ actor = "down" /\ seen = 0 /\ current_id = 0 /\ abort = FALSE
  /\ refused = 0 /\ restarts = 0
  /\ disturbed = FALSE
  /\ ran = <<>>
  /\ forgotten = {}
  /\ startled = FALSE

-----------------------------------------------------------------------------
(***************************************************************************)
(* The client: TypedAction.                                                *)
(***************************************************************************)

\* DoCancel: the goals after it, and the action after it.  The cancel is always
\* sent: CheckOk ends a client whose cancel is refused, and with it the queue.
Cancels(a) == a.sent_started /\ ~a.interrupted /\ ~a.sent_cancel
GoalsAfterCancel(a) ==
  IF a # None /\ Cancels(a) THEN Append(goals, 0) ELSE goals
AfterCancel(a) ==
  IF a # None /\ Cancels(a) THEN [a EXCEPT !.sent_cancel = TRUE] ELSE a

\* CheckStarted with the status s.
CheckStarted(a, s) ==
  IF a.has_started THEN a
  ELSE IF s.running = a.run \/ (s.running = 0 /\ s.last_running = a.run)
       THEN [a EXCEPT !.has_started = TRUE]
  ELSE IF a.old_run_value # 0 /\ s.running = a.old_run_value
       THEN a
  ELSE [a EXCEPT !.has_started = TRUE, !.interrupted = TRUE]

\* FetchNext: one status on, if there is one.
FetchNext == IF fetched < Len(statuses) THEN fetched + 1 ELSE fetched

RunningFetches_Stays(a) == IF a.has_started THEN fetched ELSE Len(statuses)

\* DoRunning: what it reads, what it does to the action, what it returns.
\* CheckInterrupted only logs.
RunningFetches(a) == IF a.has_started THEN FetchNext ELSE Len(statuses)
RunningUpdates(a) ==
  IF a.has_started THEN a
  ELSE FoldLeft(CheckStarted, a, SubSeq(statuses, fetched + 1, Len(statuses)))

DoRunning_NotStartedIsDone(a) ==
  /\ a.sent_started
  /\ ~RunningUpdates(a).interrupted
  /\ RunningFetches(a) # 0
  /\ statuses[RunningFetches(a)].running = a.run

DoRunning(a) ==
  LET b == RunningUpdates(a)
  IN /\ a.sent_started
     /\ ~b.interrupted
     /\ \/ ~b.has_started
        \/ /\ RunningFetches(a) # 0
           /\ statuses[RunningFetches(a)].running = a.run

\* DoStart, up to its FetchNext: the goal is sent, or Send fails and there is
\* no start to wait for.
DoStart(a, sofar) ==
  /\ \/ /\ goals' = Append(sofar, a.run)
        /\ current' = [a EXCEPT !.sent_started = TRUE]
        /\ UNCHANGED refused
     \/ /\ refused < MaxRefused
        /\ refused' = refused + 1
        /\ goals' = sofar
        /\ current' = [a EXCEPT !.sent_started = TRUE, !.has_started = TRUE]
  /\ starting' = TRUE

\* The rest of DoStart.
DoStartFetch ==
  /\ starting
  /\ starting' = FALSE
  /\ fetched' = FetchNext
  /\ current' = [current EXCEPT !.old_run_value =
                   IF FetchNext = 0 THEN 0 ELSE statuses[FetchNext].running]
  /\ UNCHANGED <<goals, statuses, next, made, refused, forgotten, actorVars>>

(***************************************************************************)
(* The client: ActionQueue.                                                *)
(***************************************************************************)

\* TypedActionFactory::Make, whose constructor fetches, and EnqueueAction.
EnqueueAction ==
  /\ ~starting
  /\ made < MaxActions
  /\ made' = made + 1
  /\ fetched' = Len(statuses)
  /\ IF current # None
     THEN /\ goals' = GoalsAfterCancel(current)
          /\ current' = AfterCancel(current)
          /\ next' = NewAction(made')
          /\ UNCHANGED <<starting, refused>>
     ELSE /\ DoStart(NewAction(made'), goals)
          /\ UNCHANGED next
  /\ UNCHANGED <<statuses, forgotten, actorVars>>

CancelCurrentAction ==
  /\ ~starting
  /\ current # None
  /\ goals' = GoalsAfterCancel(current)
  /\ current' = AfterCancel(current)
  /\ UNCHANGED <<statuses, next, fetched, starting, made, refused, forgotten,
                 actorVars>>

CancelAllActions ==
  /\ ~starting
  /\ goals' = GoalsAfterCancel(current)
  /\ current' = AfterCancel(current)
  /\ next' = None
  /\ UNCHANGED <<statuses, fetched, starting, made, refused, forgotten,
                 actorVars>>

\* Tick: a done action is destroyed, which cancels it, and the next one is
\* started.
Tick ==
  /\ ~starting
  /\ current # None
  /\ fetched' = RunningFetches(current)
  /\ LET polled == RunningUpdates(current)
     IN IF DoRunning(current)
        THEN /\ current' = polled
             /\ UNCHANGED <<goals, next, starting, refused, forgotten>>
        ELSE /\ forgotten' = forgotten \union {current.run}
             /\ next' = None
             /\ IF next # None
                THEN DoStart(next, GoalsAfterCancel(polled))
                ELSE /\ goals' = GoalsAfterCancel(polled)
                     /\ current' = None
                     /\ UNCHANGED <<starting, refused>>
  /\ UNCHANGED <<statuses, made, actorVars>>

-----------------------------------------------------------------------------
(***************************************************************************)
(* The actor.                                                              *)
(***************************************************************************)

Startup_Rereads ==
  /\ actor = "down"
  /\ actor' = "startup"
  /\ seen' = IF goals = <<>> THEN 0 ELSE Len(goals) - 1
  /\ disturbed' = (disturbed \/ current # None)
  /\ UNCHANGED <<goals, statuses, clientVars, current_id, abort, restarts, ran,
                 startled>>

\* ShmEventLoop::Run points the watcher behind the last goal ...
Startup ==
  /\ actor = "down"
  /\ actor' = "startup"
  /\ seen' = Len(goals)
  /\ disturbed' = (disturbed \/ current # None)
  /\ UNCHANGED <<goals, statuses, clientVars, current_id, abort, restarts, ran,
                 startled>>

\* ... and then calls what the constructor gave to OnRun.
OnRun ==
  /\ actor = "startup"
  /\ actor' = "WAITING_FOR_ACTION"
  /\ statuses' = Append(statuses, Status(0, 0))
  /\ disturbed' = (disturbed \/ current # None)
  /\ UNCHANGED <<goals, clientVars, seen, current_id, abort, restarts, ran,
                 startled>>

\* HandleGoal up to the call of RunAction.
HandleGoal ==
  /\ seen < Len(goals)
  /\ seen' = seen + 1
  /\ LET run == goals[seen + 1]
     IN \/ /\ actor = "WAITING_FOR_ACTION" /\ run = 0
           /\ statuses' = Append(statuses, Status(0, 0))
           /\ UNCHANGED <<actor, current_id, ran>>
        \/ /\ actor = "WAITING_FOR_ACTION" /\ run # 0
           /\ actor' = "RUNNING_ACTION"
           /\ current_id' = run
           /\ statuses' = Append(statuses, Status(run, 0))
           /\ ran' = Append(ran, run)
        \/ /\ actor = "WAITING_FOR_STOPPED"
           /\ actor' = IF run = 0 THEN "WAITING_FOR_ACTION" ELSE actor
           /\ UNCHANGED <<statuses, current_id, ran>>
  /\ UNCHANGED <<goals, clientVars, abort, restarts, disturbed, startled>>

ShouldCancel_ZeroOnly == Last(goals) = 0

\* ShouldCancel fetches the newest goal.
ShouldCancel == Last(goals) # current_id

\* RunAction returns, and the rest of HandleGoal runs.
RunActionReturns(failed) ==
  /\ actor' = "WAITING_FOR_STOPPED"
  /\ abort' = failed
  /\ current_id' = 0
  /\ statuses' = Append(statuses, Status(0, current_id))
  /\ UNCHANGED <<goals, clientVars, seen, restarts, disturbed, ran>>

\* RunAction is done, or it has failed.
Finish ==
  /\ actor = "RUNNING_ACTION"
  /\ \E failed \in BOOLEAN : RunActionReturns(failed)
  /\ UNCHANGED startled

\* A WaitUntil of RunAction returns true, which makes RunAction return.
WaitUntilCancelled ==
  /\ actor = "RUNNING_ACTION"
  /\ ShouldCancel \/ abort
  /\ RunActionReturns(FALSE)
  /\ startled' = (startled \/ ~ShouldCancel)

\* The process of the actor ends; whatever it was doing is lost.
ActorDies ==
  /\ restarts < MaxRestarts
  /\ actor # "down"
  /\ restarts' = restarts + 1
  /\ actor' = "down"
  /\ current_id' = 0
  /\ abort' = FALSE
  /\ UNCHANGED <<goals, statuses, clientVars, seen, disturbed, ran, startled>>

ActorStep == Startup \/ OnRun \/ HandleGoal \/ WaitUntilCancelled

Next ==
  \/ EnqueueAction
  \/ CancelCurrentAction
  \/ CancelAllActions
  \/ Tick
  \/ DoStartFetch
  \/ ActorStep
  \/ Finish
  \/ ActorDies

Spec == Init /\ [][Next]_vars

(***************************************************************************)
(* The client ticks its queue in every iteration and the actor polls its   *)
(* goal in every cycle of WaitUntil.                                       *)
(***************************************************************************)
FairSpec ==
  /\ Spec
  /\ WF_vars(DoStartFetch) /\ WF_vars(Tick)
  /\ WF_vars(ActorStep)

-----------------------------------------------------------------------------
Run == 0..MaxActions

\* The shape of the client's and the actor's state.
TypeOK ==
  /\ goals \in Seq(Run)
  /\ statuses \in Seq([running : Run, last_running : Run])
  /\ {current, next} \subseteq {None} \union
       [run : Run, sent_started : BOOLEAN, has_started : BOOLEAN,
        sent_cancel : BOOLEAN, interrupted : BOOLEAN, old_run_value : Run]
  /\ fetched \in 0..Len(statuses)
  /\ seen \in 0..Len(goals)
  /\ made \in Run
  /\ actor \in {"down", "startup", "WAITING_FOR_ACTION", "RUNNING_ACTION",
                "WAITING_FOR_STOPPED"}
  /\ current_id \in Run
  /\ current_id # 0 <=> actor = "RUNNING_ACTION"

\* No action is run twice, whatever the client cancels and queues and however
\* often the actor is restarted.
RunsOnce == IsInjective(ran)

\* No status comes from an idle actor while the client has an action.  Such a
\* status tells the client that its action was interrupted, though the actor
\* runs its goal all the same.  An actor that comes up sends one, and so does
\* one that gets the cancel of an action whose goal was not sent.
Calm == ~disturbed /\ refused = 0

\* As long as it is calm, the client never takes an action for done that the
\* actor is running.
DoneMeansDone == Calm => current_id \notin forgotten

\* An actor that waits to be stopped will be: the cancelling goal is on its
\* way, or the client holds the action and will send it.
StopIsComing ==
  actor = "WAITING_FOR_STOPPED" /\ Calm =>
    \/ \E i \in (seen + 1)..Len(goals) : goals[i] = 0
    \/ current # None /\ Cancels(current) /\ current.run = Last(ran)

\* An action whose goal was withdrawn or replaced stops running.
CancelStops ==
  \A r \in 1..MaxActions :
    (current_id = r /\ Last(goals) # r) ~> current_id # r

\* As long as it is calm, an actor that has run an action becomes ready for the
\* next one.
ActorReleased ==
  actor = "WAITING_FOR_STOPPED" /\ Calm ~>
    actor # "WAITING_FOR_STOPPED" \/ ~Calm

\* Tick "runs the next action when the current one is finished running": once
\* the actor has finished an action, the client's queue moves on.
QueueMovesOn ==
  \A r \in 1..MaxActions :
    (current.run = r /\ ~disturbed /\ current_id # r /\ r \in Range(ran)) ~>
      (current.run # r \/ disturbed)

\* WaitUntil returns true only "if the action was canceled or failed".
NotStartled == ~startled
=============================================================================
