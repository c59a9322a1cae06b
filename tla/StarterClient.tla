---------------------------- MODULE StarterClient ----------------------------
(***************************************************************************)
(* StarterClient (aos/starter/starter_rpc_lib.cc) talking to the daemon of *)
(* module Starterd.  It reads the last Status message, sends a command,    *)
(* and then judges every Status message that arrives until the command     *)
(* has succeeded or its timeout has passed.                                *)
(*                                                                         *)
(* The client runs in a process of its own: between its reading the Status *)
(* and its sending the command the daemon, the children and the clock run. *)
(***************************************************************************)
EXTENDS Starterd

CONSTANTS
  ClientApps,    \* the applications the client sends commands for
  Timeout,       \* the timeout of a command, in half seconds
  MaxRequests,   \* bound: calls of SendCommands
  Resend         \* the user's handlers call SendCommands again

VARIABLES
  client,        \* "idle", "sending" (in SendCommands), "waiting" or
                 \* "aborted" (by a CHECK)
  current,       \* current_commands_: the command judged, with its old_id;
                 \* history: the daemon's next_id_ when it was fetched
  timeout,       \* timeout_timer_
  rpc,           \* StarterRpc messages the daemon has not handled
  news,          \* the client has not looked at the last Status message
  requests,      \* history: calls of SendCommands
  verdict        \* history: how the last command ended

clientVars == <<client, current, timeout, rpc, news, requests, verdict>>
cvars == <<vars, clientVars>>

\* A command before any was sent.
NoCommand == [app |-> NoPid, cmd |-> "STOP", old_id |-> NoPid, next_id |-> 0]

CInit ==
  /\ Init
  /\ client = "idle"
  /\ current = NoCommand
  /\ timeout = Off
  /\ rpc = <<>>
  /\ news = FALSE
  /\ requests = 0
  /\ verdict = "none"

ExpectedStateForCommand(cmd) == IF cmd = "STOP" THEN "STOPPED" ELSE "RUNNING"

\* The first half of SendCommands: fetch the Status and remember the old id.
\* The CHECKs end a client that finds no Status of its application.
Fetched(a, cmd) ==
  /\ requests < MaxRequests
  /\ a \in DOMAIN published
  /\ current' = [app |-> a, cmd |-> cmd,
                 old_id |-> IF cmd = "RESTART" THEN published[a].id ELSE NoPid,
                 next_id |-> nextId]
  /\ requests' = requests + 1
  /\ client' = "sending"

SendCommandsFetch(a, cmd) ==
  /\ client = "idle" /\ timeout = Off
  /\ Fetched(a, cmd)
  /\ verdict' = "none"
  /\ UNCHANGED <<vars, timeout, rpc, news>>

\* The second half: send the command and start the clock.  What follows a
\* success handler is the rest of Succeed, which stops the clock.
SendCommandsSend ==
  /\ client = "sending"
  /\ rpc' = Append(rpc, [app |-> current.app, cmd |-> current.cmd])
  /\ timeout' = IF verdict = "success" THEN Off ELSE Timeout
  /\ client' = "waiting"
  /\ UNCHANGED <<vars, current, news, requests, verdict>>

CheckCommandsSucceeded ==
  LET status == published[current.app]
  IN /\ status.state = ExpectedStateForCommand(current.cmd)
     /\ status.state = "RUNNING" => status.id # current.old_id

\* The handler the user installed returns, or sends the next command.
Handler ==
  \/ /\ client' = "idle"
     /\ UNCHANGED <<current, requests>>
  \/ /\ Resend
     /\ \E a \in ClientApps, cmd \in Command : Fetched(a, cmd)

OnStatus ==
  /\ client \in {"idle", "waiting"}
  /\ news
  /\ news' = FALSE
  /\ CASE client = "waiting" /\ current.app \notin DOMAIN published ->
            client' = "aborted" /\ UNCHANGED <<current, timeout, requests, verdict>>
       [] client = "waiting" /\ current.app \in DOMAIN published
          /\ CheckCommandsSucceeded ->
            Handler /\ timeout' = Off /\ verdict' = "success"
       [] OTHER -> UNCHANGED <<client, current, timeout, requests, verdict>>
  /\ UNCHANGED <<vars, rpc>>

OnTimeout ==
  /\ client \in {"idle", "waiting"}
  /\ timeout <= 0
  /\ Handler
  /\ timeout' = Off
  /\ verdict' = "timeout"
  /\ UNCHANGED <<vars, rpc, news>>

\* Every Status message wakes the client.
StatusSent == statusCount' # statusCount \/ statusTimer' > statusTimer

\* The daemon's watcher for StarterRpc.
DaemonReceives ==
  /\ rpc # <<>>
  /\ HandleStarterRpc(Head(rpc).app, Head(rpc).cmd) /\ Arm
  /\ rpc' = Tail(rpc)
  /\ news' = (news \/ StatusSent)
  /\ UNCHANGED <<commands, client, current, timeout, requests, verdict>>

\* Any other step of the daemon and its children.
DaemonStep ==
  /\ \/ RunStep
     \/ TimerStep
     \/ SigchldStep
     \/ OnDeadlySignal
     \/ CleanupStep
     \/ \E p \in Pids : Exits(p)
  /\ news' = (news \/ StatusSent)
  /\ UNCHANGED <<client, current, timeout, rpc, requests, verdict>>

\* A wakeup takes far less than half a second.  The clock goes on when the
\* daemon is gone.
ClientTick ==
  /\ \/ Tick /\ rpc = <<>>
     \/ loop # "run" /\ client = "waiting" /\ UNCHANGED vars
  /\ ~news /\ client # "sending" /\ timeout > 0
  /\ timeout' = Later(timeout)
  /\ UNCHANGED <<client, current, rpc, news, requests, verdict>>

ClientStep ==
  \/ SendCommandsSend
  \/ OnStatus
  \/ OnTimeout

CNext ==
  \/ \E a \in ClientApps, cmd \in Command : SendCommandsFetch(a, cmd)
  \/ ClientStep
  \/ DaemonReceives
  \/ DaemonStep
  \/ ClientTick

CSpec == CInit /\ [][CNext]_cvars

\* The fairness of Starterd, and the client's and the channel's own.
FairCSpec ==
  /\ CSpec
  /\ WF_cvars(DaemonStep /\ RunStep) /\ WF_cvars(DaemonStep /\ CleanupStep)
  /\ WF_cvars(DaemonStep /\ TimerStep) /\ WF_cvars(DaemonStep /\ SigchldStep)
  /\ WF_cvars(ClientTick)
  /\ WF_cvars(ClientStep) /\ WF_cvars(DaemonReceives)
  /\ \A p \in Pids : WF_cvars(DaemonStep /\ Exits(p) /\ proc[p].state = "killed")

-----------------------------------------------------------------------------
\* The shape of the client's state.
CTypeOK ==
  /\ client \in {"idle", "sending", "waiting", "aborted"}
  /\ current \in [app : Apps \union {NoPid}, cmd : Command,
                  old_id : -1..MaxForks, next_id : 0..MaxForks]
  /\ timeout \in 0..Off
  /\ rpc \in Seq([app : Apps, cmd : Command])
  /\ news \in BOOLEAN
  /\ requests \in 0..MaxRequests
  /\ verdict \in {"none", "success", "timeout"}

\* While the client waits for a command its timeout is running, also for a
\* command that a handler sent ("to allow the handler to call SendCommands()
\* again if desired").
PendingTimesOut == client = "waiting" => timeout # Off

\* SendCommands is always followed by the success or the timeout handler, even
\* if the daemon crashes, exits or drops the command.
RequestEnds == client = "waiting" ~> client # "waiting"

\* "If we are restarting, then we need to track what the current ID of the
\* process is to ensure that it actually got restarted": when a RESTART is
\* reported as a success, the process it saw RUNNING was started after
\* SendCommands was called.
RestartHappened ==
  [][client = "waiting" /\ verdict' = "success" /\ current.cmd = "RESTART"
       => published[current.app].id >= current.next_id]_cvars
=============================================================================
