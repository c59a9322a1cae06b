---------------------------- MODULE MessageBridge ----------------------------
(***************************************************************************)
(* The message bridge (aos/network): a server on one node forwards the     *)
(* messages of a reliable channel to a client on another node, over SCTP.  *)
(* The client sends a Connect, the server sends the newest message and     *)
(* then each new one, and the client publishes them on its own node and    *)
(* replies with the time of the delivery.                                  *)
(*                                                                         *)
(* Both processes and both nodes may be restarted, and an association may  *)
(* break; each end learns of it separately, after what had arrived.  A     *)
(* step is one callback of an event loop.  A message is its queue index    *)
(* and its sent time, which no two messages share, whatever the boot.      *)
(***************************************************************************)
EXTENDS Integers, Sequences, SequencesExt, FiniteSets

CONSTANTS
  MaxMessages,   \* bound: messages sent on the channel
  MaxFaults,     \* bound: deaths, reboots, broken associations, failed sends
  MaxRefused,    \* bound: messages that the server's socket refuses
  MaxAssociations \* bound: associations set up

ASSUME BridgeAssumption ==
  {MaxMessages, MaxFaults, MaxRefused, MaxAssociations} \subseteq Nat

VARIABLES
  source,        \* the channel on the server's node: the sent times
  server,        \* the server's process runs
  watched,       \* messages its watcher has been called with or skips
  peer,          \* Peer::sac_assoc_id, 0 for none
  peer_boot,     \* boot_uuids_ of the client's node, 0 for none
  local,         \* the channel on the client's node: the remote messages
  boot,          \* boot_uuid of the client's node
  client,        \* the client's process runs
  last,          \* last_queue_index and last_timestamp
  state,         \* the state of the ClientConnection
  connect_timer, \* "soon": in 0.1 s, "later": in kReconnectTimeout
  \* SCTP.
  made,          \* associations set up so far
  association,   \* the association of the client's socket, 0 for none
  served,        \* the associations of the server's socket
  toServer,      \* what the server has still to read
  toClient,      \* what the client has still to read
  \* History.
  published,     \* messages sent so far; also the newest sent time
  faults,        \* faults so far
  refused,       \* messages that the server's socket refused
  early,         \* messages sent on a Connect before the watcher saw them
  restarted,     \* lengths of local when the client was started
  mislogged      \* a delivery time was logged for the wrong boot

serverVars == <<server, watched, peer, peer_boot>>
clientVars == <<local, boot, client, last, state, connect_timer>>
sctpVars == <<made, association, served, toServer, toClient>>
historyVars == <<published, faults, refused, early, restarted, mislogged>>
vars == <<source, serverVars, clientVars, sctpVars, historyVars>>

\* What a socket delivers: data of an association, and notifications.
Data(a, m) == [kind |-> "data", of |-> a, message |-> m]
Connect == [kind |-> "connect", of |-> 0, boot |-> boot]
Ack == [kind |-> "ack", of |-> 0, boot |-> boot]
CommUp == [kind |-> "up", of |-> 0]
CommLost(a) == [kind |-> "lost", of |-> a]

\* The message at a place of the source channel; queue indices start at 0.
Message(i) == [queue_index |-> i - 1, time |-> source[i]]

\* SctpClientChannelState before anything was received.
Nothing == [queue_index |-> -1, time |-> 0]

Init ==
  /\ source = <<>>
  /\ server = FALSE /\ watched = 0 /\ peer = 0 /\ peer_boot = 0
  /\ local = <<>> /\ boot = 1
  /\ client = FALSE /\ last = Nothing
  /\ state = "DISCONNECTED" /\ connect_timer = "later"
  /\ made = 0 /\ association = 0 /\ served = {}
  /\ toServer = <<>> /\ toClient = <<>>
  /\ published = 0 /\ faults = 0 /\ refused = {} /\ early = {}
  /\ restarted = {} /\ mislogged = FALSE

-----------------------------------------------------------------------------
(***************************************************************************)
(* SCTP, as the sockets of the two ends see it.                            *)
(***************************************************************************)

\* A send of the client, whose socket has yet to deliver inbox.  Without an
\* association the kernel sets one up, or reports that it cannot; the item
\* arrives with the association it was sent on.
ClientSend(item, inbox) ==
  \/ /\ association # 0
     /\ toServer' = IF association \in served
                    THEN Append(toServer, [item EXCEPT !.of = association])
                    ELSE toServer
     /\ toClient' = inbox
     /\ UNCHANGED <<made, association, served>>
  \/ /\ association = 0 /\ server
     /\ made < MaxAssociations
     /\ made' = made + 1
     /\ association' = made'
     /\ served' = served \union {made'}
     /\ toServer' = Append(toServer, [item EXCEPT !.of = made'])
     /\ toClient' = Append(inbox, CommUp)
  \/ /\ association = 0 /\ ~server
     /\ toClient' = Append(inbox, CommLost(0))
     /\ UNCHANGED <<made, association, served, toServer>>

\* The client's socket refuses to send.
ClientSendFails(inbox) ==
  /\ faults < MaxFaults
  /\ faults' = faults + 1
  /\ toClient' = inbox
  /\ UNCHANGED <<made, association, served, toServer>>

\* A send of the server on association a: it arrives, it goes into a broken
\* association, or the socket refuses it.
ServerSend(a, m) ==
  \/ /\ toClient' = IF a \in served /\ a = association
                    THEN Append(toClient, Data(a, m)) ELSE toClient
     /\ UNCHANGED refused
  \/ /\ a \in served
     /\ Cardinality(refused) < MaxRefused
     /\ refused' = refused \union {m.time}
     /\ UNCHANGED toClient

\* What a socket delivers of q once association a has broken: some of the
\* data of a has not arrived.
Broken(q, a) ==
  {SubSeq(q, 1, k)
     \o SelectSeq(SubSeq(q, k + 1, Len(q)), LAMBDA item : item.of # a)
     \o <<CommLost(a)>> : k \in 0..Len(q)}

\* The client's end breaks, by a fault or because the other end is gone.
BreakClient ==
  /\ association # 0
  /\ association \in served => faults < MaxFaults
  /\ faults' = IF association \in served THEN faults + 1 ELSE faults
  /\ toClient' \in Broken(toClient, association)
  /\ association' = 0
  /\ UNCHANGED <<source, serverVars, clientVars, made, served, toServer,
                 published, refused, early, restarted, mislogged>>

BreakServer(a) ==
  /\ a \in served
  /\ a = association => faults < MaxFaults
  /\ faults' = IF a = association THEN faults + 1 ELSE faults
  /\ toServer' \in Broken(toServer, a)
  /\ served' = served \ {a}
  /\ UNCHANGED <<source, serverVars, clientVars, made, association, toClient,
                 published, refused, early, restarted, mislogged>>

-----------------------------------------------------------------------------
(***************************************************************************)
(* The server.                                                             *)
(***************************************************************************)

\* An application sends a message on the channel.
Publish ==
  /\ published < MaxMessages
  /\ published' = published + 1
  /\ source' = Append(source, published')
  /\ UNCHANGED <<serverVars, clientVars, sctpVars, faults, refused, early,
                 restarted, mislogged>>

\* The server's process comes up; its watcher starts behind the last message.
ServerStarts ==
  /\ ~server
  /\ server' = TRUE
  /\ watched' = Len(source)
  /\ UNCHANGED <<source, peer, peer_boot, clientVars, sctpVars, historyVars>>

\* The server's process dies, and with a reboot so does what its node holds.
ServerDies(reboot) ==
  /\ server
  /\ faults < MaxFaults
  /\ faults' = faults + 1
  /\ server' = FALSE /\ watched' = 0 /\ peer' = 0 /\ peer_boot' = 0
  /\ served' = {}
  /\ toServer' = <<>>
  /\ source' = IF reboot THEN <<>> ELSE source
  /\ UNCHANGED <<clientVars, made, association, toClient, published, refused,
                 early, restarted, mislogged>>

\* ChannelState::SendData, for the next message of the watcher.
SendData ==
  /\ server
  /\ watched < Len(source)
  /\ watched' = watched + 1
  /\ IF peer # 0 THEN ServerSend(peer, Message(watched'))
     ELSE UNCHANGED <<toClient, refused>>
  /\ UNCHANGED <<source, server, peer, peer_boot, clientVars, made, association,
                 served, toServer, published, faults, early, restarted,
                 mislogged>>

\* The server reads the next item of its socket.
ServerReads == /\ toServer # <<>>
               /\ UNCHANGED <<source, server, watched, clientVars, made,
                              association, published, faults, restarted>>

NodeDisconnected_AnyBoot ==
  /\ ServerReads
  /\ Head(toServer).kind = "lost"
  /\ toServer' = Tail(toServer)
  /\ peer_boot' = 0
  /\ IF peer = Head(toServer).of THEN peer' = 0 ELSE UNCHANGED peer
  /\ UNCHANGED <<served, toClient, refused, early, mislogged>>

\* An association that another has taken over has no peer any more.
NodeDisconnected ==
  /\ ServerReads
  /\ Head(toServer).kind = "lost"
  /\ toServer' = Tail(toServer)
  /\ IF peer = Head(toServer).of THEN peer' = 0 /\ peer_boot' = 0
     ELSE UNCHANGED <<peer, peer_boot>>
  /\ UNCHANGED <<served, toClient, refused, early, mislogged>>

\* What last_message_fetcher_ fetches.
LastMessage == Message(Len(source))

\* Mutation: the watcher starts again at the first message.
NodeConnected_Rewinds ==
  /\ toServer # <<>> /\ Head(toServer).kind = "connect"
  /\ peer' = Head(toServer).of /\ peer_boot' = Head(toServer).boot
  /\ toServer' = Tail(toServer)
  /\ IF source # <<>>
     THEN /\ ServerSend(peer', LastMessage)
          /\ early' = IF watched < Len(source)
                      THEN early \union {Last(source)} ELSE early
     ELSE UNCHANGED <<toClient, refused, early>>
  /\ watched' = 0
  /\ UNCHANGED <<source, server, clientVars, made, association, published,
                 faults, restarted, served, mislogged>>

\* HandleData for a Connect: an older association is aborted, and the newest
\* message is sent.
NodeConnected ==
  /\ ServerReads
  /\ Head(toServer).kind = "connect"
  /\ peer' = Head(toServer).of
  /\ peer_boot' = Head(toServer).boot
  /\ IF peer \in served \ {peer'}
     THEN /\ served' = served \ {peer}
          /\ toServer' = Append(Tail(toServer), CommLost(peer))
     ELSE UNCHANGED served /\ toServer' = Tail(toServer)
  /\ IF source # <<>>
     THEN /\ ServerSend(peer', LastMessage)
          /\ early' = IF watched < Len(source)
                      THEN early \union {Last(source)} ELSE early
     ELSE UNCHANGED <<toClient, refused, early>>
  /\ UNCHANGED mislogged

\* A delivery time is logged with the boot of the peer it belongs to.
HandleDelivery ==
  /\ ServerReads
  /\ Head(toServer).kind = "ack"
  /\ toServer' = Tail(toServer)
  /\ mislogged' = \/ mislogged
                  \/ /\ peer = Head(toServer).of
                     /\ peer_boot # Head(toServer).boot
  /\ UNCHANGED <<peer, peer_boot, served, toClient, refused, early>>

-----------------------------------------------------------------------------
(***************************************************************************)
(* The client.                                                             *)
(***************************************************************************)

\* The client's process comes up: what it finds on its channel is not to be
\* sent again.  The index is the one on its own node.
ClientStarts ==
  /\ ~client
  /\ client' = TRUE
  /\ last' = IF local = <<>> THEN Nothing
             ELSE [queue_index |-> Len(local) - 1, time |-> Last(local).time]
  /\ state' = "DISCONNECTED"
  /\ connect_timer' = "soon"
  /\ restarted' = restarted \union {Len(local)}
  /\ UNCHANGED <<source, serverVars, local, boot, sctpVars, published, faults,
                 refused, early, mislogged>>

ClientDies(reboot) ==
  /\ client
  /\ faults < MaxFaults
  /\ faults' = faults + 1
  /\ client' = FALSE /\ last' = Nothing
  /\ state' = "DISCONNECTED" /\ connect_timer' = "later"
  /\ association' = 0 /\ toClient' = <<>>
  /\ IF reboot THEN local' = <<>> /\ boot' = boot + 1 /\ restarted' = {}
     ELSE UNCHANGED <<local, boot, restarted>>
  /\ UNCHANGED <<source, serverVars, made, served, toServer, published, refused,
                 early, mislogged>>

\* SendConnect.  The long timeout runs out only when nothing is on its way:
\* kReconnectTimeout is longer than a message takes.
SendConnect ==
  /\ client
  /\ connect_timer = "later" =>
       toClient = <<>> /\ toServer = <<>>
  /\ \/ /\ ClientSend(Connect, toClient)
        /\ connect_timer' = "later"
        /\ UNCHANGED <<state, faults>>
     \/ /\ ClientSendFails(toClient)
        /\ connect_timer' = "soon" /\ state' = "DISCONNECTED"
  /\ UNCHANGED <<source, serverVars, local, boot, client, last, published,
                 refused, early, restarted, mislogged>>

\* The client reads the next item of its socket.
ClientReads == /\ client /\ toClient # <<>>
               /\ UNCHANGED <<source, serverVars, boot, client, published,
                              refused, early, restarted, mislogged>>

\* Mutation: the end of an association resets what was received on it.
ClientNotified_Forgets ==
  /\ ClientReads
  /\ \/ /\ Head(toClient).kind = "up"
        /\ state' = "CONNECTED" /\ connect_timer' = "later"
        /\ UNCHANGED last
     \/ /\ Head(toClient).kind = "lost"
        /\ state' = "DISCONNECTED" /\ connect_timer' = "soon"
        /\ last' = Nothing
  /\ toClient' = Tail(toClient)
  /\ UNCHANGED <<local, made, association, served, toServer, faults>>

ClientNotified ==
  /\ ClientReads
  /\ \/ /\ Head(toClient).kind = "up"
        /\ state' = "CONNECTED" /\ connect_timer' = "later"
     \/ /\ Head(toClient).kind = "lost"
        /\ state' = "DISCONNECTED" /\ connect_timer' = "soon"
  /\ toClient' = Tail(toClient)
  /\ UNCHANGED <<local, last, made, association, served, toServer, faults>>

Duplicate_IndexOnly(m) == m.queue_index = last.queue_index

\* The message the client published last.
Duplicate(m) == m.queue_index = last.queue_index /\ m.time = last.time

HandleData ==
  /\ ClientReads
  /\ Head(toClient).kind = "data"
  /\ connect_timer' = "later"
  /\ LET m == Head(toClient).message
     IN IF Duplicate(m)
        THEN /\ toClient' = Tail(toClient)
             /\ UNCHANGED <<local, last, made, association, served,
                            toServer, faults>>
        ELSE /\ last' = m
             /\ local' = Append(local, m)
             /\ \/ ClientSend(Ack, Tail(toClient)) /\ UNCHANGED faults
                \/ ClientSendFails(Tail(toClient))
  /\ UNCHANGED state

-----------------------------------------------------------------------------
ServerStep ==
  \/ ServerStarts
  \/ SendData
  \/ NodeDisconnected
  \/ NodeConnected
  \/ HandleDelivery

ClientStep == ClientStarts \/ ClientNotified \/ HandleData

Next ==
  \/ Publish
  \/ ServerStep
  \/ ClientStep
  \/ SendConnect
  \/ BreakClient
  \/ \E a \in 1..made : BreakServer(a)
  \/ \E reboot \in BOOLEAN : ServerDies(reboot) \/ ClientDies(reboot)

Spec == Init /\ [][Next]_vars

(***************************************************************************)
(* The starter restarts a process that died, event loops serve their       *)
(* sockets and timers, and SCTP notices that the other end of an           *)
(* association is gone.  Nothing else has to happen.                       *)
(***************************************************************************)
FairSpec ==
  /\ Spec
  /\ WF_vars(ServerStep)
  /\ WF_vars(ClientStep)
  /\ WF_vars(SendConnect)
  /\ WF_vars(BreakClient /\ association \notin served)
  /\ \A a \in 1..MaxAssociations : WF_vars(BreakServer(a) /\ a # association)

-----------------------------------------------------------------------------
\* A client gets the newest message of the channel, whatever was restarted or
\* lost ("when a client connects, the latest message from this channel will be
\* sent regardless"), unless the server's socket refused it.
NewestArrives ==
  <>[](source # <<>> /\ Last(source) \notin refused =>
         local # <<>> /\ Last(local).time = Last(source))

\* However often an association breaks, is set up again and repeats the newest
\* message, and although the client remembers one message only, it publishes a
\* message a second time in two cases only: it was started again in between, or
\* a Connect had sent the message before the server's watcher came to it.
RepeatsOnlyEarlyOrRestarted ==
  \A i, j \in 1..Len(local) :
    i < j /\ local[i] = local[j] => \/ local[i].time \in early
                                   \/ \E k \in restarted : i <= k /\ k < j

\* A client that is started again does not send the message it finds on its
\* channel again.
NotResent ==
  \A i \in 1..(Len(local) - 1) : local[i] # local[i + 1]

\* A message is overtaken only by one that was sent on a Connect before the
\* server's watcher came to it.
OnlyConnectOvertakes ==
  \A i, j \in 1..Len(local) :
    i < j /\ local[i].time > local[j].time => local[i].time \in early

\* A delivery time is logged for the boot of the client's node in which the
\* message was published there.
LoggedForTheRightBoot == ~mislogged
=============================================================================
