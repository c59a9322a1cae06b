---------------------------- MODULE LocklessQueue ----------------------------
(***************************************************************************)
(* The shared memory queue of aos/ipc_lib/lockless_queue.cc: senders that  *)
(* publish without a lock, pinners that keep one message from being        *)
(* reused, and readers that copy a message out.                            *)
(*                                                                         *)
(* One step is one access to shared memory (a load, a store or a           *)
(* compare-and-exchange of one word), so every interleaving of the code's  *)
(* accesses is a behaviour.  A process that is in the middle of a call     *)
(* has its place in pc and its local variables in loc.                     *)
(*                                                                         *)
(* log and swapped are history variables: log is what has been published,  *)
(* in queue order, and swapped[s] tells that the exchange sender s         *)
(* announced in to_replace has happened but is not recorded yet.           *)
(*                                                                         *)
(* The stores of a process become visible in order, and before its later   *)
(* loads wherever an atomic exchange lies in between.  PinIndex has none:  *)
(* its store of pinned waits in a store buffer until it is flushed.        *)
(***************************************************************************)
EXTENDS QueueIndex, Sequences, FiniteSets

CONSTANTS
  QueueSize,    \* slots of the queue
  NumSenders,   \* entries of the sender list
  NumPinners,   \* entries of the pinner list
  Readers,      \* processes that read
  Cleaners,     \* processes that recover dead senders
  MaxSends,     \* bound: calls of Send
  ReadAhead     \* bound: how far past the newest message a reader asks

ASSUME SizeAssumption ==
  /\ QueueSize \in Nat \ {0}
  /\ NumSenders \in Nat /\ NumPinners \in Nat
  /\ MaxSends \in Nat /\ ReadAhead \in Nat
  /\ QueueSize <= Sentinel
  /\ Cleaners \cap (0 .. NumSenders - 1) = {}

VARIABLES
  next_queue_index,  \* memory->next_queue_index
  queue,             \* memory->queue: slot -> Index
  message,           \* memory->messages: header.queue_index and contents
  sender,            \* memory->senders: scratch_index and to_replace
  pinner,            \* memory->pinners: scratch_index and pinned
  unflushed,         \* a pinned store still in the pinner's store buffer
  pc, loc,           \* senders and cleaners inside a call
  ppc, ploc,         \* pinners inside a call
  rpc, rloc,         \* readers inside a call
  sends,             \* calls of Send so far
  log, swapped       \* history

memoryVars == <<next_queue_index, queue, message, sender, pinner>>
vars == <<memoryVars, unflushed, pc, loc, ppc, ploc, rpc, rloc, sends, log,
          swapped>>

Slots == 0 .. QueueSize - 1
Senders == 0 .. NumSenders - 1
Pinners == 0 .. NumPinners - 1
Actors == Senders \cup Cleaners

\* LocklessQueueConfiguration::num_messages
NumMessages == NumSenders + NumPinners + QueueSize
Messages == 0 .. NumMessages - 1

MkIndex(queue_index, m) == [q |-> Low(queue_index), m |-> m]
Index == [q : 0 .. LowModulus - 1, m : Messages]

\* 0xffffffff: its message number is above every MaxMessages().
InvalidIndex == [q |-> LowModulus - 1, m |-> NumMessages]

ZeroOrValid(index) == IF Valid(index) THEN index ELSE 0

(***************************************************************************)
(* InitializeLocklessQueueMemory.                                          *)
(***************************************************************************)
InitMemory ==
  /\ next_queue_index = Sentinel
  /\ queue = [i \in Slots |->
        MkIndex(DecrementBy(IncrementBy(0, i, QueueSize), QueueSize, QueueSize),
                i)]
  /\ message = [m \in Messages |->
        [queue_index |-> Sentinel, data |-> 0, time |-> 0]]
  /\ sender = [s \in Senders |->
        [scratch |-> MkIndex(LowModulus - 1, s + QueueSize),
         to_replace |-> InvalidIndex]]
  /\ pinner = [p \in Pinners |->
        [scratch |-> MkIndex(LowModulus - 1, p + NumSenders + QueueSize),
         pinned |-> Sentinel]]

\* Locals of Send and of SwapPinnedSenderScratch at rest.
NoLocals(s) ==
  [slot |-> s, next |-> Sentinel, to_replace |-> InvalidIndex,
   pinner_index |-> 0, pinner_scratch |-> InvalidIndex,
   message_index |-> Sentinel, scan |-> 0]

\* At rest a pinner holds no message (held = NumMessages).
NoPin == [queue_index |-> Sentinel, m |-> NumMessages, held |-> NumMessages,
          buffer |-> NumMessages, visible |-> FALSE]

NoRead == [queue_index |-> 0, m |-> 0, starting |-> Sentinel, published |-> 0,
           time |-> 0, data |-> 0, result |-> "none"]

Init ==
  /\ InitMemory
  /\ unflushed = [p \in Pinners |-> Sentinel]
  /\ pc = [a \in Actors |-> "idle"]
  /\ loc = [a \in Actors |-> NoLocals(IF a \in Senders THEN a ELSE 0)]
  /\ ppc = [p \in Pinners |-> "idle"]
  /\ ploc = [p \in Pinners |-> NoPin]
  /\ rpc = [r \in Readers |-> "idle"]
  /\ rloc = [r \in Readers |-> NoRead]
  /\ sends = 0
  /\ log = <<>>
  /\ swapped = [s \in Senders |-> FALSE]

(***************************************************************************)
(* LocklessQueueSender::Send.                                              *)
(***************************************************************************)
readSide == <<unflushed, ppc, ploc, rpc, rloc>>

Goto(a, label) == pc' = [pc EXCEPT ![a] = label]

\* Scratch(s) is the Index of the message sender s fills in next.
Scratch(s) == sender[s].scratch

\* The caller writes a fresh payload into Data() and calls Send, which reads
\* scratch_index and fills in the header.
Fill(s) ==
  /\ pc[s] = "idle" /\ sends < MaxSends
  /\ sends' = sends + 1
  /\ message' = [message EXCEPT ![Scratch(s).m].data = sends']
  /\ Goto(s, "load_next")
  /\ UNCHANGED <<next_queue_index, queue, sender, pinner, loc, readSide, log,
                 swapped>>

\* One iteration of the loop: the queue index to publish at, ...
LoadNext(s) ==
  /\ pc[s] = "load_next"
  /\ loc' = [loc EXCEPT ![s].next = next_queue_index]
  /\ Goto(s, "load_slot")
  /\ UNCHANGED <<memoryVars, readSide, sends, log, swapped>>

NextQueueIndex(s) == ZeroOrValid(loc[s].next)
Incremented(s) == IncrementBy(NextQueueIndex(s), 1, QueueSize)
Decremented(s) == DecrementBy(NextQueueIndex(s), QueueSize, QueueSize)
SendSlot(s) == Wrapped(NextQueueIndex(s), QueueSize)

\* ... and the Index in its slot, which is one lap old unless we got beat.
LoadSlot(s) ==
  /\ pc[s] = "load_slot"
  /\ loc' = [loc EXCEPT ![s].to_replace = queue[SendSlot(s)]]
  /\ Goto(s, IF IsPlausible(Decremented(s), queue[SendSlot(s)].q)
             THEN "check_previous" ELSE "fix_next")
  /\ UNCHANGED <<memoryVars, readSide, sends, log, swapped>>

\* next_queue_index.CompareAndExchangeStrong(actual, incremented)
AdvanceNext(s) ==
  next_queue_index' = IF next_queue_index = loc[s].next
                      THEN Incremented(s) ELSE next_queue_index

\* Mutation: leaves the index to the winner.
FixNext_Waits(s) ==
  /\ pc[s] = "fix_next"
  /\ loc' = [loc EXCEPT ![s] = NoLocals(s)]
  /\ Goto(s, "load_next")
  /\ UNCHANGED <<memoryVars, readSide, sends, log, swapped>>

\* We got beat: the winner may have died before it advanced the index.
FixNext(s) ==
  /\ pc[s] = "fix_next"
  /\ AdvanceNext(s)
  /\ loc' = [loc EXCEPT ![s] = NoLocals(s)]
  /\ Goto(s, "load_next")
  /\ UNCHANGED <<queue, message, sender, pinner, readSide, sends, log, swapped>>

CheckPrevious(s) ==
  LET previous == message[loc[s].to_replace.m].queue_index
      retry == previous # Decremented(s) /\ Valid(previous)
  IN /\ pc[s] = "check_previous"
     /\ loc' = IF retry THEN [loc EXCEPT ![s] = NoLocals(s)] ELSE loc
     /\ Goto(s, IF retry THEN "load_next" ELSE "store_scratch")
     /\ UNCHANGED <<memoryVars, readSide, sends, log, swapped>>

\* Mutation: the clocks are not read again for a retry.
StoreScratch_SampledOnce(s) ==
  /\ pc[s] = "store_scratch"
  /\ message' = IF Valid(message[Scratch(s).m].queue_index) THEN message
                ELSE [message EXCEPT ![Scratch(s).m].time = Len(log)]
  /\ sender' = [sender EXCEPT
        ![s].scratch = MkIndex(NextQueueIndex(s), Scratch(s).m)]
  /\ Goto(s, "store_queue_index")
  /\ UNCHANGED <<next_queue_index, queue, pinner, loc, readSide, sends, log,
                 swapped>>

\* Samples the clocks (time is counted in messages published so far) and
\* records the Index that is going to be published.
StoreScratch(s) ==
  /\ pc[s] = "store_scratch"
  /\ message' = [message EXCEPT ![Scratch(s).m].time = Len(log)]
  /\ sender' = [sender EXCEPT
        ![s].scratch = MkIndex(NextQueueIndex(s), Scratch(s).m)]
  /\ Goto(s, "store_queue_index")
  /\ UNCHANGED <<next_queue_index, queue, pinner, loc, readSide, sends, log,
                 swapped>>

\* Mutation: the queue index is not stored in the header.
StoreQueueIndex_Skipped(s) ==
  /\ pc[s] = "store_queue_index"
  /\ Goto(s, "store_to_replace")
  /\ UNCHANGED <<memoryVars, loc, readSide, sends, log, swapped>>

StoreQueueIndex(s) ==
  /\ pc[s] = "store_queue_index"
  /\ message' = [message EXCEPT ![Scratch(s).m].queue_index = NextQueueIndex(s)]
  /\ Goto(s, "store_to_replace")
  /\ UNCHANGED <<next_queue_index, queue, sender, pinner, loc, readSide, sends,
                 log, swapped>>

StoreToReplace(s) ==
  /\ pc[s] = "store_to_replace"
  /\ sender' = [sender EXCEPT ![s].to_replace = loc[s].to_replace]
  /\ Goto(s, "exchange_slot")
  /\ UNCHANGED <<next_queue_index, queue, message, pinner, loc, readSide, sends,
                 log, swapped>>

\* The compare-and-exchange that publishes the message.
ExchangeSlot(s) ==
  /\ pc[s] = "exchange_slot"
  /\ queue[SendSlot(s)] = loc[s].to_replace
  /\ queue' = [queue EXCEPT ![SendSlot(s)] = Scratch(s)]
  /\ log' = Append(log, [queue_index |-> NextQueueIndex(s),
                         data |-> message[Scratch(s).m].data,
                         time |-> message[Scratch(s).m].time])
  /\ swapped' = [swapped EXCEPT ![s] = TRUE]
  /\ Goto(s, "update_next")
  /\ UNCHANGED <<next_queue_index, message, sender, pinner, loc, readSide,
                 sends>>

\* It failed: somebody else published here first.
ExchangeSlotFails(s) ==
  /\ pc[s] = "exchange_slot"
  /\ queue[SendSlot(s)] # loc[s].to_replace
  /\ Goto(s, "undo_to_replace")
  /\ UNCHANGED <<memoryVars, loc, readSide, sends, log, swapped>>

UndoToReplace(s) ==
  /\ pc[s] = "undo_to_replace"
  /\ sender' = [sender EXCEPT ![s].to_replace = InvalidIndex]
  /\ loc' = [loc EXCEPT ![s] = NoLocals(s)]
  /\ Goto(s, "load_next")
  /\ UNCHANGED <<next_queue_index, queue, message, pinner, readSide, sends, log,
                 swapped>>

UpdateNext(s) ==
  /\ pc[s] = "update_next"
  /\ AdvanceNext(s)
  /\ Goto(s, "take_replaced")
  /\ UNCHANGED <<queue, message, sender, pinner, loc, readSide, sends, log,
                 swapped>>

\* Mutation: the store to scratch_index is forgotten.
TakeReplaced_KeepsScratch(s) ==
  /\ pc[s] = "take_replaced"
  /\ swapped' = [swapped EXCEPT ![s] = FALSE]
  /\ Goto(s, "clear_to_replace")
  /\ UNCHANGED <<memoryVars, loc, readSide, sends, log>>

\* sender->scratch_index.Store(to_replace)
TakeReplaced(s) ==
  /\ pc[s] = "take_replaced"
  /\ sender' = [sender EXCEPT ![s].scratch = loc[s].to_replace]
  /\ swapped' = [swapped EXCEPT ![s] = FALSE]
  /\ Goto(s, "clear_to_replace")
  /\ UNCHANGED <<next_queue_index, queue, message, pinner, loc, readSide, sends,
                 log>>

ClearToReplace(s) ==
  /\ pc[s] = "clear_to_replace"
  /\ sender' = [sender EXCEPT ![s].to_replace = InvalidIndex]
  /\ loc' = [loc EXCEPT ![s] = NoLocals(s)]
  /\ Goto(s, "own_load")
  /\ UNCHANGED <<next_queue_index, queue, message, pinner, readSide, sends, log,
                 swapped>>

\* The new scratch message is nobody's any more: Send is done.
Invalidate(s) ==
  /\ pc[s] = "invalidate"
  /\ message' = [message EXCEPT ![Scratch(s).m].queue_index = Sentinel]
  /\ loc' = [loc EXCEPT ![s] = NoLocals(s)]
  /\ Goto(s, "idle")
  /\ UNCHANGED <<next_queue_index, queue, sender, pinner, readSide, sends, log,
                 swapped>>

(***************************************************************************)
(* SwapPinnedSenderScratch and IsPinned, run by the sender itself at the   *)
(* end of Send, or by a cleaner on behalf of the dead sender loc[a].slot.  *)
(* IsPinned first loads the queue index of a message and then compares it  *)
(* with each pinner in turn.                                               *)
(***************************************************************************)
Slot(a) == loc[a].slot

\* Where SwapPinnedSenderScratch returns to.
SwapReturn(a) == IF a \in Senders THEN "invalidate" ELSE "swap_done"

IsPinnedLoad(a, index, scan, unpinned) ==
  LET message_index == message[index.m].queue_index
  IN /\ loc' = [loc EXCEPT ![a].message_index = message_index, ![a].scan = 0]
     /\ Goto(a, IF Valid(message_index) /\ NumPinners > 0
                THEN scan ELSE unpinned)

IsPinnedScan(a, scan, unpinned, pinned, afterPinned) ==
  LET k == loc[a].scan
      hit == pinner[k].pinned = loc[a].message_index
  IN /\ loc' = IF hit THEN [loc EXCEPT ![a].pinner_index = afterPinned]
               ELSE [loc EXCEPT ![a].scan = (k + 1) % NumPinners]
     /\ Goto(a, IF hit THEN pinned
                ELSE IF k + 1 = NumPinners THEN unpinned ELSE scan)

NextPinner(a) == (loc[a].pinner_index + 1) % NumPinners

\* if (!IsPinned(memory, to_replace)) return to_replace;
OwnLoad(a) ==
  /\ pc[a] = "own_load"
  /\ IsPinnedLoad(a, Scratch(Slot(a)), "own_scan", SwapReturn(a))
  /\ UNCHANGED <<memoryVars, readSide, sends, log, swapped>>

\* Mutation: a pinned message is kept all the same.
OwnScan_IgnoresPins(a) ==
  /\ pc[a] = "own_scan"
  /\ IsPinnedScan(a, "own_scan", SwapReturn(a), SwapReturn(a),
                  loc[a].pinner_index)
  /\ UNCHANGED <<memoryVars, readSide, sends, log, swapped>>

OwnScan(a) ==
  /\ pc[a] = "own_scan"
  /\ IsPinnedScan(a, "own_scan", SwapReturn(a), "load_pinner",
                  loc[a].pinner_index)
  /\ UNCHANGED <<memoryVars, readSide, sends, log, swapped>>

LoadPinner(a) ==
  /\ pc[a] = "load_pinner"
  /\ loc' = [loc EXCEPT
        ![a].pinner_scratch = pinner[loc[a].pinner_index].scratch]
  /\ Goto(a, "their_load")
  /\ UNCHANGED <<memoryVars, readSide, sends, log, swapped>>

\* if (IsPinned(memory, pinner_scratch)) continue;
TheirLoad(a) ==
  /\ pc[a] = "their_load"
  /\ IsPinnedLoad(a, loc[a].pinner_scratch, "their_scan", "offer")
  /\ UNCHANGED <<memoryVars, readSide, sends, log, swapped>>

\* Mutation: any pin counts, not the pin of this message.
TheirScan_AnyPin(a) ==
  /\ pc[a] = "their_scan"
  /\ Goto(a, IF \E p \in Pinners : Valid(pinner[p].pinned)
             THEN "own_load" ELSE "offer")
  /\ UNCHANGED <<memoryVars, loc, readSide, sends, log, swapped>>

TheirScan(a) ==
  /\ pc[a] = "their_scan"
  /\ IsPinnedScan(a, "their_scan", "offer", "own_load", NextPinner(a))
  /\ UNCHANGED <<memoryVars, readSide, sends, log, swapped>>

Offer(a) ==
  /\ pc[a] = "offer"
  /\ sender' = [sender EXCEPT ![Slot(a)].to_replace = loc[a].pinner_scratch]
  /\ Goto(a, "exchange_pinner")
  /\ UNCHANGED <<next_queue_index, queue, message, pinner, loc, readSide, sends,
                 log, swapped>>

\* The compare-and-exchange that leaves the pinned message with the pinner.
ExchangePinner(a) ==
  /\ pc[a] = "exchange_pinner"
  /\ pinner[loc[a].pinner_index].scratch = loc[a].pinner_scratch
  /\ pinner' = [pinner EXCEPT
        ![loc[a].pinner_index].scratch = Scratch(Slot(a))]
  /\ swapped' = [swapped EXCEPT ![Slot(a)] = TRUE]
  /\ Goto(a, "take_offered")
  /\ UNCHANGED <<next_queue_index, queue, message, sender, loc, readSide, sends,
                 log>>

ExchangePinnerFails(a) ==
  /\ pc[a] = "exchange_pinner"
  /\ pinner[loc[a].pinner_index].scratch # loc[a].pinner_scratch
  /\ Goto(a, "withdraw")
  /\ UNCHANGED <<memoryVars, loc, readSide, sends, log, swapped>>

\* Mutation: the announcement stands.
Withdraw_Forgotten(a) ==
  /\ pc[a] = "withdraw"
  /\ loc' = [loc EXCEPT ![a].pinner_index = NextPinner(a)]
  /\ Goto(a, "own_load")
  /\ UNCHANGED <<memoryVars, readSide, sends, log, swapped>>

Withdraw(a) ==
  /\ pc[a] = "withdraw"
  /\ sender' = [sender EXCEPT ![Slot(a)].to_replace = InvalidIndex]
  /\ loc' = [loc EXCEPT ![a].pinner_index = NextPinner(a)]
  /\ Goto(a, "own_load")
  /\ UNCHANGED <<next_queue_index, queue, message, pinner, readSide, sends, log,
                 swapped>>

TakeOffered(a) ==
  /\ pc[a] = "take_offered"
  /\ sender' = [sender EXCEPT ![Slot(a)].scratch = loc[a].pinner_scratch]
  /\ swapped' = [swapped EXCEPT ![Slot(a)] = FALSE]
  /\ Goto(a, "clear_offer")
  /\ UNCHANGED <<next_queue_index, queue, message, pinner, loc, readSide, sends,
                 log>>

\* Mutation: the message left with the pinner is marked unused.
ClearOffer_MarksGiven(a) ==
  /\ pc[a] = "clear_offer"
  /\ sender' = [sender EXCEPT ![Slot(a)].to_replace = InvalidIndex]
  /\ message' = [message EXCEPT
        ![pinner[loc[a].pinner_index].scratch.m].queue_index = Sentinel]
  /\ Goto(a, SwapReturn(a))
  /\ UNCHANGED <<next_queue_index, queue, pinner, loc, readSide, sends, log,
                 swapped>>

ClearOffer(a) ==
  /\ pc[a] = "clear_offer"
  /\ sender' = [sender EXCEPT ![Slot(a)].to_replace = InvalidIndex]
  /\ Goto(a, SwapReturn(a))
  /\ UNCHANGED <<next_queue_index, queue, message, pinner, loc, readSide, sends,
                 log, swapped>>

SwapPinnedSenderScratch(a) ==
  \/ OwnLoad(a) \/ OwnScan(a) \/ LoadPinner(a) \/ TheirLoad(a) \/ TheirScan(a)
  \/ Offer(a) \/ ExchangePinner(a) \/ ExchangePinnerFails(a) \/ Withdraw(a)
  \/ TakeOffered(a) \/ ClearOffer(a)

Send(s) ==
  \/ LoadNext(s) \/ LoadSlot(s) \/ FixNext(s) \/ CheckPrevious(s)
  \/ StoreScratch(s) \/ StoreQueueIndex(s) \/ StoreToReplace(s)
  \/ ExchangeSlot(s) \/ ExchangeSlotFails(s) \/ UndoToReplace(s)
  \/ UpdateNext(s) \/ TakeReplaced(s) \/ ClearToReplace(s)
  \/ SwapPinnedSenderScratch(s) \/ Invalidate(s)

(***************************************************************************)
(* LocklessQueuePinner::PinIndex and Data.                                 *)
(***************************************************************************)
sendSide == <<pc, loc, sends, log, swapped>>

\* Queue indices somebody may ask for: published ones and a few after them.
Asked(ahead) == {IncrementBy(0, n, QueueSize) : n \in 0 .. Len(log) + ahead - 1}

\* The store of pinned goes to the store buffer (lockless_queue.cc:1165 has a
\* compiler barrier only).
PinStore(p, q) ==
  /\ ppc[p] \in {"idle", "pinned"} /\ unflushed[p] = Sentinel
  /\ unflushed' = [unflushed EXCEPT ![p] = q]
  /\ ploc' = [ploc EXCEPT ![p] = [NoPin EXCEPT !.queue_index = q]]
  /\ ppc' = [ppc EXCEPT ![p] = "load_slot"]
  /\ UNCHANGED <<memoryVars, rpc, rloc, sendSide>>

\* The store buffer drains.
Flush(p) ==
  /\ unflushed[p] # Sentinel
  /\ pinner' = [pinner EXCEPT ![p].pinned = unflushed[p]]
  /\ unflushed' = [unflushed EXCEPT ![p] = Sentinel]
  /\ UNCHANGED <<next_queue_index, queue, message, sender, ppc, ploc, rpc, rloc,
                 sendSide>>

\* visible is history: whether senders could see the pin by then.
PinLoadSlot(p) ==
  /\ ppc[p] = "load_slot"
  /\ ploc' = [ploc EXCEPT
        ![p].m = queue[Wrapped(ploc[p].queue_index, QueueSize)].m,
        ![p].visible = unflushed[p] = Sentinel]
  /\ ppc' = [ppc EXCEPT ![p] = "check"]
  /\ UNCHANGED <<memoryVars, unflushed, rpc, rloc, sendSide>>

PinCheck(p) ==
  LET eq == message[ploc[p].m].queue_index = ploc[p].queue_index
  IN /\ ppc[p] = "check"
     /\ ploc' = IF eq THEN [ploc EXCEPT ![p].held = ploc[p].m] ELSE ploc
     /\ ppc' = [ppc EXCEPT ![p] = IF eq THEN "pinned" ELSE "unpin"]
     /\ UNCHANGED <<memoryVars, unflushed, rpc, rloc, sendSide>>

\* It is no longer in the queue: back out.
Unpin(p) ==
  /\ ppc[p] = "unpin" /\ unflushed[p] = Sentinel
  /\ pinner' = [pinner EXCEPT ![p].pinned = Sentinel]
  /\ ploc' = [ploc EXCEPT ![p] = NoPin]
  /\ ppc' = [ppc EXCEPT ![p] = "idle"]
  /\ UNCHANGED <<next_queue_index, queue, message, sender, unflushed, rpc, rloc,
                 sendSide>>

\* Data() looks the pinned queue index up in the queue again.
Data(p) ==
  /\ ppc[p] = "pinned" /\ ploc[p].buffer = NumMessages
  /\ ploc' = [ploc EXCEPT
        ![p].buffer = queue[Wrapped(ploc[p].queue_index, QueueSize)].m]
  /\ UNCHANGED <<memoryVars, unflushed, ppc, rpc, rloc, sendSide>>

(***************************************************************************)
(* LocklessQueueReader::Read.  published is history: how much had been     *)
(* published when the call started.                                        *)
(***************************************************************************)
Return(r, result) ==
  /\ rloc' = [rloc EXCEPT ![r].result = result]
  /\ rpc' = [rpc EXCEPT ![r] = "idle"]

LoadMessage(r) == queue[Wrapped(rloc[r].queue_index, QueueSize)].m

ReadStart(r, q) ==
  /\ rpc[r] = "idle"
  /\ rloc' = [rloc EXCEPT ![r] =
        [NoRead EXCEPT !.queue_index = q,
                       !.m = queue[Wrapped(q, QueueSize)].m,
                       !.published = Len(log)]]
  /\ rpc' = [rpc EXCEPT ![r] = "check"]
  /\ UNCHANGED <<memoryVars, unflushed, ppc, ploc, sendSide>>

ReadCheck(r) ==
  LET q == rloc[r].queue_index
      starting == message[rloc[r].m].queue_index
  IN /\ rpc[r] = "check"
     /\ \/ /\ starting = q
           /\ rpc' = [rpc EXCEPT ![r] = "copy_header"]
           /\ UNCHANGED rloc
        \/ /\ starting = DecrementBy(q, QueueSize, QueueSize)
           /\ Return(r, "NOTHING_NEW")
        \/ /\ starting \notin {q, DecrementBy(q, QueueSize, QueueSize)}
           /\ rloc' = [rloc EXCEPT ![r].starting = starting]
           /\ rpc' = [rpc EXCEPT ![r] = "reload"]
     /\ UNCHANGED <<memoryVars, unflushed, ppc, ploc, sendSide>>

\* Mutation: off by one at the end of the first lap.
ReadReload_OffByOne(r) ==
  /\ rpc[r] = "reload"
  /\ \/ /\ LoadMessage(r) # rloc[r].m
        /\ rloc' = [rloc EXCEPT ![r].m = LoadMessage(r)]
        /\ rpc' = [rpc EXCEPT ![r] = "check"]
     \/ /\ LoadMessage(r) = rloc[r].m
        /\ Return(r, IF ~Valid(rloc[r].starting)
                        /\ rloc[r].queue_index <= QueueSize
                     THEN "NOTHING_NEW" ELSE "TOO_OLD")
  /\ UNCHANGED <<memoryVars, unflushed, ppc, ploc, sendSide>>

\* Somebody re-used the message, or it never was what we asked for.
ReadReload(r) ==
  /\ rpc[r] = "reload"
  /\ \/ /\ LoadMessage(r) # rloc[r].m
        /\ rloc' = [rloc EXCEPT ![r].m = LoadMessage(r)]
        /\ rpc' = [rpc EXCEPT ![r] = "check"]
     \/ /\ LoadMessage(r) = rloc[r].m
        /\ Return(r, IF ~Valid(rloc[r].starting)
                        /\ rloc[r].queue_index < QueueSize
                     THEN "NOTHING_NEW" ELSE "TOO_OLD")
  /\ UNCHANGED <<memoryVars, unflushed, ppc, ploc, sendSide>>

ReadCopyHeader(r) ==
  /\ rpc[r] = "copy_header"
  /\ rloc' = [rloc EXCEPT ![r].time = message[rloc[r].m].time]
  /\ rpc' = [rpc EXCEPT ![r] = "copy_data"]
  /\ UNCHANGED <<memoryVars, unflushed, ppc, ploc, sendSide>>

ReadCopyData(r) ==
  /\ rpc[r] = "copy_data"
  /\ rloc' = [rloc EXCEPT ![r].data = message[rloc[r].m].data]
  /\ rpc' = [rpc EXCEPT ![r] = "confirm"]
  /\ UNCHANGED <<memoryVars, unflushed, ppc, ploc, sendSide>>

\* Mutation: the queue index is not loaded again after the copy.
ReadConfirm_Trusting(r) ==
  /\ rpc[r] = "confirm"
  /\ Return(r, "GOOD")
  /\ UNCHANGED <<memoryVars, unflushed, ppc, ploc, sendSide>>

ReadConfirm(r) ==
  /\ rpc[r] = "confirm"
  /\ Return(r, IF message[rloc[r].m].queue_index = rloc[r].queue_index
               THEN "GOOD" ELSE "OVERWROTE")
  /\ UNCHANGED <<memoryVars, unflushed, ppc, ploc, sendSide>>

Read(r) ==
  \/ ReadCheck(r) \/ ReadReload(r) \/ ReadCopyHeader(r) \/ ReadCopyData(r)
  \/ ReadConfirm(r)

\* LocklessQueueReader::LatestIndex
LatestIndex ==
  IF Valid(next_queue_index) THEN DecrementBy(next_queue_index, 1, QueueSize)
  ELSE Sentinel

PinIndex(p) == PinLoadSlot(p) \/ PinCheck(p) \/ Unpin(p) \/ Flush(p)

Next ==
  \/ \E s \in Senders : Fill(s) \/ Send(s)
  \/ \E p \in Pinners : \/ \E q \in Asked(1) : PinStore(p, q)
                        \/ PinIndex(p) \/ Data(p)
  \/ \E r \in Readers : \/ \E q \in Asked(ReadAhead) : ReadStart(r, q)
                        \/ Read(r)

Spec == Init /\ [][Next]_vars

(***************************************************************************)
(* Properties.                                                             *)
(***************************************************************************)
MaybeIndex == Index \cup {InvalidIndex}
QueueIndices == Indices(QueueSize) \cup {Sentinel}

\* Every field of the shared memory and every local has its type; in
\* particular an Index in the queue, a scratch_index and a pinner's
\* scratch_index are always valid ("This should always be valid",
\* lockless_queue.h:65).
TypeOK ==
  /\ next_queue_index \in QueueIndices
  /\ queue \in [Slots -> Index]
  /\ message \in [Messages -> [queue_index : QueueIndices, data : Nat,
                               time : Nat]]
  /\ sender \in [Senders -> [scratch : Index, to_replace : MaybeIndex]]
  /\ pinner \in [Pinners -> [scratch : Index, pinned : QueueIndices]]
  /\ unflushed \in [Pinners -> QueueIndices]
  /\ sends \in Nat
  /\ swapped \in [Senders -> BOOLEAN]

\* The message a sender has to itself: the announced exchange decides whether
\* it is the one in scratch_index or the one in to_replace.
Held(s) == IF swapped[s] THEN sender[s].to_replace.m ELSE sender[s].scratch.m

\* No message is ever in two places: not in two slots of the queue, not in the
\* queue and being filled in, not with two senders, not with a sender and a
\* pinner.  With as many messages as holders, none is ever lost either.
Ownership ==
  /\ \A i, j \in Slots : queue[i].m = queue[j].m => i = j
  /\ \A s, t \in Senders : Held(s) = Held(t) => s = t
  /\ \A p, q \in Pinners : pinner[p].scratch.m = pinner[q].scratch.m => p = q
  /\ \A i \in Slots, s \in Senders : queue[i].m # Held(s)
  /\ \A i \in Slots, p \in Pinners : queue[i].m # pinner[p].scratch.m
  /\ \A s \in Senders, p \in Pinners : Held(s) # pinner[p].scratch.m

\* Where an exchange is announced in to_replace but not recorded in
\* scratch_index yet, and where it is recorded and still announced.
Announced == {"exchange_slot", "undo_to_replace", "update_next",
              "take_replaced", "exchange_pinner", "withdraw", "take_offered"}
Recorded == {"clear_to_replace", "clear_offer"}

\* At any moment a sender's entry is in one of the states that DoCleanup
\* distinguishes (lockless_queue.cc:185-206), and to_replace == scratch_index,
\* by which it tells states 2 and 3 apart, really does so.
FourStates ==
  \A s \in Senders :
    /\ pc[s] \in Announced => /\ sender[s].to_replace \in Index
                              /\ sender[s].to_replace # sender[s].scratch
    /\ pc[s] \in Recorded => sender[s].to_replace = sender[s].scratch
    /\ pc[s] \notin Announced \cup Recorded =>
         sender[s].to_replace = InvalidIndex

\* No step of anybody writes a message that is in the queue or with a pinner:
\* senders fill in, stamp and invalidate only what they hold.
NoOverwrite ==
  [][/\ \A i \in Slots : message'[queue[i].m] = message[queue[i].m]
     /\ \A p \in Pinners :
          message'[pinner[p].scratch.m] = message[pinner[p].scratch.m]]_vars

\* The queue index of the n-th message ever published (from 0).
NthIndex(n) == n % MaxIndex(Sentinel, QueueSize)

\* Messages are published at consecutive queue indices, none skipped and none
\* used twice, and their sent times are in queue order: each clock was read
\* after the previous message had been published (lockless_queue.cc:1012).
PublishOrder ==
  \A i \in 1 .. Len(log) : /\ log[i].queue_index = NthIndex(i - 1)
                           /\ log[i].time = i - 1

BeforeExchange == {"load_next", "load_slot", "fix_next", "check_previous",
                   "store_scratch", "store_queue_index", "store_to_replace",
                   "exchange_slot", "undo_to_replace"}

\* Each call of Send publishes its message exactly once, whatever it lost to
\* other senders on the way.
PublishedOnce ==
  /\ \A i, j \in 1 .. Len(log) : log[i].data = log[j].data => i = j
  /\ sends = Len(log) + Cardinality({s \in Senders : pc[s] \in BeforeExchange})

\* The last QueueSize messages are always in their slots, contents intact: a
\* sender only ever overwrites the oldest.
NewestIntact ==
  \A i \in 1 .. Len(log) :
    i > Len(log) - QueueSize =>
      LET index == queue[Wrapped(log[i].queue_index, QueueSize)]
      IN /\ index.q = Low(log[i].queue_index)
         /\ message[index.m] = log[i]

\* LatestIndex() is the newest message or the one before it, and next_queue_index
\* is as close: "we will be at most off by one" (lockless_queue.cc:978), "At
\* worst, this will be off by one" (:1325).
NextLag ==
  IF Valid(LatestIndex)
  THEN \E n \in {Len(log) - 1, Len(log)} :
         n > 0 /\ LatestIndex = NthIndex(n - 1)
  ELSE Len(log) <= 1

\* A sender that is free to fill in its buffer has one whose queue index is
\* invalid, so that no reader takes it for a message (:900, :944).
ScratchUnused ==
  \A s \in Senders :
    pc[s] = "idle" => ~Valid(message[Scratch(s).m].queue_index)

Pins == [p \in Pinners |-> pinner[p].pinned]

\* Sending is free of livelock: with finitely many calls of Send, every one
\* returns, unless pinners keep changing their pins for ever ("This loop will
\* terminate in at most one iteration through the pinners in any steady-state
\* configuration of the memory", lockless_queue.cc:74).
SendReturns ==
  <>[][UNCHANGED Pins]_vars => \A s \in Senders : []<>(pc[s] = "idle")

Entry(q) == {log[i] : i \in {j \in 1 .. Len(log) : log[j].queue_index = q}}

Intact(p) == \E e \in Entry(ploc[p].queue_index) :
               /\ message[ploc[p].held].data = e.data
               /\ message[ploc[p].held].time = e.time

\* From the time PinIndex succeeds until the next call, the message it
\* returned keeps the contents that were published at that index, provided the
\* store of the pin was visible before the load of the slot
\* (lockless_queue.cc:1165-1169).
PinnedIntact ==
  \A p \in Pinners : ppc[p] = "pinned" /\ ploc[p].visible => Intact(p)

\* The same with no proviso, as the "full bidirectional barriers" of AtomicIndex
\* and AtomicQueueIndex would have it (index.h:142).
PinProtects == \A p \in Pinners : ppc[p] = "pinned" => Intact(p)

\* The buffer Data() returns is the message PinIndex pinned.
DataIsPinned ==
  \A p \in Pinners :
    ploc[p].buffer # NumMessages => ploc[p].buffer = ploc[p].held

\* A read that returns GOOD returns the header and the data of one message,
\* the one published at the index asked for.
GoodRead ==
  \A r \in Readers :
    rloc[r].result = "GOOD" =>
      [queue_index |-> rloc[r].queue_index, data |-> rloc[r].data,
       time |-> rloc[r].time] \in Entry(rloc[r].queue_index)

\* A message that was published before the read started is never reported as
\* not there yet ("Queue index went backwards.  This should never happen",
\* shm_event_loop.cc:326) ...
NeverBackwards ==
  \A r \in Readers :
    rloc[r].result = "NOTHING_NEW" => rloc[r].queue_index >= rloc[r].published

\* ... except in the first lap, by a reader that was overtaken by two laps
\* between two of its loads.
BackwardsOnlyIfLapped ==
  \A r \in Readers :
    /\ rloc[r].result = "NOTHING_NEW"
    /\ rloc[r].queue_index < rloc[r].published
    => /\ rloc[r].queue_index < QueueSize
       /\ Len(log) > rloc[r].queue_index + 2 * QueueSize
===============================================================================
