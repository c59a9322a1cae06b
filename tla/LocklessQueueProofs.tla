------------------------- MODULE LocklessQueueProofs -------------------------
(***************************************************************************)
(* Type correctness, ownership of messages, the states of a sender's entry *)
(* and the absence of writes to published messages, for queues of every    *)
(* size with any number of senders, pinners and readers.                   *)
(*                                                                         *)
(* Ownership is not inductive by itself: that an exchange hands a sender   *)
(* exactly the message it takes out rests on what the sender has announced *)
(* in to_replace and remembers in its locals (SendState).                  *)
(***************************************************************************)
EXTENDS LocklessQueue, QueueIndexProofs

Locals == [slot : Senders \cup {0}, next : QueueIndices,
           to_replace : MaybeIndex, pinner_index : Pinners \cup {0},
           pinner_scratch : MaybeIndex, message_index : QueueIndices,
           scan : Pinners \cup {0}]

\* The places where the local to_replace, and the local pinner_scratch, are set.
Replacing == {"check_previous", "store_scratch", "store_queue_index",
              "store_to_replace", "exchange_slot", "update_next",
              "take_replaced"}
Offering == {"their_load", "their_scan", "offer", "exchange_pinner",
             "take_offered"}
Swapping == Offering \cup {"own_scan", "load_pinner", "withdraw"}
Swapped == {"update_next", "take_replaced", "take_offered"}

Labels == BeforeExchange \cup Swapping \cup Swapped \cup Recorded
            \cup {"idle", "own_load", "invalidate"}

\* What a sender in the middle of a call knows.
LocalState(s) ==
  /\ loc[s].slot = s
  /\ pc[s] \in Replacing => loc[s].to_replace \in Index
  /\ pc[s] \in Offering => loc[s].pinner_scratch \in Index
  /\ pc[s] \in Swapping => NumPinners > 0

LocalInv ==
  /\ pc \in [Actors -> Labels]
  /\ loc \in [Actors -> Locals]
  /\ \A s \in Senders : LocalState(s)

LogInv == log \in Seq([queue_index : Nat, data : Nat, time : Nat])

TypeInv == TypeOK /\ LocalInv /\ LogInv

(***************************************************************************)
(* The values the operators of Send compute.                               *)
(***************************************************************************)
LEMMA Sizes ==
  /\ QueueSize \in Nat \ {0} /\ QueueSize <= Sentinel
  /\ Sentinel \in Nat /\ LowModulus \in Nat \ {0}
  /\ NumSenders \in Nat /\ NumPinners \in Nat
  /\ NumMessages \in Nat /\ MaxSends \in Nat
  BY SizeAssumption, WidthAssumption DEF NumMessages

LEMMA IndicesFacts ==
  /\ Indices(QueueSize) \subseteq Nat
  /\ 0 \in Indices(QueueSize)
  /\ \A q \in Indices(QueueSize) : q < Sentinel
  <1>1. MaxIndex(Sentinel, QueueSize) \in QueueSize .. Sentinel
    BY MaxIndexRange, Sizes
  <1> QED
    BY <1>1, Sizes DEF Indices

LEMMA IndexFacts ==
  /\ \A q \in Nat, m \in Messages : MkIndex(q, m) \in Index
  /\ InvalidIndex \notin Index
  /\ \A x \in Index : x.m \in Messages /\ x.q \in Nat
  <1>1. \A q \in Nat : Low(q) \in 0 .. LowModulus - 1
    BY Sizes, ModRange DEF Low
  <1>2. LowModulus - 1 \in Nat
    BY Sizes
  <1> QED
    BY <1>1, <1>2, Sizes DEF MkIndex, Index, InvalidIndex, Messages

LEMMA SendIndices ==
  ASSUME TypeInv, NEW s \in Senders
  PROVE  /\ NextQueueIndex(s) \in Indices(QueueSize)
         /\ Incremented(s) \in Indices(QueueSize)
         /\ SendSlot(s) \in Slots
  <1>1. s \in Actors /\ loc[s].next \in QueueIndices
    BY DEF TypeInv, LocalInv, Locals, Actors
  <1>2. NextQueueIndex(s) \in Indices(QueueSize)
    BY <1>1, IndicesFacts DEF NextQueueIndex, ZeroOrValid, Valid, QueueIndices
  <1>3. 1 \in Word
    BY WidthAssumption DEF Word
  <1>4. Incremented(s) \in Indices(QueueSize)
    BY <1>2, <1>3, Sizes, IncrementIsModular DEF Incremented
  <1>5. SendSlot(s) \in Slots
    BY <1>2, Sizes, IndicesFacts, WrappedRange DEF SendSlot, Slots
  <1> QED
    BY <1>2, <1>4, <1>5

(***************************************************************************)
(* Types: the initial state, then one step per action.                     *)
(***************************************************************************)
LEMMA NoLocalsType == \A s \in Senders \cup {0} : NoLocals(s) \in Locals
  <1>1. Sentinel \in QueueIndices /\ InvalidIndex \in MaybeIndex
    BY DEF QueueIndices, MaybeIndex
  <1> QED
    BY <1>1 DEF NoLocals, Locals

LEMMA TypeInit == Init => TypeInv
  <1> SUFFICES ASSUME Init PROVE TypeInv
    OBVIOUS
  <1> USE DEF Init, InitMemory
  <1>1. queue \in [Slots -> Index]
    <2> SUFFICES ASSUME NEW i \in Slots
                 PROVE MkIndex(DecrementBy(IncrementBy(0, i, QueueSize),
                                           QueueSize, QueueSize), i) \in Index
      OBVIOUS
    <2>1. i \in Word /\ i \in Messages /\ QueueSize \in 0 .. QueueSize
      BY Sizes DEF Slots, Word, Messages, NumMessages
    <2>2. IncrementBy(0, i, QueueSize) \in Indices(QueueSize)
      BY <2>1, Sizes, IndicesFacts, IncrementIsModular
    <2>3. DecrementBy(IncrementBy(0, i, QueueSize), QueueSize, QueueSize)
            \in Indices(QueueSize)
      BY <2>1, <2>2, Sizes, DecrementIsModular
    <2> QED
      BY <2>1, <2>3, IndicesFacts, IndexFacts
  <1>2. sender \in [Senders -> [scratch : Index, to_replace : MaybeIndex]]
    <2>1. \A s \in Senders : MkIndex(LowModulus - 1, s + QueueSize) \in Index
      <3> SUFFICES ASSUME NEW s \in Senders
                   PROVE MkIndex(LowModulus - 1, s + QueueSize) \in Index
        OBVIOUS
      <3>1. s + QueueSize \in Messages /\ LowModulus - 1 \in Nat
        BY Sizes DEF Senders, Messages, NumMessages
      <3> QED
        BY <3>1, IndexFacts
    <2> QED
      BY <2>1 DEF MaybeIndex
  <1>3. pinner \in [Pinners -> [scratch : Index, pinned : QueueIndices]]
    <2>1. \A p \in Pinners :
            MkIndex(LowModulus - 1, p + NumSenders + QueueSize) \in Index
      <3> SUFFICES ASSUME NEW p \in Pinners
                   PROVE MkIndex(LowModulus - 1, p + NumSenders + QueueSize)
                           \in Index
        OBVIOUS
      <3>1. p + NumSenders + QueueSize \in Messages /\ LowModulus - 1 \in Nat
        BY Sizes DEF Pinners, Messages, NumMessages
      <3> QED
        BY <3>1, IndexFacts
    <2> QED
      BY <2>1 DEF QueueIndices
  <1>4. TypeOK
    BY <1>1, <1>2, <1>3 DEF TypeOK, QueueIndices
  <1>5. loc \in [Actors -> Locals]
    BY NoLocalsType DEF Actors
  <1>6. \A s \in Senders : LocalState(s)
    BY DEF LocalState, NoLocals, Actors, Replacing, Offering, Swapping
  <1>7. pc \in [Actors -> Labels]
    BY DEF Labels
  <1>8. log \in Seq([queue_index : Nat, data : Nat, time : Nat])
    OBVIOUS
  <1> QED
    BY <1>4, <1>5, <1>6, <1>7, <1>8
       DEF TypeInv, LocalInv, LogInv, LocalInv, LogInv, LocalInv, LogInv

\* A step that leaves the shared memory alone.
LEMMA MemorySame ==
  ASSUME TypeOK, UNCHANGED <<memoryVars, unflushed, sends, swapped>>
  PROVE  TypeOK'
  BY DEF TypeOK, memoryVars

\* A step that takes one sender to a label, with new locals.
LEMMA LocalStep ==
  ASSUME LocalInv, NEW s \in Senders, NEW label \in Labels,
         NEW locals \in Locals,
         pc' = [pc EXCEPT ![s] = label], loc' = [loc EXCEPT ![s] = locals],
         locals.slot = s,
         label \in Replacing => locals.to_replace \in Index,
         label \in Offering => locals.pinner_scratch \in Index,
         label \in Swapping => NumPinners > 0
  PROVE  LocalInv'
  <1>1. s \in Actors /\ pc' \in [Actors -> Labels] /\ loc' \in [Actors -> Locals]
    BY DEF LocalInv, Actors
  <1>2. ASSUME NEW t \in Senders PROVE LocalState(t)'
    <2>1. t \in Actors
      BY DEF Actors
    <2>2. CASE t = s
      <3>1. pc'[t] = label /\ loc'[t] = locals
        BY <1>1, <2>2 DEF LocalInv
      <3> QED
        BY <3>1, <2>2 DEF LocalState
    <2>3. CASE t # s
      <3>1. pc'[t] = pc[t] /\ loc'[t] = loc[t]
        BY <2>1, <2>3 DEF LocalInv
      <3> QED
        BY <3>1 DEF LocalState, LocalInv
    <2> QED
      BY <2>2, <2>3
  <1> QED
    BY <1>1, <1>2 DEF LocalInv

\* IsPinned, on a sender's own scratch message or on a pinner's.
LEMMA IsPinnedType ==
  ASSUME TypeOK, LocalInv, NEW s \in Senders,
         NEW scan \in {"own_scan", "their_scan"},
         NEW unpinned \in {"invalidate", "offer"},
         unpinned = "offer" => NumPinners > 0,
         scan = "their_scan" \/ unpinned = "offer"
           => loc[s].pinner_scratch \in Index
  PROVE  /\ \A x \in Index : IsPinnedLoad(s, x, scan, unpinned) => LocalInv'
         /\ \A pinned \in {"load_pinner", "own_load"}, k \in Pinners \cup {0} :
              NumPinners > 0 /\ IsPinnedScan(s, scan, unpinned, pinned, k)
                => LocalInv'
  <1> DEFINE Step(label, locals) == /\ pc' = [pc EXCEPT ![s] = label]
                                    /\ loc' = [loc EXCEPT ![s] = locals]
  <1>0. s \in Actors /\ loc[s] \in Locals /\ LocalState(s)
    BY DEF LocalInv, Actors
  <1>1. ASSUME NEW locals \in Locals, locals.slot = s,
               locals.pinner_scratch = loc[s].pinner_scratch,
               NEW label \in {"own_scan", "their_scan", "invalidate", "offer",
                              "load_pinner", "own_load"},
               label \in {"their_scan", "offer"}
                 => locals.pinner_scratch \in Index,
               label \in {"own_scan", "their_scan", "offer", "load_pinner"}
                 => NumPinners > 0,
               Step(label, locals)
        PROVE  LocalInv'
    <2>1. /\ label \in Labels /\ label \notin Replacing
          /\ label \in Offering => label \in {"their_scan", "offer"}
          /\ label \in Swapping => label \notin {"invalidate", "own_load"}
      BY DEF Labels, BeforeExchange, Swapped, Swapping, Recorded, Replacing,
             Offering
    <2>2. label \in Offering => locals.pinner_scratch \in Index
      BY <1>1, <2>1
    <2>3. label \in Swapping => NumPinners > 0
      BY <1>1, <2>1
    <2> QED
      BY Zenon, <1>1, <2>1, <2>2, <2>3, LocalStep
  <1>2. ASSUME NEW x \in Index, IsPinnedLoad(s, x, scan, unpinned)
        PROVE  LocalInv'
    <2> DEFINE q == message[x.m].queue_index
               label == IF Valid(q) /\ NumPinners > 0 THEN scan ELSE unpinned
               locals == [loc[s] EXCEPT !.message_index = q, !.scan = 0]
    <2>1. q \in QueueIndices
      BY IndexFacts DEF TypeOK
    <2>2. /\ locals \in Locals /\ locals.slot = s
          /\ locals.pinner_scratch = loc[s].pinner_scratch
      BY Zenon, <1>0, <2>1 DEF Locals, LocalState
    <2>3. Step(label, locals)
      BY Zenon, <1>0, <1>2 DEF IsPinnedLoad, Goto, LocalInv
    <2>4. /\ label \in {scan, unpinned}
          /\ label = scan => NumPinners > 0
      OBVIOUS
    <2> HIDE DEF label, locals, Step, q
    <2> QED
      BY <1>1, <2>2, <2>3, <2>4
  <1>3. ASSUME NEW pinned \in {"load_pinner", "own_load"},
               NEW j \in Pinners \cup {0}, NumPinners > 0,
               IsPinnedScan(s, scan, unpinned, pinned, j)
        PROVE  LocalInv'
    <2> DEFINE k == loc[s].scan
               hit == pinner[k].pinned = loc[s].message_index
               label == IF hit THEN pinned
                        ELSE IF k + 1 = NumPinners THEN unpinned ELSE scan
               locals == IF hit THEN [loc[s] EXCEPT !.pinner_index = j]
                         ELSE [loc[s] EXCEPT !.scan = (k + 1) % NumPinners]
    <2>1. (k + 1) % NumPinners \in Pinners
      <3>1. PICK n \in Int : n = k + 1
        BY <1>0, Sizes DEF Locals, Pinners
      <3>2. NumPinners \in Nat \ {0}
        BY <1>3, Sizes
      <3> QED
        BY Zenon, <3>1, <3>2, ModRange DEF Pinners
    <2>2. /\ locals \in Locals /\ locals.slot = s
          /\ locals.pinner_scratch = loc[s].pinner_scratch
      BY <1>0, <1>3, <2>1 DEF Locals, LocalState
    <2>3. Step(label, locals)
      BY Zenon, <1>0, <1>3 DEF IsPinnedScan, Goto, LocalInv
    <2>4. label \in {scan, unpinned, pinned}
      OBVIOUS
    <2> HIDE DEF label, locals, Step
    <2> QED
      BY <1>1, <1>3, <2>2, <2>3, <2>4
  <1> QED
    BY <1>2, <1>3

LEMMA SwapType ==
  ASSUME TypeInv, NEW s \in Senders, SwapPinnedSenderScratch(s)
  PROVE  TypeInv'
  <1>0. /\ s \in Actors /\ TypeOK /\ LocalInv /\ LogInv
        /\ pc[s] \in Labels /\ loc[s] \in Locals /\ LocalState(s)
        /\ Slot(s) = s /\ SwapReturn(s) = "invalidate"
    BY DEF TypeInv, LocalInv, Actors, Slot, LocalState, SwapReturn
  <1>a. Scratch(s) \in Index /\ Scratch(s).m \in Messages
    BY <1>0, IndexFacts DEF TypeOK, Scratch
  <1>b. pc[s] \in Swapping => /\ NumPinners > 0
                              /\ loc[s].pinner_index \in Pinners
                              /\ NextPinner(s) \in Pinners
    <2> SUFFICES ASSUME pc[s] \in Swapping
                 PROVE  /\ NumPinners > 0
                        /\ loc[s].pinner_index \in Pinners
                        /\ NextPinner(s) \in Pinners
      OBVIOUS
    <2>1. NumPinners \in Nat \ {0} /\ loc[s].pinner_index \in Pinners
      BY <1>0, Sizes DEF LocalState, Locals, Pinners
    <2>2. PICK n \in Int : n = loc[s].pinner_index + 1
      BY <2>1, Sizes DEF Pinners
    <2>3. n % NumPinners \in Pinners
      BY <2>1, ModRange DEF Pinners
    <2> QED
      BY <2>1, <2>2, <2>3 DEF NextPinner
  <1>1. CASE OwnLoad(s)
    <2>1. TypeOK' /\ LogInv'
      BY <1>0, <1>1, MemorySame DEF OwnLoad, readSide, LogInv
    <2>2. LocalInv'
      BY <1>0, <1>a, <1>1, IsPinnedType DEF OwnLoad
    <2> QED
      BY <2>1, <2>2 DEF TypeInv
  <1>2. CASE OwnScan(s)
    <2>1. TypeOK' /\ LogInv'
      BY <1>0, <1>2, MemorySame DEF OwnScan, readSide, LogInv
    <2>2. LocalInv'
      <3>1. NumPinners > 0 /\ loc[s].pinner_index \in Pinners \cup {0}
        BY <1>b, <1>2 DEF OwnScan, Swapping
      <3> QED
        BY <1>0, <1>2, <3>1, IsPinnedType DEF OwnScan
    <2> QED
      BY <2>1, <2>2 DEF TypeInv
  <1>3. CASE LoadPinner(s)
    <2>1. TypeOK' /\ LogInv'
      BY <1>0, <1>3, MemorySame DEF LoadPinner, readSide, LogInv
    <2>2. LocalInv'
      <3> DEFINE locals == [loc[s] EXCEPT
                              !.pinner_scratch = pinner[loc[s].pinner_index].scratch]
      <3>1. locals \in Locals /\ locals.slot = s
        BY Zenon, <1>0, <1>a, <1>b, <1>3
           DEF LoadPinner, Locals, LocalState, TypeOK, MaybeIndex, Swapping,
               Offering
      <3>2. "their_load" \in Offering => locals.pinner_scratch \in Index
        BY <1>0, <1>b, <1>3
           DEF LoadPinner, LocalState, Offering, Swapping, TypeOK, Locals
      <3>3. "their_load" \in Swapping => NumPinners > 0
        BY <1>b, <1>3 DEF LoadPinner, Offering, Swapping
      <3>4. "their_load" \in Labels /\ "their_load" \notin Replacing
        BY DEF Labels, BeforeExchange, Swapped, Swapping, Recorded, Replacing,
               Offering
      <3>5. pc' = [pc EXCEPT ![s] = "their_load"] /\ loc' = [loc EXCEPT ![s] = locals]
        BY <1>0, <1>3 DEF LoadPinner, Goto, LocalInv
      <3> HIDE DEF locals
      <3> QED
        BY Zenon, <1>0, <3>1, <3>2, <3>3, <3>4, <3>5, LocalStep
    <2> QED
      BY <2>1, <2>2 DEF TypeInv
  <1>4. CASE TheirLoad(s)
    <2>1. TypeOK' /\ LogInv'
      BY <1>0, <1>4, MemorySame DEF TheirLoad, readSide, LogInv
    <2>2. LocalInv'
      <3>1. NumPinners > 0 /\ loc[s].pinner_scratch \in Index
        BY <1>0, <1>b, <1>4 DEF TheirLoad, LocalState, Offering, Swapping
      <3> QED
        BY <1>0, <1>4, <3>1, IsPinnedType DEF TheirLoad
    <2> QED
      BY <2>1, <2>2 DEF TypeInv
  <1>5. CASE TheirScan(s)
    <2>1. TypeOK' /\ LogInv'
      BY <1>0, <1>5, MemorySame DEF TheirScan, readSide, LogInv
    <2>2. LocalInv'
      <3>1. /\ NumPinners > 0 /\ loc[s].pinner_scratch \in Index
            /\ NextPinner(s) \in Pinners
        BY <1>0, <1>b, <1>5 DEF TheirScan, LocalState, Offering, Swapping
      <3> QED
        BY <1>0, <1>5, <3>1, IsPinnedType DEF TheirScan
    <2> QED
      BY <2>1, <2>2 DEF TypeInv
  <1>6. CASE Offer(s)
    <2>1. TypeOK' /\ LogInv'
      BY ZenonT(60), <1>0, <1>a, <1>b, <1>6
         DEF Offer, TypeOK, MaybeIndex, LocalState, Offering, Swapping,
             readSide, LogInv
    <2>2. LocalInv'
      <3> DEFINE locals == loc[s]
      <3>1. locals \in Locals /\ locals.slot = s
        BY <1>0, <1>a, <1>b, <1>6
           DEF Offer, Locals, LocalState, TypeOK, MaybeIndex, Swapping, Offering
      <3>2. "exchange_pinner" \in Offering => locals.pinner_scratch \in Index
        BY <1>0, <1>b, <1>6
           DEF Offer, LocalState, Offering, Swapping, TypeOK, Locals
      <3>3. "exchange_pinner" \in Swapping => NumPinners > 0
        BY <1>b, <1>6 DEF Offer, Offering, Swapping
      <3>4. "exchange_pinner" \in Labels /\ "exchange_pinner" \notin Replacing
        BY DEF Labels, BeforeExchange, Swapped, Swapping, Recorded, Replacing,
               Offering
      <3>5. pc' = [pc EXCEPT ![s] = "exchange_pinner"] /\ loc' = [loc EXCEPT ![s] = locals]
        BY <1>0, <1>6 DEF Offer, Goto, LocalInv
      <3> HIDE DEF locals
      <3> QED
        BY Zenon, <1>0, <3>1, <3>2, <3>3, <3>4, <3>5, LocalStep
    <2> QED
      BY <2>1, <2>2 DEF TypeInv
  <1>7. CASE ExchangePinner(s)
    <2>1. TypeOK' /\ LogInv'
      BY ZenonT(60), <1>0, <1>a, <1>b, <1>7
         DEF ExchangePinner, TypeOK, MaybeIndex, LocalState, Offering, Swapping,
             readSide, LogInv
    <2>2. LocalInv'
      <3> DEFINE locals == loc[s]
      <3>1. locals \in Locals /\ locals.slot = s
        BY <1>0, <1>a, <1>b, <1>7
           DEF ExchangePinner, Locals, LocalState, TypeOK, MaybeIndex, Swapping,
               Offering
      <3>2. "take_offered" \in Offering => locals.pinner_scratch \in Index
        BY <1>0, <1>b, <1>7
           DEF ExchangePinner, LocalState, Offering, Swapping, TypeOK, Locals
      <3>3. "take_offered" \in Swapping => NumPinners > 0
        BY <1>b, <1>7 DEF ExchangePinner, Offering, Swapping
      <3>4. "take_offered" \in Labels /\ "take_offered" \notin Replacing
        BY DEF Labels, BeforeExchange, Swapped, Swapping, Recorded, Replacing,
               Offering
      <3>5. pc' = [pc EXCEPT ![s] = "take_offered"] /\ loc' = [loc EXCEPT ![s] = locals]
        BY <1>0, <1>7 DEF ExchangePinner, Goto, LocalInv
      <3> HIDE DEF locals
      <3> QED
        BY Zenon, <1>0, <3>1, <3>2, <3>3, <3>4, <3>5, LocalStep
    <2> QED
      BY <2>1, <2>2 DEF TypeInv
  <1>8. CASE ExchangePinnerFails(s)
    <2>1. TypeOK' /\ LogInv'
      BY Zenon, <1>0, <1>8, MemorySame DEF ExchangePinnerFails, readSide, LogInv
    <2>2. LocalInv'
      <3> DEFINE locals == loc[s]
      <3>1. locals \in Locals /\ locals.slot = s
        BY Zenon, <1>0, <1>a, <1>b, <1>8
           DEF ExchangePinnerFails, Locals, LocalState, TypeOK, MaybeIndex,
               Swapping, Offering
      <3>2. "withdraw" \in Offering => locals.pinner_scratch \in Index
        BY Zenon, <1>0, <1>b, <1>8
           DEF ExchangePinnerFails, LocalState, Offering, Swapping, TypeOK,
               Locals
      <3>3. "withdraw" \in Swapping => NumPinners > 0
        BY <1>b, <1>8 DEF ExchangePinnerFails, Offering, Swapping
      <3>4. "withdraw" \in Labels /\ "withdraw" \notin Replacing
        BY DEF Labels, BeforeExchange, Swapped, Swapping, Recorded, Replacing,
               Offering
      <3>5. pc' = [pc EXCEPT ![s] = "withdraw"] /\ loc' = [loc EXCEPT ![s] = locals]
        BY <1>0, <1>8 DEF ExchangePinnerFails, Goto, LocalInv
      <3> HIDE DEF locals
      <3> QED
        BY Zenon, <1>0, <3>1, <3>2, <3>3, <3>4, <3>5, LocalStep
    <2> QED
      BY <2>1, <2>2 DEF TypeInv
  <1>9. CASE Withdraw(s)
    <2>1. TypeOK' /\ LogInv'
      BY ZenonT(60), <1>0, <1>a, <1>b, <1>9
         DEF Withdraw, TypeOK, MaybeIndex, LocalState, Offering, Swapping,
             readSide, LogInv
    <2>2. LocalInv'
      <3> DEFINE locals == [loc[s] EXCEPT !.pinner_index = NextPinner(s)]
      <3>1. locals \in Locals /\ locals.slot = s
        BY Zenon, <1>0, <1>a, <1>b, <1>9
           DEF Withdraw, Locals, LocalState, TypeOK, MaybeIndex, Swapping,
               Offering
      <3>2. "own_load" \in Offering => locals.pinner_scratch \in Index
        BY <1>0, <1>b, <1>9
           DEF Withdraw, LocalState, Offering, Swapping, TypeOK, Locals
      <3>3. "own_load" \in Swapping => NumPinners > 0
        BY <1>b, <1>9 DEF Withdraw, Offering, Swapping
      <3>4. "own_load" \in Labels /\ "own_load" \notin Replacing
        BY DEF Labels, BeforeExchange, Swapped, Swapping, Recorded, Replacing,
               Offering
      <3>5. pc' = [pc EXCEPT ![s] = "own_load"] /\ loc' = [loc EXCEPT ![s] = locals]
        BY <1>0, <1>9 DEF Withdraw, Goto, LocalInv
      <3> HIDE DEF locals
      <3> QED
        BY Zenon, <1>0, <3>1, <3>2, <3>3, <3>4, <3>5, LocalStep
    <2> QED
      BY <2>1, <2>2 DEF TypeInv
  <1>10. CASE TakeOffered(s)
    <2>1. TypeOK' /\ LogInv'
      BY ZenonT(60), <1>0, <1>a, <1>b, <1>10
         DEF TakeOffered, TypeOK, MaybeIndex, LocalState, Offering, Swapping,
             readSide, LogInv
    <2>2. LocalInv'
      <3> DEFINE locals == loc[s]
      <3>1. locals \in Locals /\ locals.slot = s
        BY <1>0, <1>a, <1>b, <1>10
           DEF TakeOffered, Locals, LocalState, TypeOK, MaybeIndex, Swapping,
               Offering
      <3>2. "clear_offer" \in Offering => locals.pinner_scratch \in Index
        BY <1>0, <1>b, <1>10
           DEF TakeOffered, LocalState, Offering, Swapping, TypeOK, Locals
      <3>3. "clear_offer" \in Swapping => NumPinners > 0
        BY <1>b, <1>10 DEF TakeOffered, Offering, Swapping
      <3>4. "clear_offer" \in Labels /\ "clear_offer" \notin Replacing
        BY DEF Labels, BeforeExchange, Swapped, Swapping, Recorded, Replacing,
               Offering
      <3>5. pc' = [pc EXCEPT ![s] = "clear_offer"] /\ loc' = [loc EXCEPT ![s] = locals]
        BY <1>0, <1>10 DEF TakeOffered, Goto, LocalInv
      <3> HIDE DEF locals
      <3> QED
        BY Zenon, <1>0, <3>1, <3>2, <3>3, <3>4, <3>5, LocalStep
    <2> QED
      BY <2>1, <2>2 DEF TypeInv
  <1>11. CASE ClearOffer(s)
    <2>1. TypeOK' /\ LogInv'
      BY ZenonT(60), <1>0, <1>a, <1>b, <1>11
         DEF ClearOffer, TypeOK, MaybeIndex, LocalState, Offering, Swapping,
             readSide, LogInv
    <2>2. LocalInv'
      <3> DEFINE locals == loc[s]
      <3>1. locals \in Locals /\ locals.slot = s
        BY <1>0, <1>a, <1>b, <1>11
           DEF ClearOffer, Locals, LocalState, TypeOK, MaybeIndex, Swapping,
               Offering
      <3>2. "invalidate" \in Offering => locals.pinner_scratch \in Index
        BY <1>0, <1>b, <1>11
           DEF ClearOffer, LocalState, Offering, Swapping, TypeOK, Locals
      <3>3. "invalidate" \in Swapping => NumPinners > 0
        BY <1>b, <1>11 DEF ClearOffer, Offering, Swapping
      <3>4. "invalidate" \in Labels /\ "invalidate" \notin Replacing
        BY DEF Labels, BeforeExchange, Swapped, Swapping, Recorded, Replacing,
               Offering
      <3>5. pc' = [pc EXCEPT ![s] = "invalidate"] /\ loc' = [loc EXCEPT ![s] = locals]
        BY <1>0, <1>11 DEF ClearOffer, Goto, LocalInv
      <3> HIDE DEF locals
      <3> QED
        BY Zenon, <1>0, <3>1, <3>2, <3>3, <3>4, <3>5, LocalStep
    <2> QED
      BY <2>1, <2>2 DEF TypeInv
  <1> QED
    BY <1>1, <1>2, <1>3, <1>4, <1>5, <1>6, <1>7, <1>8, <1>9, <1>10, <1>11
       DEF SwapPinnedSenderScratch

LEMMA SendType ==
  ASSUME TypeInv, NEW s \in Senders, Fill(s) \/ Send(s)
  PROVE  TypeInv'
  <1> USE DEF Goto
  <1>0. /\ s \in Actors /\ TypeOK /\ LocalInv /\ LogInv
        /\ pc[s] \in Labels /\ loc[s] \in Locals /\ LocalState(s)
        /\ pc = [pc EXCEPT ![s] = pc[s]] /\ loc = [loc EXCEPT ![s] = loc[s]]
        /\ NoLocals(s) \in Locals /\ NoLocals(s).slot = s
    BY Zenon, NoLocalsType DEF TypeInv, LocalInv, Actors, NoLocals
  <1>a. Scratch(s) \in Index /\ Scratch(s).m \in Messages
    BY <1>0, IndexFacts DEF TypeOK, Scratch
  <1>b. /\ NextQueueIndex(s) \in Indices(QueueSize) /\ NextQueueIndex(s) \in Nat
        /\ Incremented(s) \in Indices(QueueSize)
        /\ SendSlot(s) \in Slots /\ queue[SendSlot(s)] \in Index
    BY <1>0, SendIndices, IndicesFacts DEF TypeOK
  <1>1. CASE Fill(s)
    <2>1. TypeOK' /\ LogInv'
      <3>1. sends + 1 \in Nat /\ sends' = sends + 1
        BY <1>0, <1>1 DEF Fill, TypeOK
      <3>2. message' = [message EXCEPT ![Scratch(s).m].data = sends + 1]
        BY <1>1 DEF Fill
      <3>3. message' \in [Messages -> [queue_index : QueueIndices, data : Nat,
                                      time : Nat]]
        BY <1>0, <1>a, <3>1, <3>2 DEF TypeOK
      <3> QED
        BY Zenon, <1>0, <1>1, <3>1, <3>3 DEF Fill, TypeOK, readSide, LogInv
    <2>2. LocalInv'
      <3> DEFINE label == "load_next"
                 locals == loc[s]
      <3>1. label \in Labels /\ locals \in Locals /\ locals.slot = s
        BY <1>0, <1>b
           DEF Locals, LocalState, TypeOK, MaybeIndex, Labels, BeforeExchange,
               Swapped, Swapping, Recorded, Replacing, Offering
      <3>2. /\ label \in Replacing => locals.to_replace \in Index
            /\ label \notin Swapping
        BY <1>0, <1>b, <1>1
           DEF Fill, LocalState, Locals, Replacing, Offering, Swapping
      <3>3. pc' = [pc EXCEPT ![s] = label] /\ loc' = [loc EXCEPT ![s] = locals]
        BY <1>0, <1>1 DEF Fill, LocalInv
      <3> HIDE DEF label, locals
      <3> QED
        BY Zenon, <1>0, <3>1, <3>2, <3>3, LocalStep DEF Swapping
    <2> QED
      BY <2>1, <2>2 DEF TypeInv
  <1>2. CASE LoadNext(s)
    <2>1. TypeOK' /\ LogInv'
      BY <1>0, <1>2, MemorySame DEF LoadNext, readSide, LogInv
    <2>2. LocalInv'
      <3> DEFINE label == "load_slot"
                 locals == [loc[s] EXCEPT !.next = next_queue_index]
      <3>1. label \in Labels /\ locals \in Locals /\ locals.slot = s
        BY Zenon, <1>0, <1>b
           DEF Locals, LocalState, TypeOK, MaybeIndex, Labels, BeforeExchange,
               Swapped, Swapping, Recorded, Replacing, Offering
      <3>2. /\ label \in Replacing => locals.to_replace \in Index
            /\ label \notin Swapping
        BY <1>0, <1>b, <1>2
           DEF LoadNext, LocalState, Locals, Replacing, Offering, Swapping
      <3>3. pc' = [pc EXCEPT ![s] = label] /\ loc' = [loc EXCEPT ![s] = locals]
        BY <1>0, <1>2 DEF LoadNext, LocalInv
      <3> HIDE DEF label, locals
      <3> QED
        BY Zenon, <1>0, <3>1, <3>2, <3>3, LocalStep DEF Swapping
    <2> QED
      BY <2>1, <2>2 DEF TypeInv
  <1>3. CASE LoadSlot(s)
    <2>1. TypeOK' /\ LogInv'
      BY <1>0, <1>3, MemorySame DEF LoadSlot, readSide, LogInv
    <2>2. LocalInv'
      <3> DEFINE label == IF IsPlausible(Decremented(s), queue[SendSlot(s)].q)
                           THEN "check_previous" ELSE "fix_next"
                 locals == [loc[s] EXCEPT !.to_replace = queue[SendSlot(s)]]
      <3>1. label \in Labels /\ locals \in Locals /\ locals.slot = s
        BY Zenon, <1>0, <1>b
           DEF Locals, LocalState, TypeOK, MaybeIndex, Labels, BeforeExchange,
               Swapped, Swapping, Recorded, Replacing, Offering
      <3>2. /\ label \in Replacing => locals.to_replace \in Index
            /\ label \notin Swapping
        BY <1>0, <1>b, <1>3
           DEF LoadSlot, LocalState, Locals, Replacing, Offering, Swapping
      <3>3. pc' = [pc EXCEPT ![s] = label] /\ loc' = [loc EXCEPT ![s] = locals]
        BY <1>0, <1>3 DEF LoadSlot, LocalInv
      <3> HIDE DEF label, locals
      <3> QED
        BY Zenon, <1>0, <3>1, <3>2, <3>3, LocalStep DEF Swapping
    <2> QED
      BY <2>1, <2>2 DEF TypeInv
  <1>4. CASE FixNext(s)
    <2>1. TypeOK' /\ LogInv'
      BY <1>0, <1>b, <1>4
         DEF FixNext, AdvanceNext, TypeOK, QueueIndices, readSide, LogInv
    <2>2. LocalInv'
      <3> DEFINE label == "load_next"
                 locals == NoLocals(s)
      <3>1. label \in Labels /\ locals \in Locals /\ locals.slot = s
        BY <1>0, <1>b
           DEF Locals, LocalState, TypeOK, MaybeIndex, Labels, BeforeExchange,
               Swapped, Swapping, Recorded, Replacing, Offering
      <3>2. /\ label \in Replacing => locals.to_replace \in Index
            /\ label \notin Swapping
        BY <1>0, <1>b, <1>4
           DEF FixNext, LocalState, Locals, Replacing, Offering, Swapping
      <3>3. pc' = [pc EXCEPT ![s] = label] /\ loc' = [loc EXCEPT ![s] = locals]
        BY <1>0, <1>4 DEF FixNext, LocalInv
      <3> HIDE DEF label, locals
      <3> QED
        BY Zenon, <1>0, <3>1, <3>2, <3>3, LocalStep DEF Swapping
    <2> QED
      BY <2>1, <2>2 DEF TypeInv
  <1>5. CASE CheckPrevious(s)
    <2>1. TypeOK' /\ LogInv'
      BY <1>0, <1>5, MemorySame DEF CheckPrevious, readSide, LogInv
    <2>2. LocalInv'
      <3>1. CASE pc' = [pc EXCEPT ![s] = "load_next"]
                 /\ loc' = [loc EXCEPT ![s] = NoLocals(s)]
        BY Zenon, <1>0, <3>1, LocalStep
             DEF Labels, BeforeExchange, Swapped, Swapping, Recorded, Replacing,
                 Offering
      <3>2. CASE pc' = [pc EXCEPT ![s] = "store_scratch"] /\ loc' = loc
        <4>1. loc[s].to_replace \in Index /\ loc[s].slot = s
          BY Zenon, <1>0, <1>5 DEF CheckPrevious, LocalState, Replacing
        <4>2. /\ "store_scratch" \in Labels
              /\ "store_scratch" \notin Swapping \cup Offering
          BY DEF Labels, BeforeExchange, Swapped, Swapping, Recorded, Replacing,
                 Offering
        <4>3. loc' = [loc EXCEPT ![s] = loc[s]]
          BY <1>0, <3>2
        <4> QED
          BY Zenon, <1>0, <3>2, <4>1, <4>2, <4>3, LocalStep
      <3> QED
        BY Zenon, <1>5, <3>1, <3>2 DEF CheckPrevious
    <2> QED
      BY <2>1, <2>2 DEF TypeInv
  <1>6. CASE StoreScratch(s)
    <2>1. TypeOK' /\ LogInv'
      <3>1. Len(log) \in Nat
        BY <1>0 DEF LogInv
      <3>2. MkIndex(NextQueueIndex(s), Scratch(s).m) \in Index
        BY <1>a, <1>b, IndexFacts
      <3> QED
        BY ZenonT(60), <1>0, <1>a, <1>6, <3>1, <3>2
           DEF StoreScratch, TypeOK, readSide, LogInv
    <2>2. LocalInv'
      <3> DEFINE label == "store_queue_index"
                 locals == loc[s]
      <3>1. label \in Labels /\ locals \in Locals /\ locals.slot = s
        BY <1>0, <1>b
           DEF Locals, LocalState, TypeOK, MaybeIndex, Labels, BeforeExchange,
               Swapped, Swapping, Recorded, Replacing, Offering
      <3>2. /\ label \in Replacing => locals.to_replace \in Index
            /\ label \notin Swapping
        BY <1>0, <1>b, <1>6
           DEF StoreScratch, LocalState, Locals, Replacing, Offering, Swapping
      <3>3. pc' = [pc EXCEPT ![s] = label] /\ loc' = [loc EXCEPT ![s] = locals]
        BY <1>0, <1>6 DEF StoreScratch, LocalInv
      <3> HIDE DEF label, locals
      <3> QED
        BY Zenon, <1>0, <3>1, <3>2, <3>3, LocalStep DEF Swapping
    <2> QED
      BY <2>1, <2>2 DEF TypeInv
  <1>7. CASE StoreQueueIndex(s)
    <2>1. TypeOK' /\ LogInv'
      BY ZenonT(60), <1>0, <1>a, <1>b, <1>7
         DEF StoreQueueIndex, TypeOK, QueueIndices, MaybeIndex, readSide, LogInv
    <2>2. LocalInv'
      <3> DEFINE label == "store_to_replace"
                 locals == loc[s]
      <3>1. label \in Labels /\ locals \in Locals /\ locals.slot = s
        BY <1>0, <1>b
           DEF Locals, LocalState, TypeOK, MaybeIndex, Labels, BeforeExchange,
               Swapped, Swapping, Recorded, Replacing, Offering
      <3>2. /\ label \in Replacing => locals.to_replace \in Index
            /\ label \notin Swapping
        BY <1>0, <1>b, <1>7
           DEF StoreQueueIndex, LocalState, Locals, Replacing, Offering,
               Swapping
      <3>3. pc' = [pc EXCEPT ![s] = label] /\ loc' = [loc EXCEPT ![s] = locals]
        BY <1>0, <1>7 DEF StoreQueueIndex, LocalInv
      <3> HIDE DEF label, locals
      <3> QED
        BY Zenon, <1>0, <3>1, <3>2, <3>3, LocalStep DEF Swapping
    <2> QED
      BY <2>1, <2>2 DEF TypeInv
  <1>8. CASE StoreToReplace(s)
    <2>1. TypeOK' /\ LogInv'
      <3>1. loc[s].to_replace \in Index
        BY <1>0, <1>8 DEF StoreToReplace, LocalState, Replacing
      <3> QED
        BY ZenonT(60), <1>0, <1>8, <3>1
           DEF StoreToReplace, TypeOK, MaybeIndex, readSide, LogInv
    <2>2. LocalInv'
      <3> DEFINE label == "exchange_slot"
                 locals == loc[s]
      <3>1. label \in Labels /\ locals \in Locals /\ locals.slot = s
        BY <1>0, <1>b
           DEF Locals, LocalState, TypeOK, MaybeIndex, Labels, BeforeExchange,
               Swapped, Swapping, Recorded, Replacing, Offering
      <3>2. /\ label \in Replacing => locals.to_replace \in Index
            /\ label \notin Swapping
        BY <1>0, <1>b, <1>8
           DEF StoreToReplace, LocalState, Locals, Replacing, Offering, Swapping
      <3>3. pc' = [pc EXCEPT ![s] = label] /\ loc' = [loc EXCEPT ![s] = locals]
        BY <1>0, <1>8 DEF StoreToReplace, LocalInv
      <3> HIDE DEF label, locals
      <3> QED
        BY Zenon, <1>0, <3>1, <3>2, <3>3, LocalStep DEF Swapping
    <2> QED
      BY <2>1, <2>2 DEF TypeInv
  <1>9. CASE ExchangeSlot(s)
    <2>1. TypeOK' /\ LogInv'
      BY SMTT(60), <1>0, <1>a, <1>b, <1>9
         DEF ExchangeSlot, TypeOK, QueueIndices, MaybeIndex, readSide, LogInv
    <2>2. LocalInv'
      <3> DEFINE label == "update_next"
                 locals == loc[s]
      <3>1. label \in Labels /\ locals \in Locals /\ locals.slot = s
        BY <1>0, <1>b
           DEF Locals, LocalState, TypeOK, MaybeIndex, Labels, BeforeExchange,
               Swapped, Swapping, Recorded, Replacing, Offering
      <3>2. /\ label \in Replacing => locals.to_replace \in Index
            /\ label \notin Swapping
        BY <1>0, <1>b, <1>9
           DEF ExchangeSlot, LocalState, Locals, Replacing, Offering, Swapping
      <3>3. pc' = [pc EXCEPT ![s] = label] /\ loc' = [loc EXCEPT ![s] = locals]
        BY <1>0, <1>9 DEF ExchangeSlot, LocalInv
      <3> HIDE DEF label, locals
      <3> QED
        BY Zenon, <1>0, <3>1, <3>2, <3>3, LocalStep DEF Swapping
    <2> QED
      BY <2>1, <2>2 DEF TypeInv
  <1>10. CASE ExchangeSlotFails(s)
    <2>1. TypeOK' /\ LogInv'
      BY <1>0, <1>10, MemorySame DEF ExchangeSlotFails, readSide, LogInv
    <2>2. LocalInv'
      <3> DEFINE label == "undo_to_replace"
                 locals == loc[s]
      <3>1. label \in Labels /\ locals \in Locals /\ locals.slot = s
        BY <1>0, <1>b
           DEF Locals, LocalState, TypeOK, MaybeIndex, Labels, BeforeExchange,
               Swapped, Swapping, Recorded, Replacing, Offering
      <3>2. /\ label \in Replacing => locals.to_replace \in Index
            /\ label \notin Swapping
        BY <1>0, <1>b, <1>10
           DEF ExchangeSlotFails, LocalState, Locals, Replacing, Offering,
               Swapping
      <3>3. pc' = [pc EXCEPT ![s] = label] /\ loc' = [loc EXCEPT ![s] = locals]
        BY <1>0, <1>10 DEF ExchangeSlotFails, LocalInv
      <3> HIDE DEF label, locals
      <3> QED
        BY Zenon, <1>0, <3>1, <3>2, <3>3, LocalStep DEF Swapping
    <2> QED
      BY <2>1, <2>2 DEF TypeInv
  <1>11. CASE UndoToReplace(s)
    <2>1. TypeOK' /\ LogInv'
      BY ZenonT(60), <1>0, <1>a, <1>b, <1>11
         DEF UndoToReplace, TypeOK, QueueIndices, MaybeIndex, readSide, LogInv
    <2>2. LocalInv'
      <3> DEFINE label == "load_next"
                 locals == NoLocals(s)
      <3>1. label \in Labels /\ locals \in Locals /\ locals.slot = s
        BY <1>0, <1>b
           DEF Locals, LocalState, TypeOK, MaybeIndex, Labels, BeforeExchange,
               Swapped, Swapping, Recorded, Replacing, Offering
      <3>2. /\ label \in Replacing => locals.to_replace \in Index
            /\ label \notin Swapping
        BY <1>0, <1>b, <1>11
           DEF UndoToReplace, LocalState, Locals, Replacing, Offering, Swapping
      <3>3. pc' = [pc EXCEPT ![s] = label] /\ loc' = [loc EXCEPT ![s] = locals]
        BY <1>0, <1>11 DEF UndoToReplace, LocalInv
      <3> HIDE DEF label, locals
      <3> QED
        BY Zenon, <1>0, <3>1, <3>2, <3>3, LocalStep DEF Swapping
    <2> QED
      BY <2>1, <2>2 DEF TypeInv
  <1>12. CASE UpdateNext(s)
    <2>1. TypeOK' /\ LogInv'
      BY <1>0, <1>b, <1>12
         DEF UpdateNext, AdvanceNext, TypeOK, QueueIndices, readSide, LogInv
    <2>2. LocalInv'
      <3> DEFINE label == "take_replaced"
                 locals == loc[s]
      <3>1. label \in Labels /\ locals \in Locals /\ locals.slot = s
        BY <1>0, <1>b
           DEF Locals, LocalState, TypeOK, MaybeIndex, Labels, BeforeExchange,
               Swapped, Swapping, Recorded, Replacing, Offering
      <3>2. /\ label \in Replacing => locals.to_replace \in Index
            /\ label \notin Swapping
        BY <1>0, <1>b, <1>12
           DEF UpdateNext, LocalState, Locals, Replacing, Offering, Swapping
      <3>3. pc' = [pc EXCEPT ![s] = label] /\ loc' = [loc EXCEPT ![s] = locals]
        BY <1>0, <1>12 DEF UpdateNext, LocalInv
      <3> HIDE DEF label, locals
      <3> QED
        BY Zenon, <1>0, <3>1, <3>2, <3>3, LocalStep DEF Swapping
    <2> QED
      BY <2>1, <2>2 DEF TypeInv
  <1>13. CASE TakeReplaced(s)
    <2>1. TypeOK' /\ LogInv'
      <3>1. loc[s].to_replace \in Index
        BY <1>0, <1>13 DEF TakeReplaced, LocalState, Replacing
      <3> QED
        BY ZenonT(60), <1>0, <1>13, <3>1
           DEF TakeReplaced, TypeOK, MaybeIndex, readSide, LogInv
    <2>2. LocalInv'
      <3> DEFINE label == "clear_to_replace"
                 locals == loc[s]
      <3>1. label \in Labels /\ locals \in Locals /\ locals.slot = s
        BY <1>0, <1>b
           DEF Locals, LocalState, TypeOK, MaybeIndex, Labels, BeforeExchange,
               Swapped, Swapping, Recorded, Replacing, Offering
      <3>2. /\ label \in Replacing => locals.to_replace \in Index
            /\ label \notin Swapping
        BY <1>0, <1>b, <1>13
           DEF TakeReplaced, LocalState, Locals, Replacing, Offering, Swapping
      <3>3. pc' = [pc EXCEPT ![s] = label] /\ loc' = [loc EXCEPT ![s] = locals]
        BY <1>0, <1>13 DEF TakeReplaced, LocalInv
      <3> HIDE DEF label, locals
      <3> QED
        BY Zenon, <1>0, <3>1, <3>2, <3>3, LocalStep DEF Swapping
    <2> QED
      BY <2>1, <2>2 DEF TypeInv
  <1>14. CASE ClearToReplace(s)
    <2>1. TypeOK' /\ LogInv'
      BY ZenonT(60), <1>0, <1>a, <1>b, <1>14
         DEF ClearToReplace, TypeOK, QueueIndices, MaybeIndex, readSide, LogInv
    <2>2. LocalInv'
      <3> DEFINE label == "own_load"
                 locals == NoLocals(s)
      <3>1. label \in Labels /\ locals \in Locals /\ locals.slot = s
        BY <1>0, <1>b
           DEF Locals, LocalState, TypeOK, MaybeIndex, Labels, BeforeExchange,
               Swapped, Swapping, Recorded, Replacing, Offering
      <3>2. /\ label \in Replacing => locals.to_replace \in Index
            /\ label \notin Swapping
        BY <1>0, <1>b, <1>14
           DEF ClearToReplace, LocalState, Locals, Replacing, Offering, Swapping
      <3>3. pc' = [pc EXCEPT ![s] = label] /\ loc' = [loc EXCEPT ![s] = locals]
        BY <1>0, <1>14 DEF ClearToReplace, LocalInv
      <3> HIDE DEF label, locals
      <3> QED
        BY Zenon, <1>0, <3>1, <3>2, <3>3, LocalStep DEF Swapping
    <2> QED
      BY <2>1, <2>2 DEF TypeInv
  <1>15. CASE Invalidate(s)
    <2>1. TypeOK' /\ LogInv'
      BY ZenonT(60), <1>0, <1>a, <1>b, <1>15
         DEF Invalidate, TypeOK, QueueIndices, MaybeIndex, readSide, LogInv
    <2>2. LocalInv'
      <3> DEFINE label == "idle"
                 locals == NoLocals(s)
      <3>1. label \in Labels /\ locals \in Locals /\ locals.slot = s
        BY <1>0, <1>b
           DEF Locals, LocalState, TypeOK, MaybeIndex, Labels, BeforeExchange,
               Swapped, Swapping, Recorded, Replacing, Offering
      <3>2. /\ label \in Replacing => locals.to_replace \in Index
            /\ label \notin Swapping
        BY <1>0, <1>b, <1>15
           DEF Invalidate, LocalState, Locals, Replacing, Offering, Swapping
      <3>3. pc' = [pc EXCEPT ![s] = label] /\ loc' = [loc EXCEPT ![s] = locals]
        BY <1>0, <1>15 DEF Invalidate, LocalInv
      <3> HIDE DEF label, locals
      <3> QED
        BY Zenon, <1>0, <3>1, <3>2, <3>3, LocalStep DEF Swapping
    <2> QED
      BY <2>1, <2>2 DEF TypeInv
  <1> QED
    BY <1>1, <1>2, <1>3, <1>4, <1>5, <1>6, <1>7, <1>8, <1>9, <1>10, <1>11,
       <1>12, <1>13, <1>14, <1>15, SwapType
       DEF Send

\* Indices somebody asks for are indices of the queue.
LEMMA AskedType ==
  ASSUME LogInv, NEW ahead \in Nat
  PROVE  Asked(ahead) \subseteq Indices(QueueSize)
  <1>1. Len(log) \in Nat
    BY DEF LogInv
  <1>2. \A n \in 0 .. Len(log) + ahead - 1 : n \in Nat
    BY <1>1
  <1> QED
    BY <1>2, Sizes, IncrementRange DEF Asked

\* Pinners and readers write no more than a pin.
LEMMA PinType ==
  ASSUME TypeInv, NEW p \in Pinners,
         (\E q \in Asked(1) : PinStore(p, q)) \/ PinIndex(p) \/ Data(p)
  PROVE  TypeInv'
  <1>0. TypeOK /\ LogInv
    BY DEF TypeInv
  <1>1. UNCHANGED <<pc, loc, sends, log, swapped>>
    BY DEF PinStore, PinIndex, PinLoadSlot, PinCheck, Unpin, Flush, Data,
           sendSide
  <1>2. LocalInv' /\ LogInv'
    BY Zenon, <1>1 DEF TypeInv, LocalInv, LocalState, LogInv
  <1>3. ASSUME NEW q \in Asked(1), PinStore(p, q) PROVE TypeOK'
    <2>1. q \in QueueIndices
      BY <1>0, AskedType DEF QueueIndices
    <2> QED
      BY <1>0, <1>1, <1>3, <2>1 DEF PinStore, TypeOK, memoryVars
  <1>4. ASSUME Flush(p) PROVE TypeOK'
    <2>1. unflushed[p] \in QueueIndices /\ Sentinel \in QueueIndices
      BY <1>0 DEF TypeOK, QueueIndices
    <2>2. pinner' \in [Pinners -> [scratch : Index, pinned : QueueIndices]]
      BY <1>0, <1>4, <2>1 DEF Flush, TypeOK
    <2>3. unflushed' \in [Pinners -> QueueIndices]
      BY <1>0, <1>4, <2>1 DEF Flush, TypeOK
    <2> QED
      BY <1>0, <1>1, <1>4, <2>2, <2>3 DEF Flush, TypeOK
  <1>5. ASSUME Unpin(p) PROVE TypeOK'
    BY <1>0, <1>1, <1>5 DEF Unpin, TypeOK, QueueIndices
  <1>6. ASSUME PinLoadSlot(p) \/ PinCheck(p) \/ Data(p) PROVE TypeOK'
    BY <1>0, <1>1, <1>6, MemorySame DEF PinLoadSlot, PinCheck, Data
  <1> QED
    BY <1>2, <1>3, <1>4, <1>5, <1>6 DEF TypeInv, PinIndex

LEMMA TypeSame ==
  ASSUME TypeInv, UNCHANGED <<memoryVars, unflushed, sendSide>>
  PROVE  TypeInv'
  BY Zenon, MemorySame DEF TypeInv, LocalInv, LocalState, LogInv, sendSide

LEMMA TypeStep == TypeInv /\ [Next]_vars => TypeInv'
  <1> SUFFICES ASSUME TypeInv, [Next]_vars PROVE TypeInv'
    OBVIOUS
  <1>1. ASSUME NEW s \in Senders, Fill(s) \/ Send(s) PROVE TypeInv'
    BY <1>1, SendType
  <1>2. ASSUME NEW p \in Pinners,
               (\E q \in Asked(1) : PinStore(p, q)) \/ PinIndex(p) \/ Data(p)
        PROVE  TypeInv'
    BY <1>2, PinType
  <1>3. ASSUME NEW r \in Readers,
               (\E q \in Asked(ReadAhead) : ReadStart(r, q)) \/ Read(r)
        PROVE  TypeInv'
    BY Zenon, <1>3, TypeSame DEF ReadStart, Read, ReadCheck, ReadReload,
         ReadCopyHeader, ReadCopyData, ReadConfirm
  <1>4. ASSUME UNCHANGED vars PROVE TypeInv'
    BY <1>4, TypeSame DEF vars, sendSide
  <1> QED
    BY <1>1, <1>2, <1>3, <1>4 DEF Next

\* The shared memory always has its type: no Index in the queue, in a sender's
\* scratch_index or in a pinner's is ever the invalid one, and no stored queue
\* index leaves the range that QueueIndex wraps to.
THEOREM TypeCorrect == Spec => []TypeOK
  <1>1. Spec => []TypeInv
    BY TypeInit, TypeStep, PTL DEF Spec
  <1>2. TypeInv => TypeOK
    BY DEF TypeInv
  <1> QED
    BY <1>1, <1>2, PTL

(***************************************************************************)
(* Ownership.  The part of the inductive invariant about one sender: the   *)
(* state of its entry, and that its locals agree with it.                  *)
(***************************************************************************)
EntryState(s) ==
  /\ pc[s] \in Announced => /\ sender[s].to_replace \in Index
                            /\ sender[s].to_replace # sender[s].scratch
  /\ pc[s] \in Recorded => sender[s].to_replace = sender[s].scratch
  /\ pc[s] \notin Announced \cup Recorded =>
       sender[s].to_replace = InvalidIndex
  /\ swapped[s] <=> pc[s] \in Swapped
  /\ pc[s] \in {"exchange_slot", "update_next", "take_replaced"} =>
       sender[s].to_replace = loc[s].to_replace
  /\ pc[s] \in {"exchange_pinner", "take_offered"} =>
       sender[s].to_replace = loc[s].pinner_scratch
  /\ pc[s] \in Replacing => loc[s].to_replace.m # sender[s].scratch.m
  /\ pc[s] \in Offering => loc[s].pinner_scratch.m # sender[s].scratch.m

OwnInv == Ownership /\ \A s \in Senders : EntryState(s)

LEMMA OwnInit == Init => OwnInv
  <1> SUFFICES ASSUME Init PROVE OwnInv
    OBVIOUS
  <1>1. TypeOK
    BY TypeInit DEF TypeInv
  <1>2. \A i \in Slots : queue[i].m = i
    BY Zenon DEF Init, InitMemory, MkIndex
  <1>3. \A s \in Senders : Held(s) = s + QueueSize
    BY Zenon DEF Init, InitMemory, MkIndex, Held
  <1>4. \A p \in Pinners : pinner[p].scratch.m = p + NumSenders + QueueSize
    BY Zenon DEF Init, InitMemory, MkIndex
  <1>5. Ownership
    BY <1>2, <1>3, <1>4, Sizes DEF Ownership, Slots, Senders, Pinners
  <1>6. \A s \in Senders : EntryState(s)
    BY Zenon DEF Init, InitMemory, EntryState, Announced, Recorded, Swapped,
         Replacing, Offering, Actors
  <1> QED
    BY <1>5, <1>6 DEF OwnInv

\* A step that moves no message.
LEMMA OwnershipSame ==
  ASSUME Ownership,
         \A i \in Slots : queue'[i].m = queue[i].m,
         \A s \in Senders : Held(s)' = Held(s),
         \A p \in Pinners : pinner'[p].scratch.m = pinner[p].scratch.m
  PROVE  Ownership'
  BY SMTT(60) DEF Ownership

\* A sender's message and the one in a slot change places.
LEMMA OwnershipSlot ==
  ASSUME Ownership, NEW s \in Senders, NEW k \in Slots,
         queue'[k].m = Held(s), Held(s)' = queue[k].m,
         \A i \in Slots : i # k => queue'[i].m = queue[i].m,
         \A t \in Senders : t # s => Held(t)' = Held(t),
         \A p \in Pinners : pinner'[p].scratch.m = pinner[p].scratch.m
  PROVE  Ownership'
  BY SMTT(60) DEF Ownership

\* A sender's message and a pinner's change places.
LEMMA OwnershipPinner ==
  ASSUME Ownership, NEW s \in Senders, NEW k \in Pinners,
         pinner'[k].scratch.m = Held(s), Held(s)' = pinner[k].scratch.m,
         \A p \in Pinners :
           p # k => pinner'[p].scratch.m = pinner[p].scratch.m,
         \A t \in Senders : t # s => Held(t)' = Held(t),
         \A i \in Slots : queue'[i].m = queue[i].m
  PROVE  Ownership'
  BY SMTT(60) DEF Ownership

\* What a step of one sender leaves alone.
LEMMA OtherSenders ==
  ASSUME TypeInv, OwnInv, NEW s \in Senders, EntryState(s)',
         \A t \in Senders : t # s => /\ pc'[t] = pc[t] /\ loc'[t] = loc[t]
                                     /\ sender'[t] = sender[t]
                                     /\ swapped'[t] = swapped[t]
  PROVE  /\ \A t \in Senders : EntryState(t)'
         /\ \A t \in Senders : t # s => Held(t)' = Held(t)
  <1>1. ASSUME NEW t \in Senders, t # s PROVE EntryState(t)'
    BY SMTT(60), <1>1 DEF EntryState, OwnInv
  <1> QED
    BY <1>1 DEF Held

LEMMA SwapOwn ==
  ASSUME TypeInv, OwnInv, NEW s \in Senders, SwapPinnedSenderScratch(s)
  PROVE  OwnInv'
  <1> USE DEF Goto
  <1>0. /\ s \in Actors /\ TypeOK /\ LocalInv /\ LogInv
        /\ pc \in [Actors -> Labels] /\ loc \in [Actors -> Locals]
        /\ loc[s] \in Locals /\ LocalState(s) /\ EntryState(s) /\ Ownership
        /\ Slot(s) = s /\ \A t \in Senders : t \in Actors
    BY Zenon DEF TypeInv, LocalInv, OwnInv, Actors, Slot, LocalState
  <1>a. Scratch(s) \in Index /\ Scratch(s).m \in Messages
    BY <1>0, IndexFacts DEF TypeOK, Scratch
  <1>b. pc[s] \in Swapping =>
          pinner[loc[s].pinner_index].scratch \in Index
          /\ pinner[loc[s].pinner_index].scratch.m # Held(s)
    <2>1. pc[s] \in Swapping => loc[s].pinner_index \in Pinners
      BY <1>0, Sizes DEF LocalState, Locals, Pinners
    <2> QED
      BY Zenon, <1>0, <2>1 DEF TypeOK, Ownership
  <1>d. pc[s] \notin Swapped => Held(s) = sender[s].scratch.m
    BY Zenon, <1>0 DEF EntryState, Held
  <1>1. CASE OwnLoad(s)
    <2>1. EntryState(s)'
      BY Zenon, <1>0, <1>a, <1>b, <1>1
         DEF OwnLoad, EntryState, TypeOK, Scratch, NoLocals, memoryVars,
             IsPinnedLoad, SwapReturn,
             Announced, Recorded, Swapped, Replacing, Offering
    <2>2. \A t \in Senders : t # s => /\ pc'[t] = pc[t] /\ loc'[t] = loc[t]
                                       /\ sender'[t] = sender[t]
                                       /\ swapped'[t] = swapped[t]
      BY <1>0, <1>1 DEF OwnLoad, TypeOK, memoryVars, IsPinnedLoad
    <2>3. Ownership'
      <3>1. Held(s)' = Held(s)
        BY Zenon, <1>0, <1>a, <1>1
           DEF OwnLoad, EntryState, Held, TypeOK, Scratch, memoryVars,
             Swapped
      <3>2. UNCHANGED <<queue, pinner>>
        BY <1>1 DEF OwnLoad, memoryVars
      <3> QED
        BY Zenon, <1>0, <2>1, <2>2, <3>1, <3>2, OtherSenders, OwnershipSame
    <2> QED
      BY Zenon, <2>1, <2>2, <2>3, OtherSenders DEF OwnInv
  <1>2. CASE OwnScan(s)
    <2>1. EntryState(s)'
      BY <1>0, <1>a, <1>b, <1>2
         DEF OwnScan, EntryState, TypeOK, Scratch, NoLocals, memoryVars,
             IsPinnedScan, SwapReturn,
             Announced, Recorded, Swapped, Replacing, Offering
    <2>2. \A t \in Senders : t # s => /\ pc'[t] = pc[t] /\ loc'[t] = loc[t]
                                       /\ sender'[t] = sender[t]
                                       /\ swapped'[t] = swapped[t]
      BY <1>0, <1>2 DEF OwnScan, TypeOK, memoryVars, IsPinnedScan
    <2>3. Ownership'
      <3>1. Held(s)' = Held(s)
        BY Zenon, <1>0, <1>a, <1>2
           DEF OwnScan, EntryState, Held, TypeOK, Scratch, memoryVars,
             Swapped
      <3>2. UNCHANGED <<queue, pinner>>
        BY Zenon, <1>2 DEF OwnScan, memoryVars
      <3> QED
        BY Zenon, <1>0, <2>1, <2>2, <3>1, <3>2, OtherSenders, OwnershipSame
    <2> QED
      BY Zenon, <2>1, <2>2, <2>3, OtherSenders DEF OwnInv
  <1>3. CASE LoadPinner(s)
    <2>0. /\ loc'[s].pinner_scratch.m # sender'[s].scratch.m
          /\ UNCHANGED <<sender, swapped>>
          /\ pc[s] \notin Announced \cup Recorded /\ pc'[s] \notin Announced \cup Recorded
          /\ pc[s] \notin Swapped /\ pc'[s] \notin Swapped /\ pc'[s] \notin Replacing
      BY <1>0, <1>b, <1>d, <1>3, Sizes
         DEF LoadPinner, memoryVars, Announced, Recorded, Swapped, Offering,
             Replacing, IsPinnedLoad, Locals, Swapping
    <2>1. EntryState(s)'
      BY Zenon, <1>0, <2>0 DEF EntryState, Announced, Swapped
    <2>2. \A t \in Senders : t # s => /\ pc'[t] = pc[t] /\ loc'[t] = loc[t]
                                       /\ sender'[t] = sender[t]
                                       /\ swapped'[t] = swapped[t]
      BY <1>0, <1>3 DEF LoadPinner, TypeOK, memoryVars
    <2>3. Ownership'
      <3>1. Held(s)' = Held(s)
        BY <1>0, <1>a, <1>3
           DEF LoadPinner, EntryState, Held, TypeOK, Scratch, memoryVars,
             Swapped
      <3>2. UNCHANGED <<queue, pinner>>
        BY <1>3 DEF LoadPinner, memoryVars
      <3> QED
        BY Zenon, <1>0, <2>1, <2>2, <3>1, <3>2, OtherSenders, OwnershipSame
    <2> QED
      BY Zenon, <2>1, <2>2, <2>3, OtherSenders DEF OwnInv
  <1>4. CASE TheirLoad(s)
    <2>0. /\ UNCHANGED <<sender, swapped>>
          /\ loc'[s].pinner_scratch = loc[s].pinner_scratch
          /\ pc[s] = "their_load" /\ pc'[s] \in {"their_scan", "offer"}
      BY <1>0, <1>4 DEF TheirLoad, memoryVars, IsPinnedLoad, Locals
    <2>1. EntryState(s)'
      BY <1>0, <2>0
         DEF EntryState, Announced, Recorded, Swapped, Replacing, Offering
    <2>2. \A t \in Senders : t # s => /\ pc'[t] = pc[t] /\ loc'[t] = loc[t]
                                       /\ sender'[t] = sender[t]
                                       /\ swapped'[t] = swapped[t]
      BY Zenon, <1>0, <1>4 DEF TheirLoad, TypeOK, memoryVars, IsPinnedLoad
    <2>3. Ownership'
      <3>1. Held(s)' = Held(s)
        BY Zenon, <1>0, <1>a, <1>4
           DEF TheirLoad, EntryState, Held, TypeOK, Scratch, memoryVars,
             Swapped
      <3>2. UNCHANGED <<queue, pinner>>
        BY Zenon, <1>4 DEF TheirLoad, memoryVars
      <3> QED
        BY Zenon, <1>0, <2>1, <2>2, <3>1, <3>2, OtherSenders, OwnershipSame
    <2> QED
      BY Zenon, <2>1, <2>2, <2>3, OtherSenders DEF OwnInv
  <1>5. CASE TheirScan(s)
    <2>0. /\ UNCHANGED <<sender, swapped>>
          /\ loc'[s].pinner_scratch = loc[s].pinner_scratch
          /\ pc[s] = "their_scan" /\ pc'[s] \in {"their_scan", "offer", "own_load"}
      BY <1>0, <1>5 DEF TheirScan, memoryVars, IsPinnedScan, Locals
    <2>1. EntryState(s)'
      BY <1>0, <2>0
         DEF EntryState, Announced, Recorded, Swapped, Replacing, Offering
    <2>2. \A t \in Senders : t # s => /\ pc'[t] = pc[t] /\ loc'[t] = loc[t]
                                       /\ sender'[t] = sender[t]
                                       /\ swapped'[t] = swapped[t]
      BY <1>0, <1>5 DEF TheirScan, TypeOK, memoryVars, IsPinnedScan
    <2>3. Ownership'
      <3>1. Held(s)' = Held(s)
        BY Zenon, <1>0, <1>a, <1>5
           DEF TheirScan, EntryState, Held, TypeOK, Scratch, memoryVars,
             Swapped
      <3>2. UNCHANGED <<queue, pinner>>
        BY <1>5 DEF TheirScan, memoryVars
      <3> QED
        BY Zenon, <1>0, <2>1, <2>2, <3>1, <3>2, OtherSenders, OwnershipSame
    <2> QED
      BY Zenon, <2>1, <2>2, <2>3, OtherSenders DEF OwnInv
  <1>6. CASE Offer(s)
    <2>0. /\ sender'[s].to_replace = loc[s].pinner_scratch /\ sender'[s].scratch = sender[s].scratch
          /\ pc'[s] = "exchange_pinner" /\ UNCHANGED <<loc, swapped>>
          /\ loc[s].pinner_scratch \in Index /\ loc[s].pinner_scratch.m # sender[s].scratch.m
          /\ pc[s] \notin Swapped
      BY <1>0, <1>6
         DEF Offer, EntryState, LocalState, TypeOK, Offering, Replacing, Swapped
    <2>1. EntryState(s)'
      BY Zenon, <1>0, <2>0
         DEF EntryState, Announced, Recorded, Swapped, Replacing, Offering
    <2>2. \A t \in Senders : t # s => /\ pc'[t] = pc[t] /\ loc'[t] = loc[t]
                                       /\ sender'[t] = sender[t]
                                       /\ swapped'[t] = swapped[t]
      BY <1>0, <1>6 DEF Offer, TypeOK, memoryVars
    <2>3. Ownership'
      <3>1. Held(s)' = Held(s)
        BY <1>0, <1>a, <1>6
           DEF Offer, EntryState, Held, TypeOK, Scratch, memoryVars,
             Swapped
      <3>2. UNCHANGED <<queue, pinner>>
        BY <1>6 DEF Offer, memoryVars
      <3> QED
        BY Zenon, <1>0, <2>1, <2>2, <3>1, <3>2, OtherSenders, OwnershipSame
    <2> QED
      BY Zenon, <2>1, <2>2, <2>3, OtherSenders DEF OwnInv
  <1>7. CASE ExchangePinner(s)
    <2>1. EntryState(s)'
      BY <1>0, <1>a, <1>b, <1>7
         DEF ExchangePinner, EntryState, TypeOK, Scratch, NoLocals, memoryVars,
             Announced, Recorded, Swapped, Replacing, Offering
    <2>2. \A t \in Senders : t # s => /\ pc'[t] = pc[t] /\ loc'[t] = loc[t]
                                       /\ sender'[t] = sender[t]
                                       /\ swapped'[t] = swapped[t]
      BY <1>0, <1>7 DEF ExchangePinner, TypeOK, memoryVars
    <2>3. Ownership'
      <3> DEFINE k == loc[s].pinner_index
      <3>0. k \in Pinners
        BY <1>0, <1>7, Sizes
           DEF ExchangePinner, LocalState, Locals, Swapping, Offering, Pinners
      <3>1. pinner'[k].scratch.m = Held(s) /\ Held(s)' = pinner[k].scratch.m
        BY <1>0, <3>0, <1>7
           DEF ExchangePinner, EntryState, Held, Scratch, TypeOK, Swapped
      <3>2. \A p \in Pinners : p # k => pinner'[p].scratch.m = pinner[p].scratch.m
        BY <1>0, <3>0, <1>7 DEF ExchangePinner, TypeOK
      <3>3. \A i \in Slots : queue'[i].m = queue[i].m
        BY <1>7 DEF ExchangePinner
      <3> HIDE DEF k
      <3> QED
        BY Zenon, <1>0, <3>0, <2>1, <2>2, <3>1, <3>2, <3>3, OtherSenders,
           OwnershipPinner
    <2> QED
      BY Zenon, <2>1, <2>2, <2>3, OtherSenders DEF OwnInv
  <1>8. CASE ExchangePinnerFails(s)
    <2>1. EntryState(s)'
      BY Zenon, <1>0, <1>a, <1>b, <1>8
         DEF ExchangePinnerFails, EntryState, TypeOK, Scratch, NoLocals,
             memoryVars,
             Announced, Recorded, Swapped, Replacing, Offering
    <2>2. \A t \in Senders : t # s => /\ pc'[t] = pc[t] /\ loc'[t] = loc[t]
                                       /\ sender'[t] = sender[t]
                                       /\ swapped'[t] = swapped[t]
      BY <1>0, <1>8 DEF ExchangePinnerFails, TypeOK, memoryVars
    <2>3. Ownership'
      <3>1. Held(s)' = Held(s)
        BY Zenon, <1>0, <1>a, <1>8
           DEF ExchangePinnerFails, EntryState, Held, TypeOK, Scratch,
               memoryVars,
             Swapped
      <3>2. UNCHANGED <<queue, pinner>>
        BY Zenon, <1>8 DEF ExchangePinnerFails, memoryVars
      <3> QED
        BY Zenon, <1>0, <2>1, <2>2, <3>1, <3>2, OtherSenders, OwnershipSame
    <2> QED
      BY Zenon, <2>1, <2>2, <2>3, OtherSenders DEF OwnInv
  <1>9. CASE Withdraw(s)
    <2>1. EntryState(s)'
      BY <1>0, <1>a, <1>b, <1>9
         DEF Withdraw, EntryState, TypeOK, Scratch, NoLocals, memoryVars,
             Announced, Recorded, Swapped, Replacing, Offering
    <2>2. \A t \in Senders : t # s => /\ pc'[t] = pc[t] /\ loc'[t] = loc[t]
                                       /\ sender'[t] = sender[t]
                                       /\ swapped'[t] = swapped[t]
      BY <1>0, <1>9 DEF Withdraw, TypeOK, memoryVars
    <2>3. Ownership'
      <3>1. Held(s)' = Held(s)
        BY <1>0, <1>a, <1>9
           DEF Withdraw, EntryState, Held, TypeOK, Scratch, memoryVars,
             Swapped
      <3>2. UNCHANGED <<queue, pinner>>
        BY <1>9 DEF Withdraw, memoryVars
      <3> QED
        BY Zenon, <1>0, <2>1, <2>2, <3>1, <3>2, OtherSenders, OwnershipSame
    <2> QED
      BY Zenon, <2>1, <2>2, <2>3, OtherSenders DEF OwnInv
  <1>10. CASE TakeOffered(s)
    <2>1. EntryState(s)'
      BY <1>0, <1>a, <1>b, <1>10
         DEF TakeOffered, EntryState, TypeOK, Scratch, NoLocals, memoryVars,
             Announced, Recorded, Swapped, Replacing, Offering
    <2>2. \A t \in Senders : t # s => /\ pc'[t] = pc[t] /\ loc'[t] = loc[t]
                                       /\ sender'[t] = sender[t]
                                       /\ swapped'[t] = swapped[t]
      BY <1>0, <1>10 DEF TakeOffered, TypeOK, memoryVars
    <2>3. Ownership'
      <3>1. Held(s)' = Held(s)
        BY <1>0, <1>a, <1>10
           DEF TakeOffered, EntryState, Held, TypeOK, Scratch, memoryVars,
             Swapped
      <3>2. UNCHANGED <<queue, pinner>>
        BY <1>10 DEF TakeOffered, memoryVars
      <3> QED
        BY Zenon, <1>0, <2>1, <2>2, <3>1, <3>2, OtherSenders, OwnershipSame
    <2> QED
      BY Zenon, <2>1, <2>2, <2>3, OtherSenders DEF OwnInv
  <1>11. CASE ClearOffer(s)
    <2>1. EntryState(s)'
      BY <1>0, <1>a, <1>b, <1>11
         DEF ClearOffer, EntryState, TypeOK, Scratch, NoLocals, memoryVars,
             SwapReturn,
             Announced, Recorded, Swapped, Replacing, Offering
    <2>2. \A t \in Senders : t # s => /\ pc'[t] = pc[t] /\ loc'[t] = loc[t]
                                       /\ sender'[t] = sender[t]
                                       /\ swapped'[t] = swapped[t]
      BY <1>0, <1>11 DEF ClearOffer, TypeOK, memoryVars
    <2>3. Ownership'
      <3>1. Held(s)' = Held(s)
        BY <1>0, <1>a, <1>11
           DEF ClearOffer, EntryState, Held, TypeOK, Scratch, memoryVars,
             Swapped
      <3>2. UNCHANGED <<queue, pinner>>
        BY <1>11 DEF ClearOffer, memoryVars
      <3> QED
        BY Zenon, <1>0, <2>1, <2>2, <3>1, <3>2, OtherSenders, OwnershipSame
    <2> QED
      BY Zenon, <2>1, <2>2, <2>3, OtherSenders DEF OwnInv
  <1> QED
    BY <1>1, <1>2, <1>3, <1>4, <1>5, <1>6, <1>7, <1>8, <1>9, <1>10, <1>11
       DEF SwapPinnedSenderScratch

LEMMA SendOwn ==
  ASSUME TypeInv, OwnInv, NEW s \in Senders, Fill(s) \/ Send(s)
  PROVE  OwnInv'
  <1> USE DEF Goto
  <1>0. /\ s \in Actors /\ TypeOK /\ LocalInv /\ LogInv
        /\ pc \in [Actors -> Labels] /\ loc \in [Actors -> Locals]
        /\ loc[s] \in Locals /\ LocalState(s) /\ EntryState(s) /\ Ownership
        /\ Slot(s) = s /\ \A t \in Senders : t \in Actors
    BY Zenon DEF TypeInv, LocalInv, OwnInv, Actors, Slot, LocalState
  <1>a. Scratch(s) \in Index /\ Scratch(s).m \in Messages
    BY <1>0, IndexFacts DEF TypeOK, Scratch
  <1>b. SendSlot(s) \in Slots /\ queue[SendSlot(s)] \in Index
    BY <1>0, SendIndices DEF TypeOK
  <1>c. queue[SendSlot(s)].m # Held(s)
    BY Zenon, <1>0, <1>b DEF Ownership
  <1>d. pc[s] \notin Swapped => Held(s) = sender[s].scratch.m
    BY Zenon, <1>0 DEF EntryState, Held
  <1>1. CASE Fill(s)
    <2>1. EntryState(s)'
      BY <1>0, <1>a, <1>b, <1>1
         DEF Fill, EntryState, TypeOK, Scratch, NoLocals, memoryVars,
             Announced, Recorded, Swapped, Replacing, Offering
    <2>2. \A t \in Senders : t # s => /\ pc'[t] = pc[t] /\ loc'[t] = loc[t]
                                       /\ sender'[t] = sender[t]
                                       /\ swapped'[t] = swapped[t]
      BY <1>0, <1>1 DEF Fill, TypeOK, memoryVars
    <2>3. Ownership'
      <3>1. Held(s)' = Held(s)
        BY <1>0, <1>a, <1>1
           DEF Fill, EntryState, Held, TypeOK, Scratch, memoryVars,
             Swapped
      <3>2. UNCHANGED <<queue, pinner>>
        BY <1>1 DEF Fill, memoryVars
      <3> QED
        BY Zenon, <1>0, <2>1, <2>2, <3>1, <3>2, OtherSenders, OwnershipSame
    <2> QED
      BY Zenon, <2>1, <2>2, <2>3, OtherSenders DEF OwnInv
  <1>2. CASE LoadNext(s)
    <2>1. EntryState(s)'
      BY <1>0, <1>a, <1>b, <1>2
         DEF LoadNext, EntryState, TypeOK, Scratch, NoLocals, memoryVars,
             Announced, Recorded, Swapped, Replacing, Offering
    <2>2. \A t \in Senders : t # s => /\ pc'[t] = pc[t] /\ loc'[t] = loc[t]
                                       /\ sender'[t] = sender[t]
                                       /\ swapped'[t] = swapped[t]
      BY <1>0, <1>2 DEF LoadNext, TypeOK, memoryVars
    <2>3. Ownership'
      <3>1. Held(s)' = Held(s)
        BY <1>0, <1>a, <1>2
           DEF LoadNext, EntryState, Held, TypeOK, Scratch, memoryVars,
             Swapped
      <3>2. UNCHANGED <<queue, pinner>>
        BY <1>2 DEF LoadNext, memoryVars
      <3> QED
        BY Zenon, <1>0, <2>1, <2>2, <3>1, <3>2, OtherSenders, OwnershipSame
    <2> QED
      BY Zenon, <2>1, <2>2, <2>3, OtherSenders DEF OwnInv
  <1>3. CASE LoadSlot(s)
    <2>0. /\ loc'[s].to_replace.m # sender'[s].scratch.m
          /\ UNCHANGED <<sender, swapped>>
          /\ pc[s] \notin Announced \cup Recorded /\ pc'[s] \notin Announced \cup Recorded
          /\ pc[s] \notin Swapped /\ pc'[s] \notin Swapped /\ pc'[s] \notin Offering
      BY <1>0, <1>b, <1>c, <1>d, <1>3, Sizes
         DEF LoadSlot, memoryVars, Announced, Recorded, Swapped, Offering,
             Replacing, IsPinnedLoad, Locals, Swapping
    <2>1. EntryState(s)'
      BY Zenon, <1>0, <2>0 DEF EntryState, Announced, Swapped
    <2>2. \A t \in Senders : t # s => /\ pc'[t] = pc[t] /\ loc'[t] = loc[t]
                                       /\ sender'[t] = sender[t]
                                       /\ swapped'[t] = swapped[t]
      BY <1>0, <1>3 DEF LoadSlot, TypeOK, memoryVars
    <2>3. Ownership'
      <3>1. Held(s)' = Held(s)
        BY <1>0, <1>a, <1>3
           DEF LoadSlot, EntryState, Held, TypeOK, Scratch, memoryVars,
             Swapped
      <3>2. UNCHANGED <<queue, pinner>>
        BY <1>3 DEF LoadSlot, memoryVars
      <3> QED
        BY Zenon, <1>0, <2>1, <2>2, <3>1, <3>2, OtherSenders, OwnershipSame
    <2> QED
      BY Zenon, <2>1, <2>2, <2>3, OtherSenders DEF OwnInv
  <1>4. CASE FixNext(s)
    <2>1. EntryState(s)'
      BY Zenon, <1>0, <1>a, <1>b, <1>4
         DEF FixNext, EntryState, TypeOK, Scratch, NoLocals, memoryVars,
             Announced, Recorded, Swapped, Replacing, Offering
    <2>2. \A t \in Senders : t # s => /\ pc'[t] = pc[t] /\ loc'[t] = loc[t]
                                       /\ sender'[t] = sender[t]
                                       /\ swapped'[t] = swapped[t]
      BY <1>0, <1>4 DEF FixNext, TypeOK, memoryVars
    <2>3. Ownership'
      <3>1. Held(s)' = Held(s)
        BY Zenon, <1>0, <1>a, <1>4
           DEF FixNext, EntryState, Held, TypeOK, Scratch, memoryVars,
             Swapped
      <3>2. UNCHANGED <<queue, pinner>>
        BY <1>4 DEF FixNext, memoryVars
      <3> QED
        BY Zenon, <1>0, <2>1, <2>2, <3>1, <3>2, OtherSenders, OwnershipSame
    <2> QED
      BY Zenon, <2>1, <2>2, <2>3, OtherSenders DEF OwnInv
  <1>5. CASE CheckPrevious(s)
    <2>1. EntryState(s)'
      BY Zenon, <1>0, <1>a, <1>b, <1>5
         DEF CheckPrevious, EntryState, TypeOK, Scratch, NoLocals, memoryVars,
             Announced, Recorded, Swapped, Replacing, Offering
    <2>2. \A t \in Senders : t # s => /\ pc'[t] = pc[t] /\ loc'[t] = loc[t]
                                       /\ sender'[t] = sender[t]
                                       /\ swapped'[t] = swapped[t]
      BY Zenon, <1>0, <1>5 DEF CheckPrevious, TypeOK, memoryVars
    <2>3. Ownership'
      <3>1. Held(s)' = Held(s)
        BY Zenon, <1>0, <1>a, <1>5
           DEF CheckPrevious, EntryState, Held, TypeOK, Scratch, memoryVars,
             Swapped
      <3>2. UNCHANGED <<queue, pinner>>
        BY Zenon, <1>5 DEF CheckPrevious, memoryVars
      <3> QED
        BY Zenon, <1>0, <2>1, <2>2, <3>1, <3>2, OtherSenders, OwnershipSame
    <2> QED
      BY Zenon, <2>1, <2>2, <2>3, OtherSenders DEF OwnInv
  <1>6. CASE StoreScratch(s)
    <2>1. EntryState(s)'
      BY <1>0, <1>a, <1>b, <1>6
         DEF StoreScratch, EntryState, TypeOK, Scratch, NoLocals, memoryVars,
             MkIndex,
             Announced, Recorded, Swapped, Replacing, Offering
    <2>2. \A t \in Senders : t # s => /\ pc'[t] = pc[t] /\ loc'[t] = loc[t]
                                       /\ sender'[t] = sender[t]
                                       /\ swapped'[t] = swapped[t]
      BY <1>0, <1>6 DEF StoreScratch, TypeOK, memoryVars
    <2>3. Ownership'
      <3>1. Held(s)' = Held(s)
        BY <1>0, <1>a, <1>6
           DEF StoreScratch, EntryState, Held, TypeOK, Scratch, memoryVars,
               MkIndex,
             Swapped
      <3>2. UNCHANGED <<queue, pinner>>
        BY <1>6 DEF StoreScratch, memoryVars
      <3> QED
        BY Zenon, <1>0, <2>1, <2>2, <3>1, <3>2, OtherSenders, OwnershipSame
    <2> QED
      BY Zenon, <2>1, <2>2, <2>3, OtherSenders DEF OwnInv
  <1>7. CASE StoreQueueIndex(s)
    <2>1. EntryState(s)'
      BY <1>0, <1>a, <1>b, <1>7
         DEF StoreQueueIndex, EntryState, TypeOK, Scratch, NoLocals, memoryVars,
             Announced, Recorded, Swapped, Replacing, Offering
    <2>2. \A t \in Senders : t # s => /\ pc'[t] = pc[t] /\ loc'[t] = loc[t]
                                       /\ sender'[t] = sender[t]
                                       /\ swapped'[t] = swapped[t]
      BY <1>0, <1>7 DEF StoreQueueIndex, TypeOK, memoryVars
    <2>3. Ownership'
      <3>1. Held(s)' = Held(s)
        BY <1>0, <1>a, <1>7
           DEF StoreQueueIndex, EntryState, Held, TypeOK, Scratch, memoryVars,
             Swapped
      <3>2. UNCHANGED <<queue, pinner>>
        BY <1>7 DEF StoreQueueIndex, memoryVars
      <3> QED
        BY Zenon, <1>0, <2>1, <2>2, <3>1, <3>2, OtherSenders, OwnershipSame
    <2> QED
      BY Zenon, <2>1, <2>2, <2>3, OtherSenders DEF OwnInv
  <1>8. CASE StoreToReplace(s)
    <2>0. /\ sender'[s].to_replace = loc[s].to_replace /\ sender'[s].scratch = sender[s].scratch
          /\ pc'[s] = "exchange_slot" /\ UNCHANGED <<loc, swapped>>
          /\ loc[s].to_replace \in Index /\ loc[s].to_replace.m # sender[s].scratch.m
          /\ pc[s] \notin Swapped
      BY <1>0, <1>8
         DEF StoreToReplace, EntryState, LocalState, TypeOK, Offering,
             Replacing, Swapped
    <2>1. EntryState(s)'
      BY Zenon, <1>0, <2>0
         DEF EntryState, Announced, Recorded, Swapped, Replacing, Offering
    <2>2. \A t \in Senders : t # s => /\ pc'[t] = pc[t] /\ loc'[t] = loc[t]
                                       /\ sender'[t] = sender[t]
                                       /\ swapped'[t] = swapped[t]
      BY <1>0, <1>8 DEF StoreToReplace, TypeOK, memoryVars
    <2>3. Ownership'
      <3>1. Held(s)' = Held(s)
        BY <1>0, <1>a, <1>8
           DEF StoreToReplace, EntryState, Held, TypeOK, Scratch, memoryVars,
             Swapped
      <3>2. UNCHANGED <<queue, pinner>>
        BY <1>8 DEF StoreToReplace, memoryVars
      <3> QED
        BY Zenon, <1>0, <2>1, <2>2, <3>1, <3>2, OtherSenders, OwnershipSame
    <2> QED
      BY Zenon, <2>1, <2>2, <2>3, OtherSenders DEF OwnInv
  <1>9. CASE ExchangeSlot(s)
    <2>1. EntryState(s)'
      BY Zenon, <1>0, <1>a, <1>b, <1>9
         DEF ExchangeSlot, EntryState, TypeOK, Scratch, NoLocals, memoryVars,
             Announced, Recorded, Swapped, Replacing, Offering
    <2>2. \A t \in Senders : t # s => /\ pc'[t] = pc[t] /\ loc'[t] = loc[t]
                                       /\ sender'[t] = sender[t]
                                       /\ swapped'[t] = swapped[t]
      BY Zenon, <1>0, <1>9 DEF ExchangeSlot, TypeOK, memoryVars
    <2>3. Ownership'
      <3>1. queue'[SendSlot(s)].m = Held(s) /\ Held(s)' = queue[SendSlot(s)].m
        BY Zenon, <1>0, <1>b, <1>9
           DEF ExchangeSlot, EntryState, Held, Scratch, TypeOK, Swapped
      <3>2. \A i \in Slots : i # SendSlot(s) => queue'[i].m = queue[i].m
        BY Zenon, <1>0, <1>b, <1>9 DEF ExchangeSlot, TypeOK
      <3>3. \A p \in Pinners : pinner'[p].scratch.m = pinner[p].scratch.m
        BY <1>9 DEF ExchangeSlot
      <3> QED
        BY Zenon, <1>0, <1>b, <2>1, <2>2, <3>1, <3>2, <3>3, OtherSenders,
           OwnershipSlot
    <2> QED
      BY Zenon, <2>1, <2>2, <2>3, OtherSenders DEF OwnInv
  <1>10. CASE ExchangeSlotFails(s)
    <2>1. EntryState(s)'
      BY Zenon, <1>0, <1>a, <1>b, <1>10
         DEF ExchangeSlotFails, EntryState, TypeOK, Scratch, NoLocals,
             memoryVars,
             Announced, Recorded, Swapped, Replacing, Offering
    <2>2. \A t \in Senders : t # s => /\ pc'[t] = pc[t] /\ loc'[t] = loc[t]
                                       /\ sender'[t] = sender[t]
                                       /\ swapped'[t] = swapped[t]
      BY Zenon, <1>0, <1>10 DEF ExchangeSlotFails, TypeOK, memoryVars
    <2>3. Ownership'
      <3>1. Held(s)' = Held(s)
        BY Zenon, <1>0, <1>a, <1>10
           DEF ExchangeSlotFails, EntryState, Held, TypeOK, Scratch, memoryVars,
             Swapped
      <3>2. UNCHANGED <<queue, pinner>>
        BY Zenon, <1>10 DEF ExchangeSlotFails, memoryVars
      <3> QED
        BY Zenon, <1>0, <2>1, <2>2, <3>1, <3>2, OtherSenders, OwnershipSame
    <2> QED
      BY Zenon, <2>1, <2>2, <2>3, OtherSenders DEF OwnInv
  <1>11. CASE UndoToReplace(s)
    <2>1. EntryState(s)'
      BY <1>0, <1>a, <1>b, <1>11
         DEF UndoToReplace, EntryState, TypeOK, Scratch, NoLocals, memoryVars,
             Announced, Recorded, Swapped, Replacing, Offering
    <2>2. \A t \in Senders : t # s => /\ pc'[t] = pc[t] /\ loc'[t] = loc[t]
                                       /\ sender'[t] = sender[t]
                                       /\ swapped'[t] = swapped[t]
      BY <1>0, <1>11 DEF UndoToReplace, TypeOK, memoryVars
    <2>3. Ownership'
      <3>1. Held(s)' = Held(s)
        BY <1>0, <1>a, <1>11
           DEF UndoToReplace, EntryState, Held, TypeOK, Scratch, memoryVars,
             Swapped
      <3>2. UNCHANGED <<queue, pinner>>
        BY <1>11 DEF UndoToReplace, memoryVars
      <3> QED
        BY Zenon, <1>0, <2>1, <2>2, <3>1, <3>2, OtherSenders, OwnershipSame
    <2> QED
      BY Zenon, <2>1, <2>2, <2>3, OtherSenders DEF OwnInv
  <1>12. CASE UpdateNext(s)
    <2>1. EntryState(s)'
      BY Zenon, <1>0, <1>a, <1>b, <1>12
         DEF UpdateNext, EntryState, TypeOK, Scratch, NoLocals, memoryVars,
             Announced, Recorded, Swapped, Replacing, Offering
    <2>2. \A t \in Senders : t # s => /\ pc'[t] = pc[t] /\ loc'[t] = loc[t]
                                       /\ sender'[t] = sender[t]
                                       /\ swapped'[t] = swapped[t]
      BY <1>0, <1>12 DEF UpdateNext, TypeOK, memoryVars
    <2>3. Ownership'
      <3>1. Held(s)' = Held(s)
        BY Zenon, <1>0, <1>a, <1>12
           DEF UpdateNext, EntryState, Held, TypeOK, Scratch, memoryVars,
             Swapped
      <3>2. UNCHANGED <<queue, pinner>>
        BY <1>12 DEF UpdateNext, memoryVars
      <3> QED
        BY Zenon, <1>0, <2>1, <2>2, <3>1, <3>2, OtherSenders, OwnershipSame
    <2> QED
      BY Zenon, <2>1, <2>2, <2>3, OtherSenders DEF OwnInv
  <1>13. CASE TakeReplaced(s)
    <2>1. EntryState(s)'
      BY <1>0, <1>a, <1>b, <1>13
         DEF TakeReplaced, EntryState, TypeOK, Scratch, NoLocals, memoryVars,
             Announced, Recorded, Swapped, Replacing, Offering
    <2>2. \A t \in Senders : t # s => /\ pc'[t] = pc[t] /\ loc'[t] = loc[t]
                                       /\ sender'[t] = sender[t]
                                       /\ swapped'[t] = swapped[t]
      BY <1>0, <1>13 DEF TakeReplaced, TypeOK, memoryVars
    <2>3. Ownership'
      <3>1. Held(s)' = Held(s)
        BY <1>0, <1>a, <1>13
           DEF TakeReplaced, EntryState, Held, TypeOK, Scratch, memoryVars,
             Swapped
      <3>2. UNCHANGED <<queue, pinner>>
        BY <1>13 DEF TakeReplaced, memoryVars
      <3> QED
        BY Zenon, <1>0, <2>1, <2>2, <3>1, <3>2, OtherSenders, OwnershipSame
    <2> QED
      BY Zenon, <2>1, <2>2, <2>3, OtherSenders DEF OwnInv
  <1>14. CASE ClearToReplace(s)
    <2>1. EntryState(s)'
      BY <1>0, <1>a, <1>b, <1>14
         DEF ClearToReplace, EntryState, TypeOK, Scratch, NoLocals, memoryVars,
             Announced, Recorded, Swapped, Replacing, Offering
    <2>2. \A t \in Senders : t # s => /\ pc'[t] = pc[t] /\ loc'[t] = loc[t]
                                       /\ sender'[t] = sender[t]
                                       /\ swapped'[t] = swapped[t]
      BY <1>0, <1>14 DEF ClearToReplace, TypeOK, memoryVars
    <2>3. Ownership'
      <3>1. Held(s)' = Held(s)
        BY <1>0, <1>a, <1>14
           DEF ClearToReplace, EntryState, Held, TypeOK, Scratch, memoryVars,
             Swapped
      <3>2. UNCHANGED <<queue, pinner>>
        BY <1>14 DEF ClearToReplace, memoryVars
      <3> QED
        BY Zenon, <1>0, <2>1, <2>2, <3>1, <3>2, OtherSenders, OwnershipSame
    <2> QED
      BY Zenon, <2>1, <2>2, <2>3, OtherSenders DEF OwnInv
  <1>15. CASE Invalidate(s)
    <2>1. EntryState(s)'
      BY <1>0, <1>a, <1>b, <1>15
         DEF Invalidate, EntryState, TypeOK, Scratch, NoLocals, memoryVars,
             Announced, Recorded, Swapped, Replacing, Offering
    <2>2. \A t \in Senders : t # s => /\ pc'[t] = pc[t] /\ loc'[t] = loc[t]
                                       /\ sender'[t] = sender[t]
                                       /\ swapped'[t] = swapped[t]
      BY <1>0, <1>15 DEF Invalidate, TypeOK, memoryVars
    <2>3. Ownership'
      <3>1. Held(s)' = Held(s)
        BY <1>0, <1>a, <1>15
           DEF Invalidate, EntryState, Held, TypeOK, Scratch, memoryVars,
             Swapped
      <3>2. UNCHANGED <<queue, pinner>>
        BY <1>15 DEF Invalidate, memoryVars
      <3> QED
        BY Zenon, <1>0, <2>1, <2>2, <3>1, <3>2, OtherSenders, OwnershipSame
    <2> QED
      BY Zenon, <2>1, <2>2, <2>3, OtherSenders DEF OwnInv
  <1> QED
    BY <1>1, <1>2, <1>3, <1>4, <1>5, <1>6, <1>7, <1>8, <1>9, <1>10, <1>11,
       <1>12, <1>13, <1>14, <1>15, SwapOwn
       DEF Send

LEMMA OwnSame ==
  ASSUME OwnInv, UNCHANGED <<queue, sender, pc, loc, swapped>>,
         \A p \in Pinners : pinner'[p].scratch = pinner[p].scratch
  PROVE  OwnInv'
  <1>1. Ownership'
    BY Zenon, OwnershipSame DEF OwnInv, Held
  <1> QED
    BY Zenon, <1>1 DEF OwnInv, EntryState

LEMMA PinOwn ==
  ASSUME TypeInv, OwnInv, NEW p \in Pinners,
         (\E q \in Asked(1) : PinStore(p, q)) \/ PinIndex(p) \/ Data(p)
  PROVE  OwnInv' /\ UNCHANGED message
  <1>1. pinner \in [Pinners -> [scratch : Index, pinned : QueueIndices]]
    BY DEF TypeInv, TypeOK
  <1>2. UNCHANGED <<queue, message, sender, pc, loc, swapped>>
    BY Zenon DEF PinStore, PinIndex, PinLoadSlot, PinCheck, Unpin, Flush, Data,
         memoryVars, sendSide
  <1>3. \A k \in Pinners : pinner'[k].scratch = pinner[k].scratch
    BY SMTT(60), <1>1 DEF PinStore, PinIndex, PinLoadSlot, PinCheck, Unpin, Flush, Data,
         memoryVars
  <1> QED
    BY Zenon, <1>2, <1>3, OwnSame

LEMMA ReadOwn ==
  ASSUME OwnInv, NEW r \in Readers,
         (\E q \in Asked(ReadAhead) : ReadStart(r, q)) \/ Read(r)
  PROVE  OwnInv' /\ UNCHANGED message
  <1>1. UNCHANGED <<memoryVars, sendSide>>
    BY Zenon DEF ReadStart, Read, ReadCheck, ReadReload, ReadCopyHeader,
         ReadCopyData, ReadConfirm
  <1> QED
    BY <1>1, OwnSame DEF memoryVars, sendSide

LEMMA OwnStep == TypeInv /\ OwnInv /\ [Next]_vars => OwnInv'
  <1> SUFFICES ASSUME TypeInv, OwnInv, [Next]_vars PROVE OwnInv'
    OBVIOUS
  <1>1. ASSUME UNCHANGED vars PROVE OwnInv'
    BY <1>1, OwnSame DEF vars, memoryVars
  <1> QED
    BY <1>1, SendOwn, PinOwn, ReadOwn DEF Next

LEMMA Invariant == Spec => [](TypeInv /\ OwnInv)
  <1>1. Init => TypeInv /\ OwnInv
    BY TypeInit, OwnInit
  <1>2. TypeInv /\ OwnInv /\ [Next]_vars => (TypeInv /\ OwnInv)'
    BY TypeStep, OwnStep
  <1> QED
    BY <1>1, <1>2, PTL DEF Spec

\* The lock-free exchanges never duplicate or lose a message, whatever the
\* interleaving and however many senders, pinners, readers, slots and sends.
THEOREM OwnershipHolds == Spec => []Ownership
  <1>1. OwnInv => Ownership
    BY DEF OwnInv
  <1> QED
    BY <1>1, Invariant, PTL

\* The entry a sender leaves behind, wherever it stops, is in one of the states
\* DoCleanup distinguishes.
THEOREM FourStatesHold == Spec => []FourStates
  <1>1. OwnInv => FourStates
    BY Zenon DEF OwnInv, EntryState, FourStates
  <1> QED
    BY <1>1, Invariant, PTL

\* The only message a step of Send writes is the one the sender holds.
LEMMA SendWrites ==
  ASSUME TypeInv, OwnInv, NEW s \in Senders, Fill(s) \/ Send(s),
         NEW m \in Messages, m # Held(s)
  PROVE  message'[m] = message[m]
  <1>1. message \in [Messages -> [queue_index : QueueIndices, data : Nat,
                                  time : Nat]]
    BY DEF TypeInv, TypeOK
  <1>2. EntryState(s)
    BY DEF OwnInv
  <1>3. CASE Fill(s) \/ StoreScratch(s) \/ StoreQueueIndex(s)
              \/ Invalidate(s)
    <2>1. pc[s] \notin Swapped
      BY <1>3 DEF Fill, StoreScratch, StoreQueueIndex, Invalidate, Swapped
    <2>2. m # Scratch(s).m
      BY Zenon, <1>2, <2>1 DEF Held, EntryState, Scratch
    <2> QED
      BY <1>1, <1>3, <2>2 DEF Fill, StoreScratch, StoreQueueIndex, Invalidate
  <1>4. CASE SwapPinnedSenderScratch(s)
    BY Zenon, <1>4 DEF SwapPinnedSenderScratch, OwnLoad, OwnScan, LoadPinner,
         TheirLoad, TheirScan, Offer, ExchangePinner, ExchangePinnerFails,
         Withdraw, TakeOffered, ClearOffer, memoryVars
  <1>5. CASE UNCHANGED message
    BY <1>5
  <1>6. UNCHANGED message \/ StoreScratch(s) \/ StoreQueueIndex(s) \/ Invalidate(s)
          \/ Fill(s) \/ SwapPinnedSenderScratch(s)
    BY Zenon DEF Send, LoadNext, LoadSlot, FixNext, CheckPrevious, StoreToReplace,
         ExchangeSlot, ExchangeSlotFails, UndoToReplace,
         UpdateNext, TakeReplaced, ClearToReplace, memoryVars
  <1> QED
    BY <1>3, <1>4, <1>5, <1>6

\* No step writes a message while it is in the queue or with a pinner.
THEOREM NothingOverwritten == Spec => NoOverwrite
  <1> DEFINE Kept ==
        /\ \A i \in Slots : message'[queue[i].m] = message[queue[i].m]
        /\ \A p \in Pinners :
             message'[pinner[p].scratch.m] = message[pinner[p].scratch.m]
  <1>1. TypeInv /\ OwnInv /\ [Next]_vars => [Kept]_vars
    <2> SUFFICES ASSUME TypeInv, OwnInv, Next PROVE Kept
      OBVIOUS
    <2>1. ASSUME NEW s \in Senders, Fill(s) \/ Send(s) PROVE Kept
      <3>1. /\ \A i \in Slots : queue[i].m \in Messages /\ queue[i].m # Held(s)
            /\ \A p \in Pinners : /\ pinner[p].scratch.m \in Messages
                                  /\ pinner[p].scratch.m # Held(s)
        BY Zenon, IndexFacts DEF TypeInv, TypeOK, OwnInv, Ownership
      <3> QED
        BY Zenon, <2>1, <3>1, SendWrites
    <2>2. CASE UNCHANGED message
      BY Zenon, <2>2
    <2> QED
      BY Zenon, <2>1, <2>2, PinOwn, ReadOwn DEF Next
  <1> QED
    BY <1>1, Invariant, PTL DEF Spec, NoOverwrite
===============================================================================
