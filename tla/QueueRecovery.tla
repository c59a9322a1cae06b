---------------------------- MODULE QueueRecovery ----------------------------
(***************************************************************************)
(* Death and recovery of the users of a LocklessQueue: the robust futex in *)
(* each entry of the sender and pinner lists, the constructors, which      *)
(* first clean up after the dead under queue_setup_lock, the destructors,  *)
(* and a process dying between any two of its accesses to shared memory.   *)
(*                                                                         *)
(* A cleaner is a process inside the constructor of a LocklessQueueSender  *)
(* or a LocklessQueuePinner.  Senders and pinners that live keep running   *)
(* while it cleans up.                                                     *)
(***************************************************************************)
EXTENDS LocklessQueue

CONSTANTS
  MaxCrashes   \* bound: deaths

ASSUME CrashAssumption == MaxCrashes \in Nat

VARIABLES
  tid,        \* Sender::tid: "free", "alive" or "died" (FUTEX_OWNER_DIED)
  ptid,       \* Pinner::tid
  setup_lock, \* holder of queue_setup_lock, or "free"
  cloc,       \* locals of Cleanup
  crashes,    \* deaths so far
  failed,     \* the CHECKs that have failed, by line
  misread     \* history: the accounting took a message for one a living sender
              \* holds that it had just exchanged away

recoveryVars == <<tid, ptid, setup_lock, cloc, crashes, failed, misread>>
allVars == <<vars, recoveryVars>>

NoCleanup == [makes |-> "none", i |-> 0, scratch |-> InvalidIndex,
              need_recovery |-> {}, accounted_for |-> {}, num_missing |-> 0,
              starting |-> 0]

RInit ==
  /\ Init
  /\ tid = [s \in Senders |-> "free"]
  /\ ptid = [p \in Pinners |-> "free"]
  /\ setup_lock = "free"
  /\ cloc = [c \in Cleaners |-> NoCleanup]
  /\ crashes = 0
  /\ failed = {}
  /\ misread = FALSE

(***************************************************************************)
(* The constructors: GrabQueueSetupLockOrDie, then DoCleanup until it      *)
(* returns true, then take the first free entry.  queue_setup_lock is      *)
(* robust: the kernel frees it when its holder dies.                       *)
(***************************************************************************)
notCleaning == <<readSide, sends, log>>

Grab(c, makes) ==
  /\ pc[c] = "idle" /\ setup_lock = "free"
  /\ setup_lock' = c
  /\ cloc' = [cloc EXCEPT ![c] = [NoCleanup EXCEPT !.makes = makes]]
  /\ Goto(c, "easy")
  /\ UNCHANGED <<memoryVars, loc, swapped, notCleaning, tid, ptid, crashes,
                 failed, misread>>

\* The process leaves the constructor, or dies in it.
Leave(c) ==
  /\ setup_lock' = "free"
  /\ cloc' = [cloc EXCEPT ![c] = NoCleanup]
  /\ loc' = [loc EXCEPT ![c] = NoLocals(0)]
  /\ Goto(c, "idle")

\* CHECK(condition) at a line fails: the process aborts.
CheckFails(c, line) ==
  /\ Leave(c)
  /\ failed' = failed \cup {line}

\* DoCleanup returns false: Cleanup calls it again.
ReturnFalse(c) ==
  /\ cloc' = [cloc EXCEPT ![c] = [NoCleanup EXCEPT !.makes = cloc[c].makes]]
  /\ Goto(c, "easy")
  /\ UNCHANGED <<setup_lock, loc, failed>>

\* On to the next sender of a loop over the sender list, with these locals.
NextSender(c, locals, loop, after) ==
  /\ cloc' = [cloc EXCEPT ![c] = [locals EXCEPT !.i = (@ + 1) % NumSenders]]
  /\ Goto(c, IF locals.i + 1 < NumSenders THEN loop ELSE after)
  /\ UNCHANGED <<setup_lock, loc, failed>>

Continue(c, label) == Goto(c, label) /\ UNCHANGED <<setup_lock, cloc, loc, failed>>

Dead(i) == tid[i] = "died"

\* Mutation: what is announced but not recorded is taken to be undone.
Easy_RollsBack(c) ==
  LET i == cloc[c].i
      scratch == sender[i].scratch
  IN /\ pc[c] = "easy"
     /\ \/ ~Dead(i) /\ NextSender(c, cloc[c], "easy", "pinners")
        \/ /\ Dead(i) /\ sender[i].to_replace = InvalidIndex
           /\ cloc' = [cloc EXCEPT ![c].scratch = scratch]
           /\ loc' = [loc EXCEPT ![c] = NoLocals(i)]
           /\ Goto(c, "own_load")
           /\ UNCHANGED <<setup_lock, failed>>
        \/ /\ Dead(i) /\ sender[i].to_replace # InvalidIndex
           /\ cloc' = [cloc EXCEPT ![c].scratch = scratch]
           /\ Goto(c, "clear_easy")
           /\ UNCHANGED <<setup_lock, loc, failed>>
     /\ UNCHANGED <<memoryVars, swapped, notCleaning, tid, ptid, crashes, misread>>

\* The first loop.  A dead sender with nothing announced (states 1 and 4 of
\* the comment) gets a scratch message that is not pinned; one that recorded
\* its exchange and did not clear to_replace (3) is finished; the others (2)
\* are for the hard case.
Easy(c) ==
  LET i == cloc[c].i
      scratch == sender[i].scratch
      to_replace == sender[i].to_replace
  IN /\ pc[c] = "easy"
     /\ \/ ~Dead(i) /\ NextSender(c, cloc[c], "easy", "pinners")
        \/ /\ Dead(i) /\ to_replace = InvalidIndex
           /\ cloc' = [cloc EXCEPT ![c].scratch = scratch]
           /\ loc' = [loc EXCEPT ![c] = NoLocals(i)]
           /\ Goto(c, "own_load")
           /\ UNCHANGED <<setup_lock, failed>>
        \/ /\ Dead(i) /\ to_replace = scratch
           /\ cloc' = [cloc EXCEPT ![c].scratch = scratch]
           /\ Goto(c, "clear_easy")
           /\ UNCHANGED <<setup_lock, loc, failed>>
        \/ /\ Dead(i) /\ to_replace \notin {InvalidIndex, scratch}
           /\ NextSender(c, [cloc[c] EXCEPT !.need_recovery = @ \cup {i}],
                         "easy", "pinners")
     /\ UNCHANGED <<memoryVars, swapped, notCleaning, tid, ptid, crashes, misread>>

\* From here on the entry says that its message is the one in scratch_index.
ClearEasy(c) ==
  /\ pc[c] = "clear_easy"
  /\ sender' = [sender EXCEPT ![cloc[c].i].to_replace = InvalidIndex]
  /\ swapped' = [swapped EXCEPT ![cloc[c].i] = FALSE]
  /\ Continue(c, "swap_done")
  /\ UNCHANGED <<next_queue_index, queue, message, pinner, notCleaning, tid,
                 ptid, crashes, misread>>

\* Both easy cases invalidate the message they found in scratch_index: what
\* SwapPinnedSenderScratch returned is not used.
InvalidateEasy(c) ==
  /\ pc[c] = "swap_done"
  /\ message' = [message EXCEPT ![cloc[c].scratch.m].queue_index = Sentinel]
  /\ loc' = [loc EXCEPT ![c] = NoLocals(0)]
  /\ Goto(c, "free_easy")
  /\ UNCHANGED <<next_queue_index, queue, sender, pinner, swapped, notCleaning,
                 recoveryVars>>

FreeEasy(c) ==
  /\ pc[c] = "free_easy"
  /\ tid' = [tid EXCEPT ![cloc[c].i] = "free"]
  /\ NextSender(c, [cloc[c] EXCEPT !.scratch = InvalidIndex], "easy", "pinners")
  /\ UNCHANGED <<memoryVars, swapped, notCleaning, ptid, crashes, misread>>

\* Dead pinners only lose their pin.
CleanPinner(c) ==
  LET i == cloc[c].i
      dead == ptid[i] = "died"
  IN /\ pc[c] = "pinners" /\ i < NumPinners
     /\ pinner' = IF dead THEN [pinner EXCEPT ![i].pinned = Sentinel] ELSE pinner
     /\ ptid' = IF dead THEN [ptid EXCEPT ![i] = "free"] ELSE ptid
     /\ cloc' = [cloc EXCEPT ![c].i = i + 1]
     /\ UNCHANGED <<next_queue_index, queue, message, sender, swapped, pc, loc,
                    notCleaning, tid, setup_lock, crashes, failed, misread>>

\* If all the senders are (or were made) good there is no hard case.
PinnersDone(c) ==
  /\ pc[c] = "pinners" /\ cloc[c].i = NumPinners
  /\ cloc' = [cloc EXCEPT ![c].i = 0]
  /\ Goto(c, IF cloc[c].need_recovery = {} THEN "claim" ELSE "account")
  /\ UNCHANGED <<memoryVars, swapped, loc, notCleaning, tid, ptid, setup_lock,
                 crashes, failed, misread>>

(***************************************************************************)
(* The hard case: look for every message at its possible holders, the      *)
(* senders, then the slots, then the pinners, over and over until only     *)
(* those of the dead senders are missing.                                  *)
(***************************************************************************)
\* Mutation: the last place is not looked at.
NumHolders_OffByOne == NumSenders + QueueSize + NumPinners - 1

NumHolders == NumSenders + QueueSize + NumPinners

\* The message in the i-th place that is looked at.
HeldAt(i) ==
  IF i < NumSenders THEN sender[i].scratch.m
  ELSE IF i < NumSenders + QueueSize THEN queue[i - NumSenders].m
  ELSE pinner[i - NumSenders - QueueSize].scratch.m

Account(c) ==
  LET i == cloc[c].i
      locals == IF i = 0 THEN [cloc[c] EXCEPT !.num_missing = 0] ELSE cloc[c]
      Found(new) ==
        /\ cloc' = [cloc EXCEPT ![c] = [new EXCEPT !.i = i + 1]]
        /\ Goto(c, IF i + 1 < NumHolders THEN "account" ELSE "accounted")
        /\ UNCHANGED <<setup_lock, loc, failed>>
      needs == i \in locals.need_recovery
      dead == i \in Senders /\ Dead(i)
  IN /\ pc[c] = "account"
     /\ \/ dead /\ ~needs /\ ReturnFalse(c)
        \/ dead /\ needs /\ Found([locals EXCEPT !.num_missing = @ + 1])
        \/ ~dead /\ IF needs THEN CheckFails(c, 293)
           ELSE Found([locals EXCEPT !.accounted_for = @ \cup {HeldAt(i)}])
     /\ misread' = (misread \/ (i \in Senders /\ ~dead /\ swapped[i]))
     /\ UNCHANGED <<memoryVars, swapped, notCleaning, tid, ptid, crashes>>

\* The end of a pass.
Accounted(c) ==
  LET found == Cardinality(cloc[c].accounted_for) + cloc[c].num_missing
  IN /\ pc[c] = "accounted"
     /\ IF found > NumMessages THEN CheckFails(c, 324)
        ELSE /\ cloc' = [cloc EXCEPT ![c].i = 0,
                                     ![c].starting = cloc[c].num_missing]
             /\ Goto(c, IF found = NumMessages THEN "resolve" ELSE "account")
             /\ UNCHANGED <<setup_lock, loc, failed>>
     /\ UNCHANGED <<memoryVars, swapped, notCleaning, tid, ptid, crashes, misread>>

\* A dead sender one of whose two messages is accounted for has the other.
Resolve(c) ==
  LET i == cloc[c].i
      needs == i \in cloc[c].need_recovery
      scratchSeen == sender[i].scratch.m \in cloc[c].accounted_for
      replaceSeen == \/ sender[i].to_replace = InvalidIndex
                     \/ sender[i].to_replace.m \in cloc[c].accounted_for
  IN /\ pc[c] = "resolve"
     /\ \/ ~Dead(i) /\ IF needs THEN CheckFails(c, 334)
                       ELSE NextSender(c, cloc[c], "resolve", "resolved")
        \/ Dead(i) /\ ~needs /\ ReturnFalse(c)
        \/ Dead(i) /\ needs /\ replaceSeen
             /\ IF scratchSeen THEN CheckFails(c, 357)
                ELSE Continue(c, "keep_clear")
        \/ Dead(i) /\ needs /\ ~replaceSeen /\ scratchSeen
             /\ Continue(c, "take_invalidate")
        \/ Dead(i) /\ needs /\ ~replaceSeen /\ ~scratchSeen
             /\ NextSender(c, cloc[c], "resolve", "resolved")
     /\ UNCHANGED <<memoryVars, swapped, notCleaning, tid, ptid, crashes, misread>>

\* It had not exchanged scratch_index yet, and keeps it.
KeepClear(c) ==
  /\ pc[c] = "keep_clear"
  /\ sender' = [sender EXCEPT ![cloc[c].i].to_replace = InvalidIndex]
  /\ swapped' = [swapped EXCEPT ![cloc[c].i] = FALSE]
  /\ Continue(c, "keep_invalidate")
  /\ UNCHANGED <<next_queue_index, queue, message, pinner, notCleaning, tid,
                 ptid, crashes, misread>>

KeepInvalidate(c) ==
  /\ pc[c] = "keep_invalidate"
  /\ message' = [message EXCEPT ![Scratch(cloc[c].i).m].queue_index = Sentinel]
  /\ Continue(c, "free_hard")
  /\ UNCHANGED <<next_queue_index, queue, sender, pinner, swapped, notCleaning,
                 tid, ptid, crashes, misread>>

\* It had, and did not record it.
TakeInvalidate(c) ==
  /\ pc[c] = "take_invalidate"
  /\ message' = [message EXCEPT
        ![sender[cloc[c].i].to_replace.m].queue_index = Sentinel]
  /\ Continue(c, "take_scratch")
  /\ UNCHANGED <<next_queue_index, queue, sender, pinner, swapped, notCleaning,
                 tid, ptid, crashes, misread>>

TakeScratch(c) ==
  LET i == cloc[c].i
  IN /\ pc[c] = "take_scratch"
     /\ sender' = [sender EXCEPT ![i].scratch = sender[i].to_replace]
     /\ swapped' = [swapped EXCEPT ![i] = FALSE]
     /\ Continue(c, "take_clear")
     /\ UNCHANGED <<next_queue_index, queue, message, pinner, notCleaning, tid,
                    ptid, crashes, misread>>

\* Mutation: the recorded exchange stays announced.
TakeClear_Forgotten(c) ==
  /\ pc[c] = "take_clear"
  /\ Continue(c, "free_hard")
  /\ UNCHANGED <<memoryVars, swapped, notCleaning, tid, ptid, crashes, misread>>

TakeClear(c) ==
  /\ pc[c] = "take_clear"
  /\ sender' = [sender EXCEPT ![cloc[c].i].to_replace = InvalidIndex]
  /\ Continue(c, "free_hard")
  /\ UNCHANGED <<next_queue_index, queue, message, pinner, swapped, notCleaning,
                 tid, ptid, crashes, misread>>

FreeHard(c) ==
  LET i == cloc[c].i
  IN /\ pc[c] = "free_hard"
     /\ tid' = [tid EXCEPT ![i] = "free"]
     /\ NextSender(c, [cloc[c] EXCEPT !.need_recovery = @ \ {i},
                                      !.num_missing = @ - 1,
                                      !.accounted_for = @ \cup {Scratch(i).m}],
                   "resolve", "resolved")
     /\ UNCHANGED <<memoryVars, swapped, notCleaning, ptid, crashes, misread>>

\* The end of a pass over the dead: it must have got somewhere.
Resolved(c) ==
  LET missing == cloc[c].num_missing
  IN /\ pc[c] = "resolved"
     /\ IF missing = cloc[c].starting THEN CheckFails(c, 408)
        ELSE /\ cloc' = [cloc EXCEPT ![c].starting = missing]
             /\ Goto(c, IF missing = 0 THEN "claim" ELSE "resolve")
             /\ UNCHANGED <<setup_lock, loc, failed>>
     /\ UNCHANGED <<memoryVars, swapped, notCleaning, tid, ptid, crashes, misread>>

DoCleanup(c) ==
  \/ Easy(c) \/ ClearEasy(c) \/ InvalidateEasy(c) \/ FreeEasy(c)
  \/ SwapPinnedSenderScratch(c) /\ UNCHANGED recoveryVars
  \/ CleanPinner(c) \/ PinnersDone(c) \/ Account(c) \/ Accounted(c) \/ Resolve(c)
  \/ KeepClear(c) \/ KeepInvalidate(c)
  \/ TakeInvalidate(c) \/ TakeScratch(c) \/ TakeClear(c)
  \/ FreeHard(c) \/ Resolved(c)

IsFirst(i, set) == i \in set /\ \A j \in set : i <= j

\* The rest of LocklessQueueSender's constructor.  If the CHECK at its end
\* fails, the process dies owning the entry.
ClaimSender(c) ==
  LET free == {s \in Senders : tid[s] = "free"}
      Used(i) == Valid(message[Scratch(i).m].queue_index)
  IN /\ pc[c] = "claim" /\ cloc[c].makes = "sender"
     /\ \/ free = {} /\ Leave(c) /\ UNCHANGED <<tid, failed>>
        \/ \E i \in free :
             /\ IsFirst(i, free)
             /\ tid' = [tid EXCEPT ![i] = IF Used(i) THEN "died" ELSE "alive"]
             /\ IF Used(i) THEN CheckFails(c, 868)
                ELSE Leave(c) /\ UNCHANGED failed
     /\ UNCHANGED <<memoryVars, swapped, notCleaning, ptid, crashes, misread>>

\* The rest of LocklessQueuePinner's constructor.
ClaimPinner(c) ==
  LET free == {p \in Pinners : ptid[p] = "free"}
  IN /\ pc[c] = "claim" /\ cloc[c].makes = "pinner"
     /\ Leave(c)
     /\ \/ free = {} /\ UNCHANGED <<pinner, ptid>>
        \/ \E i \in free :
             /\ IsFirst(i, free)
             /\ pinner' = [pinner EXCEPT ![i].pinned = Sentinel]
             /\ ptid' = [ptid EXCEPT ![i] = "alive"]
     /\ UNCHANGED <<next_queue_index, queue, message, sender, swapped,
                    notCleaning, tid, crashes, failed, misread>>

(***************************************************************************)
(* Destructors, and death at any point.  A dead sender's locals are gone;  *)
(* a dead pinner's last store still reaches memory.                        *)
(***************************************************************************)
ReleaseSender(s) ==
  /\ tid[s] = "alive" /\ pc[s] = "idle"
  /\ tid' = [tid EXCEPT ![s] = "free"]
  /\ UNCHANGED <<vars, ptid, setup_lock, cloc, crashes, failed, misread>>

ReleasePinner(p) ==
  /\ ptid[p] = "alive" /\ ppc[p] \in {"idle", "pinned"}
  /\ unflushed[p] = Sentinel
  /\ pinner' = [pinner EXCEPT ![p].pinned = Sentinel]
  /\ ptid' = [ptid EXCEPT ![p] = "free"]
  /\ ppc' = [ppc EXCEPT ![p] = "idle"]
  /\ ploc' = [ploc EXCEPT ![p] = NoPin]
  /\ UNCHANGED <<next_queue_index, queue, message, sender, unflushed, rpc, rloc,
                 sendSide, tid, setup_lock, cloc, crashes, failed, misread>>

Die == crashes < MaxCrashes /\ crashes' = crashes + 1

SenderDies(s) ==
  /\ tid[s] = "alive" /\ Die
  /\ tid' = [tid EXCEPT ![s] = "died"]
  /\ Goto(s, "idle")
  /\ loc' = [loc EXCEPT ![s] = NoLocals(s)]
  /\ UNCHANGED <<memoryVars, swapped, notCleaning, ptid, setup_lock, cloc,
                 failed, misread>>

PinnerDies(p) ==
  /\ ptid[p] = "alive" /\ Die /\ unflushed[p] = Sentinel
  /\ ptid' = [ptid EXCEPT ![p] = "died"]
  /\ ppc' = [ppc EXCEPT ![p] = "idle"]
  /\ ploc' = [ploc EXCEPT ![p] = NoPin]
  /\ UNCHANGED <<memoryVars, unflushed, rpc, rloc, sendSide, tid, setup_lock,
                 cloc, failed, misread>>

CleanerDies(c) ==
  /\ setup_lock = c /\ Die
  /\ Leave(c)
  /\ UNCHANGED <<memoryVars, swapped, notCleaning, tid, ptid, failed, misread>>

Constructor(c) ==
  \/ \E makes \in {"sender", "pinner"} : Grab(c, makes)
  \/ DoCleanup(c) \/ ClaimSender(c) \/ ClaimPinner(c) \/ CleanerDies(c)

RNext ==
  \/ \E s \in Senders :
       \/ tid[s] = "alive" /\ (Fill(s) \/ Send(s)) /\ UNCHANGED recoveryVars
       \/ ReleaseSender(s) \/ SenderDies(s)
  \/ \E p \in Pinners :
       \/ /\ ptid[p] = "alive"
          /\ \/ \E q \in Asked(1) : PinStore(p, q)
             \/ PinIndex(p) \/ Data(p)
          /\ UNCHANGED recoveryVars
       \/ ReleasePinner(p) \/ PinnerDies(p)
  \/ \E r \in Readers :
       /\ \/ \E q \in Asked(ReadAhead) : ReadStart(r, q)
          \/ Read(r)
       /\ UNCHANGED recoveryVars
  \/ \E c \in Cleaners : Constructor(c)

RSpec == RInit /\ [][RNext]_allVars

\* A live process that is scheduled goes on with its Send or its constructor.
FairRSpec ==
  /\ RSpec
  /\ \A s \in Senders :
       WF_allVars(tid[s] = "alive" /\ Send(s) /\ UNCHANGED recoveryVars)
  /\ \A c \in Cleaners :
       WF_allVars(DoCleanup(c) \/ ClaimSender(c) \/ ClaimPinner(c))

(***************************************************************************)
(* Properties.                                                             *)
(***************************************************************************)
Status == {"free", "alive", "died"}

\* The shared memory keeps its type, the entries of the sender and pinner
\* lists have a status, and the setup lock has at most one holder.
RTypeOK ==
  /\ TypeOK
  /\ tid \in [Senders -> Status] /\ ptid \in [Pinners -> Status]
  /\ setup_lock \in {"free"} \cup Cleaners
  /\ \A c \in Cleaners : pc[c] # "idle" <=> setup_lock = c
  /\ crashes \in 0 .. MaxCrashes

\* Whoever died wherever, and while the living keep sending, cleanup neither
\* duplicates nor loses a message, and none of the CHECKs in DoCleanup fails;
\* unless the accounting met a living sender between its exchange and the store
\* that records it.
OwnershipRecovered == misread \/ (Ownership /\ failed \subseteq {868})

\* Under the same proviso an entry that a constructor may take is consistent:
\* nothing announced, nothing exchanged and not recorded, and, where nobody
\* pins, a message no reader can take for a published one.
FreeIsClean ==
  misread \/ \A s \in Senders :
    tid[s] = "free" => /\ sender[s].to_replace = InvalidIndex
                       /\ ~swapped[s]
                       /\ NumPinners = 0 => ~Valid(message[Scratch(s).m].queue_index)

\* A constructor gets through Cleanup, however often DoCleanup starts again and
\* however long the living keep exchanging messages under it, unless pinners
\* keep changing their pins for ever.
CleanupReturns ==
  <>[][UNCHANGED Pins]_allVars =>
    \A c \in Cleaners : []<>(setup_lock # c)

\* What "If both are accounted for, we are corrupt..." takes for granted
\* (lockless_queue.cc:356): that never happens.
NotCorrupt == 357 \notin failed

\* What the constructor checks of the entry it takes: cleanup left it an
\* unused message (lockless_queue.cc:223-224, 868).
ClaimsUnused == 868 \notin failed
===============================================================================
