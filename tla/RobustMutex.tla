----------------------------- MODULE RobustMutex -----------------------------
(***************************************************************************)
(* Mutexes, condition variables and the robust list of                     *)
(* aos/ipc_lib/aos_sync.cc.                                                *)
(*                                                                         *)
(* A mutex is a priority-inheritance futex in shared memory: the TID of    *)
(* its owner and the FUTEX_WAITERS and FUTEX_OWNER_DIED bits.  A thread    *)
(* keeps the mutexes it has locked in a list linked through them; when it  *)
(* dies the kernel walks that list and the one entry announced in          *)
(* pending_next and frees what the thread owns.  One step is one access to *)
(* memory or one system call, and a thread may die between any two.        *)
(*                                                                         *)
(* The kernel's side is modelled from how the code relies on it.  Callers  *)
(* lock mutexes in increasing order and unlock only what they hold: for    *)
(* anything else the code aborts, which is one more death.                 *)
(***************************************************************************)
EXTENDS Integers, FiniteSets

CONSTANTS
  Threads,     \* tasks; a thread also stands for the head of its list
  NumMutexes,
  MaxWakes,    \* bound: calls of condition_signal and condition_broadcast
  MaxSignals,  \* bound: signals delivered to a thread that waits
  MaxDeaths    \* bound: threads that die

ASSUME MutexAssumption ==
  /\ NumMutexes \in Nat \ {0}
  /\ MaxWakes \in Nat /\ MaxSignals \in Nat /\ MaxDeaths \in Nat
  /\ Threads \cap (0 .. NumMutexes) = {}

VARIABLES
  futex,      \* aos_mutex::futex
  next,       \* aos_mutex::next, and robust_head.next of every thread
  previous,   \* aos_mutex::previous
  pending,    \* robust_head.pending_next, 0 if there is none
  waiting,    \* kernel: the threads blocked on a mutex
  cond,       \* the aos_condition of mutex 1: a generation counter
  asleep,     \* kernel: the threads asleep on it
  pc, loc,    \* the call a thread is in
  held,       \* what a thread has locked and not yet started to unlock
  wakes, signals, deaths,
  abandoned,  \* history: died with the mutex held, and nobody has been told
  broadcast   \* history: cond before the last broadcast that has returned

listVars == <<next, previous, pending>>
kernelVars == <<waiting, asleep>>
boundVars == <<wakes, signals, deaths>>
vars == <<futex, listVars, kernelVars, cond, pc, loc, held, boundVars,
          abandoned, broadcast>>

Mutexes == 1 .. NumMutexes
Nobody == 0
Unlocked == [tid |-> Nobody, waiters |-> FALSE, died |-> FALSE]
LockedBy(t) == [Unlocked EXCEPT !.tid = t]

Waits == {"wait", "timed_wait"}
Locks == {"lock", "timeout", "grab", "try"}

NoCall == [call |-> "none", m |-> 1, old |-> Nobody, result |-> 0,
           add_first |-> FALSE, timed_out |-> FALSE, value |-> 0]

Init ==
  /\ futex = [m \in Mutexes |-> Unlocked]
  /\ next = [n \in Mutexes \cup Threads |-> n]
  /\ previous = [m \in Mutexes |-> Nobody]
  /\ pending = [t \in Threads |-> Nobody]
  /\ waiting = [m \in Mutexes |-> {}]
  /\ cond = 0
  /\ asleep = {}
  /\ pc = [t \in Threads |-> "idle"]
  /\ loc = [t \in Threads |-> NoCall]
  /\ held = [t \in Threads |-> {}]
  /\ wakes = 0 /\ signals = 0 /\ deaths = 0
  /\ abandoned = [m \in Mutexes |-> FALSE]
  /\ broadcast = -1

M(t) == loc[t].m
Goto(t, label) == pc' = [pc EXCEPT ![t] = label]

(***************************************************************************)
(* mutex_lock, mutex_lock_timeout, mutex_grab and mutex_trylock.           *)
(***************************************************************************)
\* The Adder announces the mutex before anything else happens.
StartLock(t, call, m) ==
  /\ pc[t] = "idle" /\ \A h \in held[t] : h < m
  /\ pending' = [pending EXCEPT ![t] = m]
  /\ loc' = [loc EXCEPT ![t] = [NoCall EXCEPT !.call = call, !.m = m]]
  /\ Goto(t, "cas")
  /\ UNCHANGED <<futex, next, previous, kernelVars, cond, held, boundVars,
                 abandoned, broadcast>>

\* The call ends without the mutex.
GiveUp(t, result) ==
  /\ loc' = [loc EXCEPT ![t].result = result]
  /\ Goto(t, "unpend")

\* Mutation: takes any futex without owner, OWNER_DIED or not.
Cas_IgnoresDied(t) ==
  /\ pc[t] = "cas"
  /\ IF futex[M(t)].tid = Nobody
     THEN /\ futex' = [futex EXCEPT ![M(t)] = LockedBy(t)]
          /\ loc' = [loc EXCEPT ![t].result = 0]
          /\ Goto(t, "add_next")
     ELSE /\ Goto(t, "lock_pi") /\ UNCHANGED <<futex, loc>>
  /\ UNCHANGED <<listVars, kernelVars, cond, held, boundVars, abandoned, broadcast>>

\* compare_and_swap(&m->futex, 0, tid)
Cas(t) ==
  /\ pc[t] = "cas"
  /\ \/ /\ futex[M(t)] = Unlocked
        /\ futex' = [futex EXCEPT ![M(t)] = LockedBy(t)]
        /\ loc' = [loc EXCEPT ![t].result = 0]
        /\ Goto(t, "add_next")
     \/ /\ futex[M(t)] # Unlocked /\ loc[t].call # "try"
        /\ Goto(t, "lock_pi")
        /\ UNCHANGED <<futex, loc>>
     \/ /\ futex[M(t)] # Unlocked /\ loc[t].call = "try"
        /\ IF futex[M(t)].died
           THEN Goto(t, "trylock_pi") /\ UNCHANGED loc
           ELSE GiveUp(t, 4)
        /\ UNCHANGED futex
  /\ UNCHANGED <<listVars, kernelVars, cond, held, boundVars, abandoned, broadcast>>

\* What FUTEX_LOCK_PI and FUTEX_TRYLOCK_PI leave in a futex without owner.
TakenBy(t, m) == [LockedBy(t) EXCEPT !.died = futex[m].died]

LockPi(t) ==
  /\ pc[t] = "lock_pi"
  /\ \/ /\ futex[M(t)].tid = Nobody
        /\ futex' = [futex EXCEPT ![M(t)] = TakenBy(t, M(t))]
        /\ Goto(t, "finish")
        /\ UNCHANGED waiting
     \/ /\ futex[M(t)].tid # Nobody
        /\ futex' = [futex EXCEPT ![M(t)].waiters = TRUE]
        /\ waiting' = [waiting EXCEPT ![M(t)] = @ \cup {t}]
        /\ Goto(t, "blocked")
  /\ UNCHANGED <<listVars, asleep, cond, loc, held, boundVars, abandoned, broadcast>>

\* Only trylock adds the mutex to the list before it looks for OWNER_DIED.
TrylockPi(t) ==
  /\ pc[t] = "trylock_pi"
  /\ IF futex[M(t)].tid = Nobody
     THEN /\ futex' = [futex EXCEPT ![M(t)] = TakenBy(t, M(t))]
          /\ loc' = [loc EXCEPT ![t].add_first = TRUE]
          /\ Goto(t, "add_next")
     ELSE GiveUp(t, 4) /\ UNCHANGED futex
  /\ UNCHANGED <<listVars, kernelVars, cond, held, boundVars, abandoned, broadcast>>

\* A signal ends the wait in the kernel: mutex_lock gives up, mutex_grab and the
\* lock at the end of condition_wait try again.
Interrupted(t) ==
  /\ pc[t] \in {"blocked", "requeued"} /\ signals < MaxSignals
  /\ signals' = signals + 1
  /\ waiting' = [waiting EXCEPT ![M(t)] = @ \ {t}]
  /\ IF loc[t].call \in {"lock", "timeout"} THEN GiveUp(t, 2)
     ELSE Goto(t, "cas") /\ UNCHANGED loc
  /\ UNCHANGED <<futex, listVars, asleep, cond, held, wakes, deaths, abandoned,
                 broadcast>>

TimesOut(t) ==
  /\ \/ pc[t] = "blocked" /\ loc[t].call = "timeout" /\ GiveUp(t, 3)
     \/ /\ pc[t] = "requeued" /\ loc[t].call = "timed_wait"
        /\ loc' = [loc EXCEPT ![t].timed_out = TRUE]
        /\ Goto(t, "cas")
  /\ waiting' = [waiting EXCEPT ![M(t)] = @ \ {t}]
  /\ UNCHANGED <<futex, listVars, asleep, cond, held, boundVars, abandoned,
                 broadcast>>

AfterFinish(t) == IF loc[t].add_first THEN "unpend" ELSE "add_next"

\* mutex_finish_lock: load, ...
Finish(t) ==
  /\ pc[t] = "finish"
  /\ loc' = [loc EXCEPT ![t].result = 0]
  /\ Goto(t, IF futex[M(t)].died THEN "clear" ELSE AfterFinish(t))
  /\ UNCHANGED <<futex, listVars, kernelVars, cond, held, boundVars, abandoned,
                 broadcast>>

\* Mutation: clears the bit and does not tell.
Clear_ReturnsZero(t) ==
  /\ pc[t] = "clear"
  /\ futex' = [futex EXCEPT ![M(t)].died = FALSE]
  /\ Goto(t, AfterFinish(t))
  /\ UNCHANGED <<listVars, kernelVars, cond, loc, held, boundVars, abandoned,
                 broadcast>>

\* ... and clear FUTEX_OWNER_DIED.
Clear(t) ==
  /\ pc[t] = "clear"
  /\ futex' = [futex EXCEPT ![M(t)].died = FALSE]
  /\ loc' = [loc EXCEPT ![t].result = 1]
  /\ Goto(t, AfterFinish(t))
  /\ UNCHANGED <<listVars, kernelVars, cond, held, boundVars, abandoned, broadcast>>

\* Mutation: the rest of the list is not linked behind the mutex.
AddNext_Unlinked(t) ==
  /\ pc[t] = "add_next"
  /\ loc' = [loc EXCEPT ![t].old = next[t]]
  /\ Goto(t, "add_head")
  /\ UNCHANGED <<futex, listVars, kernelVars, cond, held, boundVars, abandoned,
                 broadcast>>

\* Adder::Add, store by store.
AddNext(t) ==
  /\ pc[t] = "add_next"
  /\ next' = [next EXCEPT ![M(t)] = next[t]]
  /\ loc' = [loc EXCEPT ![t].old = next[t]]
  /\ Goto(t, "add_head")
  /\ UNCHANGED <<futex, previous, pending, kernelVars, cond, held, boundVars,
                 abandoned, broadcast>>

AddHead(t) ==
  /\ pc[t] = "add_head"
  /\ next' = [next EXCEPT ![t] = M(t)]
  /\ Goto(t, "add_previous")
  /\ UNCHANGED <<futex, previous, pending, kernelVars, cond, loc, held, boundVars,
                 abandoned, broadcast>>

\* Nobody else reads previous: both stores in one step.
AddPrevious(t) ==
  /\ pc[t] = "add_previous"
  /\ previous' = [m \in Mutexes |->
        IF m = M(t) THEN t ELSE IF m = loc[t].old THEN M(t) ELSE previous[m]]
  /\ Goto(t, IF loc[t].add_first THEN "finish" ELSE "unpend")
  /\ UNCHANGED <<futex, next, pending, kernelVars, cond, loc, held, boundVars,
                 abandoned, broadcast>>

\* What a condition_wait that timed out returns, unless the owner died.
Result(t) == IF loc[t].timed_out /\ loc[t].result = 0 THEN -1 ELSE loc[t].result

\* The Adder is destroyed and the call returns.
Unpend(t) ==
  LET locked == loc[t].result \in {0, 1}
  IN /\ pc[t] = "unpend"
     /\ pending' = [pending EXCEPT ![t] = Nobody]
     /\ held' = IF locked THEN [held EXCEPT ![t] = @ \cup {M(t)}] ELSE held
     /\ abandoned' = IF locked /\ Result(t) = 1
                     THEN [abandoned EXCEPT ![M(t)] = FALSE] ELSE abandoned
     /\ loc' = [loc EXCEPT ![t] = NoCall]
     /\ Goto(t, "idle")
     /\ UNCHANGED <<futex, next, previous, kernelVars, cond, boundVars, broadcast>>

(***************************************************************************)
(* mutex_unlock.                                                           *)
(***************************************************************************)
\* The Remover announces the mutex, ...
Announce(t, m) ==
  /\ pending' = [pending EXCEPT ![t] = m]
  /\ held' = [held EXCEPT ![t] = @ \ {m}]
  /\ Goto(t, "remove_next")

StartUnlock(t, m) ==
  /\ pc[t] = "idle" /\ m \in held[t]
  /\ loc' = [loc EXCEPT ![t] = [NoCall EXCEPT !.call = "unlock", !.m = m]]
  /\ Announce(t, m)
  /\ UNCHANGED <<futex, next, previous, kernelVars, cond, boundVars, abandoned,
                 broadcast>>

\* ... takes it off the list, ...
RemoveNext(t) ==
  /\ pc[t] = "remove_next"
  /\ next' = [next EXCEPT ![previous[M(t)]] = next[M(t)]]
  /\ Goto(t, "remove_previous")
  /\ UNCHANGED <<futex, previous, pending, kernelVars, cond, loc, held, boundVars,
                 abandoned, broadcast>>

RemovePrevious(t) ==
  /\ pc[t] = "remove_previous"
  /\ previous' = [m \in Mutexes |->
        IF m = next[M(t)] THEN previous[M(t)] ELSE previous[m]]
  /\ Goto(t, "release")
  /\ UNCHANGED <<futex, next, pending, kernelVars, cond, loc, held, boundVars,
                 abandoned, broadcast>>

\* Mutation: a plain store.
Release_Stores(t) ==
  /\ pc[t] = "release"
  /\ futex' = [futex EXCEPT ![M(t)] = Unlocked]
  /\ Goto(t, "removed")
  /\ UNCHANGED <<listVars, kernelVars, cond, loc, held, boundVars, abandoned,
                 broadcast>>

\* ... and then the futex goes from TID to 0, here or in the kernel.
Release(t) ==
  /\ pc[t] = "release"
  /\ IF futex[M(t)] = LockedBy(t)
     THEN /\ futex' = [futex EXCEPT ![M(t)] = Unlocked]
          /\ Goto(t, "removed")
     ELSE Goto(t, "unlock_pi") /\ UNCHANGED futex
  /\ UNCHANGED <<listVars, kernelVars, cond, loc, held, boundVars, abandoned,
                 broadcast>>

\* Where a thread goes on that the kernel has made the owner.
Granted(t) == IF pc[t] = "requeued" THEN "woken" ELSE "finish"

\* FUTEX_UNLOCK_PI: the mutex goes to a waiter if there is one.
UnlockPi(t) ==
  LET m == M(t)
  IN /\ pc[t] = "unlock_pi"
     /\ \/ /\ waiting[m] = {}
           /\ futex' = [futex EXCEPT ![m] = Unlocked]
           /\ Goto(t, "removed")
           /\ UNCHANGED waiting
        \/ \E w \in waiting[m] :
             /\ futex' = [futex EXCEPT ![m] = [LockedBy(w) EXCEPT !.waiters = TRUE]]
             /\ waiting' = [waiting EXCEPT ![m] = @ \ {w}]
             /\ pc' = [pc EXCEPT ![t] = "removed", ![w] = Granted(w)]
     /\ UNCHANGED <<listVars, asleep, cond, loc, held, boundVars, abandoned,
                    broadcast>>

\* The Remover is destroyed.
Removed(t) ==
  /\ pc[t] = "removed"
  /\ pending' = [pending EXCEPT ![t] = Nobody]
  /\ IF loc[t].call \in Waits
     THEN Goto(t, "wait_pend") /\ UNCHANGED loc
     ELSE Goto(t, "idle") /\ loc' = [loc EXCEPT ![t] = NoCall]
  /\ UNCHANGED <<futex, next, previous, kernelVars, cond, held, boundVars,
                 abandoned, broadcast>>

(***************************************************************************)
(* condition_wait.                                                         *)
(***************************************************************************)
\* Remember the generation while the mutex is held, then unlock.
StartWait(t, call) ==
  /\ pc[t] = "idle" /\ held[t] = {1}
  /\ loc' = [loc EXCEPT ![t] = [NoCall EXCEPT !.call = call, !.value = cond]]
  /\ Announce(t, 1)
  /\ UNCHANGED <<futex, next, previous, kernelVars, cond, boundVars, abandoned,
                 broadcast>>

WaitPend(t) ==
  /\ pc[t] = "wait_pend"
  /\ pending' = [pending EXCEPT ![t] = M(t)]
  /\ Goto(t, "wait_requeue_pi")
  /\ UNCHANGED <<futex, next, previous, kernelVars, cond, loc, held, boundVars,
                 abandoned, broadcast>>

\* FUTEX_WAIT_REQUEUE_PI: EAGAIN if the generation has changed.
WaitRequeuePi(t) ==
  /\ pc[t] = "wait_requeue_pi"
  /\ IF cond # loc[t].value
     THEN Goto(t, "cas") /\ UNCHANGED asleep
     ELSE Goto(t, "asleep") /\ asleep' = asleep \cup {t}
  /\ UNCHANGED <<futex, listVars, waiting, cond, loc, held, boundVars, abandoned,
                 broadcast>>

SleepInterrupted(t) ==
  /\ pc[t] = "asleep" /\ signals < MaxSignals
  /\ signals' = signals + 1
  /\ asleep' = asleep \ {t}
  /\ Goto(t, "wait_requeue_pi")
  /\ UNCHANGED <<futex, listVars, waiting, cond, loc, held, wakes, deaths,
                 abandoned, broadcast>>

SleepTimesOut(t) ==
  /\ pc[t] = "asleep" /\ loc[t].call = "timed_wait"
  /\ asleep' = asleep \ {t}
  /\ loc' = [loc EXCEPT ![t].timed_out = TRUE]
  /\ Goto(t, "cas")
  /\ UNCHANGED <<futex, listVars, waiting, cond, held, boundVars, abandoned,
                 broadcast>>

\* The kernel has locked the mutex for us: add it, then look for OWNER_DIED.
Woken(t) ==
  /\ pc[t] = "woken"
  /\ loc' = [loc EXCEPT ![t].add_first = TRUE]
  /\ Goto(t, "add_next")
  /\ UNCHANGED <<futex, listVars, kernelVars, cond, held, boundVars, abandoned,
                 broadcast>>

(***************************************************************************)
(* condition_signal and condition_broadcast.                               *)
(***************************************************************************)
StartWake(t, call) ==
  /\ pc[t] = "idle" /\ wakes < MaxWakes
  /\ wakes' = wakes + 1
  /\ cond' = cond + 1
  /\ loc' = [loc EXCEPT ![t] = [NoCall EXCEPT !.call = call, !.old = cond,
                                              !.value = cond + 1]]
  /\ Goto(t, "requeue_pi")
  /\ UNCHANGED <<futex, listVars, kernelVars, held, signals, deaths, abandoned,
                 broadcast>>

Returned(t) ==
  /\ loc' = [loc EXCEPT ![t] = NoCall]
  /\ broadcast' = IF loc[t].call = "broadcast" /\ loc[t].old > broadcast
                  THEN loc[t].old ELSE broadcast

\* FUTEX_CMP_REQUEUE_PI: EAGAIN if the generation is not the expected one.  The
\* first sleeper (or all) is moved to the mutex, which it gets if it is free.
RequeuePi(t) ==
  LET all == loc[t].call = "broadcast"
      free == futex[1].tid = Nobody
      Moved(w) == (IF all THEN asleep ELSE {w}) \ (IF free THEN {w} ELSE {})
  IN /\ pc[t] = "requeue_pi"
     /\ \/ /\ cond # loc[t].value
           /\ Goto(t, "reload")
           /\ UNCHANGED <<futex, kernelVars, loc, broadcast>>
        \/ /\ cond = loc[t].value /\ asleep = {}
           /\ Returned(t) /\ Goto(t, "idle")
           /\ UNCHANGED <<futex, kernelVars>>
        \/ /\ cond = loc[t].value
           /\ \E w \in asleep :
                /\ futex' = [futex EXCEPT
                      ![1] = IF free THEN [TakenBy(w, 1) EXCEPT !.waiters = all]
                             ELSE [@ EXCEPT !.waiters = TRUE]]
                /\ waiting' = [waiting EXCEPT ![1] = @ \cup Moved(w)]
                /\ asleep' = IF all THEN {} ELSE asleep \ {w}
                /\ pc' = [x \in Threads |->
                      IF x = t THEN "idle"
                      ELSE IF x \in Moved(w) THEN "requeued"
                      ELSE IF x = w THEN "woken" ELSE pc[x]]
           /\ Returned(t)
     /\ UNCHANGED <<listVars, cond, held, boundVars, abandoned>>

\* Mutation: leaves the sleepers to the other one.
Reload_GivesUp(t) ==
  /\ pc[t] = "reload"
  /\ Returned(t) /\ Goto(t, "idle")
  /\ UNCHANGED <<futex, listVars, kernelVars, cond, held, boundVars, abandoned>>

\* Somebody else did a condition_wake.
Reload(t) ==
  /\ pc[t] = "reload"
  /\ loc' = [loc EXCEPT ![t].value = cond]
  /\ Goto(t, "requeue_pi")
  /\ UNCHANGED <<futex, listVars, kernelVars, cond, held, boundVars, abandoned,
                 broadcast>>

(***************************************************************************)
(* Death: the kernel walks the list, then looks at pending_next.           *)
(***************************************************************************)
\* The n-th entry of the list of t, or t itself behind its end.
Walk(t) ==
  LET entry[n \in 0 .. NumMutexes] ==
        IF n = 0 THEN next[t]
        ELSE IF entry[n - 1] \in Mutexes THEN next[entry[n - 1]] ELSE entry[n - 1]
  IN entry

Listed(t) == {Walk(t)[n] : n \in 0 .. NumMutexes} \cap Mutexes

Dies(t) ==
  LET freed == {m \in Listed(t) \cup ({pending[t]} \cap Mutexes) :
                  futex[m].tid = t}
      Left(m) == waiting[m] \ {t}
      contended == {m \in freed : Left(m) # {}}
  IN /\ pc[t] # "dead" /\ deaths < MaxDeaths
     /\ deaths' = deaths + 1
     /\ \E heir \in [contended -> Threads] :
          /\ \A m \in contended : heir[m] \in Left(m)
          /\ futex' = [m \in Mutexes |->
                IF m \in contended
                THEN [tid |-> heir[m], waiters |-> TRUE, died |-> TRUE]
                ELSE IF m \in freed THEN [futex[m] EXCEPT !.tid = Nobody, !.died = TRUE]
                ELSE futex[m]]
          /\ waiting' = [m \in Mutexes |->
                IF m \in contended THEN Left(m) \ {heir[m]} ELSE Left(m)]
          /\ pc' = [x \in Threads |->
                IF x = t THEN "dead"
                ELSE IF \E m \in contended : heir[m] = x THEN Granted(x)
                ELSE pc[x]]
     /\ asleep' = asleep \ {t}
     /\ abandoned' = [m \in Mutexes |-> abandoned[m] \/ m \in held[t]]
     /\ held' = [held EXCEPT ![t] = {}]
     /\ loc' = [loc EXCEPT ![t] = NoCall]
     /\ UNCHANGED <<listVars, cond, wakes, signals, broadcast>>

Step(t) ==
  \/ Cas(t) \/ LockPi(t) \/ TrylockPi(t) \/ Finish(t) \/ Clear(t)
  \/ AddNext(t) \/ AddHead(t) \/ AddPrevious(t) \/ Unpend(t)
  \/ RemoveNext(t) \/ RemovePrevious(t) \/ Release(t) \/ UnlockPi(t) \/ Removed(t)
  \/ WaitPend(t) \/ WaitRequeuePi(t) \/ Woken(t) \/ RequeuePi(t) \/ Reload(t)

Call(t) ==
  \/ \E call \in Locks, m \in Mutexes : StartLock(t, call, m)
  \/ \E m \in Mutexes : StartUnlock(t, m)
  \/ \E call \in Waits : StartWait(t, call)
  \/ \E call \in {"signal", "broadcast"} : StartWake(t, call)

Next ==
  \E t \in Threads :
    \/ Call(t) \/ Step(t) \/ Interrupted(t) \/ TimesOut(t)
    \/ SleepInterrupted(t) \/ SleepTimesOut(t) \/ Dies(t)

Spec == Init /\ [][Next]_vars

(***************************************************************************)
(* Properties.                                                             *)
(***************************************************************************)
Futex == [tid : Threads \cup {Nobody}, waiters : BOOLEAN, died : BOOLEAN]

\* Every word has its type, and a thread outside the Adder and the Remover has
\* nothing pending (what they assert, aos_sync.cc:587, 638).
TypeOK ==
  /\ futex \in [Mutexes -> Futex]
  /\ next \in [Mutexes \cup Threads -> Mutexes \cup Threads]
  /\ previous \in [Mutexes -> Mutexes \cup Threads \cup {Nobody}]
  /\ pending \in [Threads -> Mutexes \cup {Nobody}]
  /\ waiting \in [Mutexes -> SUBSET Threads]
  /\ held \in [Threads -> SUBSET Mutexes]
  /\ \A t \in Threads : pc[t] \in {"idle", "wait_pend"} => pending[t] = Nobody

\* A thread whose lock call returned owns the mutex until it starts to unlock
\* it, so no two threads hold it at once.
MutualExclusion ==
  \A t \in Threads : \A m \in held[t] : futex[m].tid = t

\* Wherever a thread dies, the kernel finds its way through the list back to
\* the head, meets every mutex the thread owns there or in pending_next, and no
\* mutex of anybody else.
RobustListComplete ==
  \A t \in Threads :
    pc[t] # "dead" =>
      /\ Walk(t)[NumMutexes] = t
      /\ {m \in Mutexes : futex[m].tid = t} \subseteq Listed(t) \cup {pending[t]}
      /\ \A m \in Listed(t) : futex[m].tid = t

\* Nobody waits in the kernel for a mutex without owner or for one whose owner
\* would unlock it without asking the kernel.
NobodyStranded ==
  \A m \in Mutexes :
    waiting[m] # {} => futex[m].tid # Nobody /\ futex[m].waiters

\* "if a task dies while holding a mutex, the next person who locks it will be
\* notified" (aos_sync.h:67): no call returns anything but 1 with it.
DeathNotified ==
  [][\A t \in Threads, m \in Mutexes :
       m \in held'[t] \ held[t] /\ abandoned[m] => Result(t) = 1]_vars

\* "Wakes all processes that are condition_waiting on c" (aos_sync.h:178): no
\* thread that began to wait before a broadcast is asleep after it, whoever
\* signalled in between.
BroadcastWakesAll == \A t \in asleep : loc[t].value > broadcast

\* The futexes, the list and the kernel together implement the mutex that
\* aos_sync.h promises: one owner, freed and flagged by its death.
Abstract == INSTANCE AbstractMutex WITH
  Tasks <- Threads,
  owner <- [m \in Mutexes |-> futex[m].tid],
  flagged <- [m \in Mutexes |-> futex[m].died]

ImplementsMutex == Abstract!Spec
===============================================================================
