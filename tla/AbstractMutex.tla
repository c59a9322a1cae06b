---------------------------- MODULE AbstractMutex ----------------------------
(***************************************************************************)
(* What aos/ipc_lib/aos_sync.h promises of a mutex: one owner at a time,   *)
(* and the death of the owner frees it and leaves word for the next one.   *)
(***************************************************************************)
CONSTANTS Tasks, Mutexes, Nobody

VARIABLES
  owner,    \* who has the mutex, or Nobody
  flagged   \* an owner died, and no owner since has taken notice

vars == <<owner, flagged>>

Init ==
  /\ owner = [m \in Mutexes |-> Nobody]
  /\ flagged = [m \in Mutexes |-> FALSE]

Lock(t, m) ==
  /\ owner[m] = Nobody
  /\ owner' = [owner EXCEPT ![m] = t]
  /\ UNCHANGED flagged

TakeNotice(m) ==
  /\ owner[m] # Nobody /\ flagged[m]
  /\ flagged' = [flagged EXCEPT ![m] = FALSE]
  /\ UNCHANGED owner

\* The mutex becomes free or goes straight to a task that waits for it.
Unlock(t, m) ==
  /\ owner[m] = t /\ ~flagged[m]
  /\ \E heir \in (Tasks \cup {Nobody}) \ {t} : owner' = [owner EXCEPT ![m] = heir]
  /\ UNCHANGED flagged

\* Everything the task owned, and nothing else, changes hands.
Die(t) ==
  /\ \A m \in Mutexes :
       IF owner[m] = t THEN owner'[m] # t ELSE owner'[m] = owner[m]
  /\ owner' \in [Mutexes -> Tasks \cup {Nobody}]
  /\ flagged' = [m \in Mutexes |-> flagged[m] \/ owner[m] = t]

Next ==
  \E t \in Tasks :
    \/ Die(t)
    \/ \E m \in Mutexes : Lock(t, m) \/ TakeNotice(m) \/ Unlock(t, m)

Spec == Init /\ [][Next]_vars
===============================================================================
