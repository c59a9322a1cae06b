--------------------------- MODULE StarterdProofs ---------------------------
(***************************************************************************)
(* The safety properties of the starter daemon, for any number of          *)
(* applications, processes and commands and any lateness of the loop.      *)
(***************************************************************************)
EXTENDS Starterd, TLAPS

AppRec == [status : State, pid : Pids \union {NoPid}, id : Int,
           queue_restart : BOOLEAN, terminating : BOOLEAN,
           start : Int, restart : Int, stop : Int]

ProcRec == [state : {"free", "zombie"} \union Alive,
            owner : Apps \union {NoPid}]

Types ==
  /\ app \in [Apps -> AppRec]
  /\ applications \subseteq Apps
  /\ todo \subseteq Apps
  /\ proc \in [Pids -> ProcRec]
  /\ cleanup \in Int
  /\ nextId \in Int

(***************************************************************************)
(* The timers of one application agree with its state, and are Off or were *)
(* set no further ahead than the code sets them.                           *)
(***************************************************************************)
TimersOK(r) ==
  /\ r.start # Off <=> r.status = "STARTING"
  /\ r.restart # Off <=> r.status = "WAITING"
  /\ r.stop # Off => r.status = "STOPPING"
  /\ r.start <= Off /\ r.restart <= Off
  /\ r.stop = Off \/ r.stop <= StopDelay

TimersInv == Types /\ \A a \in Apps : TimersOK(app[a])

-----------------------------------------------------------------------------
(***************************************************************************)
(* What the operations of an Application do to its record.                 *)
(***************************************************************************)

\* Every operation replaces the record of a by a well-formed q.
Replaces(a, q) ==
  /\ q \in AppRec /\ TimersOK(q)
  /\ app' = [app EXCEPT ![a] = q]

\* A record r of a as a handler hands it to DoStart: nothing runs, and the
\* only timer that may be set is restart_timer_.
Startable(a, r) ==
  /\ app[a].status \notin Active
  /\ r \in AppRec
  /\ r.pid = app[a].pid
  /\ r.status = "WAITING"
  /\ r.stop = Off

\* Nothing ran, and nothing does: fork() failed, or the restart was called off.
Idled(a, r, q) ==
  /\ Replaces(a, q)
  /\ app[a].status \notin Active
  /\ q.status = "STOPPED" /\ q.pid = app[a].pid
  /\ q.queue_restart = r.queue_restart /\ q.terminating = r.terminating
  /\ proc' = proc

\* fork() returned p.
Forked(a, r, q, p) ==
  /\ Replaces(a, q)
  /\ app[a].status \notin Active
  /\ q.status = "STARTING" /\ q.pid = p
  /\ q.queue_restart = r.queue_restart /\ q.terminating = r.terminating
  /\ p \in ForkResults(a)
  /\ proc' = [proc EXCEPT ![p] = [state |-> "up", owner |-> a]]

\* The process goes on; if it is STOPPING, its queue_restart_ may change.
Kept(a, r, q, restart) ==
  /\ Replaces(a, q)
  /\ app[a].status \in Active
  /\ q.status = app[a].status /\ q.pid = app[a].pid /\ q.stop = app[a].stop
  /\ q.queue_restart = IF q.status = "STOPPING" THEN restart
                                                ELSE r.queue_restart
  /\ q.terminating = r.terminating
  /\ proc' = proc

\* The process was sent a SIGINT.
Interrupted(a, r, q, restart) ==
  /\ Replaces(a, q)
  /\ app[a].status \in Active
  /\ q.status = "STOPPING" /\ q.pid = app[a].pid /\ q.stop = StopDelay
  /\ q.queue_restart = restart /\ q.terminating = r.terminating
  /\ proc' = Signalled(app[a].pid, "interrupted")

LEMMA Values ==
  /\ Off \in Int /\ StartDelay \in Int /\ StopDelay \in Int
  /\ RestartDelay \in Int /\ CleanupDelay \in Int
  /\ "WAITING" \in State /\ "STARTING" \in State /\ "RUNNING" \in State
  /\ "STOPPING" \in State /\ "STOPPED" \in State
  BY DEF Off, StartDelay, StopDelay, RestartDelay, CleanupDelay, State

LEMMA DoStartEffect ==
  ASSUME Types, NEW a \in Apps, NEW r, Startable(a, r), DoStart(a, r)
  PROVE  /\ nextId' \in Int
         /\ \E q \in AppRec : \/ Idled(a, r, q)
                              \/ \E p \in Pids : Forked(a, r, q, p)
  <1>1. PICK pid \in ForkResults(a) :
          LET quiet == [r EXCEPT !.start = Off, !.restart = Off]
          IN /\ app' = [app EXCEPT ![a] =
                 IF pid = NoPid
                 THEN [quiet EXCEPT !.status = "STOPPED"]
                 ELSE [quiet EXCEPT !.status = "STARTING", !.pid = pid,
                                    !.id = nextId, !.start = StartDelay]]
             /\ proc' = IF pid = NoPid THEN proc
                        ELSE [proc EXCEPT ![pid] = [state |-> "up", owner |-> a]]
             /\ nextId' = IF pid = NoPid THEN nextId ELSE nextId + 1
    BY Zenon DEF DoStart, Startable
  <1>2. nextId' \in Int
    BY <1>1 DEF Types
  <1> DEFINE quiet == [r EXCEPT !.start = Off, !.restart = Off]
  <1>3. /\ quiet \in AppRec
        /\ quiet.start = Off /\ quiet.restart = Off /\ quiet.stop = Off
        /\ quiet.pid = r.pid
        /\ quiet.queue_restart = r.queue_restart
        /\ quiet.terminating = r.terminating
    BY Values, Zenon DEF Startable, AppRec
  <1>4. CASE pid = NoPid
    <2> DEFINE q == [quiet EXCEPT !.status = "STOPPED"]
    <2>1. app' = [app EXCEPT ![a] = q] /\ proc' = proc
      BY <1>1, <1>4
    <2> HIDE DEF quiet
    <2>2. /\ q \in AppRec
          /\ q.status = "STOPPED" /\ q.pid = r.pid /\ q.start = Off
          /\ q.restart = Off /\ q.stop = Off
          /\ q.queue_restart = r.queue_restart /\ q.terminating = r.terminating
      BY <1>3, Values DEF AppRec, Startable
    <2> HIDE DEF q
    <2>3. TimersOK(q)
      BY <2>2 DEF TimersOK, Off
    <2>4. Idled(a, r, q)
      BY <2>1, <2>2, <2>3 DEF Idled, Replaces, Startable
    <2> QED
      BY <1>2, <2>2, <2>4
  <1>5. CASE pid # NoPid
    <2> DEFINE q == [quiet EXCEPT !.status = "STARTING", !.pid = pid,
                                  !.id = nextId, !.start = StartDelay]
    <2>1. /\ app' = [app EXCEPT ![a] = q]
          /\ proc' = [proc EXCEPT ![pid] = [state |-> "up", owner |-> a]]
      BY <1>1, <1>5
    <2>2. pid \in Pids
      BY <1>5 DEF ForkResults
    <2> HIDE DEF quiet
    <2>3. /\ q \in AppRec
          /\ q.status = "STARTING" /\ q.pid = pid /\ q.start = StartDelay
          /\ q.restart = Off /\ q.stop = Off
          /\ q.queue_restart = r.queue_restart /\ q.terminating = r.terminating
      BY <1>3, <2>2, Values, Zenon DEF AppRec, Types
    <2> HIDE DEF q
    <2>4. TimersOK(q)
      BY <2>3 DEF TimersOK, Off, StartDelay
    <2>5. Forked(a, r, q, pid)
      BY <2>1, <2>2, <2>3, <2>4 DEF Forked, Replaces, Startable
    <2> QED
      BY <1>2, <2>2, <2>3, <2>5
  <1> QED
    BY <1>4, <1>5

LEMMA DoStopEffect ==
  ASSUME TimersInv, NEW a \in Apps, NEW restart \in BOOLEAN, NEW r \in AppRec,
         \/ r = app[a]
         \/ r = [app[a] EXCEPT !.terminating = TRUE],
         DoStop(a, r, restart)
  PROVE  /\ nextId' \in Int
         /\ \E q \in AppRec : \/ Idled(a, r, q)
                              \/ restart /\ \E p \in Pids : Forked(a, r, q, p)
                              \/ q.status = "STOPPING" /\ Kept(a, r, q, restart)
                              \/ Interrupted(a, r, q, restart)
  <1> DEFINE quiet == [r EXCEPT !.restart = Off, !.start = Off]
  <1>0. Types /\ app[a] \in AppRec /\ TimersOK(app[a])
    BY DEF TimersInv, Types
  <1>1. /\ r.status = app[a].status /\ r.pid = app[a].pid
        /\ r.stop = app[a].stop
        /\ r.queue_restart = app[a].queue_restart
    BY <1>0 DEF AppRec
  <1>2. /\ quiet \in AppRec
        /\ quiet.start = Off /\ quiet.restart = Off
        /\ quiet.stop = r.stop /\ quiet.pid = r.pid
        /\ quiet.status = r.status
        /\ quiet.queue_restart = r.queue_restart
        /\ quiet.terminating = r.terminating
    BY Values, Zenon DEF AppRec
  <1>3. CASE /\ r.status \in {"STARTING", "RUNNING"}
             /\ app' = [app EXCEPT ![a] =
                  [quiet EXCEPT !.status = "STOPPING", !.stop = StopDelay,
                                !.queue_restart = restart]]
             /\ proc' = Signalled(r.pid, "interrupted")
             /\ UNCHANGED nextId
    <2> DEFINE q == [quiet EXCEPT !.status = "STOPPING", !.stop = StopDelay,
                                  !.queue_restart = restart]
    <2> HIDE DEF quiet
    <2>1. /\ q \in AppRec
          /\ q.status = "STOPPING" /\ q.stop = StopDelay
          /\ q.queue_restart = restart /\ q.pid = r.pid
          /\ q.start = Off /\ q.restart = Off
          /\ q.terminating = r.terminating
      BY <1>2, Values, Zenon DEF AppRec
    <2>2. app' = [app EXCEPT ![a] = q] /\ proc' = Signalled(app[a].pid, "interrupted")
      BY <1>1, <1>3
    <2> HIDE DEF q
    <2>3. TimersOK(q)
      BY <2>1 DEF TimersOK, Off, StopDelay
    <2>4. Interrupted(a, r, q, restart)
      BY <1>1, <1>3, <2>1, <2>2, <2>3, Zenon DEF Interrupted, Replaces, Active
    <2> QED
      BY <1>0, <1>3, <2>1, <2>4 DEF Types
  <1>4. CASE r.status = "WAITING" /\ restart /\ DoStart(a, quiet)
    <2>1. Startable(a, quiet)
      BY <1>0, <1>1, <1>2, <1>4 DEF Startable, Active, TimersOK
    <2> HIDE DEF quiet
    <2>2. /\ nextId' \in Int
          /\ \E q \in AppRec : \/ Idled(a, quiet, q)
                               \/ \E p \in Pids : Forked(a, quiet, q, p)
      BY <1>0, <1>4, <2>1, DoStartEffect
    <2>4. PICK q \in AppRec : \/ Idled(a, quiet, q)
                               \/ \E p \in Pids : Forked(a, quiet, q, p)
      BY <2>2
    <2>5. CASE Idled(a, quiet, q)
      BY <1>2, <2>2, <2>5 DEF Idled
    <2>6. CASE \E p \in Pids : Forked(a, quiet, q, p)
      <3>1. PICK p \in Pids : Forked(a, quiet, q, p)
        BY <2>6
      <3>2. Forked(a, r, q, p)
        BY <1>2, <3>1 DEF Forked
      <3> QED
        BY <1>4, <2>2, <3>2, Zenon
    <2> QED
      BY <2>4, <2>5, <2>6
  <1>5. CASE /\ r.status = "WAITING" /\ ~restart
             /\ app' = [app EXCEPT ![a] = [quiet EXCEPT !.status = "STOPPED"]]
             /\ UNCHANGED <<proc, nextId>>
    <2> DEFINE q == [quiet EXCEPT !.status = "STOPPED"]
    <2> HIDE DEF quiet
    <2>1. /\ q \in AppRec
          /\ q.status = "STOPPED" /\ q.stop = r.stop /\ q.pid = r.pid
          /\ q.start = Off /\ q.restart = Off
          /\ q.queue_restart = r.queue_restart /\ q.terminating = r.terminating
      BY <1>2, Values DEF AppRec
    <2>2. app' = [app EXCEPT ![a] = q] /\ proc' = proc
      BY <1>5
    <2> HIDE DEF q
    <2>3. TimersOK(q)
      BY <1>0, <1>1, <1>5, <2>1 DEF TimersOK, Off
    <2>4. Idled(a, r, q)
      BY <1>1, <1>5, <2>1, <2>2, <2>3, Zenon DEF Idled, Replaces, Active
    <2> QED
      BY <1>0, <1>5, <2>1, <2>4 DEF Types
  <1>6. CASE /\ r.status = "STOPPING"
             /\ app' = [app EXCEPT ![a] = [quiet EXCEPT !.queue_restart = restart]]
             /\ UNCHANGED <<proc, nextId>>
    <2> DEFINE q == [quiet EXCEPT !.queue_restart = restart]
    <2> HIDE DEF quiet
    <2>1. /\ q \in AppRec
          /\ q.status = "STOPPING" /\ q.stop = r.stop /\ q.pid = r.pid
          /\ q.start = Off /\ q.restart = Off
          /\ q.queue_restart = restart /\ q.terminating = r.terminating
      BY <1>2, <1>6, Values DEF AppRec
    <2>2. app' = [app EXCEPT ![a] = q] /\ proc' = proc
      BY <1>6
    <2> HIDE DEF q
    <2>3. TimersOK(q)
      BY <1>0, <1>1, <1>6, <2>1 DEF TimersOK, Off
    <2>4. Kept(a, r, q, restart)
      BY <1>1, <1>6, <2>1, <2>2, <2>3, Zenon DEF Kept, Replaces, Active
    <2> QED
      BY <1>0, <1>6, <2>1, <2>4 DEF Types
  <1>7. CASE /\ r.status = "STOPPED" /\ restart
             /\ DoStart(a, [quiet EXCEPT !.status = "WAITING"])
    <2> DEFINE w == [quiet EXCEPT !.status = "WAITING"]
    <2>0. DoStart(a, w)
      BY <1>7
    <2> HIDE DEF quiet
    <2>1. /\ w \in AppRec
          /\ w.status = "WAITING" /\ w.stop = r.stop /\ w.pid = r.pid
          /\ w.queue_restart = r.queue_restart /\ w.terminating = r.terminating
      BY <1>2, Values DEF AppRec
    <2> HIDE DEF w
    <2>2. Startable(a, w)
      BY <1>0, <1>1, <1>7, <2>1 DEF Startable, Active, TimersOK
    <2>3. /\ nextId' \in Int
          /\ \E q \in AppRec : \/ Idled(a, w, q)
                               \/ \E p \in Pids : Forked(a, w, q, p)
      BY <1>0, <2>0, <2>2, DoStartEffect
    <2>4. PICK q \in AppRec : \/ Idled(a, w, q)
                               \/ \E p \in Pids : Forked(a, w, q, p)
      BY <2>3
    <2>5. CASE Idled(a, w, q)
      BY <2>1, <2>3, <2>5 DEF Idled
    <2>6. CASE \E p \in Pids : Forked(a, w, q, p)
      <3>1. PICK p \in Pids : Forked(a, w, q, p)
        BY <2>6
      <3>2. Forked(a, r, q, p)
        BY <2>1, <3>1 DEF Forked
      <3> QED
        BY <1>7, <2>3, <3>2, Zenon
    <2> QED
      BY <2>4, <2>5, <2>6
  <1>8. CASE /\ r.status = "STOPPED" /\ ~restart
             /\ app' = [app EXCEPT ![a] = quiet]
             /\ UNCHANGED <<proc, nextId>>
    <2> HIDE DEF quiet
    <2>1. TimersOK(quiet)
      BY <1>0, <1>1, <1>2, <1>8 DEF TimersOK, Off
    <2>2. Idled(a, r, quiet)
      BY <1>1, <1>2, <1>8, <2>1 DEF Idled, Replaces, Active
    <2> QED
      BY <1>0, <1>2, <1>8, <2>2 DEF Types
  <1> QED
    BY <1>3, <1>4, <1>5, <1>6, <1>7, <1>8 DEF DoStop

LEMMA HandleCommandEffect ==
  ASSUME TimersInv, NEW a \in Apps, NEW cmd, HandleCommand(a, cmd)
  PROVE  /\ nextId' \in Int
         /\ \E q \in AppRec, restart \in BOOLEAN :
              \/ Idled(a, app[a], q)
              \/ \E p \in Pids : Forked(a, app[a], q, p)
              \/ Kept(a, app[a], q, restart)
              \/ Interrupted(a, app[a], q, restart)
  <1> DEFINE r == app[a]
  <1>0. Types /\ r \in AppRec /\ TimersOK(r)
    BY DEF TimersInv, Types
  <1>1. CASE /\ r.status \in {"WAITING", "STOPPED"}
             /\ DoStart(a, [r EXCEPT !.status = "WAITING", !.restart = Off])
    <2> DEFINE w == [r EXCEPT !.status = "WAITING", !.restart = Off]
    <2>0. DoStart(a, w)
      BY <1>1
    <2>1. /\ w \in AppRec
          /\ w.status = "WAITING" /\ w.stop = r.stop /\ w.pid = r.pid
          /\ w.queue_restart = r.queue_restart /\ w.terminating = r.terminating
      <3> HIDE DEF r
      <3> QED
        BY <1>0, Values, Zenon DEF AppRec
    <2> HIDE DEF w
    <2>2. Startable(a, w)
      BY <1>0, <1>1, <2>1 DEF Startable, Active, TimersOK
    <2>3. /\ nextId' \in Int
          /\ \E q \in AppRec : \/ Idled(a, w, q)
                               \/ \E p \in Pids : Forked(a, w, q, p)
      BY <1>0, <2>0, <2>2, DoStartEffect
    <2>4. PICK q \in AppRec : \/ Idled(a, w, q)
                              \/ \E p \in Pids : Forked(a, w, q, p)
      BY <2>3
    <2>5. CASE Idled(a, w, q)
      <3>1. Idled(a, r, q)
        BY <2>1, <2>5 DEF Idled
      <3> QED
        BY <2>3, <3>1, Zenon
    <2>6. CASE \E p \in Pids : Forked(a, w, q, p)
      <3>1. PICK p \in Pids : Forked(a, w, q, p)
        BY <2>6
      <3>2. Forked(a, r, q, p)
        BY <2>1, <3>1 DEF Forked
      <3> QED
        BY <2>3, <3>2, Zenon
    <2> QED
      BY <2>4, <2>5, <2>6
  <1>2. CASE /\ r.status \notin {"WAITING", "STOPPED"}
             /\ app' = [app EXCEPT ![a].queue_restart = @ \/ r.status = "STOPPING"]
             /\ UNCHANGED <<proc, nextId>>
    <2> DEFINE b == r.queue_restart \/ r.status = "STOPPING"
               q == [r EXCEPT !.queue_restart = b]
    <2>1. b \in BOOLEAN /\ (r.status = "STOPPING" => b = TRUE)
                        /\ (r.status # "STOPPING" => b = r.queue_restart)
      <3>1. r.queue_restart \in BOOLEAN
        BY <1>0 DEF AppRec
      <3> QED
        BY <3>1
    <2>2. app' = [app EXCEPT ![a] = q]
      BY <1>2, Zenon
    <2> HIDE DEF b, r
    <2>3. /\ q \in AppRec
          /\ q.status = r.status /\ q.stop = r.stop /\ q.pid = r.pid
          /\ q.start = r.start /\ q.restart = r.restart
          /\ q.queue_restart = b /\ q.terminating = r.terminating
      BY <1>0, <2>1 DEF AppRec
    <2> HIDE DEF q
    <2>4. TimersOK(q)
      BY <1>0, <2>3 DEF TimersOK
    <2>5. r.status \in Active
      BY <1>0, <1>2 DEF AppRec, State, Active
    <2>6. Kept(a, r, q, TRUE)
      BY <1>2, <2>1, <2>2, <2>3, <2>4, <2>5, Zenon DEF Kept, Replaces, r
    <2> QED
      BY <1>0, <1>2, <2>3, <2>6, Zenon DEF Types, r
  <1>3. CASE DoStop(a, r, FALSE)
    BY <1>0, <1>3, DoStopEffect, Zenon
  <1>4. CASE DoStop(a, r, TRUE)
    BY <1>0, <1>4, DoStopEffect, Zenon
  <1> QED
    BY <1>1, <1>2, <1>3, <1>4, Zenon DEF HandleCommand

-----------------------------------------------------------------------------
(***************************************************************************)
(* What a step does to the applications and to their processes.            *)
(***************************************************************************)

\* It leaves a's process, but for a signal.
Goes(a, q) ==
  /\ Replaces(a, q)
  /\ q.pid = app[a].pid
  /\ q.status \in Active <=> app[a].status \in Active
  /\ proc' = proc \/ \E s \in Alive : proc' = Signalled(app[a].pid, s)

\* It reaps a's process.
Reaped(a, q) ==
  /\ Replaces(a, q)
  /\ Reaps(a)
  /\ q.pid = app[a].pid
  /\ app[a].status \in Active /\ q.status \notin Active
  /\ proc' = [proc EXCEPT ![app[a].pid] = NoProcess]

\* It reaps a process that is not a's.
Mistaken(a) ==
  /\ Reaps(a)
  /\ app[a].status \notin Active
  /\ proc' = [proc EXCEPT ![app[a].pid] = NoProcess]
  /\ app' = app

\* The process p ends.
Ended(p) ==
  /\ proc[p].state \in Alive
  /\ proc' = [proc EXCEPT ![p].state = "zombie"]
  /\ app' = app
  /\ sigchld'

\* Time passes.
Ticked ==
  /\ proc' = proc
  /\ app' \in [Apps -> AppRec]
  /\ \A a \in Apps : /\ TimersOK(app'[a])
                     /\ app'[a].status = app[a].status
                     /\ app'[a].pid = app[a].pid

StepEffect ==
  \/ app' = app /\ proc' = proc
  \/ \E a \in Apps, q \in AppRec :
       Goes(a, q) \/ Reaped(a, q) \/ \E p \in Pids : Forked(a, q, q, p)
  \/ \E a \in Apps : Mistaken(a)
  \/ \E p \in Pids : Ended(p)
  \/ Ticked

LEMMA OutcomeIsEffect ==
  ASSUME NEW a \in Apps, NEW r, NEW q \in AppRec, NEW restart,
         \/ Idled(a, r, q)
         \/ \E p \in Pids : Forked(a, r, q, p)
         \/ Kept(a, r, q, restart)
         \/ Interrupted(a, r, q, restart)
  PROVE  StepEffect
  <1>1. CASE Idled(a, r, q)
    <2>1. Goes(a, q)
      BY <1>1 DEF Idled, Goes, Active
    <2> QED
      BY <2>1 DEF StepEffect
  <1>2. CASE \E p \in Pids : Forked(a, r, q, p)
    <2>1. PICK p \in Pids : Forked(a, r, q, p)
      BY <1>2
    <2>2. Forked(a, q, q, p)
      BY <2>1 DEF Forked
    <2> QED
      BY <2>2 DEF StepEffect
  <1>3. CASE Kept(a, r, q, restart)
    <2>1. Goes(a, q)
      BY <1>3 DEF Kept, Goes
    <2> QED
      BY <2>1 DEF StepEffect
  <1>4. CASE Interrupted(a, r, q, restart)
    <2>1. Goes(a, q)
      BY <1>4 DEF Interrupted, Goes, Active, Alive
    <2> QED
      BY <2>1 DEF StepEffect
  <1> QED
    BY <1>1, <1>2, <1>3, <1>4

\* The effects of a command, a restart and a Terminate.
LEMMA CommandStep ==
  ASSUME TimersInv, NEW a \in Apps, NEW cmd, HandleCommand(a, cmd)
  PROVE  StepEffect /\ nextId' \in Int
  BY HandleCommandEffect, OutcomeIsEffect, Zenon

LEMMA StartStep ==
  ASSUME Types, NEW a \in Apps, NEW r, Startable(a, r), DoStart(a, r)
  PROVE  StepEffect /\ nextId' \in Int
  BY DoStartEffect, OutcomeIsEffect

LEMMA TerminateEffect ==
  ASSUME TimersInv, NEW a \in Apps, Terminate(a)
  PROVE  /\ nextId' \in Int
         /\ \E q \in AppRec :
              LET r == [app[a] EXCEPT !.terminating = TRUE]
              IN  \/ Idled(a, r, q)
                  \/ q.status = "STOPPING" /\ Kept(a, r, q, FALSE)
                  \/ Interrupted(a, r, q, FALSE)
  <1> DEFINE r == [app[a] EXCEPT !.terminating = TRUE]
  <1>1. r \in AppRec
    BY Zenon DEF TimersInv, Types, AppRec
  <1>2. DoStop(a, r, FALSE)
    BY Zenon DEF Terminate
  <1> HIDE DEF r
  <1>3. r = [app[a] EXCEPT !.terminating = TRUE]
    BY DEF r
  <1> QED
    BY <1>1, <1>2, <1>3, DoStopEffect, Zenon

LEMMA TerminateStep ==
  ASSUME TimersInv, NEW a \in Apps, Terminate(a)
  PROVE  StepEffect /\ nextId' \in Int
  BY TerminateEffect, OutcomeIsEffect, Zenon

\* MaybeHandleSignal, when it reaps: the three branches of its switch.
ReapedRunning(a, q) ==
  /\ Reaped(a, q)
  /\ app[a].status \in {"STARTING", "RUNNING"} /\ q.status = "WAITING"
  /\ q.queue_restart = app[a].queue_restart
  /\ q.terminating = app[a].terminating
  /\ UNCHANGED <<applications, busy, loop>>

ReapedStopping(a, q) ==
  /\ Reaped(a, q)
  /\ app[a].status = "STOPPING" /\ q.status = "STOPPED"
  /\ q.queue_restart = app[a].queue_restart
  /\ q.terminating = app[a].terminating
  /\ applications' = IF app[a].terminating THEN applications \ {a}
                                           ELSE applications
  /\ busy' = IF app[a].queue_restart /\ ~app[a].terminating THEN "restart"
                                                            ELSE busy
  /\ UNCHANGED loop

LEMMA SignalEffect ==
  ASSUME TimersInv, NEW a \in Apps, MaybeHandleSignal(a)
  PROVE  \/ /\ ~Reaps(a)
            /\ UNCHANGED <<app, applications, busy, loop, proc>>
         \/ \E q \in AppRec : ReapedRunning(a, q) \/ ReapedStopping(a, q)
         \/ Mistaken(a) /\ UNCHANGED <<applications, busy>>
  <1> DEFINE r == app[a]
  <1>0. r \in AppRec /\ TimersOK(r)
    BY DEF TimersInv, Types
  <1>1. CASE NothingHappened(a)
    BY <1>1 DEF NothingHappened
  <1>2. CASE /\ Reaps(a)
             /\ proc' = [proc EXCEPT ![r.pid] = NoProcess]
             /\ r.status \in {"STARTING", "RUNNING"}
             /\ QueueStart(a, r)
             /\ UNCHANGED <<applications, busy, loop>>
    <2> DEFINE q == [r EXCEPT !.status = "WAITING", !.restart = RestartDelay,
                              !.start = Off, !.stop = Off]
    <2>1. app' = [app EXCEPT ![a] = q]
      BY <1>2 DEF QueueStart
    <2>2. /\ q \in AppRec
          /\ q.status = "WAITING" /\ q.restart = RestartDelay
          /\ q.start = Off /\ q.stop = Off /\ q.pid = r.pid
          /\ q.queue_restart = r.queue_restart /\ q.terminating = r.terminating
      <3> HIDE DEF r
      <3> QED
        BY <1>0, Values, Zenon DEF AppRec
    <2> HIDE DEF q
    <2>3. TimersOK(q)
      BY <2>2 DEF TimersOK, Off, RestartDelay
    <2>4. Reaped(a, q)
      BY <1>2, <2>1, <2>2, <2>3 DEF Reaped, Replaces, Active
    <2>5. ReapedRunning(a, q)
      BY <1>2, <2>2, <2>4 DEF ReapedRunning
    <2> QED
      BY <2>2, <2>5
  <1>3. CASE /\ Reaps(a)
             /\ proc' = [proc EXCEPT ![r.pid] = NoProcess]
             /\ r.status = "STOPPING"
             /\ app' = [app EXCEPT ![a].status = "STOPPED", ![a].stop = Off]
             /\ applications' = IF r.terminating
                                THEN applications \ {a} ELSE applications
             /\ busy' = IF r.queue_restart /\ ~r.terminating
                        THEN "restart" ELSE busy
             /\ UNCHANGED loop
    <2> DEFINE q == [r EXCEPT !.status = "STOPPED", !.stop = Off]
    <2>1. app' = [app EXCEPT ![a] = q]
      BY <1>3, Zenon DEF TimersInv, Types
    <2>2. /\ q \in AppRec
          /\ q.status = "STOPPED" /\ q.restart = r.restart
          /\ q.start = r.start /\ q.stop = Off /\ q.pid = r.pid
          /\ q.queue_restart = r.queue_restart /\ q.terminating = r.terminating
      <3> HIDE DEF r
      <3> QED
        BY <1>0, Values, Zenon DEF AppRec
    <2> HIDE DEF q
    <2>3. TimersOK(q)
      BY <1>0, <1>3, <2>2 DEF TimersOK, Off
    <2>4. Reaped(a, q)
      BY <1>3, <2>1, <2>2, <2>3, Zenon DEF Reaped, Replaces, Active
    <2>5. ReapedStopping(a, q)
      BY <1>3, <2>2, <2>4 DEF ReapedStopping
    <2> QED
      BY <2>2, <2>5
  <1>4. CASE /\ Reaps(a)
             /\ proc' = [proc EXCEPT ![r.pid] = NoProcess]
             /\ r.status \in {"WAITING", "STOPPED"}
             /\ UNCHANGED <<app, applications, busy>>
    BY <1>4 DEF Mistaken, Active
  <1> QED
    BY <1>1, <1>2, <1>3, <1>4 DEF MaybeHandleSignal

\* A timer that fires is set.
LEMMA FiresIsSet ==
  ASSUME NEW t \in Int, Fires(t)
  PROVE  t # Off
  BY DEF Fires, Oldest, Off

LEMMA StartTimerEffect ==
  ASSUME TimersInv, NEW a \in Apps, OnStartTimer(a)
  PROVE  \E q \in AppRec :
           /\ Goes(a, q) /\ proc' = proc
           /\ app[a].status = "STARTING" /\ q.status = "RUNNING"
           /\ q.queue_restart = app[a].queue_restart
           /\ q.terminating = app[a].terminating
  <1> DEFINE r == app[a]
             q == [r EXCEPT !.status = "RUNNING", !.start = Off]
  <1>0. r \in AppRec /\ TimersOK(r)
    BY DEF TimersInv, Types
  <1>1. r.start # Off
    <2>1. r.start \in Int
      BY <1>0 DEF AppRec
    <2> QED
      BY <2>1, FiresIsSet DEF OnStartTimer
  <1>2. r.status = "STARTING"
    BY <1>0, <1>1 DEF TimersOK
  <1>3. app' = [app EXCEPT ![a] = q]
    BY Zenon DEF OnStartTimer, TimersInv, Types
  <1>4. proc' = proc
    BY DEF OnStartTimer
  <1>5. /\ q \in AppRec
        /\ q.status = "RUNNING" /\ q.restart = r.restart
        /\ q.start = Off /\ q.stop = r.stop /\ q.pid = r.pid
        /\ q.queue_restart = r.queue_restart /\ q.terminating = r.terminating
    <2> HIDE DEF r
    <2> QED
      BY <1>0, Values, Zenon DEF AppRec
  <1> HIDE DEF q
  <1>6. TimersOK(q)
    BY <1>0, <1>2, <1>5 DEF TimersOK, Off
  <1>7. Goes(a, q)
    BY <1>2, <1>3, <1>4, <1>5, <1>6 DEF Goes, Replaces, Active
  <1> QED
    BY <1>2, <1>4, <1>5, <1>7

LEMMA StopTimerEffect ==
  ASSUME TimersInv, NEW a \in Apps, OnStopTimer(a)
  PROVE  \E q \in AppRec :
           /\ Goes(a, q) /\ proc' = Signalled(app[a].pid, "killed")
           /\ app[a].status = "STOPPING" /\ q.status = "STOPPING"
           /\ q.stop = Off
           /\ q.queue_restart = app[a].queue_restart
           /\ q.terminating = app[a].terminating
  <1> DEFINE r == app[a]
             q == [r EXCEPT !.stop = Off]
  <1>0. r \in AppRec /\ TimersOK(r)
    BY DEF TimersInv, Types
  <1>1. r.stop # Off
    <2>1. r.stop \in Int
      BY <1>0 DEF AppRec
    <2> QED
      BY <2>1, FiresIsSet DEF OnStopTimer
  <1>2. r.status = "STOPPING"
    BY <1>0, <1>1 DEF TimersOK
  <1>3. app' = [app EXCEPT ![a] = q]
    BY Zenon DEF OnStopTimer, TimersInv, Types
  <1>4. proc' = Signalled(r.pid, "killed")
    BY DEF OnStopTimer
  <1>5. /\ q \in AppRec
        /\ q.status = r.status /\ q.restart = r.restart
        /\ q.start = r.start /\ q.stop = Off /\ q.pid = r.pid
        /\ q.queue_restart = r.queue_restart /\ q.terminating = r.terminating
    <2> HIDE DEF r
    <2> QED
      BY <1>0, Values DEF AppRec
  <1> HIDE DEF q
  <1>6. TimersOK(q)
    BY <1>0, <1>2, <1>5 DEF TimersOK, Off
  <1>7. Goes(a, q)
    BY <1>2, <1>3, <1>4, <1>5, <1>6 DEF Goes, Replaces, Alive
  <1> QED
    BY <1>2, <1>4, <1>5, <1>7

\* What OnRestartTimer and Restart hand to DoStart.
LEMMA RestartTimerStartable ==
  ASSUME TimersInv, NEW a \in Apps, OnRestartTimer(a)
  PROVE  LET w == [app[a] EXCEPT !.restart = Off]
         IN  /\ Startable(a, w) /\ DoStart(a, w)
             /\ app[a].status = "WAITING"
             /\ w.queue_restart = app[a].queue_restart
             /\ w.terminating = app[a].terminating
  <1> DEFINE r == app[a]
             w == [r EXCEPT !.restart = Off]
  <1>0. r \in AppRec /\ TimersOK(r)
    BY DEF TimersInv, Types
  <1>1. r.restart # Off
    <2>1. r.restart \in Int
      BY <1>0 DEF AppRec
    <2> QED
      BY <2>1, FiresIsSet DEF OnRestartTimer
  <1>2. r.status = "WAITING" /\ r.stop = Off
    BY <1>0, <1>1 DEF TimersOK
  <1>3. /\ w \in AppRec
        /\ w.status = r.status /\ w.stop = r.stop /\ w.pid = r.pid
        /\ w.queue_restart = r.queue_restart /\ w.terminating = r.terminating
    <2> HIDE DEF r
    <2> QED
      BY <1>0, Values DEF AppRec
  <1>4. DoStart(a, w)
    BY DEF OnRestartTimer
  <1> HIDE DEF w
  <1>5. Startable(a, w)
    BY <1>2, <1>3 DEF Startable, Active
  <1>6. w = [app[a] EXCEPT !.restart = Off]
    BY DEF w
  <1> QED
    BY <1>2, <1>3, <1>4, <1>5, <1>6

LEMMA RestartStartable ==
  ASSUME TimersInv, NEW a \in Apps, Restart(a)
  PROVE  LET w == [app[a] EXCEPT !.queue_restart = FALSE, !.status = "WAITING"]
         IN  /\ Startable(a, w) /\ DoStart(a, w)
             /\ w.queue_restart = FALSE
             /\ w.terminating = app[a].terminating
  <1> DEFINE r == app[a]
             w == [r EXCEPT !.queue_restart = FALSE, !.status = "WAITING"]
  <1>0. r \in AppRec /\ TimersOK(r)
    BY DEF TimersInv, Types
  <1>2. r.status = "STOPPED" /\ r.stop = Off
    BY <1>0 DEF TimersOK, Restart
  <1>3. /\ w \in AppRec
        /\ w.status = "WAITING" /\ w.stop = r.stop /\ w.pid = r.pid
        /\ w.queue_restart = FALSE /\ w.terminating = r.terminating
    <2> HIDE DEF r
    <2> QED
      BY <1>0, Values, Zenon DEF AppRec
  <1>4. DoStart(a, w)
    BY DEF Restart
  <1> HIDE DEF w
  <1>5. Startable(a, w)
    BY <1>2, <1>3 DEF Startable, Active
  <1>6. w = [app[a] EXCEPT !.queue_restart = FALSE, !.status = "WAITING"]
    BY DEF w
  <1> QED
    BY <1>3, <1>4, <1>5, <1>6

LEMMA LaterTimer ==
  ASSUME NEW t \in Int, t <= Off
  PROVE  /\ Later(t) \in Int /\ Later(t) <= Off
         /\ Later(t) = Off <=> t = Off
         /\ t # Off => Later(t) = t - 1
  BY DEF Later, Off

\* RunLoop and Tick move the clock, and with it the timers of every application.
LEMMA TickEffect ==
  ASSUME TimersInv, Tick \/ RunLoop
  PROVE  /\ Ticked
         /\ \A a \in Apps :
              /\ app'[a].stop = Later(app[a].stop)
              /\ app'[a].queue_restart = app[a].queue_restart
              /\ app'[a].terminating = app[a].terminating
  <1> DEFINE L(r) == [r EXCEPT !.start = Later(@), !.restart = Later(@),
                               !.stop = Later(@)]
  <1>1. app' = [a \in Apps |-> L(app[a])] /\ proc' = proc
    BY Zenon DEF Tick, RunLoop, AppsLater
  <1>2. ASSUME NEW r \in AppRec, TimersOK(r)
        PROVE  /\ L(r) \in AppRec /\ TimersOK(L(r))
               /\ L(r).status = r.status /\ L(r).pid = r.pid
               /\ L(r).stop = Later(r.stop)
               /\ L(r).queue_restart = r.queue_restart
               /\ L(r).terminating = r.terminating
    <2>1. /\ r.start \in Int /\ r.restart \in Int /\ r.stop \in Int
          /\ r.start <= Off /\ r.restart <= Off /\ r.stop <= Off
      BY <1>2 DEF AppRec, TimersOK, Off, StopDelay
    <2>2. PICK x \in Int : x = Later(r.start)
      BY <2>1, LaterTimer
    <2>3. PICK y \in Int : y = Later(r.restart)
      BY <2>1, LaterTimer
    <2>4. PICK z \in Int : z = Later(r.stop)
      BY <2>1, LaterTimer
    <2> DEFINE q == [r EXCEPT !.start = x, !.restart = y, !.stop = z]
    <2>5. L(r) = q
      BY <2>2, <2>3, <2>4
    <2>6. /\ q \in AppRec
          /\ q.status = r.status /\ q.pid = r.pid
          /\ q.start = x /\ q.restart = y /\ q.stop = z
          /\ q.queue_restart = r.queue_restart
          /\ q.terminating = r.terminating
      BY Zenon DEF AppRec
    <2> HIDE DEF q
    <2>7. TimersOK(q)
      <3>1. q.start # Off <=> q.status = "STARTING"
        BY <1>2, <2>1, <2>2, <2>6, LaterTimer DEF TimersOK
      <3>2. q.restart # Off <=> q.status = "WAITING"
        BY <1>2, <2>1, <2>3, <2>6, LaterTimer DEF TimersOK
      <3>3. q.stop # Off => q.status = "STOPPING"
        BY <1>2, <2>1, <2>4, <2>6, LaterTimer DEF TimersOK
      <3>4. q.start <= Off /\ q.restart <= Off
        BY <2>1, <2>2, <2>3, <2>6, LaterTimer
      <3>5. q.stop = Off \/ q.stop <= StopDelay
        BY <1>2, <2>1, <2>4, <2>6, LaterTimer DEF TimersOK, StopDelay, Off
      <3> QED
        BY <3>1, <3>2, <3>3, <3>4, <3>5 DEF TimersOK
    <2> QED
      BY <2>4, <2>5, <2>6, <2>7
  <1>3. \A a \in Apps : app[a] \in AppRec /\ TimersOK(app[a])
    BY DEF TimersInv, Types
  <1> HIDE DEF L
  <1>4. app' \in [Apps -> AppRec]
    BY <1>1, <1>2, <1>3
  <1>5. \A a \in Apps : app'[a] = L(app[a])
    BY <1>1
  <1> QED
    BY <1>1, <1>2, <1>3, <1>4, <1>5 DEF Ticked

\* Every step has one of the effects, and keeps the types of the rest.
LEMMA NextEffect ==
  ASSUME TimersInv, [Next]_vars
  PROVE  /\ StepEffect
         /\ applications' \subseteq Apps /\ todo' \subseteq Apps
         /\ cleanup' \in Int /\ nextId' \in Int
  <1>0. Types
    BY DEF TimersInv
  <1> USE DEF starterVars, handlerVars
  <1>1. ASSUME NEW a \in Apps, RunStart(a) PROVE StepEffect /\ nextId' \in Int
    BY <1>1, CommandStep DEF RunStart
  <1>2. ASSUME NEW a \in Apps, NEW cmd \in Command, ReceiveCommand(a, cmd)
        PROVE  StepEffect /\ nextId' \in Int
    <2>1. CASE HandleCommand(a, cmd)
      BY <2>1, CommandStep
    <2>2. CASE UNCHANGED <<app, proc, nextId>>
      BY <1>0, <2>2 DEF StepEffect, Types
    <2> QED
      BY <1>2, <2>1, <2>2 DEF ReceiveCommand, HandleStarterRpc
  <1>3. ASSUME NEW a \in Apps, OnStartTimer(a) PROVE StepEffect
    BY <1>3, StartTimerEffect DEF StepEffect
  <1>4. ASSUME NEW a \in Apps, OnRestartTimer(a)
        PROVE  StepEffect /\ nextId' \in Int
    BY <1>0, <1>4, RestartTimerStartable, StartStep, Zenon
  <1>5. ASSUME NEW a \in Apps, OnStopTimer(a) PROVE StepEffect
    BY <1>5, StopTimerEffect DEF StepEffect
  <1>6. ASSUME NEW a \in Apps, MaybeHandleSignal(a) PROVE StepEffect
    BY <1>6, SignalEffect DEF StepEffect, ReapedRunning, ReapedStopping
  <1>7. ASSUME NEW a \in Apps, Restart(a) PROVE StepEffect /\ nextId' \in Int
    BY <1>0, <1>7, RestartStartable, StartStep, Zenon
  <1>8. ASSUME NEW a \in Apps, CleanupOne(a) PROVE StepEffect /\ nextId' \in Int
    BY <1>8, TerminateStep DEF CleanupOne
  <1>9. ASSUME NEW p \in Pids, Exits(p) PROVE StepEffect
    BY <1>9, Zenon DEF Exits, Ended, StepEffect
  <1>10. ASSUME Tick PROVE StepEffect /\ cleanup' \in Int
    <2>1. Ticked
      BY <1>10, TickEffect
    <2>2. cleanup' \in Int
      <3>1. cleanup' = Later(cleanup)
        BY <1>10, Zenon DEF Tick
      <3>2. cleanup \in Int
        BY <1>0 DEF Types
      <3> QED
        BY <3>1, <3>2 DEF Later, Off
    <2> QED
      BY <2>1, <2>2 DEF StepEffect
  <1>11. ASSUME \/ OnStatusTimer \/ OnCleanupTimer \/ OnSigchld
                \/ SigchldDone \/ OnDeadlySignal \/ CleanupDone
                \/ UNCHANGED vars
         PROVE  StepEffect
    BY <1>11 DEF OnStatusTimer, OnCleanupTimer, OnSigchld, SigchldDone,
                 OnDeadlySignal, CleanupDone, vars, StepEffect
  <1>12. ASSUME RunLoop PROVE StepEffect
    BY <1>12, TickEffect DEF StepEffect
  <1>13. StepEffect
    BY <1>1, <1>2, <1>3, <1>4, <1>5, <1>6, <1>7, <1>8, <1>9, <1>10, <1>11, <1>12
       DEF Next, RunStep, TimerStep, SigchldStep, CleanupStep
  <1>14. nextId' \in Int
    <2>1. CASE UNCHANGED nextId
      BY <1>0, <2>1 DEF Types
    <2> QED
      BY <1>1, <1>2, <1>4, <1>7, <1>8, <2>1, Zenon
         DEF Next, RunStep, TimerStep, SigchldStep, CleanupStep, RunLoop,
             OnStartTimer, OnStopTimer, OnStatusTimer, OnCleanupTimer,
             OnSigchld, MaybeHandleSignal, SigchldDone, OnDeadlySignal,
             CleanupDone, Exits, Tick, vars
  <1>15. cleanup' \in Int
    <2>1. \/ cleanup' = cleanup \/ cleanup' = Off \/ cleanup' = CleanupDelay
          \/ Tick
      BY Zenon
         DEF Next, RunStep, TimerStep, SigchldStep, CleanupStep, RunStart,
             RunLoop, ReceiveCommand, HandleStarterRpc, OnStartTimer,
             OnRestartTimer, OnStopTimer, OnStatusTimer, OnCleanupTimer,
             OnSigchld, MaybeHandleSignal, Restart, SigchldDone,
             OnDeadlySignal, CleanupOne, CleanupDone, Exits, vars
    <2>2. CASE Tick
      BY <1>10, <2>2
    <2>3. cleanup \in Int
      BY <1>0 DEF Types
    <2> QED
      BY <2>1, <2>2, <2>3 DEF Off, CleanupDelay
  <1>16. applications' \subseteq Apps /\ todo' \subseteq Apps
    <2>1. \/ applications' = applications
          \/ \E a \in Apps : MaybeHandleSignal(a)
      BY Zenon
         DEF Next, RunStep, TimerStep, SigchldStep, CleanupStep, RunStart,
             RunLoop, ReceiveCommand, HandleStarterRpc, OnStartTimer,
             OnRestartTimer, OnStopTimer, OnStatusTimer, OnCleanupTimer,
             OnSigchld, Restart, SigchldDone, OnDeadlySignal, CleanupOne,
             CleanupDone, Exits, Tick, vars
    <2>2. applications' \subseteq applications
      BY <2>1, SignalEffect DEF ReapedRunning, ReapedStopping
    <2>3. todo' \subseteq todo \/ todo' = applications
      BY Zenon
         DEF Next, RunStep, TimerStep, SigchldStep, CleanupStep, RunStart,
             RunLoop, ReceiveCommand, HandleStarterRpc, OnStartTimer,
             OnRestartTimer, OnStopTimer, OnStatusTimer, OnCleanupTimer,
             OnSigchld, MaybeHandleSignal, Restart, SigchldDone,
             OnDeadlySignal, CleanupOne, CleanupDone, Exits, Tick, vars
    <2> QED
      BY <1>0, <2>2, <2>3 DEF Types
  <1> QED
    BY <1>13, <1>14, <1>15, <1>16

-----------------------------------------------------------------------------
(***************************************************************************)
(* kill(2) wakes nobody up and ends nobody.                                *)
(***************************************************************************)
LEMMA SignalledProcess ==
  ASSUME proc \in [Pids -> ProcRec], NEW p \in Pids \union {NoPid},
         NEW s \in Alive
  PROVE  /\ Signalled(p, s) \in [Pids -> ProcRec]
         /\ \A x \in Pids :
              /\ Signalled(p, s)[x].owner = proc[x].owner
              /\ (Signalled(p, s)[x].state \in Alive) <=> (proc[x].state \in Alive)
              /\ (Signalled(p, s)[x].state = "zombie") <=> (proc[x].state = "zombie")
              /\ (Signalled(p, s)[x].state = "free") <=> (proc[x].state = "free")
              /\ \/ Signalled(p, s)[x].state = proc[x].state
                 \/ x = p /\ Signalled(p, s)[x].state = s
              /\ (x = p /\ proc[x].state \in Alive) => Signalled(p, s)[x].state = s
  <1>1. CASE p # NoPid /\ proc[p].state \in Alive
    <2>1. p \in Pids
      BY <1>1
    <2> DEFINE f == [proc EXCEPT ![p].state = s]
               g == [proc[p] EXCEPT !.state = s]
    <2>2. Signalled(p, s) = f
      BY <1>1 DEF Signalled
    <2>3. g \in ProcRec /\ g.state = s /\ g.owner = proc[p].owner
      BY <2>1 DEF ProcRec
    <2>4. f = [proc EXCEPT ![p] = g]
      BY <2>1, Zenon
    <2> HIDE DEF f, g
    <2>5. f \in [Pids -> ProcRec] /\ f[p] = g
          /\ \A x \in Pids \ {p} : f[x] = proc[x]
      BY <2>1, <2>3, <2>4
    <2>6. s # "zombie" /\ s # "free"
      BY DEF Alive
    <2>7. proc[p].state # "zombie" /\ proc[p].state # "free"
      BY <1>1 DEF Alive
    <2> QED
      BY <1>1, <2>1, <2>2, <2>3, <2>5, <2>6, <2>7
  <1>2. CASE ~(p # NoPid /\ proc[p].state \in Alive)
    <2>1. Signalled(p, s) = proc
      BY <1>2 DEF Signalled
    <2>2. \A x \in Pids : ~(x = p /\ proc[x].state \in Alive)
      BY <1>2, StarterdAssumption DEF NoPid
    <2> QED
      BY <2>1, <2>2
  <1> QED
    BY <1>1, <1>2

LEMMA SignalledOwner ==
  ASSUME proc \in [Pids -> ProcRec], NEW p \in Pids \union {NoPid},
         NEW s \in Alive, NEW x \in Pids
  PROVE  Signalled(p, s)[x].owner = proc[x].owner
  <1>1. CASE Signalled(p, s) = proc
    BY <1>1
  <1>2. CASE p \in Pids /\ Signalled(p, s) = [proc EXCEPT ![p].state = s]
    BY <1>2 DEF ProcRec
  <1> QED
    BY <1>1, <1>2 DEF Signalled

\* kill(2) reaches a process that runs.
LEMMA SignalledAlive ==
  ASSUME proc \in [Pids -> ProcRec], NEW p \in Pids, NEW s \in Alive,
         Signalled(p, s)[p].state \in Alive
  PROVE  Signalled(p, s)[p].state = s
  <1>1. CASE proc[p].state \in Alive
    <2>1. p # NoPid
      BY StarterdAssumption DEF NoPid
    <2>2. Signalled(p, s) = [proc EXCEPT ![p].state = s]
      BY <1>1, <2>1 DEF Signalled
    <2> QED
      BY <2>2 DEF ProcRec
  <1>2. CASE proc[p].state \notin Alive
    <2>1. Signalled(p, s) = proc
      BY <1>2 DEF Signalled
    <2> QED
      BY <1>2, <2>1
  <1> QED
    BY <1>1, <1>2

LEMMA TimersInvInit ==
  Init => TimersInv
  <1> SUFFICES ASSUME Init PROVE TimersInv
    OBVIOUS
  <1>1. NewApplication \in AppRec
    BY Values DEF NewApplication, AppRec, NoPid
  <1>2. TimersOK(NewApplication)
    BY DEF NewApplication, TimersOK, Off
  <1>3. NoProcess \in ProcRec
    BY DEF NoProcess, ProcRec
  <1>4. Types
    BY <1>1, <1>3, StarterdAssumption DEF Types, Init, Off
  <1> QED
    BY <1>2, <1>4 DEF TimersInv, Init

LEMMA TimersInvNext ==
  TimersInv /\ [Next]_vars => TimersInv'
  <1> SUFFICES ASSUME TimersInv, [Next]_vars PROVE TimersInv'
    OBVIOUS
  <1>0. /\ app \in [Apps -> AppRec] /\ proc \in [Pids -> ProcRec]
        /\ \A a \in Apps : TimersOK(app[a])
    BY DEF TimersInv, Types
  <1>1. ASSUME NEW a \in Apps, NEW q \in AppRec, Replaces(a, q)
        PROVE  /\ app' \in [Apps -> AppRec]
               /\ \A b \in Apps : TimersOK(app'[b])
    BY <1>0, <1>1 DEF Replaces
  <1>2. ASSUME NEW p \in Pids, NEW g \in ProcRec, proc' = [proc EXCEPT ![p] = g]
        PROVE  proc' \in [Pids -> ProcRec]
    BY <1>0, <1>2
  <1>3. NoProcess \in ProcRec /\ \A a \in Apps : [state |-> "up", owner |-> a] \in ProcRec
    BY DEF NoProcess, ProcRec, Alive
  <1>4. ASSUME NEW a \in Apps, NEW q \in AppRec, Goes(a, q)
        PROVE  proc' \in [Pids -> ProcRec]
    <2>1. app[a].pid \in Pids \union {NoPid}
      BY <1>0 DEF AppRec
    <2>2. \A s \in Alive : Signalled(app[a].pid, s) \in [Pids -> ProcRec]
      BY <1>0, <2>1, SignalledProcess
    <2> QED
      BY <1>0, <1>4, <2>2 DEF Goes
  <1>5. ASSUME NEW a \in Apps, Reaps(a),
               proc' = [proc EXCEPT ![app[a].pid] = NoProcess]
        PROVE  proc' \in [Pids -> ProcRec]
    <2>1. app[a].pid \in Pids
      BY <1>0, <1>5 DEF AppRec, Reaps
    <2> QED
      BY <1>2, <1>3, <1>5, <2>1, Zenon
  <1>6. ASSUME NEW p \in Pids, Ended(p) PROVE proc' \in [Pids -> ProcRec]
    <2> DEFINE g == [proc[p] EXCEPT !.state = "zombie"]
    <2>1. g \in ProcRec
      BY <1>0 DEF ProcRec
    <2>2. proc' = [proc EXCEPT ![p] = g]
      BY <1>0, <1>6, Zenon DEF Ended
    <2> HIDE DEF g
    <2> QED
      BY <1>2, <2>1, <2>2, Zenon
  <1>7. /\ app' \in [Apps -> AppRec] /\ proc' \in [Pids -> ProcRec]
        /\ \A a \in Apps : TimersOK(app'[a])
    <2>1. CASE app' = app /\ proc' = proc
      BY <1>0, <2>1
    <2>2. CASE \E a \in Apps, q \in AppRec : Goes(a, q)
      BY <1>1, <1>4, <2>2 DEF Goes
    <2>3. CASE \E a \in Apps, q \in AppRec : Reaped(a, q)
      BY <1>1, <1>5, <2>3, Zenon DEF Reaped
    <2>4. CASE \E a \in Apps, q \in AppRec, p \in Pids : Forked(a, q, q, p)
      BY <1>1, <1>2, <1>3, <2>4, Zenon DEF Forked
    <2>5. CASE \E a \in Apps : Mistaken(a)
      BY <1>0, <1>5, <2>5, Zenon DEF Mistaken
    <2>6. CASE \E p \in Pids : Ended(p)
      BY <1>0, <1>6, <2>6, Zenon DEF Ended
    <2>7. CASE Ticked
      BY <1>0, <2>7 DEF Ticked
    <2>8. StepEffect
      BY NextEffect
    <2> QED
      BY <2>1, <2>2, <2>3, <2>4, <2>5, <2>6, <2>7, <2>8 DEF StepEffect
  <1> QED
    BY <1>7, NextEffect DEF TimersInv, Types

\* Whatever commands, timers and deaths of children do, every Application of
\* starterd_lib.cc keeps a state its timers agree with: the first layer of the
\* inductive invariant.
THEOREM TimersInvariant ==
  Spec => []TimersInv
  BY TimersInvInit, TimersInvNext, PTL DEF Spec

\* The timers of an application are armed in exactly the states they are for,
\* whatever commands, signals, failed forks and delays the daemon meets.
THEOREM TimersAlwaysFollowState ==
  Spec => []TimersFollowState
  <1>1. TimersInv => TimersFollowState
    BY DEF TimersInv, TimersOK, TimersFollowState
  <1> QED
    BY <1>1, TimersInvariant, PTL

-----------------------------------------------------------------------------
(***************************************************************************)
(* Applications and processes, if the kernel hands out no process id that  *)
(* another application remembers.                                          *)
(***************************************************************************)

\* The unreaped processes of a are the one it remembers while it is Active.
Holds(a) ==
  \A p \in Pids : (proc[p].state # "free" /\ proc[p].owner = a)
                    <=> (app[a].status \in Active /\ app[a].pid = p)

ProcInv ==
  /\ TimersInv
  /\ \A a \in Apps : Holds(a)
  /\ \A a \in Apps : app[a].status \in Active => app[a].pid \in Pids
  /\ \A p \in Pids : proc[p].state # "free" => proc[p].owner \in Apps
  /\ \A a, b \in Apps : a # b /\ app[a].pid # NoPid => app[a].pid # app[b].pid

LEMMA ProcInvInit ==
  Init => ProcInv
  <1> SUFFICES ASSUME Init PROVE ProcInv
    OBVIOUS
  <1>1. TimersInv
    BY TimersInvInit
  <1>2. \A a \in Apps : app[a].status \notin Active /\ app[a].pid = NoPid
    BY DEF Init, NewApplication, Active
  <1>3. \A p \in Pids : proc[p].state = "free"
    BY DEF Init, NoProcess
  <1> QED
    BY <1>1, <1>2, <1>3 DEF ProcInv, Holds

\* waitpid() never answers for another application's process.
LEMMA NeverMistaken ==
  ASSUME ProcInv, NEW a \in Apps
  PROVE  ~Mistaken(a)
  <1> SUFFICES ASSUME Mistaken(a) PROVE FALSE
    OBVIOUS
  <1> DEFINE p == app[a].pid
  <1>1. p \in Pids /\ p # NoPid
    BY DEF ProcInv, TimersInv, Types, AppRec, Mistaken, Reaps
  <1>2. proc[p].state # "free"
    BY DEF Mistaken, Reaps
  <1>3. PICK b \in Apps : proc[p].owner = b
    BY <1>1, <1>2 DEF ProcInv
  <1>4. app[b].status \in Active /\ app[b].pid = p
    BY <1>1, <1>2, <1>3 DEF ProcInv, Holds
  <1> QED
    BY <1>1, <1>4 DEF ProcInv, Mistaken

LEMMA ProcInvNext ==
  ASSUME ~PidReuse, ProcInv, [Next]_vars
  PROVE  ProcInv'
  <1>0. /\ app \in [Apps -> AppRec] /\ proc \in [Pids -> ProcRec]
        /\ TimersInv /\ NoPid \notin Pids
    BY StarterdAssumption DEF ProcInv, TimersInv, Types, NoPid
  <1>1. TimersInv'
    BY <1>0, TimersInvNext
  <1> DEFINE Same(f) == \A p \in Pids :
               /\ f[p].owner = proc[p].owner
               /\ (f[p].state = "free") <=> (proc[p].state = "free")
             Keeps == \A a \in Apps :
               /\ app'[a].pid = app[a].pid
               /\ (app'[a].status \in Active) <=> (app[a].status \in Active)
  <1>2. ASSUME Same(proc'), Keeps PROVE ProcInv'
    BY <1>1, <1>2 DEF ProcInv, Holds
  <1>3. ASSUME NEW a \in Apps, NEW q \in AppRec, Goes(a, q) PROVE ProcInv'
    <2>1. Keeps
      BY <1>0, <1>3 DEF Goes, Replaces
    <2>2. app[a].pid \in Pids \union {NoPid}
      BY <1>0 DEF AppRec
    <2>3. \A s \in Alive : Same(Signalled(app[a].pid, s))
      BY <1>0, <2>2, SignalledProcess
    <2>4. Same(proc')
      BY <1>3, <2>3 DEF Goes
    <2> QED
      BY <1>2, <2>1, <2>4
  <1>4. ASSUME NEW a \in Apps, NEW q \in AppRec, Reaped(a, q) PROVE ProcInv'
    <2>1. app[a].pid \in Pids /\ app[a].status \in Active
      BY <1>4 DEF ProcInv, Reaped
    <2>2. /\ app'[a].pid = app[a].pid /\ app'[a].status \notin Active
          /\ \A b \in Apps \ {a} : app'[b] = app[b]
      BY <1>0, <1>4 DEF Reaped, Replaces
    <2>3. /\ proc'[app[a].pid].state = "free"
          /\ \A p \in Pids \ {app[a].pid} : proc'[p] = proc[p]
      BY <1>0, <1>4, <2>1 DEF Reaped, NoProcess
    <2>4. \A b \in Apps : Holds(b)'
      BY <2>1, <2>2, <2>3 DEF ProcInv, Holds
    <2> QED
      BY <1>1, <2>1, <2>2, <2>3, <2>4 DEF ProcInv
  <1>5. ASSUME NEW a \in Apps, NEW q \in AppRec, NEW p \in Pids, Forked(a, q, q, p)
        PROVE  ProcInv'
    <2>1. proc[p].state = "free" /\ \A b \in Apps \ {a} : app[b].pid # p
      BY <1>0, <1>5 DEF Forked, ForkResults
    <2>2. /\ app'[a].pid = p /\ app'[a].status \in Active
          /\ app[a].status \notin Active
          /\ \A b \in Apps \ {a} : app'[b] = app[b]
      BY <1>0, <1>5 DEF Forked, Replaces, Active
    <2>3. /\ proc'[p].state = "up" /\ proc'[p].owner = a
          /\ \A x \in Pids \ {p} : proc'[x] = proc[x]
      BY <1>0, <1>5 DEF Forked
    <2>4. \A b \in Apps : Holds(b)'
      BY <2>1, <2>2, <2>3 DEF ProcInv, Holds
    <2> QED
      BY <1>1, <2>1, <2>2, <2>3, <2>4 DEF ProcInv
  <1>6. ASSUME NEW p \in Pids, Ended(p) PROVE ProcInv'
    <2>1. Keeps
      BY <1>6 DEF Ended
    <2>2. Same(proc')
      BY <1>0, <1>6 DEF Ended, Alive, ProcRec
    <2> QED
      BY <1>2, <2>1, <2>2
  <1>7. CASE Ticked
    <2>1. Keeps /\ Same(proc')
      BY <1>7 DEF Ticked
    <2> QED
      BY <1>2, <2>1
  <1>8. CASE app' = app /\ proc' = proc
    <2>1. Keeps /\ Same(proc')
      BY <1>8
    <2> QED
      BY <1>2, <2>1
  <1>9. StepEffect
    BY <1>0, NextEffect
  <1> QED
    BY <1>3, <1>4, <1>5, <1>6, <1>7, <1>8, <1>9, NeverMistaken DEF StepEffect

LEMMA ProcInvariant ==
  ASSUME ~PidReuse
  PROVE  Spec => []ProcInv
  <1>1. ProcInv /\ [Next]_vars => ProcInv'
    BY ProcInvNext
  <1> QED
    BY <1>1, ProcInvInit, PTL DEF Spec

\* Whatever the commands, timers and signals, an application never has a second
\* process and never forgets the one it has: Holds, which also needs the
\* processes' owners and the distinctness of the remembered ids, is inductive.
THEOREM OneProcessAlways ==
  ASSUME ~PidReuse
  PROVE  Spec => []OneProcess
  <1>1. ProcInv => OneProcess
    BY DEF ProcInv, Holds, OneProcess, Unreaped
  <1> QED
    BY <1>1, ProcInvariant, PTL

-----------------------------------------------------------------------------
(***************************************************************************)
(* The flags of an application and the handlers that may see them.         *)
(***************************************************************************)

\* queue_restart_ outlives a STOPPING only until Restart, terminating_ is set
\* by Cleanup alone, applications_ forgets nobody that may still run, and what
\* Cleanup has visited does not start again.
FlagsOK(a) ==
  LET r == app[a]
  IN  /\ r.queue_restart =>
           r.status = "STOPPING" \/ (r.status = "STOPPED" /\ busy = "restart")
      /\ r.terminating => exiting /\ ~r.queue_restart
      /\ a \notin applications => r.status = "STOPPED" /\ ~r.queue_restart
      /\ exiting => \/ busy = "cleanup" /\ a \in todo
                    \/ r.status \in {"STOPPING", "STOPPED"} /\ ~r.queue_restart

\* Which handlers may run when.
HandlersOK ==
  /\ busy = "starting" => ~exiting /\ applications = Apps
  /\ busy = "cleanup" => exiting
  /\ \A a, b \in Apps : /\ app[a].queue_restart /\ app[a].status = "STOPPED"
                        /\ app[b].queue_restart /\ app[b].status = "STOPPED"
                        => a = b
  /\ loop \in {"run", "exit"}
  /\ loop = "exit" => busy = "idle"

FlagsInv == ProcInv /\ HandlersOK /\ \A a \in Apps : FlagsOK(a)

\* A dead child is announced by a SIGCHLD, or OnSignal has yet to visit its
\* application.
Announced ==
  \A p \in Pids :
    proc[p].state = "zombie" =>
      sigchld \/ (busy \in {"sigchld", "restart"} /\ proc[p].owner \in todo)

\* A process whose stop_timer_ has fired was sent SIGKILL, and cleanup_timer_,
\* once set, is behind every stop_timer_.
DeadlinesOK ==
  /\ \A a \in Apps :
       app[a].status = "STOPPING" /\ app[a].stop = Off =>
         proc[app[a].pid].state \notin {"up", "interrupted"}
  /\ cleanup # Off => /\ exiting /\ busy \notin {"starting", "cleanup"}
                      /\ cleanup <= CleanupDelay
                      /\ \A a \in Apps :
                           app[a].stop # Off => app[a].stop < cleanup

LEMMA CommandFlags ==
  ASSUME FlagsInv, NEW a \in Apps, NEW cmd, HandleCommand(a, cmd),
         busy # "restart"
  PROVE  /\ \A b \in Apps \ {a} : app'[b] = app[b]
         /\ app'[a].terminating = app[a].terminating
         /\ app'[a].queue_restart => app'[a].status = "STOPPING"
  <1>0. TimersInv /\ app \in [Apps -> AppRec]
    BY DEF FlagsInv, ProcInv, TimersInv, Types
  <1>1. PICK q \in AppRec, restart \in BOOLEAN :
          \/ Idled(a, app[a], q)
          \/ \E p \in Pids : Forked(a, app[a], q, p)
          \/ Kept(a, app[a], q, restart)
          \/ Interrupted(a, app[a], q, restart)
    BY <1>0, HandleCommandEffect
  <1>2. app' = [app EXCEPT ![a] = q]
    BY <1>1 DEF Idled, Forked, Kept, Interrupted, Replaces
  <1>3. app'[a] = q /\ \A b \in Apps \ {a} : app'[b] = app[b]
    BY <1>0, <1>2
  <1>4. app[a].queue_restart => app[a].status = "STOPPING"
    BY DEF FlagsInv, FlagsOK
  <1>5. q.terminating = app[a].terminating
    BY <1>1 DEF Idled, Forked, Kept, Interrupted
  <1>6. q.queue_restart => q.status = "STOPPING"
    BY <1>1, <1>4, Zenon DEF Idled, Forked, Kept, Interrupted, Active
  <1> QED
    BY <1>3, <1>5, <1>6

\* The flags after a command, to an application the daemon still has.
LEMMA CommandKeepsFlags ==
  ASSUME FlagsInv, NEW a \in applications, NEW cmd, HandleCommand(a, cmd),
         busy # "restart", ~exiting, loop' = loop, busy' = busy,
         UNCHANGED starterVars
  PROVE  HandlersOK' /\ \A b \in Apps : FlagsOK(b)'
  <1>0. a \in Apps /\ applications' = applications /\ exiting' = exiting
    BY DEF FlagsInv, ProcInv, TimersInv, Types, starterVars
  <1>1. \A b \in Apps : FlagsOK(b)'
    BY <1>0, CommandFlags DEF FlagsInv, FlagsOK
  <1>2. HandlersOK'
    BY <1>0, <1>1 DEF FlagsInv, HandlersOK, FlagsOK
  <1> QED
    BY <1>1, <1>2

LEMMA TerminateFlags ==
  ASSUME FlagsInv, NEW a \in Apps, CleanupOne(a)
  PROVE  HandlersOK' /\ \A b \in Apps : FlagsOK(b)'
  <1>0. /\ TimersInv /\ app \in [Apps -> AppRec]
        /\ busy = "cleanup" /\ exiting
        /\ busy' = busy /\ exiting' = exiting /\ loop' = loop
        /\ applications' = applications /\ todo' = todo \ {a}
    BY DEF FlagsInv, HandlersOK, ProcInv, TimersInv, Types, CleanupOne, starterVars
  <1> DEFINE r == [app[a] EXCEPT !.terminating = TRUE]
  <1>1. PICK q \in AppRec : \/ Idled(a, r, q)
                            \/ q.status = "STOPPING" /\ Kept(a, r, q, FALSE)
                            \/ Interrupted(a, r, q, FALSE)
    BY <1>0, TerminateEffect, Zenon DEF CleanupOne
  <1>2. r.queue_restart = app[a].queue_restart
    BY <1>0 DEF AppRec
  <1> HIDE DEF r
  <1>3. app' = [app EXCEPT ![a] = q]
    BY <1>1, Zenon DEF Idled, Kept, Interrupted, Replaces
  <1>4. app'[a] = q /\ \A b \in Apps \ {a} : app'[b] = app[b]
    BY <1>0, <1>3
  <1>5. app[a].queue_restart => app[a].status = "STOPPING"
    BY <1>0 DEF FlagsInv, FlagsOK
  <1>6. ~q.queue_restart /\ q.status \in {"STOPPING", "STOPPED"}
    BY <1>1, <1>2, <1>5, Zenon DEF Idled, Kept, Interrupted, Active
  <1>7. a \notin applications => q.status = "STOPPED"
    BY <1>1, Zenon DEF Idled, Kept, Interrupted, Active, FlagsInv, FlagsOK
  <1>8. \A b \in Apps : FlagsOK(b)'
    BY <1>0, <1>4, <1>6, <1>7 DEF FlagsInv, FlagsOK
  <1>9. HandlersOK'
    BY <1>0, <1>8 DEF FlagsInv, HandlersOK, FlagsOK
  <1> QED
    BY <1>8, <1>9

LEMMA TimerFlags ==
  ASSUME FlagsInv, NEW a \in Apps,
         OnStartTimer(a) \/ OnRestartTimer(a) \/ OnStopTimer(a)
  PROVE  HandlersOK' /\ \A b \in Apps : FlagsOK(b)'
  <1>0. /\ TimersInv /\ Types /\ app \in [Apps -> AppRec] /\ busy = "idle"
        /\ busy' = busy /\ exiting' = exiting /\ loop' = loop
        /\ applications' = applications /\ todo' = todo
    BY DEF FlagsInv, ProcInv, TimersInv, Types, OnStartTimer, OnRestartTimer,
           OnStopTimer, Fires, Idle, starterVars, handlerVars
  <1>1. \E q \in AppRec :
          /\ Replaces(a, q)
          /\ q.queue_restart = app[a].queue_restart
          /\ q.terminating = app[a].terminating
          /\ \/ app[a].status = "STOPPING" /\ q.status = "STOPPING"
             \/ app[a].status \in {"STARTING", "WAITING"}
    <2>1. CASE OnStartTimer(a)
      BY <1>0, <2>1, StartTimerEffect DEF Goes
    <2>2. CASE OnRestartTimer(a)
      <3> DEFINE w == [app[a] EXCEPT !.restart = Off]
      <3>1. /\ Startable(a, w) /\ DoStart(a, w)
            /\ app[a].status = "WAITING"
            /\ w.queue_restart = app[a].queue_restart
            /\ w.terminating = app[a].terminating
        BY <1>0, <2>2, RestartTimerStartable
      <3> HIDE DEF w
      <3>2. PICK q \in AppRec : \/ Idled(a, w, q)
                                \/ \E p \in Pids : Forked(a, w, q, p)
        BY <1>0, <3>1, DoStartEffect
      <3>3. /\ Replaces(a, q) /\ q.queue_restart = w.queue_restart
            /\ q.terminating = w.terminating
        BY <3>2 DEF Idled, Forked
      <3> QED
        BY <3>1, <3>3
    <2>3. CASE OnStopTimer(a)
      BY <1>0, <2>3, StopTimerEffect DEF Goes
    <2> QED
      BY <2>1, <2>2, <2>3
  <1>2. PICK q \in AppRec :
          /\ Replaces(a, q)
          /\ q.queue_restart = app[a].queue_restart
          /\ q.terminating = app[a].terminating
          /\ \/ app[a].status = "STOPPING" /\ q.status = "STOPPING"
             \/ app[a].status \in {"STARTING", "WAITING"}
    BY <1>1
  <1>3. app'[a] = q /\ \A b \in Apps \ {a} : app'[b] = app[b]
    BY <1>0, <1>2 DEF Replaces
  <1>4. FlagsOK(a)'
    BY <1>0, <1>2, <1>3 DEF FlagsInv, FlagsOK
  <1>5. \A b \in Apps : FlagsOK(b)'
    BY <1>0, <1>3, <1>4 DEF FlagsInv, FlagsOK
  <1>6. HandlersOK'
    BY <1>0, <1>5 DEF FlagsInv, HandlersOK, FlagsOK
  <1> QED
    BY <1>5, <1>6

LEMMA SignalFlags ==
  ASSUME FlagsInv, NEW a \in Apps, MaybeHandleSignal(a)
  PROVE  HandlersOK' /\ \A b \in Apps : FlagsOK(b)'
  <1>0. /\ TimersInv /\ app \in [Apps -> AppRec] /\ busy = "sigchld"
        /\ loop = "run" /\ exiting' = exiting
    BY DEF FlagsInv, ProcInv, TimersInv, Types, MaybeHandleSignal
  <1>1. ~Mistaken(a)
    BY NeverMistaken DEF FlagsInv
  <1>2. CASE UNCHANGED <<app, applications, busy, loop, proc>>
    <2>1. \A b \in Apps : FlagsOK(b)'
      BY <1>0, <1>2 DEF FlagsInv, FlagsOK
    <2>2. HandlersOK'
      BY <1>0, <1>2, <2>1 DEF FlagsInv, HandlersOK
    <2> QED
      BY <2>1, <2>2
  <1>3. ASSUME NEW q \in AppRec, ReapedRunning(a, q)
        PROVE  HandlersOK' /\ \A b \in Apps : FlagsOK(b)'
    <2>1. app'[a] = q /\ \A b \in Apps \ {a} : app'[b] = app[b]
      BY <1>0, <1>3 DEF ReapedRunning, Reaped, Replaces
    <2>2. FlagsOK(a)'
      BY <1>0, <1>3, <2>1 DEF FlagsInv, FlagsOK, ReapedRunning
    <2>3. \A b \in Apps : FlagsOK(b)'
      BY <1>0, <1>3, <2>1, <2>2 DEF FlagsInv, FlagsOK, ReapedRunning
    <2>4. HandlersOK'
      BY <1>0, <1>3, <2>3 DEF FlagsInv, HandlersOK, FlagsOK, ReapedRunning
    <2> QED
      BY <2>3, <2>4
  <1>4. ASSUME NEW q \in AppRec, ReapedStopping(a, q)
        PROVE  HandlersOK' /\ \A b \in Apps : FlagsOK(b)'
    <2>1. app'[a] = q /\ \A b \in Apps \ {a} : app'[b] = app[b]
      BY <1>0, <1>4 DEF ReapedStopping, Reaped, Replaces
    <2>2. app[a].terminating => ~app[a].queue_restart
      BY DEF FlagsInv, FlagsOK
    <2>3. /\ busy' \in {"sigchld", "restart"} /\ loop' = loop
          /\ app[a].queue_restart => busy' = "restart"
          /\ a \notin applications' => a \notin applications \/ app[a].terminating
          /\ \A b \in Apps \ {a} : b \in applications => b \in applications'
      BY <1>0, <1>4, <2>2 DEF ReapedStopping
    <2>4. FlagsOK(a)'
      BY <1>0, <1>4, <2>1, <2>2, <2>3 DEF FlagsInv, FlagsOK, ReapedStopping
    <2>5. \A b \in Apps \ {a} : /\ app[b].queue_restart => app[b].status = "STOPPING"
                                /\ FlagsOK(b)'
      BY <1>0, <2>1, <2>3 DEF FlagsInv, FlagsOK
    <2>6. HandlersOK'
      BY <1>0, <2>1, <2>3, <2>5 DEF FlagsInv, HandlersOK
    <2> QED
      BY <2>4, <2>5, <2>6
  <1> QED
    BY <1>0, <1>1, <1>2, <1>3, <1>4, SignalEffect

LEMMA RestartFlags ==
  ASSUME FlagsInv, NEW a \in Apps, Restart(a)
  PROVE  HandlersOK' /\ \A b \in Apps : FlagsOK(b)'
  <1>0. /\ TimersInv /\ Types /\ app \in [Apps -> AppRec] /\ busy = "restart"
        /\ app[a].queue_restart /\ app[a].status = "STOPPED"
        /\ busy' = "sigchld" /\ exiting' = exiting /\ loop' = loop
        /\ applications' = applications /\ todo' = todo
    BY DEF FlagsInv, ProcInv, TimersInv, Types, Restart, starterVars
  <1> DEFINE w == [app[a] EXCEPT !.queue_restart = FALSE, !.status = "WAITING"]
  <1>1. /\ Startable(a, w) /\ DoStart(a, w)
        /\ w.queue_restart = FALSE
        /\ w.terminating = app[a].terminating
    BY <1>0, RestartStartable, Zenon
  <1> HIDE DEF w
  <1>2. PICK q \in AppRec : \/ Idled(a, w, q)
                            \/ \E p \in Pids : Forked(a, w, q, p)
    BY <1>0, <1>1, DoStartEffect
  <1>3. /\ Replaces(a, q) /\ q.queue_restart = FALSE
        /\ q.terminating = app[a].terminating
    BY <1>1, <1>2 DEF Idled, Forked
  <1>4. app'[a] = q /\ \A b \in Apps \ {a} : app'[b] = app[b]
    BY <1>0, <1>3 DEF Replaces
  <1>5. FlagsOK(a)'
    BY <1>0, <1>3, <1>4 DEF FlagsInv, FlagsOK
  <1>6. \A b \in Apps \ {a} : app[b].queue_restart => app[b].status = "STOPPING"
    BY <1>0 DEF FlagsInv, FlagsOK, HandlersOK
  <1>7. \A b \in Apps : FlagsOK(b)'
    BY <1>0, <1>4, <1>5, <1>6 DEF FlagsInv, FlagsOK
  <1>8. HandlersOK'
    BY <1>0, <1>7 DEF FlagsInv, HandlersOK, FlagsOK
  <1> QED
    BY <1>7, <1>8

\* The steps that change of the applications at most the timers.
LEMMA OtherFlags ==
  ASSUME FlagsInv,
         \/ RunLoop \/ OnStatusTimer \/ OnCleanupTimer \/ OnSigchld
         \/ SigchldDone \/ OnDeadlySignal \/ CleanupDone \/ Tick
         \/ (\E p \in Pids : Exits(p)) \/ UNCHANGED vars
  PROVE  HandlersOK' /\ \A b \in Apps : FlagsOK(b)'
  <1>0. TimersInv /\ applications \subseteq Apps
    BY DEF FlagsInv, ProcInv, TimersInv, Types
  <1>1. applications' = applications
    BY Zenon
       DEF RunLoop, OnStatusTimer, OnCleanupTimer, OnSigchld, SigchldDone,
           OnDeadlySignal, CleanupDone, Tick, Exits, vars, starterVars
  <1>2. \A b \in Apps : /\ app'[b].status = app[b].status
                        /\ app'[b].queue_restart = app[b].queue_restart
                        /\ app'[b].terminating = app[b].terminating
    <2>1. CASE app' = app
      BY <2>1
    <2>2. CASE Tick \/ RunLoop
      BY <1>0, <2>2, TickEffect DEF Ticked
    <2> QED
      BY <2>1, <2>2 DEF OnStatusTimer, OnCleanupTimer, OnSigchld,
           SigchldDone, OnDeadlySignal, CleanupDone, Exits, vars
  <1>3. CASE UNCHANGED <<busy, todo, exiting, loop>>
    BY <1>1, <1>2, <1>3 DEF FlagsInv, FlagsOK, HandlersOK
  <1>4. ASSUME busy # "restart", busy' # "restart", busy # "cleanup",
               busy' # "cleanup", exiting' = exiting,
               busy' # "starting", loop' \in {"run", "exit"},
               loop' = "exit" => busy' = "idle"
        PROVE  HandlersOK' /\ \A b \in Apps : FlagsOK(b)'
    <2>1. \A b \in Apps : FlagsOK(b)'
      BY <1>1, <1>2, <1>4 DEF FlagsInv, FlagsOK
    <2>2. HandlersOK'
      BY <1>4, <2>1 DEF HandlersOK, FlagsOK
    <2> QED
      BY <2>1, <2>2
  <1>5. CASE RunLoop \/ OnCleanupTimer \/ OnSigchld \/ SigchldDone
    <2>1. /\ busy # "restart" /\ busy' # "restart" /\ busy # "cleanup"
          /\ busy' # "cleanup" /\ exiting' = exiting /\ busy' # "starting"
          /\ loop' \in {"run", "exit"} /\ (loop' = "exit" => busy' = "idle")
      BY <1>5 DEF RunLoop, OnCleanupTimer, OnSigchld, SigchldDone, Fires, Idle,
                  starterVars, FlagsInv, HandlersOK
    <2> QED
      BY <1>4, <2>1
  <1>6. CASE OnDeadlySignal
    <2>1. /\ busy = "idle" /\ busy' = "cleanup" /\ exiting' /\ loop' = "run"
          /\ todo' = applications
      BY <1>6 DEF OnDeadlySignal, Idle
    <2>2. \A b \in Apps : FlagsOK(b)'
      BY <1>1, <1>2, <2>1 DEF FlagsInv, FlagsOK
    <2>3. HandlersOK'
      BY <2>1, <2>2 DEF HandlersOK, FlagsOK
    <2> QED
      BY <2>2, <2>3
  <1>7. CASE CleanupDone
    <2>1. /\ busy = "cleanup" /\ todo = {} /\ busy' = "idle" /\ exiting
          /\ exiting' = exiting /\ loop' = loop
      BY <1>7 DEF CleanupDone, FlagsInv, HandlersOK
    <2>2. \A b \in Apps : FlagsOK(b)'
      BY <1>1, <1>2, <2>1 DEF FlagsInv, FlagsOK
    <2>3. HandlersOK'
      BY <2>1, <2>2 DEF HandlersOK, FlagsOK, FlagsInv
    <2> QED
      BY <2>2, <2>3
  <1> QED
    BY <1>3, <1>5, <1>6, <1>7, Zenon
       DEF OnStatusTimer, Tick, Exits, vars, handlerVars, starterVars

LEMMA FlagsInvNext ==
  ASSUME ~PidReuse, FlagsInv, [Next]_vars
  PROVE  FlagsInv'
  <1>1. ProcInv'
    BY ProcInvNext DEF FlagsInv
  <1>2. HandlersOK' /\ \A b \in Apps : FlagsOK(b)'
    <2>1. ASSUME NEW a \in Apps, RunStart(a)
          PROVE  HandlersOK' /\ \A b \in Apps : FlagsOK(b)'
      <3>1. /\ HandleCommand(a, "START") /\ busy # "restart" /\ busy = "starting"
            /\ loop' = loop /\ busy' = busy /\ UNCHANGED starterVars
        BY <2>1 DEF RunStart
      <3>2. a \in applications /\ ~exiting
        BY <3>1 DEF FlagsInv, HandlersOK
      <3> QED
        BY <3>1, <3>2, CommandKeepsFlags
    <2>2. ASSUME NEW a \in Apps, NEW cmd \in Command, ReceiveCommand(a, cmd)
          PROVE  HandlersOK' /\ \A b \in Apps : FlagsOK(b)'
      <3>1. /\ busy = "idle" /\ loop' = loop /\ busy' = busy
            /\ todo' = todo /\ UNCHANGED starterVars
        BY <2>2 DEF ReceiveCommand, HandleStarterRpc, Idle, handlerVars
      <3>2. CASE app' = app
        BY <3>1, <3>2 DEF FlagsInv, HandlersOK, FlagsOK, starterVars
      <3>3. CASE ~exiting /\ a \in applications /\ HandleCommand(a, cmd)
        BY <3>1, <3>3, CommandKeepsFlags
      <3> QED
        BY <2>2, <3>2, <3>3 DEF ReceiveCommand, HandleStarterRpc
    <2> QED
      BY <2>1, <2>2, TimerFlags, SignalFlags, RestartFlags, TerminateFlags,
         OtherFlags
         DEF Next, RunStep, TimerStep, SigchldStep, CleanupStep
  <1> QED
    BY <1>1, <1>2 DEF FlagsInv

LEMMA FlagsInvInit ==
  Init => FlagsInv
  <1> SUFFICES ASSUME Init PROVE FlagsInv
    OBVIOUS
  <1>1. \A a \in Apps : /\ ~app[a].queue_restart /\ ~app[a].terminating
                        /\ a \in applications
    BY DEF Init, NewApplication
  <1>2. ~exiting /\ busy = "starting" /\ applications = Apps /\ loop = "run"
    BY DEF Init
  <1>3. HandlersOK /\ \A a \in Apps : FlagsOK(a)
    BY <1>1, <1>2 DEF HandlersOK, FlagsOK
  <1> QED
    BY <1>3, ProcInvInit DEF FlagsInv

LEMMA FlagsInvariant ==
  ASSUME ~PidReuse
  PROVE  Spec => []FlagsInv
  <1>1. FlagsInv /\ [Next]_vars => FlagsInv'
    BY FlagsInvNext
  <1> QED
    BY <1>1, FlagsInvInit, PTL DEF Spec

\* MaybeHandleSignal never meets its LOG(FATAL): a SIGCHLD for another process
\* leaves an application alone, as long as process ids are not reused.
THEOREM SignalNeverForOthers ==
  ASSUME ~PidReuse
  PROVE  Spec => []SignalNotForUs
  <1>1. FlagsInv => SignalNotForUs
    BY DEF FlagsInv, HandlersOK, SignalNotForUs
  <1> QED
    BY <1>1, FlagsInvariant, PTL

-----------------------------------------------------------------------------
(***************************************************************************)
(* Dead children.                                                          *)
(***************************************************************************)

\* Only the end of a process makes a zombie.
LEMMA NoNewZombie ==
  ASSUME FlagsInv, [Next]_vars
  PROVE  \/ \E p \in Pids : Ended(p)
         \/ \A p \in Pids : proc'[p].state = "zombie" =>
              proc[p].state = "zombie" /\ proc'[p].owner = proc[p].owner
  <1>0. /\ TimersInv /\ app \in [Apps -> AppRec] /\ proc \in [Pids -> ProcRec]
    BY DEF FlagsInv, ProcInv, TimersInv, Types
  <1> DEFINE Old(f) == \A p \in Pids : f[p].state = "zombie" =>
                proc[p].state = "zombie" /\ f[p].owner = proc[p].owner
  <1>1. ASSUME proc' = proc PROVE Old(proc')
    BY <1>1
  <1>2. ASSUME NEW a \in Apps, NEW q \in AppRec, Goes(a, q) PROVE Old(proc')
    <2>1. app[a].pid \in Pids \union {NoPid}
      BY <1>0 DEF AppRec
    <2>2. ASSUME NEW s \in Alive PROVE Old(Signalled(app[a].pid, s))
      <3>1. \A x \in Pids :
              Signalled(app[a].pid, s)[x].owner = proc[x].owner
        BY <1>0, <2>1, SignalledOwner, Zenon
      <3>2. \A x \in Pids :
              (Signalled(app[a].pid, s)[x].state = "zombie")
                <=> (proc[x].state = "zombie")
        BY <1>0, <2>1, SignalledProcess
      <3> QED
        BY <3>1, <3>2
    <2> QED
      BY <1>1, <1>2, <2>2 DEF Goes
  <1>3. ASSUME NEW a \in Apps, NEW q \in AppRec, Reaped(a, q) PROVE Old(proc')
    BY <1>0, <1>3 DEF Reaped, NoProcess
  <1>4. ASSUME NEW a \in Apps, NEW q \in AppRec, NEW p \in Pids, Forked(a, q, q, p)
        PROVE  Old(proc')
    BY <1>0, <1>4 DEF Forked
  <1>5. StepEffect
    BY <1>0, NextEffect
  <1>6. \A a \in Apps : ~Mistaken(a)
    BY NeverMistaken DEF FlagsInv
  <1> HIDE DEF Old
  <1>7. Old(proc') \/ \E p \in Pids : Ended(p)
    BY <1>1, <1>2, <1>3, <1>4, <1>5, <1>6 DEF StepEffect, Ticked
  <1> QED
    BY <1>7 DEF Old

LEMMA AnnouncedNext ==
  ASSUME FlagsInv, Announced, [Next]_vars
  PROVE  Announced'
  <1>0. /\ TimersInv /\ app \in [Apps -> AppRec] /\ proc \in [Pids -> ProcRec]
    BY DEF FlagsInv, ProcInv, TimersInv, Types
  <1>1. CASE sigchld'
    BY <1>1 DEF Announced
  <1>2. SUFFICES ASSUME NEW p \in Pids, proc'[p].state = "zombie", ~sigchld',
                        proc[p].state = "zombie", proc'[p].owner = proc[p].owner
                 PROVE  busy' \in {"sigchld", "restart"} /\ proc[p].owner \in todo'
    BY <1>1, NoNewZombie DEF Announced, Ended
  <1>3. /\ ~sigchld => busy \in {"sigchld", "restart"} /\ proc[p].owner \in todo
    BY <1>2 DEF Announced
  <1>4. PICK b \in Apps : /\ proc[p].owner = b /\ app[b].pid = p
                          /\ app[b].status \in Active
    BY <1>2 DEF FlagsInv, ProcInv, Holds
  <1>5. CASE OnSigchld
    <2>1. busy' = "sigchld" /\ todo' = applications
      BY <1>5 DEF OnSigchld
    <2>2. b \in applications
      BY <1>4 DEF FlagsInv, FlagsOK, Active
    <2> QED
      BY <1>4, <2>1, <2>2
  <1>6. ASSUME NEW a \in Apps, MaybeHandleSignal(a)
        PROVE  busy' \in {"sigchld", "restart"} /\ proc[p].owner \in todo'
    <2>1. todo' = todo \ {a} /\ busy = "sigchld" /\ sigchld' = sigchld
      BY <1>6 DEF MaybeHandleSignal
    <2>2. ~Mistaken(a)
      BY NeverMistaken DEF FlagsInv
    <2>3. busy' \in {"sigchld", "restart"}
      BY <1>0, <1>6, <2>1, <2>2, SignalEffect DEF ReapedRunning, ReapedStopping
    <2>4. \/ ~Reaps(a)
          \/ proc' = [proc EXCEPT ![app[a].pid] = NoProcess]
      BY <1>0, <1>6, <2>2, SignalEffect DEF ReapedRunning, ReapedStopping, Reaped
    <2>5. p # NoPid
      BY StarterdAssumption DEF NoPid
    <2>6. b # a
      <3> SUFFICES ASSUME app[a].pid = p PROVE FALSE
        BY <1>4
      <3>1. Reaps(a)
        BY <1>2, <2>5 DEF Reaps
      <3>2. proc'[p] = NoProcess
        BY <1>0, <2>4, <3>1
      <3>3. proc'[p].state = "free"
        BY <3>2 DEF NoProcess
      <3> QED
        BY <1>2, <3>3
    <2> QED
      BY <1>2, <1>3, <1>4, <2>1, <2>3, <2>6
  <1>7. ASSUME NEW a \in Apps, Restart(a)
        PROVE  busy' \in {"sigchld", "restart"} /\ proc[p].owner \in todo'
    BY <1>2, <1>3, <1>7 DEF Restart
  <1>8. CASE UNCHANGED <<busy, todo, sigchld>>
    BY <1>2, <1>3, <1>8
  <1>9. ASSUME sigchld' = sigchld,
               busy \in {"starting", "idle", "cleanup"} \/ todo = {}
        PROVE  FALSE
    BY <1>2, <1>3, <1>9
  <1>10. CASE \/ (\E a \in Apps : RunStart(a) \/ CleanupOne(a))
              \/ RunLoop \/ OnDeadlySignal \/ CleanupDone \/ SigchldDone
    BY <1>9, <1>10 DEF RunStart, CleanupOne, RunLoop, OnDeadlySignal, CleanupDone,
                       SigchldDone, Idle
  <1>11. CASE \E q \in Pids : Exits(q)
    BY <1>2, <1>11 DEF Exits
  <1> QED
    BY <1>5, <1>6, <1>7, <1>8, <1>10, <1>11, Zenon
       DEF Next, RunStep, TimerStep, SigchldStep, CleanupStep, ReceiveCommand,
           HandleStarterRpc, OnStartTimer, OnRestartTimer, OnStopTimer,
           OnStatusTimer, OnCleanupTimer, Tick, vars, handlerVars

LEMMA AnnouncedInvariant ==
  ASSUME ~PidReuse
  PROVE  Spec => [](FlagsInv /\ Announced)
  <1>1. Init => Announced
    BY DEF Init, Announced, NoProcess
  <1>2. FlagsInv /\ Announced /\ [Next]_vars => Announced'
    BY AnnouncedNext
  <1>3. FlagsInv /\ [Next]_vars => FlagsInv'
    BY FlagsInvNext
  <1> QED
    BY <1>1, <1>2, <1>3, FlagsInvInit, PTL DEF Spec

\* However the deaths of children fall between the steps of OnSignal, no child
\* stays a zombie behind an idle loop that has no SIGCHLD to read.  The
\* invariant says which applications OnSignal has yet to visit.
THEOREM ZombiesAlwaysAnnounced ==
  ASSUME ~PidReuse
  PROVE  Spec => []NoZombieForgotten
  <1>1. Announced => NoZombieForgotten
    BY DEF Announced, NoZombieForgotten, Idle
  <1> QED
    BY <1>1, AnnouncedInvariant, PTL

-----------------------------------------------------------------------------
(***************************************************************************)
(* stop_timer_ and cleanup_timer_.                                         *)
(***************************************************************************)

\* The new record q of an application keeps its deadline: STOPPING without a
\* stop_timer_ means SIGKILL was sent, and after Cleanup no stop_timer_ is set.
Timely(a, q) ==
  /\ q.status = "STOPPING" /\ q.stop = Off =>
       proc'[q.pid].state \notin {"up", "interrupted"}
  /\ cleanup # Off => q.stop \in {Off, app[a].stop}

DeadlineInv == FlagsInv /\ DeadlinesOK

LEMMA IdleIsTimely ==
  ASSUME NEW a \in Apps, NEW q \in AppRec, Replaces(a, q), q.status # "STOPPING"
  PROVE  Timely(a, q)
  BY DEF Replaces, TimersOK, Timely

LEMMA KeptIsTimely ==
  ASSUME DeadlineInv, NEW a \in Apps, NEW q \in AppRec, NEW r, NEW restart,
         Kept(a, r, q, restart)
  PROVE  Timely(a, q)
  BY DEF DeadlineInv, DeadlinesOK, Kept, Timely

LEMMA InterruptedIsTimely ==
  ASSUME NEW a \in Apps, NEW q \in AppRec, NEW r, NEW restart,
         Interrupted(a, r, q, restart), cleanup = Off
  PROVE  Timely(a, q)
  BY DEF Interrupted, Timely, Off, StopDelay

\* What a step does to one application.
Acts(a, q) == \/ Goes(a, q) \/ Reaped(a, q)
              \/ \E p \in Pids : Forked(a, q, q, p)

LEMMA CommandTimely ==
  ASSUME DeadlineInv, NEW a \in Apps, NEW cmd, HandleCommand(a, cmd),
         cleanup = Off
  PROVE  \E q \in AppRec : Acts(a, q) /\ Timely(a, q)
  <1>0. TimersInv
    BY DEF DeadlineInv, FlagsInv, ProcInv
  <1>1. PICK q \in AppRec, restart \in BOOLEAN :
          \/ Idled(a, app[a], q)
          \/ \E p \in Pids : Forked(a, app[a], q, p)
          \/ Kept(a, app[a], q, restart)
          \/ Interrupted(a, app[a], q, restart)
    BY <1>0, HandleCommandEffect
  <1>2. Acts(a, q)
    BY <1>1 DEF Acts, Goes, Idled, Forked, Kept, Interrupted, Active, Alive
  <1>3. Timely(a, q)
    <2>1. CASE Idled(a, app[a], q) \/ \E p \in Pids : Forked(a, app[a], q, p)
      BY <2>1, IdleIsTimely DEF Idled, Forked
    <2> QED
      BY <1>1, <2>1, KeptIsTimely, InterruptedIsTimely
  <1> QED
    BY <1>2, <1>3

LEMMA StartTimely ==
  ASSUME Types, NEW a \in Apps, NEW r, Startable(a, r), DoStart(a, r)
  PROVE  \E q \in AppRec : Acts(a, q) /\ Timely(a, q)
  <1>1. PICK q \in AppRec : \/ Idled(a, r, q)
                            \/ \E p \in Pids : Forked(a, r, q, p)
    BY DoStartEffect
  <1>2. Acts(a, q)
    BY <1>1 DEF Acts, Goes, Idled, Forked, Active
  <1>3. Timely(a, q)
    BY <1>1, IdleIsTimely DEF Idled, Forked
  <1> QED
    BY <1>2, <1>3

LEMMA TerminateTimely ==
  ASSUME DeadlineInv, NEW a \in Apps, CleanupOne(a)
  PROVE  \E q \in AppRec : Acts(a, q) /\ Timely(a, q)
  <1>0. TimersInv /\ cleanup = Off
    BY DEF DeadlineInv, FlagsInv, ProcInv, DeadlinesOK, CleanupOne
  <1> DEFINE r == [app[a] EXCEPT !.terminating = TRUE]
  <1>1. PICK q \in AppRec : \/ Idled(a, r, q)
                            \/ Kept(a, r, q, FALSE)
                            \/ Interrupted(a, r, q, FALSE)
    BY <1>0, TerminateEffect, Zenon DEF CleanupOne
  <1> HIDE DEF r
  <1>2. Acts(a, q)
    BY <1>1, Zenon DEF Acts, Goes, Idled, Kept, Interrupted, Active, Alive
  <1>3. Timely(a, q)
    <2>1. CASE Idled(a, r, q)
      BY <2>1, IdleIsTimely DEF Idled
    <2> QED
      BY <1>0, <1>1, <2>1, KeptIsTimely, InterruptedIsTimely, Zenon
  <1> QED
    BY <1>2, <1>3

LEMMA StopTimely ==
  ASSUME DeadlineInv, NEW a \in Apps, OnStopTimer(a)
  PROVE  \E q \in AppRec : Acts(a, q) /\ Timely(a, q)
  <1>0. TimersInv /\ proc \in [Pids -> ProcRec]
    BY DEF DeadlineInv, FlagsInv, ProcInv, TimersInv, Types
  <1>1. PICK q \in AppRec :
          /\ Goes(a, q) /\ proc' = Signalled(app[a].pid, "killed")
          /\ app[a].status = "STOPPING" /\ q.status = "STOPPING"
          /\ q.stop = Off
    BY <1>0, StopTimerEffect
  <1>2. app[a].pid \in Pids /\ q.pid = app[a].pid /\ "killed" \in Alive
    BY <1>1 DEF DeadlineInv, FlagsInv, ProcInv, Active, Goes, Alive
  <1>3. proc'[q.pid].state \in Alive => proc'[q.pid].state = "killed"
    BY <1>0, <1>1, <1>2, SignalledAlive
  <1>4. proc'[q.pid].state \notin {"up", "interrupted"}
    BY <1>3 DEF Alive
  <1> QED
    BY <1>1, <1>4 DEF Acts, Timely

LEMMA SignalTimely ==
  ASSUME FlagsInv, NEW a \in Apps, MaybeHandleSignal(a)
  PROVE  \/ app' = app /\ proc' = proc
         \/ \E q \in AppRec : Acts(a, q) /\ Timely(a, q)
  <1>0. TimersInv /\ ~Mistaken(a)
    BY NeverMistaken DEF FlagsInv, ProcInv
  <1>1. ASSUME NEW q \in AppRec, ReapedRunning(a, q) \/ ReapedStopping(a, q)
        PROVE  Acts(a, q) /\ Timely(a, q)
    BY <1>1, IdleIsTimely DEF ReapedRunning, ReapedStopping, Reaped, Acts
  <1> QED
    BY <1>0, <1>1, SignalEffect

\* Every step acts on one application in time, on none, or moves the clock.
LEMMA NextTimely ==
  ASSUME DeadlineInv, [Next]_vars
  PROVE  \/ \E a \in Apps, q \in AppRec : Acts(a, q) /\ Timely(a, q)
         \/ app' = app /\ proc' = proc
         \/ \E p \in Pids : Exits(p)
         \/ Tick
         \/ RunLoop
  <1>0. FlagsInv /\ TimersInv /\ Types
    BY DEF DeadlineInv, FlagsInv, ProcInv, TimersInv
  <1>1. ASSUME NEW a \in Apps, RunStart(a)
        PROVE  \E q \in AppRec : Acts(a, q) /\ Timely(a, q)
    BY <1>1, CommandTimely DEF RunStart, DeadlineInv, DeadlinesOK
  <1>2. ASSUME NEW a \in Apps, NEW cmd \in Command, ReceiveCommand(a, cmd)
        PROVE  \/ app' = app /\ proc' = proc
               \/ \E q \in AppRec : Acts(a, q) /\ Timely(a, q)
    <2>1. CASE ~exiting /\ HandleCommand(a, cmd)
      BY <2>1, CommandTimely DEF DeadlineInv, DeadlinesOK
    <2> QED
      BY <1>2, <2>1 DEF ReceiveCommand, HandleStarterRpc
  <1>3. ASSUME NEW a \in Apps, OnStartTimer(a)
        PROVE  \E q \in AppRec : Acts(a, q) /\ Timely(a, q)
    BY <1>0, <1>3, StartTimerEffect, IdleIsTimely DEF Goes, Acts
  <1>4. ASSUME NEW a \in Apps, OnRestartTimer(a)
        PROVE  \E q \in AppRec : Acts(a, q) /\ Timely(a, q)
    BY <1>0, <1>4, RestartTimerStartable, StartTimely, Zenon
  <1>5. ASSUME NEW a \in Apps, Restart(a)
        PROVE  \E q \in AppRec : Acts(a, q) /\ Timely(a, q)
    BY <1>0, <1>5, RestartStartable, StartTimely, Zenon
  <1>6. CASE \/ OnStatusTimer \/ OnCleanupTimer \/ OnSigchld
             \/ SigchldDone \/ OnDeadlySignal \/ CleanupDone \/ UNCHANGED vars
    BY <1>6 DEF OnStatusTimer, OnCleanupTimer, OnSigchld, SigchldDone,
                OnDeadlySignal, CleanupDone, vars
  <1> QED
    BY <1>0, <1>1, <1>2, <1>3, <1>4, <1>5, <1>6, StopTimely, SignalTimely,
       TerminateTimely
       DEF Next, RunStep, TimerStep, SigchldStep, CleanupStep

\* What happens to a leaves the processes of the others alone.
LEMMA OthersProcess ==
  ASSUME ~PidReuse, ProcInv, NEW a \in Apps, NEW q \in AppRec, Acts(a, q),
         NEW b \in Apps \ {a}, app[b].status \in Active
  PROVE  proc'[app[b].pid] = proc[app[b].pid]
  <1>0. /\ app \in [Apps -> AppRec] /\ proc \in [Pids -> ProcRec]
        /\ app[b].pid \in Pids /\ NoPid \notin Pids
        /\ app[a].pid # app[b].pid
    BY StarterdAssumption DEF ProcInv, TimersInv, Types, NoPid
  <1>1. CASE Goes(a, q)
    <2>1. app[a].pid \in Pids \union {NoPid}
      BY <1>0 DEF AppRec
    <2>2. \A s : Signalled(app[a].pid, s)[app[b].pid] = proc[app[b].pid]
      BY <1>0, <2>1 DEF Signalled
    <2> QED
      BY <1>1, <2>2 DEF Goes
  <1>2. CASE Reaped(a, q)
    BY <1>0, <1>2 DEF Reaped
  <1>3. CASE \E p \in Pids : Forked(a, q, q, p)
    BY <1>0, <1>3 DEF Forked, ForkResults
  <1> QED
    BY <1>1, <1>2, <1>3 DEF Acts

LEMMA KilledNext ==
  ASSUME ~PidReuse, DeadlineInv, [Next]_vars, NEW b \in Apps,
         app'[b].status = "STOPPING", app'[b].stop = Off
  PROVE  proc'[app'[b].pid].state \notin {"up", "interrupted"}
  <1>0. /\ app \in [Apps -> AppRec] /\ proc \in [Pids -> ProcRec]
        /\ ProcInv /\ TimersInv
    BY DEF DeadlineInv, FlagsInv, ProcInv, TimersInv, Types
  <1>1. ASSUME app[b].status = "STOPPING", app[b].stop = Off
        PROVE  /\ proc[app[b].pid].state \notin {"up", "interrupted"}
               /\ app[b].pid \in Pids
    BY <1>1 DEF DeadlineInv, DeadlinesOK, FlagsInv, ProcInv, Active
  <1>2. ASSUME NEW a \in Apps, NEW q \in AppRec, Acts(a, q), Timely(a, q)
        PROVE  proc'[app'[b].pid].state \notin {"up", "interrupted"}
    <2>1. app'[a] = q /\ \A c \in Apps \ {a} : app'[c] = app[c]
      BY <1>0, <1>2 DEF Acts, Goes, Reaped, Forked, Replaces
    <2>2. CASE b = a
      BY <1>2, <2>1, <2>2 DEF Timely
    <2>3. CASE b # a
      <3>1. app[b].status \in Active /\ app'[b] = app[b]
        BY <2>1, <2>3 DEF Active
      <3> QED
        BY <1>0, <1>1, <1>2, <2>3, <3>1, OthersProcess
    <2> QED
      BY <2>2, <2>3
  <1>3. CASE app' = app /\ proc' = proc
    BY <1>1, <1>3
  <1>4. ASSUME NEW p \in Pids, Exits(p)
        PROVE  proc'[app'[b].pid].state \notin {"up", "interrupted"}
    <2>1. app' = app
      BY <1>4 DEF Exits
    <2>2. \A x \in Pids : proc'[x].state \in {proc[x].state, "zombie"}
      BY <1>0, <1>4 DEF Exits, ProcRec
    <2> QED
      BY <1>1, <2>1, <2>2
  <1>5. CASE Tick \/ RunLoop
    <2>1. /\ app'[b].status = app[b].status /\ app'[b].pid = app[b].pid
          /\ proc' = proc /\ app'[b].stop = Later(app[b].stop)
      BY <1>0, <1>5, TickEffect DEF Ticked
    <2>2. app[b].stop \in Int /\ app[b].stop <= Off
      BY <1>0 DEF AppRec, TimersInv, TimersOK, Off, StopDelay
    <2>3. app[b].stop = Off
      BY <2>1, <2>2, LaterTimer
    <2> QED
      BY <1>1, <2>1, <2>3
  <1> QED
    BY <1>2, <1>3, <1>4, <1>5, NextTimely

LEMMA CleanupNext ==
  ASSUME DeadlineInv, [Next]_vars, cleanup' # Off
  PROVE  /\ exiting' /\ busy' \notin {"starting", "cleanup"}
         /\ cleanup' <= CleanupDelay
         /\ \A b \in Apps : app'[b].stop # Off => app'[b].stop < cleanup'
  <1>0. /\ app \in [Apps -> AppRec] /\ proc \in [Pids -> ProcRec]
        /\ FlagsInv /\ TimersInv /\ cleanup \in Int
    BY DEF DeadlineInv, FlagsInv, ProcInv, TimersInv, Types
  <1>1. CASE CleanupDone
    <2>1. /\ exiting' /\ busy' = "idle" /\ cleanup' = CleanupDelay /\ app' = app
      BY <1>0, <1>1 DEF CleanupDone, FlagsInv, HandlersOK
    <2>2. \A b \in Apps : app[b].stop # Off => app[b].stop <= StopDelay
      BY <1>0 DEF TimersInv, TimersOK
    <2>3. \A b \in Apps : app[b].stop \in Int
      BY <1>0 DEF AppRec
    <2> QED
      BY <2>1, <2>2, <2>3 DEF StopDelay, CleanupDelay
  <1>2. CASE Tick
    <2>1. cleanup' = Later(cleanup) /\ exiting' = exiting /\ busy' = busy
      BY <1>2, Zenon DEF Tick, handlerVars
    <2>2. cleanup # Off
      BY <2>1 DEF Later
    <2>3. /\ exiting /\ busy \notin {"starting", "cleanup"}
          /\ cleanup <= CleanupDelay
          /\ \A b \in Apps : app[b].stop # Off => app[b].stop < cleanup
      BY <2>2 DEF DeadlineInv, DeadlinesOK
    <2>4. cleanup' = cleanup - 1
      BY <2>1, <2>2 DEF Later
    <2>5. ASSUME NEW b \in Apps, app'[b].stop # Off
          PROVE  app'[b].stop < cleanup'
      <3>1. app[b].stop \in Int /\ app[b].stop <= Off
        BY <1>0 DEF AppRec, TimersInv, TimersOK, Off, StopDelay
      <3>2. app'[b].stop = Later(app[b].stop)
        BY <1>0, <1>2, TickEffect
      <3>3. app[b].stop # Off /\ app'[b].stop = app[b].stop - 1
        BY <2>5, <3>1, <3>2, LaterTimer
      <3> QED
        BY <1>0, <2>3, <2>4, <3>1, <3>3
    <2> QED
      BY <1>0, <2>1, <2>3, <2>4, <2>5 DEF CleanupDelay
  <1>3. CASE ~CleanupDone /\ ~Tick
    <2>1. cleanup' = cleanup
      BY <1>3, Zenon
         DEF Next, RunStep, TimerStep, SigchldStep, CleanupStep, RunStart,
             RunLoop, ReceiveCommand, HandleStarterRpc, OnStartTimer,
             OnRestartTimer, OnStopTimer, OnStatusTimer, OnCleanupTimer,
             OnSigchld, MaybeHandleSignal, Restart, SigchldDone,
             OnDeadlySignal, CleanupOne, Exits, vars, starterVars
    <2>2. /\ exiting /\ busy \notin {"starting", "cleanup"}
          /\ cleanup <= CleanupDelay
          /\ \A b \in Apps : app[b].stop # Off => app[b].stop < cleanup
      BY <2>1 DEF DeadlineInv, DeadlinesOK
    <2>3. exiting' /\ (busy' = busy \/ busy' \in {"idle", "sigchld", "restart"})
      BY <1>3, <2>2, Zenon
         DEF Next, RunStep, TimerStep, SigchldStep, CleanupStep, RunStart,
             RunLoop, ReceiveCommand, HandleStarterRpc, OnStartTimer,
             OnRestartTimer, OnStopTimer, OnStatusTimer, OnCleanupTimer,
             OnSigchld, MaybeHandleSignal, NothingHappened, Restart,
             SigchldDone, OnDeadlySignal, CleanupOne, Exits, vars, starterVars,
             handlerVars
    <2>4. \A b \in Apps : app'[b].stop \in {Off, app[b].stop}
      <3>1. CASE app' = app
        BY <3>1
      <3>2. ASSUME NEW a \in Apps, NEW q \in AppRec, Acts(a, q), Timely(a, q)
            PROVE  \A b \in Apps : app'[b].stop \in {Off, app[b].stop}
        <4>1. app'[a] = q /\ \A c \in Apps \ {a} : app'[c] = app[c]
          BY <1>0, <3>2 DEF Acts, Goes, Reaped, Forked, Replaces
        <4>2. cleanup # Off
          BY <2>1
        <4> QED
          BY <3>2, <4>1, <4>2 DEF Timely
      <3> QED
        BY <1>3, <2>2, <3>1, <3>2, NextTimely, Zenon DEF Exits, RunLoop
    <2> QED
      BY <2>1, <2>2, <2>3, <2>4
  <1> QED
    BY <1>1, <1>2, <1>3

LEMMA DeadlineInvNext ==
  ASSUME ~PidReuse, DeadlineInv, [Next]_vars
  PROVE  DeadlineInv'
  <1>1. FlagsInv'
    BY FlagsInvNext DEF DeadlineInv
  <1>2. DeadlinesOK'
    BY KilledNext, CleanupNext DEF DeadlinesOK
  <1> QED
    BY <1>1, <1>2 DEF DeadlineInv

\* When no timer holds anybody back any more, nobody is left.
LEMMA CleanupTimerLast ==
  ASSUME DeadlineInv, OnCleanupTimer
  PROVE  \A p \in Pids : proc[p].state \notin {"up", "interrupted"}
  <1>0. /\ FlagsInv /\ ProcInv /\ TimersInv /\ cleanup \in Int
        /\ app \in [Apps -> AppRec]
    BY DEF DeadlineInv, FlagsInv, ProcInv, TimersInv, Types
  <1>1. /\ cleanup <= 0 /\ busy = "idle"
        /\ \A a \in Apps : cleanup <= app[a].stop
    BY DEF OnCleanupTimer, Fires, Oldest, Timers, Idle
  <1>2. /\ exiting /\ \A a \in Apps : app[a].stop # Off => app[a].stop < cleanup
    BY <1>0, <1>1 DEF DeadlineInv, DeadlinesOK, Off
  <1>3. \A a \in Apps : app[a].stop = Off
    <2>1. \A a \in Apps : app[a].stop \in Int
      BY <1>0 DEF AppRec
    <2> QED
      BY <1>0, <1>1, <1>2, <2>1
  <1>4. \A a \in Apps : app[a].status \in {"STOPPING", "STOPPED"}
    BY <1>0, <1>1, <1>2 DEF FlagsInv, FlagsOK
  <1> SUFFICES ASSUME NEW p \in Pids, proc[p].state \in {"up", "interrupted"}
               PROVE  FALSE
    OBVIOUS
  <1>5. PICK a \in Apps : app[a].status \in Active /\ app[a].pid = p
    <2>1. proc[p].state # "free" /\ proc[p].owner \in Apps
      BY <1>0 DEF ProcInv
    <2>2. Holds(proc[p].owner)
      BY <1>0, <2>1 DEF ProcInv
    <2> QED
      BY <2>1, <2>2 DEF Holds
  <1>6. app[a].status = "STOPPING"
    BY <1>4, <1>5 DEF Active
  <1> QED
    BY <1>3, <1>5, <1>6 DEF DeadlineInv, DeadlinesOK

LEMMA LastApplicationGone ==
  ASSUME FlagsInv, applications = {}
  PROVE  \A p \in Pids : proc[p].state = "free"
  <1>1. \A a \in Apps : app[a].status = "STOPPED"
    BY DEF FlagsInv, FlagsOK
  <1> SUFFICES ASSUME NEW p \in Pids, proc[p].state # "free"
               PROVE  FALSE
    OBVIOUS
  <1>2. proc[p].owner \in Apps /\ Holds(proc[p].owner)
    BY DEF FlagsInv, ProcInv
  <1> QED
    BY <1>1, <1>2 DEF Holds, Active

LEMMA ExitNext ==
  ASSUME DeadlineInv, ExitLeavesNobody, [Next]_vars
  PROVE  ExitLeavesNobody'
  <1>0. Alive \ {"killed"} = {"up", "interrupted"}
    BY DEF Alive
  <1>1. CASE OnCleanupTimer
    BY <1>0, <1>1, CleanupTimerLast DEF ExitLeavesNobody, OnCleanupTimer
  <1>2. CASE SigchldDone
    BY <1>0, <1>2, LastApplicationGone
       DEF ExitLeavesNobody, SigchldDone, DeadlineInv
  <1>3. CASE UNCHANGED vars
    BY <1>3 DEF ExitLeavesNobody, vars, handlerVars
  <1>4. CASE Next /\ ~OnCleanupTimer /\ ~SigchldDone
    <2>1. loop = "run" \/ busy \in {"starting", "restart", "cleanup"}
      BY <1>4, Zenon
         DEF Next, RunStep, TimerStep, SigchldStep, CleanupStep, RunStart,
             RunLoop, ReceiveCommand, HandleStarterRpc, OnStartTimer,
             OnRestartTimer, OnStopTimer, OnStatusTimer, OnSigchld, Fires,
             Idle, MaybeHandleSignal, Restart, OnDeadlySignal, CleanupOne,
             CleanupDone, Exits, Tick
    <2>2. loop = "run"
      BY <2>1 DEF DeadlineInv, FlagsInv, HandlersOK
    <2>3. loop' \in {loop, "fatal"}
      BY <1>4, Zenon
         DEF Next, RunStep, TimerStep, SigchldStep, CleanupStep, RunStart,
             RunLoop, ReceiveCommand, HandleStarterRpc, OnStartTimer,
             OnRestartTimer, OnStopTimer, OnStatusTimer, OnSigchld,
             MaybeHandleSignal, NothingHappened, Restart, OnDeadlySignal,
             CleanupOne, CleanupDone, Exits, Tick, handlerVars
    <2> QED
      BY <2>2, <2>3 DEF ExitLeavesNobody
  <1> QED
    BY <1>1, <1>2, <1>3, <1>4

\* The daemon leaves its loop only when every process it started was reaped, is
\* dead or was sent SIGKILL: cleanup_timer_, set when Cleanup is through, is
\* behind every stop_timer_ that Cleanup set, whatever the loop's lateness, and
\* nothing is started in between.
THEOREM NobodyLeftBehind ==
  ASSUME ~PidReuse
  PROVE  Spec => []ExitLeavesNobody
  <1>1. Init => DeadlineInv /\ ExitLeavesNobody
    <2> SUFFICES ASSUME Init PROVE DeadlineInv /\ ExitLeavesNobody
      OBVIOUS
    <2>1. \A a \in Apps : app[a].status = "STOPPED"
      BY DEF Init, NewApplication
    <2> QED
      BY <2>1, FlagsInvInit DEF DeadlineInv, DeadlinesOK, ExitLeavesNobody, Init
  <1>2. DeadlineInv /\ [Next]_vars => DeadlineInv'
    BY DeadlineInvNext
  <1>3. DeadlineInv /\ ExitLeavesNobody /\ [Next]_vars => ExitLeavesNobody'
    BY ExitNext
  <1> QED
    BY <1>1, <1>2, <1>3, PTL DEF Spec
=============================================================================
