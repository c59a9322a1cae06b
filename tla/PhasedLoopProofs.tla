-------------------------- MODULE PhasedLoopProofs --------------------------
(***************************************************************************)
(* What PhasedLoop computes, for every interval, offset and time.          *)
(***************************************************************************)
EXTENDS PhasedLoop, TLAPS

(***************************************************************************)
(* The division of C++, by its quotient and a remainder with the sign of   *)
(* the dividend.                                                           *)
(***************************************************************************)
LEMMA DivUp ==
  ASSUME NEW a \in Nat, NEW b \in Nat \ {0}
  PROVE  \E q \in Int, r \in 0 .. b - 1 : Div(a, b) = q /\ a = q * b + r
  <1>1. /\ a \div b \in Int
        /\ a % b \in 0 .. b - 1
        /\ a = b * (a \div b) + (a % b)
    OBVIOUS
  <1>2. Div(a, b) = a \div b
    BY DEF Div
  <1> QED
    BY <1>1, <1>2

LEMMA DivDown ==
  ASSUME NEW a \in Int, a <= 0, NEW b \in Nat \ {0}
  PROVE  \E q \in Int, r \in 0 .. b - 1 : Div(a, b) = q /\ a = q * b - r
  <1>1. PICK n \in Nat : n = -a
    OBVIOUS
  <1>2. /\ n \div b \in Int
        /\ n % b \in 0 .. b - 1
        /\ n = b * (n \div b) + (n % b)
    OBVIOUS
  <1>3. CASE a = 0
    <2>1. Div(a, b) = 0
      <3>1. 0 \div b = 0
        OBVIOUS
      <3> QED
        BY <1>3, <3>1 DEF Div
    <2> QED
      BY <1>3, <2>1
  <1>4. CASE a < 0
    <2>1. Div(a, b) = -(n \div b)
      BY <1>1, <1>4 DEF Div
    <2>2. PICK q \in Int : q = -(n \div b)
      BY <1>2
    <2>3. PICK r \in 0 .. b - 1 : r = n % b
      BY <1>2
    <2>4. n = b * (-q) + r
      BY <1>2, <2>2, <2>3
    <2>5. a = q * b - r
      BY <1>1, <2>4
    <2> QED
      BY <2>1, <2>2, <2>5
  <1> QED
    BY <1>3, <1>4

LEMMA DivType ==
  ASSUME NEW a \in Int, NEW b \in Nat \ {0}
  PROVE  Div(a, b) \in Int
  BY DivUp, DivDown

LEMMA SmallMultiple ==
  ASSUME NEW c \in Nat \ {0}, NEW k \in Int, k * c < c, k * c > -c
  PROVE  k = 0
  <1>1. ASSUME k >= 1 PROVE FALSE
    <2>1. k * c >= c
      BY <1>1
    <2> QED
      BY <2>1
  <1>2. ASSUME k <= -1 PROVE FALSE
    <2>1. k * c <= -c
      BY <1>2
    <2> QED
      BY <2>1
  <1> QED
    BY <1>1, <1>2

\* A multiple is divided exactly.
LEMMA DivExact ==
  ASSUME NEW k \in Int, NEW c \in Nat \ {0}
  PROVE  Div(k * c, c) = k
  <1>1. PICK n \in Int : n = k * c
    OBVIOUS
  <1>2. PICK q \in Int, r \in Int :
          /\ Div(n, c) = q /\ n = q * c + r
          /\ r < c /\ r > -c
    <2>1. CASE n >= 0
      BY <2>1, DivUp
    <2>2. CASE n <= 0
      <3>1. PICK q \in Int, r \in 0 .. c - 1 : Div(n, c) = q /\ n = q * c - r
        BY <2>2, DivDown
      <3>2. -r \in Int /\ n = q * c + (-r) /\ -r < c /\ -r > -c
        BY <3>1
      <3> QED
        BY <3>1, <3>2
    <2> QED
      BY <2>1, <2>2
  <1>3. PICK j \in Int : j = k - q
    OBVIOUS
  <1>4. j * c = r
    BY <1>1, <1>2, <1>3
  <1>5. j = 0
    BY <1>2, <1>4, SmallMultiple
  <1> QED
    BY <1>1, <1>2, <1>3, <1>5

-----------------------------------------------------------------------------
\* How far the next time is from now, and which multiple of the interval it is.
LEMMA SleepTimeWindow ==
  ASSUME NEW interval \in Nat \ {0}, NEW offset \in Int, NEW now \in Int
  PROVE  \E k \in Int :
           /\ SleepTime(interval, offset, now) = k * interval + offset
           /\ k * interval + offset > now
           /\ k * interval + offset <= now + interval
  <1>1. CASE now >= offset
    <2>1. PICK p \in Nat : p = now - offset + interval
      BY <1>1
    <2>2. PICK k \in Int, r \in 0 .. interval - 1 :
            Div(p, interval) = k /\ p = k * interval + r
      BY DivUp
    <2>3. SleepTime(interval, offset, now) = k * interval + offset
      BY <1>1, <2>1, <2>2 DEF SleepTime
    <2>4. PICK n \in Int : n = k * interval
      OBVIOUS
    <2>5. n + offset > now /\ n + offset <= now + interval
      BY <2>1, <2>2, <2>4
    <2> QED
      BY <2>3, <2>4, <2>5
  <1>2. CASE now < offset
    <2>1. PICK p \in Int : p = now - offset + 1
      OBVIOUS
    <2>2. PICK k \in Int, r \in 0 .. interval - 1 :
            Div(p, interval) = k /\ p = k * interval - r
      <3>1. p <= 0
        BY <1>2, <2>1
      <3> QED
        BY <3>1, DivDown
    <2>3. SleepTime(interval, offset, now) = k * interval + offset
      BY <1>2, <2>1, <2>2 DEF SleepTime
    <2>4. PICK n \in Int : n = k * interval
      OBVIOUS
    <2>5. n + offset > now /\ n + offset <= now + interval
      BY <2>1, <2>2, <2>4
    <2> QED
      BY <2>3, <2>4, <2>5
  <1> QED
    BY <1>1, <1>2

\* A time of the loop is a multiple of the interval after the offset.
LEMMA PhaseOfMultiple ==
  ASSUME NEW interval \in Nat \ {0}, NEW offset \in Int, NEW k \in Int
  PROVE  OnPhase(interval, offset, k * interval + offset)
  <1>1. PICK n \in Int : n = k * interval
    OBVIOUS
  <1>2. Div(n, interval) = k
    BY <1>1, DivExact
  <1>3. Rem(n, interval) = 0
    BY <1>1, <1>2 DEF Rem
  <1>4. (n + offset) - offset = n
    OBVIOUS
  <1> QED
    BY <1>1, <1>3, <1>4 DEF OnPhase

LEMMA MultipleOfPhase ==
  ASSUME NEW interval \in Nat \ {0}, NEW offset \in Int, NEW t \in Int,
         OnPhase(interval, offset, t)
  PROVE  \E k \in Int : t = k * interval + offset
  <1>1. PICK d \in Int : d = t - offset
    OBVIOUS
  <1>2. PICK k \in Int : k = Div(d, interval)
    BY DivType
  <1>3. d = k * interval
    BY <1>1, <1>2 DEF OnPhase, Rem
  <1> QED
    BY <1>1, <1>3

\* The three CHECKs of Iterate never fail, whatever last_time_ is: also for
\* times before the epoch, where the division rounds the other way, and after
\* set_interval_and_offset.
THEOREM IterateChecksHold ==
  ASSUME NEW interval \in Nat \ {0}, NEW offset \in Int, NEW now \in Int
  PROVE  /\ OnPhase(interval, offset, SleepTime(interval, offset, now))
         /\ SleepTime(interval, offset, now) > now
         /\ SleepTime(interval, offset, now) - now <= interval
  <1>1. PICK k \in Int :
           /\ SleepTime(interval, offset, now) = k * interval + offset
           /\ k * interval + offset > now
           /\ k * interval + offset <= now + interval
    BY SleepTimeWindow
  <1>2. OnPhase(interval, offset, k * interval + offset)
    BY PhaseOfMultiple
  <1>3. PICK t \in Int : t = k * interval + offset
    OBVIOUS
  <1>4. t > now /\ t - now <= interval
    BY <1>1, <1>3
  <1> QED
    BY <1>1, <1>2, <1>3, <1>4

\* Iterate does not skip a cycle: no time of the loop lies between now and the
\* one it returns.
THEOREM NothingSkipped ==
  ASSUME NEW interval \in Nat \ {0}, NEW offset \in Int, NEW now \in Int,
         NEW t \in Int, OnPhase(interval, offset, t), t > now
  PROVE  t >= SleepTime(interval, offset, now)
  <1>1. PICK k \in Int :
           /\ SleepTime(interval, offset, now) = k * interval + offset
           /\ k * interval + offset > now
           /\ k * interval + offset <= now + interval
    BY SleepTimeWindow
  <1>2. PICK j \in Int : t = j * interval + offset
    BY MultipleOfPhase
  <1>3. SUFFICES ASSUME t < k * interval + offset PROVE FALSE
    BY <1>1
  <1>4. PICK d \in Int : d = k - j
    OBVIOUS
  <1>5. PICK s \in Int : s = k * interval + offset
    OBVIOUS
  <1>6. d * interval = s - t
    BY <1>2, <1>4, <1>5
  <1>7. s - t < interval /\ s - t > 0
    BY <1>1, <1>3, <1>5
  <1>8. d = 0
    BY <1>6, <1>7, SmallMultiple
  <1> QED
    BY <1>6, <1>7, <1>8

\* The cycles that Iterate returns are exactly the intervals from the last time
\* to the next one, so those of successive calls add up.  They are less than
\* one just when Iterate is called before last_time_.
THEOREM CyclesExact ==
  ASSUME NEW interval \in Nat \ {0}, NEW offset \in Int, NEW now \in Int,
         NEW last \in Int, OnPhase(interval, offset, last)
  PROVE  /\ Iterate(interval, offset, last, now) \in Int
         /\ SleepTime(interval, offset, now)
              = last + Iterate(interval, offset, last, now) * interval
         /\ Iterate(interval, offset, last, now) < 1 <=> now < last
  <1>1. PICK k \in Int :
           /\ SleepTime(interval, offset, now) = k * interval + offset
           /\ k * interval + offset > now
           /\ k * interval + offset <= now + interval
    BY SleepTimeWindow
  <1>2. PICK j \in Int : last = j * interval + offset
    BY MultipleOfPhase
  <1>3. PICK d \in Int : d = k - j
    OBVIOUS
  <1>4. PICK s \in Int : s = k * interval + offset
    OBVIOUS
  <1>5. s - last = d * interval
    BY <1>2, <1>3, <1>4
  <1>6. Iterate(interval, offset, last, now) = d
    <2>1. Iterate(interval, offset, last, now) = Div(s - last, interval)
      BY <1>1, <1>4 DEF Iterate
    <2> QED
      BY <1>5, <2>1, DivExact
  <1>7. s = last + d * interval
    <2>1. PICK n \in Int : n = d * interval
      OBVIOUS
    <2> QED
      BY <1>5, <2>1
  <1>8. ASSUME now < last PROVE d < 1
    <2>1. d * interval < interval
      BY <1>1, <1>4, <1>5, <1>8
    <2>2. SUFFICES ASSUME d >= 1 PROVE FALSE
      OBVIOUS
    <2>3. d * interval >= interval
      BY <2>2
    <2> QED
      BY <2>1, <2>3
  <1>9. ASSUME d < 1 PROVE now < last
    <2>1. d * interval <= 0
      BY <1>9
    <2>2. s <= last
      BY <1>5, <2>1
    <2> QED
      BY <1>1, <1>4, <2>2
  <1> QED
    BY <1>1, <1>4, <1>6, <1>7, <1>8, <1>9

\* After Reset, Iterate for the same time returns 1: the first cycle is neither
\* missed nor counted twice.
THEOREM ResetCountsOne ==
  ASSUME NEW interval \in Nat \ {0}, NEW offset \in Int, NEW now \in Int
  PROVE  Iterate(interval, offset, Reset(interval, offset, now), now) = 1
  <1>1. PICK k \in Int :
           /\ SleepTime(interval, offset, now) = k * interval + offset
           /\ k * interval + offset > now
           /\ k * interval + offset <= now + interval
    BY SleepTimeWindow
  <1>2. PICK j \in Int :
           /\ Reset(interval, offset, now) = j * interval + offset
           /\ j * interval + offset > now - interval
           /\ j * interval + offset <= now
    <2>1. PICK before \in Int : before = now - interval
      OBVIOUS
    <2>2. PICK j \in Int :
             /\ SleepTime(interval, offset, before) = j * interval + offset
             /\ j * interval + offset > before
             /\ j * interval + offset <= before + interval
      BY SleepTimeWindow
    <2>3. j * interval + offset <= now
      BY <2>1, <2>2
    <2> QED
      BY <2>1, <2>2, <2>3 DEF Reset
  <1>3. PICK s \in Int : s = k * interval + offset
    OBVIOUS
  <1>4. PICK t \in Int : t = j * interval + offset
    OBVIOUS
  <1>5. PICK d \in Int : d = k - j - 1
    OBVIOUS
  <1>6. d * interval = s - t - interval
    BY <1>3, <1>4, <1>5
  <1>7. s - t > 0 /\ s - t < 2 * interval
    BY <1>1, <1>2, <1>3, <1>4
  <1>8. d = 0
    BY <1>6, <1>7, SmallMultiple
  <1>9. s - t = 1 * interval
    BY <1>6, <1>8
  <1>10. Div(1 * interval, interval) = 1
    BY DivExact
  <1> QED
    BY <1>1, <1>2, <1>3, <1>4, <1>9, <1>10 DEF Iterate

\* OffsetFromIntervalAndTime returns an offset that the constructor accepts and
\* for which the trigger is a time of the loop, but for a trigger before the
\* epoch that is a multiple of the interval: there it returns the interval.
THEOREM OffsetAccepted ==
  ASSUME NEW interval \in Nat \ {0}, NEW trigger \in Int
  PROVE  LET offset == OffsetFromIntervalAndTime(interval, trigger)
         IN  /\ OnPhase(interval, offset, trigger)
             /\ offset \in 0 .. interval
             /\ offset = interval <=> trigger < 0 /\ Rem(trigger, interval) = 0
  <1> DEFINE offset == OffsetFromIntervalAndTime(interval, trigger)
  <1>1. CASE trigger >= 0
    <2>1. PICK q \in Int, r \in 0 .. interval - 1 :
            Div(trigger, interval) = q /\ trigger = q * interval + r
      BY <1>1, DivUp
    <2>2. PICK n \in Int : n = q * interval
      OBVIOUS
    <2>3. offset = r
      BY <1>1, <2>1, <2>2 DEF OffsetFromIntervalAndTime
    <2>4. OnPhase(interval, r, q * interval + r)
      <3>1. r \in Int
        OBVIOUS
      <3> QED
        BY <3>1, PhaseOfMultiple, Zenon
    <2> QED
      BY <1>1, <2>1, <2>3, <2>4
  <1>2. CASE trigger < 0
    <2>1. PICK q \in Int, r \in 0 .. interval - 1 :
            Div(trigger, interval) = q /\ trigger = q * interval - r
      BY <1>2, DivDown
    <2>2. PICK n \in Int : n = q * interval
      OBVIOUS
    <2>3. offset = interval - r
      BY <1>2, <2>1, <2>2 DEF OffsetFromIntervalAndTime
    <2>4. Rem(trigger, interval) = -r
      BY <2>1, <2>2 DEF Rem
    <2>5. PICK j \in Int : j = q - 1
      OBVIOUS
    <2>6. trigger = j * interval + (interval - r)
      BY <2>1, <2>5
    <2>7. OnPhase(interval, interval - r, j * interval + (interval - r))
      <3>1. interval - r \in Int
        OBVIOUS
      <3> QED
        BY <3>1, PhaseOfMultiple, Zenon
    <2>8. offset = interval <=> Rem(trigger, interval) = 0
      BY <2>3, <2>4
    <2> QED
      BY <1>2, <2>3, <2>6, <2>7, <2>8
  <1> QED
    BY <1>1, <1>2

\* A new offset moves the last time along with it: as long as the interval stays
\* the same, CyclesExact goes on to hold.  After a change of the interval it need
\* not, and the next Iterate rounds.
THEOREM NewOffsetKeepsPhase ==
  ASSUME NEW interval \in Nat \ {0}, NEW offset \in Int, NEW new_offset \in Int,
         NEW last \in Int, OnPhase(interval, offset, last)
  PROVE  OnPhase(interval, new_offset, SetOffset(offset, new_offset, last))
  <1>1. SetOffset(offset, new_offset, last) - new_offset = last - offset
    BY DEF SetOffset
  <1> QED
    BY <1>1 DEF OnPhase
=============================================================================
