----------------------------- MODULE PhasedLoop -----------------------------
(***************************************************************************)
(* aos::time::PhasedLoop (aos/util/phased_loop.cc): a loop that runs at    *)
(* the times k * interval + offset.  Times may be before the epoch, and    *)
(* the division of C++ rounds towards zero.  Nanoseconds are far from the  *)
(* limits of the 64-bit words that hold them, and the number of cycles     *)
(* from those of the int that Iterate returns.                             *)
(***************************************************************************)
EXTENDS Integers

\* The division of two C++ integers, and its remainder.
Div(a, b) == IF a >= 0 THEN a \div b ELSE -((-a) \div b)

Rem(a, b) == a - Div(a, b) * b

\* What Iterate stores in last_time_.
SleepTime(interval, offset, now) ==
  LET offset_now == now - offset
      prerounding == IF now >= offset THEN offset_now + interval
                     ELSE offset_now + 1
  IN  Div(prerounding, interval) * interval + offset

\* What Iterate returns.
Iterate(interval, offset, last_time, now) ==
  Div(SleepTime(interval, offset, now) - last_time, interval)

\* What Reset stores in last_time_.
Reset(interval, offset, now) == SleepTime(interval, offset, now - interval)

\* What set_interval_and_offset stores in last_time_.
SetOffset(offset, new_offset, last_time) == last_time + (new_offset - offset)

OffsetFromIntervalAndTime(interval, trigger) ==
  trigger - Div(trigger, interval) * interval
    + (IF trigger >= 0 THEN 0 ELSE interval)

\* A time at which the loop runs.
OnPhase(interval, offset, t) == Rem(t - offset, interval) = 0

(***************************************************************************)
(* The statements of PhasedLoopProofs, evaluated around the epoch.         *)
(***************************************************************************)
ASSUME PhasedLoopSweep ==
  \A interval \in 1..4, now \in -9..9 :
    /\ \A offset \in 0..(interval - 1) :
         LET next == SleepTime(interval, offset, now)
         IN  /\ OnPhase(interval, offset, next)
             /\ next > now /\ next - now <= interval
             /\ Iterate(interval, offset, Reset(interval, offset, now), now) = 1
    /\ OffsetFromIntervalAndTime(interval, now) =
         IF now < 0 /\ now % interval = 0 THEN interval ELSE now % interval
=============================================================================
