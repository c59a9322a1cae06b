------------------------------ MODULE QueueIndex ------------------------------
(***************************************************************************)
(* Queue index arithmetic of aos/ipc_lib/index.h.                          *)
(*                                                                         *)
(* A QueueIndex counts the messages ever sent on a channel in an unsigned  *)
(* word (32 bits in the code).  The all-ones word is reserved for          *)
(* "invalid", and the count wraps at MaxIndex, the largest multiple of the *)
(* queue size below it, so that a wrapped count still addresses the slots  *)
(* of the queue in order.  An Index packs the low bits of a queue index    *)
(* (16 in the code) with the number of a message.                          *)
(*                                                                         *)
(* The two widths are constants: every operator below is the code's, and   *)
(* its modular arithmetic is explicit.                                     *)
(***************************************************************************)
EXTENDS Integers

CONSTANTS
  Sentinel,    \* sentinal_value(): the reserved all-ones word
  LowModulus   \* one more than the mask of the bits an Index keeps

ASSUME WidthAssumption ==
  /\ Sentinel \in Nat \ {0}
  /\ LowModulus \in Nat \ {0}

\* The words a uint32_t takes, and the modulus of its arithmetic.
WordModulus == Sentinel + 1
Word == 0 .. Sentinel

Valid(index) == index # Sentinel

MaxIndex(max_value, count) == (max_value \div count) * count

\* The queue indices of a queue of count slots that are not the sentinel.
Indices(count) == 0 .. MaxIndex(Sentinel, count) - 1

IncrementBy(index, amount, count) ==
  LET sum == (index + amount) % WordModulus
      shifted == IF sum < index
                 THEN (sum - MaxIndex(Sentinel, count)) % WordModulus
                 ELSE sum
  IN shifted % MaxIndex(Sentinel, count)

DecrementBy(index, amount, count) ==
  LET difference == (index - amount) % WordModulus
  IN IF difference > index
     THEN (difference + MaxIndex(Sentinel, count)) % WordModulus
     ELSE difference

Wrapped(index, count) == index % count

\* The bits of a queue index that an Index carries.
Low(index) == index % LowModulus

IsPlausible(index, low) == Valid(index) /\ low = Low(index)
===============================================================================
