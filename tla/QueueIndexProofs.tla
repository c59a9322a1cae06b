--------------------------- MODULE QueueIndexProofs ---------------------------
(***************************************************************************)
(* What the arithmetic of QueueIndex returns, for every width of the words *)
(* and every size of the queue.                                            *)
(***************************************************************************)
EXTENDS QueueIndex, TLAPS

(***************************************************************************)
(* Division with remainder.                                                *)
(***************************************************************************)
LEMMA ModRange == \A a \in Int, b \in Nat \ {0} : a % b \in 0 .. b - 1
  OBVIOUS

LEMMA Division == \A a \in Int, b \in Nat \ {0} : a = b * (a \div b) + (a % b)
  OBVIOUS

LEMMA SmallMultiple ==
  ASSUME NEW c \in Nat \ {0}, NEW k \in Int, k * c < c, k * c > -c
  PROVE  k = 0
  <1>1. ASSUME k >= 1 PROVE FALSE
    <2>1. k * c >= c
      BY <1>1
    <2> QED
      BY <2>1
  <1>2. ASSUME k <= -1 PROVE FALSE
    <2>1. k * c <= -c
      BY <1>2
    <2> QED
      BY <2>1
  <1> QED
    BY <1>1, <1>2

LEMMA ModUnique ==
  ASSUME NEW c \in Nat \ {0}, NEW k \in Int, NEW r \in 0 .. c - 1,
         NEW n \in Int, n = k * c + r
  PROVE  n % c = r
  <1>1. PICK q \in Int : q = n \div c
    OBVIOUS
  <1>2. PICK s \in 0 .. c - 1 : s = n % c
    BY ModRange
  <1>3. n = q * c + s
    BY <1>1, <1>2, Division
  <1>4. PICK j \in Int : j = q - k
    OBVIOUS
  <1>5. j * c = r - s
    BY <1>3, <1>4
  <1>6. j = 0
    BY <1>5, SmallMultiple
  <1> QED
    BY <1>2, <1>5, <1>6

LEMMA ModShift ==
  ASSUME NEW c \in Nat \ {0}, NEW n \in Int
  PROVE  (n - c) % c = n % c
  <1>1. PICK q \in Int : q = n \div c
    OBVIOUS
  <1>2. PICK r \in 0 .. c - 1 : r = n % c
    BY ModRange
  <1>3. n = q * c + r
    BY <1>1, <1>2, Division
  <1>4. PICK j \in Int : j = q - 1
    OBVIOUS
  <1>5. n - c = j * c + r /\ n - c \in Int
    BY <1>3, <1>4
  <1>6. (n - c) % c = r
    BY <1>5, ModUnique
  <1> QED
    BY <1>2, <1>6

\* MaxIndex, the modulus of the queue index, is a positive multiple of the
\* queue size that a word can hold.
LEMMA MaxIndexRange ==
  ASSUME NEW count \in Nat \ {0}, count <= Sentinel
  PROVE  MaxIndex(Sentinel, count) \in count .. Sentinel
  <1>1. Sentinel \in Nat
    BY WidthAssumption
  <1>2. PICK d \in Nat : d = Sentinel \div count
    BY <1>1
  <1>3. d * count <= Sentinel /\ Sentinel < d * count + count
    BY <1>1, <1>2
  <1>4. d >= 1
    BY <1>3, <1>1
  <1>5. d * count >= count
    BY <1>4
  <1> QED
    BY <1>1, <1>2, <1>3, <1>5 DEF MaxIndex

\* IncrementBy is addition modulo MaxIndex although its words overflow at
\* 2^32, a different modulus, and it never yields the reserved word
\* (index.h:62-76).
THEOREM IncrementIsModular ==
  ASSUME NEW count \in Nat \ {0}, count <= Sentinel,
         NEW index \in Indices(count), NEW amount \in Word
  PROVE  /\ IncrementBy(index, amount, count)
              = (index + amount) % MaxIndex(Sentinel, count)
         /\ IncrementBy(index, amount, count) \in Indices(count)
         /\ Valid(IncrementBy(index, amount, count))
  <1>1. PICK M \in Nat \ {0} : M = MaxIndex(Sentinel, count) /\ M <= Sentinel
    BY MaxIndexRange, WidthAssumption
  <1>2. Sentinel \in Nat /\ index \in 0 .. M - 1 /\ amount \in 0 .. Sentinel
    BY <1>1, WidthAssumption DEF Indices, Word
  <1>3. IncrementBy(index, amount, count) = (index + amount) % M
    <2>1. CASE index + amount <= Sentinel
      <3>1. (index + amount) % (Sentinel + 1) = index + amount
        BY <1>1, <1>2, <2>1
      <3>2. ~(index + amount < index)
        BY <1>1, <1>2
      <3> QED
        BY <1>1, <3>1, <3>2 DEF IncrementBy, WordModulus
    <2>2. CASE index + amount > Sentinel
      <3>1. (index + amount) % (Sentinel + 1) = index + amount - (Sentinel + 1)
        BY <1>1, <1>2, <2>2
      <3>2. index + amount - (Sentinel + 1) < index
        BY <1>1, <1>2
      <3>3. (index + amount - (Sentinel + 1) - M) % (Sentinel + 1)
              = index + amount - M
        BY <1>1, <1>2, <2>2
      <3>4. IncrementBy(index, amount, count) = (index + amount - M) % M
        BY <1>1, <1>2, <3>1, <3>2, <3>3 DEF IncrementBy, WordModulus
      <3>5. PICK x \in Int : x = index + amount
        BY <1>2
      <3>6. (x - M) % M = x % M
        BY <1>1, ModShift
      <3> QED
        BY <1>1, <1>2, <3>4, <3>5, <3>6
    <2> QED
      BY <1>1, <1>2, <2>1, <2>2
  <1>4. (index + amount) % M \in 0 .. M - 1
    <2>1. PICK x \in Int : x = index + amount
      BY <1>2
    <2>2. x % M \in 0 .. M - 1
      BY <1>1, ModRange
    <2> QED
      BY <2>1, <2>2
  <1>5. IncrementBy(index, amount, count) \in 0 .. M - 1
    BY <1>3, <1>4
  <1>6. IncrementBy(index, amount, count) # Sentinel
    BY <1>5, <1>1, <1>2
  <1> QED
    BY <1>1, <1>3, <1>5, <1>6 DEF Indices, Valid

\* Whatever is asked for, IncrementBy yields an index of the queue.
LEMMA IncrementRange ==
  ASSUME NEW count \in Nat \ {0}, count <= Sentinel,
         NEW index \in Nat, NEW amount \in Nat
  PROVE  IncrementBy(index, amount, count) \in Indices(count)
  <1>1. PICK M \in Nat \ {0} : M = MaxIndex(Sentinel, count)
    BY MaxIndexRange, WidthAssumption
  <1>2. PICK W \in Nat \ {0} : W = WordModulus
    BY WidthAssumption DEF WordModulus
  <1>3. PICK n \in Int : n = index + amount
    OBVIOUS
  <1>4. PICK sum \in 0 .. W - 1 : sum = n % W
    BY ModRange
  <1>5. PICK j \in Int : j = sum - M
    OBVIOUS
  <1>6. PICK shifted \in 0 .. W - 1 :
          shifted = IF sum < index THEN j % W ELSE sum
    <2>1. j % W \in 0 .. W - 1
      BY ModRange
    <2> QED
      BY <2>1
  <1>7. IncrementBy(index, amount, count) = shifted % M
    BY <1>1, <1>2, <1>3, <1>4, <1>5, <1>6 DEF IncrementBy
  <1>8. shifted % M \in 0 .. M - 1
    BY ModRange
  <1> QED
    BY <1>1, <1>7, <1>8 DEF Indices

\* DecrementBy is subtraction modulo MaxIndex for every amount the code uses
\* (1 and the queue size), and its result is an index again (index.h:79-88).
THEOREM DecrementIsModular ==
  ASSUME NEW count \in Nat \ {0}, count <= Sentinel,
         NEW index \in Indices(count), NEW amount \in 0 .. count
  PROVE  /\ DecrementBy(index, amount, count) \in Indices(count)
         /\ DecrementBy(index, amount, count)
              = IF amount <= index THEN index - amount
                ELSE index - amount + MaxIndex(Sentinel, count)
  <1> DEFINE M == MaxIndex(Sentinel, count)
  <1>1. M \in Nat \ {0} /\ M <= Sentinel /\ Sentinel \in Nat /\ count <= M
    BY MaxIndexRange, WidthAssumption
  <1>2. index \in 0 .. M - 1
    BY DEF Indices
  <1> HIDE DEF M
  <1>3. CASE amount <= index
    <2>1. (index - amount) % (Sentinel + 1) = index - amount
      BY <1>1, <1>2, <1>3
    <2> QED
      BY <1>1, <1>2, <1>3, <2>1 DEF DecrementBy, WordModulus, M, Indices
  <1>4. CASE amount > index
    <2>1. (index - amount) % (Sentinel + 1) = index - amount + (Sentinel + 1)
      BY <1>1, <1>2, <1>4
    <2>2. (index - amount + (Sentinel + 1) + M) % (Sentinel + 1)
            = index - amount + M
      BY <1>1, <1>2, <1>4
    <2> QED
      BY <1>1, <1>2, <1>4, <2>1, <2>2 DEF DecrementBy, WordModulus, M, Indices
  <1> QED
    BY <1>2, <1>1, <1>3, <1>4

\* The slot of an index is in the queue.
LEMMA WrappedRange ==
  ASSUME NEW count \in Nat \ {0}, NEW index \in Nat
  PROVE  Wrapped(index, count) \in 0 .. count - 1
  BY ModRange DEF Wrapped

\* Consecutive queue indices use consecutive slots, also where the count
\* starts over ("wrap to avoid overlapping with the reserved number",
\* index.h:50): that is what making MaxIndex a multiple of the size is for.
THEOREM SlotsInOrder ==
  ASSUME NEW count \in Nat \ {0}, count <= Sentinel,
         NEW index \in Indices(count)
  PROVE  Wrapped(IncrementBy(index, 1, count), count)
           = (Wrapped(index, count) + 1) % count
  <1> DEFINE M == MaxIndex(Sentinel, count)
  <1>1. M \in Nat \ {0} /\ M <= Sentinel /\ Sentinel \in Nat /\ count <= M
    BY MaxIndexRange, WidthAssumption
  <1>2. index \in 0 .. M - 1
    BY DEF Indices
  <1>3. PICK d \in Nat : M = d * count
    <2>1. Sentinel \div count \in Nat
      BY <1>1
    <2> QED
      BY <2>1 DEF MaxIndex
  <1> HIDE DEF M
  <1>4. IncrementBy(index, 1, count) = (index + 1) % M
    <2>1. 1 \in Word
      BY WidthAssumption DEF Word
    <2> QED
      BY <2>1, IncrementIsModular DEF M
  <1>5. PICK k \in Nat, r \in 0 .. count - 1 : index = k * count + r
    <2>1. index \div count \in Nat /\ index % count \in 0 .. count - 1
      BY <1>2, <1>1
    <2>2. index = (index \div count) * count + (index % count)
      BY <1>2, <1>1, Division
    <2> QED
      BY <2>1, <2>2
  <1>6. index % count = r
    BY <1>5, <1>2, <1>1, ModUnique
  <1>7. (index + 1) % count = (r + 1) % count
    <2>1. CASE r + 1 < count
      <3>1. index + 1 = k * count + (r + 1) /\ r + 1 \in 0 .. count - 1
        BY <1>5, <2>1
      <3>2. r + 1 = 0 * count + (r + 1)
        BY <1>5
      <3>3. (index + 1) % count = r + 1
        <4>1. PICK n \in Int : n = index + 1
          BY <1>1, <1>2
        <4>2. PICK t \in 0 .. count - 1 : t = r + 1
          BY <3>1
        <4>3. n = k * count + t
          BY <3>1, <4>1, <4>2
        <4>4. n % count = t
          BY <4>3, ModUnique
        <4> QED
          BY <4>1, <4>2, <4>4
      <3>4. (r + 1) % count = r + 1
        BY <3>1, <3>2, ModUnique
      <3> QED
        BY <3>3, <3>4
    <2>2. CASE r + 1 = count
      <3>1. index + 1 = (k + 1) * count + 0 /\ r + 1 = 1 * count + 0
        BY <1>5, <2>2
      <3>2. (index + 1) % count = 0
        <4>1. index + 1 \in Int /\ k + 1 \in Int /\ 0 \in 0 .. count - 1
          BY <1>1, <1>2
        <4> QED
          BY <3>1, <4>1, ModUnique
      <3>3. (r + 1) % count = 0
        BY <3>1, ModUnique
      <3> QED
        BY <3>2, <3>3
    <2> QED
      BY <2>1, <2>2
  <1>8. CASE index + 1 < M
    <2>1. (index + 1) % M = index + 1
      BY <1>1, <1>2, <1>8
    <2> QED
      BY <2>1, <1>4, <1>6, <1>7 DEF Wrapped
  <1>9. CASE index + 1 = M
    <2>1. (index + 1) % M = 0
      BY <1>1, <1>9
    <2>2. index + 1 = d * count + 0 /\ 0 = 0 * count + 0
      BY <1>9, <1>3
    <2>3. (index + 1) % count = 0 /\ 0 % count = 0
      BY <2>2, <1>2, <1>1, ModUnique
    <2> QED
      BY <2>1, <2>3, <1>4, <1>6, <1>7 DEF Wrapped
  <1> QED
    BY <1>1, <1>2, <1>8, <1>9
===============================================================================
