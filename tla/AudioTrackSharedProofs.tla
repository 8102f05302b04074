----------------------- MODULE AudioTrackSharedProofs -----------------------
(***************************************************************************)
(* Proofs about AudioTrackShared for every size of the buffer, every       *)
(* notification period and every range of the indices: the two sides of    *)
(* the ring never write and read the same slot, neither finds the control  *)
(* block corrupt, and the ring is a FrameFifo.                             *)
(*                                                                         *)
(* Two things must not happen, and break each of these: a flush between    *)
(* the two loads of the server's obtainBuffer(), and one while a mixer     *)
(* holds a buffer that it goes on with later.                              *)
(***************************************************************************)
EXTENDS AudioTrackShared, TLAPS

Undisturbed ==
  "flushRace" \notin scenario.May /\ (scenario.Mixer = "keeps" => scenario.MaxFlush = 0)

\* How far index p is ahead of index q, and what the ring holds.
Ahead(p, q) == (p - q) % Modulus
Filled == Ahead(mRear, mFront)

\* The indices from p on, n of them, are in their slots.
Stored(buffers, p, n) ==
  \A q \in Position : Ahead(q, p) < n => buffers[q % mFrameCountP2] = q

Ring ==
  /\ Filled <= mFrameCount
  /\ Stored(mBuffers, mFront, Filled)
  /\ "client" \notin mIsShutdown
  /\ "setSyncEvent" \notin scenario.May => "server" \notin mIsShutdown /\ vpc # "front"

\* What the client has obtained is free, in one piece, and filled before it is released.
Obtaining ==
  /\ cpc \in {"fill", "filled"} =>
       Filled + cUnreleased <= mFrameCount /\ (mRear % mFrameCountP2) + cUnreleased <= mFrameCountP2
  /\ cpc = "filled" => Stored(mBuffers, mRear, cUnreleased)

\* The server has obtained what is there, in one piece.
Holds == spc \in {"mix", "ror", "rwake"} \/ scenario.Mixer = "keeps"
Loaded == spc \in {"or", "wake", "obtained"}
Mixing ==
  /\ Loaded => Ahead(rear, mFront) <= Filled
  /\ Holds => sUnreleased <= Filled /\ (mFront % mFrameCountP2) + sUnreleased <= mFrameCountP2

\* A flush that the server has not noticed is of frames it has not been granted.
FlushOff(f, p) == (f - p) % FlushMask
FlushAhead == FlushOff(mFlush, mFront)
Flushing ==
  /\ spc = "rear" => flush = mFlush
  /\ scenario.Mixer = "keeps" => mFlush = sFlush
  /\ mFlush # sFlush =>
       /\ FlushAhead <= Filled
       /\ Loaded => Ahead(rear, mFront) <= FlushAhead
       /\ Holds => sUnreleased <= FlushAhead

\* What the server takes for the room is not less than the room, when it releases once.
Room == mFrameCount - Filled
Estimate == scenario.Mixer = "whole" /\ spc = "mix" => Room <= mAvailToClient

IInv == TypeOK /\ Undisturbed /\ Ring /\ Obtaining /\ Mixing /\ Flushing /\ Estimate

\* Every release wakes the client that should be, if the estimate holds or any frame will do.
WakesInTime == scenario.Mixer = "whole" \/ minimum = 1

\* CBLK_FUTEX_WAKE of a client that sleeps is followed by FUTEX_WAKE, and whatever it
\* waits for is followed by CBLK_FUTEX_WAKE.
Waits == call = "obtainBuffer" /\ cpc \in {"wait?", "clear", "wait", "asleep"}
Sleeping ==
  /\ vpc \in {"idle", "front"}
  /\ cpc = "wait" => "WAKE" \notin expected
  /\ cpc = "asleep" /\ "WAKE" \in mFutex => ipc = "wake" \/ spc \in {"wake", "rwake"}
  /\ Waits /\ Room >= minimum => "WAKE" \in mFutex \/ spc \in {"or", "ror"}
  /\ (Waits \/ cpc = "look") /\ ~(mFlags \subseteq {"STREAM_END_DONE"}) => "WAKE" \in mFutex \/ ipc = "or"

WInv == IInv /\ WakesInTime /\ ("invalidate" \notin scenario.May => Sleeping)
-----------------------------------------------------------------------------
(* Indices *)

\* The facts about the sizes that the arithmetic below needs.
LEMMA Sizes ==
  /\ mFrameCount \in Nat /\ mFrameCount >= 1 /\ mFrameCount <= mFrameCountP2
  /\ mFrameCountP2 \in Nat /\ mFrameCountP2 >= 1 /\ FlushMask = 2 * mFrameCountP2
  /\ Modulus \in Nat /\ Modulus >= 4 * mFrameCountP2 /\ Modulus \div 2 >= 2 * mFrameCountP2
  /\ Modulus \div 2 \in Nat /\ Modulus \div 2 < Modulus
<1>1. mFrameCount \in Nat /\ mFrameCount >= 1 /\ mFrameCount <= mFrameCountP2 /\ mFrameCountP2 \in Nat
  BY SizeAssumption
<1>2. Modulus \in Nat /\ Modulus > 0 /\ Modulus % (4 * mFrameCountP2) = 0
  BY SizeAssumption
<1>3. Modulus >= 4 * mFrameCountP2
  BY <1>1, <1>2
<1> QED
  BY <1>1, <1>2, <1>3 DEF FlushMask

(***************************************************************************)
(* The remainder of a number is the one that is left within the divisor.   *)
(***************************************************************************)
LEMMA Remainder ==
  ASSUME NEW m \in Nat, m > 0, NEW i \in Int
  PROVE  /\ i % m \in Nat /\ i % m < m /\ i \div m \in Int /\ i = (i \div m) * m + (i % m)
         /\ \A k \in Int, r \in 0 .. m - 1 : i = k * m + r => i % m = r
<1>1. i % m \in 0 .. m - 1 /\ i \div m \in Int /\ i = m * (i \div m) + (i % m)
  OBVIOUS
<1>2. i = (i \div m) * m + (i % m)
  BY <1>1
<1>3. ASSUME NEW k \in Int, NEW r \in 0 .. m - 1, i = k * m + r PROVE i % m = r
  <2>1. PICK q \in Int : q = i \div m
    BY <1>1
  <2>2. (q - k) * m = r - (i % m)
    BY <1>1, <1>2, <1>3, <2>1
  <2>3. CASE q = k
    BY <1>1, <2>2, <2>3
  <2>4. CASE q > k
    <3>1. (q - k) * m >= m
      BY <2>4
    <3> QED
      BY <1>1, <2>2, <3>1
  <2>5. CASE q < k
    <3>1. (q - k) * m <= -m
      BY <2>5
    <3> QED
      BY <1>1, <2>2, <3>1
  <2> QED
    BY <2>3, <2>4, <2>5
<1> QED
  BY <1>1, <1>2, <1>3

(***************************************************************************)
(* How far an index is ahead of another, and what an overfull ring is, in  *)
(* terms of it.                                                            *)
(***************************************************************************)
LEMMA AheadFacts ==
  ASSUME NEW p \in Position, NEW q \in Position
  PROVE  /\ p \in Nat /\ q \in Nat /\ p < Modulus /\ q < Modulus
         /\ Ahead(p, q) = IF p >= q THEN p - q ELSE p - q + Modulus
         /\ Ahead(p, q) \in Nat /\ Ahead(p, q) < Modulus
         /\ Overfull(Diff(p, q)) <=> Ahead(p, q) > mFrameCount
         /\ ~Overfull(Diff(p, q)) => Diff(p, q) = Ahead(p, q)
<1>1. p \in Nat /\ q \in Nat /\ p < Modulus /\ q < Modulus
  BY Sizes DEF Position
<1>2. Ahead(p, q) = IF p >= q THEN p - q ELSE p - q + Modulus
  <2>1. CASE p >= q
    <3>1. p - q = 0 * Modulus + (p - q) /\ p - q \in 0 .. Modulus - 1
      BY <1>1, <2>1, Sizes
    <3> QED
      BY <1>1, <2>1, <3>1, Remainder, Sizes DEF Ahead
  <2>2. CASE p < q
    <3>1. p - q = (-1) * Modulus + (p - q + Modulus) /\ p - q + Modulus \in 0 .. Modulus - 1
      BY <1>1, <2>2, Sizes
    <3> QED
      BY <1>1, <2>2, <3>1, Remainder, Sizes DEF Ahead
  <2> QED
    BY <1>1, <2>1, <2>2
<1>3. Ahead(p, q) \in Nat /\ Ahead(p, q) < Modulus
  BY <1>1, <1>2, Sizes
<1>4. Diff(p, q) = IF Ahead(p, q) < Modulus \div 2 THEN Ahead(p, q) ELSE Ahead(p, q) - Modulus
  BY DEF Diff, Ahead
<1>5. /\ Overfull(Diff(p, q)) <=> Ahead(p, q) > mFrameCount
      /\ ~Overfull(Diff(p, q)) => Diff(p, q) = Ahead(p, q)
  BY <1>3, <1>4, Sizes DEF Overfull
<1> QED
  BY <1>1, <1>2, <1>3, <1>5

(***************************************************************************)
(* An index that goes on, and those before and behind it.                  *)
(***************************************************************************)
LEMMA PlusFacts ==
  ASSUME NEW p \in Position, NEW n \in Nat, n < Modulus
  PROVE  /\ Plus(p, n) \in Position
         /\ Plus(p, n) = IF p + n < Modulus THEN p + n ELSE p + n - Modulus
         /\ Ahead(Plus(p, n), p) = n
         /\ \A q \in Position : Ahead(p, q) + n < Modulus => Ahead(Plus(p, n), q) = Ahead(p, q) + n
         /\ \A q \in Position : n <= Ahead(q, p) => Ahead(q, Plus(p, n)) = Ahead(q, p) - n
         /\ \A q \in Position : Ahead(q, p) < n => Ahead(q, Plus(p, n)) = Ahead(q, p) - n + Modulus
<1>1. p \in Nat /\ p < Modulus
  BY AheadFacts
<1>2. Plus(p, n) = IF p + n < Modulus THEN p + n ELSE p + n - Modulus
  <2>1. CASE p + n < Modulus
    <3>1. p + n = 0 * Modulus + (p + n) /\ p + n \in 0 .. Modulus - 1
      BY <1>1, <2>1, Sizes
    <3> QED
      BY <1>1, <2>1, <3>1, Remainder, Sizes DEF Plus
  <2>2. CASE p + n >= Modulus
    <3>1. p + n = 1 * Modulus + (p + n - Modulus) /\ p + n - Modulus \in 0 .. Modulus - 1
      BY <1>1, <2>2, Sizes
    <3> QED
      BY <1>1, <2>2, <3>1, Remainder, Sizes DEF Plus
  <2> QED
    BY <1>1, <2>1, <2>2, Sizes
<1>3. Plus(p, n) \in Position
  BY <1>1, <1>2, Sizes DEF Position
<1>4. Ahead(Plus(p, n), p) = n
  BY <1>1, <1>2, <1>3, AheadFacts, Sizes
<1>5. ASSUME NEW q \in Position, Ahead(p, q) + n < Modulus PROVE Ahead(Plus(p, n), q) = Ahead(p, q) + n
  BY <1>1, <1>2, <1>3, <1>5, AheadFacts, Sizes
<1>6. ASSUME NEW q \in Position, n <= Ahead(q, p) PROVE Ahead(q, Plus(p, n)) = Ahead(q, p) - n
  BY <1>1, <1>2, <1>3, <1>6, AheadFacts, Sizes
<1>7. ASSUME NEW q \in Position, Ahead(q, p) < n PROVE Ahead(q, Plus(p, n)) = Ahead(q, p) - n + Modulus
  BY <1>1, <1>2, <1>3, <1>7, AheadFacts, Sizes
<1> QED
  BY <1>2, <1>3, <1>4, <1>5, <1>6, <1>7

\* An index is as far ahead of another as one has to go on from there.
LEMMA AheadIsPlus ==
  ASSUME NEW p \in Position, NEW q \in Position
  PROVE  q = Plus(p, Ahead(q, p))
<1> DEFINE n == Ahead(q, p)
<1>1. /\ n \in Nat /\ n < Modulus /\ p \in Nat /\ q \in Nat /\ q < Modulus
      /\ n = IF q >= p THEN q - p ELSE q - p + Modulus
  BY AheadFacts
<1> HIDE DEF n
<1>2. Plus(p, n) = IF p + n < Modulus THEN p + n ELSE p + n - Modulus
  BY <1>1, PlusFacts
<1> QED
  BY <1>1, <1>2, Sizes DEF n

\* The range of the indices is a multiple of the flush mask, and that of the slots.
LEMMA Multiples ==
  /\ \E c \in Nat : Modulus = c * FlushMask
  /\ \E c \in Nat : Modulus = c * mFrameCountP2
<1>1. PICK d \in Int : Modulus = d * (4 * mFrameCountP2)
  <2>1. Modulus % (4 * mFrameCountP2) = 0
    BY SizeAssumption
  <2> DEFINE m == 4 * mFrameCountP2
  <2>2. m \in Nat /\ m > 0 /\ Modulus \in Int /\ Modulus % m = 0
    BY <2>1, Sizes
  <2> HIDE DEF m
  <2>3. Modulus \div m \in Int /\ Modulus = (Modulus \div m) * m + 0
    BY <2>2, Remainder
  <2>4. Modulus = (Modulus \div m) * m
    BY <2>2, <2>3
  <2> QED
    BY <2>3, <2>4 DEF m
<1>2. d \in Nat
  <2>1. CASE d < 0
    <3>1. d * (4 * mFrameCountP2) <= -(4 * mFrameCountP2)
      BY <2>1, Sizes
    <3> QED
      BY <1>1, <3>1, Sizes
  <2> QED
    BY <2>1
<1>3. Modulus = (2 * d) * FlushMask /\ Modulus = (4 * d) * mFrameCountP2
  BY <1>1, <1>2, Sizes
<1> QED
  BY <1>2, <1>3

(***************************************************************************)
(* The slot of an index: consecutive indices take consecutive slots, and   *)
(* two that are less than a ring apart have different ones.                *)
(***************************************************************************)
LEMMA SlotFacts ==
  ASSUME NEW p \in Position
  PROVE  /\ p % mFrameCountP2 \in Slot /\ p % mFrameCountP2 \in Nat
         /\ \A n \in Nat : (p % mFrameCountP2) + n < mFrameCountP2 =>
              (p + n) % mFrameCountP2 = (p % mFrameCountP2) + n
         /\ \A n \in Nat : n < Modulus => (p + n) % mFrameCountP2 = Plus(p, n) % mFrameCountP2
<1> DEFINE slots == mFrameCountP2
<1>1. slots \in Nat /\ slots > 0 /\ p \in Nat /\ p < Modulus
  BY Sizes, AheadFacts
<1>2. p % slots \in 0 .. slots - 1
  BY <1>1
<1>3. PICK k \in Int : p = k * slots + (p % slots)
  <2> HIDE DEF slots
  <2>1. p \div slots \in Int /\ p = (p \div slots) * slots + (p % slots)
    BY <1>1, Remainder
  <2> QED
    BY <2>1
<1>4. PICK c \in Nat : Modulus = c * slots
  BY Multiples
<1>5. ASSUME NEW n \in Nat, (p % slots) + n < slots PROVE (p + n) % slots = (p % slots) + n
  <2> DEFINE s == (p % slots) + n
  <2>1. p + n = k * slots + s /\ s \in 0 .. slots - 1
    BY <1>1, <1>2, <1>3, <1>5
  <2> HIDE DEF slots, s
  <2>2. (p + n) % slots = s
    BY <1>1, <1>3, <2>1, Remainder
  <2> QED
    BY <2>2 DEF s
<1>6. ASSUME NEW n \in Nat, n < Modulus PROVE (p + n) % slots = Plus(p, n) % slots
  <2>1. PICK j \in Int : p + n = j * slots + ((p + n) % slots)
    <3> HIDE DEF slots
    <3>1. (p + n) \div slots \in Int /\ p + n = ((p + n) \div slots) * slots + ((p + n) % slots)
      BY <1>1, Remainder
    <3> QED
      BY <3>1
  <2>2. (p + n) % slots \in 0 .. slots - 1
    BY <1>1
  <2>3. p + n - Modulus = (j - c) * slots + ((p + n) % slots)
    BY <1>1, <1>4, <2>1, <2>2
  <2>4. Plus(p, n) = p + n \/ Plus(p, n) = p + n - Modulus
    BY <1>6, PlusFacts
  <2> HIDE DEF slots
  <2>5. CASE Plus(p, n) = p + n - Modulus
    <3>1. p + n - Modulus \in Int /\ j - c \in Int
      BY <1>1, Sizes
    <3> DEFINE s == (p + n) % slots
    <3>2. p + n - Modulus = (j - c) * slots + s /\ s \in 0 .. slots - 1
      BY <2>2, <2>3
    <3> HIDE DEF s
    <3>3. (p + n - Modulus) % slots = s
      BY <1>1, <3>1, <3>2, Remainder
    <3>4. (p + n - Modulus) % slots = (p + n) % slots
      BY <3>3 DEF s
    <3> QED
      BY <2>5, <3>4
  <2> QED
    BY <2>4, <2>5
<1> QED
  BY <1>1, <1>2, <1>5, <1>6 DEF Slot

LEMMA SameSlot ==
  ASSUME NEW p \in Position, NEW q \in Position,
         p % mFrameCountP2 = q % mFrameCountP2, Ahead(p, q) < mFrameCountP2
  PROVE  p = q
<1> DEFINE n == Ahead(p, q)
           slots == mFrameCountP2
<1>1. n \in Nat /\ n < slots /\ slots \in Nat /\ slots > 0 /\ q \in Nat /\ n < Modulus
  BY AheadFacts, Sizes
<1>2. p = Plus(q, n)
  BY AheadIsPlus
<1>3. (q + n) % slots = q % slots
  BY <1>1, <1>2, SlotFacts
<1>4. q % slots \in 0 .. slots - 1
  BY <1>1
<1>5. PICK k \in Int : q = k * slots + (q % slots)
  <2> HIDE DEF slots
  <2>1. q \div slots \in Int /\ q = (q \div slots) * slots + (q % slots)
    BY <1>1, Remainder
  <2> QED
    BY <2>1
<1>6. CASE (q % slots) + n < slots
  <2>1. (q + n) % slots = (q % slots) + n
    BY <1>1, <1>6, SlotFacts
  <2>2. n = 0
    BY <1>1, <1>3, <1>4, <2>1
  <2> QED
    BY <1>2, <2>2, AheadFacts, PlusFacts, Sizes
<1>7. CASE (q % slots) + n >= slots
  <2> DEFINE s == (q % slots) + n - slots
  <2>1. s \in 0 .. slots - 1
    BY <1>1, <1>4, <1>7
  <2>2. q + n = (k + 1) * slots + s
    BY <1>1, <1>4, <1>5
  <2>3. (q + n) % slots = s
    <3> HIDE DEF slots, n, s
    <3>1. q + n \in Int /\ k + 1 \in Int
      BY <1>1, <1>5
    <3> QED
      BY <1>1, <2>1, <2>2, <3>1, Remainder
  <2> QED
    BY <1>1, <1>3, <1>4, <2>3
<1> QED
  BY <1>1, <1>4, <1>6, <1>7

(***************************************************************************)
(* How far an index is ahead of another modulo the flush mask: as far as   *)
(* it is, for two that are in the ring together.                           *)
(***************************************************************************)
LEMMA FlushOffFacts ==
  ASSUME NEW f \in Position, NEW p \in Position
  PROVE  /\ FlushOff(f, p) \in Nat /\ FlushOff(f, p) < FlushMask
         /\ \A n \in Nat : n <= FlushOff(f, p) /\ n < Modulus =>
              FlushOff(f, Plus(p, n)) = FlushOff(f, p) - n
         /\ \A q \in Position : f % FlushMask = q % FlushMask /\ Ahead(q, p) < FlushMask =>
              FlushOff(f, p) = Ahead(q, p)
<1> DEFINE m == FlushMask
<1>1. m \in Nat /\ m > 0 /\ f \in Nat /\ p \in Nat /\ f - p \in Int
  BY Sizes, AheadFacts
<1>2. PICK c \in Nat : Modulus = c * m
  BY Multiples
<1> HIDE DEF m
<1>3. FlushOff(f, p) = (f - p) % m
  BY DEF FlushOff, m
<1>4. /\ FlushOff(f, p) \in Nat /\ FlushOff(f, p) < m
      /\ (f - p) \div m \in Int /\ f - p = ((f - p) \div m) * m + FlushOff(f, p)
  BY <1>1, <1>3, Remainder
<1>5. PICK k \in Int : f - p = k * m + FlushOff(f, p)
  BY <1>4
<1>6. ASSUME NEW n \in Nat, n <= FlushOff(f, p), n < Modulus
      PROVE  FlushOff(f, Plus(p, n)) = FlushOff(f, p) - n
  <2> DEFINE r == FlushOff(f, p) - n
             i == f - Plus(p, n)
  <2>1. r \in 0 .. m - 1
    BY <1>1, <1>4, <1>6
  <2>2. i \in Int /\ (i = k * m + r \/ i = (k + c) * m + r)
    <3>1. Plus(p, n) = p + n \/ Plus(p, n) = p + n - Modulus
      BY <1>6, PlusFacts
    <3>2. (k + c) * m = k * m + c * m
      BY <1>1, <1>2, <1>5
    <3>3. k * m \in Int /\ c * m \in Int
      BY <1>1, <1>2, <1>5
    <3>4. CASE Plus(p, n) = p + n
      <4>1. i = (f - p) - n
        BY <1>1, <1>6, <3>4
      <4>2. i = k * m + r
        <5>1. i \in Int /\ i + n = f - p /\ r \in Int /\ r + n = FlushOff(f, p)
          BY <1>1, <1>4, <1>6, <4>1
        <5> HIDE DEF i, r
        <5> QED
          BY <1>4, <1>5, <1>6, <3>3, <5>1
      <4> QED
        BY <1>4, <1>6, <3>3, <4>2
    <3>5. CASE Plus(p, n) = p + n - Modulus
      <4>1. i = (f - p) - n + Modulus
        BY <1>1, <1>6, <3>5, Sizes
      <4>2. i = (k + c) * m + r
        <5>1. i \in Int /\ i + n = (f - p) + Modulus /\ r \in Int /\ r + n = FlushOff(f, p)
          BY <1>1, <1>4, <1>6, <4>1, Sizes
        <5>2. Modulus = c * m /\ f - p = k * m + FlushOff(f, p)
          BY <1>2, <1>5
        <5> HIDE DEF i, r
        <5>3. i + n = (k + c) * m + r + n
          BY <1>4, <1>6, <3>2, <3>3, <5>1, <5>2
        <5>4. (k + c) * m \in Int
          BY <3>2, <3>3
        <5> QED
          BY <1>6, <5>1, <5>3, <5>4
      <4>3. i \in Int
        BY <1>1, <1>6, <4>1, Sizes
      <4> QED
        BY <4>2, <4>3
    <3> QED
      BY <3>1, <3>4, <3>5
  <2> HIDE DEF r, i
  <2>3. k \in Int /\ k + c \in Int
    BY <1>2, <1>5
  <2>4. i % m = r
    BY <1>1, <2>1, <2>2, <2>3, Remainder
  <2> QED
    BY <2>4 DEF FlushOff, m, i, r
<1>7. ASSUME NEW q \in Position, f % m = q % m, Ahead(q, p) < m
      PROVE  FlushOff(f, p) = Ahead(q, p)
  <2>1. q \in Nat /\ Ahead(q, p) \in Nat /\ (q - p = Ahead(q, p) \/ q - p = Ahead(q, p) - Modulus)
    BY <1>1, AheadFacts, Sizes
  <2>2. PICK j \in Int : f = j * m + (f % m)
    <3>1. f \div m \in Int /\ f = (f \div m) * m + (f % m)
      BY <1>1, Remainder
    <3> QED
      BY <3>1
  <2>3. PICK l \in Int : q = l * m + (q % m)
    <3>1. q \div m \in Int /\ q = (q \div m) * m + (q % m)
      BY <1>1, <2>1, Remainder
    <3> QED
      BY <3>1
  <2> DEFINE r == Ahead(q, p)
             s == f % m
  <2>4. s \in Nat /\ f = j * m + s /\ q = l * m + s
    BY <1>1, <1>7, <2>2, <2>3, Remainder
  <2>5. r \in 0 .. m - 1
    BY <1>1, <1>7, <2>1
  <2>6. f - p = (j - l) * m + r \/ f - p = (j - l - c) * m + r
    <3> HIDE DEF r, s
    <3>1. /\ j * m \in Int /\ l * m \in Int /\ c * m \in Int
          /\ (j - l) * m = j * m - l * m /\ (j - l - c) * m = j * m - l * m - c * m
      BY <1>1, <1>2, <2>2, <2>3
    <3>2. q - p = r \/ q - p = r - Modulus
      BY <2>1 DEF r
    <3> QED
      BY <1>1, <1>2, <2>1, <2>4, <2>5, <3>1, <3>2
  <2> HIDE DEF r, s
  <2>7. j - l \in Int /\ j - l - c \in Int
    BY <1>2, <2>2, <2>3
  <2>8. (f - p) % m = r
    BY <1>1, <2>5, <2>6, <2>7, Remainder
  <2> QED
    BY <1>3, <2>8 DEF r
<1> QED
  BY <1>4, <1>6, <1>7 DEF m

(***************************************************************************)
(* flush(): the new value has the low bits of mRear.                       *)
(***************************************************************************)
NewFlush == (mRear % FlushMask) + Plus(mFlush - (mFlush % FlushMask), FlushMask)

LEMMA NewFlushFacts ==
  ASSUME TypeOK
  PROVE  NewFlush \in Position /\ NewFlush % FlushMask = mRear % FlushMask
<1> DEFINE m == FlushMask
           low == mRear % m
           base == mFlush - (mFlush % m)
<1>1. /\ m \in Nat /\ m > 0 /\ mRear \in Nat /\ mFlush \in Nat /\ mFlush < Modulus
      /\ mRear \in Position /\ mFlush \in Position
  BY Sizes, AheadFacts DEF TypeOK
<1>2. PICK c \in Nat : Modulus = c * m
  BY Multiples
<1> HIDE DEF m
<1>3. low \in Nat /\ low < m
  BY <1>1, Remainder
<1>4. PICK k \in Int : base = k * m /\ base <= mFlush /\ base + m > mFlush
  <2>1. mFlush \div m \in Int /\ mFlush = (mFlush \div m) * m + (mFlush % m)
        /\ mFlush % m \in Nat /\ mFlush % m < m
    BY <1>1, Remainder
  <2>2. base = (mFlush \div m) * m /\ base <= mFlush /\ base + m > mFlush
    <3> DEFINE k == mFlush \div m
               r == mFlush % m
    <3>1. k \in Int /\ k * m \in Int /\ r \in Nat /\ r < m /\ mFlush = k * m + r
      BY <1>1, <2>1
    <3> HIDE DEF k, r
    <3> QED
      BY <1>1, <3>1 DEF k, r
  <2> QED
    BY <2>1, <2>2
<1> HIDE DEF base, low
<1>5. k >= 0 /\ k < c
  <2>1. CASE k < 0
    <3>1. k * m <= -m
      BY <1>1, <2>1, <1>4
    <3> QED
      BY <1>1, <1>4, <3>1
  <2>2. CASE k >= c
    <3>1. k * m >= c * m
      BY <1>1, <1>2, <1>4, <2>2
    <3> QED
      BY <1>1, <1>2, <1>4, <3>1, Sizes
  <2> QED
    BY <1>2, <1>4, <2>1, <2>2
<1>6. (k + 1) * m = k * m + m /\ k * m >= 0 /\ (k + 1) * m <= c * m /\ k * m \in Int /\ c * m \in Int
  BY <1>1, <1>2, <1>4, <1>5
<1>7. base \in Position /\ m < Modulus
  BY <1>1, <1>2, <1>4, <1>6, Sizes DEF Position, m
<1>8. Plus(base, m) = IF k + 1 < c THEN (k + 1) * m ELSE 0
  <2>1. Plus(base, m) = IF base + m < Modulus THEN base + m ELSE base + m - Modulus
    BY <1>1, <1>7, PlusFacts
  <2>2. k + 1 < c => (k + 1) * m < c * m
    BY <1>1, <1>2, <1>4
  <2>3. k + 1 >= c => k + 1 = c
    BY <1>2, <1>4, <1>5
  <2> QED
    BY <1>1, <1>2, <1>4, <1>6, <2>1, <2>2, <2>3
<1>9. PICK j \in Nat : Plus(base, m) = j * m /\ j < c
  <2>1. CASE k + 1 < c
    BY <1>4, <1>5, <1>8, <2>1
  <2>2. CASE ~(k + 1 < c)
    <3>1. 0 * m = 0
      BY <1>1
    <3> QED
      BY <1>4, <1>5, <1>2, <1>8, <2>2, <3>1
  <2> QED
    BY <2>1, <2>2
<1>10. NewFlush = j * m + low
  BY <1>1, <1>3, <1>9 DEF NewFlush, base, low, m
<1>11. j * m \in Nat /\ j * m + m <= c * m
  <2>1. (j + 1) * m = j * m + m /\ (j + 1) * m <= c * m
    BY <1>1, <1>2, <1>9
  <2> QED
    BY <1>1, <1>9, <2>1
<1>12. NewFlush \in Position
  BY <1>1, <1>2, <1>3, <1>10, <1>11, Sizes DEF Position
<1>13. NewFlush % m = low
  BY <1>1, <1>3, <1>9, <1>10, <1>12, Remainder, Sizes DEF Position
<1> QED
  BY <1>12, <1>13 DEF m, low

(***************************************************************************)
(* obtainBuffer() acknowledges a flush: the new front is the flushed       *)
(* position, or the rear when the position is beyond a multiple of the     *)
(* mask, and in any case not behind the front and not ahead of the rear.   *)
(***************************************************************************)
LEMMA NewFrontFacts ==
  ASSUME TypeOK, NEW r \in Position
  PROVE  /\ NewFront(r) \in Position
         /\ FlushOff(flush, mFront) <= Ahead(r, mFront) /\ Ahead(r, mFront) <= mFrameCount =>
              \E n \in 0 .. Ahead(r, mFront) : NewFront(r) = Plus(mFront, n)
<1> DEFINE m == FlushMask
           off == FlushOff(flush, mFront)
           a == mFront % m
           b == flush % m
           nf == mFront - a + b
<1>1. /\ m \in Nat /\ m > 0 /\ mFront \in Nat /\ flush \in Nat /\ mFront < Modulus
      /\ mFront \in Position /\ flush \in Position /\ r \in Nat /\ m < Modulus
      /\ Ahead(r, mFront) \in Nat
  BY Sizes, AheadFacts DEF TypeOK
<1>2. PICK c \in Nat : Modulus = c * m
  BY Multiples
<1>3. off \in Nat /\ off < m
  BY <1>1, FlushOffFacts
<1>4. mFrameCount < m
  BY Sizes
<1>5. NewFront(r) = IF Overfull(Diff(r, nf)) THEN r ELSE nf
  BY DEF NewFront
<1> HIDE DEF m
<1>6. a \in Nat /\ a < m /\ b \in Nat /\ b < m
  BY <1>1, Remainder
<1>7. PICK k \in Int : mFront = k * m + a
  <2>1. mFront \div m \in Int /\ mFront = (mFront \div m) * m + (mFront % m)
    BY <1>1, Remainder
  <2> QED
    BY <2>1
<1>8. PICK j \in Int : flush = j * m + b
  <2>1. flush \div m \in Int /\ flush = (flush \div m) * m + (flush % m)
    BY <1>1, Remainder
  <2> QED
    BY <2>1
<1> HIDE DEF a, b
<1>9. k * m \in Int /\ k * m >= 0 /\ k * m + m <= c * m /\ c * m \in Int
  <2>1. k >= 0
    <3>1. k < 0 => k * m <= -m
      BY <1>1, <1>7
    <3> QED
      BY <1>1, <1>6, <1>7, <3>1
  <2>2. k < c
    <3>1. k >= c => k * m >= c * m
      BY <1>1, <1>2, <1>7
    <3> QED
      BY <1>1, <1>2, <1>6, <1>7, <3>1, Sizes
  <2>3. (k + 1) * m = k * m + m /\ (k + 1) * m <= c * m
    BY <1>1, <1>2, <1>7, <2>2
  <2> QED
    BY <1>1, <1>2, <1>7, <2>1, <2>3
<1>10. nf \in Position /\ nf = k * m + b
  BY <1>1, <1>2, <1>6, <1>7, <1>9, Sizes DEF Position
<1>11. off = IF b >= a THEN b - a ELSE b - a + m
  <2> DEFINE o == IF b >= a THEN b - a ELSE b - a + m
             l == IF b >= a THEN j - k ELSE j - k - 1
  <2>1. o \in 0 .. m - 1 /\ l \in Int
    BY <1>1, <1>6, <1>7, <1>8
  <2>2. flush - mFront = l * m + o
    <3>1. (j - k) * m = j * m - k * m /\ (j - k - 1) * m = j * m - k * m - m
          /\ j * m \in Int /\ k * m \in Int
      BY <1>1, <1>7, <1>8
    <3> QED
      BY <1>1, <1>6, <1>7, <1>8, <3>1
  <2> HIDE DEF o, l
  <2>3. (flush - mFront) % m = o
    <3> DEFINE i == flush - mFront
    <3>1. i \in Int /\ i = l * m + o
      BY <1>1, <2>2
    <3> HIDE DEF i
    <3>2. i % m = o
      BY <1>1, <2>1, <3>1, Remainder
    <3> QED
      BY <3>2 DEF i
  <2> QED
    BY <2>3 DEF FlushOff, m, o
<1> HIDE DEF off, nf
<1>12. off < Modulus /\ mFront \in Nat /\ nf \in Nat /\ nf < Modulus
  BY <1>1, <1>3, <1>10, AheadFacts, Sizes
<1>13. NewFront(r) \in Position
  BY <1>5, <1>10
<1>14. SUFFICES ASSUME off <= Ahead(r, mFront), Ahead(r, mFront) <= mFrameCount
                PROVE  \E n \in 0 .. Ahead(r, mFront) : NewFront(r) = Plus(mFront, n)
  BY <1>13 DEF off
<1> DEFINE d == Ahead(r, mFront)
<1>15. d \in Nat /\ d < Modulus /\ off <= d /\ d <= mFrameCount /\ r = Plus(mFront, d)
  BY <1>1, <1>14, AheadFacts, AheadIsPlus
<1> HIDE DEF d
<1>16. CASE b >= a
  <2>1. nf = mFront + off
    BY <1>1, <1>6, <1>7, <1>9, <1>10, <1>11, <1>16
  <2>2. nf = Plus(mFront, off)
    <3>1. Plus(mFront, off) = IF mFront + off < Modulus THEN mFront + off ELSE mFront + off - Modulus
      BY <1>1, <1>3, <1>12, PlusFacts
    <3> QED
      BY <1>12, <2>1, <3>1
  <2>3. Ahead(r, nf) = d - off
    <3>1. Ahead(r, Plus(mFront, off)) = Ahead(r, mFront) - off
      BY <1>1, <1>3, <1>12, <1>15, PlusFacts DEF d
    <3> QED
      BY <2>2, <3>1 DEF d
  <2>4. ~(Ahead(r, nf) > mFrameCount)
    BY <1>3, <1>15, <2>3, Sizes
  <2>5. ~Overfull(Diff(r, nf))
    BY <1>10, <2>4, AheadFacts
  <2>6. NewFront(r) = Plus(mFront, off)
    BY <1>5, <2>2, <2>5
  <2>7. off \in 0 .. d
    BY <1>3, <1>15
  <2> QED
    BY <2>6, <2>7 DEF d
<1>17. CASE b < a
  <2> DEFINE e == m - off
  <2>1. nf = mFront - e /\ e \in Nat /\ e > 0 /\ e <= m
    <3>1. off = b - a + m
      BY <1>6, <1>11, <1>17
    <3> QED
      BY <1>1, <1>3, <1>6, <1>7, <1>9, <1>10, <3>1
  <2> HIDE DEF e
  <2>2. e < Modulus /\ mFront = nf + e
    BY <1>1, <1>12, <2>1, Sizes
  <2>3. mFront = Plus(nf, e)
    <3>1. Plus(nf, e) = IF nf + e < Modulus THEN nf + e ELSE nf + e - Modulus
      BY <1>10, <2>1, <2>2, PlusFacts
    <3> QED
      BY <1>1, <1>12, <2>2, <3>1
  <2>4. Ahead(mFront, nf) = e
    <3>1. Ahead(Plus(nf, e), nf) = e
      BY <1>10, <2>1, <2>2, PlusFacts
    <3> QED
      BY <2>3, <3>1
  <2>5. e + d < Modulus
    BY <1>1, <1>15, <2>1, Sizes DEF m
  <2>6. Ahead(r, nf) = e + d
    <3>1. Ahead(Plus(mFront, d), nf) = Ahead(mFront, nf) + d
      BY <1>1, <1>10, <1>15, <2>4, <2>5, PlusFacts
    <3> QED
      BY <1>15, <2>4, <3>1
  <2>7. Ahead(r, nf) > mFrameCount
    <3>1. e = m - off
      BY DEF e
    <3> QED
      BY <1>1, <1>3, <1>4, <1>15, <2>6, <3>1, Sizes
  <2>8. Overfull(Diff(r, nf))
    BY <1>10, <2>7, AheadFacts
  <2>9. NewFront(r) = Plus(mFront, d) /\ d \in 0 .. d
    BY <1>5, <1>15, <2>8
  <2> QED
    BY <2>9 DEF d
<1> QED
  BY <1>6, <1>16, <1>17
(***************************************************************************)
(* The chunk that is granted: what is wanted, there, and in one piece.     *)
(***************************************************************************)
LEMMA Part1Facts ==
  ASSUME NEW i \in Position, NEW avail \in Nat, NEW wanted \in Nat
  PROVE  /\ Part1(i, avail, wanted) \in Nat
         /\ Part1(i, avail, wanted) <= avail /\ Part1(i, avail, wanted) <= wanted
         /\ (i % mFrameCountP2) + Part1(i, avail, wanted) <= mFrameCountP2
<1> DEFINE piece == mFrameCountP2 - (i % mFrameCountP2)
           S == {piece, avail, wanted}
<1>1. piece \in Nat /\ i % mFrameCountP2 \in Nat /\ mFrameCountP2 \in Nat
  BY SlotFacts, Sizes DEF Slot
<1> HIDE DEF piece
<1>2. \E x \in S : \A y \in S : x <= y
  <2>1. piece <= avail \/ avail <= piece
    BY <1>1
  <2>2. piece <= wanted \/ wanted <= piece
    BY <1>1
  <2>3. avail <= wanted \/ wanted <= avail
    OBVIOUS
  <2> QED
    BY <1>1, <2>1, <2>2, <2>3
<1>3. Least(S) \in S /\ \A y \in S : Least(S) <= y
  BY <1>2 DEF Least
<1>4. Part1(i, avail, wanted) = Least(S)
  BY DEF Part1, piece
<1>5. Least(S) \in Nat /\ Least(S) <= piece /\ Least(S) <= avail /\ Least(S) <= wanted
  BY <1>1, <1>3
<1>6. (i % mFrameCountP2) + Least(S) <= mFrameCountP2
  <2> DEFINE k == i % mFrameCountP2
  <2>1. piece = mFrameCountP2 - k /\ k \in Nat
    BY <1>1 DEF piece
  <2> HIDE DEF k, S
  <2>2. k + Least(S) <= mFrameCountP2
    BY <1>1, <1>5, <2>1
  <2> QED
    BY <2>2 DEF k
<1> QED
  BY <1>4, <1>5, <1>6

LEMMA DiffFacts ==
  ASSUME NEW p \in Position, NEW q \in Position, ~Overfull(Diff(p, q))
  PROVE  Diff(p, q) \in 0 .. mFrameCount /\ AvailToClient(Diff(p, q)) \in 0 .. mFrameCount
<1>1. Diff(p, q) \in Nat /\ Diff(p, q) <= mFrameCount
  BY AheadFacts, Sizes
<1> QED
  BY <1>1, Sizes DEF AvailToClient

-----------------------------------------------------------------------------
(* Types *)

LEMMA InitTyped ==
  ASSUME Init
  PROVE  TypeOK
<1>1. 0 \in Position /\ 0 \in 0 .. mFrameCount
  BY Sizes DEF Position
<1>2. mBuffers \in [Slot -> Position]
  <2>1. ASSUME NEW s \in Slot
        PROVE  Plus(mFront, s - (mFront % mFrameCountP2) - mFrameCountP2) \in Position
    <3> DEFINE n == s - (mFront % mFrameCountP2) - mFrameCountP2
    <3>1. mFront \in Position
      BY DEF Init
    <3>2. mFront \in Int /\ n \in Int
      BY <3>1, Sizes, AheadFacts, SlotFacts DEF Slot
    <3> HIDE DEF n
    <3>3. (mFront + n) % Modulus \in Nat /\ (mFront + n) % Modulus < Modulus
      BY <3>2, Remainder, Sizes
    <3> QED
      BY <3>3, Sizes DEF Position, Plus, n
  <2> QED
    BY <2>1 DEF Init
<1> QED
  BY <1>1, <1>2, Sizes DEF Init, TypeOK

LEMMA StepTyped ==
  ASSUME TypeOK, [Next /\ UNCHANGED scenario]_<<vars, scenario>>
  PROVE  TypeOK'
<1> USE DEF TypeOK, Flag, FutexBit
<1>1. 0 \in Position /\ 0 \in 0 .. mFrameCount
  BY Sizes DEF Position
<1>2. CASE UNCHANGED <<vars, scenario>>
  BY <1>2 DEF vars, blockVars, clientVars, serverVars, binderVars
<1>3. SUFFICES ASSUME Next, UNCHANGED scenario PROVE TypeOK'
  BY <1>2
<1> USE DEF blockVars, clientVars, serverVars, binderVars
<1>4. ScenarioAssumption /\ scenario.Timeouts \subseteq {"ZERO", "INFINITE", "FINITE"}
  BY ScenarioAssumption
<1>5. CASE Client
  <2>1. CASE \E t \in scenario.Timeouts : ObtainBuffer(t)
    BY <1>3, <1>4, <2>1 DEF ObtainBuffer
  <2>2. CASE \E t \in scenario.Timeouts : WaitStreamEndDone(t)
    BY <1>3, <1>4, <2>2 DEF WaitStreamEndDone
  <2>3. ASSUME NEW wanted \in 1 .. mFrameCount, Look(wanted) PROVE TypeOK'
    <3>1. cUnreleased' \in 0 .. mFrameCount
      <4>1. CASE ~Overfull(Diff(mRear, mFront)) /\ AvailToClient(Diff(mRear, mFront)) > 0
        <5> DEFINE avail == AvailToClient(Diff(mRear, mFront))
        <5>1. mRear \in Position /\ mFront \in Position
          OBVIOUS
        <5>2. avail \in Nat /\ wanted \in Nat /\ avail <= mFrameCount
          BY <4>1, <5>1, DiffFacts, Sizes
        <5> HIDE DEF avail
        <5>3. Part1(mRear, avail, wanted) \in 0 .. mFrameCount
          <6>1. Part1(mRear, avail, wanted) \in Nat /\ Part1(mRear, avail, wanted) <= avail
            BY <5>1, <5>2, Part1Facts
          <6> QED
            BY <5>2, <6>1, Sizes
        <5>4. cUnreleased' = Part1(mRear, avail, wanted) \/ cUnreleased' = cUnreleased
          BY <2>3, <4>1 DEF Look, avail
        <5> QED
          BY <5>3, <5>4
      <4> QED
        BY <1>1, <2>3, <4>1 DEF Look
    <3>2. mIsShutdown' \subseteq {"client", "server"}
      BY <2>3 DEF Look
    <3>3. /\ cpc' \in {"idle", "wait?", "fill"} /\ call' \in {"obtainBuffer", "waitStreamEndDone"}
          /\ timeout' \in {"ZERO", "INFINITE", "FINITE"} /\ ignoreInitialPendingInterrupt' \in BOOLEAN
      BY <2>3 DEF Look, Returns
    <3>4. UNCHANGED <<scenario, blockVars, expected, ipc, serverVars, binderVars>>
      BY <1>3, <2>3 DEF Look
    <3> QED
      BY <1>3, <3>1, <3>2, <3>3, <3>4
  <2>4. CASE CheckFlags
    <3>1. /\ cpc' \in {"idle", "look", "wait?"} /\ call' \in {"obtainBuffer", "waitStreamEndDone"}
          /\ timeout' \in {"ZERO", "INFINITE", "FINITE"} /\ ignoreInitialPendingInterrupt' \in BOOLEAN
      BY <2>4 DEF CheckFlags, Returns
    <3>2. cUnreleased' \in 0 .. mFrameCount /\ mFlags' \subseteq Flag
      BY <1>1, <2>4 DEF CheckFlags
    <3>3. UNCHANGED <<scenario, mFront, mRear, mFlush, mFutex, mBuffers, expected, ipc, serverVars,
                      binderVars, mIsShutdown>>
      BY <1>3, <2>4 DEF CheckFlags
    <3> QED
      BY <1>3, <3>1, <3>2, <3>3
  <2>5. CASE MayWait
    <3>1. /\ cpc' \in {"clear", "idle"} /\ call' \in {"obtainBuffer", "waitStreamEndDone"}
          /\ timeout' \in {"ZERO", "INFINITE", "FINITE"} /\ ignoreInitialPendingInterrupt' \in BOOLEAN
          /\ cUnreleased' \in 0 .. mFrameCount
      BY <1>1, <2>5 DEF MayWait, Returns
    <3>2. UNCHANGED <<scenario, blockVars, expected, ipc, serverVars, binderVars, mIsShutdown>>
      BY <1>3, <2>5 DEF MayWait
    <3> QED
      BY <1>3, <3>1, <3>2
  <2>6. CASE ClearWake \/ Wait \/ OtherWakeup
    <3>1. CASE ClearWake
      BY <1>3, <3>1 DEF ClearWake, Wait, OtherWakeup
    <3>2. CASE Wait
      BY <1>3, <3>2 DEF ClearWake, Wait, OtherWakeup
    <3>3. CASE OtherWakeup
      BY <1>3, <3>3 DEF ClearWake, Wait, OtherWakeup
    <3> QED
      BY <2>6, <3>1, <3>2, <3>3
  <2>7. CASE Fill
    <3>1. mBuffers' \in [Slot -> Position]
      <4>1. ASSUME NEW s \in Slot PROVE Plus(mRear, s - ClientSlot(mRear, 0)) \in Position
        <5> DEFINE n == s - ClientSlot(mRear, 0)
        <5>1. mRear \in Int /\ n \in Int
          <6>1. mRear \in Position /\ s \in Int
            BY Sizes DEF Slot
          <6>2. mRear \in Nat /\ mRear % mFrameCountP2 \in Nat
            BY <6>1, AheadFacts, SlotFacts
          <6> QED
            BY <6>1, <6>2 DEF ClientSlot
        <5> HIDE DEF n
        <5>2. (mRear + n) % Modulus \in Nat /\ (mRear + n) % Modulus < Modulus
          BY <5>1, Remainder, Sizes
        <5> QED
          BY <5>2, Sizes DEF Position, Plus, n
      <4>2. ASSUME NEW s \in Slot PROVE mBuffers[s] \in Position
        OBVIOUS
      <4> QED
        BY <2>7, <4>1, <4>2 DEF Fill
    <3> QED
      BY <1>3, <2>7, <3>1 DEF Fill
  <2>8. ASSUME NEW n \in 0 .. mFrameCount, ReleaseBuffer(n) PROVE TypeOK'
    <3>1. Plus(mRear, n) \in Position
      BY Sizes, PlusFacts
    <3> QED
      BY <1>1, <1>3, <2>8, <3>1 DEF ReleaseBuffer
  <2> QED
    BY <1>5, <2>1, <2>2, <2>3, <2>4, <2>5, <2>6, <2>7, <2>8 DEF Client
<1>6. CASE Control
  <2>1. CASE Flush
    BY <1>3, <2>1, NewFlushFacts DEF Flush, NewFlush
  <2>2. CASE Signal("INTERRUPT") \/ Signal("INVALID")
    <3>1. CASE Signal("INTERRUPT")
      BY <1>3, <3>1 DEF Signal
    <3>2. CASE Signal("INVALID")
      BY <1>3, <3>2 DEF Signal
    <3> QED
      BY <2>2, <3>1, <3>2
  <2>3. CASE SignalOr
    BY <1>3, <2>3 DEF SignalOr
  <2>4. CASE SignalWake
    BY <1>3, <2>4 DEF SignalWake, FutexWake
  <2> QED
    BY <1>6, <2>1, <2>2, <2>3, <2>4 DEF Control
<1>7. CASE Server
  <2>1. ASSUME NEW left \in Nat PROVE AfterRelease(left) \subseteq {"mix", "idle"}
    BY DEF AfterRelease
  <2>2. CASE SObtainBuffer(FALSE) \/ SObtainBuffer(TRUE)
    <3>1. CASE SObtainBuffer(FALSE)
      BY <1>3, <3>1 DEF SObtainBuffer
    <3>2. CASE SObtainBuffer(TRUE)
      BY <1>3, <3>2 DEF SObtainBuffer
    <3> QED
      BY <2>2, <3>1, <3>2
  <2>3. CASE LoadRear
    <3>1. NewFront(mRear) \in Position
      BY NewFrontFacts
    <3> QED
      BY <1>3, <2>3, <3>1 DEF LoadRear
  <2>4. CASE FlushOr \/ FlushWake
    <3>1. CASE FlushOr
      BY <1>3, <3>1 DEF FlushOr, FlushWake, OrWake, ServerWake, FutexWake
    <3>2. CASE FlushWake
      BY <1>3, <3>2 DEF FlushOr, FlushWake, OrWake, ServerWake, FutexWake
    <3> QED
      BY <2>4, <3>1, <3>2
  <2>5. ASSUME NEW wanted \in 1 .. mFrameCount, Obtained(wanted) PROVE TypeOK'
    <3> DEFINE filled == Diff(rear, mFront)
               part1 == Part1(mFront, filled, wanted)
    <3>1. rear \in Position /\ mFront \in Position
      OBVIOUS
    <3>2. ~Overfull(filled) => filled \in 0 .. mFrameCount /\ part1 \in 0 .. mFrameCount
      <4>1. ASSUME ~Overfull(filled) PROVE filled \in Nat /\ filled <= mFrameCount
        BY <3>1, <4>1, DiffFacts, Sizes
      <4>2. wanted \in Nat
        BY Sizes
      <4> HIDE DEF filled
      <4> QED
        BY <3>1, <4>1, <4>2, Part1Facts, Sizes
    <3> HIDE DEF filled, part1
    <3>3. ~Overfull(filled) => mFrameCount - filled \in 0 .. mFrameCount
      BY <3>2, Sizes
    <3>4. {sUnreleased, mAvailToClient}' \subseteq 0 .. mFrameCount
      BY <1>1, <2>5, <3>2, <3>3 DEF Obtained, filled, part1
    <3> QED
      BY <1>1, <1>3, <2>5, <3>4 DEF Obtained
  <2>6. ASSUME NEW n \in 1 .. mFrameCount, SReleaseBuffer(n) PROVE TypeOK'
    <3>1. Plus(mFront, n) \in Position
      <4>1. mFront \in Position /\ n \in Nat /\ n < Modulus
        BY Sizes
      <4> QED
        BY <4>1, PlusFacts
    <3>2. sUnreleased - n \in 0 .. mFrameCount
      BY <2>6, Sizes DEF SReleaseBuffer
    <3> QED
      BY <1>3, <2>1, <2>6, <3>1, <3>2 DEF SReleaseBuffer
  <2>7. CASE ReleaseNothing \/ EndWake
    <3>1. CASE ReleaseNothing
      BY <1>3, <3>1 DEF ReleaseNothing, EndWake, ServerWake, FutexWake
    <3>2. CASE EndWake
      BY <1>3, <3>2 DEF ReleaseNothing, EndWake, ServerWake, FutexWake
    <3> QED
      BY <2>7, <3>1, <3>2
  <2>8. CASE ReleaseOr
    BY <1>3, <2>1, <2>8 DEF ReleaseOr, OrWake
  <2>9. CASE ReleaseWake
    BY <1>3, <2>1, <2>9 DEF ReleaseWake, ServerWake, FutexWake
  <2>10. CASE Keep \/ GoOn
    <3>1. CASE Keep
      BY <1>3, <3>1 DEF Keep, GoOn
    <3>2. CASE GoOn
      BY <1>3, <3>2 DEF Keep, GoOn
    <3> QED
      BY <2>10, <3>1, <3>2
  <2>11. CASE SetStreamEndDone
    BY <1>3, <2>11 DEF SetStreamEndDone
  <2> QED
    BY <1>7, <2>2, <2>3, <2>4, <2>5, <2>6, <2>7, <2>8, <2>9, <2>10, <2>11 DEF Server, MixStep
<1>8. CASE Binder
  <2>1. CASE Invalidate \/ InvalidateStore
    <3>1. CASE Invalidate
      BY <1>3, <3>1 DEF Invalidate, InvalidateStore
    <3>2. CASE InvalidateStore
      BY <1>3, <3>2 DEF Invalidate, InvalidateStore
    <3> QED
      BY <2>1, <3>1, <3>2
  <2>2. CASE InvalidateWake
    BY <1>3, <2>2 DEF InvalidateWake, FutexWake
  <2>3. CASE FramesReady \/ FramesReadyFront
    <3>1. CASE FramesReady
      BY <1>1, <1>3, <3>1 DEF FramesReady, FramesReadyFront
    <3>2. CASE FramesReadyFront
      BY <1>1, <1>3, <3>2 DEF FramesReady, FramesReadyFront
    <3> QED
      BY <2>3, <3>1, <3>2
  <2> QED
    BY <1>8, <2>1, <2>2, <2>3 DEF Binder
<1> QED
  BY <1>3, <1>5, <1>6, <1>7, <1>8 DEF Next

(***************************************************************************)
(* The control block and the two proxies hold what the code declares,      *)
(* whatever happens to the track.                                          *)
(***************************************************************************)
THEOREM TypeCorrect == Spec => []TypeOK
<1> QED
  BY InitTyped, StepTyped, PTL DEF Spec
-----------------------------------------------------------------------------
(* The inductive invariant *)

LEMMA Indices ==
  ASSUME TypeOK
  PROVE  /\ mFront \in Position /\ mRear \in Position /\ mFlush \in Position
         /\ flush \in Position /\ rear \in Position
         /\ cUnreleased \in Nat /\ sUnreleased \in Nat /\ mAvailToClient \in Nat
         /\ Filled \in Nat /\ Filled < Modulus
         /\ Ahead(rear, mFront) \in Nat /\ Ahead(rear, mFront) < Modulus
         /\ FlushAhead \in Nat /\ FlushAhead < FlushMask
<1>1. /\ mFront \in Position /\ mRear \in Position /\ mFlush \in Position
      /\ flush \in Position /\ rear \in Position
      /\ cUnreleased \in Nat /\ sUnreleased \in Nat /\ mAvailToClient \in Nat
  BY Sizes DEF TypeOK
<1> QED
  BY <1>1, AheadFacts, FlushOffFacts DEF Filled, FlushAhead

(***************************************************************************)
(* A run of stored frames, as the indices move over it.                    *)
(***************************************************************************)
LEMMA StoredFrom ==
  ASSUME NEW buffers, NEW p \in Position, NEW len \in Nat, len < Modulus, Stored(buffers, p, len),
         NEW n \in 0 .. len
  PROVE  Stored(buffers, Plus(p, n), len - n)
<1>1. SUFFICES ASSUME NEW q \in Position, Ahead(q, Plus(p, n)) < len - n
               PROVE  Ahead(q, p) < len
  BY DEF Stored
<1>2. Ahead(q, p) \in Nat /\ n \in Nat /\ n < Modulus
  BY AheadFacts, Sizes
<1>3. CASE n <= Ahead(q, p)
  <2>1. Ahead(q, Plus(p, n)) = Ahead(q, p) - n
    BY <1>2, <1>3, PlusFacts
  <2> QED
    BY <1>1, <1>2, <2>1
<1>4. CASE Ahead(q, p) < n
  BY <1>2, <1>4
<1> QED
  BY <1>2, <1>3, <1>4

LEMMA StoredOn ==
  ASSUME NEW buffers, NEW p \in Position, NEW len \in Nat, NEW n \in Nat, len + n < Modulus,
         Stored(buffers, p, len), Stored(buffers, Plus(p, len), n)
  PROVE  Stored(buffers, p, len + n)
<1>1. SUFFICES ASSUME NEW q \in Position, Ahead(q, p) < len + n
               PROVE  buffers[q % mFrameCountP2] = q
  BY DEF Stored
<1>2. Ahead(q, p) \in Nat /\ len < Modulus
  BY AheadFacts, Sizes
<1>3. CASE Ahead(q, p) < len
  BY <1>3 DEF Stored
<1>4. CASE len <= Ahead(q, p)
  <2>1. Ahead(q, Plus(p, len)) = Ahead(q, p) - len
    BY <1>2, <1>4, PlusFacts
  <2>2. Ahead(q, Plus(p, len)) < n
    BY <1>1, <1>2, <2>1
  <2> QED
    BY <2>2 DEF Stored
<1> QED
  BY <1>2, <1>3, <1>4

LEMMA StoredLess ==
  ASSUME NEW buffers, NEW p \in Position, NEW len \in Nat, Stored(buffers, p, len), NEW n \in 0 .. len
  PROVE  Stored(buffers, p, n)
<1>1. ASSUME NEW q \in Position, Ahead(q, p) < n PROVE Ahead(q, p) < len
  <2>1. Ahead(q, p) \in Nat
    BY AheadFacts
  <2> QED
    BY <1>1, <2>1
<1> QED
  BY <1>1 DEF Stored

(***************************************************************************)
(* The client's copy fills what it has obtained and leaves the frames that *)
(* wait in the ring alone.                                                 *)
(***************************************************************************)
LEMMA FillStores ==
  ASSUME TypeOK, Ring, Obtaining, Fill
  PROVE  Stored(mBuffers', mFront, Filled) /\ Stored(mBuffers', mRear, cUnreleased)
<1>1. /\ Filled + cUnreleased <= mFrameCount /\ (mRear % mFrameCountP2) + cUnreleased <= mFrameCountP2
      /\ Stored(mBuffers, mFront, Filled)
  BY DEF Fill, Obtaining, Ring
<1>2. /\ mRear \in Position /\ mFront \in Position /\ Filled \in Nat /\ cUnreleased \in Nat
      /\ mRear % mFrameCountP2 \in Nat
  BY Indices, SlotFacts
<1>3. ASSUME NEW n \in 0 .. cUnreleased - 1
      PROVE  /\ n \in Nat /\ n < cUnreleased /\ n < Modulus
             /\ Plus(mRear, n) % mFrameCountP2 = ClientSlot(mRear, n)
             /\ ClientSlot(mRear, n) \in Slot
  <2>1. n \in Nat /\ n < cUnreleased /\ n < Modulus /\ (mRear % mFrameCountP2) + n < mFrameCountP2
    BY <1>1, <1>2, Sizes
  <2> QED
    BY <1>2, <2>1, SlotFacts, Sizes DEF ClientSlot, Slot
<1>4. ASSUME NEW q \in Position, Ahead(q, mRear) < cUnreleased
      PROVE  mBuffers'[q % mFrameCountP2] = q
  <2> DEFINE n == Ahead(q, mRear)
  <2>1. n \in 0 .. cUnreleased - 1 /\ q = Plus(mRear, n)
    BY <1>2, <1>4, AheadFacts, AheadIsPlus
  <2>2. q % mFrameCountP2 = ClientSlot(mRear, n) /\ ClientSlot(mRear, n) \in Slot
    BY <1>3, <2>1
  <2> HIDE DEF n
  <2>3. mBuffers'[ClientSlot(mRear, n)] = Plus(mRear, ClientSlot(mRear, n) - ClientSlot(mRear, 0))
    BY <2>1, <2>2 DEF Fill
  <2>4. ClientSlot(mRear, n) - ClientSlot(mRear, 0) = n
    BY <1>2, <2>1 DEF ClientSlot
  <2> QED
    BY <2>1, <2>2, <2>3, <2>4
<1>5. ASSUME NEW q \in Position, Ahead(q, mFront) < Filled
      PROVE  mBuffers'[q % mFrameCountP2] = q
  <2> DEFINE k == Ahead(q, mFront)
  <2>1. k \in Nat /\ q = Plus(mFront, k) /\ k < Modulus /\ k < Filled
    BY <1>2, <1>5, AheadFacts, AheadIsPlus
  <2> HIDE DEF k
  <2>2. ASSUME NEW n \in 0 .. cUnreleased - 1, q % mFrameCountP2 = ClientSlot(mRear, n)
        PROVE  FALSE
    <3> DEFINE z == Plus(mRear, n)
    <3>1. n \in Nat /\ n < cUnreleased /\ n < Modulus /\ z % mFrameCountP2 = q % mFrameCountP2
      BY <1>3, <2>2
    <3>2. z \in Position
      BY <1>2, <3>1, PlusFacts
    <3>3. Ahead(z, mFront) = Filled + n
      <4>1. Ahead(mRear, mFront) + n < Modulus
        BY <1>1, <1>2, <3>1, Sizes DEF Filled
      <4> QED
        BY <1>2, <3>1, <4>1, PlusFacts DEF Filled
    <3> HIDE DEF z
    <3>4. k <= Ahead(z, mFront)
      BY <1>2, <2>1, <3>1, <3>3
    <3>5. Ahead(z, q) = Ahead(z, mFront) - k
      BY <1>2, <2>1, <3>2, <3>4, PlusFacts
    <3>6. Ahead(z, q) < mFrameCountP2
      BY <1>1, <1>2, <2>1, <3>1, <3>3, <3>5, Sizes
    <3>7. z = q
      BY <3>1, <3>2, <3>6, SameSlot
    <3> QED
      BY <1>2, <2>1, <3>1, <3>3, <3>7 DEF k
  <2>3. q % mFrameCountP2 \in Slot
    BY SlotFacts
  <2>4. mBuffers'[q % mFrameCountP2] = mBuffers[q % mFrameCountP2]
    BY <2>2, <2>3 DEF Fill
  <2> QED
    BY <1>1, <1>5, <2>4 DEF Stored
<1> QED
  BY <1>4, <1>5 DEF Stored

(***************************************************************************)
(* A mixer that keeps its buffer is never flushed.                         *)
(***************************************************************************)
LEMMA NoFlushWhileKept ==
  ASSUME TypeOK, Undisturbed, scenario.Mixer = "keeps"
  PROVE  ~Flush
<1> DEFINE m == FlushMask
           w == Modulus \div m
           i == (mFlush \div m) - (sFlush \div m)
<1>1. m \in Nat /\ m > 0 /\ Modulus >= m /\ Modulus \in Nat /\ mFlush \in Int /\ sFlush \in Int
  BY Sizes, AheadFacts DEF TypeOK
<1> HIDE DEF m
<1>2. w \in Int /\ Modulus = w * m + (Modulus % m) /\ Modulus % m < m /\ Modulus % m \in Nat
  BY <1>1, Remainder
<1>3. w > 0
  <2> HIDE DEF w
  <2>1. CASE w <= 0
    <3>1. w * m <= 0 /\ w * m \in Int
      BY <1>1, <1>2, <2>1
    <3> DEFINE e == Modulus % m
               y == w * m
    <3>2. e \in Nat /\ e < m /\ Modulus = y + e /\ y <= 0 /\ y \in Int
      BY <1>2, <3>1
    <3> HIDE DEF e, y
    <3> QED
      BY <1>1, <3>2
  <2> QED
    BY <1>2, <2>1
<1>4. i \in Int
  BY <1>1, Remainder
<1> HIDE DEF w, i
<1>5. i % w \in Nat
  BY <1>2, <1>3, <1>4, Remainder
<1>6. Pending(mFlush, sFlush) = i % w
  BY DEF Pending, i, w, m
<1> QED
  BY <1>5, <1>6 DEF Flush, Undisturbed
LEMMA InitHolds ==
  ASSUME Init, Undisturbed
  PROVE  IInv
<1>1. TypeOK
  BY InitTyped
<1>2. Filled = 0
  BY <1>1, Indices, AheadFacts DEF Init, Filled
<1>3. Ring
  <2>1. Stored(mBuffers, mFront, Filled)
    <3>1. ASSUME NEW q \in Position PROVE ~(Ahead(q, mFront) < 0)
      BY <1>1, Indices, AheadFacts
    <3> QED
      BY <1>2, <3>1 DEF Stored
  <2> QED
    BY <1>2, <2>1, Sizes DEF Ring, Init
<1>4. Obtaining
  BY DEF Obtaining, Init
<1>5. Mixing
  <2>1. mFront % mFrameCountP2 \in 0 .. mFrameCountP2 - 1
    BY <1>1, Indices, SlotFacts DEF Slot
  <2>2. (mFront % mFrameCountP2) + 0 <= mFrameCountP2
    BY <2>1, Sizes
  <2> QED
    BY <1>2, <2>2 DEF Init, Mixing, Loaded
<1>6. Flushing /\ Estimate
  BY DEF Flushing, Estimate, Init
<1> QED
  BY <1>1, <1>3, <1>4, <1>5, <1>6 DEF IInv

(***************************************************************************)
(* What moves neither the indices nor what either side has been granted.   *)
(***************************************************************************)
LEMMA Quiet ==
  ASSUME IInv, TypeOK',
         UNCHANGED <<scenario, mFront, mRear, mFlush, mBuffers, mIsShutdown, flush, rear, sFlush,
                     sUnreleased, mAvailToClient>>,
         cpc' \in {"fill", "filled"} => UNCHANGED <<cpc, cUnreleased>>,
         "setSyncEvent" \notin scenario.May => vpc' # "front",
         spc' = "rear" => spc = "rear", Loaded' => Loaded, Holds' => Holds,
         scenario.Mixer = "whole" /\ spc' = "mix" => spc = "mix"
  PROVE  IInv'
<1>1. Filled' = Filled /\ FlushAhead' = FlushAhead
  BY DEF Filled, FlushAhead
<1>2. Undisturbed' /\ Ring'
  BY <1>1 DEF IInv, Undisturbed, Ring
<1>3. Obtaining'
  BY <1>1 DEF IInv, Obtaining
<1>4. Mixing'
  BY <1>1 DEF IInv, Mixing
<1>5. Flushing'
  BY <1>1 DEF IInv, Flushing
<1>6. Estimate'
  BY <1>1 DEF IInv, Estimate, Room
<1> QED
  BY <1>2, <1>3, <1>4, <1>5, <1>6 DEF IInv

LEMMA ClientHolds ==
  ASSUME IInv, TypeOK', Client, UNCHANGED scenario
  PROVE  IInv'
<1> USE DEF blockVars, clientVars, serverVars, binderVars
<1>1. TypeOK /\ Undisturbed /\ Ring /\ Obtaining /\ Mixing /\ Flushing /\ Estimate
  BY DEF IInv
<1>2. Filled \in Nat /\ cUnreleased \in Nat /\ mFront \in Position /\ mRear \in Position
  BY <1>1, Indices
<1>3. ASSUME \/ \E t \in scenario.Timeouts : ObtainBuffer(t) \/ WaitStreamEndDone(t)
             \/ CheckFlags \/ MayWait \/ ClearWake \/ Wait \/ OtherWakeup
      PROVE  IInv'
  <2>1. /\ UNCHANGED <<mFront, mRear, mFlush, mBuffers, mIsShutdown, flush, rear, sFlush,
                       sUnreleased, mAvailToClient, vpc, spc>>
        /\ cpc' \notin {"fill", "filled"}
    BY <1>3 DEF ObtainBuffer, WaitStreamEndDone, CheckFlags, MayWait, ClearWake, Wait, OtherWakeup, Returns
  <2>2. Loaded' = Loaded /\ Holds' = Holds /\ ("setSyncEvent" \notin scenario.May => vpc' # "front")
    BY <1>1, <2>1 DEF Loaded, Holds, Ring
  <2> QED
    BY <2>1, <2>2, Quiet
<1>4. ASSUME NEW wanted \in 1 .. mFrameCount, Look(wanted) PROVE IInv'
  <2>1. ~Overfull(Diff(mRear, mFront)) /\ Diff(mRear, mFront) = Filled
    BY <1>1, <1>2, AheadFacts, Sizes DEF Ring, Filled
  <2>2. /\ UNCHANGED <<mFront, mRear, mFlush, mBuffers, mIsShutdown, flush, rear, sFlush,
                       sUnreleased, mAvailToClient, vpc, spc>>
        /\ UNCHANGED Filled /\ UNCHANGED FlushAhead
    BY <1>4, <2>1 DEF Look, Filled, FlushAhead
  <2>3. Loaded' = Loaded /\ Holds' = Holds
    BY <2>2 DEF Loaded, Holds
  <2>4. CASE cpc' # "fill"
    <3>1. cpc' \notin {"fill", "filled"}
      BY <1>4, <2>1, <2>4 DEF Look, Returns
    <3> QED
      BY <1>1, <2>2, <2>3, <3>1, Quiet DEF Ring
  <2>5. CASE cpc' = "fill"
    <3> DEFINE avail == mFrameCount - Filled
    <3>1. avail > 0 /\ cUnreleased' = Part1(mRear, avail, wanted)
      BY <1>4, <2>1, <2>5 DEF Look, Returns, AvailToClient
    <3>2. avail \in Nat /\ wanted \in Nat
      BY <1>2, <3>1, Sizes
    <3> HIDE DEF avail
    <3>3. cUnreleased' \in Nat /\ cUnreleased' <= avail /\ (mRear % mFrameCountP2) + cUnreleased' <= mFrameCountP2
      BY <1>2, <3>1, <3>2, Part1Facts
    <3>4. Filled + cUnreleased' <= mFrameCount
      <4>1. avail = mFrameCount - Filled
        BY DEF avail
      <4>2. cUnreleased' \in Nat /\ cUnreleased' <= avail
        BY <3>3
      <4> DEFINE got == cUnreleased'
      <4>3. got \in Nat /\ got <= mFrameCount - Filled
        BY <4>1, <4>2
      <4> HIDE DEF got
      <4>4. Filled + got <= mFrameCount
        BY <1>2, <4>3, Sizes
      <4> QED
        BY <4>4 DEF got
    <3>5. Obtaining'
      BY <2>2, <2>5, <3>3, <3>4 DEF Obtaining
    <3> QED
      BY <1>1, <2>2, <2>3, <3>5 DEF IInv, Undisturbed, Ring, Mixing, Flushing, Estimate, Room
  <2> QED
    BY <2>4, <2>5
<1>5. CASE Fill
  <2>1. Stored(mBuffers', mFront, Filled) /\ Stored(mBuffers', mRear, cUnreleased)
    BY <1>1, <1>5, FillStores
  <2>2. /\ UNCHANGED <<mFront, mRear, mFlush, mIsShutdown, flush, rear, sFlush,
                       sUnreleased, mAvailToClient, vpc, spc, cUnreleased>>
        /\ cpc = "fill" /\ cpc' = "filled"
        /\ UNCHANGED Filled /\ UNCHANGED FlushAhead
    BY <1>5 DEF Fill, Filled, FlushAhead
  <2>3. Loaded' = Loaded /\ Holds' = Holds
    BY <2>2 DEF Loaded, Holds
  <2>4. Ring' /\ Obtaining'
    BY <1>1, <2>1, <2>2 DEF Ring, Obtaining
  <2> QED
    BY <1>1, <2>2, <2>3, <2>4 DEF IInv, Undisturbed, Mixing, Flushing, Estimate, Room
<1>6. ASSUME NEW n \in 0 .. mFrameCount, ReleaseBuffer(n) PROVE IInv'
  <2>1. /\ UNCHANGED <<mFront, mFlush, mBuffers, mIsShutdown, flush, rear, sFlush,
                       sUnreleased, mAvailToClient, vpc, spc>>
        /\ UNCHANGED FlushAhead
        /\ cpc = "filled" /\ cpc' = "idle" /\ n <= cUnreleased /\ mRear' = Plus(mRear, n)
    BY <1>6 DEF ReleaseBuffer, FlushAhead
  <2>2. /\ Filled + cUnreleased <= mFrameCount /\ Stored(mBuffers, mRear, cUnreleased)
        /\ Stored(mBuffers, mFront, Filled)
    BY <1>1, <2>1 DEF Obtaining, Ring
  <2>3. n \in Nat /\ n <= cUnreleased /\ Filled + n <= mFrameCount /\ Filled + n < Modulus /\ n < Modulus
    BY <1>2, <2>1, <2>2, Sizes
  <2>4. Filled' = Filled + n
    BY <1>2, <2>1, <2>3, PlusFacts DEF Filled
  <2>5. Stored(mBuffers, mFront, Filled + n)
    <3>1. mRear = Plus(mFront, Filled)
      BY <1>2, AheadIsPlus DEF Filled
    <3>2. Stored(mBuffers, mRear, n)
      <4>1. n \in 0 .. cUnreleased
        BY <1>2, <2>3
      <4> QED
        BY <1>2, <2>2, <4>1, StoredLess
    <3>3. Stored(mBuffers, Plus(mFront, Filled), n)
      BY <3>1, <3>2
    <3> QED
      BY <1>2, <2>2, <2>3, <3>3, StoredOn
  <2>6. Ring'
    BY <1>1, <2>1, <2>3, <2>4, <2>5 DEF Ring
  <2>7. Obtaining'
    BY <2>1 DEF Obtaining
  <2>8. Loaded' = Loaded /\ Holds' = Holds
    BY <2>1 DEF Loaded, Holds
  <2>9. Mixing'
    <3>1. Ahead(rear, mFront)' = Ahead(rear, mFront) /\ Ahead(rear, mFront) \in Nat /\ sUnreleased \in Nat
      BY <1>1, <2>1, Indices
    <3>2. Loaded => Ahead(rear, mFront) <= Filled + n
      BY <1>1, <1>2, <2>3, <3>1 DEF Mixing
    <3>3. Holds => sUnreleased <= Filled + n /\ (mFront % mFrameCountP2) + sUnreleased <= mFrameCountP2
      BY <1>1, <1>2, <2>3, <3>1 DEF Mixing
    <3> QED
      BY <2>1, <2>4, <2>8, <3>1, <3>2, <3>3 DEF Mixing
  <2>10. Flushing'
    <3>1. mFlush # sFlush => FlushAhead <= Filled + n
      BY <1>1, <1>2, <2>3, Indices DEF Flushing
    <3> QED
      BY <1>1, <2>1, <2>4, <2>8, <3>1 DEF Flushing
  <2>11. Estimate'
    <3>1. Room' <= Room /\ Room \in Int /\ Room' \in Int
      BY <1>2, <2>3, <2>4, Sizes DEF Room
    <3>2. mAvailToClient \in Nat
      BY <1>1, Indices
    <3> QED
      BY <1>1, <2>1, <3>1, <3>2 DEF Estimate
  <2> QED
    BY <1>1, <2>6, <2>7, <2>9, <2>10, <2>11 DEF IInv, Undisturbed
<1> QED
  BY <1>3, <1>4, <1>5, <1>6 DEF Client
LEMMA ControlHolds ==
  ASSUME IInv, TypeOK', Control, UNCHANGED scenario
  PROVE  IInv'
<1> USE DEF blockVars, clientVars, serverVars, binderVars
<1>1. TypeOK /\ Undisturbed /\ Ring /\ Obtaining /\ Mixing /\ Flushing /\ Estimate
  BY DEF IInv
<1>2. CASE Flush
  <2>1. /\ UNCHANGED <<mFront, mRear, mBuffers, mIsShutdown, flush, rear, sFlush, sUnreleased,
                       mAvailToClient, vpc, spc, cpc, cUnreleased>>
        /\ spc # "rear" /\ mFlush' = NewFlush
        /\ UNCHANGED Filled
    BY <1>1, <1>2 DEF Flush, NewFlush, Undisturbed, Filled
  <2>2. FlushAhead' = Filled
    <3>1. NewFlush \in Position /\ mFront \in Position /\ mRear \in Position
          /\ NewFlush % FlushMask = mRear % FlushMask
      BY <1>1, NewFlushFacts, Indices
    <3>2. Ahead(mRear, mFront) < FlushMask
      BY <1>1, Indices, Sizes DEF Ring, Filled
    <3>3. FlushOff(NewFlush, mFront) = Ahead(mRear, mFront)
      BY <3>1, <3>2, FlushOffFacts
    <3> QED
      BY <2>1, <3>3 DEF FlushAhead, Filled
  <2>3. scenario.Mixer # "keeps"
    BY <1>1, <1>2, NoFlushWhileKept
  <2>4. Loaded' = Loaded /\ Holds' = Holds
    BY <2>1 DEF Loaded, Holds
  <2>5. Filled \in Nat
    BY <1>1, Indices
  <2>6. Flushing'
    BY <1>1, <2>1, <2>2, <2>3, <2>4, <2>5 DEF Flushing, Mixing
  <2> QED
    BY <1>1, <2>1, <2>4, <2>6 DEF IInv, Undisturbed, Ring, Obtaining, Mixing, Estimate, Room
<1>3. CASE SignalOr \/ SignalWake \/ Signal("INTERRUPT") \/ Signal("INVALID")
  <2>1. /\ UNCHANGED <<mFront, mRear, mFlush, mBuffers, mIsShutdown, flush, rear, sFlush,
                       sUnreleased, mAvailToClient, vpc, spc, cUnreleased>>
        /\ cpc' \in {"fill", "filled"} => cpc' = cpc
    BY <1>3 DEF SignalOr, SignalWake, Signal, FutexWake
  <2>2. Loaded' = Loaded /\ Holds' = Holds
    BY <2>1 DEF Loaded, Holds
  <2> QED
    BY <1>1, <2>1, <2>2, Quiet DEF Ring
<1> QED
  BY <1>2, <1>3 DEF Control

LEMMA BinderHolds ==
  ASSUME IInv, TypeOK', Binder, UNCHANGED scenario
  PROVE  IInv'
<1> USE DEF blockVars, clientVars, serverVars, binderVars
<1>1. TypeOK /\ Undisturbed /\ Ring /\ Obtaining /\ Mixing /\ Flushing /\ Estimate
  BY DEF IInv
<1>2. CASE Invalidate \/ InvalidateStore \/ InvalidateWake \/ FramesReady
  <2>1. /\ UNCHANGED <<mFront, mRear, mFlush, mBuffers, mIsShutdown, flush, rear, sFlush,
                       sUnreleased, mAvailToClient, spc, cUnreleased>>
        /\ cpc' \in {"fill", "filled"} => cpc' = cpc
        /\ "setSyncEvent" \notin scenario.May => vpc' # "front"
    BY <1>2 DEF Invalidate, InvalidateStore, InvalidateWake, FramesReady, FutexWake
  <2>2. Loaded' = Loaded /\ Holds' = Holds
    BY <2>1 DEF Loaded, Holds
  <2> QED
    BY <2>1, <2>2, Quiet
<1>3. CASE FramesReadyFront
  <2>1. /\ UNCHANGED <<mFront, mRear, mFlush, mBuffers, flush, rear, sFlush,
                       sUnreleased, mAvailToClient, spc, cpc, cUnreleased>>
        /\ UNCHANGED Filled /\ UNCHANGED FlushAhead
        /\ vpc = "front" /\ vpc' = "idle" /\ mIsShutdown' \subseteq mIsShutdown \cup {"server"}
    BY <1>3 DEF FramesReadyFront, Filled, FlushAhead
  <2>2. Loaded' = Loaded /\ Holds' = Holds
    BY <2>1 DEF Loaded, Holds
  <2>3. Ring'
    BY <1>1, <2>1 DEF Ring
  <2> QED
    BY <1>1, <2>1, <2>2, <2>3 DEF IInv, Undisturbed, Obtaining, Mixing, Flushing, Estimate, Room
<1> QED
  BY <1>2, <1>3 DEF Binder

(***************************************************************************)
(* The mixer's buffer, or the flush, takes frames from the front.          *)
(***************************************************************************)
LEMMA FrontMoves ==
  ASSUME IInv, NEW n \in 0 .. Filled, mFront' = Plus(mFront, n),
         UNCHANGED <<mRear, mBuffers, mIsShutdown, vpc, cpc, cUnreleased, scenario>>
  PROVE  Filled' = Filled - n /\ Ring' /\ Obtaining'
<1>1. TypeOK /\ Ring /\ Obtaining
  BY DEF IInv
<1>2. /\ Filled \in Nat /\ Filled < Modulus /\ cUnreleased \in Nat
      /\ mFront \in Position /\ mRear \in Position /\ n \in Nat /\ n <= Filled /\ n < Modulus
  BY <1>1, Indices, Sizes
<1>3. Filled' = Filled - n
  BY <1>2, PlusFacts DEF Filled
<1>4. Stored(mBuffers, Plus(mFront, n), Filled - n)
  BY <1>1, <1>2, StoredFrom DEF Ring
<1>5. Ring'
  <2>1. Filled - n <= mFrameCount
    BY <1>1, <1>2, Sizes DEF Ring
  <2> QED
    BY <1>1, <1>3, <1>4, <2>1 DEF Ring
<1>6. Obtaining'
  <2>1. Filled + cUnreleased <= mFrameCount => Filled - n + cUnreleased <= mFrameCount
    BY <1>2, Sizes
  <2> QED
    BY <1>1, <1>3, <2>1 DEF Obtaining
<1> QED
  BY <1>3, <1>5, <1>6
LEMMA LoadRearHolds ==
  ASSUME IInv, TypeOK', LoadRear, UNCHANGED scenario
  PROVE  /\ IInv'
         /\ mFront' # mFront => \E n \in 0 .. Filled : mFront' = Plus(mFront, n)
<1> USE DEF blockVars, clientVars, serverVars, binderVars
<1>1. TypeOK /\ Undisturbed /\ Ring /\ Obtaining /\ Mixing /\ Flushing /\ Estimate
  BY DEF IInv
<1>2. /\ UNCHANGED <<mRear, mFlush, mBuffers, mIsShutdown, flush, sUnreleased, mAvailToClient, vpc,
                     cpc, cUnreleased>>
      /\ rear' = mRear /\ flush = mFlush /\ spc = "rear" /\ spc' \in {"or", "obtained"}
      /\ sFlush' = mFlush
      /\ mFront' = IF mFlush # sFlush THEN NewFront(mRear) ELSE mFront
  BY <1>1 DEF LoadRear, Flushing
<1>3. PICK n \in 0 .. Filled : mFront' = Plus(mFront, n) /\ (scenario.Mixer = "keeps" => mFront' = mFront)
  <2>1. CASE mFlush # sFlush
    <3>1. FlushOff(flush, mFront) <= Ahead(mRear, mFront) /\ Ahead(mRear, mFront) <= mFrameCount
      BY <1>1, <1>2, <2>1 DEF Flushing, FlushAhead, Filled, Ring
    <3>2. mRear \in Position
      BY <1>1, Indices
    <3>3. \E n \in 0 .. Ahead(mRear, mFront) : NewFront(mRear) = Plus(mFront, n)
      BY <1>1, <3>1, <3>2, NewFrontFacts
    <3>4. scenario.Mixer # "keeps"
      BY <1>1, <2>1 DEF Flushing
    <3> QED
      BY <1>2, <2>1, <3>3, <3>4 DEF Filled
  <2>2. CASE mFlush = sFlush
    <3>1. mFront \in Position /\ Filled \in Nat
      BY <1>1, Indices
    <3>2. Ahead(mFront, mFront) = 0
      BY <3>1, AheadFacts
    <3>3. mFront = Plus(mFront, 0)
      BY <3>1, <3>2, AheadIsPlus
    <3> QED
      BY <1>2, <2>2, <3>1, <3>3
  <2> QED
    BY <2>1, <2>2
<1>4. Filled' = Filled - n /\ Ring' /\ Obtaining'
  BY <1>2, <1>3, FrontMoves
<1>5. Mixing'
  <2>1. Ahead(rear, mFront)' = Filled' /\ Filled' \in Nat
    <3>1. Filled \in Nat
      BY <1>1, Indices
    <3> QED
      BY <1>2, <1>3, <1>4, <3>1 DEF Filled
  <2>2. Holds' => Holds /\ mFront' = mFront
    BY <1>2, <1>3 DEF Holds
  <2>3. mFront' = mFront => Filled' = Filled
    BY <1>2 DEF Filled
  <2>4. Holds' => sUnreleased' <= Filled' /\ (mFront' % mFrameCountP2) + sUnreleased' <= mFrameCountP2
    BY <1>1, <1>2, <2>2, <2>3 DEF Mixing
  <2> QED
    BY <2>1, <2>4 DEF Mixing
<1>6. Flushing' /\ Estimate'
  BY <1>2 DEF Flushing, Estimate
<1> QED
  BY <1>1, <1>3, <1>4, <1>5, <1>6 DEF IInv, Undisturbed

LEMMA ObtainedHolds ==
  ASSUME IInv, TypeOK', NEW wanted \in 1 .. mFrameCount, Obtained(wanted), UNCHANGED scenario
  PROVE  IInv'
<1> USE DEF blockVars, clientVars, serverVars, binderVars
<1> DEFINE filled == Ahead(rear, mFront)
           part1 == Part1(mFront, filled, wanted)
<1>1. TypeOK /\ Undisturbed /\ Ring /\ Obtaining /\ Mixing /\ Flushing /\ Estimate
  BY DEF IInv
<1>2. /\ filled \in Nat /\ filled <= Filled /\ Filled \in Nat /\ Filled <= mFrameCount /\ wanted \in Nat
      /\ mFront \in Position /\ rear \in Position
  BY <1>1, Indices, Sizes DEF Mixing, Loaded, Obtained, Ring
<1>3. ~Overfull(Diff(rear, mFront)) /\ Diff(rear, mFront) = filled
  <2>1. ~(filled > mFrameCount)
    BY <1>2, Sizes
  <2> QED
    BY <1>2, <2>1, AheadFacts
<1>4. /\ UNCHANGED <<mFront, mRear, mFlush, mBuffers, sFlush, vpc, cpc, cUnreleased>>
      /\ UNCHANGED Filled /\ UNCHANGED FlushAhead
      /\ spc = "obtained" /\ spc' \in {"idle", "mix"}
      /\ mIsShutdown' = mIsShutdown
  BY <1>3 DEF Obtained, Filled, FlushAhead
<1>5. part1 \in Nat /\ part1 <= filled /\ (mFront % mFrameCountP2) + part1 <= mFrameCountP2
  BY <1>2, Part1Facts
<1>6. mFront % mFrameCountP2 \in Nat /\ (mFront % mFrameCountP2) + 0 <= mFrameCountP2
  BY <1>2, SlotFacts, Sizes DEF Slot
<1> HIDE DEF filled, part1
<1>7. /\ sUnreleased' \in {0, part1} \/ (spc' = "idle" /\ sUnreleased' = sUnreleased)
      /\ spc' = "mix" => mAvailToClient' = mFrameCount - filled
  BY <1>3 DEF Obtained, filled, part1
<1>8. Ring' /\ Obtaining'
  BY <1>1, <1>4 DEF Ring, Obtaining
<1>9. Mixing'
  <2>1. Holds' => sUnreleased' <= Filled /\ (mFront % mFrameCountP2) + sUnreleased' <= mFrameCountP2
    <3>1. CASE sUnreleased' = 0
      BY <1>2, <1>6, <3>1
    <3>2. CASE sUnreleased' = part1
      <4>1. part1 <= Filled
        BY <1>2, <1>5
      <4> QED
        BY <1>5, <3>2, <4>1
    <3>3. CASE spc' = "idle" /\ sUnreleased' = sUnreleased
      BY <1>1, <3>3 DEF Mixing, Holds
    <3> QED
      BY <1>7, <3>1, <3>2, <3>3
  <2> QED
    BY <1>4, <2>1 DEF Mixing, Loaded
<1>10. Flushing'
  <2>1. ASSUME mFlush # sFlush, Holds' PROVE sUnreleased' <= FlushAhead
    <3>1. filled <= FlushAhead /\ FlushAhead \in Nat /\ scenario.Mixer # "keeps"
      BY <1>1, <1>4, <2>1, Indices DEF Flushing, Loaded, filled
    <3>2. spc' = "mix"
      BY <1>4, <2>1, <3>1 DEF Holds
    <3> QED
      BY <1>2, <1>5, <1>7, <3>1, <3>2
  <2> QED
    BY <1>1, <1>4, <2>1 DEF Flushing, Loaded
<1>11. Estimate'
  BY <1>2, <1>4, <1>7, Sizes DEF Estimate, Room
<1> QED
  BY <1>1, <1>8, <1>9, <1>10, <1>11 DEF IInv, Undisturbed

LEMMA ReleaseHolds ==
  ASSUME IInv, TypeOK', NEW n \in 1 .. mFrameCount, SReleaseBuffer(n), UNCHANGED scenario
  PROVE  IInv'
<1> USE DEF blockVars, clientVars, serverVars, binderVars
<1>1. TypeOK /\ Undisturbed /\ Ring /\ Obtaining /\ Mixing /\ Flushing /\ Estimate
  BY DEF IInv
<1>2. /\ UNCHANGED <<mRear, mFlush, mBuffers, mIsShutdown, flush, rear, sFlush, mAvailToClient, vpc,
                     cpc, cUnreleased>>
      /\ spc = "mix" /\ spc' \in {"ror", "mix", "idle"} /\ (spc' = "mix" => scenario.Mixer # "whole")
      /\ mFront' = Plus(mFront, n) /\ sUnreleased' = sUnreleased - n /\ n <= sUnreleased
  BY DEF SReleaseBuffer, AfterRelease
<1>3. /\ sUnreleased <= Filled /\ (mFront % mFrameCountP2) + sUnreleased <= mFrameCountP2
      /\ sUnreleased \in Nat /\ Filled \in Nat /\ n \in Nat /\ mFront \in Position
      /\ mFlush \in Position /\ FlushAhead \in Nat /\ mFront % mFrameCountP2 \in Nat
  BY <1>1, <1>2, Indices, Sizes, SlotFacts DEF Mixing, Holds
<1>4. n \in 0 .. Filled /\ n < Modulus /\ sUnreleased' <= Filled - n /\ sUnreleased' \in Nat
  <2>1. Filled < Modulus
    BY <1>1, Indices
  <2> QED
    BY <1>2, <1>3, <2>1, Sizes
<1>5. Filled' = Filled - n /\ Ring' /\ Obtaining'
  BY <1>2, <1>4, FrontMoves
<1>6. Mixing'
  <2>1. (mFront' % mFrameCountP2) + sUnreleased' <= mFrameCountP2
    <3>1. mFront' \in Position
      BY <1>2, <1>3, <1>4, PlusFacts
    <3>2. CASE sUnreleased' = 0
      <4>1. mFront' % mFrameCountP2 \in 0 .. mFrameCountP2 - 1
        BY <3>1, SlotFacts DEF Slot
      <4> QED
        BY <3>2, <4>1, Sizes
    <3>3. CASE sUnreleased' > 0
      <4> DEFINE s == mFront % mFrameCountP2
      <4>1. s \in Nat /\ s + sUnreleased <= mFrameCountP2 /\ s + n < mFrameCountP2
        <5>1. s \in Nat /\ s + sUnreleased <= mFrameCountP2
          BY <1>3
        <5> HIDE DEF s
        <5> QED
          BY <1>2, <1>3, <1>4, <3>3, <5>1, Sizes
      <4>2. (mFront + n) % mFrameCountP2 = s + n
        BY <1>3, <4>1, SlotFacts
      <4>3. mFront' % mFrameCountP2 = s + n
        BY <1>2, <1>3, <1>4, <4>2, SlotFacts
      <4> HIDE DEF s
      <4> QED
        BY <1>2, <1>3, <4>1, <4>3, Sizes
    <3> QED
      BY <1>4, <3>2, <3>3
  <2> QED
    BY <1>2, <1>4, <1>5, <2>1 DEF Mixing, Loaded
<1>7. Flushing'
  <2>1. ASSUME mFlush # sFlush PROVE FlushAhead' <= Filled' /\ sUnreleased' <= FlushAhead'
    <3>1. FlushAhead <= Filled /\ sUnreleased <= FlushAhead
      BY <1>1, <1>2, <2>1 DEF Flushing, Holds
    <3>2. n <= FlushAhead
      BY <1>2, <1>3, <3>1
    <3>3. FlushAhead' = FlushAhead - n
      BY <1>2, <1>3, <1>4, <3>2, FlushOffFacts DEF FlushAhead
    <3> QED
      BY <1>2, <1>3, <1>5, <3>1, <3>3
  <2> QED
    BY <1>1, <1>2, <2>1 DEF Flushing, Loaded
<1>8. Estimate'
  BY <1>2 DEF Estimate
<1> QED
  BY <1>1, <1>5, <1>6, <1>7, <1>8 DEF IInv, Undisturbed

LEMMA ServerHolds ==
  ASSUME IInv, TypeOK', Server, UNCHANGED scenario
  PROVE  IInv'
<1> USE DEF blockVars, clientVars, serverVars, binderVars
<1>1. TypeOK /\ Undisturbed /\ Ring /\ Obtaining /\ Mixing /\ Flushing /\ Estimate
  BY DEF IInv
<1>2. ASSUME NEW ack \in BOOLEAN, SObtainBuffer(ack) PROVE IInv'
  <2>1. /\ UNCHANGED <<mFront, mRear, mFlush, mBuffers, mIsShutdown, rear, sFlush, sUnreleased,
                       mAvailToClient, vpc, cpc, cUnreleased>>
        /\ UNCHANGED Filled /\ UNCHANGED FlushAhead
        /\ spc = "idle" /\ spc' = "rear" /\ flush' = mFlush
    BY <1>2 DEF SObtainBuffer, Filled, FlushAhead
  <2>2. ~Loaded' /\ (Holds' => Holds)
    BY <2>1 DEF Loaded, Holds
  <2> QED
    BY <1>1, <2>1, <2>2 DEF IInv, Undisturbed, Ring, Obtaining, Mixing, Flushing, Estimate, Room
<1>3. CASE \/ FlushOr \/ FlushWake \/ ReleaseNothing \/ ReleaseOr \/ ReleaseWake \/ EndWake
           \/ Keep \/ GoOn \/ SetStreamEndDone
  <2>1. /\ UNCHANGED <<mFront, mRear, mFlush, mBuffers, mIsShutdown, flush, rear, sFlush, sUnreleased,
                       mAvailToClient, vpc, cUnreleased>>
        /\ cpc' \in {"fill", "filled"} => cpc' = cpc
    BY <1>3 DEF FlushOr, FlushWake, ReleaseNothing, ReleaseOr, ReleaseWake, EndWake, Keep, GoOn,
                SetStreamEndDone, OrWake, ServerWake, FutexWake
  <2>2. \/ spc \in {"or", "wake"} /\ spc' \in {"wake", "obtained"}
        \/ spc' \in {"idle", "ewake"}
        \/ spc \in {"ror", "rwake"} /\ (spc' = "rwake" \/ spc' \in AfterRelease(sUnreleased))
        \/ scenario.Mixer = "keeps" /\ spc' = "mix"
    BY <1>3 DEF FlushOr, FlushWake, ReleaseNothing, ReleaseOr, ReleaseWake, EndWake, Keep, GoOn,
                SetStreamEndDone, OrWake, ServerWake
  <2>3. /\ spc' # "rear" /\ (Loaded' => Loaded) /\ (Holds' => Holds)
        /\ scenario.Mixer = "whole" => spc' # "mix"
    BY <2>2 DEF AfterRelease, Loaded, Holds
  <2> QED
    BY <1>1, <2>1, <2>3, Quiet DEF Ring
<1> QED
  BY <1>2, <1>3, LoadRearHolds, ObtainedHolds, ReleaseHolds DEF Server, MixStep

LEMMA StepHolds ==
  ASSUME IInv, [Next /\ UNCHANGED scenario]_<<vars, scenario>>
  PROVE  IInv'
<1>1. TypeOK'
  BY StepTyped DEF IInv
<1>2. CASE UNCHANGED <<vars, scenario>>
  BY <1>2 DEF vars, blockVars, clientVars, serverVars, binderVars, IInv, TypeOK, Undisturbed, Ring,
     Obtaining, Mixing, Flushing, Estimate, Filled, Loaded, Holds, FlushAhead, Room
<1> QED
  BY <1>1, <1>2, ClientHolds, ControlHolds, ServerHolds, BinderHolds DEF Next

LEMMA Invariant == Spec /\ Undisturbed => []IInv
<1> QED
  BY InitHolds, StepHolds, PTL DEF Spec
(***************************************************************************)
(* What the mixer reads while it holds a buffer is what the client wrote   *)
(* there, in one piece of the ring, until it releases it.                  *)
(***************************************************************************)
THEOREM FramesAreIntact == Spec /\ Undisturbed => []Integrity
<1>1. ASSUME IInv PROVE Integrity
  <2>1. SUFFICES ASSUME spc = "mix"
                 PROVE  /\ (mFront % mFrameCountP2) + sUnreleased <= mFrameCountP2
                        /\ \A n \in 0 .. sUnreleased - 1 :
                             mBuffers[(mFront + n) % mFrameCountP2] = Plus(mFront, n)
    BY DEF Integrity
  <2>2. /\ (mFront % mFrameCountP2) + sUnreleased <= mFrameCountP2 /\ sUnreleased <= Filled
        /\ Stored(mBuffers, mFront, Filled)
    BY <1>1, <2>1 DEF IInv, Mixing, Holds, Ring
  <2>3. mFront \in Position /\ Filled \in Nat /\ Filled < Modulus /\ sUnreleased \in Nat
    BY <1>1, Indices DEF IInv
  <2>4. ASSUME NEW n \in 0 .. sUnreleased - 1
        PROVE  mBuffers[(mFront + n) % mFrameCountP2] = Plus(mFront, n)
    <3>1. n \in Nat /\ n < Filled /\ n < Modulus
      BY <2>2, <2>3, Sizes
    <3>2. Plus(mFront, n) \in Position /\ Ahead(Plus(mFront, n), mFront) = n
      BY <2>3, <3>1, PlusFacts
    <3>3. mBuffers[Plus(mFront, n) % mFrameCountP2] = Plus(mFront, n)
      BY <2>2, <3>1, <3>2 DEF Stored
    <3>4. (mFront + n) % mFrameCountP2 = Plus(mFront, n) % mFrameCountP2
      BY <2>3, <3>1, SlotFacts
    <3> QED
      BY <3>3, <3>4
  <2> QED
    BY <2>2, <2>4
<1> QED
  BY <1>1, Invariant, PTL

(***************************************************************************)
(* Neither side finds the control block corrupt, unless a binder thread    *)
(* looks at its two indices one after the other.                           *)
(***************************************************************************)
THEOREM NobodyShutsDown == Spec /\ Undisturbed => []NeverCorrupt
<1>1. ASSUME IInv PROVE NeverCorrupt
  BY <1>1 DEF IInv, Ring, TypeOK, NeverCorrupt
<1> QED
  BY <1>1, Invariant, PTL

(***************************************************************************)
(* The server's acknowledgement of a flush never puts the front back.      *)
(***************************************************************************)
THEOREM FlushesDiscard == Spec /\ Undisturbed => FlushOnlyDiscards
<1>1. ASSUME IInv, [Next /\ UNCHANGED scenario]_<<vars, scenario>>
      PROVE  [spc = "rear" => Diff(mFront', mFront) >= 0]_vars
  <2>1. TypeOK'
    BY <1>1, StepTyped DEF IInv
  <2>2. mFront \in Position /\ mFront' \in Position
    BY <1>1, <2>1, Indices DEF IInv, TypeOK
  <2>3. CASE mFront' = mFront
    <3>1. Ahead(mFront, mFront) = 0
      BY <2>2, AheadFacts
    <3>2. ~Overfull(Diff(mFront, mFront)) /\ Diff(mFront, mFront) = 0
      BY <2>2, <3>1, AheadFacts, Sizes
    <3> QED
      BY <2>3, <3>2
  <2>4. CASE mFront' # mFront /\ spc = "rear"
    <3>1. LoadRear /\ UNCHANGED scenario
      BY <1>1, <2>4 DEF Next, Client, Control, Server, MixStep, Binder, ObtainBuffer, WaitStreamEndDone,
         CheckFlags, Look, MayWait, ClearWake, Wait, OtherWakeup, Fill, ReleaseBuffer, Flush, Signal,
         SignalOr, SignalWake, SObtainBuffer, FlushOr, FlushWake, OrWake, ServerWake, Obtained,
         SReleaseBuffer, ReleaseNothing, ReleaseOr, ReleaseWake, EndWake, Keep, GoOn, SetStreamEndDone,
         Invalidate, InvalidateStore, InvalidateWake, FramesReady, FramesReadyFront,
         vars, blockVars, clientVars, serverVars, binderVars
    <3>2. PICK n \in 0 .. Filled : mFront' = Plus(mFront, n)
      BY <1>1, <2>1, <2>4, <3>1, LoadRearHolds
    <3>3. n \in Nat /\ n < Modulus /\ n <= mFrameCount
      BY <1>1, Indices, Sizes DEF IInv, Ring
    <3>4. Ahead(mFront', mFront) = n
      BY <2>2, <3>2, <3>3, PlusFacts
    <3>5. ~(Ahead(mFront', mFront) > mFrameCount)
      BY <3>3, <3>4, Sizes
    <3>6. Diff(mFront', mFront) = n
      BY <2>2, <3>4, <3>5, AheadFacts
    <3> QED
      BY <3>3, <3>6
  <2> QED
    BY <2>3, <2>4
<1> QED
  BY <1>1, Invariant, PTL DEF Spec, FlushOnlyDiscards
-----------------------------------------------------------------------------
(* Wake-ups *)

LEMMA Minimum == minimum \in Nat /\ minimum >= 1 /\ minimum <= mFrameCount
<1> DEFINE half == IF mFrameCount \div 2 = 0 THEN 1 ELSE mFrameCount \div 2
<1>1. half \in Nat /\ half >= 1 /\ half <= mFrameCount
  BY Sizes
<1>2. minimum = IF mMinimum = 0 \/ mMinimum > half THEN half ELSE mMinimum
  BY DEF minimum
<1>3. mMinimum \in Nat /\ mMinimum <= mFrameCount
  BY SizeAssumption, Sizes
<1> HIDE DEF half
<1> QED
  BY <1>1, <1>2, <1>3

LEMMA StepWakes ==
  ASSUME IInv, IInv', WakesInTime, "invalidate" \notin scenario.May, Sleeping, Next, UNCHANGED scenario
  PROVE  Sleeping'
<1> USE DEF blockVars, clientVars, serverVars, binderVars
<1>1. TypeOK /\ Ring /\ Estimate
  BY DEF IInv
<1>2. /\ Filled \in Nat /\ mFront \in Position /\ mRear \in Position /\ Room \in Int
      /\ mAvailToClient \in Nat /\ sUnreleased \in Nat
  BY <1>1, Indices, Sizes DEF Room
<1>3. CASE \E t \in scenario.Timeouts : ObtainBuffer(t) \/ WaitStreamEndDone(t)
  BY <1>3 DEF ObtainBuffer, WaitStreamEndDone, Sleeping, Waits
<1>4. CASE CheckFlags
  <2>1. /\ UNCHANGED <<mFutex, ipc, spc, vpc>>
        /\ cpc' \in {"idle", "look", "wait?"}
        /\ cpc' = "wait?" => call' = "waitStreamEndDone"
        /\ cpc' = "look" => mFlags' \subseteq {"STREAM_END_DONE"}
    BY <1>1, <1>4 DEF CheckFlags, Returns, TypeOK, Flag
  <2> QED
    BY <2>1 DEF Sleeping, Waits
<1>5. ASSUME NEW wanted \in 1 .. mFrameCount, Look(wanted) PROVE Sleeping'
  <2>1. ~Overfull(Diff(mRear, mFront)) /\ Diff(mRear, mFront) = Filled
    BY <1>1, <1>2, AheadFacts, Sizes DEF Ring, Filled
  <2>2. /\ UNCHANGED <<mFront, mRear, mFlags, mFutex, ipc, spc, vpc, expected>>
        /\ UNCHANGED Room
        /\ cpc = "look" /\ cpc' \in {"wait?", "fill"}
        /\ cpc' = "wait?" => Room = 0
    BY <1>5, <2>1 DEF Look, Returns, AvailToClient, Room, Filled
  <2>3. ~(0 >= minimum)
    BY Minimum
  <2> QED
    BY <2>2, <2>3 DEF Sleeping, Waits
<1>6. CASE MayWait
  <2>1. /\ UNCHANGED <<mFront, mRear, mFlags, mFutex, ipc, spc, vpc, expected>>
        /\ UNCHANGED Room
    BY <1>6 DEF MayWait, Room, Filled
  <2>2. cpc = "wait?" /\ (cpc' = "idle" \/ (cpc' = "clear" /\ call' = call))
    BY <1>6 DEF MayWait, Returns
  <2> QED
    BY <2>1, <2>2 DEF Sleeping, Waits
<1>7. CASE ClearWake
  <2>1. /\ UNCHANGED <<mFront, mRear, mFlags, ipc, spc, vpc, call>>
        /\ UNCHANGED Room
        /\ cpc = "clear"
        /\ \/ cpc' = "flags"
           \/ cpc' = "wait" /\ "WAKE" \notin mFutex /\ mFutex' = mFutex \ {"WAKE"} /\ expected' = mFutex
    BY <1>7 DEF ClearWake, Room, Filled
  <2> QED
    BY <2>1 DEF Sleeping, Waits
<1>8. CASE Wait
  <2>1. /\ UNCHANGED <<mFront, mRear, mFlags, mFutex, ipc, spc, vpc, call>>
        /\ UNCHANGED Room
    BY <1>8 DEF Wait, Room, Filled
  <2>2. cpc = "wait" /\ (cpc' = "flags" \/ (cpc' = "asleep" /\ mFutex = expected))
    <3>1. CASE mFutex = expected
      BY <1>8, <3>1 DEF Wait, Sleeps
    <3>2. CASE ~(mFutex = expected)
      BY <1>8, <3>2 DEF Wait, Sleeps
    <3> QED
      BY <3>1, <3>2
  <2> QED
    BY <2>1, <2>2 DEF Sleeping, Waits
<1>9. CASE OtherWakeup \/ Fill \/ \E n \in 0 .. mFrameCount : ReleaseBuffer(n)
  <2>1. /\ UNCHANGED <<mFlags, mFutex, ipc, spc, vpc>>
        /\ cpc' \in {"flags", "filled", "idle"}
    BY <1>9 DEF OtherWakeup, Fill, ReleaseBuffer
  <2> QED
    BY <2>1 DEF Sleeping, Waits
<1>10. CASE Flush
  <2>1. /\ UNCHANGED <<mFront, mRear, mFlags, mFutex, ipc, spc, vpc, call, cpc, expected>>
        /\ UNCHANGED Room
    BY <1>10 DEF Flush, Room, Filled
  <2> QED
    BY <2>1 DEF Sleeping, Waits
<1>11. ASSUME NEW flag, Signal(flag) PROVE Sleeping'
  <2>1. /\ UNCHANGED <<mFront, mRear, mFutex, spc, vpc, call, cpc, expected>>
        /\ UNCHANGED Room
        /\ ipc = "idle"
    BY <1>11 DEF Signal, Room, Filled
  <2>2. ipc' = "or" \/ (ipc' = "idle" /\ mFlags' = mFlags)
    <3>1. CASE flag \in mFlags
      <4>1. mFlags' = mFlags
        BY <1>11, <3>1 DEF Signal
      <4> QED
        BY <1>11, <3>1, <4>1 DEF Signal
    <3>2. CASE flag \notin mFlags
      BY <1>11, <3>2 DEF Signal
    <3> QED
      BY <3>1, <3>2
  <2> QED
    BY <2>1, <2>2 DEF Sleeping, Waits
<1>12. CASE SignalOr
  <2>1. /\ UNCHANGED <<mFront, mRear, mFlags, spc, vpc, call, cpc, expected>>
        /\ UNCHANGED Room
        /\ mFutex' = mFutex \cup {"WAKE"} /\ ipc' = "wake"
    BY <1>12 DEF SignalOr, Room, Filled
  <2> QED
    BY <2>1 DEF Sleeping, Waits
<1>13. CASE SignalWake
  <2>1. /\ UNCHANGED <<mFront, mRear, mFlags, mFutex, spc, vpc, call, expected>>
        /\ UNCHANGED Room
        /\ ipc = "wake" /\ cpc' # "asleep" /\ (cpc' = cpc \/ cpc' = "flags")
    BY <1>13 DEF SignalWake, FutexWake, Room, Filled
  <2> QED
    BY <2>1 DEF Sleeping, Waits
<1>14. CASE SObtainBuffer(FALSE) \/ SObtainBuffer(TRUE) \/ (\E wanted \in 1 .. mFrameCount : Obtained(wanted))
            \/ ReleaseNothing \/ Keep \/ GoOn
  <2>1. /\ UNCHANGED <<mFront, mRear, mFlags, mFutex, ipc, vpc, call, cpc, expected>>
        /\ UNCHANGED Room
        /\ spc \in {"idle", "obtained", "mix"}
    BY <1>14 DEF SObtainBuffer, Obtained, ReleaseNothing, Keep, GoOn, Room, Filled
  <2> QED
    BY <2>1 DEF Sleeping, Waits
<1>15. CASE LoadRear
  <2>1. /\ UNCHANGED <<mRear, mFlags, mFutex, ipc, vpc, call, cpc, expected>>
        /\ spc = "rear" /\ (spc' = "or" \/ UNCHANGED Room)
    BY <1>15 DEF LoadRear, Room, Filled
  <2> QED
    BY <2>1 DEF Sleeping, Waits
<1>16. CASE FlushOr \/ ReleaseOr
  <2>1. /\ UNCHANGED <<mFront, mRear, mFlags, ipc, vpc, call, cpc, expected>>
        /\ UNCHANGED Room
        /\ mFutex' = mFutex \cup {"WAKE"} /\ spc \in {"or", "ror"}
        /\ "WAKE" \notin mFutex => spc' \in {"wake", "rwake"}
    BY <1>16 DEF FlushOr, ReleaseOr, OrWake, Room, Filled
  <2> QED
    BY <2>1 DEF Sleeping, Waits
<1>17. CASE FlushWake \/ ReleaseWake \/ EndWake
  <2>1. /\ UNCHANGED <<mFront, mRear, mFlags, mFutex, ipc, vpc, call, expected>>
        /\ UNCHANGED Room
        /\ spc \in {"wake", "rwake", "ewake"} /\ cpc' # "asleep" /\ (cpc' = cpc \/ cpc' = "flags")
    BY <1>17 DEF FlushWake, ReleaseWake, EndWake, ServerWake, FutexWake, Room, Filled
  <2> QED
    BY <2>1 DEF Sleeping, Waits
<1>18. ASSUME NEW n \in 1 .. mFrameCount, SReleaseBuffer(n) PROVE Sleeping'
  <2>1. /\ UNCHANGED <<mRear, mFlags, mFutex, ipc, vpc, call, cpc, expected>>
        /\ spc = "mix" /\ (mAvailToClient + n >= minimum => spc' = "ror")
        /\ mFront' = Plus(mFront, n) /\ n <= sUnreleased
    BY <1>18 DEF SReleaseBuffer, WakesClient
  <2>2. n \in 0 .. Filled /\ n \in Nat /\ n >= 1 /\ n < Modulus
    <3>1. sUnreleased <= Filled
      BY <2>1 DEF IInv, Mixing, Holds
    <3> QED
      BY <1>2, <2>1, <3>1, Sizes
  <2>3. Room' = Room + n
    <3>1. Ahead(mRear, Plus(mFront, n)) = Ahead(mRear, mFront) - n
      BY <1>2, <2>2, PlusFacts DEF Filled
    <3>2. Filled' = Filled - n
      BY <2>1, <3>1 DEF Filled
    <3> QED
      BY <1>2, <2>2, <3>2, Sizes DEF Room
  <2>4. Room' >= minimum => spc' = "ror"
    <3>1. CASE scenario.Mixer = "whole"
      <4>1. Room <= mAvailToClient
        BY <1>1, <2>1, <3>1 DEF Estimate
      <4>2. Room' >= minimum => mAvailToClient + n >= minimum
        BY <1>2, <2>2, <2>3, <4>1, Minimum
      <4> QED
        BY <2>1, <4>2
    <3>2. CASE minimum = 1
      BY <1>2, <2>1, <2>2, <3>2
    <3> QED
      BY <3>1, <3>2 DEF WakesInTime
  <2> QED
    BY <2>1, <2>4 DEF Sleeping, Waits
<1>19. CASE SetStreamEndDone
  <2>1. /\ UNCHANGED <<mFront, mRear, mFutex, ipc, vpc, call, cpc, expected>>
        /\ UNCHANGED Room
        /\ spc = "idle" /\ mFlags' = mFlags \cup {"STREAM_END_DONE"}
    BY <1>19 DEF SetStreamEndDone, Room, Filled
  <2> QED
    BY <2>1 DEF Sleeping, Waits
<1>20. CASE Binder
  <2>1. /\ UNCHANGED <<mFront, mRear, mFlags, mFutex, ipc, spc, call, cpc, expected>>
        /\ UNCHANGED Room
        /\ vpc' \in {"idle", "front"}
    BY <1>20 DEF Binder, Invalidate, InvalidateStore, InvalidateWake, FramesReady, FramesReadyFront,
                 Sleeping, Room, Filled
  <2> QED
    BY <2>1 DEF Sleeping, Waits
<1> QED
  BY <1>3, <1>4, <1>5, <1>6, <1>7, <1>8, <1>9, <1>10, <1>11, <1>12, <1>13, <1>14, <1>15, <1>16, <1>17,
     <1>18, <1>19, <1>20 DEF Next, Client, Control, Server, MixStep

(***************************************************************************)
(* A client asleep in obtainBuffer() has missed no interrupt, no death of  *)
(* the server and no room, whatever the threads of the two processes do    *)
(* between its looks at the control block and its FUTEX_WAIT.              *)
(***************************************************************************)
THEOREM NoWakeupIsLost == Spec /\ Undisturbed /\ WakesInTime => []NoLostWakeup
<1>1. ASSUME Init, Undisturbed, WakesInTime PROVE WInv
  BY <1>1, InitHolds DEF WInv, Init, Sleeping, Waits
<1>2. ASSUME WInv, [Next /\ UNCHANGED scenario]_<<vars, scenario>> PROVE WInv'
  <2>1. IInv' /\ IInv /\ WakesInTime
    BY <1>2, StepHolds DEF WInv
  <2>2. CASE UNCHANGED <<vars, scenario>>
    BY <1>2, <2>1, <2>2 DEF WInv, WakesInTime, Sleeping, Waits, Room, Filled, vars, blockVars, clientVars,
       serverVars, binderVars
  <2>3. CASE Next /\ UNCHANGED scenario
    BY <1>2, <2>1, <2>3, StepWakes DEF WInv, WakesInTime
  <2> QED
    BY <1>2, <2>2, <2>3
<1>3. ASSUME WInv PROVE NoLostWakeup
  <2>1. SUFFICES ASSUME "invalidate" \notin scenario.May, cpc = "asleep", call = "obtainBuffer", NobodyWakes
                 PROVE  mFlags \subseteq {"STREAM_END_DONE"} /\ mFrameCount - filledFrames < minimum
    BY DEF NoLostWakeup
  <2>2. Sleeping /\ TypeOK /\ Ring
    BY <1>3, <2>1 DEF WInv, IInv
  <2>3. filledFrames = Filled /\ Room \in Int
    <3>1. mRear \in Position /\ mFront \in Position /\ ~(Ahead(mRear, mFront) > mFrameCount) /\ Filled \in Nat
      BY <2>2, Indices, Sizes DEF Ring, Filled
    <3> QED
      BY <3>1, AheadFacts, Sizes DEF filledFrames, Filled, Room
  <2>4. "WAKE" \notin mFutex
    BY <2>1, <2>2 DEF Sleeping, NobodyWakes
  <2>5. ~(Room >= minimum) /\ mFlags \subseteq {"STREAM_END_DONE"}
    BY <2>1, <2>2, <2>4 DEF Sleeping, NobodyWakes, Waits
  <2> QED
    BY <2>3, <2>5, Minimum DEF Room
<1> QED
  BY <1>1, <1>2, <1>3, PTL DEF Spec
-----------------------------------------------------------------------------
(* The abstract specification *)

\* The frames in the ring, by the indices they were given: n of them from index p on.
Run(p, n) == [i \in 1 .. n |-> Plus(p, i - 1)]

LEMMA RunFacts ==
  ASSUME NEW p \in Position, NEW n \in Nat, n < Modulus
  PROVE  /\ Run(p, n) \in Seq(Position) /\ Len(Run(p, n)) = n
         /\ \A i \in 1 .. n : Run(p, n)[i] = Plus(p, i - 1)
<1>1. ASSUME NEW i \in 1 .. n PROVE Plus(p, i - 1) \in Position
  <2>1. i - 1 \in Nat /\ i - 1 < Modulus
    BY Sizes
  <2> QED
    BY <2>1, PlusFacts
<1>2. Run(p, n) \in [1 .. n -> Position]
  BY <1>1 DEF Run
<1> QED
  BY <1>2 DEF Run

\* The frames that the slots hold from index p to index r: such a run.
Contents(buffers, p, r) == [i \in 1 .. Diff(r, p) |-> buffers[(p + i - 1) % mFrameCountP2]]

LEMMA StoredRun ==
  ASSUME NEW buffers, NEW p \in Position, NEW r \in Position, Ahead(r, p) <= mFrameCount,
         Stored(buffers, p, Ahead(r, p))
  PROVE  Contents(buffers, p, r) = Run(p, Ahead(r, p))
<1> DEFINE n == Ahead(r, p)
<1>1. n \in Nat /\ n < Modulus /\ n <= mFrameCount /\ p \in Nat /\ Diff(r, p) = n
  <2>1. n \in Nat /\ n < Modulus /\ n <= mFrameCount /\ p \in Nat
    BY AheadFacts
  <2>2. ~(n > mFrameCount)
    BY <2>1, Sizes
  <2> QED
    BY <2>1, <2>2, AheadFacts
<1> HIDE DEF n
<1>2. ASSUME NEW i \in 1 .. n
      PROVE  buffers[(p + i - 1) % mFrameCountP2] = Plus(p, i - 1)
  <2> DEFINE k == i - 1
  <2>1. k \in Nat /\ k < n /\ k < Modulus /\ p + i - 1 = p + k
    <3>1. i \in Int /\ 1 <= i /\ i <= n
      BY <1>1
    <3> QED
      BY <1>1, <3>1, Sizes
  <2> HIDE DEF k
  <2>2. Plus(p, k) \in Position /\ Ahead(Plus(p, k), p) = k
    BY <2>1, PlusFacts
  <2>3. buffers[Plus(p, k) % mFrameCountP2] = Plus(p, k)
    BY <2>1, <2>2 DEF Stored, n
  <2>4. (p + k) % mFrameCountP2 = Plus(p, k) % mFrameCountP2
    BY <2>1, SlotFacts
  <2> QED
    BY <2>1, <2>3, <2>4 DEF k
<1>3. [i \in 1 .. n |-> buffers[(p + i - 1) % mFrameCountP2]] = [i \in 1 .. n |-> Plus(p, i - 1)]
  BY <1>2
<1> QED
  BY <1>1, <1>3 DEF Run, Contents, n

(***************************************************************************)
(* More frames enter behind those that wait, and the oldest leave.         *)
(***************************************************************************)
LEMMA RunEnters ==
  ASSUME NEW p \in Position, NEW len \in Nat, NEW n \in Nat, len + n < Modulus
  PROVE  Fifo!IsPrefix(Run(p, len), Run(p, len + n)) /\ Len(Run(p, len + n)) = len + n
<1> DEFINE s == Run(p, len)
           t == Run(p, len + n)
<1>1. /\ s \in Seq(Position) /\ Len(s) = len /\ (\A i \in 1 .. len : s[i] = Plus(p, i - 1))
      /\ t \in Seq(Position) /\ Len(t) = len + n /\ (\A i \in 1 .. len + n : t[i] = Plus(p, i - 1))
  <2>1. len < Modulus /\ len + n \in Nat
    BY Sizes
  <2> QED
    BY <2>1, RunFacts
<1> HIDE DEF s, t
<1>2. SubSeq(s, 1, len) = [i \in 1 .. len |-> s[i]] /\ SubSeq(t, 1, len) = [i \in 1 .. len |-> t[i]]
  BY <1>1
<1>3. [i \in 1 .. len |-> s[i]] = [i \in 1 .. len |-> t[i]]
  <2>1. ASSUME NEW i \in 1 .. len PROVE s[i] = t[i]
    BY <1>1
  <2> QED
    BY <2>1
<1>4. Fifo!IsPrefix(s, t)
  BY <1>1, <1>2, <1>3 DEF Fifo!IsPrefix
<1> QED
  BY <1>1, <1>4 DEF s, t

LEMMA RunLeaves ==
  ASSUME NEW p \in Position, NEW len \in Nat, len < Modulus, NEW n \in 0 .. len
  PROVE  Fifo!IsSuffix(Run(Plus(p, n), len - n), Run(p, len))
<1> DEFINE q == Plus(p, n)
           k == len - n
           s == Run(q, k)
           t == Run(p, len)
<1>1. n \in Nat /\ n < Modulus /\ k \in Nat /\ k < Modulus /\ k <= len /\ k + n = len
  BY Sizes
<1>2. q \in Position
  BY <1>1, PlusFacts
<1> HIDE DEF k, q
<1>3. /\ s \in Seq(Position) /\ Len(s) = k /\ (\A i \in 1 .. k : s[i] = Plus(q, i - 1))
      /\ t \in Seq(Position) /\ Len(t) = len /\ (\A i \in 1 .. len : t[i] = Plus(p, i - 1))
  BY <1>1, <1>2, RunFacts
<1>4. ASSUME NEW i \in 1 .. k PROVE s[(k - i) + 1] = t[(len - i) + 1]
  <2> DEFINE j == k - i
  <2>1. /\ j \in Nat /\ j < Modulus /\ j + n < Modulus /\ j + n \in Nat
        /\ (k - i) + 1 = j + 1 /\ (len - i) + 1 = j + n + 1 /\ j + 1 \in 1 .. k /\ j + n + 1 \in 1 .. len
    <3>1. i \in Int /\ 1 <= i /\ i <= k
      BY <1>1
    <3>2. j \in Nat /\ j + n = len - i /\ j < len /\ j + n < len /\ j = k - i
      BY <1>1, <3>1
    <3> HIDE DEF j
    <3> QED
      BY <1>1, <3>1, <3>2, Sizes
  <2> HIDE DEF j
  <2>2. s[j + 1] = Plus(q, j) /\ t[j + n + 1] = Plus(p, j + n)
    <3>1. (j + 1) - 1 = j /\ (j + n + 1) - 1 = j + n
      BY <1>1, <2>1
    <3> QED
      BY <1>3, <2>1, <3>1
  <2>3. Plus(q, j) = Plus(p, j + n)
    <3>1. /\ Plus(p, n) = IF p + n < Modulus THEN p + n ELSE p + n - Modulus
          /\ Plus(p, j + n) = IF p + (j + n) < Modulus THEN p + (j + n) ELSE p + (j + n) - Modulus
          /\ Plus(q, j) = IF q + j < Modulus THEN q + j ELSE q + j - Modulus
      <4>1. Plus(p, n) = IF p + n < Modulus THEN p + n ELSE p + n - Modulus
        BY <1>1, PlusFacts
      <4>2. Plus(p, j + n) = IF p + (j + n) < Modulus THEN p + (j + n) ELSE p + (j + n) - Modulus
        <5> DEFINE w == j + n
        <5>1. w \in Nat /\ w < Modulus
          BY <2>1
        <5> HIDE DEF w
        <5>2. Plus(p, w) = IF p + w < Modulus THEN p + w ELSE p + w - Modulus
          BY <5>1, PlusFacts
        <5> QED
          BY <5>2 DEF w
      <4>3. Plus(q, j) = IF q + j < Modulus THEN q + j ELSE q + j - Modulus
        BY <1>2, <2>1, PlusFacts
      <4> QED
        BY <4>1, <4>2, <4>3
    <3>2. p \in Nat /\ p < Modulus /\ q = Plus(p, n)
      BY AheadFacts DEF q
    <3> QED
      BY <1>1, <2>1, <3>1, <3>2, Sizes
  <2> QED
    BY <2>1, <2>2, <2>3
<1> HIDE DEF s, t
<1> DEFINE rs == [i \in 1 .. k |-> s[(k - i) + 1]]
           rt == [i \in 1 .. len |-> t[(len - i) + 1]]
<1>5. Fifo!Reverse(s) = rs /\ Fifo!Reverse(t) = rt
  BY <1>3 DEF Fifo!Reverse
<1>6. rs \in Seq(Position) /\ Len(rs) = k /\ rt \in Seq(Position) /\ Len(rt) = len
  <2>1. ASSUME NEW i \in 1 .. k PROVE s[(k - i) + 1] \in Position
    <3>1. (k - i) + 1 \in 1 .. k
      BY <1>1
    <3> QED
      BY <1>3, <3>1
  <2>2. ASSUME NEW i \in 1 .. len PROVE t[(len - i) + 1] \in Position
    <3>1. (len - i) + 1 \in 1 .. len
      BY <1>1
    <3> QED
      BY <1>3, <3>1
  <2>3. rs \in [1 .. k -> Position] /\ rt \in [1 .. len -> Position]
    BY <2>1, <2>2
  <2> QED
    BY <1>1, <2>3
<1>7. ASSUME NEW i \in 1 .. k PROVE rs[i] = rt[i]
  BY <1>1, <1>4
<1> HIDE DEF rs, rt
<1>8. SubSeq(rs, 1, k) = [i \in 1 .. k |-> rs[i]] /\ SubSeq(rt, 1, k) = [i \in 1 .. k |-> rt[i]]
  BY <1>1, <1>6
<1>9. [i \in 1 .. k |-> rs[i]] = [i \in 1 .. k |-> rt[i]]
  BY <1>7
<1>10. Fifo!IsPrefix(rs, rt)
  BY <1>1, <1>6, <1>8, <1>9 DEF Fifo!IsPrefix
<1> QED
  BY <1>5, <1>10 DEF Fifo!IsSuffix, s, t, q, k
\* The only steps that move an index.
LEMMA IndicesMove ==
  ASSUME Next
  PROVE  \/ UNCHANGED <<mFront, mRear>>
         \/ \E n \in 0 .. mFrameCount : ReleaseBuffer(n)
         \/ LoadRear
         \/ \E n \in 1 .. mFrameCount : SReleaseBuffer(n)
<1> USE DEF blockVars, clientVars, serverVars, binderVars
<1>1. CASE Client
  BY <1>1 DEF Client, ObtainBuffer, WaitStreamEndDone, CheckFlags, Look, MayWait, ClearWake, Wait,
     OtherWakeup, Fill
<1>2. CASE Control
  BY <1>2 DEF Control, Flush, Signal, SignalOr, SignalWake
<1>3. CASE Server
  BY <1>3 DEF Server, MixStep, SObtainBuffer, FlushOr, FlushWake, OrWake, ServerWake, Obtained,
     ReleaseNothing, ReleaseOr, ReleaseWake, EndWake, Keep, GoOn, SetStreamEndDone
<1>4. CASE Binder
  BY <1>4 DEF Binder, Invalidate, InvalidateStore, InvalidateWake, FramesReady, FramesReadyFront
<1> QED
  BY <1>1, <1>2, <1>3, <1>4 DEF Next

(***************************************************************************)
(* The ring implements a FrameFifo: frames leave in the order in which     *)
(* they entered, none twice, none lost but to a release or a flush, and    *)
(* never more than mFrameCount wait.                                       *)
(***************************************************************************)
THEOREM RingIsAFifo == Spec /\ Undisturbed => Refinement
<1>1. ASSUME IInv
      PROVE  /\ Frames = Run(mFront, Filled)
             /\ mFront \in Position /\ mRear \in Position
             /\ Filled \in Nat /\ Filled <= mFrameCount /\ Filled < Modulus
  <2>1. /\ mFront \in Position /\ mRear \in Position
        /\ Filled \in Nat /\ Filled <= mFrameCount /\ Filled < Modulus
    BY <1>1, Indices DEF IInv, Ring
  <2>2. Stored(mBuffers, mFront, Ahead(mRear, mFront)) /\ Ahead(mRear, mFront) <= mFrameCount
    BY <1>1 DEF IInv, Ring, Filled
  <2>3. Contents(mBuffers, mFront, mRear) = Run(mFront, Ahead(mRear, mFront))
    BY <2>1, <2>2, StoredRun
  <2> QED
    BY <2>1, <2>3 DEF Frames, filledFrames, Filled, Contents
<1>2. ASSUME IInv'
      PROVE  /\ Frames' = Run(mFront', Filled')
             /\ mFront' \in Position /\ mRear' \in Position
             /\ Filled' \in Nat /\ Filled' <= mFrameCount
  <2>1. mFront' \in Position /\ mRear' \in Position /\ Filled' <= mFrameCount
    BY <1>2 DEF IInv, Ring, TypeOK
  <2>2. Stored(mBuffers', mFront', Ahead(mRear', mFront')) /\ Ahead(mRear', mFront') <= mFrameCount
    BY <1>2 DEF IInv, Ring, Filled
  <2>3. Contents(mBuffers', mFront', mRear') = Run(mFront', Ahead(mRear', mFront'))
    BY <2>1, <2>2, StoredRun
  <2>4. Filled' \in Nat
    BY <2>1, AheadFacts DEF Filled
  <2> QED
    BY <2>1, <2>3, <2>4 DEF Frames, filledFrames, Filled, Contents
<1>3. ASSUME Init, Undisturbed PROVE Fifo!Init
  <2>1. IInv /\ Filled = 0
    <3>1. IInv
      BY <1>3, InitHolds
    <3>2. mFront \in Position /\ mRear = mFront
      BY <1>3 DEF Init
    <3> QED
      BY <3>1, <3>2, AheadFacts DEF Filled
  <2>2. Frames \in Seq(Position) /\ Len(Frames) = 0
    BY <1>1, <2>1, RunFacts
  <2> QED
    BY <2>2 DEF Fifo!Init
<1>4. ASSUME IInv, IInv', Next, UNCHANGED scenario
      PROVE  Fifo!Enter \/ Fifo!Leave \/ UNCHANGED Frames
  <2>1. /\ Frames = Run(mFront, Filled) /\ Frames' = Run(mFront', Filled')
        /\ mFront \in Position /\ mRear \in Position /\ mFront' \in Position /\ mRear' \in Position
        /\ Filled \in Nat /\ Filled < Modulus /\ Filled' \in Nat /\ Filled' <= mFrameCount
    BY <1>1, <1>2, <1>4
  <2>2. CASE UNCHANGED <<mFront, mRear>>
    BY <2>1, <2>2 DEF Filled
  <2>3. ASSUME NEW n \in 0 .. mFrameCount, ReleaseBuffer(n) PROVE Fifo!Enter
    <3>1. mFront' = mFront /\ mRear' = Plus(mRear, n) /\ n \in Nat /\ n <= cUnreleased
      BY <2>3, Sizes DEF ReleaseBuffer
    <3>2. Filled + n <= mFrameCount /\ Filled + n < Modulus /\ n < Modulus
      <4>1. Filled + cUnreleased <= mFrameCount /\ cUnreleased \in Nat
        BY <1>4, <2>3, Indices DEF IInv, Obtaining, ReleaseBuffer
      <4> QED
        BY <2>1, <3>1, <4>1, Sizes
    <3>3. Filled' = Filled + n
      BY <2>1, <3>1, <3>2, PlusFacts DEF Filled
    <3>4. Fifo!IsPrefix(Run(mFront, Filled), Run(mFront, Filled + n)) /\ Len(Run(mFront, Filled + n)) = Filled + n
      BY <2>1, <3>1, <3>2, RunEnters
    <3> QED
      BY <2>1, <3>1, <3>2, <3>3, <3>4 DEF Fifo!Enter
  <2>4. ASSUME NEW n \in 0 .. Filled, mFront' = Plus(mFront, n), mRear' = mRear PROVE Fifo!Leave
    <3>1. n \in Nat /\ n < Modulus
      BY <2>1, Sizes
    <3>2. Filled' = Filled - n
      BY <2>1, <2>4, <3>1, PlusFacts DEF Filled
    <3>3. Fifo!IsSuffix(Run(Plus(mFront, n), Filled - n), Run(mFront, Filled))
      BY <2>1, RunLeaves
    <3> QED
      BY <2>1, <2>4, <3>2, <3>3 DEF Fifo!Leave
  <2>5. CASE LoadRear
    <3>1. mRear' = mRear
      BY <2>5 DEF LoadRear
    <3>2. CASE mFront' # mFront
      <4>1. TypeOK'
        BY <1>4 DEF IInv
      <4>2. \E n \in 0 .. Filled : mFront' = Plus(mFront, n)
        BY <1>4, <2>5, <3>2, <4>1, LoadRearHolds
      <4> QED
        BY <2>4, <3>1, <4>2
    <3> QED
      BY <2>2, <3>1, <3>2
  <2>6. ASSUME NEW n \in 1 .. mFrameCount, SReleaseBuffer(n) PROVE Fifo!Leave
    <3>1. mRear' = mRear /\ mFront' = Plus(mFront, n) /\ n <= sUnreleased /\ spc = "mix"
      BY <2>6 DEF SReleaseBuffer, blockVars
    <3>2. sUnreleased <= Filled /\ sUnreleased \in Nat
      BY <1>4, <3>1, Indices DEF IInv, Mixing, Holds
    <3>3. n \in 0 .. Filled
      BY <2>1, <3>1, <3>2, Sizes
    <3> QED
      BY <2>4, <3>1, <3>3
  <2> QED
    BY <1>4, <2>2, <2>3, <2>5, <2>6, IndicesMove
<1>5. ASSUME IInv, [Next /\ UNCHANGED scenario]_<<vars, scenario>>
      PROVE  [Fifo!Enter \/ Fifo!Leave]_Frames
  <2>1. IInv'
    BY <1>5, StepHolds
  <2>2. CASE UNCHANGED <<vars, scenario>>
    BY <2>2 DEF vars, blockVars, Frames, filledFrames
  <2> QED
    BY <1>4, <1>5, <2>1, <2>2
<1> QED
  BY <1>3, <1>5, Invariant, PTL DEF Spec, Refinement, Fifo!Spec
=============================================================================
