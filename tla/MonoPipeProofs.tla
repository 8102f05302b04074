--------------------------- MODULE MonoPipeProofs ---------------------------
(***************************************************************************)
(* Proofs about MonoPipe for every size, every Modulus and SeqModulus, and *)
(* every set of timestamps: type correctness, the atomic observation of    *)
(* mFront and mNextRdPTS under the sequence number, the integrity of the   *)
(* frames in the ring, and that the pipe implements a FrameFifo.           *)
(***************************************************************************)
EXTENDS MonoPipe, Sequences, TLAPS

-----------------------------------------------------------------------------
(* Arithmetic *)

(***************************************************************************)
(* The sums and differences of positions are positions.                    *)
(***************************************************************************)
LEMMA PositionFacts ==
  ASSUME NEW a \in Position, NEW n \in Int
  PROVE  Plus(a, n) \in Position /\ Minus(a, n) \in Position
<1>1. Modulus \in Nat \ {0}
  BY SizeAssumption
<1> QED
  BY <1>1 DEF Position, Plus, Minus

(***************************************************************************)
(* The next number: counting one more update.                              *)
(***************************************************************************)
LEMMA NextNumber ==
  ASSUME NEW s \in 0 .. SeqModulus - 1, NEW k \in 0 .. SeqModulus - 1, k + 1 < SeqModulus
  PROVE  (((s + k) % SeqModulus) + 1) % SeqModulus = (s + (k + 1)) % SeqModulus
<1> DEFINE x == s + k
<1>1. SeqModulus \in Nat /\ SeqModulus >= 2 /\ x \in Nat /\ x < 2 * SeqModulus
  BY SeqAssumption
<1>2. CASE x < SeqModulus
  <2>1. x % SeqModulus = x
    BY <1>1, <1>2
  <2> QED
    BY <2>1
<1>3. CASE x >= SeqModulus
  <2>1. x % SeqModulus = x - SeqModulus
    BY <1>1, <1>3
  <2>2. x - SeqModulus + 1 < SeqModulus
    BY <1>1
  <2>3. (x - SeqModulus + 1) % SeqModulus = x - SeqModulus + 1
    BY <1>1, <1>3, <2>2
  <2>4. (x + 1) % SeqModulus = x + 1 - SeqModulus
    BY <1>1, <1>3, <2>2
  <2> QED
    BY <1>1, <2>1, <2>3, <2>4
<1> QED
  BY <1>1, <1>2, <1>3

(***************************************************************************)
(* A number is met again only after as many updates as there are numbers.  *)
(***************************************************************************)
LEMMA SameNumber ==
  ASSUME NEW s \in 0 .. SeqModulus - 1, NEW k \in 0 .. SeqModulus - 1, (s + k) % SeqModulus = s
  PROVE  k = 0
<1>1. SeqModulus \in Nat /\ SeqModulus >= 2
  BY SeqAssumption
<1>2. CASE s + k < SeqModulus
  BY <1>1, <1>2
<1>3. CASE s + k >= SeqModulus
  <2>1. (s + k) % SeqModulus = s + k - SeqModulus
    BY <1>1, <1>3
  <2> QED
    BY <1>1, <2>1
<1> QED
  BY <1>1, <1>2, <1>3
-----------------------------------------------------------------------------
(* Type correctness *)

LEMMA InitType == ASSUME Init PROVE TypeOK
<1> USE SizeAssumption, SeqAssumption, CallAssumption
<1>1. mUpdateSeq \in Seq31
  BY DEF Init, Seq31
<1>2. mBuffer \in [Slot -> Position]
  BY DEF Init
<1>3. /\ mFront \in Position /\ mRear = mFront /\ outFront = mFront
      /\ mNextRdPTS \in PTS /\ outNextRdPTS = mNextRdPTS /\ nextReadPTS = mNextRdPTS
      /\ mIsShutdown = FALSE /\ seqOne = mUpdateSeq /\ wpc = "idle" /\ rpc = "idle"
      /\ count = 0 /\ written = 0 /\ missed = 0 /\ red = 0
  BY DEF Init
<1>4. {mFront, mRear, outFront} \subseteq Position
  BY <1>3
<1>5. {mNextRdPTS, outNextRdPTS, nextReadPTS} \subseteq PTS
  BY <1>3
<1>6. {mUpdateSeq, seqOne} \subseteq Seq31
  BY <1>1, <1>3
<1>7. mIsShutdown \in BOOLEAN
  BY <1>3
<1>8. /\ count \in 0 .. MaxCount /\ written \in 0 .. MaxCount /\ red \in 0 .. MaxCount
      /\ missed \in 0 .. SeqModulus - 1
  BY <1>3
<1> QED
  BY <1>2, <1>3, <1>4, <1>5, <1>6, <1>7, <1>8 DEF TypeOK

LEMMA ReturnType ==
  ASSUME TypeOK, Transferred
  PROVE  /\ wpc' \in {"idle", "sleep"}
         /\ count' \in 0 .. MaxCount /\ written' \in 0 .. MaxCount
  BY CallAssumption DEF TypeOK, Transferred, Return

(***************************************************************************)
(* The steps of write().                                                   *)
(***************************************************************************)
LEMMA WriteType ==
  ASSUME TypeOK, (\E n \in 1 .. MaxCount : Write(n)) \/ AvailableToWrite \/ Copy \/ Publish \/ Sleep
  PROVE  TypeOK'
<1>0. mRear \in Position /\ mFront \in Position /\ written \in Int /\ count \in 0 .. MaxCount
  BY CallAssumption DEF TypeOK
<1>1. CASE \E n \in 1 .. MaxCount : Write(n)
  BY <1>1, CallAssumption DEF TypeOK, Write, pipeVars, observerVars, readerVars
<1>2. CASE AvailableToWrite
  <2>1. UNCHANGED <<pipeVars, observerVars, readerVars>>
    BY <1>2 DEF AvailableToWrite
  <2>2. CASE Transferred
    BY <2>1, <2>2, ReturnType DEF TypeOK, pipeVars, observerVars, readerVars
  <2>3. CASE /\ Least(availableToWrite, count) > 0
             /\ wpc' = "copy" /\ written' = Least(availableToWrite, count) /\ UNCHANGED count
    <3>1. availableToWrite \in Int
      BY <1>0, SizeAssumption, PositionFacts DEF availableToWrite, Position
    <3>2. written' \in 0 .. MaxCount
      BY <1>0, <2>3, <3>1, CallAssumption DEF Least
    <3> QED
      BY <2>1, <2>3, <3>2 DEF TypeOK, pipeVars, observerVars, readerVars
  <2> QED
    BY <1>2, <2>2, <2>3 DEF AvailableToWrite
<1>3. CASE Copy
  <2>1. \A n \in Int : Plus(mRear, n) \in Position
    BY <1>0, PositionFacts
  <2>2. \A s \in Slot : (s - mRear) % mMaxFrames \in Int
    BY <1>0, SizeAssumption DEF Slot, Position
  <2>3. mBuffer' \in [Slot -> Position]
    BY <1>3, <2>1, <2>2 DEF TypeOK, Copy
  <2> QED
    BY <1>3, <2>3 DEF TypeOK, Copy, observerVars, readerVars
<1>4. CASE Publish
  <2>1. mRear' \in Position
    BY <1>0, <1>4, PositionFacts DEF Publish
  <2> QED
    BY <1>4, <2>1, ReturnType DEF TypeOK, Publish, observerVars, readerVars
<1>5. CASE Sleep
  <2>1. /\ wpc' \in {"idle", "avail"}
        /\ count' \in 0 .. MaxCount /\ written' \in 0 .. MaxCount
    BY <1>0, <1>5, CallAssumption DEF TypeOK, Sleep, Return
  <2> QED
    BY <1>5, <2>1 DEF TypeOK, Sleep, pipeVars, observerVars, readerVars
<1> QED
  BY <1>1, <1>2, <1>3, <1>4, <1>5

(***************************************************************************)
(* The steps of getNextWriteTimestamp().                                   *)
(***************************************************************************)
LEMMA ObserveType ==
  ASSUME TypeOK,
         GetNextWriteTimestamp \/ LoadSeqOne \/ LoadFront \/ LoadNextRdPTS \/ LoadSeqTwo
  PROVE  TypeOK'
<1> USE SeqAssumption DEF TypeOK, pipeVars, observerVars, readerVars
<1>1. CASE GetNextWriteTimestamp
  BY <1>1 DEF GetNextWriteTimestamp
<1>2. CASE LoadSeqOne
  BY <1>2 DEF LoadSeqOne
<1>3. CASE LoadFront
  BY <1>3 DEF LoadFront
<1>4. CASE LoadNextRdPTS
  BY <1>4 DEF LoadNextRdPTS
<1>5. CASE LoadSeqTwo
  BY <1>5 DEF LoadSeqTwo
<1> QED
  BY <1>1, <1>2, <1>3, <1>4, <1>5

(***************************************************************************)
(* The steps of read(); an update is counted if there are numbers left.    *)
(***************************************************************************)
LEMMA ReadType ==
  ASSUME TypeOK, UpdatesAreCounted, BusyWhenUpdating,
         \/ \E n \in 1 .. MaxCount, pts \in PTS : Read(n, pts)
         \/ BeginUpdate \/ StoreFront \/ StoreNextRdPTS \/ EndUpdate
  PROVE  TypeOK'
<1>0. mRear \in Position /\ mFront \in Position /\ red \in 0 .. MaxCount
  BY DEF TypeOK
<1>1. ASSUME NEW n \in 1 .. MaxCount, NEW pts \in PTS, Read(n, pts)
      PROVE  TypeOK'
  <2>1. Minus(mRear, mFront) \in Nat
    BY <1>0, SizeAssumption, PositionFacts DEF Position
  <2>2. red' \in 0 .. MaxCount
    BY <1>1, <2>1, CallAssumption DEF Read, Least
  <2> QED
    BY <1>1, <2>2 DEF TypeOK, Read, pipeVars, observerVars
<1>2. CASE BeginUpdate
  <2>1. mUpdateSeq' \in Seq31
    BY <1>2 DEF TypeOK, BeginUpdate, Seq31
  <2> QED
    BY <1>2, <2>1 DEF TypeOK, BeginUpdate, observerVars
<1>3. CASE StoreFront
  <2>1. mFront' \in Position
    BY <1>0, <1>3, CallAssumption, PositionFacts DEF StoreFront
  <2> QED
    BY <1>3, <2>1 DEF TypeOK, StoreFront, observerVars
<1>4. CASE StoreNextRdPTS
  BY <1>4 DEF TypeOK, StoreNextRdPTS, observerVars
<1>5. CASE EndUpdate
  <2>1. mUpdateSeq' \in Seq31
    BY <1>5, SeqAssumption DEF TypeOK, EndUpdate, Seq31
  <2>2. missed' \in 0 .. SeqModulus - 1
    BY <1>5, SeqAssumption DEF TypeOK, UpdatesAreCounted, BusyWhenUpdating, EndUpdate
  <2> QED
    BY <1>5, <2>1, <2>2 DEF TypeOK, EndUpdate
<1> QED
  BY <1>1, <1>2, <1>3, <1>4, <1>5
-----------------------------------------------------------------------------
(* The inductive invariant *)

LEMMA InitInv == ASSUME Init PROVE IInv
<1>1. TypeOK
  BY InitType
<1>2. BusyWhenUpdating
  BY DEF Init, BusyWhenUpdating
<1>3. wpc = "idle"
  BY DEF Init
<1>4. UpdatesAreCounted /\ LoadedIsCurrent
  BY <1>3 DEF UpdatesAreCounted, LoadedIsCurrent, Observing
<1> QED
  BY <1>1, <1>2, <1>4 DEF IInv

(***************************************************************************)
(* write() and shutdown() have nothing to do with the sequence number.     *)
(***************************************************************************)
LEMMA WriteInv ==
  ASSUME IInv,
         \/ \E n \in 1 .. MaxCount : Write(n)
         \/ AvailableToWrite \/ Copy \/ Publish \/ Sleep
  PROVE  IInv'
<1>1. TypeOK'
  BY WriteType DEF IInv
<1>2. UNCHANGED <<mUpdateSeq, rpc>>
  BY DEF Write, AvailableToWrite, Copy, Publish, Sleep, pipeVars, readerVars
<1>3. wpc' \in {"idle", "avail", "copy", "publish", "sleep"}
  BY DEF Write, AvailableToWrite, Copy, Publish, Sleep, Transferred, Return
<1>4. BusyWhenUpdating'
  BY <1>2 DEF IInv, BusyWhenUpdating
<1>5. UpdatesAreCounted' /\ LoadedIsCurrent'
  BY <1>3 DEF UpdatesAreCounted, LoadedIsCurrent, Observing
<1> QED
  BY <1>1, <1>4, <1>5 DEF IInv

LEMMA ShutdownInv == ASSUME IInv, NEW newState \in BOOLEAN, Shutdown(newState) PROVE IInv'
<1>1. UNCHANGED <<mFront, mRear, mNextRdPTS, mBuffer, mUpdateSeq, wpc, count, written,
                  seqOne, outFront, outNextRdPTS, missed, rpc, red, nextReadPTS>>
  BY DEF Shutdown, observerVars, readerVars
<1>2. mIsShutdown' \in BOOLEAN
  BY DEF Shutdown
<1>3. TypeOK'
  BY <1>1, <1>2 DEF IInv, TypeOK
<1>4. BusyWhenUpdating' /\ UpdatesAreCounted' /\ LoadedIsCurrent'
  BY <1>1 DEF IInv, BusyWhenUpdating, UpdatesAreCounted, LoadedIsCurrent, Observing
<1> QED
  BY <1>3, <1>4 DEF IInv

(***************************************************************************)
(* An observation starts to count the updates, and what it loads while     *)
(* there is none is current.                                               *)
(***************************************************************************)
LEMMA ObserveInv ==
  ASSUME IInv,
         GetNextWriteTimestamp \/ LoadSeqOne \/ LoadFront \/ LoadNextRdPTS \/ LoadSeqTwo
  PROVE  IInv'
<1>1. TypeOK'
  BY ObserveType DEF IInv
<1>2. UNCHANGED <<mFront, mNextRdPTS, mUpdateSeq, rpc>>
  BY DEF GetNextWriteTimestamp, LoadSeqOne, LoadFront, LoadNextRdPTS, LoadSeqTwo, pipeVars,
         readerVars
<1>3. BusyWhenUpdating'
  BY <1>2 DEF IInv, BusyWhenUpdating
<1>4. CASE GetNextWriteTimestamp \/ LoadSeqTwo
  <2>1. wpc' \in {"seqOne", "idle"}
    BY <1>4 DEF GetNextWriteTimestamp, LoadSeqTwo
  <2> QED
    BY <1>1, <1>3, <2>1 DEF IInv, UpdatesAreCounted, LoadedIsCurrent, Observing
<1>5. CASE LoadSeqOne
  <2>1. wpc' = "front" /\ seqOne' = mUpdateSeq /\ missed' = 0
    BY <1>5 DEF LoadSeqOne
  <2>2. mUpdateSeq.number \in 0 .. SeqModulus - 1
    BY DEF IInv, TypeOK, Seq31
  <2>3. mUpdateSeq.number = (mUpdateSeq.number + 0) % SeqModulus /\ 0 < SeqModulus - 1
    BY <2>2, SeqAssumption
  <2>4. UpdatesAreCounted'
    BY <1>2, <2>1, <2>3 DEF UpdatesAreCounted, Observing
  <2> QED
    BY <1>1, <1>3, <2>1, <2>4 DEF IInv, LoadedIsCurrent
<1>6. CASE LoadFront
  <2>1. wpc = "front" /\ wpc' = "pts" /\ outFront' = mFront /\ UNCHANGED <<seqOne, missed>>
    BY <1>6 DEF LoadFront
  <2>2. UpdatesAreCounted'
    BY <1>2, <2>1 DEF IInv, UpdatesAreCounted, Observing
  <2> QED
    BY <1>1, <1>2, <1>3, <2>1, <2>2 DEF IInv, LoadedIsCurrent
<1>7. CASE LoadNextRdPTS
  <2>1. /\ wpc = "pts" /\ wpc' = "seqTwo" /\ outNextRdPTS' = mNextRdPTS
        /\ UNCHANGED <<seqOne, missed, outFront>>
    BY <1>7 DEF LoadNextRdPTS
  <2>2. UpdatesAreCounted'
    BY <1>2, <2>1 DEF IInv, UpdatesAreCounted, Observing
  <2> QED
    BY <1>1, <1>2, <1>3, <2>1, <2>2 DEF IInv, LoadedIsCurrent
<1> QED
  BY <1>4, <1>5, <1>6, <1>7

(***************************************************************************)
(* An update is announced before anything is stored, and counted when it   *)
(* is complete.                                                            *)
(***************************************************************************)
LEMMA ReadInv ==
  ASSUME IInv,
         \/ \E n \in 1 .. MaxCount, pts \in PTS : Read(n, pts)
         \/ BeginUpdate \/ StoreFront \/ StoreNextRdPTS \/ EndUpdate
  PROVE  IInv'
<1>1. TypeOK'
  BY ReadType DEF IInv
<1>2. UNCHANGED <<wpc, seqOne, outFront, outNextRdPTS>>
  BY DEF Read, BeginUpdate, StoreFront, StoreNextRdPTS, EndUpdate, observerVars
<1>3. CASE \E n \in 1 .. MaxCount, pts \in PTS : Read(n, pts)
  <2>1. /\ rpc = "idle" /\ rpc' = "begin"
        /\ UNCHANGED <<mFront, mNextRdPTS, mUpdateSeq, missed>>
    BY <1>3 DEF Read, pipeVars, observerVars
  <2> QED
    BY <1>1, <1>2, <2>1
       DEF IInv, BusyWhenUpdating, UpdatesAreCounted, LoadedIsCurrent, Observing
<1>4. CASE BeginUpdate
  <2>1. /\ rpc' = "front" /\ missed' = missed
        /\ Observing => missed < SeqModulus - 1
    BY <1>4 DEF BeginUpdate, observerVars
  <2>2. mUpdateSeq'.busy /\ mUpdateSeq'.number = mUpdateSeq.number
    BY <1>4 DEF IInv, TypeOK, BeginUpdate, Seq31
  <2>3. BusyWhenUpdating'
    BY <2>1, <2>2 DEF BusyWhenUpdating
  <2>4. UpdatesAreCounted'
    BY <1>2, <2>1, <2>2 DEF IInv, UpdatesAreCounted, Observing
  <2>5. LoadedIsCurrent'
    BY <2>2 DEF LoadedIsCurrent
  <2> QED
    BY <1>1, <2>3, <2>4, <2>5 DEF IInv
<1>5. CASE StoreFront \/ StoreNextRdPTS
  <2>1. /\ rpc \in {"front", "pts"} /\ rpc' \in {"pts", "end"}
        /\ UNCHANGED <<mUpdateSeq, missed>>
    BY <1>5 DEF StoreFront, StoreNextRdPTS, observerVars
  <2>2. mUpdateSeq.busy
    BY <2>1 DEF IInv, BusyWhenUpdating
  <2>3. BusyWhenUpdating'
    BY <2>1, <2>2 DEF BusyWhenUpdating
  <2>4. UpdatesAreCounted'
    BY <1>2, <2>1 DEF IInv, UpdatesAreCounted, Observing
  <2>5. LoadedIsCurrent'
    BY <2>1, <2>2 DEF LoadedIsCurrent
  <2> QED
    BY <1>1, <2>3, <2>4, <2>5 DEF IInv
<1>6. CASE EndUpdate
  <2>1. /\ rpc = "end" /\ rpc' = "idle" /\ missed' = IF Observing THEN missed + 1 ELSE missed
        /\ ~mUpdateSeq'.busy /\ mUpdateSeq'.number = (mUpdateSeq.number + 1) % SeqModulus
    BY <1>6 DEF EndUpdate
  <2>2. mUpdateSeq.busy
    BY <2>1 DEF IInv, BusyWhenUpdating
  <2>3. BusyWhenUpdating'
    BY <2>1 DEF BusyWhenUpdating
  <2>4. UpdatesAreCounted'
    <3>1. SUFFICES ASSUME Observing
                   PROVE  mUpdateSeq'.number = (seqOne.number + (missed + 1)) % SeqModulus
      BY <1>2, <2>1 DEF UpdatesAreCounted, Observing
    <3>2. /\ mUpdateSeq.number = (seqOne.number + missed) % SeqModulus
          /\ missed < SeqModulus - 1
      BY <2>2, <3>1 DEF IInv, UpdatesAreCounted
    <3>3. seqOne.number \in 0 .. SeqModulus - 1 /\ missed \in 0 .. SeqModulus - 1
      BY DEF IInv, TypeOK, Seq31
    <3>4. missed + 1 < SeqModulus
      BY <3>2, <3>3, SeqAssumption
    <3> QED
      BY <2>1, <3>2, <3>3, <3>4, NextNumber
  <2>5. LoadedIsCurrent'
    <3>1. missed \in Nat
      BY SeqAssumption DEF IInv, TypeOK
    <3>2. CASE Observing
      BY <2>1, <3>1, <3>2 DEF LoadedIsCurrent
    <3>3. CASE ~Observing
      BY <1>2, <3>3 DEF LoadedIsCurrent, Observing
    <3> QED
      BY <3>2, <3>3
  <2> QED
    BY <1>1, <2>3, <2>4, <2>5 DEF IInv
<1> QED
  BY <1>3, <1>4, <1>5, <1>6

LEMMA NextInv == ASSUME IInv, [Next]_vars PROVE IInv'
<1>1. CASE UNCHANGED vars
  BY <1>1 DEF vars, pipeVars, observerVars, readerVars, IInv, TypeOK, BusyWhenUpdating,
              UpdatesAreCounted, LoadedIsCurrent, Observing
<1>2. CASE Writer
  BY <1>2, WriteInv, ObserveInv DEF Writer
<1>3. CASE Reader
  BY <1>3, ReadInv DEF Reader
<1>4. CASE \E newState \in BOOLEAN : Shutdown(newState)
  BY <1>4, ShutdownInv
<1> QED
  BY <1>1, <1>2, <1>3, <1>4 DEF Next

(***************************************************************************)
(* Every reachable state satisfies the inductive invariant.                *)
(***************************************************************************)
THEOREM Invariant == Spec => []IInv
<1>1. Init => IInv
  BY InitInv
<1>2. IInv /\ [Next]_vars => IInv'
  BY NextInv
<1> QED
  BY <1>1, <1>2, PTL DEF Spec
-----------------------------------------------------------------------------
(* The results *)

(***************************************************************************)
(* Type correctness, with int32_t positions and a sequence number of 31    *)
(* bits taken as any moduli.                                               *)
(***************************************************************************)
THEOREM TypeCorrect == Spec => []TypeOK
<1>1. IInv => TypeOK
  BY DEF IInv
<1> QED
  BY <1>1, Invariant, PTL

(***************************************************************************)
(* The atomic observation of observeFrontAndNRPTS(): the pair it takes is  *)
(* the one that the reader's thread published last, provided that fewer    *)
(* than SeqModulus updates are completed during one turn of its loop.      *)
(***************************************************************************)
THEOREM AtomicObservation == Spec => []TimestampIsWhole
<1>1. ASSUME IInv, wpc = "seqTwo", Same
      PROVE  outFront = mFront /\ outNextRdPTS = mNextRdPTS
  <2>1. /\ seqOne.number \in 0 .. SeqModulus - 1
        /\ missed \in 0 .. SeqModulus - 1
    BY <1>1 DEF IInv, TypeOK, Seq31
  <2>2. (seqOne.number + missed) % SeqModulus = seqOne.number /\ ~mUpdateSeq.busy
    BY <1>1 DEF IInv, UpdatesAreCounted, Observing, Same
  <2>3. missed = 0
    BY <2>1, <2>2, SameNumber
  <2> QED
    BY <1>1, <2>2, <2>3 DEF IInv, LoadedIsCurrent
<1>2. IInv => TimestampIsWhole
  BY <1>1 DEF TimestampIsWhole
<1> QED
  BY <1>2, Invariant, PTL
-----------------------------------------------------------------------------
(* Positions and slots *)

\* q turns of a ring of m; kept unexpanded once these lemmas are there.
Turns(q, m) == q * m

LEMMA TurnsFacts ==
  ASSUME NEW m \in Int, NEW p \in Int, NEW q \in Int
  PROVE  /\ Turns(p, m) \in Int
         /\ Turns(p + q, m) = Turns(p, m) + Turns(q, m)
         /\ Turns(p - q, m) = Turns(p, m) - Turns(q, m)
         /\ Turns(p, Turns(q, m)) = Turns(p * q, m)
  BY DEF Turns

LEMMA Remainder ==
  ASSUME NEW m \in Nat \ {0}, NEW q \in Int, NEW r \in 0 .. m - 1
  PROVE  (q * m + r) % m = r
  BY Z3

(***************************************************************************)
(* A remainder is less than what divides, and is the number but for whole  *)
(* turns.                                                                  *)
(***************************************************************************)
LEMMA Reduced ==
  ASSUME NEW m \in Nat \ {0}, NEW x \in Int
  PROVE  /\ x % m \in 0 .. m - 1
         /\ x = Turns(x \div m, m) + (x % m)
         /\ x \div m \in Int
<1>1. x \div m \in Int /\ x % m \in 0 .. m - 1
  OBVIOUS
<1>2. x = (x \div m) * m + (x % m)
  OBVIOUS
<1> QED
  BY <1>1, <1>2 DEF Turns

(***************************************************************************)
(* Whole turns do not change a remainder.                                  *)
(***************************************************************************)
LEMMA TurnsLost ==
  ASSUME NEW m \in Nat \ {0}, NEW x \in Int, NEW q \in Int
  PROVE  (x + Turns(q, m)) % m = x % m
<1> DEFINE p == x \div m
<1>1. x = p * m + (x % m) /\ p \in Int /\ x % m \in 0 .. m - 1
  BY Reduced DEF Turns
<1> HIDE DEF p
<1>2. x + q * m = (p + q) * m + (x % m)
  BY <1>1
<1>3. ((p + q) * m + (x % m)) % m = x % m
  BY <1>1, Remainder
<1> QED
  BY <1>2, <1>3 DEF Turns

(***************************************************************************)
(* The same, the other way round.                                          *)
(***************************************************************************)
LEMMA ReducedBy ==
  ASSUME NEW m \in Nat \ {0}, NEW x \in Int
  PROVE  \E q \in Int : x % m = x + Turns(q, m)
<1> DEFINE p == x \div m
<1>1. x = Turns(p, m) + (x % m) /\ p \in Int /\ x % m \in Int
  <2>1. x = Turns(p, m) + (x % m) /\ p \in Int
    BY Reduced, Zenon
  <2>2. x % m \in Int
    OBVIOUS
  <2> QED
    BY <2>1, <2>2
<1> HIDE DEF p
<1>2. 0 - p \in Int /\ Turns(p, m) \in Int /\ Turns(0 - p, m) \in Int
  BY <1>1, TurnsFacts
<1>3. Turns(0 - p, m) = Turns(0, m) - Turns(p, m) /\ Turns(0, m) = 0
  BY <1>1 DEF Turns
<1>4. x % m = x + Turns(0 - p, m)
  BY <1>1, <1>2, <1>3
<1> QED
  BY <1>2, <1>4

(***************************************************************************)
(* A ring of mMaxFrames slots goes a whole number of times into Modulus: a *)
(* position and the sum it stands for are whole turns of the ring apart.   *)
(***************************************************************************)
LEMMA PlusReduced ==
  ASSUME NEW a \in Position, NEW n \in Int
  PROVE  \E q \in Int : Plus(a, n) = (a + n) + Turns(q, mMaxFrames)
<1>0. mMaxFrames \in Nat \ {0} /\ Modulus \in Nat \ {0} /\ a + n \in Int
  BY SizeAssumption DEF Position
<1> DEFINE w == Modulus \div mMaxFrames
<1>1. Modulus = Turns(w, mMaxFrames) /\ w \in Int
  <2>1. Modulus = Turns(w, mMaxFrames) + (Modulus % mMaxFrames) /\ w \in Int
    BY <1>0, Reduced
  <2>2. Modulus % mMaxFrames = 0 /\ Turns(w, mMaxFrames) \in Int
    BY <1>0, <2>1, SizeAssumption, TurnsFacts
  <2> QED
    BY <2>1, <2>2
<1> HIDE DEF w
<1>2. PICK p \in Int : (a + n) % Modulus = (a + n) + Turns(p, Modulus)
  BY <1>0, ReducedBy
<1>3. Turns(p, Modulus) = Turns(p * w, mMaxFrames) /\ p * w \in Int
  BY <1>0, <1>1, TurnsFacts
<1> QED
  BY <1>2, <1>3 DEF Plus

(***************************************************************************)
(* The distance from a position to a slot is that of the sums, in turns of *)
(* the ring.                                                               *)
(***************************************************************************)
LEMMA SlotDistance ==
  ASSUME NEW a \in Position, NEW i \in Int, NEW j \in Int
  PROVE  /\ Plus(a, i) % mMaxFrames \in Slot
         /\ ((Plus(a, i) % mMaxFrames) - Plus(a, j)) % mMaxFrames = (i - j) % mMaxFrames
<1>0. mMaxFrames \in Nat \ {0} /\ a \in Int /\ Plus(a, i) \in Int /\ Plus(a, j) \in Int
  BY SizeAssumption, PositionFacts DEF Position
<1>1. PICK p \in Int : Plus(a, i) = (a + i) + Turns(p, mMaxFrames)
  BY PlusReduced
<1>2. PICK q \in Int : Plus(a, j) = (a + j) + Turns(q, mMaxFrames)
  BY PlusReduced
<1>3. PICK t \in Int : Plus(a, i) % mMaxFrames = Plus(a, i) + Turns(t, mMaxFrames)
  BY <1>0, ReducedBy
<1> DEFINE u == (p + t) - q
<1>4. /\ u \in Int
      /\ Turns(u, mMaxFrames)
           = (Turns(p, mMaxFrames) + Turns(t, mMaxFrames)) - Turns(q, mMaxFrames)
      /\ Turns(p, mMaxFrames) \in Int /\ Turns(t, mMaxFrames) \in Int
      /\ Turns(q, mMaxFrames) \in Int
  <2>1. p + t \in Int /\ u \in Int /\ mMaxFrames \in Int
    BY <1>0
  <2>2. Turns(p + t, mMaxFrames) = Turns(p, mMaxFrames) + Turns(t, mMaxFrames)
    BY <2>1 DEF Turns
  <2>3. Turns(u, mMaxFrames) = Turns(p + t, mMaxFrames) - Turns(q, mMaxFrames)
    BY <2>1, TurnsFacts, Zenon
  <2>4. /\ Turns(p, mMaxFrames) \in Int /\ Turns(t, mMaxFrames) \in Int
        /\ Turns(q, mMaxFrames) \in Int
    BY <2>1, TurnsFacts, Zenon
  <2> QED
    BY <2>1, <2>2, <2>3, <2>4
<1> HIDE DEF u
<1>5. (Plus(a, i) % mMaxFrames) - Plus(a, j) = (i - j) + Turns(u, mMaxFrames)
  BY <1>0, <1>1, <1>2, <1>3, <1>4
<1>6. ((i - j) + Turns(u, mMaxFrames)) % mMaxFrames = (i - j) % mMaxFrames
  <2>1. i - j \in Int
    OBVIOUS
  <2> QED
    BY <1>0, <1>4, <2>1, TurnsLost, Zenon
<1>7. Plus(a, i) % mMaxFrames \in Slot
  BY <1>0, Reduced DEF Slot
<1> QED
  BY <1>5, <1>6, <1>7

LEMMA PlusPlus ==
  ASSUME NEW a \in Position, NEW i \in Int, NEW j \in Int
  PROVE  Plus(Plus(a, i), j) = Plus(a, i + j)
<1>0. Modulus \in Nat \ {0} /\ a \in Int /\ a + i \in Int /\ a + (i + j) \in Int
  BY SizeAssumption DEF Position
<1>1. PICK q \in Int : (a + i) % Modulus = (a + i) + Turns(q, Modulus)
  BY <1>0, ReducedBy
<1>2. Turns(q, Modulus) \in Int
  BY <1>0, TurnsFacts
<1>3. ((a + i) % Modulus) + j = (a + (i + j)) + Turns(q, Modulus)
  BY <1>0, <1>1, <1>2
<1>4. ((a + (i + j)) + Turns(q, Modulus)) % Modulus = (a + (i + j)) % Modulus
  BY <1>0, TurnsLost
<1> QED
  BY <1>3, <1>4 DEF Plus

(***************************************************************************)
(* From one position to another, and what moving either does to the        *)
(* distance.                                                               *)
(***************************************************************************)
LEMMA Small == ASSUME NEW x \in Position PROVE x % Modulus = x
  BY SizeAssumption DEF Position

LEMMA PlusMinus ==
  ASSUME NEW a \in Position, NEW b \in Position
  PROVE  Plus(a, Minus(b, a)) = b
<1>0. Modulus \in Nat \ {0} /\ a \in Int /\ b \in Int /\ b - a \in Int
  BY SizeAssumption DEF Position
<1>1. PICK q \in Int : (b - a) % Modulus = (b - a) + Turns(q, Modulus)
  BY <1>0, ReducedBy
<1>2. Turns(q, Modulus) \in Int
  BY <1>0, TurnsFacts
<1>3. a + ((b - a) % Modulus) = b + Turns(q, Modulus)
  BY <1>0, <1>1, <1>2
<1>4. (b + Turns(q, Modulus)) % Modulus = b % Modulus
  BY <1>0, TurnsLost
<1> QED
  BY <1>3, <1>4, Small DEF Plus, Minus

LEMMA RearMoved ==
  ASSUME NEW a \in Position, NEW b \in Position, NEW n \in Int, Minus(b, a) + n \in Position
  PROVE  Minus(Plus(b, n), a) = Minus(b, a) + n
<1>0. /\ Modulus \in Nat \ {0} /\ a \in Int /\ b \in Int /\ b - a \in Int /\ b + n \in Int
      /\ Minus(b, a) + n \in Int
  BY SizeAssumption DEF Position
<1>1. PICK p \in Int : (b - a) % Modulus = (b - a) + Turns(p, Modulus)
  BY <1>0, ReducedBy
<1>2. PICK q \in Int : (b + n) % Modulus = (b + n) + Turns(q, Modulus)
  BY <1>0, ReducedBy
<1>3. /\ Turns(p, Modulus) \in Int /\ Turns(q, Modulus) \in Int
      /\ Turns(q - p, Modulus) = Turns(q, Modulus) - Turns(p, Modulus) /\ q - p \in Int
  <2>1. Modulus \in Int /\ q - p \in Int
    BY <1>0
  <2> QED
    BY <2>1, TurnsFacts, Zenon
<1>4. Plus(b, n) - a = (Minus(b, a) + n) + Turns(q - p, Modulus)
  <2>1. Minus(b, a) = (b - a) + Turns(p, Modulus)
    BY <1>1 DEF Minus
  <2>2. Plus(b, n) = (b + n) + Turns(q, Modulus)
    BY <1>2 DEF Plus
  <2> QED
    BY <1>0, <1>3, <2>1, <2>2
<1>5. ((Minus(b, a) + n) + Turns(q - p, Modulus)) % Modulus = (Minus(b, a) + n) % Modulus
  BY <1>0, <1>3, TurnsLost
<1>6. Minus(Plus(b, n), a) = (Plus(b, n) - a) % Modulus
  BY DEF Minus
<1> QED
  BY <1>4, <1>5, <1>6, Small

LEMMA FrontMoved ==
  ASSUME NEW a \in Position, NEW b \in Position, NEW n \in Int, Minus(b, a) - n \in Position
  PROVE  Minus(b, Plus(a, n)) = Minus(b, a) - n
<1>0. /\ Modulus \in Nat \ {0} /\ a \in Int /\ b \in Int /\ b - a \in Int /\ a + n \in Int
      /\ Minus(b, a) - n \in Int
  BY SizeAssumption DEF Position
<1>1. PICK p \in Int : (b - a) % Modulus = (b - a) + Turns(p, Modulus)
  BY <1>0, ReducedBy
<1>2. PICK q \in Int : (a + n) % Modulus = (a + n) + Turns(q, Modulus)
  BY <1>0, ReducedBy
<1> DEFINE u == (0 - p) - q
<1>3. /\ Turns(p, Modulus) \in Int /\ Turns(q, Modulus) \in Int /\ u \in Int
      /\ Turns(u, Modulus) = 0 - Turns(p, Modulus) - Turns(q, Modulus)
  BY <1>0 DEF Turns
<1> HIDE DEF u
<1>4. b - Plus(a, n) = (Minus(b, a) - n) + Turns(u, Modulus)
  <2>1. Minus(b, a) = (b - a) + Turns(p, Modulus)
    BY <1>1 DEF Minus
  <2>2. Plus(a, n) = (a + n) + Turns(q, Modulus)
    BY <1>2 DEF Plus
  <2> QED
    BY <1>0, <1>3, <2>1, <2>2
<1>5. ((Minus(b, a) - n) + Turns(u, Modulus)) % Modulus = (Minus(b, a) - n) % Modulus
  BY <1>0, <1>3, TurnsLost
<1>6. Minus(b, Plus(a, n)) = (b - Plus(a, n)) % Modulus
  BY DEF Minus
<1> QED
  BY <1>4, <1>5, <1>6, Small
-----------------------------------------------------------------------------
(* The frames in the ring *)

LEMMA FilledFacts ==
  ASSUME TypeOK
  PROVE  /\ mMaxFrames \in Nat \ {0} /\ mMaxFrames < Modulus /\ Modulus \in Nat
         /\ mFront \in Position /\ mRear \in Position
         /\ Filled \in Position /\ Filled \in Nat
         /\ Plus(mFront, Filled) = mRear
<1>1. mFront \in Position /\ mRear \in Position
  BY DEF TypeOK
<1>2. mFront \in Int
  BY <1>1, SizeAssumption DEF Position
<1>3. Filled \in Position
  BY <1>1, <1>2, PositionFacts DEF Filled
<1>4. Plus(mFront, Filled) = mRear
  BY <1>1, PlusMinus DEF Filled
<1> QED
  BY <1>1, <1>3, <1>4, SizeAssumption DEF Position

LEMMA InitPipe == ASSUME Init PROVE PipeInv
<1>1. TypeOK /\ mRear = mFront /\ wpc = "idle" /\ rpc = "idle"
  BY InitType DEF Init
<1>2. Filled = 0
  BY <1>1, SizeAssumption DEF Filled, Minus, TypeOK, Position
<1>3. PipeIsIntact
  BY <1>2, SizeAssumption DEF PipeIsIntact, Holds
<1> QED
  BY <1>1, <1>3 DEF PipeInv, WriteFits, ReadIsFilled

(***************************************************************************)
(* A step that moves no position, copies no frame, and lets neither thread *)
(* decide how much it takes.                                               *)
(***************************************************************************)
LEMMA QuietPipe ==
  ASSUME PipeInv, UNCHANGED <<mFront, mRear, mBuffer>>,
         wpc' \in {"copy", "publish"} => wpc' = wpc /\ written' = written,
         rpc' \in {"begin", "front"} => rpc \in {"begin", "front"} /\ red' = red
  PROVE  PipeInv'
<1>1. Filled' = Filled
  BY DEF Filled
<1>2. PipeIsIntact'
  BY <1>1 DEF PipeInv, PipeIsIntact, Holds
<1>3. WriteFits'
  BY <1>1 DEF PipeInv, WriteFits, Holds
<1>4. ReadIsFilled'
  BY <1>1 DEF PipeInv, ReadIsFilled
<1> QED
  BY <1>2, <1>3, <1>4 DEF PipeInv

(***************************************************************************)
(* The writer decides how much it writes: the reader can only make more    *)
(* room.                                                                   *)
(***************************************************************************)
LEMMA AvailablePipe == ASSUME TypeOK, PipeInv, AvailableToWrite PROVE PipeInv'
<1>1. UNCHANGED <<mFront, mRear, mBuffer, rpc, red>>
  BY DEF AvailableToWrite, pipeVars, readerVars
<1>2. CASE wpc' \in {"idle", "sleep"}
  BY <1>1, <1>2, QuietPipe
<1>3. CASE wpc' = "copy" /\ written' = Least(availableToWrite, count)
  <2>1. Filled' = Filled
    BY <1>1 DEF Filled
  <2>2. count \in Int
    BY CallAssumption DEF TypeOK
  <2>3. availableToWrite = mMaxFrames - Filled
    BY DEF availableToWrite, Filled
  <2>4. written' <= mMaxFrames - Filled
    BY <1>3, <2>2, <2>3, FilledFacts DEF Least
  <2>5. WriteFits'
    BY <1>3, <2>1, <2>4 DEF WriteFits
  <2>6. PipeIsIntact' /\ ReadIsFilled'
    BY <1>1, <2>1 DEF PipeInv, PipeIsIntact, Holds, ReadIsFilled
  <2> QED
    BY <2>5, <2>6 DEF PipeInv
<1> QED
  BY <1>2, <1>3 DEF AvailableToWrite, Transferred, Return

(***************************************************************************)
(* The copy fills the slots after mRear, and none of those that hold the   *)
(* frames between mFront and mRear.                                        *)
(***************************************************************************)
LEMMA CopyPipe == ASSUME TypeOK, PipeInv, Copy PROVE PipeInv'
<1>0. written \in Nat
  BY CallAssumption DEF TypeOK
<1>1. UNCHANGED <<mFront, mRear, written, rpc, red>> /\ wpc = "copy" /\ wpc' = "publish"
  BY DEF Copy, readerVars
<1>2. Filled' = Filled
  BY <1>1 DEF Filled
<1>3. written <= mMaxFrames - Filled /\ Filled <= mMaxFrames
  BY <1>1 DEF PipeInv, WriteFits, PipeIsIntact
<1>4. \A s \in Slot :
        mBuffer'[s] = IF (s - mRear) % mMaxFrames < written
                      THEN Plus(mRear, (s - mRear) % mMaxFrames) ELSE mBuffer[s]
  BY DEF Copy
<1>5. ASSUME NEW k \in 0 .. written - 1
      PROVE  mBuffer'[Plus(mRear, k) % mMaxFrames] = Plus(mRear, k)
  <2>1. k \in Int /\ k \in 0 .. mMaxFrames - 1 /\ k < written
    BY <1>0, <1>3, FilledFacts
  <2>2. Plus(mRear, 0) = mRear
    BY FilledFacts, Small DEF Plus, Position
  <2>3. /\ Plus(mRear, k) % mMaxFrames \in Slot
        /\ ((Plus(mRear, k) % mMaxFrames) - Plus(mRear, 0)) % mMaxFrames = (k - 0) % mMaxFrames
    BY <2>1, FilledFacts, SlotDistance
  <2>4. (k - 0) % mMaxFrames = k
    BY <2>1, FilledFacts
  <2> DEFINE s == Plus(mRear, k) % mMaxFrames
  <2>5. s \in Slot /\ (s - mRear) % mMaxFrames = k
    BY <2>2, <2>3, <2>4
  <2> HIDE DEF s
  <2>6. mBuffer'[s] = Plus(mRear, k)
    BY <1>4, <2>1, <2>5
  <2> QED
    BY <2>6 DEF s
<1>6. ASSUME NEW k \in 0 .. Filled - 1
      PROVE  mBuffer'[Plus(mFront, k) % mMaxFrames] = Plus(mFront, k)
  <2>1. /\ k \in Int /\ Filled \in Int
        /\ 0 - mMaxFrames <= k - Filled /\ k - Filled < 0
    BY <1>3, FilledFacts
  <2>2. /\ Plus(mFront, k) % mMaxFrames \in Slot
        /\ ((Plus(mFront, k) % mMaxFrames) - Plus(mFront, Filled)) % mMaxFrames
             = (k - Filled) % mMaxFrames
    BY <2>1, FilledFacts, SlotDistance
  <2>3. (k - Filled) % mMaxFrames = (k - Filled) + mMaxFrames
    <3> DEFINE x == k - Filled
    <3>1. x \in Int /\ 0 - mMaxFrames <= x /\ x < 0 /\ mMaxFrames \in Nat \ {0}
      BY <2>1, FilledFacts
    <3> HIDE DEF x
    <3>2. x + mMaxFrames \in 0 .. mMaxFrames - 1
      BY <3>1
    <3>3. ((0 - 1) * mMaxFrames + (x + mMaxFrames)) % mMaxFrames = x + mMaxFrames
      BY <3>1, <3>2, Remainder
    <3>4. (0 - 1) * mMaxFrames + (x + mMaxFrames) = x
      BY <3>1
    <3>5. x % mMaxFrames = x + mMaxFrames
      BY <3>3, <3>4
    <3> QED
      BY <3>5 DEF x
  <2>4. ~((k - Filled) + mMaxFrames < written)
    BY <1>0, <1>3, <2>1, FilledFacts
  <2> DEFINE s == Plus(mFront, k) % mMaxFrames
  <2>5. s \in Slot /\ (s - mRear) % mMaxFrames = (k - Filled) + mMaxFrames
    BY <2>2, <2>3, FilledFacts
  <2>6. mBuffer[s] = Plus(mFront, k)
    BY DEF PipeInv, PipeIsIntact, Holds
  <2> HIDE DEF s
  <2>7. mBuffer'[s] = Plus(mFront, k)
    BY <1>4, <2>4, <2>5, <2>6
  <2> QED
    BY <2>7 DEF s
<1>7. PipeIsIntact'
  BY <1>1, <1>2, <1>3, <1>6 DEF PipeIsIntact, Holds, Plus
<1>8. WriteFits'
  BY <1>1, <1>2, <1>3, <1>5 DEF WriteFits, Holds, Plus
<1>9. ReadIsFilled'
  BY <1>1, <1>2 DEF PipeInv, ReadIsFilled
<1> QED
  BY <1>7, <1>8, <1>9 DEF PipeInv

(***************************************************************************)
(* The store of mRear adds the frames that were copied.                    *)
(***************************************************************************)
LEMMA PublishPipe == ASSUME TypeOK, PipeInv, Publish PROVE PipeInv'
<1>0. written \in Nat
  BY CallAssumption DEF TypeOK
<1>1. UNCHANGED <<mFront, mBuffer, rpc, red>> /\ wpc = "publish" /\ wpc' \in {"idle", "sleep"}
  BY DEF Publish, Transferred, Return, readerVars
<1>2. mRear' = Plus(mRear, written)
  BY DEF Publish
<1>3. written <= mMaxFrames - Filled /\ Filled <= mMaxFrames
  BY <1>1 DEF PipeInv, WriteFits, PipeIsIntact
<1>4. Filled + written <= mMaxFrames /\ Filled + written \in Position
  BY <1>0, <1>3, FilledFacts DEF Position
<1>5. Filled' = Filled + written
  <2>1. Minus(Plus(mRear, written), mFront) = Minus(mRear, mFront) + written
    BY <1>0, <1>4, FilledFacts, RearMoved DEF Filled
  <2> QED
    BY <1>1, <1>2, <2>1 DEF Filled, Minus
<1>6. ASSUME NEW k \in 0 .. (Filled + written) - 1
      PROVE  mBuffer[Plus(mFront, k) % mMaxFrames] = Plus(mFront, k)
  <2>1. CASE k < Filled
    <3>1. k \in 0 .. Filled - 1
      BY <1>0, <2>1, FilledFacts
    <3> QED
      BY <3>1 DEF PipeInv, PipeIsIntact, Holds
  <2>2. CASE ~(k < Filled)
    <3> DEFINE j == k - Filled
    <3>1. j \in 0 .. written - 1 /\ Filled + j = k /\ Filled \in Int /\ j \in Int
      BY <1>0, <2>2, FilledFacts
    <3> HIDE DEF j
    <3>2. Plus(mRear, j) = Plus(mFront, k)
      <4>1. mFront \in Position /\ Plus(mFront, Filled) = mRear
        BY FilledFacts
      <4>2. Plus(Plus(mFront, Filled), j) = Plus(mFront, Filled + j)
        BY <3>1, <4>1, PlusPlus
      <4> QED
        BY <3>1, <4>1, <4>2
    <3>3. mBuffer[Plus(mRear, j) % mMaxFrames] = Plus(mRear, j)
      BY <1>1, <3>1 DEF PipeInv, WriteFits, Holds
    <3> QED
      BY <3>2, <3>3
  <2> QED
    BY <2>1, <2>2
<1>7. PipeIsIntact'
  BY <1>1, <1>4, <1>5, <1>6 DEF PipeIsIntact, Holds, Plus
<1>8. WriteFits'
  BY <1>1 DEF WriteFits
<1>9. ReadIsFilled'
  <2>1. red \in Int
    BY CallAssumption DEF TypeOK
  <2> QED
    BY <1>0, <1>1, <1>5, <2>1, FilledFacts DEF PipeInv, ReadIsFilled
<1> QED
  BY <1>7, <1>8, <1>9 DEF PipeInv

(***************************************************************************)
(* The reader decides how much it reads: the writer can only add to it.    *)
(***************************************************************************)
LEMMA ReadPipe ==
  ASSUME TypeOK, PipeInv, NEW n \in 1 .. MaxCount, NEW pts \in PTS, Read(n, pts)
  PROVE  PipeInv'
<1>1. UNCHANGED <<mFront, mRear, mBuffer, wpc, written>> /\ red' = Least(Filled, n)
  BY DEF Read, Filled, pipeVars
<1>2. Filled' = Filled
  BY <1>1 DEF Filled
<1>3. red' <= Filled
  BY <1>1, CallAssumption, FilledFacts DEF Least
<1>4. PipeIsIntact' /\ WriteFits'
  BY <1>1, <1>2 DEF PipeInv, PipeIsIntact, WriteFits, Holds
<1>5. ReadIsFilled'
  BY <1>2, <1>3 DEF ReadIsFilled
<1> QED
  BY <1>4, <1>5 DEF PipeInv

(***************************************************************************)
(* The store of mFront gives back the frames that were read.               *)
(***************************************************************************)
LEMMA StoreFrontPipe == ASSUME TypeOK, PipeInv, StoreFront PROVE PipeInv'
<1>0. red \in Nat
  BY CallAssumption DEF TypeOK
<1>1. /\ UNCHANGED <<mRear, mBuffer, wpc, written>>
      /\ rpc = "front" /\ rpc' = "pts" /\ mFront' = Plus(mFront, red)
  BY DEF StoreFront
<1>2. red <= Filled /\ Filled - red \in Position /\ Filled - red <= Filled
  BY <1>0, <1>1, FilledFacts DEF PipeInv, ReadIsFilled, Position
<1>3. Filled' = Filled - red
  <2>1. Minus(mRear, Plus(mFront, red)) = Minus(mRear, mFront) - red
    BY <1>0, <1>2, FilledFacts, FrontMoved DEF Filled
  <2> QED
    BY <1>1, <2>1 DEF Filled, Minus
<1>4. ASSUME NEW k \in 0 .. (Filled - red) - 1
      PROVE  mBuffer[Plus(Plus(mFront, red), k) % mMaxFrames] = Plus(Plus(mFront, red), k)
  <2>1. red + k \in 0 .. Filled - 1 /\ k \in Int /\ red \in Int
    BY <1>0, <1>2, FilledFacts
  <2>2. Plus(Plus(mFront, red), k) = Plus(mFront, red + k)
    BY <2>1, FilledFacts, PlusPlus
  <2>3. mBuffer[Plus(mFront, red + k) % mMaxFrames] = Plus(mFront, red + k)
    BY <2>1 DEF PipeInv, PipeIsIntact, Holds
  <2> QED
    BY <2>2, <2>3
<1>5. PipeIsIntact'
  <2>1. Filled' <= mMaxFrames
    BY <1>2, <1>3, FilledFacts DEF PipeInv, PipeIsIntact
  <2> QED
    BY <1>1, <1>3, <1>4, <2>1 DEF PipeIsIntact, Holds, Plus
<1>6. WriteFits'
  <2>1. written \in Int
    BY CallAssumption DEF TypeOK
  <2>2. wpc' \in {"copy", "publish"} => written' <= mMaxFrames - Filled'
    BY <1>0, <1>1, <1>3, <2>1, FilledFacts DEF PipeInv, WriteFits
  <2> QED
    BY <1>1, <2>2 DEF PipeInv, WriteFits, Holds
<1>7. ReadIsFilled'
  BY <1>1 DEF ReadIsFilled
<1> QED
  BY <1>5, <1>6, <1>7 DEF PipeInv

LEMMA NextPipe == ASSUME TypeOK, PipeInv, [Next]_vars PROVE PipeInv'
<1>1. CASE \/ \E n \in 1 .. MaxCount : Write(n)
           \/ Sleep \/ GetNextWriteTimestamp \/ LoadSeqOne \/ LoadFront \/ LoadNextRdPTS
           \/ LoadSeqTwo
  <2>1. UNCHANGED <<mFront, mRear, mBuffer, rpc, red>> /\ wpc' \notin {"copy", "publish"}
    BY <1>1 DEF Write, Sleep, Return, GetNextWriteTimestamp, LoadSeqOne, LoadFront,
                LoadNextRdPTS, LoadSeqTwo, pipeVars, readerVars
  <2> QED
    BY <2>1, QuietPipe
<1>2. CASE BeginUpdate \/ StoreNextRdPTS \/ EndUpdate
  <2>1. /\ UNCHANGED <<mFront, mRear, mBuffer, wpc, written, red>>
        /\ rpc' \in {"begin", "front"} => rpc = "begin"
    BY <1>2 DEF BeginUpdate, StoreNextRdPTS, EndUpdate, observerVars
  <2> QED
    BY <2>1, QuietPipe
<1>3. CASE (\E newState \in BOOLEAN : Shutdown(newState)) \/ UNCHANGED vars
  <2>1. UNCHANGED <<mFront, mRear, mBuffer, wpc, written, rpc, red>>
    BY <1>3 DEF Shutdown, vars, pipeVars, observerVars, readerVars
  <2> QED
    BY <2>1, QuietPipe
<1>4. CASE AvailableToWrite \/ Copy \/ Publish
  BY <1>4, AvailablePipe, CopyPipe, PublishPipe
<1>5. CASE (\E n \in 1 .. MaxCount, pts \in PTS : Read(n, pts)) \/ StoreFront
  BY <1>5, ReadPipe, StoreFrontPipe
<1> QED
  BY <1>1, <1>2, <1>3, <1>4, <1>5 DEF Next, Writer, Reader

(***************************************************************************)
(* For every size of the pipe that divides Modulus: the writer overwrites  *)
(* no frame between mFront and mRear, and the reader finds there what was  *)
(* written, in order.                                                      *)
(***************************************************************************)
THEOREM Integrity == Spec => []PipeIsIntact
<1>1. Init => PipeInv
  BY InitPipe
<1>2. TypeOK /\ PipeInv /\ [Next]_vars => PipeInv'
  BY NextPipe
<1>3. PipeInv => PipeIsIntact
  BY DEF PipeInv
<1> QED
  BY <1>1, <1>2, <1>3, TypeCorrect, PTL DEF Spec
-----------------------------------------------------------------------------
(* The abstract specification *)

\* The frames of n positions from p on.
Run(p, n) == [i \in 1 .. n |-> Plus(p, i - 1)]

LEMMA RunFacts ==
  ASSUME NEW p \in Position, NEW n \in Nat
  PROVE  /\ Run(p, n) \in Seq(Position) /\ Len(Run(p, n)) = n
         /\ \A i \in 1 .. n : Run(p, n)[i] = Plus(p, i - 1)
<1>1. ASSUME NEW i \in 1 .. n PROVE Plus(p, i - 1) \in Position
  BY PositionFacts
<1>2. Run(p, n) \in [1 .. n -> Position]
  BY <1>1 DEF Run
<1> QED
  BY <1>2 DEF Run

(***************************************************************************)
(* More frames enter behind those that wait.                               *)
(***************************************************************************)
LEMMA RunEnters ==
  ASSUME NEW p \in Position, NEW m \in Nat, NEW n \in Nat
  PROVE  Fifo!IsPrefix(Run(p, m), Run(p, m + n)) /\ Len(Run(p, m + n)) = m + n
<1> DEFINE s == Run(p, m)
           t == Run(p, m + n)
<1>1. /\ s \in Seq(Position) /\ Len(s) = m /\ (\A i \in 1 .. m : s[i] = Plus(p, i - 1))
      /\ t \in Seq(Position) /\ Len(t) = m + n /\ (\A i \in 1 .. m + n : t[i] = Plus(p, i - 1))
  BY RunFacts
<1> HIDE DEF s, t
<1>2. \A i \in 1 .. m : s[i] = t[i]
  BY <1>1
<1>3. SubSeq(s, 1, m) = [i \in 1 .. m |-> s[i]] /\ SubSeq(t, 1, m) = [i \in 1 .. m |-> t[i]]
  BY <1>1
<1>4. Fifo!IsPrefix(s, t)
  BY <1>1, <1>2, <1>3 DEF Fifo!IsPrefix
<1> QED
  BY <1>1, <1>4 DEF s, t

(***************************************************************************)
(* The oldest frames leave.                                                *)
(***************************************************************************)
LEMMA RunLeaves ==
  ASSUME NEW p \in Position, NEW m \in Nat, NEW n \in 0 .. m
  PROVE  Fifo!IsSuffix(Run(Plus(p, n), m - n), Run(p, m))
<1> DEFINE q == Plus(p, n)
           k == m - n
           s == Run(q, k)
           t == Run(p, m)
<1>1. n \in Nat /\ k \in Nat /\ k <= m /\ k + n = m
  OBVIOUS
<1>2. q \in Position
  BY <1>1, PositionFacts
<1>3. /\ s \in Seq(Position) /\ Len(s) = k /\ (\A i \in 1 .. k : s[i] = Plus(q, i - 1))
      /\ t \in Seq(Position) /\ Len(t) = m /\ (\A i \in 1 .. m : t[i] = Plus(p, i - 1))
  BY <1>1, <1>2, RunFacts
<1> HIDE DEF k, s, t
<1>4. ASSUME NEW i \in 1 .. k PROVE s[(k - i) + 1] = t[(m - i) + 1]
  <2>1. /\ (k - i) + 1 \in 1 .. k /\ (m - i) + 1 \in 1 .. m
        /\ ((k - i) + 1) - 1 = k - i /\ ((m - i) + 1) - 1 = n + (k - i)
        /\ k - i \in Int /\ n \in Int
    BY <1>1
  <2>2. s[(k - i) + 1] = Plus(q, k - i) /\ t[(m - i) + 1] = Plus(p, n + (k - i))
    BY <1>3, <2>1
  <2>3. Plus(Plus(p, n), k - i) = Plus(p, n + (k - i))
    BY <2>1, PlusPlus
  <2> QED
    BY <2>2, <2>3
<1> HIDE DEF q
<1> DEFINE rs == [i \in 1 .. k |-> s[(k - i) + 1]]
           rt == [i \in 1 .. m |-> t[(m - i) + 1]]
<1>5. Fifo!Reverse(s) = rs /\ Fifo!Reverse(t) = rt
  BY <1>3 DEF Fifo!Reverse
<1>6. rs \in Seq(Position) /\ Len(rs) = k /\ rt \in Seq(Position) /\ Len(rt) = m
  <2>1. ASSUME NEW i \in 1 .. k PROVE s[(k - i) + 1] \in Position
    <3>1. (k - i) + 1 \in 1 .. k
      BY <1>1
    <3> QED
      BY <1>3, <3>1
  <2>2. ASSUME NEW i \in 1 .. m PROVE t[(m - i) + 1] \in Position
    <3>1. (m - i) + 1 \in 1 .. m
      OBVIOUS
    <3> QED
      BY <1>3, <3>1
  <2>3. rs \in [1 .. k -> Position] /\ rt \in [1 .. m -> Position]
    BY <2>1, <2>2
  <2> HIDE DEF rs, rt
  <2> QED
    BY <1>1, <2>3
<1>7. ASSUME NEW i \in 1 .. k PROVE rs[i] = rt[i]
  BY <1>1, <1>4
<1> HIDE DEF rs, rt
<1>8. SubSeq(rs, 1, k) = [i \in 1 .. k |-> rs[i]] /\ SubSeq(rt, 1, k) = [i \in 1 .. k |-> rt[i]]
  BY <1>1, <1>6
<1>9. [i \in 1 .. k |-> rs[i]] = [i \in 1 .. k |-> rt[i]]
  BY <1>7
<1>10. Fifo!IsPrefix(rs, rt)
  BY <1>1, <1>6, <1>8, <1>9 DEF Fifo!IsPrefix
<1> QED
  BY <1>5, <1>10 DEF Fifo!IsSuffix, s, t, q, k

(***************************************************************************)
(* The frames in an intact pipe are the run of its positions.              *)
(***************************************************************************)
LEMMA StoredRun ==
  ASSUME NEW buffer, NEW p, NEW n \in Nat,
         \A k \in 0 .. n - 1 : buffer[Plus(p, k) % mMaxFrames] = Plus(p, k)
  PROVE  [i \in 1 .. n |-> buffer[Plus(p, i - 1) % mMaxFrames]] = Run(p, n)
<1>1. ASSUME NEW i \in 1 .. n
      PROVE  buffer[Plus(p, i - 1) % mMaxFrames] = Plus(p, i - 1)
  <2>1. i - 1 \in 0 .. n - 1
    OBVIOUS
  <2> QED
    BY <2>1
<1> QED
  BY <1>1 DEF Run

(***************************************************************************)
(* Only the stores of the two positions move them, and only by what their  *)
(* threads have copied.                                                    *)
(***************************************************************************)
LEMMA PositionsMove ==
  ASSUME TypeOK, PipeInv, Next
  PROVE  \/ UNCHANGED <<mFront, mRear>>
         \/ mFront' = mFront /\ (\E n \in Nat : mRear' = Plus(mRear, n) /\ Filled + n <= mMaxFrames)
         \/ mRear' = mRear /\ \E n \in 0 .. Filled : mFront' = Plus(mFront, n)
<1>1. CASE Publish
  <2>1. written \in Nat /\ written <= mMaxFrames - Filled /\ mFront' = mFront /\ mRear' = Plus(mRear, written)
    BY <1>1, CallAssumption DEF TypeOK, PipeInv, WriteFits, Publish
  <2>2. Filled + written <= mMaxFrames
    BY <2>1, FilledFacts
  <2> QED
    BY <2>1, <2>2
<1>2. CASE StoreFront
  <2>1. red \in Nat /\ red <= Filled /\ mRear' = mRear /\ mFront' = Plus(mFront, red)
    BY <1>2, CallAssumption DEF TypeOK, PipeInv, ReadIsFilled, StoreFront
  <2>2. red \in 0 .. Filled
    BY <2>1, FilledFacts
  <2> QED
    BY <2>1, <2>2
<1>3. CASE ~Publish /\ ~StoreFront
  BY <1>3 DEF Next, Writer, Reader, Write, AvailableToWrite, Copy, Sleep, GetNextWriteTimestamp,
       LoadSeqOne, LoadFront, LoadNextRdPTS, LoadSeqTwo, Read, BeginUpdate, StoreNextRdPTS,
       EndUpdate, Shutdown, pipeVars
<1> QED
  BY <1>1, <1>2, <1>3

(***************************************************************************)
(* The pipe implements a FrameFifo, for every size that divides Modulus:   *)
(* what write() has published leaves by read() in the same order, nothing  *)
(* twice and nothing lost, and never more than mMaxFrames frames wait.     *)
(***************************************************************************)
THEOREM PipeIsAFifo == Spec => Refinement
<1>1. ASSUME Init PROVE Fifo!Init
  <2>1. TypeOK /\ PipeInv /\ Filled = 0
    <3>1. TypeOK /\ PipeInv /\ mFront \in Position /\ mRear = mFront
      BY <1>1, InitType, InitPipe DEF Init
    <3> QED
      BY <3>1, SizeAssumption DEF Filled, Minus, Position
  <2>2. Frames = <<>>
    BY <2>1 DEF Frames
  <2> QED
    BY <2>2 DEF Fifo!Init
<1>2. ASSUME TypeOK, PipeInv, TypeOK', PipeInv', Next
      PROVE  Fifo!Enter \/ Fifo!Leave \/ UNCHANGED Frames
  <2>1. Frames = Run(mFront, Filled) /\ Frames' = Run(mFront', Filled')
    <3>1. Filled \in Nat /\ Holds(mFront, Filled)
      BY <1>2, FilledFacts DEF PipeInv, PipeIsIntact
    <3>2. PICK n \in Nat : Filled' = n
      BY <1>2, PositionFacts DEF TypeOK, Filled, Position
    <3>3. \A k \in 0 .. n - 1 : mBuffer'[Plus(mFront', k) % mMaxFrames] = Plus(mFront', k)
      BY <1>2, <3>2 DEF PipeInv, PipeIsIntact, Holds
    <3>4. Frames = Run(mFront, Filled)
      BY <3>1, StoredRun DEF Frames, Holds
    <3>5. [i \in 1 .. n |-> mBuffer'[Plus(mFront', i - 1) % mMaxFrames]] = Run(mFront', n)
      BY <3>3, StoredRun
    <3>6. Frames' = Run(mFront', n)
      BY <3>2, <3>5 DEF Frames, Plus
    <3> QED
      BY <3>2, <3>4, <3>6
  <2>2. /\ mFront \in Position /\ mRear \in Position /\ Filled \in Nat /\ Filled <= mMaxFrames
        /\ mMaxFrames \in Nat /\ mMaxFrames < Modulus /\ Modulus \in Nat
    BY <1>2, FilledFacts DEF PipeInv, PipeIsIntact
  <2>3. CASE UNCHANGED <<mFront, mRear>>
    BY <2>1, <2>3 DEF Filled, Minus, Run, Plus
  <2>4. ASSUME NEW n \in Nat, mFront' = mFront, mRear' = Plus(mRear, n), Filled + n <= mMaxFrames
        PROVE  Fifo!Enter
    <3>1. Filled + n \in Position
      BY <2>2, <2>4 DEF Position
    <3>2. Filled' = Filled + n
      BY <2>2, <2>4, <3>1, RearMoved DEF Filled, Minus
    <3>3. Frames' = Run(mFront, Filled + n)
      BY <2>1, <2>4, <3>2 DEF Run, Plus
    <3>4. Fifo!IsPrefix(Run(mFront, Filled), Run(mFront, Filled + n)) /\ Len(Run(mFront, Filled + n)) = Filled + n
      BY <2>2, RunEnters
    <3> QED
      BY <2>1, <2>4, <3>3, <3>4 DEF Fifo!Enter
  <2>5. ASSUME NEW n \in 0 .. Filled, mRear' = mRear, mFront' = Plus(mFront, n)
        PROVE  Fifo!Leave
    <3>1. Filled - n \in Position /\ n \in Int
      BY <2>2 DEF Position
    <3>2. Filled' = Filled - n
      BY <2>2, <2>5, <3>1, FrontMoved DEF Filled, Minus
    <3>3. Frames' = Run(Plus(mFront, n), Filled - n)
      BY <2>1, <2>5, <3>2 DEF Run, Plus
    <3>4. Fifo!IsSuffix(Run(Plus(mFront, n), Filled - n), Run(mFront, Filled))
      BY <2>2, RunLeaves
    <3> QED
      BY <2>1, <3>3, <3>4 DEF Fifo!Leave
  <2> QED
    BY <1>2, <2>3, <2>4, <2>5, PositionsMove
<1>3. ASSUME TypeOK, PipeInv, TypeOK', [Next]_vars
      PROVE  [Fifo!Enter \/ Fifo!Leave]_Frames
  <2>1. CASE UNCHANGED vars
    BY <2>1 DEF vars, pipeVars, Frames, Filled, Minus, Plus
  <2>2. CASE Next
    BY <1>2, <1>3, <2>2, NextPipe
  <2> QED
    BY <1>3, <2>1, <2>2
<1>4. Init => PipeInv
  BY InitPipe
<1>5. TypeOK /\ PipeInv /\ [Next]_vars => PipeInv'
  BY NextPipe
<1> QED
  BY <1>1, <1>3, <1>4, <1>5, TypeCorrect, PTL DEF Spec, Refinement, Fifo!Spec
=============================================================================
