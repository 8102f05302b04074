------------------------------ MODULE MonoPipe ------------------------------
(***************************************************************************)
(* The pipe between the normal mixer, which writes, and the fast mixer,    *)
(* which reads (media/libnbaio/MonoPipe.cpp and MonoPipeReader.cpp): a     *)
(* ring of frames without a lock, and a pair of variables, mFront and      *)
(* mNextRdPTS, that the writer's thread reads together under a sequence    *)
(* number.                                                                 *)
(*                                                                         *)
(* One action is one access to shared memory.  The throttling of a write   *)
(* that blocks is left out: it sleeps, and looks again.                    *)
(***************************************************************************)
EXTENDS Integers

CONSTANTS
  mMaxFrames,    \* of the pipe, a power of 2
  Modulus,       \* of the positions (2^32)
  SeqModulus,    \* of the sequence number, without its most significant bit (2^31);
                 \* bound: fewer updates than that while one observation lasts
  mWriteCanBlock,
  PTS,           \* the timestamps
  MaxCount       \* bound on the frames of a call

ASSUME SizeAssumption ==
  /\ mMaxFrames \in Nat \ {0, 1} /\ Modulus \in Nat
  /\ Modulus % mMaxFrames = 0 /\ Modulus >= 2 * mMaxFrames
ASSUME SeqAssumption == SeqModulus \in Nat \ {0, 1}
ASSUME CallAssumption == mWriteCanBlock \in BOOLEAN /\ PTS # {} /\ MaxCount \in Nat \ {0}

Position == 0 .. Modulus - 1
Slot == 0 .. mMaxFrames - 1

VARIABLES
  mFront, mRear, mNextRdPTS, mBuffer, mIsShutdown,
  mUpdateSeq,    \* its most significant bit, and the rest
  \* the writer's thread, in write() or getNextWriteTimestamp()
  wpc, count, written, seqOne, outFront, outNextRdPTS,
  missed,        \* the updates completed since it has loaded seqOne
  \* the reader's thread, in read()
  rpc, red, nextReadPTS

pipeVars == <<mFront, mRear, mNextRdPTS, mBuffer, mIsShutdown, mUpdateSeq>>
observerVars == <<seqOne, outFront, outNextRdPTS, missed>>
readerVars == <<rpc, red, nextReadPTS>>
vars == <<pipeVars, wpc, count, written, observerVars, readerVars>>

Seq31 == [busy : BOOLEAN, number : 0 .. SeqModulus - 1]

TypeOK ==
  /\ {mFront, mRear, outFront} \subseteq Position
  /\ {mNextRdPTS, outNextRdPTS, nextReadPTS} \subseteq PTS
  /\ mBuffer \in [Slot -> Position] /\ mIsShutdown \in BOOLEAN
  /\ {mUpdateSeq, seqOne} \subseteq Seq31
  /\ wpc \in {"idle", "avail", "copy", "publish", "sleep", "seqOne", "front", "pts", "seqTwo"}
  /\ count \in 0 .. MaxCount /\ written \in 0 .. MaxCount /\ missed \in 0 .. SeqModulus - 1
  /\ rpc \in {"idle", "begin", "front", "pts", "end"} /\ red \in 0 .. MaxCount

\* int32_t and size_t arithmetic.
Plus(a, n) == (a + n) % Modulus
Minus(a, b) == (a - b) % Modulus
Least(a, b) == IF a < b THEN a ELSE b

\* The positions and the sequence number run on while the pipe lives: it has any.
Init ==
  /\ mFront \in Position /\ mRear = mFront
  /\ mNextRdPTS \in PTS /\ outNextRdPTS = mNextRdPTS /\ nextReadPTS = mNextRdPTS
  /\ mBuffer \in [Slot -> {mFront}] /\ mIsShutdown = FALSE
  /\ mUpdateSeq \in [busy : {FALSE}, number : 0 .. SeqModulus - 1]
  /\ wpc = "idle" /\ count = 0 /\ written = 0
  /\ seqOne = mUpdateSeq /\ outFront = mFront /\ missed = 0
  /\ rpc = "idle" /\ red = 0

Shutdown(newState) ==
  /\ mIsShutdown' = newState
  /\ UNCHANGED <<mFront, mRear, mNextRdPTS, mBuffer, mUpdateSeq, wpc, count, written,
                 observerVars, readerVars>>
-----------------------------------------------------------------------------
(* write() *)

Write(n) ==
  /\ wpc = "idle" /\ wpc' = "avail"
  /\ count' = n
  /\ UNCHANGED <<pipeVars, written, observerVars, readerVars>>

availableToWrite_Mutant == mMaxFrames - Minus(mRear, mFront) + 1
availableToWrite == mMaxFrames - Minus(mRear, mFront)

Return == wpc' = "idle" /\ count' = 0 /\ written' = 0
\* The look at mIsShutdown.
Transferred ==
  IF ~mWriteCanBlock \/ mIsShutdown THEN Return
  ELSE wpc' = "sleep" /\ UNCHANGED <<count, written>>

AvailableToWrite ==
  /\ wpc = "avail"
  /\ LET n == Least(availableToWrite, count)
     IN IF n > 0 THEN wpc' = "copy" /\ written' = n /\ UNCHANGED count
        ELSE Transferred
  /\ UNCHANGED <<pipeVars, observerVars, readerVars>>

Copy ==
  /\ wpc = "copy" /\ wpc' = "publish"
  /\ mBuffer' = [s \in Slot |->
                   LET n == (s - mRear) % mMaxFrames
                   IN IF n < written THEN Plus(mRear, n) ELSE mBuffer[s]]
  /\ UNCHANGED <<mFront, mRear, mNextRdPTS, mIsShutdown, mUpdateSeq, count, written, observerVars,
                 readerVars>>

\* The store of mRear.
Publish ==
  /\ wpc = "publish"
  /\ mRear' = Plus(mRear, written)
  /\ Transferred
  /\ UNCHANGED <<mFront, mNextRdPTS, mBuffer, mIsShutdown, mUpdateSeq, observerVars, readerVars>>

Sleep ==
  /\ wpc = "sleep"
  /\ IF count > written THEN wpc' = "avail" /\ count' = count - written /\ written' = 0
     ELSE Return
  /\ UNCHANGED <<pipeVars, observerVars, readerVars>>
-----------------------------------------------------------------------------
(* getNextWriteTimestamp(), by the thread that writes *)

GetNextWriteTimestamp ==
  /\ wpc = "idle" /\ wpc' = "seqOne"
  /\ UNCHANGED <<pipeVars, count, written, observerVars, readerVars>>

LoadSeqOne ==
  /\ wpc = "seqOne" /\ wpc' = "front"
  /\ seqOne' = mUpdateSeq /\ missed' = 0
  /\ UNCHANGED <<pipeVars, count, written, outFront, outNextRdPTS, readerVars>>
LoadFront ==
  /\ wpc = "front" /\ wpc' = "pts"
  /\ outFront' = mFront
  /\ UNCHANGED <<pipeVars, count, written, seqOne, outNextRdPTS, missed, readerVars>>
LoadNextRdPTS ==
  /\ wpc = "pts" /\ wpc' = "seqTwo"
  /\ outNextRdPTS' = mNextRdPTS
  /\ UNCHANGED <<pipeVars, count, written, seqOne, outFront, missed, readerVars>>

\* The two sequence numbers are the same and even: the pair is taken.
Same == seqOne = mUpdateSeq /\ ~seqOne.busy
LoadSeqTwo ==
  /\ wpc = "seqTwo"
  /\ wpc' = IF Same THEN "idle" ELSE "seqOne"
  /\ missed' = 0
  /\ UNCHANGED <<pipeVars, count, written, seqOne, outFront, outNextRdPTS, readerVars>>

\* The frames it takes for those that wait in the pipe.
pendingFrames == Minus(mRear, outFront) % mMaxFrames
-----------------------------------------------------------------------------
(* read(), whose caller tells when it will read next *)

Read(n, pts) ==
  /\ rpc = "idle" /\ rpc' = "begin"
  /\ red' = Least(Minus(mRear, mFront), n) /\ nextReadPTS' = pts
  /\ UNCHANGED <<pipeVars, wpc, count, written, observerVars>>

\* updateFrontAndNRPTS()
Observing == wpc \in {"front", "pts", "seqTwo"}
BeginUpdate_Mutant ==
  /\ rpc = "begin" /\ rpc' = "front"
  /\ Observing => missed < SeqModulus - 1
  /\ UNCHANGED <<pipeVars, wpc, count, written, observerVars, red, nextReadPTS>>
BeginUpdate ==
  /\ rpc = "begin" /\ rpc' = "front"
  /\ Observing => missed < SeqModulus - 1
  /\ mUpdateSeq' = [mUpdateSeq EXCEPT !.busy = TRUE]
  /\ UNCHANGED <<mFront, mRear, mNextRdPTS, mBuffer, mIsShutdown, wpc, count, written, observerVars,
                 red, nextReadPTS>>
StoreFront ==
  /\ rpc = "front" /\ rpc' = "pts"
  /\ mFront' = Plus(mFront, red)
  /\ UNCHANGED <<mRear, mNextRdPTS, mBuffer, mIsShutdown, mUpdateSeq, wpc, count, written,
                 observerVars, red, nextReadPTS>>
StoreNextRdPTS ==
  /\ rpc = "pts" /\ rpc' = "end"
  /\ mNextRdPTS' = nextReadPTS
  /\ UNCHANGED <<mFront, mRear, mBuffer, mIsShutdown, mUpdateSeq, wpc, count, written, observerVars,
                 red, nextReadPTS>>
EndUpdate ==
  /\ rpc = "end" /\ rpc' = "idle"
  /\ mUpdateSeq' = [busy |-> FALSE, number |-> (mUpdateSeq.number + 1) % SeqModulus]
  /\ missed' = IF Observing THEN missed + 1 ELSE missed
  /\ UNCHANGED <<mFront, mRear, mNextRdPTS, mBuffer, mIsShutdown, wpc, count, written, seqOne,
                 outFront, outNextRdPTS, red, nextReadPTS>>
-----------------------------------------------------------------------------
Writer ==
  \/ \E n \in 1 .. MaxCount : Write(n)
  \/ AvailableToWrite \/ Copy \/ Publish \/ Sleep
  \/ GetNextWriteTimestamp \/ LoadSeqOne \/ LoadFront \/ LoadNextRdPTS \/ LoadSeqTwo
Reader ==
  \/ \E n \in 1 .. MaxCount, pts \in PTS : Read(n, pts)
  \/ BeginUpdate \/ StoreFront \/ StoreNextRdPTS \/ EndUpdate
Next == Writer \/ Reader \/ \E newState \in BOOLEAN : Shutdown(newState)

Spec == Init /\ [][Next]_vars
-----------------------------------------------------------------------------
(* Properties *)

(***************************************************************************)
(* "mFront and mRear will never be separated by more than mMaxFrames", and *)
(* what lies between them is what was written there, in order: the writer  *)
(* overwrites nothing that the reader may still be copying.                *)
(***************************************************************************)
Filled == Minus(mRear, mFront)
Holds(position, n) ==
  \A k \in 0 .. n - 1 : mBuffer[Plus(position, k) % mMaxFrames] = Plus(position, k)
PipeIsIntact == Filled <= mMaxFrames /\ Holds(mFront, Filled)

(***************************************************************************)
(* The pipe is a FrameFifo: write() and read(), with no lock, hand frames  *)
(* over in the order in which they were written, none twice and none lost. *)
(***************************************************************************)
Frames == [i \in 1 .. Filled |-> mBuffer[Plus(mFront, i - 1) % mMaxFrames]]
Fifo == INSTANCE FrameFifo WITH Frame <- Position, Capacity <- mMaxFrames, frames <- Frames
Refinement == Fifo!Spec

(***************************************************************************)
(* The pair that getNextWriteTimestamp() is about to take is the one that  *)
(* the reader has published last: "perform an atomic observation of mFront *)
(* and mNextRdPTS".                                                        *)
(***************************************************************************)
TimestampIsWhole ==
  wpc = "seqTwo" /\ Same => outFront = mFront /\ outNextRdPTS = mNextRdPTS

(***************************************************************************)
(* "use the current value of the write pointer to figure out how many      *)
(* frames are in the buffer".                                              *)
(***************************************************************************)
PendingIsCounted == wpc = "seqTwo" /\ Same => pendingFrames = Filled
-----------------------------------------------------------------------------
(* Why TimestampIsWhole holds *)

\* The most significant bit is set during an update.
BusyWhenUpdating == mUpdateSeq.busy <=> rpc \in {"front", "pts", "end"}

\* The number tells the updates completed since seqOne was loaded, as long as
\* there are fewer of them than numbers.
UpdatesAreCounted ==
  Observing =>
    /\ mUpdateSeq.number = (seqOne.number + missed) % SeqModulus
    /\ mUpdateSeq.busy => missed < SeqModulus - 1

\* What has been loaded is what is there if no update was completed since, and none
\* is under way.
LoadedIsCurrent ==
  missed = 0 /\ ~mUpdateSeq.busy =>
    /\ wpc \in {"pts", "seqTwo"} => outFront = mFront
    /\ wpc = "seqTwo" => outNextRdPTS = mNextRdPTS

IInv == TypeOK /\ BusyWhenUpdating /\ UpdatesAreCounted /\ LoadedIsCurrent
-----------------------------------------------------------------------------
(* Why PipeIsIntact holds *)

\* The writer has room for what it copies, and the pipe holds it before it says so.
WriteFits ==
  /\ wpc \in {"copy", "publish"} => written <= mMaxFrames - Filled
  /\ wpc = "publish" => Holds(mRear, written)

\* The reader takes what is there.
ReadIsFilled == rpc \in {"begin", "front"} => red <= Filled

PipeInv == PipeIsIntact /\ WriteFits /\ ReadIsFilled
=============================================================================
