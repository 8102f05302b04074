-------------------------- MODULE AudioTrackShared --------------------------
(***************************************************************************)
(* The control block a streaming AudioTrack shares with AudioFlinger       *)
(* (media/libmedia/AudioTrackShared.cpp): a ring of frames between the     *)
(* ClientProxy, which writes, and the ServerProxy, which reads, in two     *)
(* processes without a lock; a futex the client waits on when the ring is  *)
(* full; flush, interrupt, invalidation and the end of the stream.         *)
(*                                                                         *)
(* One action is one access to shared memory or one system call.           *)
(***************************************************************************)
EXTENDS Integers, Sequences, FiniteSets

CONSTANTS
  mFrameCount,     \* frames in the buffer
  mFrameCountP2,   \* mFrameCount rounded up to a power of 2
  Modulus,         \* the indices wrap here (2^32)
  mMinimum,        \* the client's notification period, or 0
  Scenarios        \* how the track is used, and what happens to it, as a set of records:
    \* Mixer: how the mixer uses a buffer: "whole" releases once, "chunks" in several
    \*   calls, "keeps" holds it till it is used up, even if the track is paused
    \* Timeouts: those the client passes, of "ZERO", "INFINITE" and "FINITE"
    \* MaxFlush: bound on the flushes the server has not noticed
    \* May: what happens beside writing, mixing and flushing: "interrupt", "binderDied",
    \*   "invalidate", "setSyncEvent", "streamEnd" of an offloaded track, "flushRace",
    \*   a flush between the two loads of the server's obtainBuffer()

ASSUME SizeAssumption ==
  /\ mFrameCountP2 \in Nat /\ mFrameCount \in 1 .. mFrameCountP2 /\ mFrameCountP2 < 2 * mFrameCount
  /\ Modulus \in Nat \ {0} /\ Modulus % (4 * mFrameCountP2) = 0
  /\ mMinimum \in 0 .. mFrameCount
ASSUME ScenarioAssumption ==
  Scenarios \subseteq
    [Mixer : {"whole", "chunks", "keeps"}, Timeouts : SUBSET {"ZERO", "INFINITE", "FINITE"},
     MaxFlush : 0 .. Modulus \div (2 * mFrameCountP2) - 1,
     May : SUBSET {"interrupt", "binderDied", "invalidate", "setSyncEvent", "streamEnd", "flushRace"}]

Position == 0 .. Modulus - 1
Slot == 0 .. mFrameCountP2 - 1

VARIABLES
  scenario,
  \* audio_track_cblk_t and the buffer
  mFront, mRear, mFlush, mFlags, mFutex, mBuffers,
  \* the client thread in obtainBuffer(), releaseBuffer() or waitStreamEndDone()
  cpc, call, timeout, ignoreInitialPendingInterrupt, expected, cUnreleased,
  \* the client thread in interrupt() or binderDied()
  ipc,
  \* the server thread that mixes, and its proxy
  spc, ackFlush, flush, rear, sFlush, sUnreleased, mAvailToClient,
  \* another thread of the server, in Track::invalidate() or Track::setSyncEvent()
  vpc, ready,
  mIsShutdown  \* the sides that took the control block for corrupt

blockVars == <<mFront, mRear, mFlush, mFlags, mFutex, mBuffers>>
clientVars == <<cpc, call, timeout, ignoreInitialPendingInterrupt, expected, cUnreleased>>
serverVars == <<spc, ackFlush, flush, rear, sFlush, sUnreleased, mAvailToClient>>
binderVars == <<vpc, ready>>
vars == <<blockVars, clientVars, ipc, serverVars, binderVars, mIsShutdown>>

\* a - b as an int32_t.
Diff(a, b) ==
  LET d == (a - b) % Modulus IN IF d < Modulus \div 2 THEN d ELSE d - Modulus

\* The indices wrap as 32-bit integers do.
Plus(a, n) == (a + n) % Modulus

Overfull(filled) == ~(0 <= filled /\ filled <= mFrameCount)
Least(S) == CHOOSE x \in S : \A y \in S : x <= y

\* The first contiguous chunk from index i, of at most avail and at most wanted frames.
Part1_Mutant(i, avail, wanted) == Least({avail, wanted})
Part1(i, avail, wanted) == Least({mFrameCountP2 - (i % mFrameCountP2), avail, wanted})

Flag == {"INVALID", "INTERRUPT", "STREAM_END_DONE"}
\* Bits of mFutex: CBLK_FUTEX_WAKE, and the 0x40000000 of invalidate().
FutexBit == {"WAKE", "INVALIDATED"}

TypeOK ==
  /\ scenario \in Scenarios
  /\ {mFront, mRear, mFlush, flush, rear, sFlush, ready} \subseteq Position
  /\ mFlags \subseteq Flag /\ mFutex \subseteq FutexBit /\ expected \subseteq FutexBit
  /\ mBuffers \in [Slot -> Position]
  /\ cpc \in {"idle", "flags", "look", "wait?", "clear", "wait", "asleep", "fill", "filled"}
  /\ call \in {"obtainBuffer", "waitStreamEndDone"}
  /\ timeout \in {"ZERO", "INFINITE", "FINITE"}
  /\ ignoreInitialPendingInterrupt \in BOOLEAN /\ ackFlush \in BOOLEAN
  /\ {cUnreleased, sUnreleased, mAvailToClient} \subseteq 0 .. mFrameCount
  /\ ipc \in {"idle", "or", "wake"} /\ vpc \in {"idle", "store", "wake", "front"}
  /\ spc \in {"idle", "rear", "or", "wake", "obtained", "mix", "ror", "rwake", "ewake"}
  /\ mIsShutdown \subseteq {"client", "server"}

\* The two indices start anywhere: they run on while the track lives.
Init ==
  /\ scenario \in Scenarios
  /\ mFront \in Position /\ mRear = mFront
  /\ mFlush = 0 /\ sFlush = 0 /\ flush = 0 /\ rear = 0
  /\ mFlags = {} /\ mFutex = {}
  /\ mBuffers = [s \in Slot |-> Plus(mFront, s - (mFront % mFrameCountP2) - mFrameCountP2)]
  /\ cpc = "idle" /\ call = "obtainBuffer" /\ timeout = "ZERO"
  /\ ignoreInitialPendingInterrupt = TRUE /\ expected = {} /\ cUnreleased = 0
  /\ ipc = "idle" /\ vpc = "idle" /\ ready = 0
  /\ spc = "idle" /\ ackFlush = FALSE /\ sUnreleased = 0 /\ mAvailToClient = 0
  /\ mIsShutdown = {}
-----------------------------------------------------------------------------
(* The client thread *)

\* FUTEX_WAKE, by whichever thread.
FutexWake == cpc' = IF cpc = "asleep" THEN "flags" ELSE cpc

\* The call is over; its local variables are nobody's.
Returns(pc) ==
  /\ cpc' = pc
  /\ call' = "obtainBuffer" /\ timeout' = "ZERO" /\ ignoreInitialPendingInterrupt' = TRUE

ObtainBuffer(t) ==
  /\ cpc = "idle" /\ "client" \notin mIsShutdown
  /\ call' = "obtainBuffer" /\ timeout' = t
  /\ ignoreInitialPendingInterrupt' = TRUE
  /\ cpc' = "flags"
  /\ UNCHANGED <<blockVars, expected, cUnreleased, ipc, serverVars, binderVars, mIsShutdown>>

WaitStreamEndDone(t) ==
  /\ "streamEnd" \in scenario.May
  /\ cpc = "idle"
  /\ call' = "waitStreamEndDone" /\ timeout' = t
  /\ cpc' = "flags"
  /\ UNCHANGED <<blockVars, ignoreInitialPendingInterrupt, expected, cUnreleased, ipc,
                 serverVars, binderVars, mIsShutdown>>

\* The head of both loops: android_atomic_and(mFlags), and the early returns.
CheckFlags ==
  LET obtaining == call = "obtainBuffer"
      done == \/ "INVALID" \in mFlags
              \/ "STREAM_END_DONE" \in mFlags /\ ~obtaining
              \/ "INTERRUPT" \in mFlags /\ ~(obtaining /\ ignoreInitialPendingInterrupt)
  IN /\ cpc = "flags"
     /\ mFlags' = mFlags \ (IF obtaining THEN {"INTERRUPT"} ELSE {"INTERRUPT", "STREAM_END_DONE"})
     /\ IF done THEN Returns("idle")
        ELSE /\ cpc' = IF obtaining THEN "look" ELSE "wait?"
             /\ ignoreInitialPendingInterrupt' = ~obtaining
             /\ UNCHANGED <<call, timeout>>
     /\ cUnreleased' = IF done THEN 0 ELSE cUnreleased
     /\ UNCHANGED <<mFront, mRear, mFlush, mFutex, mBuffers, expected, ipc, serverVars, binderVars,
                    mIsShutdown>>

\* "don't allow filling pipe beyond the nominal size"
AvailToClient_Mutant(filled) == mFrameCountP2 - filled
AvailToClient(filled) == mFrameCount - filled

\* The computation of what is available, to a caller that wants that many frames.
Look(wanted) ==
  LET filled == Diff(mRear, mFront)
      avail == AvailToClient(filled)
  IN /\ cpc = "look"
     /\ \/ Overfull(filled) /\ cUnreleased' = 0 /\ Returns("idle")
        \/ /\ ~Overfull(filled) /\ avail = 0 /\ cpc' = "wait?"
           /\ UNCHANGED <<call, timeout, ignoreInitialPendingInterrupt, cUnreleased>>
        \/ /\ ~Overfull(filled) /\ avail > 0 /\ Returns("fill")
           /\ cUnreleased' = Part1(mRear, avail, wanted)
     /\ mIsShutdown' = mIsShutdown \cup (IF Overfull(filled) THEN {"client"} ELSE {})
     /\ UNCHANGED <<blockVars, expected, ipc, serverVars, binderVars>>

\* switch (timeout): TIMEOUT_CONTINUE is TIMEOUT_FINITE, which may have expired.
MayWait ==
  /\ cpc = "wait?"
  /\ \/ /\ timeout # "ZERO" /\ cpc' = "clear"
        /\ UNCHANGED <<call, timeout, ignoreInitialPendingInterrupt, cUnreleased>>
     \/ timeout # "INFINITE" /\ cUnreleased' = 0 /\ Returns("idle")
  /\ UNCHANGED <<blockVars, expected, ipc, serverVars, binderVars, mIsShutdown>>

ClearWake ==
  /\ cpc = "clear"
  /\ mFutex' = mFutex \ {"WAKE"}
  /\ IF "WAKE" \in mFutex THEN cpc' = "flags" /\ UNCHANGED expected
     ELSE cpc' = "wait" /\ expected' = mFutex
  /\ UNCHANGED <<mFront, mRear, mFlush, mFlags, mBuffers, call, timeout,
                 ignoreInitialPendingInterrupt, cUnreleased, ipc, serverVars, binderVars, mIsShutdown>>

\* FUTEX_WAIT sleeps only if nobody has changed mFutex since.
Sleeps_Mutant == TRUE
Sleeps == mFutex = expected

Wait ==
  /\ cpc = "wait"
  /\ cpc' = IF Sleeps THEN "asleep" ELSE "flags"
  /\ expected' = {}
  /\ UNCHANGED <<blockVars, call, timeout, ignoreInitialPendingInterrupt, cUnreleased, ipc,
                 serverVars, binderVars, mIsShutdown>>

\* The wait ends without a FUTEX_WAKE: a timeout, a signal, a spurious wakeup.
OtherWakeup ==
  /\ cpc = "asleep"
  /\ cpc' = "flags"
  /\ UNCHANGED <<blockVars, call, timeout, ignoreInitialPendingInterrupt, expected,
                 cUnreleased, ipc, serverVars, binderVars, mIsShutdown>>

\* The slot of a frame that is n frames after index i in a chunk.
ClientSlot(i, n) == (i % mFrameCountP2) + n

\* The caller copies its frames; a frame is known by the index it is given.
Fill ==
  /\ cpc = "fill"
  /\ mBuffers' = [s \in Slot |->
                    IF \E n \in 0 .. cUnreleased - 1 : s = ClientSlot(mRear, n)
                    THEN Plus(mRear, s - ClientSlot(mRear, 0)) ELSE mBuffers[s]]
  /\ cpc' = "filled"
  /\ UNCHANGED <<mFront, mRear, mFlush, mFlags, mFutex, call, timeout,
                 ignoreInitialPendingInterrupt, expected, cUnreleased, ipc, serverVars, binderVars,
                 mIsShutdown>>

\* ClientProxy::releaseBuffer() of all or some of the frames obtained; the next
\* obtainBuffer() forgets the others.
ReleaseBuffer(n) ==
  /\ cpc = "filled" /\ n <= cUnreleased
  /\ mRear' = Plus(mRear, n)
  /\ cUnreleased' = 0
  /\ cpc' = "idle"
  /\ UNCHANGED <<mFront, mFlush, mFlags, mFutex, mBuffers, call, timeout,
                 ignoreInitialPendingInterrupt, expected, ipc, serverVars, binderVars, mIsShutdown>>

Client ==
  \/ \E t \in scenario.Timeouts : ObtainBuffer(t)
  \/ \E t \in scenario.Timeouts : WaitStreamEndDone(t)
  \/ \E wanted \in 1 .. mFrameCount : Look(wanted)
  \/ CheckFlags \/ MayWait \/ ClearWake \/ Wait \/ OtherWakeup \/ Fill
  \/ \E n \in 0 .. mFrameCount : ReleaseBuffer(n)
-----------------------------------------------------------------------------
(* Other threads of the client *)

FlushMask == 2 * mFrameCountP2
Pending(f, acked) == ((f \div FlushMask) - (acked \div FlushMask)) % (Modulus \div FlushMask)

\* AudioTrackClientProxy::flush(); AudioTrack's lock excludes releaseBuffer().
Flush ==
  /\ Pending(mFlush, sFlush) < scenario.MaxFlush
  /\ spc = "rear" => "flushRace" \in scenario.May
  /\ mFlush' = (mRear % FlushMask) + Plus(mFlush - (mFlush % FlushMask), FlushMask)
  /\ UNCHANGED <<mFront, mRear, mFlags, mFutex, mBuffers, clientVars, ipc, serverVars, binderVars,
                 mIsShutdown>>

\* interrupt() and binderDied(): the flag, CBLK_FUTEX_WAKE, FUTEX_WAKE.
Signal(flag) ==
  /\ ipc = "idle"
  /\ mFlags' = mFlags \cup {flag}
  /\ ipc' = IF flag \in mFlags THEN "idle" ELSE "or"
  /\ UNCHANGED <<mFront, mRear, mFlush, mFutex, mBuffers, clientVars, serverVars, binderVars, mIsShutdown>>

SignalOr ==
  /\ ipc = "or"
  /\ mFutex' = mFutex \cup {"WAKE"}
  /\ ipc' = "wake"
  /\ UNCHANGED <<mFront, mRear, mFlush, mFlags, mBuffers, clientVars, serverVars, binderVars, mIsShutdown>>

SignalWake ==
  /\ ipc = "wake"
  /\ FutexWake
  /\ ipc' = "idle"
  /\ UNCHANGED <<blockVars, call, timeout, ignoreInitialPendingInterrupt, expected,
                 cUnreleased, serverVars, binderVars, mIsShutdown>>

Control ==
  \/ Flush \/ SignalOr \/ SignalWake
  \/ "interrupt" \in scenario.May /\ Signal("INTERRUPT")
  \/ "binderDied" \in scenario.May /\ Signal("INVALID")
-----------------------------------------------------------------------------
(* The server thread *)

SObtainBuffer(ack) ==
  /\ spc = "idle" /\ "server" \notin mIsShutdown
  /\ scenario.Mixer = "keeps" /\ sUnreleased > 0 => ack
  /\ ackFlush' = ack
  /\ flush' = mFlush
  /\ spc' = "rear"
  /\ UNCHANGED <<blockVars, clientVars, ipc, rear, sFlush, sUnreleased, mAvailToClient, binderVars,
                 mIsShutdown>>

\* "effectively obtain then release whatever is in the buffer"
NewFront_Unwrapped(r) == mFront - (mFront % FlushMask) + (flush % FlushMask)
NewFront_Mutant(r) ==
  LET newFront == mFront - (mFront % mFrameCountP2) + (flush % mFrameCountP2)
  IN IF Overfull(Diff(r, newFront)) THEN r ELSE newFront
NewFront(r) ==
  LET newFront == mFront - (mFront % FlushMask) + (flush % FlushMask)
  IN IF Overfull(Diff(r, newFront)) THEN r ELSE newFront

LoadRear ==
  /\ spc = "rear"
  /\ rear' = mRear
  /\ IF flush # sFlush
     THEN sFlush' = flush /\ mFront' = NewFront(mRear) /\ spc' = "or"
     ELSE spc' = "obtained" /\ UNCHANGED <<sFlush, mFront>>
  /\ UNCHANGED <<mRear, mFlush, mFlags, mFutex, mBuffers, clientVars, ipc, ackFlush, flush,
                 sUnreleased, mAvailToClient, binderVars, mIsShutdown>>

\* android_atomic_or(CBLK_FUTEX_WAKE): FUTEX_WAKE only if it was clear.
OrWake(needed, otherwise) ==
  /\ mFutex' = mFutex \cup {"WAKE"}
  /\ spc' \in IF "WAKE" \in mFutex THEN otherwise ELSE {needed}
  /\ UNCHANGED <<mFront, mRear, mFlush, mFlags, mBuffers, clientVars, ipc, ackFlush, flush, rear,
                 sFlush, sUnreleased, mAvailToClient, binderVars, mIsShutdown>>

ServerWake(next) ==
  /\ FutexWake
  /\ spc' \in next
  /\ UNCHANGED <<blockVars, call, timeout, ignoreInitialPendingInterrupt, expected, cUnreleased,
                 ipc, ackFlush, flush, rear, sFlush, sUnreleased, mAvailToClient, binderVars, mIsShutdown>>

FlushOr == spc = "or" /\ OrWake("wake", {"obtained"})
FlushWake == spc = "wake" /\ ServerWake({"obtained"})

\* What is available, to a mixer that wants that many frames; Track::start() only
\* wanted the flush acknowledged.
Obtained(wanted) ==
  LET filled == Diff(rear, mFront)
      part1 == Part1(mFront, filled, wanted)
  IN /\ spc = "obtained"
     /\ IF Overfull(filled) \/ "server" \in mIsShutdown
        THEN /\ mIsShutdown' = mIsShutdown \cup {"server"}
             /\ spc' = "idle" /\ sUnreleased' = 0
             /\ UNCHANGED mAvailToClient
        ELSE /\ mAvailToClient' = mFrameCount - filled
             /\ sUnreleased' = IF ackFlush THEN sUnreleased ELSE part1
             /\ spc' = IF ackFlush \/ part1 = 0 THEN "idle" ELSE "mix"
             /\ UNCHANGED mIsShutdown
     /\ ackFlush' = FALSE /\ flush' = 0 /\ rear' = 0
     /\ UNCHANGED <<blockVars, clientVars, ipc, sFlush, binderVars>>

\* "server wakes up client if available >= mMinimum", which half the buffer bounds.
minimum ==
  LET half == IF mFrameCount \div 2 = 0 THEN 1 ELSE mFrameCount \div 2
  IN IF mMinimum = 0 \/ mMinimum > half THEN half ELSE mMinimum
WakesClient_Mutant(stepCount) == mAvailToClient >= minimum
WakesClient(stepCount) == mAvailToClient + stepCount >= minimum

\* After a release the mixer goes on with the buffer or lets the rest be.
AfterRelease(left) == IF scenario.Mixer # "whole" /\ left > 0 THEN {"mix", "idle"} ELSE {"idle"}

SReleaseBuffer(n) ==
  /\ spc = "mix" /\ "server" \notin mIsShutdown /\ n <= sUnreleased
  /\ mFront' = Plus(mFront, n)
  /\ sUnreleased' = sUnreleased - n
  /\ spc' \in IF WakesClient(n) THEN {"ror"} ELSE AfterRelease(sUnreleased - n)
  /\ UNCHANGED <<mRear, mFlush, mFlags, mFutex, mBuffers, clientVars, ipc, ackFlush, flush, rear,
                 sFlush, mAvailToClient, binderVars, mIsShutdown>>

\* releaseBuffer() does nothing once the control block is taken for corrupt.
ReleaseNothing ==
  /\ spc = "mix" /\ "server" \in mIsShutdown
  /\ spc' = "idle"
  /\ UNCHANGED <<blockVars, clientVars, ipc, ackFlush, flush, rear, sFlush, sUnreleased,
                 mAvailToClient, binderVars, mIsShutdown>>

ReleaseOr == spc = "ror" /\ OrWake("rwake", AfterRelease(sUnreleased))
ReleaseWake == spc = "rwake" /\ ServerWake(AfterRelease(sUnreleased))

\* A buffer provider of the mixer (AudioMixer::CopyBufferProvider) holds a buffer
\* that is not used up when the track is paused, and goes on with it later.
Keep ==
  /\ scenario.Mixer = "keeps" /\ spc = "mix"
  /\ spc' = "idle"
  /\ UNCHANGED <<blockVars, clientVars, ipc, ackFlush, flush, rear, sFlush, sUnreleased,
                 mAvailToClient, binderVars, mIsShutdown>>

GoOn ==
  /\ scenario.Mixer = "keeps" /\ spc = "idle" /\ sUnreleased > 0
  /\ spc' = "mix"
  /\ UNCHANGED <<blockVars, clientVars, ipc, ackFlush, flush, rear, sFlush, sUnreleased,
                 mAvailToClient, binderVars, mIsShutdown>>

\* setStreamEndDone(), when the track's frames have been presented.
SetStreamEndDone ==
  /\ "streamEnd" \in scenario.May
  /\ spc = "idle"
  /\ mFlags' = mFlags \cup {"STREAM_END_DONE"}
  /\ spc' = IF "STREAM_END_DONE" \in mFlags THEN "idle" ELSE "ewake"
  /\ UNCHANGED <<mFront, mRear, mFlush, mFutex, mBuffers, clientVars, ipc, ackFlush, flush, rear,
                 sFlush, sUnreleased, mAvailToClient, binderVars, mIsShutdown>>

EndWake == spc = "ewake" /\ ServerWake({"idle"})

MixStep ==
  \/ SObtainBuffer(FALSE)
  \/ LoadRear \/ FlushOr \/ FlushWake
  \/ \E wanted \in 1 .. mFrameCount : Obtained(wanted)
  \/ \E n \in 1 .. mFrameCount : SReleaseBuffer(n)
  \/ ReleaseNothing \/ ReleaseOr \/ ReleaseWake \/ EndWake
Server == MixStep \/ SObtainBuffer(TRUE) \/ Keep \/ GoOn \/ SetStreamEndDone

\* Track::invalidate(): the flag, the store, FUTEX_WAKE.
Invalidate ==
  /\ "invalidate" \in scenario.May
  /\ vpc = "idle"
  /\ mFlags' = mFlags \cup {"INVALID"}
  /\ vpc' = "store"
  /\ UNCHANGED <<mFront, mRear, mFlush, mFutex, mBuffers, clientVars, ipc, serverVars, ready, mIsShutdown>>

InvalidateStore ==
  /\ vpc = "store"
  /\ mFutex' = {"INVALIDATED"}
  /\ vpc' = "wake"
  /\ UNCHANGED <<mFront, mRear, mFlush, mFlags, mBuffers, clientVars, ipc, serverVars, ready, mIsShutdown>>

InvalidateWake ==
  /\ vpc = "wake"
  /\ FutexWake
  /\ vpc' = "idle"
  /\ UNCHANGED <<blockVars, call, timeout, ignoreInitialPendingInterrupt, expected, cUnreleased,
                 ipc, serverVars, ready, mIsShutdown>>

\* framesReady(), which Track::setSyncEvent() calls from a binder thread; it goes no
\* further when there is a flush to notice.
FramesReady ==
  /\ "setSyncEvent" \in scenario.May
  /\ vpc = "idle" /\ mFlush = sFlush /\ "server" \notin mIsShutdown
  /\ ready' = mRear
  /\ vpc' = "front"
  /\ UNCHANGED <<blockVars, clientVars, ipc, serverVars, mIsShutdown>>

FramesReadyFront ==
  /\ vpc = "front"
  /\ mIsShutdown' = mIsShutdown \cup (IF Overfull(Diff(ready, mFront)) THEN {"server"} ELSE {})
  /\ ready' = 0
  /\ vpc' = "idle"
  /\ UNCHANGED <<blockVars, clientVars, ipc, serverVars>>

Binder == Invalidate \/ InvalidateStore \/ InvalidateWake \/ FramesReady \/ FramesReadyFront
-----------------------------------------------------------------------------
Next == Client \/ Control \/ Server \/ Binder

Spec == Init /\ [][Next /\ UNCHANGED scenario]_<<vars, scenario>>

(***************************************************************************)
(* The client's threads run and the mixer keeps pulling, as it does while  *)
(* the track is active: its next buffer is not put off for ever by calls   *)
(* of Track::start().  Nothing makes a client call, a timeout expire, a    *)
(* stream end or a track become invalid.                                   *)
(***************************************************************************)
ClientStep ==
  \/ CheckFlags \/ ClearWake \/ Wait \/ Fill \/ MayWait
  \/ \E wanted \in 1 .. mFrameCount : Look(wanted)
Fairness ==
  /\ WF_vars(ClientStep) /\ WF_vars(SignalOr \/ SignalWake)
  /\ WF_vars(MixStep) /\ SF_vars(SObtainBuffer(FALSE))
FairSpec == Spec /\ Fairness
-----------------------------------------------------------------------------
(* Properties *)

filledFrames == Diff(mRear, mFront)

\* The frames in the ring, as the server will read them.
Frames == [i \in 1 .. filledFrames |->
             mBuffers[(mFront + i - 1) % mFrameCountP2]]

(***************************************************************************)
(* The ring is a FrameFifo: the two sides, with no lock, see the frames in *)
(* order, none torn by a client that writes too early, none played twice,  *)
(* none skipped but by a release or a flush.                               *)
(***************************************************************************)
Fifo == INSTANCE FrameFifo WITH Frame <- Position, Capacity <- mFrameCount, frames <- Frames
Refinement == Fifo!Spec

(***************************************************************************)
(* What the mixer reads while it holds a buffer is what the client wrote   *)
(* there for these positions, in one piece of the ring, until it releases. *)
(***************************************************************************)
Integrity ==
  spc = "mix" =>
    /\ (mFront % mFrameCountP2) + sUnreleased <= mFrameCountP2
    /\ \A n \in 0 .. sUnreleased - 1 :
         mBuffers[(mFront + n) % mFrameCountP2] = Plus(mFront, n)

(***************************************************************************)
(* "Shared memory control block is corrupt; shutting down": never said of  *)
(* a client and a server that follow the protocol, flushes included, when  *)
(* nobody calls framesReady() from another thread.                         *)
(***************************************************************************)
NeverCorrupt == "setSyncEvent" \notin scenario.May => mIsShutdown = {}

\* No thread is on its way to FUTEX_WAKE.
NobodyWakes ==
  /\ ipc = "idle" /\ vpc \in {"idle", "front"}
  /\ spc \notin {"or", "wake", "ror", "rwake", "ewake"}

(***************************************************************************)
(* A client asleep in obtainBuffer() has missed no interrupt, no death of  *)
(* the server and no room:                                                 *)
(* "server wakes up client if available >= mMinimum".  A track that may be *)
(* invalidated is left to InvalidIsNoticed.                                *)
(***************************************************************************)
NoLostWakeup ==
  "invalidate" \notin scenario.May /\ cpc = "asleep" /\ call = "obtainBuffer" /\ NobodyWakes =>
    mFlags \subseteq {"STREAM_END_DONE"} /\ mFrameCount - filledFrames < minimum

(***************************************************************************)
(* A client blocked for ever in a full ring gets on while the mixer pulls. *)
(***************************************************************************)
WriterGetsRoom ==
  cpc = "asleep" /\ call = "obtainBuffer" ~> cpc # "asleep"

(***************************************************************************)
(* flush() discards what was written before it and nothing else: "so that  *)
(* subsequent new data isn't discarded" (Tracks.cpp, Track::start()).  The *)
(* flushed position is the first from mFront on with the low bits of flush.*)
(***************************************************************************)
FlushKeepsNewFrames ==
  [][spc = "rear" /\ mFront' # mFront =>
       mFront' = Plus(mFront, (flush - mFront) % FlushMask)]_vars

(***************************************************************************)
(* A flush takes frames out, it never puts back what has been played: the  *)
(* server does "effectively obtain then release whatever is in the buffer". *)
(***************************************************************************)
FlushOnlyDiscards == [][spc = "rear" => Diff(mFront', mFront) >= 0]_vars

(***************************************************************************)
(* An invalidated client does not sleep: "DEAD_OBJECT Server has died or   *)
(* invalidated" is what its obtainBuffer() must answer.                    *)
(***************************************************************************)
InvalidIsNoticed == ~(cpc = "asleep" /\ "INVALID" \in mFlags /\ NobodyWakes)

(***************************************************************************)
(* A client waiting for the end of the stream does not sleep through it:   *)
(* mFutex is "up (V) by server" when the end is set.                       *)
(***************************************************************************)
StreamEndIsNoticed ==
  ~(cpc = "asleep" /\ call = "waitStreamEndDone" /\ "STREAM_END_DONE" \in mFlags /\ NobodyWakes)
=============================================================================
