---------------------------- MODULE OffloadThread ----------------------------
(***************************************************************************)
(* The offload thread of AudioFlinger (services/audioflinger, Threads.cpp) *)
(* writes compressed data to a HAL that does not block: a write it cannot  *)
(* take in full, and a drain, are answered later by a callback.  While an  *)
(* answer is due the thread waits, and does not write.  The callback comes *)
(* on a thread of the HAL; a third thread, AsyncCallbackThread, brings it  *)
(* to the offload thread with a sequence number, so that an answer to what *)
(* has been flushed meanwhile is recognised.  Bit 0 of a sequence number   *)
(* says that an answer is due.                                             *)
(*                                                                         *)
(* A track holds at most one buffer, and starts with it; a buffer is       *)
(* written in one piece.  addTrack_l() gets its answer from the audio      *)
(* policy at once (PlaybackTracks has the wait).                           *)
(***************************************************************************)
EXTENDS Integers

CONSTANTS
  Track,
  Session,     \* the session of each track
  HalSize,     \* the buffers that the HAL has room for
  Sequences,   \* the sequence numbers count modulo this
  MaxCalls,    \* bound on the calls of clients, for each set of tracks
  None         \* no track

Sizes ==
  /\ Sequences \in Nat /\ Sequences >= 8 /\ Sequences % 4 = 0
  /\ HalSize \in Nat \ {0} /\ MaxCalls \in [SUBSET Track \ {{}} -> Nat]
ASSUME SizesAssumption == Sizes
ASSUME NoneAssumption == None \notin Track

VARIABLES
  \* of each Track
  mState, frames, mFlushHwPending, mResumeToStopping, mIsInvalid, mTerminated,
  \* of the thread, under mLock
  mTracks, mActiveTracks, mLatestActiveTrack, mSignalPending, mFlushPending,
  mWriteAckSequence, mDrainSequence,
  \* of the thread alone
  tpc, mMixerStatus, mActiveTrack, mPreviousTrack, mBytesRemaining, mPausedBytesRemaining,
  mHwPaused, mStandby, tracksToRemove,
  cb,          \* the AsyncCallbackThread
  hal,         \* the audio HAL's stream
  released,    \* releaseOutput() calls for each track
  calls        \* that clients may still make

trackVars == <<mState, frames, mFlushHwPending, mResumeToStopping, mIsInvalid, mTerminated>>
lockVars == <<mTracks, mActiveTracks, mLatestActiveTrack, mSignalPending, mFlushPending>>
sequenceVars == <<mWriteAckSequence, mDrainSequence>>
threadVars == <<tpc, mMixerStatus, mActiveTrack, mPreviousTrack, mBytesRemaining,
                mPausedBytesRemaining, mHwPaused, mStandby, tracksToRemove>>
vars == <<trackVars, lockVars, sequenceVars, threadVars, cb, hal, released, calls>>

Sequence == 0 .. Sequences - 1
Odd(n) == n % 2 = 1
Cleared(n) == n - (n % 2)              \* n &= ~1
Bumped(n) == (n + 2) % Sequences     \* n += 2
NoSequence == -1

\* The callback thread keeps "sequence << 1" in a word, and gives back ">> 1": the highest
\* bit is lost on the way.
Half == Sequences \div 2
Shifted(sequence) == sequence % Half

TypeOK ==
  /\ mState \in [Track -> {"IDLE", "STOPPED", "STOPPING_1", "STOPPING_2", "RESUMING", "ACTIVE",
                           "PAUSING", "PAUSED"}]
  /\ frames \in [Track -> {0, 1}]
  /\ mFlushHwPending \cup mResumeToStopping \cup mIsInvalid \cup mTerminated \subseteq Track
  /\ mActiveTracks \subseteq mTracks /\ mTracks \subseteq Track /\ tracksToRemove \subseteq Track
  /\ {mLatestActiveTrack, mActiveTrack, mPreviousTrack} \subseteq Track \cup {None}
  /\ {mSignalPending, mFlushPending, mHwPaused, mStandby} \subseteq BOOLEAN
  /\ {mWriteAckSequence, mDrainSequence} \subseteq Sequence
  /\ tpc \in {"top", "unlocked", "write", "remove"}
  /\ mMixerStatus \in {"IDLE", "ENABLED", "READY", "DRAIN"}
  /\ {mBytesRemaining, mPausedBytesRemaining} \subseteq {0, 1}
  /\ cb \in [write : Sequence, writeReady : BOOLEAN, drain : Sequence, drainReady : BOOLEAN,
             taken : [write : Sequence \cup {NoSequence}, drain : Sequence \cup {NoSequence}]]
  /\ hal \in [level : 0 .. HalSize, writeOwed : BOOLEAN, drainOwed : BOOLEAN, paused : BOOLEAN]
  /\ released \in [Track -> 0 .. 2]
  /\ calls \in Nat

\* The thread is new, or in a standby that leaves it as if it were, but for the sequence
\* numbers, which run on.
Init ==
  /\ mState = [t \in Track |-> "IDLE"] /\ frames = [t \in Track |-> 1]
  /\ mFlushHwPending = {} /\ mResumeToStopping = {} /\ mIsInvalid = {} /\ mTerminated = {}
  /\ mTracks \in SUBSET Track \ {{}} /\ mActiveTracks = {} /\ mLatestActiveTrack = None
  /\ mSignalPending = FALSE /\ mFlushPending = FALSE
  /\ mWriteAckSequence \in Sequence /\ ~Odd(mWriteAckSequence)
  /\ mDrainSequence \in Sequence /\ ~Odd(mDrainSequence)
  /\ tpc = "top" /\ mMixerStatus = "IDLE" /\ mActiveTrack = None /\ mPreviousTrack = None
  /\ mBytesRemaining = 0 /\ mPausedBytesRemaining = 0
  /\ mHwPaused = FALSE /\ mStandby = TRUE /\ tracksToRemove = {}
  /\ cb = [write |-> Shifted(mWriteAckSequence), writeReady |-> FALSE,
           drain |-> Shifted(mDrainSequence), drainReady |-> FALSE,
           taken |-> [write |-> NoSequence, drain |-> NoSequence]]
  /\ hal = [level |-> 0, writeOwed |-> FALSE, drainOwed |-> FALSE, paused |-> FALSE]
  /\ released = [t \in Track |-> 0]
  /\ calls = MaxCalls[mTracks]
-----------------------------------------------------------------------------
(* Binder threads *)

Called(t) == t \in mTracks /\ t \notin mTerminated \cup mIsInvalid
isStopping(t) == mState[t] \in {"STOPPING_1", "STOPPING_2"}
broadcast_l == mSignalPending' = TRUE

Write(t) ==
  /\ Called(t) /\ frames[t] = 0 /\ (t \in mActiveTracks => ~isStopping(t))
  /\ frames' = [frames EXCEPT ![t] = 1]
  /\ UNCHANGED <<mState, mFlushHwPending, mResumeToStopping, mIsInvalid, mTerminated, lockVars,
                 sequenceVars, threadVars, cb, hal, released>>

\* A wp<Track> is promoted while the track exists.
promote(t) == IF t \in mTracks \cup tracksToRemove THEN t ELSE None

\* onAddNewTrack_l() with the latest track as it is then.
onAddNewTrack_l(latest) ==
  /\ LET previous == promote(mPreviousTrack)
     IN mFlushPending' = (mFlushPending \/ (previous # None /\ latest # None
                                            /\ Session[previous] # Session[latest]))
  /\ broadcast_l

Start(t) ==
  /\ Called(t)
  /\ mState' = [mState EXCEPT ![t] = IF @ \notin {"PAUSED", "PAUSING"} THEN "ACTIVE"
                                     ELSE IF t \in mResumeToStopping THEN "STOPPING_1" ELSE "RESUMING"]
  /\ mActiveTracks' = mActiveTracks \cup {t}
  /\ mLatestActiveTrack' = IF t \in mActiveTracks THEN mLatestActiveTrack ELSE t
  /\ onAddNewTrack_l(promote(mLatestActiveTrack'))
  /\ UNCHANGED <<frames, mFlushHwPending, mResumeToStopping, mIsInvalid, mTerminated, mTracks,
                 sequenceVars, threadVars, cb, hal, released>>

Stop(t) ==
  /\ Called(t) /\ mState[t] \in {"RESUMING", "ACTIVE", "PAUSING", "PAUSED"}
  /\ mState' = [mState EXCEPT ![t] = IF t \in mActiveTracks THEN "STOPPING_1" ELSE "STOPPED"]
  /\ UNCHANGED <<frames, mFlushHwPending, mResumeToStopping, mIsInvalid, mTerminated, lockVars,
                 sequenceVars, threadVars, cb, hal, released>>

Pause(t) ==
  /\ Called(t) /\ mState[t] \in {"ACTIVE", "RESUMING", "STOPPING_1", "STOPPING_2"}
  /\ mState' = [mState EXCEPT ![t] = "PAUSING"]
  /\ mResumeToStopping' = IF isStopping(t) THEN mResumeToStopping \cup {t} ELSE mResumeToStopping
  /\ broadcast_l
  /\ UNCHANGED <<frames, mFlushHwPending, mIsInvalid, mTerminated, mTracks, mActiveTracks,
                 mLatestActiveTrack, mFlushPending, sequenceVars, threadVars, cb, hal, released>>

\* The proxy's flush() takes the frames away at once here; AudioTrackShared has its steps.
Flush(t) ==
  /\ Called(t)
  /\ mState' = [mState EXCEPT ![t] = IF isStopping(t) THEN "ACTIVE" ELSE @]
  /\ frames' = [frames EXCEPT ![t] = 0]
  /\ mFlushHwPending' = mFlushHwPending \cup {t}
  /\ mResumeToStopping' = mResumeToStopping \ {t}
  /\ broadcast_l
  /\ UNCHANGED <<mIsInvalid, mTerminated, mTracks, mActiveTracks, mLatestActiveTrack, mFlushPending,
                 sequenceVars, threadVars, cb, hal, released>>

\* Track::destroy(): the output of a track that is active is released by the thread.
Destroy(t) ==
  /\ t \in mTracks \ mTerminated
  /\ mTerminated' = mTerminated \cup {t}
  /\ mState' = [mState EXCEPT ![t] = IF t \in mActiveTracks THEN "STOPPING_1" ELSE "STOPPED"]
  /\ IF t \in mActiveTracks THEN UNCHANGED <<mTracks, released>>
     ELSE mTracks' = mTracks \ {t} /\ released' = [released EXCEPT ![t] = @ + 1]
  /\ UNCHANGED <<frames, mFlushHwPending, mResumeToStopping, mIsInvalid, mActiveTracks,
                 mLatestActiveTrack, mSignalPending, mFlushPending, sequenceVars, threadVars, cb, hal>>

Client(t) ==
  /\ calls > 0 /\ calls' = calls - 1
  /\ Write(t) \/ Start(t) \/ Stop(t) \/ Pause(t) \/ Flush(t) \/ Destroy(t)
-----------------------------------------------------------------------------
(* The HAL: it plays what it has unless it is paused, and answers what it owes. *)

\* AsyncCallbackThread::resetWriteBlocked() and resetDraining()
writeCallback == cb' = [cb EXCEPT !.writeReady = @ \/ Odd(cb.write)]
drainCallback_Mutant == cb' = [cb EXCEPT !.drainReady = @ \/ Odd(cb.write)]
drainCallback == cb' = [cb EXCEPT !.drainReady = @ \/ Odd(cb.drain)]

Play ==
  /\ ~hal.paused /\ hal.level > 0
  /\ hal' = [hal EXCEPT !.level = @ - 1]
  /\ UNCHANGED <<trackVars, lockVars, sequenceVars, threadVars, cb, released, calls>>
WriteReady ==
  /\ hal.writeOwed /\ ~hal.paused /\ hal.level < HalSize
  /\ hal' = [hal EXCEPT !.writeOwed = FALSE] /\ writeCallback
  /\ UNCHANGED <<trackVars, lockVars, sequenceVars, threadVars, released, calls>>
DrainReady ==
  /\ hal.drainOwed /\ ~hal.paused /\ hal.level = 0
  /\ hal' = [hal EXCEPT !.drainOwed = FALSE] /\ drainCallback
  /\ UNCHANGED <<trackVars, lockVars, sequenceVars, threadVars, released, calls>>

\* A flush or a standby drops the data, the pause, and the answers not given yet.
Silenced == [level |-> 0, writeOwed |-> FALSE, drainOwed |-> FALSE, paused |-> FALSE]
-----------------------------------------------------------------------------
(* AsyncCallbackThread: takes what is ready, and brings it to the offload thread *)
(* after its own lock is released.  Of its words, write and drain are the bits   *)
(* above bit 0, and writeReady and drainReady are bit 0.                     *)

Idle == cb.taken = [write |-> NoSequence, drain |-> NoSequence]

Take ==
  /\ Idle /\ (cb.writeReady \/ cb.drainReady)
  /\ cb' = [cb EXCEPT !.writeReady = FALSE, !.drainReady = FALSE,
                      !.taken = [write |-> IF cb.writeReady THEN cb.write ELSE NoSequence,
                                 drain |-> IF cb.drainReady THEN cb.drain ELSE NoSequence]]
  /\ UNCHANGED <<trackVars, lockVars, sequenceVars, threadVars, hal, released, calls>>

\* The sequence number after an acknowledgement: "reject out of sequence requests".
Acknowledged_Mutant(sequence, acked) == Cleared(sequence)
Acknowledged(sequence, acked) == IF sequence = acked THEN Cleared(sequence) ELSE sequence

resetWriteBlocked ==
  /\ cb.taken.write # NoSequence
  /\ mWriteAckSequence' = Acknowledged(mWriteAckSequence, cb.taken.write)
  /\ cb' = [cb EXCEPT !.taken.write = NoSequence]
  /\ UNCHANGED <<trackVars, lockVars, mDrainSequence, threadVars, hal, released, calls>>
resetDraining ==
  /\ cb.taken.write = NoSequence /\ cb.taken.drain # NoSequence
  /\ mDrainSequence' = Acknowledged(mDrainSequence, cb.taken.drain)
  /\ cb' = [cb EXCEPT !.taken.drain = NoSequence]
  /\ UNCHANGED <<trackVars, lockVars, mWriteAckSequence, threadVars, hal, released, calls>>

CallbackThread == Take \/ resetWriteBlocked \/ resetDraining

\* setWriteBlocked() and setDraining()
setWriteBlocked(c, sequence) == [c EXCEPT !.write = Shifted(sequence), !.writeReady = FALSE]
setDraining(c, sequence) == [c EXCEPT !.drain = Shifted(sequence), !.drainReady = FALSE]

-----------------------------------------------------------------------------
(* The offload thread, with mLock held: it waits while an answer is due and no *)
(* call of a client has come.                                                *)

waitingAsyncCallback_l == Odd(mWriteAckSequence) \/ Odd(mDrainSequence)
Awake == tpc = "top" /\ (mSignalPending \/ ~waitingAsyncCallback_l)

\* Both sequences "discard any pending drain or write ack", from those given.
Discard(write, drain) ==
  /\ mWriteAckSequence' = Cleared(Bumped(write)) /\ mDrainSequence' = Cleared(Bumped(drain))
  /\ cb' = setDraining(setWriteBlocked(cb, mWriteAckSequence'), mDrainSequence')

\* Nothing has been active for a while: standby unless the last of the tracks is
\* paused, and sleep.  mTracks is sorted by address: any track may be the last.
Standby ==
  /\ Awake /\ mActiveTracks = {}
  /\ mSignalPending' = FALSE
  /\ mMixerStatus' = "IDLE" /\ mBytesRemaining' = 0
  /\ IF ~mStandby /\ (mTracks = {} \/ \E t \in mTracks : mState[t] # "PAUSED")
     THEN /\ Discard(mWriteAckSequence, mDrainSequence)
          /\ hal' = Silenced /\ mHwPaused' = FALSE /\ mStandby' = TRUE
     ELSE UNCHANGED <<sequenceVars, cb, hal, mHwPaused, mStandby>>
  /\ UNCHANGED <<trackVars, mTracks, mActiveTracks, mLatestActiveTrack, mFlushPending, tpc,
                 mActiveTrack, mPreviousTrack, mPausedBytesRemaining, tracksToRemove, released, calls>>

(* prepareTracks_l(): what it does with a track t of the active list, given those invalid *)

isResumePending(t) == mState[t] = "RESUMING" \/ (mState[t] = "STOPPING_1" /\ t \in mResumeToStopping)

Handling(t, invalid) ==
  IF t \in invalid THEN "drop"
  ELSE IF mState[t] = "IDLE" THEN "skip"
  ELSE IF mState[t] = "PAUSING" THEN "pause"
  ELSE IF t \in mFlushHwPending THEN "flush"
  ELSE IF isResumePending(t) THEN "resume"
  ELSE IF frames[t] > 0 /\ mState[t] \notin {"PAUSED", "STOPPING_2"} /\ t \notin mTerminated THEN "ready"
  ELSE IF isStopping(t) THEN mState[t] ELSE "wait"

\* The HAL's pause() and resume() are called, in this order, unless it is in standby.
HalPaused(pause, resume) == IF mStandby THEN hal.paused ELSE (hal.paused \/ pause) /\ ~resume

\* prepareTracks_l().  before: the tracks that come before the latest one in the list;
\* expired: those that have used up their retries.
prepareTracks_l(before, expired) ==
  LET latest == mLatestActiveTrack
      what == IF latest \in mActiveTracks THEN Handling(latest, mIsInvalid) ELSE "none"
      previous == promote(mPreviousTrack)
      switch == what = "ready" /\ previous \notin {None, latest}
      invalidated == IF switch /\ (mPausedBytesRemaining > 0 \/ Session[previous] # Session[latest])
                     THEN {previous} ELSE {}
      bytes == CASE what = "pause" \/ switch -> 0
                 [] what = "resume" /\ mPausedBytesRemaining > 0 -> mPausedBytesRemaining
                 [] OTHER -> mBytesRemaining
      handling == [t \in mActiveTracks |->
                     Handling(t, IF t \in before THEN mIsInvalid ELSE mIsInvalid \cup invalidated)]
      written(t) == (IF t \in before \cup {latest} THEN mBytesRemaining ELSE bytes) = 0
      presented == {t \in mActiveTracks : handling[t] = "STOPPING_2"
                                          /\ (~Odd(mDrainSequence) \/ t # latest \/ mStandby)}
      draining == what = "STOPPING_1" /\ written(latest) /\ ~mStandby
      newDrain == draining /\ ~Odd(mDrainSequence)
      drain == IF newDrain THEN Bumped(mDrainSequence) ELSE mDrainSequence
      doHwPause == what = "pause" /\ ~mHwPaused
      doHwResume == mHwPaused /\ (what = "resume" \/ draining)
      flush == mFlushPending \/ what = "flush"
  IN /\ Awake /\ (mActiveTracks # {} \/ mBytesRemaining > 0)
     /\ latest \notin before /\ \A t \in expired : handling[t] = "wait"
     /\ mSignalPending' = FALSE
     /\ mState' = [t \in Track |->
          IF t \notin mActiveTracks THEN mState[t]
          ELSE CASE handling[t] = "pause" -> "PAUSED"
                 [] handling[t] = "resume" /\ mState[t] = "RESUMING" -> "ACTIVE"
                 [] handling[t] = "STOPPING_1" /\ written(t) -> "STOPPING_2"
                 [] t \in presented -> "STOPPED"
                 [] OTHER -> mState[t]]
     /\ mFlushHwPending' = mFlushHwPending \ {t \in mActiveTracks : handling[t] = "flush"}
     /\ mResumeToStopping' = mResumeToStopping
                             \ {t \in mActiveTracks : handling[t] = "resume" /\ mState[t] = "STOPPING_1"}
     /\ mIsInvalid' = mIsInvalid \cup invalidated
     /\ IF what = "ready"
        THEN mPreviousTrack' = latest /\ mActiveTrack' = latest
        ELSE UNCHANGED <<mPreviousTrack, mActiveTrack>>
     /\ mMixerStatus' = CASE what = "ready" -> "READY" [] newDrain -> "DRAIN"
                          [] what = "resume" \/ (what = "wait" /\ latest \notin expired) -> "ENABLED"
                          [] OTHER -> "IDLE"
     /\ IF flush
        THEN /\ mBytesRemaining' = 0 /\ mPausedBytesRemaining' = 0
             /\ Discard(mWriteAckSequence, drain)
             /\ hal' = Silenced /\ mHwPaused' = FALSE
        ELSE /\ mBytesRemaining' = bytes
             /\ mPausedBytesRemaining' = CASE what = "pause" -> mBytesRemaining
                                           [] what = "resume" \/ switch -> 0
                                           [] OTHER -> mPausedBytesRemaining
             /\ mDrainSequence' = drain /\ UNCHANGED <<mWriteAckSequence, cb>>
             /\ mHwPaused' = ((mHwPaused \/ doHwPause) /\ ~doHwResume)
             /\ hal' = [hal EXCEPT !.paused = HalPaused(doHwPause, doHwResume)]
     /\ mFlushPending' = FALSE
     /\ tracksToRemove' = presented \cup {t \in mActiveTracks : handling[t] \in {"drop", "pause"}
                                            \/ t \in expired}
     /\ mActiveTracks' = mActiveTracks \ tracksToRemove'
     /\ mTracks' = mTracks \ (tracksToRemove' \cap mTerminated)
     /\ tpc' = "unlocked"
     /\ UNCHANGED <<frames, mTerminated, mLatestActiveTrack, mStandby, released, calls>>
-----------------------------------------------------------------------------
(* The offload thread, without mLock *)

\* threadLoop_mix() reads the active track, unless its client has flushed it meanwhile.
Mixing == mBytesRemaining = 0 /\ mMixerStatus = "READY" /\ frames[mActiveTrack] > 0
Mixed ==
  /\ frames' = IF Mixing THEN [frames EXCEPT ![mActiveTrack] = 0] ELSE frames
  /\ mActiveTrack' = IF mBytesRemaining = 0 /\ mMixerStatus = "READY" THEN None ELSE mActiveTrack

\* Nothing is written while an answer is due.
MayWrite == ~waitingAsyncCallback_l

\* threadLoop_mix(), and as far as the call of the HAL's write(): bit 0 is set, and the
\* callback thread told, before.
BeginWrite ==
  LET sequence == Bumped(mWriteAckSequence) + 1
  IN /\ tpc = "unlocked" /\ MayWrite
     /\ mBytesRemaining = 1 \/ Mixing
     /\ Mixed
     /\ mBytesRemaining' = 1
     /\ sequence # cb.taken.write      \* the callback thread does not keep one for 2^30 writes
     /\ mWriteAckSequence' = sequence
     /\ cb' = setWriteBlocked(cb, sequence)
     /\ tpc' = "write"
     /\ UNCHANGED <<mState, mFlushHwPending, mResumeToStopping, mIsInvalid, mTerminated, lockVars,
                    mDrainSequence, mMixerStatus, mPreviousTrack, mPausedBytesRemaining,
                    mHwPaused, mStandby, tracksToRemove, hal, released, calls>>

\* The HAL has taken the buffer, or refused it: no answer is due.
EndWrite_Mutant ==
  /\ tpc = "write"
  /\ \/ hal.level < HalSize /\ hal' = [hal EXCEPT !.level = @ + 1]
     \/ UNCHANGED hal
  /\ mBytesRemaining' = 0
  /\ mStandby' = FALSE /\ tpc' = "remove"
  /\ UNCHANGED <<trackVars, lockVars, sequenceVars, cb, mMixerStatus, mActiveTrack, mPreviousTrack,
                 mPausedBytesRemaining, mHwPaused, tracksToRemove, released, calls>>
EndWrite ==
  /\ tpc = "write"
  /\ \/ hal.level < HalSize /\ hal' = [hal EXCEPT !.level = @ + 1]
     \/ UNCHANGED hal
  /\ mBytesRemaining' = 0
  /\ mWriteAckSequence' = Cleared(mWriteAckSequence)
  /\ cb' = setWriteBlocked(cb, mWriteAckSequence')
  /\ mStandby' = FALSE /\ tpc' = "remove"
  /\ UNCHANGED <<trackVars, lockVars, mDrainSequence, mMixerStatus, mActiveTrack, mPreviousTrack,
                 mPausedBytesRemaining, mHwPaused, tracksToRemove, released, calls>>

\* The HAL is full, and will call back.
BlockedWrite ==
  /\ tpc = "write" /\ hal.level = HalSize
  /\ hal' = [hal EXCEPT !.writeOwed = TRUE]
  /\ mStandby' = FALSE /\ tpc' = "remove"
  /\ UNCHANGED <<trackVars, lockVars, sequenceVars, mMixerStatus, mActiveTrack, mPreviousTrack,
                 mBytesRemaining, mPausedBytesRemaining, mHwPaused, tracksToRemove, cb, released, calls>>

threadLoop_drain ==
  /\ tpc = "unlocked" /\ MayWrite
  /\ mBytesRemaining = 0 /\ mMixerStatus = "DRAIN"
  /\ mDrainSequence + 1 # cb.taken.drain
  /\ mDrainSequence' = mDrainSequence + 1
  /\ cb' = setDraining(cb, mDrainSequence')
  /\ hal' = [hal EXCEPT !.drainOwed = TRUE]
  /\ tpc' = "remove"
  /\ UNCHANGED <<trackVars, lockVars, mWriteAckSequence, mMixerStatus, mActiveTrack, mPreviousTrack,
                 mBytesRemaining, mPausedBytesRemaining, mHwPaused, mStandby, tracksToRemove, released, calls>>

\* An answer is due, or there is nothing to write; what has been mixed is kept.
NoWrite ==
  /\ tpc = "unlocked"
  /\ ~MayWrite \/ (mBytesRemaining = 0 /\ mMixerStatus # "DRAIN" /\ ~Mixing)
  /\ Mixed
  /\ mBytesRemaining' = IF Mixing THEN 1 ELSE mBytesRemaining
  /\ tpc' = "remove"
  /\ UNCHANGED <<mState, mFlushHwPending, mResumeToStopping, mIsInvalid, mTerminated, lockVars,
                 sequenceVars, mMixerStatus, mPreviousTrack, mPausedBytesRemaining,
                 mHwPaused, mStandby, tracksToRemove, cb, hal, released, calls>>

\* With no lock held: the outputs of destroyed tracks are released.
threadLoop_removeTracks ==
  /\ tpc = "remove"
  /\ released' = [t \in Track |-> released[t] + (IF t \in tracksToRemove \cap mTerminated THEN 1 ELSE 0)]
  /\ tracksToRemove' = {} /\ tpc' = "top"
  /\ UNCHANGED <<trackVars, lockVars, sequenceVars, mMixerStatus, mActiveTrack, mPreviousTrack,
                 mBytesRemaining, mPausedBytesRemaining, mHwPaused, mStandby, cb, hal, calls>>

Cycle ==
  \/ \E before, expired \in SUBSET mActiveTracks : prepareTracks_l(before, expired)
  \/ BeginWrite \/ EndWrite \/ BlockedWrite \/ threadLoop_drain \/ NoWrite \/ threadLoop_removeTracks
Hal == Play \/ WriteReady \/ DrainReady

Next == (\E t \in Track : Client(t)) \/ Hal \/ CallbackThread \/ Standby \/ Cycle

Spec == Init /\ [][Next]_vars

\* No thread of the server stops, and a HAL that is not paused plays on and answers.
Fairness == WF_vars(Cycle) /\ WF_vars(Hal) /\ WF_vars(CallbackThread)
FairSpec == Spec /\ Fairness
-----------------------------------------------------------------------------
(* Properties *)

(***************************************************************************)
(* "reject out of sequence requests": an answer ends the wait of the       *)
(* request it belongs to and of no other.  While the HAL still owes an     *)
(* answer, the thread still waits for it.                                  *)
(***************************************************************************)
AnswerIsAwaited ==
  /\ hal.writeOwed => Odd(mWriteAckSequence)
  /\ hal.drainOwed => Odd(mDrainSequence)

(***************************************************************************)
(* A wait that nobody is going to answer: neither does the HAL owe an      *)
(* answer nor does the callback thread hold one under the number awaited.  *)
(***************************************************************************)
WriteStranded ==
  /\ Odd(mWriteAckSequence) /\ tpc # "write"
  /\ ~hal.writeOwed /\ ~(cb.writeReady /\ cb.write = mWriteAckSequence)
  /\ cb.taken.write # mWriteAckSequence
DrainStranded ==
  /\ Odd(mDrainSequence)
  /\ ~hal.drainOwed /\ ~(cb.drainReady /\ cb.drain = mDrainSequence)
  /\ cb.taken.drain # mDrainSequence

(***************************************************************************)
(* The thread never waits for an answer that has been given or discarded,  *)
(* as long as the numbers are in the lower half of the range: the callback *)
(* thread gives back the others without their highest bit.                 *)
(***************************************************************************)
WaitIsAnswered ==
  /\ WriteStranded => mWriteAckSequence >= Half
  /\ DrainStranded => mDrainSequence >= Half

(***************************************************************************)
(* The same of every number: the code violates it from 2^31 on.            *)
(***************************************************************************)
EveryWaitIsAnswered == ~WriteStranded /\ ~DrainStranded

(***************************************************************************)
(* The latest track, stopped or destroyed while active, is drained and     *)
(* taken out, unless its client starts or flushes it, the HAL is paused,   *)
(* or the thread waits under a number of the upper half, whose answer is   *)
(* not recognised.  (An older one that still has frames is not looked at.) *)
(***************************************************************************)
Ending(t) == t \in mActiveTracks /\ isStopping(t) /\ t = mLatestActiveTrack
Lost == \/ WriteStranded /\ mWriteAckSequence >= Half
        \/ DrainStranded /\ mDrainSequence >= Half
StoppedTrackLeaves == \A t \in Track : Ending(t) ~> (~Ending(t) \/ hal.paused \/ Lost)

(***************************************************************************)
(* "wait for all current track's data to drain before we say that the      *)
(* track is stopped": the last track is presented when the HAL has nothing *)
(* left to play.                                                           *)
(***************************************************************************)
DrainedBeforePresented ==
  [][\A t \in Track : mState[t] = "STOPPING_2" /\ mState'[t] = "STOPPED"
        /\ t = mLatestActiveTrack /\ ~mStandby => hal.level = 0]_vars

(***************************************************************************)
(* "do not write to HAL when paused".                                      *)
(***************************************************************************)
NoWriteWhilePaused == tpc = "write" => ~hal.paused

(***************************************************************************)
(* mDirectOpenCount, "number of clients using this output", goes down once *)
(* for each track.                                                         *)
(***************************************************************************)
ReleasedOnce == \A t \in Track : released[t] <= 1
=============================================================================
