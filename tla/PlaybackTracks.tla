--------------------------- MODULE PlaybackTracks ---------------------------
(***************************************************************************)
(* The states of the tracks of a mixer thread (services/audioflinger,      *)
(* Tracks.cpp and Threads.cpp): binder threads start, pause, stop, flush   *)
(* and destroy them under mLock, and the mixer thread carries the states   *)
(* on in prepareTracks_l(), once a cycle.  It gives the active fast tracks *)
(* to the fast mixer, which then pulls their frames by itself; it mixes    *)
(* the others; and it takes a track out once its last frames have left the *)
(* HAL's buffer.                                                           *)
(*                                                                         *)
(* Frames are counted in mixes.  A time in the HAL's buffer is counted in  *)
(* writes.  Any shortage of a track may be the last of its retries.        *)
(***************************************************************************)
EXTENDS Integers, FiniteSets

CONSTANTS
  Fast, Normal,     \* the tracks of either kind
  Static,           \* those with a shared buffer (mSharedBuffer != 0)
  mFrameCount,      \* the capacity of a track
  Latency,          \* audioHALFrames, in writes
  MaxTracks         \* bound on the tracks, created before the start

ASSUME TrackAssumption == Fast \cap Normal = {} /\ Static \subseteq Fast \cup Normal
ASSUME SizeAssumption == mFrameCount \in Nat \ {0} /\ Latency \in Nat /\ MaxTracks \in Nat

Track == Fast \cup Normal
track_state == {"IDLE", "FLUSHED", "STOPPED", "STOPPING_1", "STOPPING_2",
                "RESUMING", "ACTIVE", "PAUSING", "PAUSED"}
None == [state |-> "none", before |-> "none"]

VARIABLES
  \* of each Track
  mState, mTerminated, mResetDone, mFillingUpStatus,
  due,            \* writes until mPresentationCompleteFrames, -1 when that is 0
  frames,         \* in its control block
  \* of the mixer thread
  mTracks, mActiveTracks, mStandby, mMixerStatus,
  sleeping,       \* sleepTime # 0
  tpc,            \* where it is
  mixing,         \* the normal tracks enabled in the AudioMixer
  resetMask, tracksToRemove,
  mTrackMask,     \* of the fast mixer's state as edited
  aborted,        \* a LOG_ALWAYS_FATAL was met
  \* of the fast mixer
  polled,         \* mTrackMask as pushed
  underruns,      \* of each track, since the mixer thread looked
  \* of binder threads: the start() that has released mLock, if any
  starting,
  \* of the audio policy and the HAL
  outputs,        \* startOutput() calls less stopOutput() calls
  inHal           \* writes until the last frames of the track have been played

clientVars == <<mTerminated, frames, mTracks, starting>>
threadVars == <<mStandby, mMixerStatus, sleeping, tpc, mixing, resetMask,
                tracksToRemove, mTrackMask, aborted, polled>>
vars == <<mState, mResetDone, mFillingUpStatus, due, mActiveTracks, clientVars,
          threadVars, underruns, outputs, inHal>>

TypeOK ==
  /\ mState \in [Track -> track_state]
  /\ mTerminated \subseteq Track /\ mTracks \subseteq Track /\ mActiveTracks \subseteq mTracks
  /\ mResetDone \in [Track -> BOOLEAN]
  /\ mFillingUpStatus \in [Track -> {"FS_INVALID", "FS_FILLING", "FS_FILLED", "FS_ACTIVE"}]
  /\ due \in [Track -> -1 .. Latency] /\ inHal \in [Track -> 0 .. Latency]
  /\ frames \in [Track -> 0 .. mFrameCount]
  /\ mMixerStatus \in {"IDLE", "ENABLED", "READY"}
  /\ {mStandby, sleeping, aborted} \subseteq BOOLEAN
  /\ tpc \in {"prepare", "push", "write", "remove"}
  /\ mixing \subseteq Normal /\ resetMask \subseteq Fast /\ tracksToRemove \subseteq Track
  /\ mTrackMask \subseteq Fast /\ polled \subseteq Fast
  /\ underruns \in [Track -> {"none", "partial", "empty"}]
  /\ starting \in [Track -> {None} \cup [state : {"ACTIVE", "RESUMING"}, before : track_state]]
  /\ outputs \in [Track -> 0 .. 2]

Init ==
  /\ mState = [t \in Track |-> "IDLE"] /\ mTerminated = {}
  /\ mResetDone = [t \in Track |-> FALSE]
  /\ mFillingUpStatus = [t \in Track |-> "FS_INVALID"]
  /\ due = [t \in Track |-> -1] /\ frames = [t \in Track |-> IF t \in Static THEN mFrameCount ELSE 0]
  /\ mTracks \in {S \in SUBSET Track : Cardinality(S) <= MaxTracks} /\ mActiveTracks = {}
  /\ mStandby = TRUE /\ mMixerStatus = "IDLE" /\ sleeping = TRUE
  /\ tpc = "prepare" /\ mixing = {} /\ resetMask = {} /\ tracksToRemove = {}
  /\ mTrackMask = {} /\ polled = {} /\ aborted = FALSE
  /\ underruns = [t \in Track |-> "none"] /\ starting = [t \in Track |-> None]
  /\ outputs = [t \in Track |-> 0] /\ inHal = [t \in Track |-> 0]

isStopped(s) == s \in {"STOPPED", "FLUSHED"}
isStopping(s) == s \in {"STOPPING_1", "STOPPING_2"}
isTerminated(t) == t \in mTerminated

\* Track::reset() of the tracks in S, with the states and filling as they are by then.
Reset(S, st, filling) ==
  /\ mResetDone' = [t \in Track |-> mResetDone[t] \/ t \in S]
  /\ mFillingUpStatus' = [t \in Track |-> IF t \in S /\ ~mResetDone[t] THEN "FS_FILLING" ELSE filling[t]]
  /\ mState' = [t \in Track |-> IF t \in S /\ ~mResetDone[t] /\ st[t] = "FLUSHED" THEN "IDLE" ELSE st[t]]
-----------------------------------------------------------------------------
(* Binder threads: calls of the client, serialised by its own lock except   *)
(* against a start() that waits for the audio policy.                       *)

\* mLock is free: prepareTracks_l() holds it until its changes are pushed.
CanLock == tpc # "push" /\ ~aborted
Called(t) == CanLock /\ t \in mTracks /\ ~isTerminated(t)

\* The client fills its buffer except while it is being drained; it rewinds a
\* static one.
Write(t) ==
  /\ t \in mTracks /\ ~aborted
  /\ \/ t \notin mActiveTracks
     \/ t \notin Static /\ mState[t] # "STOPPED" /\ ~isStopping(mState[t])
  /\ frames[t] < mFrameCount
  /\ frames' = [frames EXCEPT ![t] = IF t \in Static THEN mFrameCount ELSE @ + 1]
  /\ UNCHANGED <<mState, mResetDone, mFillingUpStatus, due, mActiveTracks, mTerminated, mTracks,
                 starting, threadVars, underruns, outputs, inHal>>

\* Track::start() as far as addTrack_l(), which finds the track active or
\* releases mLock to ask the policy.
Start(t) ==
  /\ Called(t) /\ starting[t] = None
  /\ LET new == IF mState[t] \in {"PAUSED", "PAUSING"} THEN "RESUMING" ELSE "ACTIVE"
     IN /\ mState' = [mState EXCEPT ![t] = new]
        /\ starting' = IF t \in mActiveTracks THEN starting
                       ELSE [starting EXCEPT ![t] = [state |-> new, before |-> mState[t]]]
  /\ UNCHANGED <<mResetDone, mFillingUpStatus, due, mActiveTracks, mTerminated, frames, mTracks,
                 threadVars, underruns, outputs, inHal>>

\* The state addTrack_l() remembers is the one it finds again.
SameState_Mutant(t) == TRUE
SameState(t) == starting[t].state = mState[t]

\* startOutput() has succeeded, and the track is added.
StartGranted(t) ==
  /\ CanLock /\ starting[t] # None
  /\ SameState(t)
  /\ outputs' = [outputs EXCEPT ![t] = @ + 1]
  /\ mFillingUpStatus' = [mFillingUpStatus EXCEPT ![t] = IF t \in Static THEN "FS_FILLED" ELSE "FS_FILLING"]
  /\ mResetDone' = [mResetDone EXCEPT ![t] = FALSE]
  /\ due' = [due EXCEPT ![t] = -1]
  /\ mActiveTracks' = mActiveTracks \cup {t}
  /\ starting' = [starting EXCEPT ![t] = None]
  /\ UNCHANGED <<mState, mTerminated, frames, mTracks, threadVars, underruns, inHal>>

\* The state has changed meanwhile: an output that was granted is stopped again.
StartOvertaken_Mutant(t) ==
  /\ CanLock /\ starting[t] # None
  /\ ~SameState(t)
  /\ outputs' = [outputs EXCEPT ![t] = @ + 1]
  /\ starting' = [starting EXCEPT ![t] = None]
  /\ UNCHANGED <<mState, mResetDone, mFillingUpStatus, due, mActiveTracks, mTerminated, frames,
                 mTracks, threadVars, underruns, inHal>>
StartOvertaken(t) ==
  /\ CanLock /\ starting[t] # None
  /\ ~SameState(t)
  /\ starting' = [starting EXCEPT ![t] = None]
  /\ UNCHANGED <<mState, mResetDone, mFillingUpStatus, due, mActiveTracks, mTerminated, frames,
                 mTracks, threadVars, underruns, outputs, inHal>>

\* PERMISSION_DENIED: start() restores the state.
StartDenied(t) ==
  /\ CanLock /\ starting[t] # None
  /\ SameState(t)
  /\ mState' = [mState EXCEPT ![t] = starting[t].before]
  /\ starting' = [starting EXCEPT ![t] = None]
  /\ UNCHANGED <<mResetDone, mFillingUpStatus, due, mActiveTracks, mTerminated, frames, mTracks,
                 threadVars, underruns, outputs, inHal>>

Stop(t) ==
  /\ Called(t)
  /\ mState[t] \in {"RESUMING", "ACTIVE", "PAUSING", "PAUSED"}
  /\ LET new == IF t \in mActiveTracks /\ t \in Fast THEN "STOPPING_1" ELSE "STOPPED"
     IN Reset({t} \ mActiveTracks, [mState EXCEPT ![t] = new], mFillingUpStatus)
  /\ UNCHANGED <<due, mActiveTracks, clientVars, threadVars, underruns, outputs, inHal>>

Pause(t) ==
  /\ Called(t)
  /\ mState[t] \in {"ACTIVE", "RESUMING"}
  /\ mState' = [mState EXCEPT ![t] = "PAUSING"]
  /\ UNCHANGED <<mResetDone, mFillingUpStatus, due, mActiveTracks, clientVars, threadVars,
                 underruns, outputs, inHal>>

\* The proxy's flush() is at once here; AudioTrackShared has its steps.
Flush(t) ==
  /\ Called(t)
  /\ mState[t] \notin {"ACTIVE", "RESUMING"}
  /\ Reset({t} \ mActiveTracks, [mState EXCEPT ![t] = "FLUSHED"], mFillingUpStatus)
  /\ frames' = [frames EXCEPT ![t] = IF t \in Static THEN @ ELSE 0]
  /\ UNCHANGED <<due, mActiveTracks, mTerminated, mTracks, starting, threadVars, underruns,
                 outputs, inHal>>

\* Track::destroy(): a track that is active is left to the mixer thread.
Destroy(t) ==
  /\ Called(t) /\ starting[t] = None
  /\ mTerminated' = mTerminated \cup {t}
  /\ mState' = [mState EXCEPT ![t] = IF t \in mActiveTracks /\ t \in Fast THEN "STOPPING_1" ELSE "STOPPED"]
  /\ mTracks' = IF t \in mActiveTracks THEN mTracks ELSE mTracks \ {t}
  /\ UNCHANGED <<mResetDone, mFillingUpStatus, due, mActiveTracks, frames, starting, threadVars,
                 underruns, outputs, inHal>>

Client(t) ==
  \/ Write(t) \/ Start(t) \/ StartGranted(t) \/ StartOvertaken(t) \/ StartDenied(t)
  \/ Stop(t) \/ Pause(t) \/ Flush(t) \/ Destroy(t)
-----------------------------------------------------------------------------
(* The fast mixer pulls one mix of a track it polls, perhaps short of frames at the *)
(* last one.                                                                *)

framesReady(t) ==
  IF t \in Static /\ (isStopped(mState[t]) \/ isStopping(mState[t])) THEN 0 ELSE frames[t]

FastMix(t) ==
  /\ t \in polled /\ ~mStandby /\ ~aborted
  /\ IF framesReady(t) = 0
     THEN underruns' = [underruns EXCEPT ![t] = "empty"] /\ UNCHANGED <<frames, inHal>>
     ELSE /\ frames' = [frames EXCEPT ![t] = @ - 1]
          /\ inHal' = [inHal EXCEPT ![t] = Latency]
          /\ \/ UNCHANGED underruns
             \/ frames[t] = 1 /\ underruns' = [underruns EXCEPT ![t] = IF @ = "none" THEN "partial" ELSE @]
  /\ UNCHANGED <<mState, mResetDone, mFillingUpStatus, due, mActiveTracks, mTerminated, mTracks,
                 starting, threadVars, outputs>>
-----------------------------------------------------------------------------
(* The mixer thread *)

\* Track::presentationComplete(): the first call sets the time, a later one may
\* find it come.
Complete(t) == IF due[t] = -1 THEN Latency = 0 ELSE due[t] = 0
Presented(t) == mStandby \/ Complete(t)
Target(S) == [t \in Track |-> IF t \in S /\ ~mStandby /\ due[t] = -1 THEN Latency ELSE due[t]]

(* prepareTracks_l() of a fast track t; expired is whether its retries are used up *)

\* An inactive track, or a static one at its end, stays until it is presented.
FastEnding(t) ==
  \/ mState[t] \in {"STOPPING_2", "PAUSED", "STOPPED", "FLUSHED"}
  \/ mState[t] = "ACTIVE" /\ t \in Static /\ underruns[t] # "none"
FastTimeout(t, expired) ==
  mState[t] = "ACTIVE" /\ t \notin Static /\ underruns[t] = "empty" /\ expired
FastLeaves(t, expired) == FastTimeout(t, expired) \/ (FastEnding(t) /\ Presented(t))
FastState_Mutant(t, leaves) ==
  CASE mState[t] = "PAUSING" -> "PAUSED"
    [] mState[t] = "RESUMING" -> "ACTIVE"
    [] mState[t] = "STOPPING_2" /\ leaves -> "STOPPED"
    [] OTHER -> mState[t]
FastState(t, leaves) ==
  CASE mState[t] = "STOPPING_1" /\ (underruns[t] # "none" \/ isTerminated(t)) -> "STOPPING_2"
    [] mState[t] = "PAUSING" -> "PAUSED"
    [] mState[t] = "RESUMING" -> "ACTIVE"
    [] mState[t] = "STOPPING_2" /\ leaves -> "STOPPED"
    [] OTHER -> mState[t]

\* LOG_ALWAYS_FATAL: a state that no active track has, or a track that is done with
\* before the fast mixer was given it.
FastFatal(t, leaves) == mState[t] = "IDLE" \/ (leaves /\ t \notin mTrackMask)

(* prepareTracks_l() of a normal track t *)

NormalFilled(t) ==
  IF mFillingUpStatus[t] = "FS_FILLING" /\ ~isStopped(mState[t]) /\ mState[t] # "PAUSING"
     /\ framesReady(t) >= mFrameCount
  THEN "FS_FILLED" ELSE mFillingUpStatus[t]
isReady(t) == NormalFilled(t) # "FS_FILLING" \/ isStopped(mState[t]) \/ mState[t] = "PAUSING"
Mixable(t) == framesReady(t) > 0 /\ isReady(t) /\ mState[t] # "PAUSED" /\ ~isTerminated(t)
\* "We have consumed all the buffers of this track."
NormalEnding(t) ==
  ~Mixable(t) /\ (t \in Static \/ isTerminated(t) \/ isStopped(mState[t]) \/ mState[t] = "PAUSED")
NormalWaits(t) == ~Mixable(t) /\ ~NormalEnding(t)
NormalLeaves(t, expired) == (NormalEnding(t) /\ Presented(t)) \/ (NormalWaits(t) /\ expired)
NormalState(t) ==
  CASE Mixable(t) /\ mState[t] = "PAUSING" -> "PAUSED"
    [] Mixable(t) /\ mState[t] = "RESUMING" /\ NormalFilled(t) = "FS_FILLED" -> "ACTIVE"
    [] OTHER -> mState[t]

\* What the cycle does without the fast tracks.
MixerStatus(ready, waiting) ==
  IF ready = {} /\ waiting = {} THEN "IDLE"
  ELSE IF waiting = {} \/ (mMixerStatus # "READY" /\ ready # {}) THEN "READY" ELSE "ENABLED"

\* The tracks whose reset waits for the fast mixer's acknowledgement, and those reset at once.
DeferReset_Mutant(S) == {}
DeferReset(S) == S \cap Fast

\* prepareTracks_l() up to sq->push().
prepareTracks_l(expired) ==
  LET fast == mActiveTracks \cap Fast
      normal == mActiveTracks \cap Normal
      leaving == {t \in fast : FastLeaves(t, t \in expired)} \cup {t \in normal : NormalLeaves(t, t \in expired)}
      state == [t \in Track |-> IF t \in fast THEN FastState(t, t \in leaving)
                                ELSE IF t \in normal THEN NormalState(t) ELSE mState[t]]
      stopped == {t \in leaving : isStopped(state[t])}
      ready == {t \in normal : Mixable(t)}
  IN /\ tpc = "prepare" /\ ~aborted
     /\ mActiveTracks # {} \/ ~mStandby
     /\ expired \subseteq mActiveTracks
     /\ aborted' = (\E t \in fast : FastFatal(t, t \in leaving))
     /\ due' = Target({t \in fast : FastEnding(t)} \cup {t \in normal : NormalEnding(t)})
     /\ Reset(stopped \ DeferReset(stopped), state,
              [t \in Track |-> IF t \notin normal THEN mFillingUpStatus[t]
                               ELSE IF t \in ready /\ NormalFilled(t) = "FS_FILLED" THEN "FS_ACTIVE"
                               ELSE NormalFilled(t)])
     /\ resetMask' = DeferReset(stopped)
     /\ tracksToRemove' = leaving
     /\ mTrackMask' = (mTrackMask \cup fast) \ leaving
     /\ underruns' = [t \in Track |-> IF t \in fast THEN "none" ELSE underruns[t]]
     /\ mMixerStatus' = MixerStatus(ready, {t \in normal : NormalWaits(t)} \ leaving)
     /\ mixing' = ready
     /\ tpc' = "push"
     /\ UNCHANGED <<mActiveTracks, clientVars, mStandby, sleeping, polled, outputs, inHal>>

\* The rest of prepareTracks_l(): the push is acknowledged, then the deferred resets
\* and removeTracks_l(); mLock is released.
Pushed ==
  /\ tpc = "push" /\ ~aborted
  /\ polled' = mTrackMask
  /\ Reset(resetMask, mState, mFillingUpStatus) /\ resetMask' = {}
  /\ mActiveTracks' = mActiveTracks \ tracksToRemove
  /\ mTracks' = mTracks \ (tracksToRemove \cap mTerminated)
  /\ tpc' = "write"
  /\ UNCHANGED <<due, mTerminated, frames, starting, mStandby, mMixerStatus, sleeping, mixing,
                 tracksToRemove, mTrackMask, aborted, underruns, outputs, inHal>>

\* threadLoop_mix() or threadLoop_sleepTime(), and threadLoop_write() if there is
\* something to write: a mix, or silence every other cycle.
Mixes == mMixerStatus = "READY" \/ mTrackMask # {}
Writes == Mixes \/ (sleeping /\ (~mStandby \/ mMixerStatus = "ENABLED"))

\* A client may have flushed what prepareTracks_l() found ready.
Mixed == {t \in mixing : frames[t] > 0}

WriteOut ==
  LET mixed == IF Mixes THEN Mixed ELSE {}
  IN /\ tpc = "write" /\ ~aborted
     /\ frames' = [t \in Track |-> IF t \in mixed THEN frames[t] - 1 ELSE frames[t]]
     /\ sleeping' = IF Mixes THEN FALSE ELSE ~(sleeping /\ Writes)
     /\ IF Writes
        THEN /\ mStandby' = FALSE
             /\ due' = [t \in Track |-> IF due[t] > 0 THEN due[t] - 1 ELSE due[t]]
             /\ inHal' = [t \in Track |-> IF t \in mixed THEN Latency
                                          ELSE IF inHal[t] > 0 THEN inHal[t] - 1 ELSE 0]
        ELSE UNCHANGED <<mStandby, due, inHal>>
     /\ tpc' = "remove"
     /\ UNCHANGED <<mState, mResetDone, mFillingUpStatus, mActiveTracks, mTerminated, mTracks,
                    starting, mMixerStatus, mixing, resetMask, tracksToRemove, mTrackMask, aborted,
                    polled, underruns, outputs>>

\* stopOutput() for what has been removed, with no lock held.
threadLoop_removeTracks ==
  /\ tpc = "remove" /\ ~aborted
  /\ outputs' = [t \in Track |-> IF t \in tracksToRemove THEN outputs[t] - 1 ELSE outputs[t]]
  /\ tracksToRemove' = {} /\ mixing' = {}
  /\ tpc' = "prepare"
  /\ UNCHANGED <<mState, mResetDone, mFillingUpStatus, due, mActiveTracks, clientVars, mStandby,
                 mMixerStatus, sleeping, resetMask, mTrackMask, aborted, polled, underruns, inHal>>

\* Nothing has been active for standbyDelay: the HAL is put in standby, and the
\* thread sleeps until it is woken.
Standby ==
  /\ tpc = "prepare" /\ ~aborted
  /\ mActiveTracks = {} /\ ~mStandby
  /\ mStandby' = TRUE /\ mMixerStatus' = "IDLE" /\ sleeping' = TRUE
  /\ inHal' = [t \in Track |-> 0]
  /\ UNCHANGED <<mState, mResetDone, mFillingUpStatus, due, mActiveTracks, clientVars, tpc, mixing,
                 resetMask, tracksToRemove, mTrackMask, aborted, polled, underruns, outputs>>

Cycle ==
  \/ \E expired \in SUBSET mActiveTracks : prepareTracks_l(expired)
  \/ Pushed \/ WriteOut \/ threadLoop_removeTracks

Next == Cycle \/ Standby \/ \E t \in Track : Client(t) \/ FastMix(t)

Spec == Init /\ [][Next]_vars

\* The mixer thread does not stop in the middle of a cycle, nor at all while a track
\* is active; the fast mixer runs on.
Fairness == WF_vars(Cycle) /\ \A t \in Fast : WF_vars(FastMix(t))
FairSpec == Spec /\ Fairness
-----------------------------------------------------------------------------
(* Properties *)

(***************************************************************************)
(* Every startOutput() that the policy has granted is matched by one       *)
(* stopOutput(), which comes after the track was taken out and with no     *)
(* lock held, whatever start(), stop() and flush() do between.             *)
(***************************************************************************)
OutputsAreCounted ==
  \A t \in Track :
    outputs[t] = (IF t \in mActiveTracks THEN 1 ELSE 0)
               + (IF t \in tracksToRemove /\ tpc # "push" THEN 1 ELSE 0)

(***************************************************************************)
(* An active track is never IDLE, the state that prepareTracks_l() calls   *)
(* unexpected and dies of: a start() overtaken by stop() and flush() does  *)
(* not add its track, and one that prepareTracks_l() resets is taken out   *)
(* before mLock is free.                                                   *)
(***************************************************************************)
NoIdleTrackActive == tpc # "push" => \A t \in mActiveTracks : mState[t] # "IDLE"

(***************************************************************************)
(* "Can't reset directly, as fast mixer is still polling this track": a    *)
(* track is reset when the fast mixer has let it go, and the state that    *)
(* made it be removed is still the one it has (ALOG_ASSERT at the reset).  *)
(***************************************************************************)
ResetIsUnpolled ==
  [][\A t \in Track : ~mResetDone[t] /\ mResetDone'[t] => 
       t \notin polled' /\ (t \in mActiveTracks => isStopped(mState[t]))]_vars

(***************************************************************************)
(* A track that is stopped or destroyed while active is drained, presented *)
(* and taken out, unless it is started or flushed meanwhile.               *)
(***************************************************************************)
Ending(t) == t \in mActiveTracks /\ (mState[t] = "STOPPED" \/ isStopping(mState[t]))
StoppedTrackLeaves == \A t \in Track : Ending(t) ~> (~Ending(t) \/ aborted)

(***************************************************************************)
(* mPresentationCompleteFrames: "number of frames written to the audio HAL *)
(* when this track will be fully rendered".  A stopped track is taken out  *)
(* when its last frames have left the HAL's buffer.                        *)
(***************************************************************************)
PlayedOut ==
  [][\A t \in mActiveTracks \ mActiveTracks' :
       mState[t] = "STOPPED" /\ ~isTerminated(t) /\ ~mStandby => inHal[t] = 0]_vars

(***************************************************************************)
(* "fast track %d should have been active": no track that the fast mixer   *)
(* was never given is done with.                                           *)
(***************************************************************************)
NeverAborts == ~aborted
=============================================================================
