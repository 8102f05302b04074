------------------------ MODULE PlaybackThreadProofs ------------------------
(***************************************************************************)
(* Proofs about the two kinds of PlaybackThread.  About PlaybackTracks,    *)
(* the mixer thread's, for every set of fast, normal and static tracks,    *)
(* every capacity of a track and every latency of the HAL: the policy's    *)
(* outputs are counted, prepareTracks_l() meets no IDLE track, and a track *)
(* is reset only when the fast mixer has let it go.  About OffloadThread   *)
(* (Off), for every set of tracks and sessions, every size of the HAL and  *)
(* every range of sequence numbers: an answer of the HAL ends the wait     *)
(* that it belongs to and no other, and the offload thread never waits for *)
(* an answer that has been given or discarded.                             *)
(***************************************************************************)
EXTENDS PlaybackTracks, TLAPS

-----------------------------------------------------------------------------
(* The mixer thread: PlaybackTracks *)

\* A start() that has released mLock: its track is there, not active and cannot
\* be destroyed.
Starting ==
  \A t \in Track : starting[t] # None =>
    t \in mTracks /\ t \notin mTerminated /\ t \notin mActiveTracks

\* The tracks that prepareTracks_l() has found done with, but not yet taken out.
Leaving == IF tpc = "push" THEN tracksToRemove ELSE {}

\* The fast mixer has the active fast tracks or fewer.
Polling == mTrackMask \subseteq mActiveTracks \ Leaving /\ polled \subseteq mActiveTracks

\* The removals and resets of a cycle.
Removal ==
  /\ tpc = "prepare" => tracksToRemove = {}
  /\ Leaving \subseteq mActiveTracks
  /\ resetMask \subseteq Leaving
  /\ \A t \in resetMask : isStopped(mState[t])

\* An IDLE track is on its way out.
NoIdle == \A t \in mActiveTracks \ Leaving : mState[t] # "IDLE"

IInv == TypeOK /\ Starting /\ Polling /\ Removal /\ NoIdle /\ OutputsAreCounted
-----------------------------------------------------------------------------
(* Track::reset() *)

(***************************************************************************)
(* reset() takes a FLUSHED track to IDLE and leaves every other state as   *)
(* it is by then.                                                          *)
(***************************************************************************)
LEMMA ResetFacts ==
  ASSUME TypeOK, NEW S, NEW st \in [Track -> track_state],
         NEW filling \in [Track -> {"FS_INVALID", "FS_FILLING", "FS_FILLED", "FS_ACTIVE"}],
         Reset(S, st, filling)
  PROVE  /\ mState' \in [Track -> track_state]
         /\ mResetDone' \in [Track -> BOOLEAN]
         /\ mFillingUpStatus' \in [Track -> {"FS_INVALID", "FS_FILLING", "FS_FILLED", "FS_ACTIVE"}]
         /\ \A t \in Track : mState'[t] = st[t] \/ (t \in S /\ mState'[t] = "IDLE")
         /\ \A t \in Track : mResetDone'[t] => mResetDone[t] \/ t \in S
<1>1. \A t \in Track : mResetDone[t] \in BOOLEAN
  BY DEF TypeOK
<1>2. mResetDone' \in [Track -> BOOLEAN]
  BY DEF Reset
<1>3. mState' \in [Track -> track_state]
  BY DEF Reset, track_state
<1>4. mFillingUpStatus' \in [Track -> {"FS_INVALID", "FS_FILLING", "FS_FILLED", "FS_ACTIVE"}]
  BY DEF Reset
<1> QED
  BY <1>2, <1>3, <1>4 DEF Reset
-----------------------------------------------------------------------------
(* The clients' steps *)

LEMMA InitInv == ASSUME Init PROVE IInv
<1> USE DEF Init
<1>1. TypeOK
  <2>1. {"IDLE"} \subseteq track_state /\ -1 \in -1 .. Latency /\ 0 \in 0 .. Latency
        /\ {0, mFrameCount} \subseteq 0 .. mFrameCount
    BY SizeAssumption DEF track_state
  <2>2. mStandby \in BOOLEAN /\ sleeping \in BOOLEAN /\ aborted \in BOOLEAN
    OBVIOUS
  <2>3. mTracks \subseteq Track
    OBVIOUS
  <2> QED
    BY <2>1, <2>2, <2>3 DEF TypeOK
<1>2. Starting /\ Polling /\ Removal /\ NoIdle /\ OutputsAreCounted
  BY DEF Starting, Polling, Removal, NoIdle, Leaving, OutputsAreCounted
<1> QED
  BY <1>1, <1>2 DEF IInv

LEMMA WriteInv == ASSUME IInv, NEW t \in Track, Write(t) PROVE IInv'
<1> USE DEF IInv, Write, threadVars
<1>1. TypeOK'
  BY SizeAssumption DEF TypeOK
<1>2. (Starting /\ Polling /\ Removal /\ NoIdle /\ OutputsAreCounted)'
  BY DEF Starting, Polling, Removal, NoIdle, Leaving, OutputsAreCounted
<1> QED
  BY <1>1, <1>2

LEMMA StartInv == ASSUME IInv, NEW t \in Track, Start(t) PROVE IInv'
<1> USE DEF IInv, Start, threadVars
<1>1. tpc # "push" /\ t \in mTracks /\ t \notin mTerminated
  BY DEF Called, CanLock, isTerminated
<1>2. \A u \in Track : mState'[u] = mState[u] \/ mState'[u] \in {"ACTIVE", "RESUMING"}
  BY DEF TypeOK
<1>3. \A u \in Track : starting'[u] = starting[u] \/ (u = t /\ t \notin mActiveTracks)
  BY DEF TypeOK
<1>4. TypeOK'
  BY DEF TypeOK, track_state
<1>5. (Starting /\ Polling /\ Removal /\ NoIdle /\ OutputsAreCounted)'
  BY <1>1, <1>2, <1>3 DEF TypeOK, Starting, Polling, Removal, NoIdle, Leaving, OutputsAreCounted
<1> QED
  BY <1>4, <1>5

LEMMA StartGrantedInv == ASSUME IInv, NEW t \in Track, StartGranted(t) PROVE IInv'
<1> USE DEF IInv, StartGranted, threadVars
<1>1. tpc # "push" /\ t \in mTracks /\ t \notin mActiveTracks
  BY DEF CanLock, Starting
<1>2. mState[t] \in {"ACTIVE", "RESUMING"}
  BY DEF TypeOK, SameState
<1>3. \A u \in Track : starting'[u] = IF u = t THEN None ELSE starting[u]
  BY DEF TypeOK
<1>4. \A u \in Track : outputs'[u] = IF u = t THEN outputs[u] + 1 ELSE outputs[u]
  BY DEF TypeOK
<1>5. outputs[t] \in 0 .. 1
  BY <1>1 DEF OutputsAreCounted
<1>6. OutputsAreCounted'
  BY <1>1, <1>4 DEF OutputsAreCounted
<1>7. TypeOK'
  BY <1>1, <1>3, <1>5, SizeAssumption DEF TypeOK
<1>8. (Starting /\ Polling /\ Removal /\ NoIdle)'
  BY <1>1, <1>2, <1>3 DEF TypeOK, Starting, Polling, Removal, NoIdle, Leaving
<1> QED
  BY <1>6, <1>7, <1>8

LEMMA StartOvertakenInv == ASSUME IInv, NEW t \in Track, StartOvertaken(t) PROVE IInv'
<1> USE DEF IInv, StartOvertaken, threadVars
<1>1. \A u \in Track : starting'[u] = IF u = t THEN None ELSE starting[u]
  BY DEF TypeOK
<1>2. TypeOK'
  BY <1>1 DEF TypeOK
<1>3. (Starting /\ Polling /\ Removal /\ NoIdle /\ OutputsAreCounted)'
  BY <1>1 DEF Starting, Polling, Removal, NoIdle, Leaving, OutputsAreCounted
<1> QED
  BY <1>2, <1>3

LEMMA StartDeniedInv == ASSUME IInv, NEW t \in Track, StartDenied(t) PROVE IInv'
<1> USE DEF IInv, StartDenied, threadVars
<1>1. tpc # "push" /\ t \notin mActiveTracks
  BY DEF CanLock, Starting
<1>2. \A u \in Track : starting'[u] = IF u = t THEN None ELSE starting[u]
  BY DEF TypeOK
<1>3. \A u \in Track \ {t} : mState'[u] = mState[u]
  BY DEF TypeOK
<1>4. starting[t].before \in track_state
  BY DEF TypeOK
<1>5. TypeOK'
  BY <1>2, <1>4 DEF TypeOK
<1>6. (Starting /\ Polling /\ Removal /\ NoIdle /\ OutputsAreCounted)'
  BY <1>1, <1>2, <1>3 DEF TypeOK, Starting, Polling, Removal, NoIdle, Leaving, OutputsAreCounted
<1> QED
  BY <1>5, <1>6

LEMMA StopInv == ASSUME IInv, NEW t \in Track, Stop(t) PROVE IInv'
<1> USE DEF IInv, clientVars, threadVars
<1> DEFINE new == IF t \in mActiveTracks /\ t \in Fast THEN "STOPPING_1" ELSE "STOPPED"
           st == [mState EXCEPT ![t] = new]
<1>1. /\ tpc # "push" /\ Reset({t} \ mActiveTracks, st, mFillingUpStatus)
      /\ UNCHANGED <<due, mActiveTracks, clientVars, threadVars, underruns, outputs, inHal>>
  BY DEF Stop, Called, CanLock
<1>2. st \in [Track -> track_state]
  BY DEF TypeOK, track_state
<1> HIDE DEF st
<1>3. /\ mState' \in [Track -> track_state] /\ mResetDone' \in [Track -> BOOLEAN]
      /\ mFillingUpStatus' \in [Track -> {"FS_INVALID", "FS_FILLING", "FS_FILLED", "FS_ACTIVE"}]
      /\ \A u \in mActiveTracks : mState'[u] = st[u]
  <2>1. /\ TypeOK /\ mActiveTracks \subseteq Track
        /\ mFillingUpStatus \in [Track -> {"FS_INVALID", "FS_FILLING", "FS_FILLED", "FS_ACTIVE"}]
    BY DEF TypeOK
  <2>2. \A u \in Track : mState'[u] = st[u] \/ u \in {t} \ mActiveTracks
    BY <1>1, <1>2, <2>1, ResetFacts
  <2> QED
    BY <1>1, <1>2, <2>1, <2>2, ResetFacts
<1>4. \A u \in mActiveTracks : mState'[u] = mState[u] \/ mState'[u] \in {"STOPPING_1", "STOPPED"}
  BY <1>3 DEF TypeOK, st
<1>5. TypeOK'
  BY <1>1, <1>3 DEF TypeOK
<1>6. (Starting /\ Polling /\ Removal /\ NoIdle /\ OutputsAreCounted)'
  BY <1>1, <1>4 DEF Starting, Polling, Removal, NoIdle, Leaving, OutputsAreCounted
<1> QED
  BY <1>5, <1>6

LEMMA PauseInv == ASSUME IInv, NEW t \in Track, Pause(t) PROVE IInv'
<1> USE DEF IInv, Pause, clientVars, threadVars
<1>1. tpc # "push" /\ \A u \in Track : mState'[u] = mState[u] \/ mState'[u] = "PAUSING"
  BY DEF Called, CanLock, TypeOK
<1>2. TypeOK'
  BY DEF TypeOK, track_state
<1>3. (Starting /\ Polling /\ Removal /\ NoIdle /\ OutputsAreCounted)'
  BY <1>1 DEF TypeOK, Starting, Polling, Removal, NoIdle, Leaving, OutputsAreCounted
<1> QED
  BY <1>2, <1>3

LEMMA FlushInv == ASSUME IInv, NEW t \in Track, Flush(t) PROVE IInv'
<1> USE DEF IInv, threadVars
<1> DEFINE st == [mState EXCEPT ![t] = "FLUSHED"]
<1>1. /\ tpc # "push" /\ Reset({t} \ mActiveTracks, st, mFillingUpStatus)
      /\ frames' = [frames EXCEPT ![t] = IF t \in Static THEN @ ELSE 0]
      /\ UNCHANGED <<due, mActiveTracks, mTerminated, mTracks, starting, threadVars, underruns,
                     outputs, inHal>>
  BY DEF Flush, Called, CanLock
<1>2. st \in [Track -> track_state]
  BY DEF TypeOK, track_state
<1> HIDE DEF st
<1>3. /\ mState' \in [Track -> track_state] /\ mResetDone' \in [Track -> BOOLEAN]
      /\ mFillingUpStatus' \in [Track -> {"FS_INVALID", "FS_FILLING", "FS_FILLED", "FS_ACTIVE"}]
      /\ \A u \in mActiveTracks : mState'[u] = st[u]
  <2>1. /\ TypeOK /\ mActiveTracks \subseteq Track
        /\ mFillingUpStatus \in [Track -> {"FS_INVALID", "FS_FILLING", "FS_FILLED", "FS_ACTIVE"}]
    BY DEF TypeOK
  <2>2. \A u \in Track : mState'[u] = st[u] \/ u \in {t} \ mActiveTracks
    BY <1>1, <1>2, <2>1, ResetFacts
  <2> QED
    BY <1>1, <1>2, <2>1, <2>2, ResetFacts
<1>4. \A u \in mActiveTracks : mState'[u] = mState[u] \/ mState'[u] = "FLUSHED"
  BY <1>3 DEF TypeOK, st
<1>5. TypeOK'
  <2>1. frames' \in [Track -> 0 .. mFrameCount]
    BY <1>1, SizeAssumption DEF TypeOK
  <2> QED
    BY <1>1, <1>3, <2>1 DEF TypeOK
<1>6. (Starting /\ Polling /\ Removal /\ NoIdle /\ OutputsAreCounted)'
  BY <1>1, <1>4 DEF Starting, Polling, Removal, NoIdle, Leaving, OutputsAreCounted
<1> QED
  BY <1>5, <1>6

LEMMA DestroyInv == ASSUME IInv, NEW t \in Track, Destroy(t) PROVE IInv'
<1> USE DEF IInv, Destroy, threadVars
<1>1. tpc # "push" /\ \A u \in Track : mState'[u] = mState[u] \/ mState'[u] \in {"STOPPING_1", "STOPPED"}
  BY DEF Called, CanLock, TypeOK
<1>2. TypeOK'
  BY DEF TypeOK, track_state
<1>3. (Starting /\ Polling /\ Removal /\ NoIdle /\ OutputsAreCounted)'
  BY <1>1 DEF TypeOK, Starting, Polling, Removal, NoIdle, Leaving, OutputsAreCounted
<1> QED
  BY <1>2, <1>3
-----------------------------------------------------------------------------
(* The fast mixer's and the mixer thread's steps *)

LEMMA FastMixInv == ASSUME IInv, NEW t \in Track, FastMix(t) PROVE IInv'
<1> USE DEF IInv, FastMix, threadVars
<1>1. framesReady(t) # 0 => frames[t] > 0
  BY DEF framesReady, TypeOK
<1>2. TypeOK'
  BY <1>1, SizeAssumption DEF TypeOK
<1>3. (Starting /\ Polling /\ Removal /\ NoIdle /\ OutputsAreCounted)'
  BY DEF Starting, Polling, Removal, NoIdle, Leaving, OutputsAreCounted
<1> QED
  BY <1>2, <1>3

\* What prepareTracks_l() makes of the states of the active tracks.
LEMMA NextStates ==
  ASSUME TypeOK, NEW t \in Track, NEW leaves \in BOOLEAN
  PROVE  /\ FastState(t, leaves) \in track_state /\ NormalState(t) \in track_state
         /\ mState[t] # "IDLE" => FastState(t, leaves) # "IDLE" /\ NormalState(t) # "IDLE"
         /\ isStopped(NormalState(t)) => isStopped(mState[t])
  BY DEF TypeOK, track_state, FastState, NormalState, isStopped

LEMMA PrepareTracksInv ==
  ASSUME IInv, NEW expired \in SUBSET mActiveTracks, prepareTracks_l(expired)
  PROVE  IInv'
<1> USE DEF IInv, clientVars
<1> DEFINE fast == mActiveTracks \cap Fast
           normal == mActiveTracks \cap Normal
           leaving == {t \in fast : FastLeaves(t, t \in expired)} \cup {t \in normal : NormalLeaves(t, t \in expired)}
           st == [t \in Track |-> IF t \in fast THEN FastState(t, t \in leaving)
                                  ELSE IF t \in normal THEN NormalState(t) ELSE mState[t]]
           stopped == {t \in leaving : isStopped(st[t])}
           ready == {t \in normal : Mixable(t)}
           filling == [t \in Track |-> IF t \notin normal THEN mFillingUpStatus[t]
                               ELSE IF t \in ready /\ NormalFilled(t) = "FS_FILLED" THEN "FS_ACTIVE"
                               ELSE NormalFilled(t)]
<1>1. /\ tpc = "prepare" /\ tpc' = "push"
      /\ aborted' \in BOOLEAN
      /\ due' = Target({t \in fast : FastEnding(t)} \cup {t \in normal : NormalEnding(t)})
      /\ Reset(stopped \ DeferReset(stopped), st, filling)
      /\ resetMask' = DeferReset(stopped)
      /\ tracksToRemove' = leaving
      /\ mTrackMask' = (mTrackMask \cup fast) \ leaving
      /\ underruns' = [t \in Track |-> IF t \in fast THEN "none" ELSE underruns[t]]
      /\ mMixerStatus' = MixerStatus(ready, {t \in normal : NormalWaits(t)} \ leaving)
      /\ mixing' = ready
      /\ UNCHANGED <<mActiveTracks, clientVars, mStandby, sleeping, polled, outputs, inHal>>
  BY DEF prepareTracks_l
<1>2. leaving \subseteq mActiveTracks /\ stopped \subseteq leaving /\ tracksToRemove = {}
  BY <1>1 DEF Removal
<1>3. ASSUME NEW t \in Track
      PROVE  /\ st[t] \in track_state
             /\ t \in mActiveTracks /\ mState[t] # "IDLE" => st[t] # "IDLE"
  <2>1. (t \in leaving) \in BOOLEAN
    OBVIOUS
  <2> HIDE DEF leaving
  <2> QED
    BY <2>1, NextStates DEF TypeOK
<1>4. filling \in [Track -> {"FS_INVALID", "FS_FILLING", "FS_FILLED", "FS_ACTIVE"}]
  BY DEF NormalFilled, TypeOK
<1> HIDE DEF filling
<1>5. /\ mState' \in [Track -> track_state] /\ mResetDone' \in [Track -> BOOLEAN]
      /\ mFillingUpStatus' \in [Track -> {"FS_INVALID", "FS_FILLING", "FS_FILLED", "FS_ACTIVE"}]
      /\ \A t \in Track : mState'[t] = st[t] \/ (t \in stopped \ DeferReset(stopped) /\ mState'[t] = "IDLE")
  <2>1. st \in [Track -> track_state]
    BY <1>3
  <2> HIDE DEF st, stopped
  <2> QED
    BY <1>1, <1>4, <2>1, ResetFacts
<1>6. TypeOK'
  <2>1. due' \in [Track -> -1 .. Latency]
    BY <1>1, SizeAssumption DEF Target, TypeOK
  <2>2. mMixerStatus' \in {"IDLE", "ENABLED", "READY"}
    BY <1>1 DEF MixerStatus
  <2>3. underruns' \in [Track -> {"none", "partial", "empty"}]
    BY <1>1 DEF TypeOK
  <2>4. /\ resetMask' \subseteq Fast /\ tracksToRemove' \subseteq Track
        /\ mTrackMask' \subseteq Fast /\ mixing' \subseteq Normal
    BY <1>1, <1>2 DEF DeferReset, TypeOK
  <2> HIDE DEF leaving, st, stopped, ready
  <2> QED
    BY <1>1, <1>5, <2>1, <2>2, <2>3, <2>4 DEF TypeOK
<1>7. NoIdle'
  <2>1. ASSUME NEW t \in mActiveTracks \ leaving PROVE mState'[t] # "IDLE"
    <3>1. t \in Track /\ mState[t] # "IDLE"
      BY <1>1 DEF TypeOK, NoIdle, Leaving
    <3>2. st[t] # "IDLE"
      BY <1>3, <3>1
    <3> QED
      BY <1>2, <1>5, <3>1, <3>2
  <2> QED
    BY <1>1, <2>1 DEF NoIdle, Leaving
<1>8. Removal'
  <2>1. ASSUME NEW t \in DeferReset(stopped) PROVE isStopped(mState'[t])
    BY <1>2, <1>5, <2>1 DEF DeferReset, TypeOK
  <2> QED
    BY <1>1, <1>2, <2>1 DEF Removal, Leaving, DeferReset
<1>9. (Starting /\ Polling /\ OutputsAreCounted)'
  BY <1>1, <1>2 DEF Starting, Polling, Leaving, OutputsAreCounted
<1> QED
  BY <1>6, <1>7, <1>8, <1>9

LEMMA PushedInv == ASSUME IInv, Pushed PROVE IInv'
<1> USE DEF IInv
<1>1. /\ tpc = "push" /\ tpc' = "write" /\ polled' = mTrackMask
      /\ Reset(resetMask, mState, mFillingUpStatus) /\ resetMask' = {}
      /\ mActiveTracks' = mActiveTracks \ tracksToRemove
      /\ mTracks' = mTracks \ (tracksToRemove \cap mTerminated)
      /\ UNCHANGED <<due, mTerminated, frames, starting, mStandby, mMixerStatus, sleeping, mixing,
                     tracksToRemove, mTrackMask, aborted, underruns, outputs, inHal>>
  BY DEF Pushed
<1>2. /\ mState' \in [Track -> track_state] /\ mResetDone' \in [Track -> BOOLEAN]
      /\ mFillingUpStatus' \in [Track -> {"FS_INVALID", "FS_FILLING", "FS_FILLED", "FS_ACTIVE"}]
      /\ \A t \in Track : mState'[t] = mState[t] \/ t \in resetMask
  BY <1>1, ResetFacts DEF TypeOK
<1>3. Leaving = tracksToRemove /\ Leaving' = {}
  BY <1>1 DEF Leaving
<1>4. TypeOK'
  BY <1>1, <1>2 DEF TypeOK
<1>5. NoIdle'
  BY <1>1, <1>2, <1>3 DEF NoIdle, Removal, TypeOK
<1>6. (Starting /\ Polling /\ Removal)'
  BY <1>1, <1>3 DEF Starting, Polling, Removal
<1>7. OutputsAreCounted'
  BY <1>1, <1>3 DEF OutputsAreCounted, Removal
<1> QED
  BY <1>4, <1>5, <1>6, <1>7

LEMMA WriteOutInv == ASSUME IInv, WriteOut PROVE IInv'
<1> USE DEF IInv
<1> DEFINE mixed == IF Mixes THEN Mixed ELSE {}
<1>1. /\ tpc = "write" /\ tpc' = "remove"
      /\ frames' = [t \in Track |-> IF t \in mixed THEN frames[t] - 1 ELSE frames[t]]
      /\ sleeping' \in BOOLEAN
      /\ mStandby' \in {mStandby, FALSE}
      /\ due' = due \/ due' = [t \in Track |-> IF due[t] > 0 THEN due[t] - 1 ELSE due[t]]
      /\ inHal' = inHal \/ inHal' = [t \in Track |-> IF t \in mixed THEN Latency
                                          ELSE IF inHal[t] > 0 THEN inHal[t] - 1 ELSE 0]
      /\ UNCHANGED <<mState, mResetDone, mFillingUpStatus, mActiveTracks, mTerminated, mTracks,
                     starting, mMixerStatus, mixing, resetMask, tracksToRemove, mTrackMask, aborted,
                     polled, underruns, outputs>>
  BY DEF WriteOut, TypeOK
<1>2. \A t \in mixed : frames[t] > 0
  BY DEF Mixed
<1> HIDE DEF mixed
<1>3. /\ frames' \in [Track -> 0 .. mFrameCount] /\ due' \in [Track -> -1 .. Latency]
      /\ inHal' \in [Track -> 0 .. Latency]
  BY <1>1, <1>2, SizeAssumption DEF TypeOK
<1>4. TypeOK'
  BY <1>1, <1>3 DEF TypeOK
<1>5. (Starting /\ Polling /\ Removal /\ NoIdle /\ OutputsAreCounted)'
  BY <1>1 DEF Starting, Polling, Removal, NoIdle, Leaving, OutputsAreCounted
<1> QED
  BY <1>4, <1>5

LEMMA RemoveTracksInv == ASSUME IInv, threadLoop_removeTracks PROVE IInv'
<1> USE DEF IInv, threadLoop_removeTracks, clientVars
<1>1. OutputsAreCounted' /\ outputs' \in [Track -> 0 .. 2]
  BY DEF OutputsAreCounted, TypeOK
<1>2. TypeOK'
  BY <1>1 DEF TypeOK
<1>3. (Starting /\ Polling /\ Removal /\ NoIdle)'
  BY DEF Starting, Polling, Removal, NoIdle, Leaving
<1> QED
  BY <1>1, <1>2, <1>3

LEMMA StandbyInv == ASSUME IInv, Standby PROVE IInv'
<1> USE DEF IInv, Standby, clientVars
<1>1. TypeOK'
  BY SizeAssumption DEF TypeOK
<1>2. (Starting /\ Polling /\ Removal /\ NoIdle /\ OutputsAreCounted)'
  BY DEF Starting, Polling, Removal, NoIdle, Leaving, OutputsAreCounted
<1> QED
  BY <1>1, <1>2

LEMMA NextInv == ASSUME IInv, [Next]_vars PROVE IInv'
<1>1. CASE UNCHANGED vars
  BY <1>1 DEF vars, clientVars, threadVars, IInv, TypeOK, Starting, Polling, Removal, NoIdle,
              Leaving, OutputsAreCounted
<1>2. CASE Cycle \/ Standby
  BY <1>2, PrepareTracksInv, PushedInv, WriteOutInv, RemoveTracksInv, StandbyInv DEF Cycle
<1>3. ASSUME NEW t \in Track, Client(t) \/ FastMix(t) PROVE IInv'
  BY <1>3, WriteInv, StartInv, StartGrantedInv, StartOvertakenInv, StartDeniedInv, StopInv,
     PauseInv, FlushInv, DestroyInv, FastMixInv
  DEF Client
<1> QED
  BY <1>1, <1>2, <1>3 DEF Next
-----------------------------------------------------------------------------
(* The theorems *)

(***************************************************************************)
(* The invariant holds whatever the clients call and the policy answers.   *)
(***************************************************************************)
THEOREM Invariant == Spec => []IInv
<1>1. Init => IInv
  BY InitInv
<1>2. IInv /\ [Next]_vars => IInv'
  BY NextInv
<1> QED
  BY <1>1, <1>2, PTL DEF Spec

(***************************************************************************)
(* Type correctness; in particular a track never has more than two         *)
(* outputs, the second from a start() before the stopOutput() of the first.*)
(***************************************************************************)
THEOREM TypeCorrect == Spec => []TypeOK
<1>1. IInv => TypeOK
  BY DEF IInv
<1> QED
  BY <1>1, Invariant, PTL

(***************************************************************************)
(* Every startOutput() that the policy grants is matched by one            *)
(* stopOutput() (addTrack_l(), threadLoop_removeTracks()).                 *)
(***************************************************************************)
THEOREM OutputsCounted == Spec => []OutputsAreCounted
<1>1. IInv => OutputsAreCounted
  BY DEF IInv
<1> QED
  BY <1>1, Invariant, PTL

(***************************************************************************)
(* prepareTracks_l() meets no IDLE track among the active ones.            *)
(***************************************************************************)
THEOREM NoIdleActive == Spec => []NoIdleTrackActive
<1>1. IInv => NoIdleTrackActive
  BY DEF IInv, NoIdle, Leaving, NoIdleTrackActive
<1> QED
  BY <1>1, Invariant, PTL

(***************************************************************************)
(* A track is reset when the fast mixer has let it go, and the state it    *)
(* was removed for is still the one it has (prepareTracks_l(), the         *)
(* deferred resets).                                                       *)
(***************************************************************************)
THEOREM ResetsAreUnpolled == Spec => ResetIsUnpolled
<1> DEFINE Resets == \A t \in Track : ~mResetDone[t] /\ mResetDone'[t] =>
                       t \notin polled' /\ (t \in mActiveTracks => isStopped(mState[t]))
<1>1. ASSUME IInv, [Next]_vars PROVE [Resets]_vars
  <2> SUFFICES ASSUME Next, NEW t \in Track, ~mResetDone[t], mResetDone'[t]
               PROVE  t \notin polled' /\ (t \in mActiveTracks => isStopped(mState[t]))
    BY <1>1
  <2> USE <1>1 DEF IInv
  <2>1. CASE \E u \in Track : Stop(u) \/ Flush(u)
    <3>1. PICK u \in Track : Stop(u) \/ Flush(u)
      BY <2>1
    <3>2. t = u /\ t \notin mActiveTracks
      BY <3>1 DEF Stop, Flush, Reset
    <3>3. polled' = polled
      BY <3>1 DEF Stop, Flush, threadVars
    <3> QED
      BY <3>2, <3>3 DEF Polling
  <2>2. CASE \E expired \in SUBSET mActiveTracks : prepareTracks_l(expired)
    <3>1. PICK expired \in SUBSET mActiveTracks : prepareTracks_l(expired)
      BY <2>2
    <3>2. t \in mActiveTracks \cap Normal /\ isStopped(NormalState(t)) /\ polled' = polled
      BY <3>1, TrackAssumption DEF prepareTracks_l, Reset, DeferReset
    <3> QED
      BY <3>2, TrackAssumption, NextStates DEF TypeOK
  <2>3. CASE Pushed
    <3>1. t \in resetMask /\ polled' = mTrackMask
      BY <2>3 DEF Pushed, Reset
    <3> QED
      BY <3>1 DEF Removal, Polling
  <2>4. CASE UNCHANGED mResetDone
    BY <2>4
  <2>5. \A u \in Track : StartGranted(u) => mResetDone'[t] = mResetDone[t] \/ ~mResetDone'[t]
    BY DEF StartGranted, TypeOK
  <2> QED
    BY <2>1, <2>2, <2>3, <2>4, <2>5
    DEF Next, Cycle, Client, WriteOut, threadLoop_removeTracks, Standby, Write, Start,
        StartOvertaken, StartDenied, Pause, Destroy, FastMix
<1> QED
  BY <1>1, Invariant, PTL DEF Spec, ResetIsUnpolled
-----------------------------------------------------------------------------
(***************************************************************************)
(* The offload thread: OffloadThread.  What both have of PlaybackThread    *)
(* and its tracks goes by the same name; nothing else is shared, and the   *)
(* sizes of the offload thread are assumed where they are needed.          *)
(***************************************************************************)
CONSTANTS OffloadTrack, NoTrack, Session, HalSize, Sequences, MaxCalls
VARIABLES mFlushHwPending, mResumeToStopping, mIsInvalid, mLatestActiveTrack, mSignalPending,
          mFlushPending, mWriteAckSequence, mDrainSequence, mActiveTrack, mPreviousTrack,
          mBytesRemaining, mPausedBytesRemaining, mHwPaused, cb, hal, released, calls

Off == INSTANCE OffloadThread WITH Track <- OffloadTrack, None <- NoTrack

\* What the thread may wait for, and where the answer is: with the HAL, with the
\* callback thread that has been told, or taken by it under the number that is awaited,
\* unless that number is too high for the callback thread to give back.
WriteSide ==
  /\ hal.writeOwed \/ cb.writeReady \/ tpc = "write" =>
       Off!Odd(mWriteAckSequence) /\ cb.write = Off!Shifted(mWriteAckSequence)
       /\ cb.taken.write # mWriteAckSequence
  /\ hal.writeOwed => ~cb.writeReady
  /\ tpc = "write" => ~hal.writeOwed /\ ~cb.writeReady
  /\ cb.taken.write # Off!NoSequence => Off!Odd(cb.taken.write)
  /\ Off!Odd(mWriteAckSequence) /\ tpc # "write" =>
       hal.writeOwed \/ cb.writeReady \/ cb.taken.write = mWriteAckSequence \/ mWriteAckSequence >= Off!Half

DrainSide ==
  /\ hal.drainOwed \/ cb.drainReady =>
       Off!Odd(mDrainSequence) /\ cb.drain = Off!Shifted(mDrainSequence)
       /\ cb.taken.drain # mDrainSequence
  /\ hal.drainOwed => ~cb.drainReady
  /\ cb.taken.drain # Off!NoSequence => Off!Odd(cb.taken.drain)
  /\ Off!Odd(mDrainSequence) => 
       hal.drainOwed \/ cb.drainReady \/ cb.taken.drain = mDrainSequence \/ mDrainSequence >= Off!Half
  /\ tpc = "unlocked" /\ mMixerStatus = "DRAIN" => ~Off!Odd(mDrainSequence)

\* Only a track that is destroyed while it waits to be looked at by
\* threadLoop_removeTracks() is released twice; nothing is left to look at at the top.
Releases ==
  /\ tpc = "top" => tracksToRemove = {}
  /\ mTracks \cap mTerminated \subseteq mActiveTracks
  /\ \A t \in OffloadTrack :
       /\ t \in mTracks => released[t] <= 1
       /\ t \in mTracks /\ (t \notin mTerminated \/ t \in tracksToRemove) => released[t] = 0
       /\ t \in tracksToRemove => released[t] <= 1

OffIInv == Off!TypeOK /\ WriteSide /\ DrainSide /\ Releases
-----------------------------------------------------------------------------
(* Sequence numbers *)

(***************************************************************************)
(* The arithmetic of "mWriteAckSequence &= ~1", "+= 2" and "|= 1": bit 0   *)
(* is kept, set and cleared, also when the count wraps.                    *)
(***************************************************************************)
LEMMA SequenceFacts ==
  ASSUME Off!Sizes, NEW n \in Off!Sequence
  PROVE  /\ Off!Cleared(n) \in Off!Sequence /\ ~Off!Odd(Off!Cleared(n))
         /\ Off!Bumped(n) \in Off!Sequence /\ (Off!Odd(Off!Bumped(n)) <=> Off!Odd(n))
         /\ ~Off!Odd(n) => n + 1 \in Off!Sequence /\ Off!Odd(n + 1)
<1>1. PICK half \in Nat : Sequences = 2 * half /\ half >= 4
  <2>1. PICK m \in Nat : Sequences = 4 * m /\ m >= 2
    BY DEF Off!Sizes
  <2>2. 2 * m \in Nat /\ Sequences = 2 * (2 * m) /\ 2 * m >= 4
    BY <2>1
  <2> QED
    BY <2>2
<1>2. PICK k \in Nat, b \in {0, 1} : n = 2 * k + b /\ n % 2 = b
  BY DEF Off!Sequence
<1>3. n \in Nat /\ n < Sequences
  BY DEF Off!Sizes, Off!Sequence
<1>4. Off!Cleared(n) = 2 * k /\ k < half
  BY <1>1, <1>2, <1>3 DEF Off!Cleared
<1>5. \A m \in Nat : (2 * m) % 2 = 0 /\ (2 * m + 1) % 2 = 1
  OBVIOUS
<1>6. Off!Bumped(n) = IF n + 2 < Sequences THEN n + 2 ELSE n + 2 - Sequences
  BY <1>3 DEF Off!Sizes, Off!Bumped
<1>7. /\ Off!Bumped(n) = IF k + 1 < half THEN 2 * (k + 1) + b ELSE b
      /\ b = 2 * 0 + b
  BY <1>1, <1>2, <1>3, <1>6
<1> QED
  BY <1>1, <1>2, <1>3, <1>4, <1>5, <1>7 DEF Off!Odd, Off!Sequence

(***************************************************************************)
(* "<< 1" in a word and ">> 1" (setWriteBlocked(), the callback thread's   *)
(* loop): bit 0 is kept, and a number of the lower half comes back whole.  *)
(***************************************************************************)
LEMMA ShiftedFacts ==
  ASSUME Off!Sizes, NEW n \in Off!Sequence
  PROVE  /\ Off!Shifted(n) \in Off!Sequence
         /\ Off!Odd(Off!Shifted(n)) <=> Off!Odd(n)
         /\ ~(n >= Off!Half) => Off!Shifted(n) = n
<1>1. PICK k \in Nat : Sequences = 4 * k /\ k >= 2
  BY DEF Off!Sizes
<1>2. n \in Nat /\ n < 4 * k /\ Off!Half = 2 * k
  BY <1>1 DEF Off!Sequence, Off!Half
<1>3. Off!Shifted(n) = IF n < 2 * k THEN n ELSE n - 2 * k
  BY <1>1, <1>2 DEF Off!Shifted
<1>4. PICK j \in Nat, b \in {0, 1} : n = 2 * j + b /\ n % 2 = b
  BY <1>2
<1>5. ~(n < 2 * k) => j - k \in Nat /\ n - 2 * k = 2 * (j - k) + b
  BY <1>1, <1>2, <1>4
<1>6. \A m \in Nat : (2 * m) % 2 = 0 /\ (2 * m + 1) % 2 = 1
  OBVIOUS
<1> QED
  BY <1>1, <1>2, <1>3, <1>4, <1>5, <1>6 DEF Off!Odd, Off!Sequence

(***************************************************************************)
(* An acknowledgement ends the wait of its own number and of no other: if  *)
(* bit 0 is still set, the number is the same and another was acknowledged.*)
(***************************************************************************)
LEMMA AcknowledgedFacts ==
  ASSUME Off!Sizes, NEW n \in Off!Sequence, NEW acked \in Off!Sequence
  PROVE  /\ Off!Acknowledged(n, acked) \in Off!Sequence
         /\ Off!Odd(Off!Acknowledged(n, acked)) => Off!Acknowledged(n, acked) = n /\ n # acked
         /\ n # acked => Off!Acknowledged(n, acked) = n
  BY SequenceFacts DEF Off!Acknowledged

(***************************************************************************)
(* What a flush and a standby leave (Discard(), Silenced): nobody waits    *)
(* for an answer and nobody is going to give one.                          *)
(***************************************************************************)
LEMMA DiscardInv ==
  ASSUME Off!Sizes, Off!TypeOK, WriteSide, DrainSide, NEW drain \in Off!Sequence,
         Off!Discard(mWriteAckSequence, drain), hal' = Off!Silenced, tpc' # "write"
  PROVE  /\ WriteSide' /\ DrainSide'
         /\ mWriteAckSequence' \in Off!Sequence /\ mDrainSequence' \in Off!Sequence
         /\ cb' \in [write : Off!Sequence, writeReady : BOOLEAN, drain : Off!Sequence, drainReady : BOOLEAN,
                     taken : [write : Off!Sequence \cup {Off!NoSequence},
                              drain : Off!Sequence \cup {Off!NoSequence}]]
         /\ hal' \in [level : 0 .. HalSize, writeOwed : BOOLEAN, drainOwed : BOOLEAN, paused : BOOLEAN]
<1>1. /\ mWriteAckSequence' \in Off!Sequence /\ ~Off!Odd(mWriteAckSequence')
      /\ mDrainSequence' \in Off!Sequence /\ ~Off!Odd(mDrainSequence')
  BY SequenceFacts DEF Off!TypeOK, Off!Discard
<1>2. cb' = [cb EXCEPT !.write = Off!Shifted(mWriteAckSequence'), !.writeReady = FALSE,
                       !.drain = Off!Shifted(mDrainSequence'), !.drainReady = FALSE]
  BY DEF Off!TypeOK, Off!Discard, Off!setWriteBlocked, Off!setDraining
<1>3. cb'.taken = cb.taken /\ cb'.writeReady = FALSE /\ cb'.drainReady = FALSE
  BY <1>2 DEF Off!TypeOK
<1>4. ~hal'.writeOwed /\ ~hal'.drainOwed
  BY DEF Off!Silenced
<1>5. WriteSide'
  BY <1>1, <1>3, <1>4 DEF WriteSide
<1>6. DrainSide'
  BY <1>1, <1>3, <1>4 DEF DrainSide
<1>7. cb' \in [write : Off!Sequence, writeReady : BOOLEAN, drain : Off!Sequence, drainReady : BOOLEAN,
               taken : [write : Off!Sequence \cup {Off!NoSequence},
                        drain : Off!Sequence \cup {Off!NoSequence}]]
  BY <1>1, <1>2, ShiftedFacts DEF Off!TypeOK
<1>8. hal' \in [level : 0 .. HalSize, writeOwed : BOOLEAN, drainOwed : BOOLEAN, paused : BOOLEAN]
  BY DEF Off!Sizes, Off!Silenced
<1> QED
  BY <1>1, <1>5, <1>6, <1>7, <1>8
-----------------------------------------------------------------------------
(* The steps *)

LEMMA OffInitInv == ASSUME Off!Sizes, Off!Init PROVE OffIInv
<1> USE DEF Off!Init, Off!NoSequence
<1>1. /\ mWriteAckSequence \in Off!Sequence /\ Off!Shifted(mWriteAckSequence) \in Off!Sequence
      /\ mDrainSequence \in Off!Sequence /\ Off!Shifted(mDrainSequence) \in Off!Sequence
  BY ShiftedFacts
<1>2. calls \in Nat
  BY DEF Off!Sizes
<1>3. /\ hal \in [level : 0 .. HalSize, writeOwed : BOOLEAN, drainOwed : BOOLEAN, paused : BOOLEAN]
      /\ cb \in [write : Off!Sequence, writeReady : BOOLEAN, drain : Off!Sequence, drainReady : BOOLEAN,
                 taken : [write : Off!Sequence \cup {Off!NoSequence},
                          drain : Off!Sequence \cup {Off!NoSequence}]]
  BY <1>1 DEF Off!Sizes
<1>4. /\ mState \in [OffloadTrack -> {"IDLE", "STOPPED", "STOPPING_1", "STOPPING_2", "RESUMING", "ACTIVE",
                              "PAUSING", "PAUSED"}]
      /\ frames \in [OffloadTrack -> {0, 1}] /\ released \in [OffloadTrack -> 0 .. 2]
  OBVIOUS
<1>5. mTracks \subseteq OffloadTrack
  OBVIOUS
<1>6. Off!TypeOK
  BY <1>1, <1>2, <1>3, <1>4, <1>5 DEF Off!TypeOK
<1> QED
  BY <1>1, <1>6 DEF OffIInv, WriteSide, DrainSide, Releases

LEMMA ClientInv == ASSUME Off!Sizes, OffIInv, NEW t \in OffloadTrack, Off!Client(t) PROVE OffIInv'
<1> USE DEF OffIInv, Off!Client, Off!Called, Off!lockVars, Off!sequenceVars, Off!threadVars
<1>1. CASE Off!Write(t)
  BY <1>1 DEF Off!Write, Off!TypeOK, WriteSide, DrainSide, Releases
<1>2. CASE Off!Start(t)
  BY <1>2 DEF Off!Start, Off!onAddNewTrack_l, Off!broadcast_l, Off!TypeOK, WriteSide, DrainSide,
         Releases
<1>3. CASE Off!Stop(t)
  BY <1>3 DEF Off!Stop, Off!TypeOK, WriteSide, DrainSide, Releases
<1>4. CASE Off!Pause(t)
  BY <1>4 DEF Off!Pause, Off!broadcast_l, Off!TypeOK, WriteSide, DrainSide, Releases
<1>5. CASE Off!Flush(t)
  BY <1>5 DEF Off!Flush, Off!broadcast_l, Off!TypeOK, WriteSide, DrainSide, Releases
<1>6. CASE Off!Destroy(t)
  <2> USE <1>6 DEF Off!Destroy
  <2>1. Off!TypeOK' /\ WriteSide' /\ DrainSide'
    BY DEF Off!TypeOK, WriteSide, DrainSide, Releases
  <2>2. Releases'
    BY DEF Off!TypeOK, Releases
  <2> QED
    BY <2>1, <2>2
<1> QED
  BY <1>1, <1>2, <1>3, <1>4, <1>5, <1>6

LEMMA HalInv == ASSUME Off!Sizes, OffIInv, Off!Hal PROVE OffIInv'
<1> USE DEF OffIInv, Off!trackVars, Off!lockVars, Off!sequenceVars, Off!threadVars
<1>1. CASE Off!Play
  BY <1>1 DEF Off!Sizes, Off!Play, Off!TypeOK, WriteSide, DrainSide, Releases
<1>2. CASE Off!WriteReady
  BY <1>2, ShiftedFacts DEF Off!WriteReady, Off!writeCallback, Off!TypeOK, WriteSide, DrainSide, Releases
<1>3. CASE Off!DrainReady
  BY <1>3, ShiftedFacts DEF Off!DrainReady, Off!drainCallback, Off!TypeOK, WriteSide, DrainSide, Releases
<1> QED
  BY <1>1, <1>2, <1>3 DEF Off!Hal

LEMMA CallbackThreadInv == ASSUME Off!Sizes, OffIInv, Off!CallbackThread PROVE OffIInv'
<1> USE DEF OffIInv, Off!trackVars, Off!lockVars, Off!sequenceVars, Off!threadVars
<1>0. Off!NoSequence \notin Off!Sequence
  BY DEF Off!NoSequence, Off!Sequence
<1>1. CASE Off!Take
  <2> USE <1>1 DEF Off!Take, Off!Idle
  <2>1. Off!TypeOK'
    BY DEF Off!TypeOK
  <2>2. /\ cb'.write = cb.write /\ cb'.drain = cb.drain
        /\ cb'.writeReady = FALSE /\ cb'.drainReady = FALSE
        /\ cb'.taken.write = IF cb.writeReady THEN cb.write ELSE Off!NoSequence
        /\ cb'.taken.drain = IF cb.drainReady THEN cb.drain ELSE Off!NoSequence
        /\ cb.taken.write = Off!NoSequence /\ cb.taken.drain = Off!NoSequence
    BY DEF Off!TypeOK
  <2>3. WriteSide'
    BY <1>0, <2>2, ShiftedFacts DEF Off!TypeOK, WriteSide
  <2>4. DrainSide'
    BY <1>0, <2>2, ShiftedFacts DEF Off!TypeOK, DrainSide
  <2> QED
    BY <2>1, <2>3, <2>4 DEF Releases
<1>2. CASE Off!resetWriteBlocked
  <2> USE <1>2 DEF Off!resetWriteBlocked
  <2>1. cb.taken.write \in Off!Sequence /\ Off!Odd(cb.taken.write)
    BY DEF Off!TypeOK, WriteSide
  <2>2. /\ mWriteAckSequence' \in Off!Sequence
        /\ Off!Odd(mWriteAckSequence') => mWriteAckSequence' = mWriteAckSequence /\ mWriteAckSequence # cb.taken.write
        /\ mWriteAckSequence # cb.taken.write => mWriteAckSequence' = mWriteAckSequence
    BY <2>1, AcknowledgedFacts DEF Off!TypeOK
  <2> QED
    BY <1>0, <2>1, <2>2 DEF Off!TypeOK, WriteSide, DrainSide, Releases
<1>3. CASE Off!resetDraining
  <2> USE <1>3 DEF Off!resetDraining
  <2>1. cb.taken.drain \in Off!Sequence /\ Off!Odd(cb.taken.drain)
    BY DEF Off!TypeOK, DrainSide
  <2>2. /\ mDrainSequence' \in Off!Sequence
        /\ Off!Odd(mDrainSequence') => mDrainSequence' = mDrainSequence /\ mDrainSequence # cb.taken.drain
        /\ mDrainSequence # cb.taken.drain => mDrainSequence' = mDrainSequence
    BY <2>1, AcknowledgedFacts DEF Off!TypeOK
  <2> QED
    BY <1>0, <2>1, <2>2 DEF Off!TypeOK, WriteSide, DrainSide, Releases
<1> QED
  BY <1>1, <1>2, <1>3 DEF Off!CallbackThread

LEMMA OffStandbyInv == ASSUME Off!Sizes, OffIInv, Off!Standby PROVE OffIInv'
<1> USE DEF OffIInv, Off!Standby, Off!Awake, Off!trackVars, Off!sequenceVars
<1>1. CASE Off!Discard(mWriteAckSequence, mDrainSequence) /\ hal' = Off!Silenced /\ mHwPaused' = FALSE
           /\ mStandby' = TRUE
  <2>1. tpc' # "write" /\ mDrainSequence \in Off!Sequence
    BY DEF Off!TypeOK
  <2> HIDE DEF Off!Standby
  <2>2. /\ WriteSide' /\ DrainSide'
        /\ mWriteAckSequence' \in Off!Sequence /\ mDrainSequence' \in Off!Sequence
        /\ cb' \in [write : Off!Sequence, writeReady : BOOLEAN, drain : Off!Sequence, drainReady : BOOLEAN,
                   taken : [write : Off!Sequence \cup {Off!NoSequence},
                            drain : Off!Sequence \cup {Off!NoSequence}]]
        /\ hal' \in [level : 0 .. HalSize, writeOwed : BOOLEAN, drainOwed : BOOLEAN, paused : BOOLEAN]
    BY <1>1, <2>1, DiscardInv
  <2>3. Off!TypeOK' /\ Releases'
    BY <1>1, <2>2 DEF Off!Standby, Off!TypeOK, Releases
  <2> QED
    BY <2>2, <2>3
<1>2. CASE UNCHANGED <<Off!sequenceVars, cb, hal, mHwPaused, mStandby>>
  BY <1>2 DEF Off!TypeOK, WriteSide, DrainSide, Releases
<1> QED
  BY <1>1, <1>2

LEMMA BeginWriteInv == ASSUME Off!Sizes, OffIInv, Off!BeginWrite PROVE OffIInv'
<1> USE DEF OffIInv, Off!BeginWrite, Off!MayWrite, Off!waitingAsyncCallback_l, Off!Mixed,
         Off!setWriteBlocked, Off!lockVars
<1>1. mWriteAckSequence' \in Off!Sequence /\ Off!Odd(mWriteAckSequence') /\ ~Off!Odd(mWriteAckSequence)
      /\ mWriteAckSequence' # cb.taken.write
  BY SequenceFacts DEF Off!TypeOK
<1>0. Off!Shifted(mWriteAckSequence') \in Off!Sequence
  BY <1>1, ShiftedFacts
<1>2. frames' \in [OffloadTrack -> {0, 1}]
  BY DEF Off!TypeOK
<1>3. Off!TypeOK'
  BY <1>0, <1>1, <1>2 DEF Off!TypeOK
<1>4. WriteSide' /\ DrainSide' /\ Releases'
  BY <1>1 DEF Off!TypeOK, WriteSide, DrainSide, Releases
<1> QED
  BY <1>3, <1>4

LEMMA EndWriteInv == ASSUME Off!Sizes, OffIInv, Off!EndWrite PROVE OffIInv'
<1> USE DEF OffIInv, Off!EndWrite, Off!setWriteBlocked, Off!trackVars, Off!lockVars
<1>1. mWriteAckSequence' \in Off!Sequence /\ ~Off!Odd(mWriteAckSequence')
      /\ Off!Shifted(mWriteAckSequence') \in Off!Sequence
  BY SequenceFacts, ShiftedFacts DEF Off!TypeOK
<1>2. hal' \in [level : 0 .. HalSize, writeOwed : BOOLEAN, drainOwed : BOOLEAN, paused : BOOLEAN]
      /\ hal'.writeOwed = hal.writeOwed /\ hal'.drainOwed = hal.drainOwed
  BY DEF Off!Sizes, Off!TypeOK
<1>3. Off!TypeOK'
  BY <1>1, <1>2 DEF Off!TypeOK
<1>4. WriteSide' /\ DrainSide' /\ Releases'
  BY <1>1, <1>2 DEF Off!TypeOK, WriteSide, DrainSide, Releases
<1> QED
  BY <1>3, <1>4

LEMMA BlockedWriteInv == ASSUME Off!Sizes, OffIInv, Off!BlockedWrite PROVE OffIInv'
  BY DEF OffIInv, Off!BlockedWrite, Off!trackVars, Off!lockVars, Off!sequenceVars, Off!TypeOK,
         WriteSide, DrainSide, Releases

LEMMA DrainInv == ASSUME Off!Sizes, OffIInv, Off!threadLoop_drain PROVE OffIInv'
<1> USE DEF OffIInv, Off!threadLoop_drain, Off!setDraining, Off!trackVars, Off!lockVars
<1>1. mDrainSequence' \in Off!Sequence /\ Off!Odd(mDrainSequence') /\ ~Off!Odd(mDrainSequence)
      /\ mDrainSequence' # cb.taken.drain
  BY SequenceFacts DEF Off!TypeOK, DrainSide
<1>0. Off!Shifted(mDrainSequence') \in Off!Sequence
  BY <1>1, ShiftedFacts
<1>2. Off!TypeOK'
  BY <1>0, <1>1 DEF Off!TypeOK
<1>3. WriteSide' /\ DrainSide' /\ Releases'
  BY <1>1 DEF Off!TypeOK, WriteSide, DrainSide, Releases
<1> QED
  BY <1>2, <1>3

LEMMA NoWriteInv == ASSUME Off!Sizes, OffIInv, Off!NoWrite PROVE OffIInv'
<1> USE DEF OffIInv, Off!NoWrite, Off!Mixed, Off!lockVars, Off!sequenceVars
<1>1. frames' \in [OffloadTrack -> {0, 1}]
  BY DEF Off!TypeOK
<1> QED
  BY <1>1 DEF Off!TypeOK, WriteSide, DrainSide, Releases

LEMMA OffRemoveTracksInv == ASSUME Off!Sizes, OffIInv, Off!threadLoop_removeTracks PROVE OffIInv'
<1> USE DEF OffIInv, Off!threadLoop_removeTracks, Off!trackVars, Off!lockVars, Off!sequenceVars
<1>1. released' \in [OffloadTrack -> 0 .. 2]
  BY DEF Off!TypeOK, Releases
<1>2. Off!TypeOK' /\ WriteSide' /\ DrainSide'
  BY <1>1 DEF Off!TypeOK, WriteSide, DrainSide
<1>3. Releases'
  BY DEF Off!TypeOK, Releases
<1> QED
  BY <1>2, <1>3

(***************************************************************************)
(* prepareTracks_l() as the other threads see it: it leaves the sequence   *)
(* numbers alone, gives a drain that it asks for a new number, or discards *)
(* everything; and it takes tracks out of the active list only.            *)
(***************************************************************************)
LEMMA PrepareTracksFacts ==
  ASSUME Off!Sizes, Off!TypeOK, NEW before \in SUBSET mActiveTracks, NEW expired \in SUBSET mActiveTracks,
         Off!prepareTracks_l(before, expired)
  PROVE  /\ tpc = "top" /\ tpc' = "unlocked"
         /\ tracksToRemove' \subseteq mActiveTracks
         /\ mActiveTracks' = mActiveTracks \ tracksToRemove'
         /\ mTracks' = mTracks \ (tracksToRemove' \cap mTerminated)
         /\ UNCHANGED <<frames, mTerminated, released>>
         /\ \E drain \in {mDrainSequence, Off!Bumped(mDrainSequence)} :
              /\ drain # mDrainSequence => ~Off!Odd(mDrainSequence)
              /\ mMixerStatus' = "DRAIN" => ~Off!Odd(mDrainSequence)
              /\ \/ Off!Discard(mWriteAckSequence, drain) /\ hal' = Off!Silenced
                 \/ /\ mDrainSequence' = drain /\ UNCHANGED <<mWriteAckSequence, cb>>
                    /\ \E paused \in BOOLEAN : hal' = [hal EXCEPT !.paused = paused]
  BY DEF Off!prepareTracks_l, Off!Awake, Off!HalPaused, Off!TypeOK

(***************************************************************************)
(* The rest of what prepareTracks_l() assigns is of its type.              *)
(***************************************************************************)
LEMMA PrepareTracksTypes ==
  ASSUME Off!Sizes, Off!TypeOK, NEW before \in SUBSET mActiveTracks, NEW expired \in SUBSET mActiveTracks,
         Off!prepareTracks_l(before, expired)
  PROVE  /\ mState' \in [OffloadTrack -> {"IDLE", "STOPPED", "STOPPING_1", "STOPPING_2", "RESUMING", "ACTIVE",
                                   "PAUSING", "PAUSED"}]
         /\ mFlushHwPending' \cup mResumeToStopping' \cup mIsInvalid' \cup mTerminated' \subseteq OffloadTrack
         /\ {mLatestActiveTrack', mActiveTrack', mPreviousTrack'} \subseteq OffloadTrack \cup {NoTrack}
         /\ {mSignalPending', mFlushPending', mHwPaused', mStandby'} \subseteq BOOLEAN
         /\ mMixerStatus' \in {"IDLE", "ENABLED", "READY", "DRAIN"}
         /\ {mBytesRemaining', mPausedBytesRemaining'} \subseteq {0, 1}
         /\ calls' \in Nat
<1>1. mState' \in [OffloadTrack -> {"IDLE", "STOPPED", "STOPPING_1", "STOPPING_2", "RESUMING", "ACTIVE",
                             "PAUSING", "PAUSED"}]
  BY DEF Off!prepareTracks_l, Off!Handling, Off!TypeOK
<1>2. mFlushHwPending' \cup mResumeToStopping' \cup mIsInvalid' \cup mTerminated' \subseteq OffloadTrack
  BY DEF Off!prepareTracks_l, Off!promote, Off!TypeOK
<1>3. {mLatestActiveTrack', mActiveTrack', mPreviousTrack'} \subseteq OffloadTrack \cup {NoTrack}
  BY DEF Off!prepareTracks_l, Off!TypeOK
<1>4. {mSignalPending', mFlushPending', mHwPaused', mStandby'} \subseteq BOOLEAN
  BY DEF Off!prepareTracks_l, Off!TypeOK
<1>5. mMixerStatus' \in {"IDLE", "ENABLED", "READY", "DRAIN"}
  BY DEF Off!prepareTracks_l, Off!TypeOK
<1>6. {mBytesRemaining', mPausedBytesRemaining'} \subseteq {0, 1}
  BY DEF Off!prepareTracks_l, Off!TypeOK
<1>7. calls' \in Nat
  BY DEF Off!prepareTracks_l, Off!TypeOK
<1> QED
  BY <1>1, <1>2, <1>3, <1>4, <1>5, <1>6, <1>7

LEMMA OffPrepareTracksInv ==
  ASSUME Off!Sizes, OffIInv, NEW before \in SUBSET mActiveTracks, NEW expired \in SUBSET mActiveTracks,
         Off!prepareTracks_l(before, expired)
  PROVE  OffIInv'
<1> USE DEF OffIInv
<1>1. PICK drain \in {mDrainSequence, Off!Bumped(mDrainSequence)} :
        /\ drain # mDrainSequence => ~Off!Odd(mDrainSequence)
        /\ mMixerStatus' = "DRAIN" => ~Off!Odd(mDrainSequence)
        /\ \/ Off!Discard(mWriteAckSequence, drain) /\ hal' = Off!Silenced
           \/ /\ mDrainSequence' = drain /\ UNCHANGED <<mWriteAckSequence, cb>>
              /\ \E paused \in BOOLEAN : hal' = [hal EXCEPT !.paused = paused]
  BY PrepareTracksFacts
<1>2. drain \in Off!Sequence /\ (Off!Odd(drain) <=> Off!Odd(mDrainSequence))
  BY SequenceFacts DEF Off!TypeOK
<1>3. tpc = "top" /\ tpc' = "unlocked"
  BY PrepareTracksFacts
<1>4. /\ WriteSide' /\ DrainSide'
      /\ mWriteAckSequence' \in Off!Sequence /\ mDrainSequence' \in Off!Sequence
      /\ cb' \in [write : Off!Sequence, writeReady : BOOLEAN, drain : Off!Sequence, drainReady : BOOLEAN,
                 taken : [write : Off!Sequence \cup {Off!NoSequence},
                          drain : Off!Sequence \cup {Off!NoSequence}]]
      /\ hal' \in [level : 0 .. HalSize, writeOwed : BOOLEAN, drainOwed : BOOLEAN, paused : BOOLEAN]
  <2>1. CASE Off!Discard(mWriteAckSequence, drain) /\ hal' = Off!Silenced
    BY <1>2, <1>3, <2>1, DiscardInv
  <2>2. CASE /\ mDrainSequence' = drain /\ UNCHANGED <<mWriteAckSequence, cb>>
             /\ \E paused \in BOOLEAN : hal' = [hal EXCEPT !.paused = paused]
    <3>1. hal'.writeOwed = hal.writeOwed /\ hal'.drainOwed = hal.drainOwed
      BY <2>2 DEF Off!TypeOK
    <3>2. WriteSide'
      BY <1>3, <2>2, <3>1 DEF WriteSide
    <3>3. DrainSide'
      BY <1>1, <1>2, <1>3, <2>2, <3>1 DEF DrainSide
    <3> QED
      BY <1>2, <2>2, <3>2, <3>3 DEF Off!TypeOK
  <2> QED
    BY <1>1, <2>1, <2>2
<1>5. /\ tracksToRemove' \subseteq mActiveTracks
      /\ mActiveTracks' = mActiveTracks \ tracksToRemove'
      /\ mTracks' = mTracks \ (tracksToRemove' \cap mTerminated)
      /\ UNCHANGED <<frames, mTerminated, released>>
  BY PrepareTracksFacts
<1>6. Off!TypeOK'
  BY <1>3, <1>4, <1>5, PrepareTracksTypes DEF Off!TypeOK
<1>7. Releases'
  BY <1>3, <1>5 DEF Releases, Off!TypeOK
<1> QED
  BY <1>4, <1>6, <1>7

LEMMA OffNextInv == ASSUME Off!Sizes, OffIInv, [Off!Next]_Off!vars PROVE OffIInv'
<1>1. CASE UNCHANGED Off!vars
  BY <1>1 DEF OffIInv, Off!TypeOK, WriteSide, DrainSide, Releases, Off!vars, Off!trackVars,
         Off!lockVars, Off!sequenceVars, Off!threadVars
<1> QED
  BY <1>1, ClientInv, HalInv, CallbackThreadInv, OffStandbyInv, BeginWriteInv, EndWriteInv, BlockedWriteInv,
     DrainInv, NoWriteInv, OffRemoveTracksInv, OffPrepareTracksInv DEF Off!Next, Off!Cycle
-----------------------------------------------------------------------------
(* The theorems *)

(***************************************************************************)
(* The invariant holds whatever the clients call and the HAL answers.      *)
(***************************************************************************)
THEOREM OffInvariant ==
  ASSUME Off!Sizes
  PROVE  Off!Spec => []OffIInv
<1>1. Off!Init => OffIInv
  BY OffInitInv
<1>2. OffIInv /\ [Off!Next]_Off!vars => OffIInv'
  BY OffNextInv
<1> QED
  BY <1>1, <1>2, PTL DEF Off!Spec

(***************************************************************************)
(* Type correctness; in particular no track has its output released more   *)
(* than twice (Track::destroy(), threadLoop_removeTracks()).               *)
(***************************************************************************)
THEOREM OffTypeCorrect ==
  ASSUME Off!Sizes
  PROVE  Off!Spec => []Off!TypeOK
<1>1. OffIInv => Off!TypeOK
  BY DEF OffIInv
<1> QED
  BY <1>1, OffInvariant, PTL

(***************************************************************************)
(* "reject out of sequence requests" (resetWriteBlocked(),                 *)
(* resetDraining()): while the HAL owes an answer the thread waits for it. *)
(***************************************************************************)
THEOREM AnswersAreAwaited ==
  ASSUME Off!Sizes
  PROVE  Off!Spec => []Off!AnswerIsAwaited
<1>1. OffIInv => Off!AnswerIsAwaited
  BY DEF OffIInv, WriteSide, DrainSide, Off!AnswerIsAwaited
<1> QED
  BY <1>1, OffInvariant, PTL

(***************************************************************************)
(* The thread waits (waitingAsyncCallback_l()) only for what the HAL owes  *)
(* or the callback thread brings under the number that is awaited, while   *)
(* the numbers are in the lower half of their range: setWriteBlocked() and *)
(* setDraining() lose the highest bit of the others.                       *)
(***************************************************************************)
THEOREM WaitsAreAnswered ==
  ASSUME Off!Sizes
  PROVE  Off!Spec => []Off!WaitIsAnswered
<1>1. OffIInv => Off!WaitIsAnswered
  BY ShiftedFacts DEF OffIInv, WriteSide, DrainSide, Off!TypeOK, Off!WaitIsAnswered,
         Off!WriteStranded, Off!DrainStranded
<1> QED
  BY <1>1, OffInvariant, PTL
=============================================================================
