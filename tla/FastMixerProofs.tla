--------------------------- MODULE FastMixerProofs ---------------------------
(***************************************************************************)
(* Proofs about FastMixer for every set of tracks, every number of slots,  *)
(* every bound on the generations and every scenario.                      *)
(*                                                                         *)
(* The two threads hold four pictures of the fast tracks: the mixer        *)
(* thread's working state, the latest one pushed, the one the fast mixer   *)
(* polled, and the one its AudioMixer was last brought up to.  The         *)
(* inductive invariant says that each picture follows from the next older  *)
(* one (Pictures), that every track in one of them is still active         *)
(* (Tracks, Removal), what the fast mixer derived from the last of them    *)
(* (Pointers, AudioMixer), and what COLD_IDLE and its futex make the two   *)
(* threads know of each other (Idling, Futex).                             *)
(***************************************************************************)
EXTENDS FastMixer, WellFoundedInduction, TLAPS

\* The state that the AudioMixer was last brought up to by onStateChange().
MixedState == IF qcurrent.mCommand \in IDLE THEN preIdle ELSE qcurrent

\* A slot outside the mask has no track.
MaskNamesTracks(s) ==
  \A i \in Index : i \in s.mTrackMask <=> s.mFastTracks[i].mBufferProvider # NULL

\* u was derived from s, and the generations tell what has changed.
Follows(s, u) ==
  /\ s.mFastTracksGen <= u.mFastTracksGen
  /\ s.mFastTracksGen = u.mFastTracksGen =>
       s.mFastTracks = u.mFastTracks /\ s.mTrackMask = u.mTrackMask
  /\ \A i \in Index :
       /\ s.mFastTracks[i].mGeneration <= u.mFastTracks[i].mGeneration
       /\ s.mFastTracks[i].mGeneration = u.mFastTracks[i].mGeneration =>
            s.mFastTracks[i] = u.mFastTracks[i]

\* The working state, the pushed one, the polled one and the mixed one.
Pictures ==
  /\ ~fresh => latest = qcurrent
  /\ MaskNamesTracks(state) /\ MaskNamesTracks(latest)
  /\ MaskNamesTracks(qcurrent) /\ MaskNamesTracks(MixedState)
  /\ Follows(MixedState, qcurrent) /\ Follows(qcurrent, latest) /\ Follows(latest, state)

\* The fast mixer's pointers: the previous state is the one it mixed from, and
\* while it idles that is its own copy.
Pointers ==
  /\ current \in {"initial", "current"}
  /\ current = "initial" =>
       qcurrent = initial /\ previous = "initial" /\ fpc = "poll" /\ fresh
  /\ current = "current" =>
       /\ qcurrent.mCommand # "INITIAL"
       /\ qcurrent.mCommand \in IDLE => previous = "preIdle"
       /\ qcurrent.mCommand = "MIX_WRITE" => previous = "current"
       /\ qcurrent.mCommand = "EXIT" => fpc = "exited" /\ previous # "reused"
  /\ fpc = "work" => qcurrent.mCommand = "MIX_WRITE"
  /\ fpc \in {"cold", "wait", "asleep", "awake"} => qcurrent.mCommand = "COLD_IDLE"

\* What onStateChange() made of the state it was called with.
AudioMixer ==
  fpc # "exited" =>
    /\ \A i \in Index : provider[i] = MixedState.mFastTracks[i].mBufferProvider
    /\ \A i \in MixedState.mTrackMask : generations[i] = MixedState.mFastTracks[i].mGeneration
    /\ fastTracksGen = MixedState.mFastTracksGen

\* Every track of s is active, and in its slot, until the mixer thread is gone.
Active(s) ==
  mpc # "done" =>
    \A i \in s.mTrackMask :
      /\ s.mFastTracks[i].mBufferProvider \in mActiveTracks
      /\ mFastIndex[s.mFastTracks[i].mBufferProvider] = i

\* Between prepareTracks_l() and removeTracks_l().
Removing == mpc = "removed" \/ (mpc \in {"push", "ack"} /\ then = "removed")

\* The tracks that have left the working state but not the active list.
Leaving == IF Removing THEN tracksToRemove ELSE {}

Tracks ==
  /\ Active(state) /\ Active(latest) /\ Active(qcurrent)
  /\ mFastTrackAvailMask \cap (state.mTrackMask \cup latest.mTrackMask \cup qcurrent.mTrackMask) = {}
  /\ mActiveTracks \subseteq mTracks
  /\ mpc # "done" => handles \subseteq mTracks
  /\ mpc = "done" => fpc = "exited"
  /\ terminated \cap handles = {}
  /\ \A t \in mTracks \cup handles \cup terminated : mFastIndex[t] # 0
  /\ \A t \in mTracks :
       /\ mFastIndex[t] \notin mFastTrackAvailMask
       /\ \A u \in mTracks : mFastIndex[t] = mFastIndex[u] => t = u

\* Removed tracks have left every picture before removeTracks_l().
Removal ==
  /\ then \in {"config", "params", "inStandby", "destroy", "removed", "clear", "join"}
  /\ mpc = "ack" => block /\ latest = state
  /\ mpc = "wake" => then \in {"clear", "join"}
  /\ \A t \in Leaving : t \in mActiveTracks /\ mFastIndex[t] \notin state.mTrackMask
  /\ Leaving # {} =>
       /\ mpc \in {"push", "ack"} => block
       /\ mpc = "removed" => ~fresh /\ latest = state

\* Room for the generations of the active tracks' slots: one more change for a
\* track in the mask, two for one that is still to be added to it.
Room ==
  \A t \in mActiveTracks \ Leaving :
    state.mFastTracks[mFastIndex[t]].mGeneration
      + (IF mFastIndex[t] \in state.mTrackMask THEN 1 ELSE 2) <= MaxGen

\* No push of the mixer thread's is waiting for its acknowledgement.
Settled == mpc \notin {"push", "ack"} \/ ~block

\* An idle command has been obeyed when the push of it has returned.
Idling ==
  /\ state.mCommand \in Command \ {"INITIAL"}
  /\ latest.mCommand \in Command \ {"INITIAL"}
  /\ previousCommand \in Command \ {"INITIAL"}
  /\ state.mCommand \in IDLE /\ Settled =>
       latest.mCommand \in IDLE /\ qcurrent.mCommand # "MIX_WRITE"
  /\ state.mCommand = "COLD_IDLE" /\ Settled =>
       /\ latest.mCommand = "COLD_IDLE" /\ latest.mColdGen = state.mColdGen
       /\ current # "initial" =>
            qcurrent.mCommand = "COLD_IDLE" /\ qcurrent.mColdGen = state.mColdGen
  /\ fpc = "poll" /\ qcurrent.mCommand = "COLD_IDLE" => coldGen = qcurrent.mColdGen

\* At most one decrement and one increment per cold idle, and no decrement of a
\* futex on which the fast mixer sleeps.
Futex ==
  /\ state.mCommand = "COLD_IDLE" => mFastMixerFutex <= 0
  /\ mFastMixerFutex = -1 => fpc \in {"wait", "asleep"} /\ expected = -1
  /\ mpc = "wake" =>
       /\ mFastMixerFutex = 0 /\ fpc \notin {"cold", "work"}
       /\ current # "initial" /\ qcurrent.mCommand = "COLD_IDLE"
       /\ latest.mCommand = "COLD_IDLE" /\ latest.mColdGen = qcurrent.mColdGen

IInv ==
  /\ TypeOK
  /\ Pictures /\ Pointers /\ AudioMixer
  /\ Tracks /\ Removal /\ Room
  /\ Idling /\ Futex
-----------------------------------------------------------------------------
(* Pictures of the tracks *)

\* The same tracks in the same slots, under whatever command.
SameTracks(s, u) ==
  /\ u.mFastTracks = s.mFastTracks
  /\ u.mFastTracksGen = s.mFastTracksGen
  /\ u.mTrackMask = s.mTrackMask

(***************************************************************************)
(* Follows is a preorder: a picture may be any number of pushes old.       *)
(***************************************************************************)
LEMMA FollowsReflexive == ASSUME NEW s \in FastMixerState PROVE Follows(s, s)
  BY DEF Follows, FastMixerState, FastTrack

LEMMA FollowsTransitive ==
  ASSUME NEW s \in FastMixerState, NEW u \in FastMixerState, NEW v \in FastMixerState,
         Follows(s, u), Follows(u, v)
  PROVE  Follows(s, v)
<1>1. s.mFastTracksGen \in Nat /\ u.mFastTracksGen \in Nat /\ v.mFastTracksGen \in Nat
  BY DEF FastMixerState
<1>2. \A i \in Index : /\ s.mFastTracks[i].mGeneration \in Nat
                       /\ u.mFastTracks[i].mGeneration \in Nat
                       /\ v.mFastTracks[i].mGeneration \in Nat
  BY BoundAssumption DEF FastMixerState, FastTrack
<1>3. s.mFastTracksGen <= v.mFastTracksGen
  BY <1>1 DEF Follows
<1>4. s.mFastTracksGen = v.mFastTracksGen =>
        s.mFastTracks = v.mFastTracks /\ s.mTrackMask = v.mTrackMask
  BY <1>1 DEF Follows
<1>5. \A i \in Index :
        /\ s.mFastTracks[i].mGeneration <= v.mFastTracks[i].mGeneration
        /\ s.mFastTracks[i].mGeneration = v.mFastTracks[i].mGeneration =>
             s.mFastTracks[i] = v.mFastTracks[i]
  BY <1>2 DEF Follows
<1> QED
  BY <1>3, <1>4, <1>5 DEF Follows

(***************************************************************************)
(* onStateChange() (FastMixer.cpp) brings the AudioMixer from the tracks   *)
(* of p to those of any later c, whatever was pushed in between: a slot in *)
(* neither mask has no track, and one in both with the same generation has *)
(* the same track.                                                         *)
(***************************************************************************)
LEMMA StateChange ==
  ASSUME NEW p \in FastMixerState, NEW c \in FastMixerState,
         MaskNamesTracks(p), MaskNamesTracks(c), Follows(p, c),
         provider \in [Index -> Track \cup {NULL}], generations \in [Index -> 0 .. MaxGen],
         \A i \in Index : provider[i] = p.mFastTracks[i].mBufferProvider,
         \A i \in p.mTrackMask : generations[i] = p.mFastTracks[i].mGeneration,
         fastTracksGen = p.mFastTracksGen,
         onStateChange(c, p)
  PROVE  /\ provider' \in [Index -> Track \cup {NULL}]
         /\ generations' \in [Index -> 0 .. MaxGen]
         /\ \A i \in Index : provider'[i] = c.mFastTracks[i].mBufferProvider
         /\ \A i \in c.mTrackMask : generations'[i] = c.mFastTracks[i].mGeneration
         /\ fastTracksGen' = c.mFastTracksGen
<1> DEFINE replaced == c.mFrameCount # p.mFrameCount
           was == IF replaced THEN {} ELSE p.mTrackMask
           added == c.mTrackMask \ was
           removed == was \ c.mTrackMask
           modified == Modified(c, c.mTrackMask \cap was)
<1>0. /\ c.mTrackMask \subseteq Index /\ p.mTrackMask \subseteq Index
      /\ \A i \in Index : c.mFastTracks[i] \in FastTrack /\ p.mFastTracks[i] \in FastTrack
  BY DEF FastMixerState
<1>1. CASE ~replaced /\ c.mFastTracksGen = fastTracksGen
  BY <1>1 DEF onStateChange, Follows
<1>2. CASE replaced \/ c.mFastTracksGen # fastTracksGen
  <2>1. /\ provider' = [i \in Index |->
                          IF i \in added \cup modified THEN c.mFastTracks[i].mBufferProvider
                          ELSE IF replaced \/ i \in removed THEN NULL ELSE provider[i]]
        /\ generations' = [i \in Index |->
                             IF i \in added \cup modified \cup removed
                             THEN c.mFastTracks[i].mGeneration ELSE generations[i]]
        /\ fastTracksGen' = c.mFastTracksGen
    BY <1>2 DEF onStateChange
  <2>2. \A i \in c.mTrackMask : generations'[i] = c.mFastTracks[i].mGeneration
    BY <1>0, <2>1 DEF Modified
  <2>3. ASSUME NEW i \in Index
        PROVE  provider'[i] = c.mFastTracks[i].mBufferProvider
    <3>1. CASE i \in added \cup modified
      BY <2>1, <3>1
    <3>2. CASE i \in c.mTrackMask /\ i \notin added \cup modified
      <4>1. /\ ~replaced /\ i \in p.mTrackMask
            /\ c.mFastTracks[i].mGeneration = p.mFastTracks[i].mGeneration
        BY <3>2 DEF Modified
      <4> QED
        BY <2>1, <3>2, <4>1 DEF Follows
    <3>3. CASE i \notin c.mTrackMask
      <4>1. c.mFastTracks[i].mBufferProvider = NULL /\ i \notin added \cup modified
        BY <3>3 DEF MaskNamesTracks, Modified
      <4>2. i \in was \/ replaced \/ provider[i] = NULL
        BY DEF MaskNamesTracks
      <4> QED
        BY <2>1, <3>3, <4>1, <4>2
    <3> QED
      BY <3>1, <3>2, <3>3
  <2>4. /\ provider' \in [Index -> Track \cup {NULL}]
        /\ generations' \in [Index -> 0 .. MaxGen]
    BY <1>0, <2>1 DEF FastTrack
  <2> QED
    BY <2>1, <2>2, <2>3, <2>4
<1> QED
  BY <1>1, <1>2
-----------------------------------------------------------------------------
(* The initial state *)

LEMMA InitInv == ASSUME Init PROVE IInv
<1> USE DEF Init, initial
<1>1. {"INITIAL", "COLD_IDLE", "HOT_IDLE"} \subseteq Command
  BY DEF Command, IDLE
<1>2. TypeOK
  <2>1. 0 \in 0 .. MaxGen /\ {0, 1} \subseteq 0 .. MaxColdGen
    BY BoundAssumption
  <2>2. initial \in FastMixerState
    BY <1>1, <2>1 DEF FastMixerState, FastTrack
  <2>3. state \in FastMixerState
    BY <1>1, <2>1, <2>2 DEF FastMixerState
  <2> HIDE DEF initial
  <2>4. /\ generations \in [Index -> 0 .. MaxGen] /\ coldGen \in 0 .. MaxColdGen
        /\ provider \in [Index -> Track \cup {NULL}] /\ mFastIndex \in [Track -> Index \cup {0}]
    BY <2>1
  <2>5. /\ scenario \in Scenarios /\ fresh \in BOOLEAN /\ block \in BOOLEAN
        /\ mStandby \in BOOLEAN /\ isSuspended \in BOOLEAN
    OBVIOUS
  <2>6. /\ previousCommand \in Command
        /\ mFastMixerFutex \in -1 .. 1 /\ fastTracksGen \in Int /\ expected \in Int
    BY <1>1
  <2>7. /\ mTracks \subseteq Track /\ mActiveTracks \subseteq Track
        /\ tracksToRemove \subseteq Track /\ handles \subseteq Track /\ terminated \subseteq Track
        /\ mFastTrackAvailMask \subseteq Index
    OBVIOUS
  <2> QED
    BY <2>2, <2>3, <2>4, <2>5, <2>6, <2>7 DEF TypeOK, Pointer
<1>3. Pictures
  BY DEF Pictures, MixedState, MaskNamesTracks, Follows, IDLE
<1>4. Pointers /\ AudioMixer
  BY DEF Pointers, AudioMixer, MixedState, IDLE
<1>5. Tracks /\ Removal /\ Room
  BY DEF Tracks, Active, Removal, Removing, Leaving, Room
<1>6. Idling
  <2>1. {"COLD_IDLE", "HOT_IDLE"} \subseteq Command \ {"INITIAL"}
    BY DEF Command, IDLE
  <2> QED
    BY <2>1 DEF Idling, Settled, IDLE
<1>7. Futex
  BY DEF Futex
<1> QED
  BY <1>2, <1>3, <1>4, <1>5, <1>6, <1>7 DEF IInv
-----------------------------------------------------------------------------
(* The fast mixer's steps *)

\* Every pointer that the fast mixer holds leads to a state.
LEMMA DerefFacts ==
  ASSUME IInv
  PROVE  /\ Deref(current) = qcurrent
         /\ {state, latest, qcurrent, qprevious, preIdle, MixedState} \subseteq FastMixerState
  BY DEF IInv, TypeOK, Pointers, Deref, MixedState

(***************************************************************************)
(* A poll that finds a new state (FastThread.cpp): whatever the fast mixer *)
(* did before, a new MIX_WRITE is compared with the state that it last     *)
(* mixed from.                                                             *)
(***************************************************************************)
LEMMA PollNewInv == ASSUME IInv, PollNew, UNCHANGED scenario PROVE IInv'
<1> USE DEF IInv
<1> DEFINE idling == GoesIdle(qcurrent, latest)
           prev == CASE idling -> "preIdle"
                     [] ~idling /\ qcurrent.mCommand \notin IDLE -> Aged(current)
                     [] OTHER -> Aged(previous)
           p == CASE prev = "preIdle" -> preIdle' [] prev = "previous" -> qprevious'
                  [] OTHER -> initial
<1>0. /\ fpc = "poll" /\ fresh
      /\ UNCHANGED <<latest, threadVars, trackVars, coldGen, expected, mFastMixerFutex>>
      /\ qprevious' = qcurrent /\ qcurrent' = latest /\ fresh' = FALSE
      /\ preIdle' = IF idling THEN qcurrent ELSE preIdle
      /\ current' = "current"
      /\ Obey(latest, "current", prev, p)
  BY DerefFacts DEF PollNew, Queue!Observe
<1>1. {latest, qcurrent, MixedState} \subseteq FastMixerState
  BY DerefFacts
<1>2. /\ qcurrent.mCommand \in IDLE => previous = "preIdle"
      /\ qcurrent.mCommand # "EXIT"
  BY <1>0 DEF Pointers, initial, IDLE
<1>3. prev \in {"initial", "preIdle", "previous"}
  BY <1>2 DEF GoesIdle, Aged, Pointers, IDLE
<1>4. latest.mCommand \in IDLE => prev = "preIdle"
  BY <1>2 DEF GoesIdle, Aged
<1>5. latest.mCommand \notin IDLE => p = MixedState /\ preIdle' = preIdle
  <2>1. SUFFICES ASSUME latest.mCommand \notin IDLE
                 PROVE  p = MixedState /\ preIdle' = preIdle
    OBVIOUS
  <2>2. ~idling /\ preIdle' = preIdle
    BY <1>0, <2>1 DEF GoesIdle
  <2>3. CASE qcurrent.mCommand \in IDLE
    BY <1>2, <2>2, <2>3 DEF Aged, MixedState
  <2>4. CASE qcurrent.mCommand \notin IDLE
    BY <1>0, <2>2, <2>4 DEF Aged, MixedState, Pointers
  <2> QED
    BY <2>3, <2>4
<1>6. latest.mCommand \in IDLE => MixedState' = MixedState
  BY <1>0 DEF MixedState, GoesIdle
<1>7. latest.mCommand \in {"MIX_WRITE", "EXIT"} \cup IDLE
  BY DEF Idling, Command
<1>8. CASE latest.mCommand = "MIX_WRITE"
  <2>1. onStateChange(latest, MixedState) /\ previous' = "current" /\ fpc' = "work"
    BY <1>0, <1>3, <1>5, <1>8 DEF Obey, IDLE
  <2>2. MixedState' = latest
    BY <1>0, <1>8 DEF MixedState, IDLE
  <2>3. Follows(MixedState, latest)
    BY <1>1, FollowsTransitive DEF Pictures
  <2>4. /\ provider' \in [Index -> Track \cup {NULL}]
        /\ generations' \in [Index -> 0 .. MaxGen]
        /\ \A i \in Index : provider'[i] = latest.mFastTracks[i].mBufferProvider
        /\ \A i \in latest.mTrackMask : generations'[i] = latest.mFastTracks[i].mGeneration
        /\ fastTracksGen' = latest.mFastTracksGen
    BY <1>0, <1>1, <2>1, <2>3, StateChange DEF TypeOK, Pictures, AudioMixer
  <2>5. latest.mFastTracksGen \in Int
    BY <1>1 DEF FastMixerState
  <2>6. TypeOK'
    BY <1>0, <1>5, <1>8, <2>1, <2>4, <2>5 DEF TypeOK, Pointer, threadVars, trackVars, IDLE
  <2>7. (Pictures /\ Pointers /\ AudioMixer)'
    BY <1>0, <1>1, <1>8, <2>1, <2>2, <2>4, FollowsReflexive
    DEF Pictures, Pointers, AudioMixer, threadVars, IDLE
  <2>8. (Idling /\ Futex)'
    BY <1>0, <1>8, <2>1 DEF Idling, Settled, Futex, threadVars, IDLE
  <2>9. (Tracks /\ Removal /\ Room)'
    BY <1>0, <2>1 DEF Tracks, Active, Removal, Removing, Leaving, Room, threadVars, trackVars
  <2> QED
    BY <2>6, <2>7, <2>8, <2>9
<1>9. CASE latest.mCommand # "MIX_WRITE"
  <2>1. /\ previous' = prev
        /\ UNCHANGED <<provider, generations, fastTracksGen>>
        /\ fpc' = CASE latest.mCommand = "EXIT" -> "exited"
                    [] latest.mCommand = "COLD_IDLE" /\ latest.mColdGen # coldGen -> "cold"
                    [] OTHER -> "poll"
    BY <1>0, <1>7, <1>9 DEF Obey, IDLE
  <2>2. TypeOK'
    BY <1>0, <1>3, <2>1 DEF TypeOK, Pointer, threadVars, trackVars
  <2>3. (Pointers /\ AudioMixer)'
    BY <1>0, <1>3, <1>4, <1>6, <1>7, <1>9, <2>1 DEF Pointers, AudioMixer, Idling, IDLE
  <2>4. Pictures'
    <3>1. Follows(latest, latest)
      BY <1>1, FollowsReflexive
    <3>2. Follows(MixedState, latest)
      BY <1>1, FollowsTransitive DEF Pictures
    <3>3. MixedState' = latest \/ MixedState' = MixedState
      BY <1>0, <1>6 DEF MixedState
    <3> QED
      BY <1>0, <3>1, <3>2, <3>3 DEF Pictures, threadVars
  <2>5. (Idling /\ Futex)'
    BY <1>0, <1>7, <1>9, <2>1 DEF Idling, Settled, Futex, Pointers, threadVars, IDLE
  <2>6. (Tracks /\ Removal /\ Room)'
    BY <1>0, <2>1 DEF Tracks, Active, Removal, Removing, Leaving, Room, threadVars, trackVars
  <2> QED
    BY <2>2, <2>3, <2>4, <2>5, <2>6
<1> QED
  BY <1>8, <1>9

LEMMA PollSameInv == ASSUME IInv, PollSame, UNCHANGED scenario PROVE IInv'
<1> USE DEF IInv, PollSame, queueVars, threadVars, trackVars
<1>1. current = "current" /\ qcurrent.mCommand # "EXIT"
  BY DEF Pointers, initial
<1>2. /\ UNCHANGED <<provider, generations, fastTracksGen>>
      /\ previous' = previous
      /\ fpc' = IF qcurrent.mCommand = "MIX_WRITE" THEN "work" ELSE "poll"
  <2>1. CASE qcurrent.mCommand = "MIX_WRITE"
    BY <1>1, <2>1, DerefFacts DEF Obey, Pointers
  <2>2. CASE qcurrent.mCommand # "MIX_WRITE"
    BY <1>1, <2>2, DerefFacts DEF Obey, Idling
  <2> QED
    BY <2>1, <2>2
<1>3. TypeOK'
  BY <1>2 DEF TypeOK
<1>4. (Pictures /\ Pointers /\ AudioMixer)'
  BY <1>1, <1>2 DEF Pictures, Pointers, AudioMixer, MixedState
<1>5. (Tracks /\ Removal /\ Room)'
  BY <1>2 DEF Tracks, Active, Removal, Removing, Leaving, Room
<1>6. (Idling /\ Futex)'
  BY <1>2 DEF Idling, Settled, Futex
<1> QED
  BY <1>3, <1>4, <1>5, <1>6

LEMMA WorkInv == ASSUME IInv, Work, UNCHANGED scenario PROVE IInv'
<1> USE DEF IInv, Work, queueVars, threadVars, trackVars
<1>1. TypeOK'
  BY DEF TypeOK
<1>2. (Pictures /\ Pointers /\ AudioMixer)'
  BY DEF Pictures, Pointers, AudioMixer, MixedState
<1>3. (Tracks /\ Removal /\ Room)'
  BY DEF Tracks, Active, Removal, Removing, Leaving, Room
<1>4. (Idling /\ Futex)'
  BY DEF Idling, Settled, Futex, Pointers
<1> QED
  BY <1>1, <1>2, <1>3, <1>4

\* The steps of a cold idle leave the tracks alone.
ColdStep ==
  /\ fpc \in {"cold", "wait", "awake"} /\ fpc' \in {"wait", "asleep", "poll"}
  /\ fpc' = "poll" => coldGen' = qcurrent.mColdGen
  /\ fpc' # "poll" => coldGen' = coldGen
  /\ UNCHANGED <<queueVars, threadVars, trackVars, current, previous, preIdle, generations,
                 fastTracksGen, provider>>

LEMMA ColdStepInv ==
  ASSUME IInv, ColdStep, UNCHANGED scenario,
         mFastMixerFutex' \in -1 .. 1, expected' \in Int, Futex'
  PROVE  IInv'
<1> USE DEF IInv, ColdStep, queueVars, threadVars, trackVars
<1>1. qcurrent.mColdGen \in 0 .. MaxColdGen
  BY DerefFacts DEF FastMixerState
<1>2. TypeOK'
  BY <1>1 DEF TypeOK
<1>3. (Pictures /\ Pointers /\ AudioMixer)'
  BY DEF Pictures, Pointers, AudioMixer, MixedState
<1>4. (Tracks /\ Removal /\ Room)'
  BY DEF Tracks, Active, Removal, Removing, Leaving, Room
<1>5. Idling'
  BY DEF Idling, Settled
<1> QED
  BY <1>2, <1>3, <1>4, <1>5

(***************************************************************************)
(* android_atomic_dec(coldFutexAddr): never below -1, since the futex is   *)
(* -1 only while the fast mixer waits on it.                               *)
(***************************************************************************)
LEMMA ColdDecInv == ASSUME IInv, ColdDec, UNCHANGED scenario PROVE IInv'
<1> USE DEF IInv, ColdDec
<1>1. mFastMixerFutex \in {0, 1}
  BY DEF TypeOK, Futex
<1>2. ColdStep
  BY DerefFacts DEF ColdStep, Warmed
<1>3. Futex' /\ mFastMixerFutex' \in -1 .. 1 /\ expected' \in Int
  BY <1>1 DEF Futex, TypeOK, queueVars, threadVars
<1> QED
  BY <1>2, <1>3, ColdStepInv

LEMMA ColdWaitInv == ASSUME IInv, ColdWait, UNCHANGED scenario PROVE IInv'
<1> USE DEF IInv, ColdWait
<1>1. ColdStep
  BY DerefFacts DEF ColdStep, Warmed
<1>2. Futex' /\ mFastMixerFutex' \in -1 .. 1 /\ expected' \in Int
  BY DEF Futex, TypeOK, Warmed, queueVars, threadVars
<1> QED
  BY <1>1, <1>2, ColdStepInv

LEMMA AwakeInv == ASSUME IInv, Awake, UNCHANGED scenario PROVE IInv'
<1> USE DEF IInv, Awake
<1>1. ColdStep
  BY DerefFacts DEF ColdStep, Warmed
<1>2. Futex' /\ mFastMixerFutex' \in -1 .. 1 /\ expected' \in Int
  BY DEF Futex, TypeOK, Warmed, queueVars, threadVars
<1> QED
  BY <1>1, <1>2, ColdStepInv
-----------------------------------------------------------------------------
(* The mixer thread's steps *)

LEMMA PublishedInv == ASSUME IInv, Published, UNCHANGED scenario PROVE IInv'
<1> USE DEF IInv, Published, Queue!Publish, trackVars, fastVars
<1>1. mpc' \in {"ack", then} /\ then \notin {"push", "ack", "wake", "done"}
  BY DEF Removal
<1>2. TypeOK'
  BY DEF TypeOK
<1>3. (Pictures /\ Pointers /\ AudioMixer)'
  BY DerefFacts, FollowsReflexive DEF Pictures, Pointers, AudioMixer, MixedState
<1>4. (Tracks /\ Removal /\ Room)'
  BY <1>1 DEF Tracks, Active, Removal, Removing, Leaving, Room
<1>5. (Idling /\ Futex)'
  BY <1>1 DEF Idling, Settled, Futex, Pictures
<1> QED
  BY <1>2, <1>3, <1>4, <1>5

LEMMA AcknowledgedInv == ASSUME IInv, Acknowledged, UNCHANGED scenario PROVE IInv'
<1> USE DEF IInv, Acknowledged, queueVars, trackVars, fastVars
<1>1. /\ latest = state /\ qcurrent = state /\ current = "current"
      /\ then \notin {"push", "ack", "wake", "done"}
  BY DEF Removal, Pictures, Pointers
<1>2. TypeOK'
  BY DEF TypeOK
<1>3. (Pictures /\ Pointers /\ AudioMixer)'
  BY DEF Pictures, Pointers, AudioMixer, MixedState
<1>4. (Tracks /\ Removal /\ Room)'
  BY <1>1 DEF Tracks, Active, Removal, Removing, Leaving, Room
<1>5. (Idling /\ Futex)'
  BY <1>1 DEF Idling, Settled, Futex, IDLE
<1> QED
  BY <1>2, <1>3, <1>4, <1>5

LEMMA WakeInv == ASSUME IInv, Wake, UNCHANGED scenario PROVE IInv'
<1> USE DEF IInv, Wake, queueVars, trackVars
<1>1. TypeOK'
  BY DEF TypeOK
<1>2. (Pictures /\ Pointers /\ AudioMixer)'
  BY DEF Pictures, Pointers, AudioMixer, MixedState
<1>3. (Tracks /\ Removal /\ Room)'
  BY DEF Tracks, Active, Removal, Removing, Leaving, Room
<1>4. (Idling /\ Futex)'
  BY DEF Idling, Settled, Futex
<1> QED
  BY <1>1, <1>2, <1>3, <1>4

(***************************************************************************)
(* The mixer thread goes on, outside of push() and of a removal, without   *)
(* touching its working state.                                             *)
(***************************************************************************)
LEMMA GoOnInv ==
  ASSUME IInv, UNCHANGED <<scenario, queueVars, state, then, block, trackVars, fastVars,
                           mFastMixerFutex>>,
         {mpc, mpc'} \subseteq {"config", "params", "standby", "inStandby", "waiting", "prepare",
                                "write", "clear", "exitStandby", "destroy"},
         previousCommand' \in Command \ {"INITIAL"}, mStandby' \in BOOLEAN,
         tracksToRemove' \subseteq Track
  PROVE  IInv'
<1> USE DEF IInv, queueVars, trackVars, fastVars
<1>1. TypeOK'
  BY DEF TypeOK
<1>2. (Pictures /\ Pointers /\ AudioMixer)'
  BY DEF Pictures, Pointers, AudioMixer, MixedState
<1>3. (Tracks /\ Removal /\ Room)'
  BY DEF Tracks, Active, Removal, Removing, Leaving, Room
<1>4. (Idling /\ Futex)'
  BY DEF Idling, Settled, Futex
<1> QED
  BY <1>1, <1>2, <1>3, <1>4

(***************************************************************************)
(* The mixer thread pushes the command c, with the tracks as they are.     *)
(***************************************************************************)
LEMMA CommandInv ==
  ASSUME IInv, UNCHANGED <<scenario, queueVars, fastVars, trackVars, tracksToRemove>>,
         NEW c \in Command \ {"INITIAL"}, NEW g \in 0 .. MaxColdGen,
         state' = [state EXCEPT !.mCommand = c, !.mColdGen = g],
         mpc \notin {"push", "ack", "wake", "removed", "done"}, mpc' \in {"push", "wake"},
         then' \in {"config", "params", "inStandby", "destroy", "clear", "join"},
         mpc' = "wake" => then' \in {"clear", "join"},
         block' \in BOOLEAN, mStandby' \in BOOLEAN,
         previousCommand' \in Command \ {"INITIAL"}, mFastMixerFutex' \in -1 .. 1,
         (Idling /\ Futex)'
  PROVE  IInv'
<1> USE DEF IInv, queueVars, fastVars, trackVars
<1>1. state' \in FastMixerState /\ SameTracks(state, state')
  BY DEF TypeOK, FastMixerState, SameTracks
<1>2. TypeOK'
  BY <1>1 DEF TypeOK
<1>3. (Pictures /\ Pointers /\ AudioMixer)'
  BY <1>1 DEF Pictures, Pointers, AudioMixer, MixedState, MaskNamesTracks, SameTracks, Follows
<1>4. (Tracks /\ Removal /\ Room)'
  BY <1>1 DEF Tracks, Active, Removal, Removing, Leaving, Room, SameTracks
<1> QED
  BY <1>2, <1>3, <1>4

\* The commands, and what an EXCEPT of the working state makes of them.
LEMMA CommandFacts ==
  ASSUME IInv
  PROVE  /\ {"HOT_IDLE", "COLD_IDLE", "EXIT", "MIX_WRITE"} \subseteq Command \ {"INITIAL"}
         /\ state.mColdGen \in 0 .. MaxColdGen /\ NextColdGen \in 0 .. MaxColdGen
         /\ \A c : [state EXCEPT !.mCommand = c] =
                     [state EXCEPT !.mCommand = c, !.mColdGen = state.mColdGen]
         /\ \A c, g : [state EXCEPT !.mCommand = c, !.mColdGen = g].mCommand = c
         /\ \A c, g : [state EXCEPT !.mCommand = c, !.mColdGen = g].mColdGen = g
<1>1. state \in FastMixerState
  BY DEF IInv, TypeOK
<1>2. state.mColdGen \in 0 .. MaxColdGen
  BY <1>1 DEF FastMixerState
<1>3. NextColdGen \in 0 .. MaxColdGen
  BY <1>2, BoundAssumption DEF NextColdGen
<1>4. {"HOT_IDLE", "COLD_IDLE", "EXIT", "MIX_WRITE"} \subseteq Command \ {"INITIAL"}
  BY DEF Command, IDLE
<1>5. \A c : [state EXCEPT !.mCommand = c] =
               [state EXCEPT !.mCommand = c, !.mColdGen = state.mColdGen]
  BY <1>1 DEF FastMixerState
<1>6. \A c, g : LET u == [state EXCEPT !.mCommand = c, !.mColdGen = g]
                IN u.mCommand = c /\ u.mColdGen = g
  BY <1>1 DEF FastMixerState
<1> QED
  BY <1>2, <1>3, <1>4, <1>5, <1>6

LEMMA NewParameterInv == ASSUME IInv, NewParameter, UNCHANGED scenario PROVE IInv'
<1> USE DEF NewParameter
<1>1. CASE state.mCommand \notin IDLE
  <2>1. /\ state' = [state EXCEPT !.mCommand = "HOT_IDLE", !.mColdGen = state.mColdGen]
        /\ block' = TRUE /\ then' = "params" /\ mpc' = "push"
        /\ UNCHANGED <<queueVars, mStandby, tracksToRemove, trackVars, fastVars, mFastMixerFutex>>
    BY <1>1, CommandFacts DEF PushState, IdleBlocks
  <2>2. previousCommand' \in Command \ {"INITIAL"} /\ block' \in BOOLEAN
    BY <1>1 DEF IInv, Idling, PushState, IdleBlocks
  <2>3. (Idling /\ Futex)'
    <3>1. state'.mCommand = "HOT_IDLE"
      BY <2>1, CommandFacts
    <3>2. mpc # "push" /\ mpc # "ack"
      OBVIOUS
    <3> HIDE DEF NewParameter
    <3>3. Idling'
      <4>1. ~Settled'
        BY <2>1 DEF Settled
      <4>2. state'.mCommand \in Command \ {"INITIAL"}
        BY <3>1, CommandFacts
      <4> QED
        BY <2>1, <2>2, <3>1, <4>1, <4>2 DEF IInv, Idling, queueVars, fastVars
    <3>4. Futex'
      BY <2>1, <2>2, <3>1, <3>2 DEF IInv, Futex, queueVars, fastVars
    <3> QED
      BY <3>3, <3>4
  <2>4. mFastMixerFutex' \in -1 .. 1 /\ mStandby' \in BOOLEAN
    BY <2>1 DEF IInv, TypeOK
  <2> QED
    BY <2>1, <2>2, <2>3, <2>4, CommandFacts, CommandInv
<1>2. CASE state.mCommand \in IDLE
  BY <1>2, CommandFacts, GoOnInv DEF IInv, TypeOK
<1> QED
  BY <1>1, <1>2

LEMMA SetParametersInv ==
  ASSUME IInv, NEW refused \in BOOLEAN, SetParameters(refused), UNCHANGED scenario
  PROVE  IInv'
<1> USE DEF SetParameters
<1>1. mStandby' \in BOOLEAN /\ previousCommand \in Command \ {"INITIAL"}
  BY DEF IInv, TypeOK, Idling
<1>2. CASE previousCommand \notin IDLE
  <2>1. /\ state' = [state EXCEPT !.mCommand = previousCommand, !.mColdGen = state.mColdGen]
        /\ block' = FALSE /\ then' = "config" /\ mpc' = "push"
        /\ state'.mCommand = previousCommand
    BY <1>2, CommandFacts DEF PushState
  <2>2. (Idling /\ Futex)'
    BY <1>1, <1>2, <2>1 DEF IInv, Idling, Settled, Futex, queueVars, fastVars, IDLE
  <2> QED
    BY <1>1, <2>1, <2>2, CommandFacts, CommandInv DEF IInv, TypeOK
<1>3. CASE previousCommand \in IDLE
  BY <1>1, <1>3, GoOnInv DEF IInv, TypeOK
<1> QED
  BY <1>2, <1>3

(***************************************************************************)
(* MixerThread::threadLoop_standby(): a running fast mixer is told to idle *)
(* with a generation it has not seen.                                      *)
(***************************************************************************)
LEMMA StandbyInv ==
  ASSUME IInv, NEW r \in {"inStandby", "destroy"}, threadLoop_standby(r),
         mpc \in {"standby", "exitStandby"},
         UNCHANGED <<scenario, queueVars, previousCommand, mStandby, tracksToRemove, trackVars,
                     fastVars>>
  PROVE  IInv'
<1>1. CASE state.mCommand \notin IDLE
  <2>1. /\ mFastMixerFutex' = 0
        /\ state' = [state EXCEPT !.mCommand = "COLD_IDLE", !.mColdGen = NextColdGen]
        /\ block' = TRUE /\ then' = r /\ mpc' = "push"
        /\ state'.mCommand = "COLD_IDLE"
    BY <1>1, CommandFacts DEF threadLoop_standby, PushState, IdleBlocks
  <2>2. previousCommand' \in Command \ {"INITIAL"} /\ mStandby' \in BOOLEAN
    BY DEF IInv, TypeOK, Idling
  <2>3. state'.mCommand \in Command \ {"INITIAL"}
    BY <2>1, CommandFacts
  <2>4. (Idling /\ Futex)'
    BY <2>1, <2>2, <2>3 DEF IInv, Idling, Settled, Futex, queueVars, fastVars
  <2>5. mFastMixerFutex' \in -1 .. 1
    BY <2>1
  <2> QED
    BY <2>1, <2>2, <2>4, <2>5, CommandFacts, CommandInv
<1>2. CASE state.mCommand \in IDLE
  BY <1>2, GoOnInv DEF threadLoop_standby, IInv, TypeOK, Idling
<1> QED
  BY <1>1, <1>2

(***************************************************************************)
(* The restart of a fast mixer in cold idle (threadLoop_write(),           *)
(* ~MixerThread()).  If it sleeps, or is about to, it does not decrement   *)
(* the futex again before the next cold idle: the states pushed since it   *)
(* was told to idle have the same generation.                              *)
(***************************************************************************)
LEMMA RouseInv ==
  ASSUME IInv, NEW c \in {"MIX_WRITE", "EXIT"}, NEW r \in {"clear", "join"},
         Rouse([state EXCEPT !.mCommand = c], r),
         mpc \in {"write", "destroy"}, mStandby' \in BOOLEAN,
         UNCHANGED <<scenario, queueVars, previousCommand, tracksToRemove, trackVars, fastVars>>
  PROVE  IInv'
<1>0. state' = [state EXCEPT !.mCommand = c] /\ block' = FALSE /\ then' = r
  BY DEF Rouse, PushState
<1>1. /\ state' = [state EXCEPT !.mCommand = c, !.mColdGen = state.mColdGen]
      /\ block' = FALSE /\ then' = r
      /\ state'.mCommand = c
  BY <1>0, CommandFacts
<1>2. /\ previousCommand' \in Command \ {"INITIAL"}
      /\ c \in Command \ {"INITIAL"}
  BY CommandFacts DEF IInv, Idling
<1>3. Idling'
  BY <1>1, <1>2 DEF IInv, Idling, Settled, queueVars, fastVars, IDLE
<1>4. CASE state.mCommand = "COLD_IDLE"
  <2>1. /\ mFastMixerFutex' = mFastMixerFutex + 1
        /\ mpc' = IF mFastMixerFutex = -1 THEN "wake" ELSE "push"
    BY <1>4 DEF Rouse, IsAsleep
  <2>2. mFastMixerFutex \in {-1, 0}
    BY <1>4 DEF IInv, TypeOK, Futex
  <2>3. latest.mCommand = "COLD_IDLE" /\ latest.mColdGen = state.mColdGen
    BY <1>4 DEF IInv, Idling, Settled
  <2>4. mFastMixerFutex = -1 =>
          /\ fpc \in {"wait", "asleep"} /\ current # "initial"
          /\ qcurrent.mCommand = "COLD_IDLE" /\ qcurrent.mColdGen = state.mColdGen
    BY <1>4 DEF IInv, Idling, Settled, Futex, Pointers
  <2>5. Futex' /\ mFastMixerFutex' \in -1 .. 1
    BY <1>1, <2>1, <2>2, <2>3, <2>4 DEF Futex, queueVars, fastVars
  <2> QED
    BY <1>1, <1>2, <1>3, <2>1, <2>2, <2>5, CommandFacts, CommandInv
<1>5. CASE state.mCommand # "COLD_IDLE"
  <2>1. mFastMixerFutex' = mFastMixerFutex /\ mpc' = "push"
    BY <1>5 DEF Rouse, PushState
  <2>2. Futex' /\ mFastMixerFutex' \in -1 .. 1
    BY <1>1, <2>1 DEF IInv, TypeOK, Futex, queueVars, fastVars
  <2> QED
    BY <1>1, <1>2, <1>3, <2>1, <2>2, CommandFacts, CommandInv
<1> QED
  BY <1>4, <1>5

LEMMA ConfigDoneInv == ASSUME IInv, ConfigDone, UNCHANGED scenario PROVE IInv'
  BY GoOnInv DEF ConfigDone, IInv, TypeOK, Idling

LEMMA EnterStandbyInv == ASSUME IInv, EnterStandby, UNCHANGED scenario PROVE IInv'
<1>1. CASE mStandby
  BY <1>1, GoOnInv DEF EnterStandby, IInv, TypeOK, Idling
<1>2. CASE ~mStandby
  BY <1>2, StandbyInv DEF EnterStandby
<1> QED
  BY <1>1, <1>2

LEMMA InStandbyInv == ASSUME IInv, InStandby, UNCHANGED scenario PROVE IInv'
  BY GoOnInv DEF InStandby, IInv, TypeOK, Idling

LEMMA NoStandbyInv == ASSUME IInv, NoStandby, UNCHANGED scenario PROVE IInv'
  BY GoOnInv DEF NoStandby, IInv, TypeOK, Idling

LEMMA threadLoop_writeInv == ASSUME IInv, threadLoop_write, UNCHANGED scenario PROVE IInv'
<1>1. CASE state.mCommand # "MIX_WRITE"
  BY <1>1, RouseInv DEF threadLoop_write
<1>2. CASE state.mCommand = "MIX_WRITE"
  BY <1>2, GoOnInv DEF threadLoop_write, IInv, TypeOK, Idling
<1> QED
  BY <1>1, <1>2

LEMMA NoWriteInv == ASSUME IInv, NoWrite, UNCHANGED scenario PROVE IInv'
  BY GoOnInv DEF NoWrite, IInv, TypeOK, Idling

LEMMA NextCycleInv == ASSUME IInv, NextCycle, UNCHANGED scenario PROVE IInv'
  BY GoOnInv DEF NextCycle, IInv, TypeOK, Idling

LEMMA ExitStandbyInv == ASSUME IInv, ExitStandby, UNCHANGED scenario PROVE IInv'
<1>1. CASE mStandby
  BY <1>1, GoOnInv DEF ExitStandby, IInv, TypeOK, Idling
<1>2. CASE ~mStandby
  BY <1>2, StandbyInv DEF ExitStandby
<1> QED
  BY <1>1, <1>2

LEMMA DestroyInv == ASSUME IInv, Destroy, UNCHANGED scenario PROVE IInv'
  BY RouseInv DEF Destroy, IInv, TypeOK

LEMMA JoinInv == ASSUME IInv, Join, UNCHANGED scenario PROVE IInv'
<1> USE DEF IInv, Join, queueVars, fastVars
<1>1. TypeOK'
  BY DEF TypeOK
<1>2. (Pictures /\ Pointers /\ AudioMixer)'
  BY DEF Pictures, Pointers, AudioMixer, MixedState
<1>3. (Tracks /\ Removal /\ Room)'
  BY DEF Tracks, Active, Removal, Removing, Leaving, Room
<1>4. (Idling /\ Futex)'
  BY DEF Idling, Settled, Futex
<1> QED
  BY <1>1, <1>2, <1>3, <1>4

(***************************************************************************)
(* prepareTracks_l(), the fast tracks (Threads.cpp): a slot that is added  *)
(* or removed gets a new generation, the tracks that stay keep their slot. *)
(***************************************************************************)
LEMMA PrepareTracksInv ==
  ASSUME IInv, NEW active \in SUBSET mActiveTracks, prepareTracks_l(active), UNCHANGED scenario
  PROVE  IInv'
<1> DEFINE slots == {mFastIndex[t] : t \in active}
           added == slots \ state.mTrackMask
           removed == {mFastIndex[t] : t \in mActiveTracks \ active}
           owner(i) == CHOOSE t \in active : mFastIndex[t] = i
           fastTracks == [i \in Index |->
             IF i \in added \cup removed
             THEN [mBufferProvider |-> IF i \in added THEN owner(i) ELSE NULL,
                   mGeneration |-> state.mFastTracks[i].mGeneration + 1]
             ELSE state.mFastTracks[i]]
<1> USE DEF IInv
<1>0. /\ mpc = "prepare" /\ removed \subseteq state.mTrackMask
      /\ tracksToRemove' = mActiveTracks \ active
      /\ Leaving = {}
      /\ UNCHANGED <<queueVars, previousCommand, mStandby, trackVars, fastVars, mFastMixerFutex>>
  BY DEF prepareTracks_l, Leaving, Removing
<1>1. /\ state \in FastMixerState
      /\ \A i \in Index : /\ state.mFastTracks[i] \in FastTrack
                          /\ state.mFastTracks[i].mGeneration \in Nat
      /\ state.mFastTracksGen \in Nat /\ state.mTrackMask \subseteq Index
  BY BoundAssumption DEF TypeOK, FastMixerState, FastTrack
<1>2. /\ mActiveTracks \subseteq Track /\ NULL \notin mActiveTracks
      /\ \A t \in mActiveTracks : mFastIndex[t] \in Index
      /\ \A t, u \in mActiveTracks : mFastIndex[t] = mFastIndex[u] => t = u
  BY TrackAssumption DEF TypeOK, Tracks
<1>3. \A i \in added : owner(i) \in active /\ mFastIndex[owner(i)] = i
  OBVIOUS
<1>4. added \cap removed = {} /\ added \subseteq Index /\ removed \subseteq Index
  BY <1>2
<1>5. removed = {} <=> tracksToRemove' = {}
  BY <1>0
<1>6. CASE added \cup removed # {}
  <2>1. /\ state' = [state EXCEPT !.mFastTracks = fastTracks,
                                  !.mFastTracksGen = state.mFastTracksGen + 1,
                                  !.mTrackMask = (@ \cup added) \ removed]
        /\ block' = (removed # {}) /\ then' = "removed" /\ mpc' = "push"
    BY <1>6 DEF prepareTracks_l, PushState, NextTracksGen, RemovalBlocks
  <2>2. /\ state'.mFastTracks = fastTracks
        /\ state'.mFastTracksGen = state.mFastTracksGen + 1
        /\ state'.mTrackMask = (state.mTrackMask \cup added) \ removed
        /\ state'.mCommand = state.mCommand /\ state'.mColdGen = state.mColdGen
    BY <1>1, <2>1 DEF FastMixerState
  <2>3. \A i \in added : state.mFastTracks[i].mGeneration + 2 <= MaxGen
    BY <1>0, <1>2, <1>3 DEF Room
  <2>4. \A i \in removed : state.mFastTracks[i].mGeneration + 1 <= MaxGen
    BY <1>0, <1>2 DEF Room
  <2>5. fastTracks \in [Index -> FastTrack]
    <3>1. ASSUME NEW i \in Index PROVE fastTracks[i] \in FastTrack
      <4>1. CASE i \in added
        BY <1>1, <1>2, <1>3, <2>3, <4>1, BoundAssumption DEF FastTrack
      <4>2. CASE i \in removed
        BY <1>1, <1>4, <2>4, <4>2, BoundAssumption DEF FastTrack
      <4>3. CASE i \notin added \cup removed
        BY <1>1, <4>3
      <4> QED
        BY <4>1, <4>2, <4>3
    <3> QED
      BY <3>1
  <2>6. state' \in FastMixerState
    <3>1. /\ state.mFastTracksGen + 1 \in Nat
          /\ (state.mTrackMask \cup added) \ removed \in SUBSET Index
      BY <1>1, <1>4
    <3> HIDE DEF fastTracks, added, removed
    <3> QED
      BY <1>1, <2>1, <2>5, <3>1 DEF FastMixerState
  <2>7. TypeOK'
    BY <1>0, <2>1, <2>6 DEF TypeOK, queueVars, trackVars, fastVars
  <2>8. Follows(state, state')
    BY <1>1, <2>2, <2>5 DEF Follows
  <2>9. MaskNamesTracks(state')
    <3>1. ASSUME NEW i \in Index
          PROVE  i \in state'.mTrackMask <=> state'.mFastTracks[i].mBufferProvider # NULL
      BY <1>2, <1>3, <1>4, <2>2 DEF MaskNamesTracks, Pictures
    <3> QED
      BY <3>1 DEF MaskNamesTracks
  <2>10. (Pictures /\ Pointers /\ AudioMixer)'
    <3>1. Follows(latest, state')
      BY <2>6, <2>8, FollowsTransitive DEF Pictures, TypeOK
    <3> QED
      BY <1>0, <2>9, <3>1 DEF Pictures, Pointers, AudioMixer, MixedState, queueVars, fastVars
  <2>11. Active(state)'
    <3>1. ASSUME NEW i \in state'.mTrackMask
          PROVE  /\ state'.mFastTracks[i].mBufferProvider \in mActiveTracks
                 /\ mFastIndex[state'.mFastTracks[i].mBufferProvider] = i
      BY <1>0, <1>1, <1>3, <1>4, <2>2 DEF Tracks, Active
    <3> QED
      BY <1>0, <3>1 DEF Active, trackVars
  <2>12. mFastTrackAvailMask \cap state'.mTrackMask = {}
    BY <1>2, <2>2 DEF Tracks
  <2>13. Tracks'
    BY <1>0, <2>1, <2>11, <2>12 DEF Tracks, Active, queueVars, trackVars, fastVars
  <2>14. Removal'
    BY <1>0, <1>5, <2>1, <2>2 DEF Removal, Removing, Leaving, trackVars
  <2>15. Room'
    <3>1. Leaving' = mActiveTracks \ active
      BY <1>0, <2>1 DEF Leaving, Removing
    <3>2. ASSUME NEW t \in active
          PROVE  /\ mFastIndex[t] \in state'.mTrackMask
                 /\ state'.mFastTracks[mFastIndex[t]].mGeneration + 1 <= MaxGen
      <4>1. CASE mFastIndex[t] \in added
        BY <1>1, <1>2, <1>4, <2>2, <2>3, <4>1
      <4>2. CASE mFastIndex[t] \notin added
        <5>1. mFastIndex[t] \in state.mTrackMask /\ mFastIndex[t] \notin removed
          BY <1>2, <4>2
        <5> QED
          BY <1>0, <1>2, <2>2, <4>2, <5>1 DEF Room
      <4> QED
        BY <4>1, <4>2
    <3> QED
      BY <1>0, <3>1, <3>2 DEF Room, trackVars
  <2>16. (Idling /\ Futex)'
    BY <1>0, <2>1, <2>2 DEF Idling, Settled, Futex, queueVars, fastVars
  <2> QED
    BY <2>7, <2>10, <2>13, <2>14, <2>15, <2>16
<1>7. CASE added \cup removed = {}
  <2>1. mpc' = "removed" /\ UNCHANGED <<state, then, block>> /\ tracksToRemove' = {}
    BY <1>5, <1>7 DEF prepareTracks_l
  <2>2. TypeOK'
    BY <1>0, <2>1 DEF TypeOK, queueVars, trackVars, fastVars
  <2>3. (Pictures /\ Pointers /\ AudioMixer)'
    BY <1>0, <2>1 DEF Pictures, Pointers, AudioMixer, MixedState, queueVars, fastVars
  <2>4. (Tracks /\ Removal /\ Room)'
    BY <1>0, <2>1 DEF Tracks, Active, Removal, Removing, Leaving, Room, queueVars, trackVars, fastVars
  <2>5. (Idling /\ Futex)'
    BY <1>0, <2>1 DEF Idling, Settled, Futex, queueVars, fastVars
  <2> QED
    BY <2>2, <2>3, <2>4, <2>5
<1> QED
  BY <1>6, <1>7

(***************************************************************************)
(* removeTracks_l(): what leaves mActiveTracks, and perhaps mTracks, is in *)
(* no picture any more, so that its slot may be given away.                *)
(***************************************************************************)
LEMMA RemoveTracksInv == ASSUME IInv, removeTracks_l, UNCHANGED scenario PROVE IInv'
<1> DEFINE gone == tracksToRemove \cap terminated
<1> USE DEF IInv, queueVars, fastVars
<1>0. /\ mpc = "removed" /\ mpc' = "write"
      /\ mActiveTracks' = mActiveTracks \ tracksToRemove
      /\ mTracks' = mTracks \ gone
      /\ mFastTrackAvailMask' = mFastTrackAvailMask \cup {mFastIndex[t] : t \in gone}
      /\ UNCHANGED <<queueVars, state, then, block, previousCommand, mStandby, tracksToRemove,
                     mFastIndex, handles, terminated, isSuspended, fastVars, mFastMixerFutex>>
  BY DEF removeTracks_l
<1>1. Leaving = tracksToRemove /\ Leaving' = {}
  BY <1>0 DEF Leaving, Removing
<1>2. /\ tracksToRemove \subseteq mActiveTracks
      /\ \A t \in tracksToRemove : mFastIndex[t] \in Index \ state.mTrackMask
      /\ tracksToRemove # {} => latest = state /\ qcurrent = state
  BY <1>0, <1>1 DEF Removal, Tracks, TypeOK, Pictures
<1>3. \A s \in {state, latest, qcurrent}, t \in tracksToRemove : mFastIndex[t] \notin s.mTrackMask
  BY <1>2
<1>4. TypeOK'
  BY <1>0, <1>2 DEF TypeOK
<1>5. (Pictures /\ Pointers /\ AudioMixer)'
  BY <1>0 DEF Pictures, Pointers, AudioMixer, MixedState
<1>6. Tracks'
  <2>1. ASSUME NEW s \in {state, latest, qcurrent}, NEW i \in s.mTrackMask
        PROVE  /\ s.mFastTracks[i].mBufferProvider \in mActiveTracks'
               /\ mFastIndex[s.mFastTracks[i].mBufferProvider] = i
    BY <1>0, <1>3 DEF Tracks, Active
  <2>2. Active(state)' /\ Active(latest)' /\ Active(qcurrent)'
    BY <1>0, <2>1 DEF Active
  <2>3. mFastTrackAvailMask' \cap (state.mTrackMask \cup latest.mTrackMask \cup qcurrent.mTrackMask) = {}
    BY <1>0, <1>3 DEF Tracks
  <2>4. \A t \in mTracks' : mFastIndex[t] \notin mFastTrackAvailMask'
    BY <1>0, <1>2 DEF Tracks
  <2>5. mActiveTracks' \subseteq mTracks' /\ handles \subseteq mTracks'
    BY <1>0 DEF Tracks
  <2> QED
    BY <1>0, <2>2, <2>3, <2>4, <2>5 DEF Tracks
<1>7. (Removal /\ Room)'
  BY <1>0, <1>1 DEF Removal, Removing, Room
<1>8. (Idling /\ Futex)'
  BY <1>0 DEF Idling, Settled, Futex
<1> QED
  BY <1>4, <1>5, <1>6, <1>7, <1>8
-----------------------------------------------------------------------------
(* The clients' steps *)

\* A set of slots that is not empty has a first one.
LEMMA FirstSlot ==
  ASSUME NEW S \in SUBSET Index, S # {}
  PROVE  \E i \in S : \A j \in S : i <= j
<1> DEFINE R == {ss \in Nat \X Nat : ss[1] < ss[2]}
<1>1. IsWellFoundedOn(R, Nat)
  BY NatLessThanWellFounded DEF OpToRel
<1>2. PICK i \in S : \A j \in S : <<j, i>> \notin R
  <2>1. S \subseteq Nat
    BY DEF Index
  <2> QED
    BY <1>1, <2>1, WFMin
<1>3. ASSUME NEW j \in S PROVE i <= j
  <2>1. i \in Nat /\ j \in Nat
    BY DEF Index
  <2>2. ~(j < i)
    BY <1>2, <2>1
  <2> HIDE DEF R
  <2> QED
    BY <2>1, <2>2
<1> QED
  BY <1>3

LEMMA CreateTrackInv ==
  ASSUME IInv, NEW t \in Track, CreateTrack(t), UNCHANGED scenario PROVE IInv'
<1> USE DEF IInv, queueVars, threadVars, fastVars
<1>1. PICK i \in mFastTrackAvailMask :
        /\ mFastIndex' = [mFastIndex EXCEPT ![t] = i]
        /\ mFastTrackAvailMask' = mFastTrackAvailMask \ {i}
  BY FirstSlot DEF CreateTrack, TypeOK
<1>2. /\ mFastIndex[t] = 0 /\ i \in Index /\ mpc # "done"
      /\ mTracks' = mTracks \cup {t} /\ handles' = handles \cup {t}
      /\ UNCHANGED <<queueVars, threadVars, mActiveTracks, terminated, isSuspended, fastVars,
                     mFastMixerFutex>>
  BY DEF CreateTrack, CanLock, AtRest, TypeOK
<1>3. t \notin mTracks \cup handles \cup terminated /\ t \notin mActiveTracks
  BY <1>2 DEF Tracks
<1>4. \A u \in Track : mFastIndex'[u] = IF u = t THEN i ELSE mFastIndex[u]
  BY <1>1 DEF TypeOK
<1>5. TypeOK'
  BY <1>1, <1>2 DEF TypeOK
<1>6. (Pictures /\ Pointers /\ AudioMixer)'
  BY <1>2 DEF Pictures, Pointers, AudioMixer, MixedState
<1>7. \A u \in mActiveTracks : u \in Track /\ mFastIndex'[u] = mFastIndex[u]
  BY <1>3, <1>4 DEF TypeOK
<1>8. Tracks'
  <2>1. Active(state)' /\ Active(latest)' /\ Active(qcurrent)'
    BY <1>2, <1>7 DEF Tracks, Active
  <2>2. \A u \in mTracks \cup handles \cup terminated : u \in Track /\ u # t
    BY <1>3 DEF TypeOK
  <2>3. i # 0
    BY <1>2 DEF Index
  <2> QED
    BY <1>1, <1>2, <1>4, <2>1, <2>2, <2>3 DEF Tracks
<1>9. (Removal /\ Room)'
  BY <1>2, <1>7 DEF Removal, Removing, Leaving, Room
<1>10. (Idling /\ Futex)'
  BY <1>2 DEF Idling, Settled, Futex
<1> QED
  BY <1>5, <1>6, <1>8, <1>9, <1>10

LEMMA StartInv ==
  ASSUME IInv, NEW t \in Track, Start(t), UNCHANGED scenario PROVE IInv'
<1> USE DEF IInv, Start, queueVars, threadVars, fastVars
<1>1. ~Removing /\ mpc # "done" /\ t \in mTracks
  BY DEF CanLock, AtRest, Removing, Tracks
<1>2. mFastIndex[t] \in Index
  BY <1>1 DEF Tracks, TypeOK
<1>3. mFastIndex[t] \notin state.mTrackMask
  BY <1>1 DEF Tracks, Active
<1>4. TypeOK'
  BY DEF TypeOK
<1>5. (Pictures /\ Pointers /\ AudioMixer)'
  BY DEF Pictures, Pointers, AudioMixer, MixedState
<1>6. Tracks'
  BY <1>1 DEF Tracks, Active
<1>7. (Removal /\ Room)'
  BY <1>1, <1>3 DEF Removal, Removing, Leaving, Room
<1>8. (Idling /\ Futex)'
  BY DEF Idling, Settled, Futex
<1> QED
  BY <1>4, <1>5, <1>6, <1>7, <1>8

(***************************************************************************)
(* destroyTrack_l() frees the slot of a track that is not active at once:  *)
(* no picture has the track.                                               *)
(***************************************************************************)
LEMMA DestroyTrackInv ==
  ASSUME IInv, NEW t \in Track, DestroyTrack(t), UNCHANGED scenario PROVE IInv'
<1> USE DEF IInv, queueVars, threadVars, fastVars
<1>1. /\ t \in handles /\ handles' = handles \ {t}
      /\ UNCHANGED <<queueVars, threadVars, mActiveTracks, mFastIndex, isSuspended, fastVars,
                     mFastMixerFutex>>
  BY DEF DestroyTrack
<1>2. mFastIndex[t] \in Index
  BY <1>1 DEF Tracks, TypeOK
<1>3. TypeOK'
  BY <1>1, <1>2 DEF TypeOK, DestroyTrack, RemovedAtOnce
<1>4. (Pictures /\ Pointers /\ AudioMixer)'
  BY <1>1 DEF Pictures, Pointers, AudioMixer, MixedState
<1>5. Tracks'
  <2>1. CASE ~Dying /\ t \notin mActiveTracks
    <3>1. /\ terminated' = terminated \cup {t} /\ mTracks' = mTracks \ {t}
          /\ mFastTrackAvailMask' = mFastTrackAvailMask \cup {mFastIndex[t]}
          /\ mpc # "done"
      BY <2>1 DEF DestroyTrack, RemovedAtOnce, Dying
    <3>2. mFastIndex[t] \notin state.mTrackMask \cup latest.mTrackMask \cup qcurrent.mTrackMask
      BY <1>1, <2>1, <3>1 DEF Tracks, Active
    <3> QED
      BY <1>1, <2>1, <3>1, <3>2 DEF Tracks, Active
  <2>2. CASE Dying \/ t \in mActiveTracks
    <3>1. /\ terminated' \in {terminated, terminated \cup {t}}
          /\ UNCHANGED <<mTracks, mFastTrackAvailMask>>
      BY <2>2 DEF DestroyTrack, RemovedAtOnce
    <3> QED
      BY <1>1, <3>1 DEF Tracks, Active
  <2> QED
    BY <2>1, <2>2
<1>6. (Removal /\ Room)'
  BY <1>1 DEF Removal, Removing, Leaving, Room
<1>7. (Idling /\ Futex)'
  BY <1>1 DEF Idling, Settled, Futex
<1> QED
  BY <1>3, <1>4, <1>5, <1>6, <1>7

LEMMA SuspendInv == ASSUME IInv, Suspend, UNCHANGED scenario PROVE IInv'
<1> USE DEF IInv, Suspend, queueVars, threadVars, fastVars
<1>1. TypeOK'
  BY DEF TypeOK
<1>2. (Pictures /\ Pointers /\ AudioMixer)'
  BY DEF Pictures, Pointers, AudioMixer, MixedState
<1>3. (Tracks /\ Removal /\ Room)'
  BY DEF Tracks, Active, Removal, Removing, Leaving, Room
<1>4. (Idling /\ Futex)'
  BY DEF Idling, Settled, Futex
<1> QED
  BY <1>1, <1>2, <1>3, <1>4

LEMMA UnchangedInv == ASSUME IInv, UNCHANGED <<vars, scenario>> PROVE IInv'
<1> USE DEF IInv, vars, queueVars, threadVars, trackVars, fastVars
<1>1. TypeOK'
  BY DEF TypeOK
<1>2. (Pictures /\ Pointers /\ AudioMixer)'
  BY DEF Pictures, Pointers, AudioMixer, MixedState
<1>3. (Tracks /\ Removal /\ Room)'
  BY DEF Tracks, Active, Removal, Removing, Leaving, Room
<1>4. (Idling /\ Futex)'
  BY DEF Idling, Settled, Futex
<1> QED
  BY <1>1, <1>2, <1>3, <1>4
-----------------------------------------------------------------------------
(* The theorems *)

LEMMA NextInv == ASSUME IInv, [Next /\ UNCHANGED scenario]_<<vars, scenario>> PROVE IInv'
<1>1. CASE UNCHANGED <<vars, scenario>>
  BY <1>1, UnchangedInv
<1>2. CASE Next /\ UNCHANGED scenario
  <2>1. CASE FastThread
    BY <1>2, <2>1, PollNewInv, PollSameInv, WorkInv, ColdDecInv, ColdWaitInv, AwakeInv
    DEF FastThread
  <2>2. CASE MixerThread
    BY <1>2, <2>2, PublishedInv, AcknowledgedInv, WakeInv, NewParameterInv, SetParametersInv,
       ConfigDoneInv, EnterStandbyInv, InStandbyInv, NoStandbyInv, PrepareTracksInv,
       RemoveTracksInv, threadLoop_writeInv, NoWriteInv, NextCycleInv, ExitStandbyInv,
       DestroyInv, JoinInv
    DEF MixerThread, Pushing
  <2>3. CASE Client
    BY <1>2, <2>3, CreateTrackInv, StartInv, DestroyTrackInv DEF Client
  <2>4. CASE Suspend
    BY <1>2, <2>4, SuspendInv
  <2>5. CASE Closed
    BY <1>2, <2>5, UnchangedInv DEF Closed
  <2> QED
    BY <1>2, <2>1, <2>2, <2>3, <2>4, <2>5 DEF Next
<1> QED
  BY <1>1, <1>2

(***************************************************************************)
(* The invariant holds of every run of the mixer thread, its fast mixer    *)
(* and its clients, in every scenario, whether or not the threads are      *)
(* scheduled fairly.                                                       *)
(***************************************************************************)
THEOREM Invariant == Spec => []IInv
<1>1. Init => IInv
  BY InitInv
<1>2. IInv /\ [Next /\ UNCHANGED scenario]_<<vars, scenario>> => IInv'
  BY NextInv
<1> QED
  BY <1>1, <1>2, PTL DEF Spec

(***************************************************************************)
(* Type correctness: the futex stays in -1 .. 1 and every mGeneration      *)
(* within the bound that Start() leaves room for.                          *)
(***************************************************************************)
THEOREM TypeCorrect == Spec => []TypeOK
<1>1. IInv => TypeOK
  BY DEF IInv
<1> QED
  BY <1>1, Invariant, PTL

(***************************************************************************)
(* The fast mixer never touches a destroyed track: what it can reach from  *)
(* the polled state is still active, because a removal waits for its       *)
(* acknowledgement (prepareTracks_l()).                                    *)
(***************************************************************************)
THEOREM NoDanglingTracks == Spec => []NoDanglingTrack
<1>1. ASSUME IInv PROVE NoDanglingTrack
  <2>1. SUFFICES ASSUME fpc = "work", NEW t \in Touched PROVE Exists(t)
    BY DEF NoDanglingTrack
  <2>2. PICK i \in qcurrent.mTrackMask : t = qcurrent.mFastTracks[i].mBufferProvider
    <3>1. MixedState = qcurrent /\ qcurrent.mTrackMask \subseteq Index
      BY <1>1, <2>1, DerefFacts DEF IInv, Pointers, MixedState, IDLE, FastMixerState
    <3> QED
      BY <1>1, <2>1, <3>1, DerefFacts DEF Touched, IInv, AudioMixer
  <2>3. mpc # "done" /\ mActiveTracks \subseteq mTracks
    BY <1>1, <2>1 DEF IInv, Tracks
  <2> QED
    BY <1>1, <2>2, <2>3 DEF IInv, Tracks, Active, Exists
<1> QED
  BY <1>1, Invariant, PTL

(***************************************************************************)
(* The mixer pulls from the tracks of the polled state and from no other   *)
(* (FastMixer::onStateChange()).                                           *)
(***************************************************************************)
THEOREM MixesTheCurrentTracks == Spec => []MixesCurrentTracks
<1>1. ASSUME IInv PROVE MixesCurrentTracks
  BY <1>1, DerefFacts DEF IInv, Pointers, AudioMixer, MixedState, MixesCurrentTracks, IDLE
<1> QED
  BY <1>1, Invariant, PTL

(***************************************************************************)
(* FastThread keeps no pointer to a slot that the state queue may reuse.   *)
(***************************************************************************)
THEOREM NoStateIsReused == Spec => []NoReusedState
<1>1. ASSUME IInv PROVE NoReusedState
  <2>1. qcurrent.mCommand \in {"MIX_WRITE", "EXIT"} \cup IDLE \/ current = "initial"
    BY <1>1, DerefFacts DEF IInv, Pointers, FastMixerState, Command
  <2> QED
    BY <1>1, <2>1 DEF IInv, Pointers, NoReusedState
<1> QED
  BY <1>1, Invariant, PTL

(***************************************************************************)
(* When a push of an idle command has returned, the fast mixer does no     *)
(* I/O (threadLoop_standby(), checkForNewParameter_l()).                   *)
(***************************************************************************)
THEOREM IdleFastMixerIsQuiet == Spec => []IdleIsQuiet
<1>1. ASSUME IInv PROVE IdleIsQuiet
  BY <1>1 DEF IInv, Idling, Settled, Pointers, IdleIsQuiet
<1> QED
  BY <1>1, Invariant, PTL

(***************************************************************************)
(* A slot that may be given to a new track is in no picture, and belongs   *)
(* to no track of the thread.                                              *)
(***************************************************************************)
THEOREM FreeSlotsAreUnused == Spec => []FreeSlotIsUnused
<1>1. ASSUME IInv PROVE FreeSlotIsUnused
  BY <1>1, DerefFacts DEF IInv, Tracks, FreeSlotIsUnused
<1> QED
  BY <1>1, Invariant, PTL
=============================================================================
