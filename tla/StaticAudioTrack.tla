--------------------------- MODULE StaticAudioTrack ---------------------------
(***************************************************************************)
(* The control block of an AudioTrack whose frames are all in its buffer   *)
(* from the start (media/libmedia/AudioTrackShared.cpp, the static         *)
(* proxies): the client, which may set a position or a loop while it is    *)
(* not playing, sends them through a SingleStateQueue; the server takes    *)
(* them whenever it looks for frames, plays the loop as often as asked and *)
(* then to the end, and counts the frames to come, on which it asserts.    *)
(*                                                                         *)
(* The queue has the variables of LatestValue, which SingleStateQueue      *)
(* implements.  Of the states of the track (PlaybackTracks) there is what  *)
(* decides whether a mixer looks at it; how long the presentation of the   *)
(* last frames takes is open.                                              *)
(***************************************************************************)
EXTENDS Integers

CONSTANTS
  mFrameCount,
  MIN_LOOP,
  MaxLoops,        \* bound on the count of a loop
  FrameCount,      \* what the mixer takes in one mix
  Scenarios        \* the kind of the track, "normal" or "fast", and what May happen to it:
                   \* "keeps", a mixer that keeps a buffer from one mix to the next;
                   \* "setSyncEvent", from a binder thread

ASSUME SizeAssumption ==
  /\ mFrameCount \in Nat \ {0} /\ MIN_LOOP \in Nat \ {0}
  /\ MaxLoops \in Nat /\ FrameCount \in Nat \ {0}
ASSUME ScenarioAssumption ==
  Scenarios \subseteq [kind : {"normal", "fast"}, May : SUBSET {"keeps", "setSyncEvent"}]

INT64_MAX == (MaxLoops + 2) * mFrameCount    \* more than any other number of frames
Position == 0 .. mFrameCount

VARIABLES
  scenario,
  \* AudioTrack and its proxy
  cState, cBufferPosition,
  \* the queue: the value pushed last, and whether poll() has yet to return it
  latest, fresh,
  mBufferPosition,    \* of the control block
  \* StaticAudioTrackServerProxy
  mPosition, mFramesReady, mState, mUnreleased, mIsShutdown,
  toStore,            \* taken, and not yet in mBufferPosition
  \* the track
  sState, active,     \* in mActiveTracks, and of the fast mixer if it is fast
  dry,                \* underruns of a fast track since prepareTracks_l() looked
  \* the thread that mixes it
  spc, wanted, buffer,
  aborted             \* a LOG_ALWAYS_FATAL_IF was met

clientVars == <<cState, cBufferPosition, latest>>
proxyVars == <<mPosition, mFramesReady, mState, mIsShutdown>>
mixVars == <<spc, wanted, buffer>>
vars == <<clientVars, fresh, mBufferPosition, proxyVars, mUnreleased, toStore, sState, active,
          dry, mixVars, aborted>>

NoPosition == -1
NoBuffer == [raw |-> 0, count |-> 0]

TypeOK ==
  /\ scenario \in Scenarios
  /\ cState \in {"STOPPED", "PAUSED", "ACTIVE"} /\ cBufferPosition \in 0 .. mFrameCount + 1
  /\ {latest, mState} \subseteq [start : 0 .. mFrameCount + 1, end : Position, count : -1 .. MaxLoops]
  /\ mBufferPosition \in Position /\ mPosition \in Position /\ toStore \in Position \cup {NoPosition}
  /\ mFramesReady \in 0 .. INT64_MAX /\ {mUnreleased, wanted} \subseteq 0 .. FrameCount
  /\ {fresh, mIsShutdown, active, dry, aborted} \subseteq BOOLEAN
  /\ sState \in {"STOPPED", "PAUSING", "PAUSED", "ACTIVE"}
  /\ spc \in {"idle", "prepared", "mix", "obtain"}
  /\ buffer \in [raw : Position, count : 0 .. FrameCount]

Init ==
  /\ scenario \in Scenarios
  /\ cState = "STOPPED" /\ cBufferPosition = 0
  /\ mState = [start |-> 0, end |-> 0, count |-> 0] /\ latest = mState /\ fresh = FALSE
  /\ mBufferPosition = 0 /\ mPosition = 0 /\ mFramesReady = mFrameCount
  /\ mUnreleased = 0 /\ mIsShutdown = FALSE /\ toStore = NoPosition
  /\ sState = "STOPPED" /\ active = FALSE /\ dry = FALSE
  /\ spc = "idle" /\ wanted = 0 /\ buffer = NoBuffer /\ aborted = FALSE

Least(a, b) == IF a < b THEN a ELSE b
-----------------------------------------------------------------------------
(* pollPosition() *)

IsLoop(state) ==
  state.start < state.end /\ state.end <= mFrameCount /\ state.end - state.start >= MIN_LOOP

\* Where the server goes on, once it has taken the state.
Resumes_Mutant(state) == IF state.count = 0 THEN Least(state.start, mFrameCount) ELSE mPosition
Resumes(state) ==
  IF state.count = 0 THEN Least(state.start, mFrameCount)
  ELSE IF mPosition >= state.end THEN state.start ELSE mPosition

\* The frames to come from a position: the rest, and the loop as often as it is repeated.
FramesFrom(state, position) ==
  IF state.count = -1 THEN INT64_MAX
  ELSE state.count * (state.end - state.start) + mFrameCount - position

\* Nothing new, or a state taken, or one that no client of AudioTrack pushes.
pollPosition ==
  /\ fresh' = FALSE
  /\ \/ ~fresh /\ UNCHANGED proxyVars
     \/ /\ fresh /\ (latest.count = 0 \/ IsLoop(latest))
        /\ mPosition' = Resumes(latest)
        /\ mState' = IF latest.count = 0 THEN [mState EXCEPT !.count = 0] ELSE latest
        /\ mFramesReady' = FramesFrom(latest, mPosition')
        /\ UNCHANGED mIsShutdown
     \/ /\ fresh /\ latest.count # 0 /\ ~IsLoop(latest)
        /\ mIsShutdown' = TRUE
        /\ UNCHANGED <<mPosition, mState, mFramesReady>>

\* By the thread that mixes: the store in the control block is a step of its own.
Poll ==
  /\ pollPosition
  /\ toStore' = IF fresh /\ ~mIsShutdown' THEN mPosition' ELSE NoPosition

\* What obtainBuffer() grants.
Available(position, state, n) ==
  LET end == IF state.count # 0 THEN state.end ELSE mFrameCount
  IN IF position < end THEN Least(end - position, n) ELSE 0
-----------------------------------------------------------------------------
(* The client, under AudioTrack's lock *)

\* prepareTracks_l() is not under way.
CanLock == spc # "prepared" /\ ~aborted

\* StaticAudioTrackClientProxy::getBufferPosition()
getBufferPosition == IF fresh THEN cBufferPosition ELSE Least(mBufferPosition, mFrameCount)

\* setLoop(), and setPosition() and reload(), which are a setLoop() without repetition.
setLoop(state) ==
  /\ cState # "ACTIVE" /\ (state.count # 0 => IsLoop(state)) /\ ~aborted
  /\ cBufferPosition' = IF state.count = 0 \/ getBufferPosition >= state.end THEN state.start
                        ELSE getBufferPosition
  /\ latest' = state /\ fresh' = TRUE
  /\ UNCHANGED <<cState, mBufferPosition, proxyVars, mUnreleased, toStore, sState, active, dry,
                 mixVars, aborted>>

\* Track::start() of a track that is not active obtains a frame, "usually unsafe"
\* but for no mixer looking at the track yet; the mixer starts with no buffer.
Start ==
  /\ cState # "ACTIVE" /\ CanLock
  /\ cState' = "ACTIVE" /\ sState' = "ACTIVE" /\ active' = TRUE
  /\ IF active
     THEN UNCHANGED <<fresh, mBufferPosition, proxyVars, mUnreleased, buffer, aborted>>
     ELSE /\ IF mIsShutdown THEN UNCHANGED <<fresh, proxyVars>> ELSE pollPosition
          /\ mBufferPosition' = IF fresh /\ ~mIsShutdown' THEN mPosition' ELSE mBufferPosition
          /\ mUnreleased' = IF mIsShutdown' THEN 0 ELSE Available(mPosition', mState', 1)
          /\ aborted' = (mFramesReady' < mUnreleased')
          /\ buffer' = NoBuffer
  /\ UNCHANGED <<cBufferPosition, latest, toStore, dry, spc, wanted>>

Pause ==
  /\ cState = "ACTIVE" /\ CanLock
  /\ cState' = "PAUSED" /\ sState' = "PAUSING"
  /\ UNCHANGED <<cBufferPosition, latest, fresh, mBufferPosition, proxyVars, mUnreleased, toStore,
                 active, dry, mixVars, aborted>>

Stop ==
  /\ cState # "STOPPED" /\ CanLock
  /\ cState' = "STOPPED" /\ sState' = "STOPPED"
  /\ UNCHANGED <<cBufferPosition, latest, fresh, mBufferPosition, proxyVars, mUnreleased, toStore,
                 active, dry, mixVars, aborted>>

LoopState ==
  [start : 0 .. mFrameCount + 1, end : {mFrameCount}, count : {0}]
    \cup [start : Position, end : Position, count : {-1} \cup 1 .. MaxLoops]
Client == (\E state \in LoopState : setLoop(state)) \/ Start \/ Pause \/ Stop
-----------------------------------------------------------------------------
(* The server *)

\* The mixing thread goes on; it first stores what it has taken.
Mixing(pc) == spc = pc /\ active /\ toStore = NoPosition /\ ~aborted

Store ==
  /\ toStore # NoPosition /\ ~aborted
  /\ mBufferPosition' = toStore /\ toStore' = NoPosition
  /\ UNCHANGED <<clientVars, fresh, proxyVars, mUnreleased, sState, active, dry, mixVars, aborted>>

\* framesReady() of a fast track does not poll: several threads call it.
PollsWhenAsked_Always == TRUE
PollsWhenAsked_Never == FALSE
PollsWhenAsked == scenario.kind = "normal"

\* prepareTracks_l() asks a normal track for its frames ...
Prepare ==
  /\ scenario.kind = "normal" /\ Mixing("idle")
  /\ IF sState # "STOPPED" /\ PollsWhenAsked THEN Poll ELSE UNCHANGED <<fresh, proxyVars, toStore>>
  /\ spc' = "prepared"
  /\ UNCHANGED <<clientVars, mBufferPosition, mUnreleased, sState, active, dry, wanted, buffer,
                 aborted>>

\* ... mixes it, a last time if it is pausing ...
Ready == sState # "STOPPED" /\ mFramesReady > 0
Mix ==
  /\ Mixing("prepared") /\ Ready /\ sState # "PAUSED"
  /\ sState' = IF sState = "PAUSING" THEN "PAUSED" ELSE sState
  /\ spc' = "mix" /\ wanted' = FrameCount
  /\ UNCHANGED <<clientVars, fresh, mBufferPosition, proxyVars, mUnreleased, toStore, active, dry,
                 buffer, aborted>>

\* ... or takes it out when its last frames have been presented.
Rest ==
  /\ Mixing("prepared") /\ ~(Ready /\ sState # "PAUSED")
  /\ active' \in BOOLEAN
  /\ spc' = "idle"
  /\ UNCHANGED <<clientVars, fresh, mBufferPosition, proxyVars, mUnreleased, toStore, sState, dry,
                 wanted, buffer, aborted>>

\* The fast mixer asks and mixes by itself.
FastMix ==
  /\ scenario.kind = "fast" /\ Mixing("idle")
  /\ dry' = (dry \/ ~Ready \/ mFramesReady < FrameCount)
  /\ IF Ready THEN spc' = "mix" /\ wanted' = FrameCount ELSE UNCHANGED <<spc, wanted>>
  /\ UNCHANGED <<clientVars, fresh, mBufferPosition, proxyVars, mUnreleased, toStore, sState,
                 active, buffer, aborted>>

\* prepareTracks_l() takes a fast track out when it has run dry, or is paused or
\* stopped, and its last frames have been presented.
FastState ==
  /\ scenario.kind = "fast" /\ Mixing("idle")
  /\ dry' = FALSE
  /\ sState' = IF sState = "PAUSING" THEN "PAUSED" ELSE sState
  /\ active' \in IF sState \in {"PAUSED", "STOPPED"} \/ (sState = "ACTIVE" /\ dry)
                 THEN BOOLEAN ELSE {TRUE}
  /\ UNCHANGED <<clientVars, fresh, mBufferPosition, proxyVars, mUnreleased, toStore, mixVars,
                 aborted>>

\* getNextBuffer(): obtainBuffer() polls ...
ObtainBuffer ==
  /\ Mixing("mix") /\ buffer.count = 0
  /\ IF mIsShutdown THEN UNCHANGED <<fresh, proxyVars, toStore>> ELSE Poll
  /\ spc' = "obtain"
  /\ UNCHANGED <<clientVars, mBufferPosition, mUnreleased, sState, active, dry, wanted, buffer,
                 aborted>>

\* ... and grants the frames up to the end of the loop or of the buffer.
Obtained ==
  LET avail == IF mIsShutdown THEN 0 ELSE Available(mPosition, mState, wanted)
  IN /\ Mixing("obtain")
     /\ aborted' = (mFramesReady < avail)
     /\ mUnreleased' = avail
     /\ buffer' = IF avail = 0 THEN NoBuffer ELSE [raw |-> mPosition, count |-> avail]
     /\ spc' = IF avail = 0 THEN "idle" ELSE "mix"
     /\ UNCHANGED <<clientVars, fresh, mBufferPosition, proxyVars, toStore, sState, active, dry,
                    wanted>>

\* The loop goes on as long as it is to be repeated.
EndsLoop(newPosition) == mState.count # 0 /\ newPosition = mState.end
LoopsLeft == IF mState.count = -1 THEN -1 ELSE mState.count - 1

\* The mixer has used the buffer, and wants the rest of what it mixes.
ReleaseBuffer ==
  LET stepCount == buffer.count
      newPosition == Least(mPosition + stepCount, mFrameCount)
      ends == EndsLoop(newPosition) /\ mPosition + stepCount <= mFrameCount
  IN /\ Mixing("mix") /\ stepCount > 0
     /\ aborted' = ~(stepCount <= mFramesReady /\ stepCount <= mUnreleased)
     /\ IF aborted' THEN UNCHANGED <<mBufferPosition, proxyVars, mUnreleased>>
        ELSE /\ mUnreleased' = mUnreleased - stepCount
             /\ mPosition' = IF ends THEN mState.start ELSE newPosition
             /\ mState' = IF ends THEN [mState EXCEPT !.count = LoopsLeft] ELSE mState
             /\ mFramesReady' = IF mFramesReady = INT64_MAX THEN INT64_MAX ELSE mFramesReady - stepCount
             /\ mBufferPosition' = mPosition'
             /\ UNCHANGED mIsShutdown
     /\ buffer' = NoBuffer
     /\ wanted' = wanted - Least(wanted, stepCount)
     /\ spc' = IF wanted' = 0 THEN "idle" ELSE "mix"
     /\ UNCHANGED <<clientVars, fresh, toStore, sState, active, dry>>

\* A resampler has enough for this mix and keeps the buffer for the next.
Keep ==
  /\ "keeps" \in scenario.May /\ Mixing("mix") /\ buffer.count > 0
  /\ spc' = "idle"
  /\ UNCHANGED <<clientVars, fresh, mBufferPosition, proxyVars, mUnreleased, toStore, sState,
                 active, dry, wanted, buffer, aborted>>

\* Track::setSyncEvent(), under mLock, which the thread that mixes does not hold.
SetSyncEvent ==
  /\ "setSyncEvent" \in scenario.May /\ CanLock /\ sState # "STOPPED" /\ toStore = NoPosition
  /\ IF PollsWhenAsked THEN Poll ELSE UNCHANGED <<fresh, proxyVars, toStore>>
  /\ UNCHANGED <<clientVars, mBufferPosition, mUnreleased, sState, active, dry, mixVars, aborted>>

MixStep ==
  \/ Store \/ Prepare \/ Mix \/ Rest \/ FastMix \/ ObtainBuffer \/ Obtained \/ ReleaseBuffer
Next == Client \/ MixStep \/ Keep \/ FastState \/ SetSyncEvent

Spec == Init /\ [][Next /\ UNCHANGED scenario]_<<vars, scenario>>

\* A mixer turns as long as one of its tracks is active.
FairSpec == Spec /\ WF_vars(MixStep)
-----------------------------------------------------------------------------
(* Properties *)

(***************************************************************************)
(* The frame after each frame: the loop goes back to its start, and counts,*)
(* and the rest of the buffer follows the last repetition.                 *)
(***************************************************************************)
Follows(at) ==
  IF at.count # 0 /\ at.position + 1 = mState.end
  THEN [position |-> mState.start, count |-> IF at.count = -1 THEN -1 ELSE at.count - 1]
  ELSE [at EXCEPT !.position = @ + 1]
Walk[n \in 0 .. FrameCount] ==
  IF n = 0 THEN [position |-> mPosition, count |-> mState.count] ELSE Follows(Walk[n - 1])

(***************************************************************************)
(* What is played is the frames in this order, none skipped and none       *)
(* repeated, whatever is taken from the queue between obtaining a buffer   *)
(* and releasing it.                                                       *)
(***************************************************************************)
PlaysInOrder ==
  [][spc = "mix" /\ buffer.count > 0 /\ buffer'.count = 0 =>
       /\ Walk[buffer.count] = [position |-> mPosition', count |-> mState'.count]
       /\ \A n \in 0 .. buffer.count - 1 : Walk[n].position = buffer.raw + n]_vars

(***************************************************************************)
(* "As mFramesReady is the total remaining frames in the static audio      *)
(* track, it is always larger or equal to avail": it is what remains,      *)
(* the end of a loop is ahead while it is to be repeated, and neither the  *)
(* server's assertions nor its check of the client's states ever fail.     *)
(***************************************************************************)
AccountsAgree ==
  /\ ~aborted /\ ~mIsShutdown
  /\ mFramesReady = FramesFrom(mState, mPosition)
  /\ mState.count # 0 => mPosition < mState.end

(***************************************************************************)
(* A track that has been started plays from the position or the loop set   *)
(* before, to its end: reload() is for "restarting playback after a stop". *)
(***************************************************************************)
ToPlay == cState = "ACTIVE" /\ (fresh \/ mFramesReady \notin {0, INT64_MAX})
PlaysToTheEnd == scenario.kind = "normal" /\ ToPlay ~> ~ToPlay
StartIsPlayed == ToPlay ~> ~ToPlay

(***************************************************************************)
(* What getBufferPosition() answers while nothing is obtained is where the *)
(* server is, or the position set last: "so that getBufferPosition()       *)
(* appears to be synchronous".                                             *)
(***************************************************************************)
PositionIsSynchronous == ~fresh => mBufferPosition = mPosition
=============================================================================
