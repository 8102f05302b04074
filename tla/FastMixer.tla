----------------------------- MODULE FastMixer -----------------------------
(***************************************************************************)
(* A MixerThread and its FastMixer (services/audioflinger: Threads.cpp,    *)
(* FastThread.cpp, FastMixer.cpp): how the normal mixer starts, idles,     *)
(* reconfigures and ends the fast mixer, and how it adds and removes the   *)
(* fast tracks that the fast mixer reads through raw pointers.             *)
(*                                                                         *)
(* The threads meet in a StateQueue, represented here by what it was       *)
(* proved to implement (PublishedState), in the futex of COLD_IDLE, and in *)
(* the tracks.  The submix (fast track 0) never changes and is left out,   *)
(* as are the audio, the timing of a cycle and the warm-up, which only     *)
(* makes the fast mixer touch fewer tracks.                                *)
(***************************************************************************)
EXTENDS Integers, FiniteSets

CONSTANTS
  Track,        \* the fast tracks that clients may create
  NULL,         \* no track
  nFastTracks,  \* fast mixer slots besides the submix's (kMaxFastTracks - 1)
  MaxGen,       \* bound on each mGeneration, reached by starting tracks
  MaxColdGen,   \* largest mColdGen (2^32 - 1)
  Scenarios     \* the Prompt and MaySuspend looked at

ASSUME TrackAssumption == NULL \notin Track
ASSUME BoundAssumption ==
  nFastTracks \in Nat \ {0} /\ MaxGen \in Nat \ {0} /\ MaxColdGen \in Nat \ {0}
ASSUME ScenarioAssumption ==
  Scenarios # {} /\ Scenarios \subseteq [Prompt : BOOLEAN, MaySuspend : BOOLEAN]

Index == 1 .. nFastTracks

\* FastThreadState::Command, FastMixerState::Command
IDLE == {"HOT_IDLE", "COLD_IDLE"}
Command == IDLE \cup {"INITIAL", "EXIT", "MIX_WRITE"}

FastTrack == [mBufferProvider : Track \cup {NULL}, mGeneration : 0 .. MaxGen]
FastMixerState ==
  [mCommand : Command, mColdGen : 0 .. MaxColdGen, mFrameCount : {0, 1},
   mFastTracks : [Index -> FastTrack], mFastTracksGen : Nat, mTrackMask : SUBSET Index]

\* The static FastMixer::initial.
initial ==
  [mCommand |-> "INITIAL", mColdGen |-> 0, mFrameCount |-> 0,
   mFastTracks |-> [i \in Index |-> [mBufferProvider |-> NULL, mGeneration |-> 0]],
   mFastTracksGen |-> 0, mTrackMask |-> {}]

VARIABLES
  \* of Scenarios: whether the fast mixer reaches the futex before the next
  \* standby, and whether the policy manager may suspend the output
  scenario,
  \* the state queue (PublishedState)
  latest, qcurrent, qprevious, fresh,
  \* the mixer thread
  state,          \* the mutator's working state
  mpc, then,      \* where the thread is, and where push() returns to
  block,          \* TRUE for BLOCK_UNTIL_ACKED, FALSE for BLOCK_UNTIL_PUSHED
  previousCommand,\* checkForNewParameter_l()'s local
  mStandby,
  mTracks, mActiveTracks, tracksToRemove,
  mFastTrackAvailMask,
  isSuspended,    \* set by the policy manager, without mLock
  \* shared by both threads
  mFastMixerFutex,
  \* the fast mixer thread
  fpc,            \* where the thread is
  current, previous, \* what its pointers of these names point to
  preIdle,        \* the copy of the last state before idling
  coldGen, generations, fastTracksGen,
  provider,       \* its AudioMixer: the buffer provider of each slot's name
  expected,       \* the value it passes to FUTEX_WAIT
  \* the clients
  mFastIndex,     \* of each track
  handles,        \* tracks whose TrackHandle exists
  terminated      \* tracks on which terminate() was called

queueVars == <<latest, qcurrent, qprevious, fresh>>
threadVars == <<state, mpc, then, block, previousCommand, mStandby, tracksToRemove>>
trackVars == <<mTracks, mActiveTracks, mFastTrackAvailMask, mFastIndex, handles, terminated,
               isSuspended>>
fastVars == <<fpc, current, previous, preIdle, coldGen, generations, fastTracksGen,
              provider, expected>>
vars == <<queueVars, threadVars, trackVars, fastVars, mFastMixerFutex>>

Queue == INSTANCE PublishedState WITH
  Value <- FastMixerState, NoValue <- initial, current <- qcurrent, previous <- qprevious

\* What the fast mixer's pointers can point to.  A slot of the queue is known by
\* its age; the queue reuses one that is older than its previous state.
Pointer == {"initial", "preIdle", "current", "previous", "reused"}
Aged(p) == CASE p = "current" -> "previous" [] p = "previous" -> "reused" [] OTHER -> p
Deref(p) == CASE p = "preIdle" -> preIdle [] p = "current" -> qcurrent
              [] p = "previous" -> qprevious [] OTHER -> initial

TypeOK ==
  /\ {latest, qcurrent, qprevious, state, preIdle} \subseteq FastMixerState
  /\ scenario \in Scenarios /\ fresh \in BOOLEAN /\ block \in BOOLEAN /\ mStandby \in BOOLEAN
  /\ isSuspended \in BOOLEAN
  /\ {mpc, then} \subseteq {"config", "params", "standby", "inStandby", "waiting", "prepare",
                            "removed", "write", "clear", "exitStandby", "destroy", "join",
                            "wake", "push", "ack", "done"}
  /\ previousCommand \in Command
  /\ mTracks \subseteq Track /\ mActiveTracks \subseteq Track /\ tracksToRemove \subseteq Track
  /\ mFastTrackAvailMask \subseteq Index
  /\ mFastMixerFutex \in -1 .. 1
  /\ fpc \in {"poll", "cold", "wait", "asleep", "awake", "work", "exited"}
  /\ current \in Pointer /\ previous \in Pointer
  /\ coldGen \in 0 .. MaxColdGen /\ generations \in [Index -> 0 .. MaxGen]
  /\ fastTracksGen \in Int /\ expected \in Int
  /\ provider \in [Index -> Track \cup {NULL}]
  /\ mFastIndex \in [Track -> Index \cup {0}]
  /\ handles \subseteq Track /\ terminated \subseteq Track

\* The MixerThread constructor, and FastMixer's: the initial state has been
\* pushed, the fast mixer has not polled yet.
Init ==
  /\ scenario \in Scenarios
  /\ state = [initial EXCEPT !.mCommand = "COLD_IDLE", !.mColdGen = 1, !.mFrameCount = 1,
                             !.mFastTracksGen = 1]
  /\ latest = state /\ fresh = TRUE /\ qcurrent = initial /\ qprevious = initial
  /\ mpc = "config" /\ then = "config" /\ block = FALSE
  /\ previousCommand = "HOT_IDLE" /\ mStandby = FALSE
  /\ mTracks = {} /\ mActiveTracks = {} /\ tracksToRemove = {}
  /\ mFastTrackAvailMask = Index /\ isSuspended = FALSE
  /\ mFastMixerFutex = 0
  /\ fpc = "poll" /\ current = "initial" /\ previous = "initial" /\ preIdle = initial
  /\ coldGen = 0 /\ generations = [i \in Index |-> 0] /\ fastTracksGen = 0
  /\ provider = [i \in Index |-> NULL] /\ expected = 0
  /\ mFastIndex = [t \in Track |-> 0] /\ handles = {} /\ terminated = {}
-----------------------------------------------------------------------------
(* The fast mixer: FastThread::threadLoop() *)

\* The slots of mask whose track was replaced by another since the last look.
Modified(c, mask) == {i \in mask : c.mFastTracks[i].mGeneration # generations[i]}

\* onStateChange(): bring the AudioMixer from the tracks of the previous state to
\* those of the current one, c; p is the state before, whose mask says which
\* slots had a track, unless the mixer itself has just been replaced.
onStateChange(c, p) ==
  LET replaced == c.mFrameCount # p.mFrameCount
      previousTrackMask == IF replaced THEN {} ELSE p.mTrackMask
      added == c.mTrackMask \ previousTrackMask
      removed == previousTrackMask \ c.mTrackMask
      modified == Modified(c, c.mTrackMask \cap previousTrackMask)
  IN IF replaced \/ c.mFastTracksGen # fastTracksGen
     THEN /\ provider' = [i \in Index |->
                            IF i \in added \cup modified THEN c.mFastTracks[i].mBufferProvider
                            ELSE IF replaced \/ i \in removed THEN NULL ELSE provider[i]]
          /\ generations' = [i \in Index |->
                               IF i \in added \cup modified \cup removed
                               THEN c.mFastTracks[i].mGeneration ELSE generations[i]]
          /\ fastTracksGen' = c.mFastTracksGen
     ELSE UNCHANGED <<provider, generations, fastTracksGen>>

\* What a cycle does with the state c after poll(); prev is the pointer to
\* compare it with.
Obey(c, cur, prev, p) ==
  CASE c.mCommand = "MIX_WRITE" ->
         /\ IF cur # prev THEN onStateChange(c, p)
            ELSE UNCHANGED <<provider, generations, fastTracksGen>>
         /\ previous' = cur
         /\ fpc' = "work"
    [] c.mCommand = "EXIT" ->
         /\ previous' = prev /\ fpc' = "exited"
         /\ UNCHANGED <<provider, generations, fastTracksGen>>
    [] OTHER ->
         /\ previous' = prev
         /\ fpc' = IF c.mCommand = "COLD_IDLE" /\ c.mColdGen # coldGen THEN "cold" ELSE "poll"
         /\ UNCHANGED <<provider, generations, fastTracksGen>>

\* "When there is a transition from a non-idle state into an idle state, we make
\* a copy of the last known non-idle state."
GoesIdle_Mutant(was, now) == FALSE
GoesIdle(was, now) == was.mCommand \notin IDLE /\ now.mCommand \in IDLE

\* A cycle in which poll() returns a new state, up to the first thing another
\* thread can notice.  Leaving a non-idle state for an idle one keeps a copy.
PollNew ==
  /\ fpc = "poll"
  /\ Queue!Observe
  /\ LET was == Deref(current)
         idling == GoesIdle(was, latest)
         prev == CASE idling -> "preIdle"
                   [] ~idling /\ was.mCommand \notin IDLE -> Aged(current)
                   [] OTHER -> Aged(previous)
         p == CASE prev = "preIdle" -> preIdle' [] prev = "previous" -> qprevious'
                [] OTHER -> initial
     IN /\ preIdle' = IF idling THEN was ELSE preIdle
        /\ current' = "current"
        /\ Obey(latest, "current", prev, p)
  /\ UNCHANGED <<threadVars, trackVars, coldGen, expected, mFastMixerFutex>>

\* A cycle in which poll() returns the state it returned before.
PollSame ==
  /\ fpc = "poll"
  /\ ~fresh
  /\ Obey(Deref(current), current, previous, Deref(previous))
  /\ UNCHANGED <<queueVars, threadVars, trackVars, current, preIdle, coldGen, expected,
                 mFastMixerFutex>>

\* onWork() mixes and writes from beginning to end; see Touched.
Work ==
  /\ fpc = "work"
  /\ fpc' = "poll"
  /\ UNCHANGED <<queueVars, threadVars, trackVars, current, previous, preIdle, coldGen,
                 generations, fastTracksGen, provider, expected, mFastMixerFutex>>

\* After the futex, or without it: a cold idle is performed once.
Warmed == coldGen' = Deref(current).mColdGen /\ fpc' = "poll"

\* android_atomic_dec(coldFutexAddr)
ColdDec ==
  /\ fpc = "cold"
  /\ mFastMixerFutex' = mFastMixerFutex - 1
  /\ IF mFastMixerFutex <= 0
     THEN fpc' = "wait" /\ expected' = mFastMixerFutex - 1 /\ UNCHANGED coldGen
     ELSE Warmed /\ UNCHANGED expected
  /\ UNCHANGED <<queueVars, threadVars, trackVars, current, previous, preIdle, generations,
                 fastTracksGen, provider>>

\* FUTEX_WAIT: the kernel compares and sleeps in one step.
ColdWait ==
  /\ fpc = "wait"
  /\ IF mFastMixerFutex = expected THEN fpc' = "asleep" /\ UNCHANGED coldGen ELSE Warmed
  /\ UNCHANGED <<queueVars, threadVars, trackVars, current, previous, preIdle, generations,
                 fastTracksGen, provider, expected, mFastMixerFutex>>

Awake ==
  /\ fpc = "awake"
  /\ Warmed
  /\ UNCHANGED <<queueVars, threadVars, trackVars, current, previous, preIdle, generations,
                 fastTracksGen, provider, expected, mFastMixerFutex>>

FastThread == PollNew \/ PollSame \/ Work \/ ColdDec \/ ColdWait \/ Awake
-----------------------------------------------------------------------------
(* The mixer thread *)

\* end(); push(b), after which the thread goes on at r.
PushState(s, b, r) == state' = s /\ block' = b /\ then' = r /\ mpc' = "push"

\* push(): the wait for the prior push, and the publication ...
Published ==
  /\ mpc = "push"
  /\ latest' = state
  /\ Queue!Publish
  /\ mpc' = IF block THEN "ack" ELSE then
  /\ UNCHANGED <<state, then, block, previousCommand, mStandby, tracksToRemove, trackVars,
                 fastVars, mFastMixerFutex>>

\* ... and the wait for the acknowledgement.
Acknowledged ==
  /\ mpc = "ack"
  /\ ~fresh
  /\ mpc' = then
  /\ UNCHANGED <<queueVars, state, then, block, previousCommand, mStandby, tracksToRemove,
                 trackVars, fastVars, mFastMixerFutex>>

\* The futex value that says the fast mixer is, or is about to be, asleep.
IsAsleep_Mutant == mFastMixerFutex = 0
IsAsleep == mFastMixerFutex = -1

\* Restart or end a fast mixer that may be in cold idle: android_atomic_inc() and
\* the new state; FUTEX_WAKE is a step of its own.
Rouse(s, r) ==
  IF state.mCommand = "COLD_IDLE"
  THEN /\ mFastMixerFutex' = mFastMixerFutex + 1
       /\ state' = s /\ block' = FALSE /\ then' = r
       /\ mpc' = IF IsAsleep THEN "wake" ELSE "push"
  ELSE /\ PushState(s, FALSE, r)
       /\ UNCHANGED mFastMixerFutex

Wake ==
  /\ mpc = "wake"
  /\ fpc' = IF fpc = "asleep" THEN "awake" ELSE fpc
  /\ mpc' = "push"
  /\ UNCHANGED <<queueVars, state, then, block, previousCommand, mStandby, tracksToRemove,
                 trackVars, current, previous, preIdle, coldGen, generations, fastTracksGen,
                 provider, expected, mFastMixerFutex>>

\* "BLOCK_UNTIL_PUSHED would be insufficient, as we need it to stop doing I/O now"
IdleBlocks_Mutant == FALSE
IdleBlocks == TRUE

\* checkForNewParameter_l(), up to the HAL: a running fast mixer is idled first.
NewParameter ==
  /\ mpc = "config"
  /\ IF state.mCommand \notin IDLE
     THEN /\ previousCommand' = state.mCommand
          /\ PushState([state EXCEPT !.mCommand = "HOT_IDLE"], IdleBlocks, "params")
     ELSE /\ previousCommand' = "HOT_IDLE"
          /\ mpc' = "params"
          /\ UNCHANGED <<state, then, block>>
  /\ UNCHANGED <<queueVars, mStandby, tracksToRemove, trackVars, fastVars, mFastMixerFutex>>

\* The HAL takes the parameters, at once or only in standby (refused), and the
\* fast mixer is put back to what it was doing.
SetParameters(refused) ==
  /\ mpc = "params"
  /\ mStandby' = (mStandby \/ refused)
  /\ IF previousCommand \notin IDLE
     THEN PushState([state EXCEPT !.mCommand = previousCommand], FALSE, "config")
     ELSE mpc' = "config" /\ UNCHANGED <<state, then, block>>
  /\ UNCHANGED <<queueVars, previousCommand, tracksToRemove, trackVars, fastVars, mFastMixerFutex>>

ConfigDone ==
  /\ mpc = "config"
  /\ mpc' = "standby"
  /\ UNCHANGED <<queueVars, state, then, block, previousCommand, mStandby, tracksToRemove,
                 trackVars, fastVars, mFastMixerFutex>>

\* mColdGen++, an unsigned that wraps.
NextColdGen == (state.mColdGen + 1) % (MaxColdGen + 1)

\* MixerThread::threadLoop_standby(), after which the thread goes on at r.
threadLoop_standby(r) ==
  IF state.mCommand \notin IDLE
  THEN /\ scenario.Prompt => fpc # "cold"
       /\ mFastMixerFutex' = 0
       /\ PushState([state EXCEPT !.mCommand = "COLD_IDLE", !.mColdGen = NextColdGen], IdleBlocks, r)
  ELSE /\ mpc' = r
       /\ UNCHANGED <<state, then, block, mFastMixerFutex>>

\* No track has been active for the standby delay, or the output is suspended.
EnterStandby ==
  /\ mpc = "standby"
  /\ mActiveTracks = {} \/ isSuspended
  /\ IF mStandby THEN mpc' = "inStandby" /\ UNCHANGED <<state, then, block, mFastMixerFutex>>
     ELSE threadLoop_standby("inStandby")
  /\ UNCHANGED <<queueVars, previousCommand, mStandby, tracksToRemove, trackVars, fastVars>>

InStandby ==
  /\ mpc = "inStandby"
  /\ mStandby' = TRUE
  /\ mpc' = IF mActiveTracks = {} THEN "waiting" ELSE "prepare"
  /\ UNCHANGED <<queueVars, state, then, block, previousCommand, tracksToRemove, trackVars,
                 fastVars, mFastMixerFutex>>

NoStandby ==
  /\ mpc = "standby"
  /\ ~isSuspended
  /\ mpc' = "prepare"
  /\ UNCHANGED <<queueVars, state, then, block, previousCommand, mStandby, tracksToRemove,
                 trackVars, fastVars, mFastMixerFutex>>

\* "If any fast tracks were removed, we must wait for acknowledgement."
RemovalBlocks_Mutant(gone) == FALSE
RemovalBlocks(gone) == gone # {}

\* "Increment when any mFastTracks[i].mGeneration is incremented."
NextTracksGen_Mutant == state.mFastTracksGen
NextTracksGen == state.mFastTracksGen + 1

\* prepareTracks_l(), the fast tracks: those in active stay or become active, the
\* other active tracks leave.  (The code aborts if one leaves that was never added,
\* which depends on the states of the tracks, not modelled here.)
prepareTracks_l(active) ==
  LET slots == {mFastIndex[t] : t \in active}
      added == slots \ state.mTrackMask
      removed == {mFastIndex[t] : t \in mActiveTracks \ active}
      owner(i) == CHOOSE t \in active : mFastIndex[t] = i
      didModify == added \cup removed # {}
      fastTracks == [i \in Index |->
        IF i \in added \cup removed
        THEN [mBufferProvider |-> IF i \in added THEN owner(i) ELSE NULL,
              mGeneration |-> state.mFastTracks[i].mGeneration + 1]
        ELSE state.mFastTracks[i]]
  IN /\ mpc = "prepare"
     /\ removed \subseteq state.mTrackMask
     /\ tracksToRemove' = mActiveTracks \ active
     /\ IF didModify
        THEN PushState([state EXCEPT !.mFastTracks = fastTracks, !.mFastTracksGen = NextTracksGen,
                                     !.mTrackMask = (@ \cup added) \ removed],
                       RemovalBlocks(removed), "removed")
        ELSE mpc' = "removed" /\ UNCHANGED <<state, then, block>>
     /\ UNCHANGED <<queueVars, previousCommand, mStandby, trackVars, fastVars, mFastMixerFutex>>

\* removeTracks_l(), which ends with removeTrack_l() of the terminated ones.
removeTracks_l ==
  LET gone == tracksToRemove \cap terminated
  IN /\ mpc = "removed"
     /\ mActiveTracks' = mActiveTracks \ tracksToRemove
     /\ mTracks' = mTracks \ gone
     /\ mFastTrackAvailMask' = mFastTrackAvailMask \cup {mFastIndex[t] : t \in gone}
     /\ mpc' = "write"
     /\ UNCHANGED <<queueVars, state, then, block, previousCommand, mStandby, tracksToRemove,
                    mFastIndex, handles, terminated, isSuspended, fastVars, mFastMixerFutex>>

\* MixerThread::threadLoop_write(), without mLock.
threadLoop_write ==
  /\ mpc = "write"
  /\ ~isSuspended
  /\ mStandby' = FALSE
  /\ IF state.mCommand # "MIX_WRITE"
     THEN Rouse([state EXCEPT !.mCommand = "MIX_WRITE"], "clear")
     ELSE mpc' = "clear" /\ UNCHANGED <<state, then, block, mFastMixerFutex>>
  /\ UNCHANGED <<queueVars, previousCommand, tracksToRemove, trackVars, fastVars>>

\* A cycle with nothing to write sleeps, and a suspended output only pretends to
\* write.  With a fast track active there is always something to write.
NoWrite ==
  /\ mpc = "write"
  /\ isSuspended \/ mActiveTracks = {}
  /\ mpc' = "clear"
  /\ UNCHANGED <<queueVars, state, then, block, previousCommand, mStandby, tracksToRemove,
                 trackVars, fastVars, mFastMixerFutex>>

\* The end of a cycle, or of the wait for work: the next one, or exitPending().
NextCycle ==
  /\ mpc \in {"clear", "waiting"}
  /\ tracksToRemove' = {}
  /\ mpc' \in {"config", "exitStandby"}
  /\ UNCHANGED <<queueVars, state, then, block, previousCommand, mStandby, trackVars, fastVars,
                 mFastMixerFutex>>

ExitStandby ==
  /\ mpc = "exitStandby"
  /\ IF mStandby THEN mpc' = "destroy" /\ UNCHANGED <<state, then, block, mFastMixerFutex>>
     ELSE threadLoop_standby("destroy")
  /\ UNCHANGED <<queueVars, previousCommand, mStandby, tracksToRemove, trackVars, fastVars>>

\* ~MixerThread(), up to the push of EXIT ...
Destroy ==
  /\ mpc = "destroy"
  /\ Rouse([state EXCEPT !.mCommand = "EXIT"], "join")
  /\ UNCHANGED <<queueVars, previousCommand, mStandby, tracksToRemove, trackVars, fastVars>>

\* ... and from join() on.
Join ==
  /\ mpc = "join"
  /\ fpc = "exited"
  /\ mTracks' = {} /\ mActiveTracks' = {}
  /\ mpc' = "done"
  /\ UNCHANGED <<queueVars, state, then, block, previousCommand, mStandby, tracksToRemove,
                 mFastTrackAvailMask, mFastIndex, handles, terminated, isSuspended, fastVars, mFastMixerFutex>>

\* The steps that follow from others, without waiting for clients or time.
Pushing == Published \/ Acknowledged \/ Wake

MixerThread ==
  \/ Pushing \/ NewParameter \/ ConfigDone \/ EnterStandby \/ InStandby \/ NoStandby
  \/ removeTracks_l \/ threadLoop_write \/ NoWrite \/ NextCycle \/ ExitStandby
  \/ Destroy \/ Join
  \/ \E refused \in BOOLEAN : SetParameters(refused)
  \/ \E active \in SUBSET mActiveTracks : prepareTracks_l(active)
-----------------------------------------------------------------------------
(* The clients' binder threads *)

\* A binder thread gets mLock, and finds the thread alive.
AtRest(pc) == pc \in {"waiting", "write", "clear", "exitStandby"}
CanLock ==
  AtRest(mpc) \/ (mpc \in {"push", "ack", "wake"} /\ then \in {"clear", "destroy"})
Dying == mpc \in {"destroy", "join", "done"} \/ (mpc \in {"push", "wake"} /\ then = "join")

\* createTrack_l() of a fast track takes the first free slot.
CreateTrack(t) ==
  /\ CanLock /\ mFastIndex[t] = 0 /\ mFastTrackAvailMask # {}
  /\ LET i == CHOOSE i \in mFastTrackAvailMask : \A j \in mFastTrackAvailMask : i <= j
     IN /\ mFastIndex' = [mFastIndex EXCEPT ![t] = i]
        /\ mFastTrackAvailMask' = mFastTrackAvailMask \ {i}
  /\ mTracks' = mTracks \cup {t}
  /\ handles' = handles \cup {t}
  /\ UNCHANGED <<queueVars, threadVars, mActiveTracks, terminated, isSuspended, fastVars,
                 mFastMixerFutex>>

\* addTrack_l(); MaxGen leaves room for the track's activation and removal.
Start(t) ==
  /\ CanLock
  /\ t \in handles \ mActiveTracks
  /\ state.mFastTracks[mFastIndex[t]].mGeneration + 2 <= MaxGen
  /\ mActiveTracks' = mActiveTracks \cup {t}
  /\ UNCHANGED <<queueVars, threadVars, mTracks, mFastTrackAvailMask, mFastIndex, handles,
                 terminated, isSuspended, fastVars, mFastMixerFutex>>

\* destroyTrack_l(): "active tracks are removed by threadLoop()"
RemovedAtOnce_Mutant(t) == TRUE
RemovedAtOnce(t) == t \notin mActiveTracks

\* ~TrackHandle(): Track::destroy(), so destroyTrack_l() unless the thread is gone.
DestroyTrack(t) ==
  /\ CanLock \/ Dying
  /\ t \in handles
  /\ handles' = handles \ {t}
  /\ IF Dying THEN UNCHANGED <<terminated, mTracks, mFastTrackAvailMask>>
     ELSE /\ terminated' = terminated \cup {t}
          /\ IF RemovedAtOnce(t)
             THEN /\ mTracks' = mTracks \ {t}
                  /\ mFastTrackAvailMask' = mFastTrackAvailMask \cup {mFastIndex[t]}
             ELSE UNCHANGED <<mTracks, mFastTrackAvailMask>>
  /\ UNCHANGED <<queueVars, threadVars, mActiveTracks, mFastIndex, isSuspended, fastVars,
                 mFastMixerFutex>>

\* AudioFlinger::suspendOutput() and restoreOutput()
Suspend ==
  /\ scenario.MaySuspend
  /\ isSuspended' = ~isSuspended
  /\ UNCHANGED <<queueVars, threadVars, mTracks, mActiveTracks, mFastTrackAvailMask, mFastIndex,
                 handles, terminated, fastVars, mFastMixerFutex>>

Client == \E t \in Track : CreateTrack(t) \/ Start(t) \/ DestroyTrack(t)

\* The output has been closed and its fast mixer joined.
Closed == mpc = "done" /\ handles = {} /\ UNCHANGED vars
-----------------------------------------------------------------------------
Next == FastThread \/ MixerThread \/ Client \/ Suspend \/ Closed

Spec == Init /\ [][Next /\ UNCHANGED scenario]_<<vars, scenario>>

(***************************************************************************)
(* Neither thread stops while it can run: the fast mixer's loop, and the   *)
(* mixer thread in push(), between prepareTracks_l() and the end of the    *)
(* cycle, and in its destructor.  Nothing makes a client act, a standby    *)
(* delay elapse, or an output be resumed or closed.                        *)
(***************************************************************************)
WriteStep == removeTracks_l \/ threadLoop_write \/ NoWrite
Fairness ==
  /\ WF_vars(FastThread)
  /\ WF_vars(Pushing) /\ WF_vars(WriteStep) /\ WF_vars(Destroy) /\ WF_vars(Join)
FairSpec == Spec /\ Fairness
-----------------------------------------------------------------------------
(* Properties *)

\* The object exists: something holds an sp<> to it.
Exists(t) == t \in handles \cup mTracks \cup tracksToRemove

\* The tracks that a cycle reads: its AudioMixer pulls from provider, onWork()
\* asks the FastTrack for framesReady() and the volume.
Touched ==
  {provider[i] : i \in Deref(current).mTrackMask} \cup
  {Deref(current).mFastTracks[i].mBufferProvider : i \in Deref(current).mTrackMask}

(***************************************************************************)
(* The fast mixer never touches a track that has been destroyed: "we must  *)
(* wait for acknowledgement because we're about to decrement the last sp<> *)
(* on those tracks".                                                       *)
(***************************************************************************)
NoDanglingTrack == fpc = "work" => \A t \in Touched : Exists(t)

(***************************************************************************)
(* The mixer pulls from the tracks of the current state, slot by slot, and *)
(* from no other: comparing with the last non-idle state and with the      *)
(* generations misses no change made while the fast mixer was idle.        *)
(***************************************************************************)
MixesCurrentTracks ==
  fpc = "work" =>
    \A i \in Index : provider[i] = Deref(current).mFastTracks[i].mBufferProvider

(***************************************************************************)
(* FastThread keeps no pointer to a slot that the state queue may reuse:   *)
(* "the state queue only guarantees access to current and previous".       *)
(***************************************************************************)
NoReusedState == current # "reused" /\ previous # "reused"

(***************************************************************************)
(* Once a push of an idle command has been acknowledged the fast mixer     *)
(* does no I/O: "we need it to stop doing I/O now".                        *)
(***************************************************************************)
IdleIsQuiet == state.mCommand \in IDLE /\ mpc \notin {"push", "ack"} => fpc # "work"

(***************************************************************************)
(* A slot that may be given to a new track is not in use by the fast mixer *)
(* any more: "the slot isn't marked available until the end of each cycle".*)
(***************************************************************************)
FreeSlotIsUnused ==
  \A i \in mFastTrackAvailMask :
    /\ i \notin state.mTrackMask
    /\ fpc = "work" => i \notin Deref(current).mTrackMask
    /\ \A t \in mTracks : mFastIndex[t] # i

(***************************************************************************)
(* Threads.h: mStandby is "whether thread is currently in standby".  While *)
(* it waits for work in standby, its fast mixer should be idle.            *)
(***************************************************************************)
StandbyIsIdle == mpc = "waiting" => state.mCommand \in IDLE

(***************************************************************************)
(* ~MixerThread(): ALOG_ASSERT(state->mTrackMask == 1), only the submix is *)
(* left when the fast mixer has exited.                                    *)
(***************************************************************************)
OnlySubmixLeft == mpc = "done" => state.mTrackMask = {}

\* Without suspension, and if the fast mixer reaches its futex in time.
Ordinary == scenario.Prompt /\ ~scenario.MaySuspend

(***************************************************************************)
(* The mixer thread, which holds mLock, does not hang in push(): "observer *)
(* must always be able to poll for and view the latest pushed state; it    *)
(* must never be blocked from seeing that state" (StateQueue.h).           *)
(***************************************************************************)
PushAlwaysReturns == mpc \in {"push", "ack"} ~> mpc \notin {"push", "ack"}
PushReturns == Ordinary => PushAlwaysReturns

(***************************************************************************)
(* Every pushed state is seen, even one that a cold-idle fast mixer has to *)
(* be woken for: a newly active fast track is heard, and closing an output *)
(* ends its fast mixer, which join() waits for.                            *)
(***************************************************************************)
PushedStateIsSeen ==
  Ordinary => (fresh ~> ~fresh) /\ (mpc = "destroy" ~> mpc = "done")
=============================================================================
