----------------------- MODULE StaticAudioTrackProofs -----------------------
(***************************************************************************)
(* Proofs about StaticAudioTrack for every size of the buffer, of the mix, *)
(* of the shortest loop and every number of repetitions: the server counts *)
(* what remains to be played, its assertions hold, and it plays the frames *)
(* in their order.                                                         *)
(*                                                                         *)
(* A normal track must be polled by the mixer thread alone, and the mixer  *)
(* must give back a buffer before it polls: with a resampler that keeps    *)
(* one, or setSyncEvent() of a binder thread, a state is taken between     *)
(* obtainBuffer() and releaseBuffer() and the counts do not agree.  A fast *)
(* track is polled by getNextBuffer() only, and nothing disturbs it.       *)
(***************************************************************************)
EXTENDS StaticAudioTrack, WellFoundedInduction, TLAPS

Undisturbed == scenario.kind = "fast" \/ scenario.May = {}

\* Where the frames end that may be obtained.
End == IF mState.count # 0 THEN mState.end ELSE mFrameCount

\* AudioTrack's setLoop() lets no other states through.
States ==
  /\ latest.count = 0 \/ IsLoop(latest)
  /\ mState.count = 0 \/ IsLoop(mState)

Typed == TypeOK /\ States

\* A buffer that is held is what comes next, and nothing is taken from the queue meanwhile.
Held ==
  buffer.count > 0 =>
    /\ buffer.raw = mPosition /\ mPosition + buffer.count <= End
    /\ buffer.count <= mUnreleased
    /\ spc = "mix" \/ (scenario.kind = "fast" /\ spc = "idle")

\* A track that is in the middle of a mix is active.
Turning == spc # "idle" => active

IInv == Typed /\ Undisturbed /\ Turning /\ Held /\ AccountsAgree
-----------------------------------------------------------------------------
(* The frames to come *)

(***************************************************************************)
(* A product is monotone in both factors.                                  *)
(***************************************************************************)
LEMMA ProductFacts ==
  ASSUME NEW a \in Nat, NEW b \in Nat, NEW c \in Nat, NEW d \in Nat, a <= c, b <= d
  PROVE  a * b \in Nat /\ a * b <= c * d
<1>1. a * b <= c * b
  <2>1. PICK e \in Nat : c = a + e
    <3> WITNESS c - a \in Nat
    <3> QED
      OBVIOUS
  <2>2. c * b = a * b + e * b /\ e * b \in Nat
    BY <2>1
  <2> QED
    BY <2>2
<1>2. c * b <= c * d
  <2>1. PICK e \in Nat : d = b + e
    <3> WITNESS d - b \in Nat
    <3> QED
      OBVIOUS
  <2>2. c * d = c * b + c * e /\ c * e \in Nat
    BY <2>1
  <2> QED
    BY <2>2
<1> QED
  BY <1>1, <1>2

(***************************************************************************)
(* FramesFrom() is never less than the rest of the buffer, and more than   *)
(* any other number exactly for a loop without end.                        *)
(***************************************************************************)
State == [start : 0 .. mFrameCount + 1, end : Position, count : -1 .. MaxLoops]

LEMMA FramesFacts ==
  ASSUME NEW state \in State, NEW position \in Position, state.count = 0 \/ IsLoop(state)
  PROVE  /\ FramesFrom(state, position) \in 0 .. INT64_MAX
         /\ FramesFrom(state, position) >= mFrameCount - position
         /\ FramesFrom(state, position) = INT64_MAX <=> state.count = -1
         /\ state.count = 0 => FramesFrom(state, position) = mFrameCount - position
<1> DEFINE length == state.end - state.start
           most == MaxLoops * mFrameCount
<1>1. /\ mFrameCount \in Nat /\ mFrameCount > 0 /\ MaxLoops \in Nat
      /\ position \in Nat /\ position <= mFrameCount
      /\ state.count \in Int /\ -1 <= state.count /\ state.count <= MaxLoops
      /\ state.start \in Nat /\ state.end \in Nat /\ state.end <= mFrameCount
  BY SizeAssumption DEF State, Position
<1>2. most \in Nat /\ INT64_MAX = most + 2 * mFrameCount
  BY <1>1 DEF INT64_MAX
<1>3. CASE state.count = -1
  BY <1>1, <1>2, <1>3 DEF FramesFrom
<1>4. CASE state.count = 0
  <2>1. state.count * length = 0
    BY <1>1, <1>4
  <2> HIDE DEF length, most
  <2>2. FramesFrom(state, position) = mFrameCount - position
    BY <1>1, <1>4, <2>1 DEF FramesFrom, length
  <2> QED
    BY <1>1, <1>2, <1>4, <2>2
<1>5. CASE state.count > 0
  <2>1. length \in Nat /\ length <= mFrameCount /\ state.count \in Nat
    BY <1>1, <1>5, SizeAssumption DEF IsLoop
  <2>2. state.count * length \in Nat /\ state.count * length <= most
    BY <1>1, <2>1, ProductFacts
  <2> HIDE DEF most
  <2>3. FramesFrom(state, position) = state.count * length + mFrameCount - position
    BY <1>5, <1>1 DEF FramesFrom
  <2> HIDE DEF length
  <2> QED
    BY <1>1, <1>2, <1>5, <2>2, <2>3
<1> QED
  BY <1>1, <1>3, <1>4, <1>5

(***************************************************************************)
(* Playing a buffer that ends the loop takes its frames from the rest: the *)
(* position goes back by as much as one repetition counts.                 *)
(***************************************************************************)
LEMMA RepeatFacts ==
  ASSUME NEW state \in State, NEW position \in Position, IsLoop(state), state.count > 0
  PROVE  FramesFrom([state EXCEPT !.count = state.count - 1], state.start)
           = FramesFrom(state, position) - (state.end - position)
<1>1. /\ mFrameCount \in Nat /\ position \in Nat /\ state.count \in Nat
      /\ state.start \in Nat /\ state.end \in Nat
  BY SizeAssumption DEF State, Position
<1> DEFINE next == [state EXCEPT !.count = state.count - 1]
           length == state.end - state.start
<1>2. next.count = state.count - 1 /\ next.start = state.start /\ next.end = state.end
  BY DEF State
<1>3. length \in Int /\ state.count * length = (state.count - 1) * length + length
  BY <1>1
<1>4. (state.count - 1) * length \in Int
  BY <1>1
<1> DEFINE product == (state.count - 1) * length
<1>5. FramesFrom(next, state.start) = product + mFrameCount - state.start
  BY <1>1, <1>2 DEF FramesFrom
<1>6. FramesFrom(state, position) = product + length + mFrameCount - position
  BY <1>1, <1>3 DEF FramesFrom
<1>7. product \in Int /\ length = state.end - state.start
  BY <1>4
<1> HIDE DEF product, length
<1> QED
  BY <1>1, <1>5, <1>6, <1>7

(***************************************************************************)
(* Least() is the lesser of the two, and a buffer that is obtained ends at *)
(* the end of the loop or of the buffer at the latest.                     *)
(***************************************************************************)
LEMMA AvailableFacts ==
  ASSUME NEW position \in Position, NEW state \in State, NEW n \in Nat
  PROVE  /\ Available(position, state, n) \in 0 .. n
         /\ Available(position, state, n) > 0 =>
              position + Available(position, state, n)
                <= IF state.count # 0 THEN state.end ELSE mFrameCount
  BY SizeAssumption DEF Available, Least, Position, State

(***************************************************************************)
(* "it is always larger or equal to avail" (obtainBuffer()).               *)
(***************************************************************************)
LEMMA AvailableIsCounted ==
  ASSUME NEW position \in Position, NEW state \in State, NEW n \in Nat, state.count = 0 \/ IsLoop(state)
  PROVE  Available(position, state, n) <= FramesFrom(state, position)
<1>1. /\ Available(position, state, n) \in Nat
      /\ Available(position, state, n) > 0 => position + Available(position, state, n) <= mFrameCount
  BY AvailableFacts, SizeAssumption DEF IsLoop, State, Position
<1>2. FramesFrom(state, position) \in Nat /\ FramesFrom(state, position) >= mFrameCount - position
  BY FramesFacts DEF INT64_MAX
<1>3. position \in Nat /\ mFrameCount \in Nat /\ position <= mFrameCount
  BY SizeAssumption DEF Position
<1> QED
  BY <1>1, <1>2, <1>3
-----------------------------------------------------------------------------
(* Type correctness *)

(***************************************************************************)
(* pollPosition() takes a state only if it can count what it plays.        *)
(***************************************************************************)
LEMMA PollTypes ==
  ASSUME Typed, pollPosition
  PROVE  /\ mPosition' \in Position /\ mState' \in State /\ mFramesReady' \in 0 .. INT64_MAX
         /\ mIsShutdown' \in BOOLEAN /\ fresh' \in BOOLEAN
         /\ mState'.count = 0 \/ IsLoop(mState')
<1> USE DEF Typed, States
<1>1. latest \in State /\ mState \in State /\ mPosition \in Position /\ mFramesReady \in 0 .. INT64_MAX
      /\ mIsShutdown \in BOOLEAN
  BY DEF TypeOK, State
<1>2. CASE ~fresh /\ UNCHANGED proxyVars
  BY <1>1, <1>2 DEF pollPosition, proxyVars
<1>3. CASE /\ latest.count = 0 \/ IsLoop(latest)
           /\ mPosition' = Resumes(latest)
           /\ mState' = IF latest.count = 0 THEN [mState EXCEPT !.count = 0] ELSE latest
           /\ mFramesReady' = FramesFrom(latest, mPosition')
           /\ UNCHANGED mIsShutdown
  <2>1. mPosition' \in Position
    BY <1>1, <1>3, SizeAssumption DEF Resumes, Least, IsLoop, State, Position
  <2>2. mState' \in State /\ (mState'.count = 0 \/ IsLoop(mState'))
    BY <1>1, <1>3, SizeAssumption DEF State
  <2>3. FramesFrom(latest, mPosition') \in 0 .. INT64_MAX
    BY <1>1, <1>3, <2>1, FramesFacts
  <2> QED
    BY <1>1, <1>3, <2>1, <2>2, <2>3 DEF pollPosition
<1>4. CASE mIsShutdown' = TRUE /\ UNCHANGED <<mPosition, mState, mFramesReady>>
  BY <1>1, <1>4 DEF pollPosition
<1> QED
  BY <1>2, <1>3, <1>4 DEF pollPosition

LEMMA InitTypes == ASSUME Init PROVE Typed
<1>1. mFrameCount \in Nat /\ mFrameCount > 0 /\ MaxLoops \in Nat /\ FrameCount \in Nat
  BY SizeAssumption
<1>2. mFrameCount <= INT64_MAX /\ INT64_MAX \in Nat
  <2>1. 1 * mFrameCount <= (MaxLoops + 2) * mFrameCount /\ (MaxLoops + 2) * mFrameCount \in Nat
    BY <1>1, ProductFacts
  <2> QED
    BY <1>1, <2>1 DEF INT64_MAX
<1>3. mFramesReady \in 0 .. INT64_MAX
  BY <1>1, <1>2 DEF Init
<1>4. {latest, mState} \subseteq [start : 0 .. mFrameCount + 1, end : Position, count : -1 .. MaxLoops]
  BY <1>1 DEF Init, Position
<1>5. /\ mBufferPosition \in Position /\ mPosition \in Position /\ buffer \in [raw : Position, count : 0 .. FrameCount]
      /\ {mUnreleased, wanted} \subseteq 0 .. FrameCount /\ toStore \in Position \cup {NoPosition}
  BY <1>1 DEF Init, Position, NoBuffer
<1>6. TypeOK
  BY <1>1, <1>3, <1>4, <1>5 DEF Init, TypeOK
<1> QED
  BY <1>6 DEF Init, Typed, States

LEMMA ClientTypes == ASSUME Typed, Client, UNCHANGED scenario PROVE Typed'
<1> USE DEF Typed, TypeOK, States
<1>1. ASSUME NEW state \in LoopState, setLoop(state) PROVE Typed'
  <2>1. /\ state \in [start : 0 .. mFrameCount + 1, end : Position, count : -1 .. MaxLoops]
        /\ state.count = 0 \/ IsLoop(state)
    BY <1>1, SizeAssumption DEF setLoop, LoopState, Position
  <2>2. getBufferPosition \in 0 .. mFrameCount + 1
    BY SizeAssumption DEF getBufferPosition, Least, Position
  <2>3. cBufferPosition' \in 0 .. mFrameCount + 1
    BY <1>1, <2>1, <2>2 DEF setLoop
  <2> QED
    BY <1>1, <2>1, <2>3 DEF setLoop, proxyVars, mixVars
<1>2. CASE Start
  <2>1. CASE active
    BY <1>2, <2>1 DEF Start, proxyVars
  <2>2. CASE ~active
    <3>2. /\ mPosition' \in Position /\ mState' \in State /\ mFramesReady' \in 0 .. INT64_MAX
          /\ mIsShutdown' \in BOOLEAN /\ fresh' \in BOOLEAN
          /\ mState'.count = 0 \/ IsLoop(mState')
      <4>1. CASE UNCHANGED <<fresh, proxyVars>>
        BY <4>1 DEF proxyVars, State
      <4>2. CASE pollPosition
        BY <4>2, PollTypes
      <4> QED
        BY <1>2, <2>2, <4>1, <4>2 DEF Start
    <3>3. Available(mPosition', mState', 1) \in 0 .. 1
      BY <3>2, AvailableFacts
    <3>1. aborted' \in BOOLEAN
      BY <1>2, <2>2 DEF Start
    <3>4. mUnreleased' \in 0 .. FrameCount /\ mBufferPosition' \in Position
          /\ buffer' \in [raw : Position, count : 0 .. FrameCount]
      BY <1>2, <2>2, <3>2, <3>3, SizeAssumption DEF Start, NoBuffer, Position
    <3> QED
      BY <1>2, <3>1, <3>2, <3>4 DEF Start, State
  <2> QED
    BY <2>1, <2>2
<1>3. CASE Pause
  BY <1>3 DEF Pause, proxyVars, mixVars
<1>4. CASE Stop
  BY <1>4 DEF Stop, proxyVars, mixVars
<1> QED
  BY <1>1, <1>2, <1>3, <1>4 DEF Client

LEMMA PollStepTypes ==
  ASSUME Typed, UNCHANGED scenario, Prepare \/ ObtainBuffer \/ SetSyncEvent
  PROVE  Typed'
<1> USE DEF Typed, TypeOK, States
<1>1. /\ mPosition' \in Position /\ mState' \in State /\ mFramesReady' \in 0 .. INT64_MAX
      /\ mIsShutdown' \in BOOLEAN /\ fresh' \in BOOLEAN
      /\ toStore' \in Position \cup {NoPosition}
      /\ mState'.count = 0 \/ IsLoop(mState')
  <2>1. CASE Poll
    BY <2>1, PollTypes DEF Poll
  <2>2. CASE UNCHANGED <<fresh, proxyVars, toStore>>
    BY <2>2 DEF proxyVars, State
  <2> QED
    BY <2>1, <2>2 DEF Prepare, ObtainBuffer, SetSyncEvent
<1>2. UNCHANGED <<cState, cBufferPosition, latest, mBufferPosition, mUnreleased, sState, active, dry,
                  wanted, buffer, aborted>>
  BY DEF Prepare, ObtainBuffer, SetSyncEvent, clientVars, mixVars
<1>3. spc' \in {"idle", "prepared", "mix", "obtain"}
  BY DEF Prepare, ObtainBuffer, SetSyncEvent, mixVars
<1> QED
  BY <1>1, <1>2, <1>3 DEF State

LEMMA ReleaseTypes == ASSUME Typed, ReleaseBuffer, UNCHANGED scenario PROVE Typed'
<1> USE DEF Typed, TypeOK, States
<1>1. /\ buffer.count \in Nat /\ mPosition \in Nat /\ wanted \in Nat /\ mUnreleased \in Nat
      /\ mFramesReady \in Nat /\ mFrameCount \in Nat /\ mState \in State
  BY SizeAssumption DEF Position, State
<1>2. wanted' \in 0 .. FrameCount
  BY <1>1, SizeAssumption DEF ReleaseBuffer, Least
<1>3. /\ spc' \in {"idle", "prepared", "mix", "obtain"} /\ aborted' \in BOOLEAN
      /\ buffer' \in [raw : Position, count : 0 .. FrameCount]
  BY SizeAssumption DEF ReleaseBuffer, NoBuffer, Position
<1>4. CASE aborted'
  BY <1>2, <1>3, <1>4 DEF ReleaseBuffer, proxyVars, clientVars
<1>5. CASE ~aborted'
  <2>1. buffer.count <= mFramesReady /\ buffer.count <= mUnreleased
    BY <1>5 DEF ReleaseBuffer
  <2>2. mUnreleased' \in 0 .. FrameCount
    BY <1>1, <1>5, <2>1, SizeAssumption DEF ReleaseBuffer
  <2>3. INT64_MAX \in Nat
    BY SizeAssumption DEF INT64_MAX
  <2>4. mFramesReady' \in 0 .. INT64_MAX
    BY <1>1, <1>5, <2>1, <2>3 DEF ReleaseBuffer
  <2>5. Least(mPosition + buffer.count, mFrameCount) \in Position
    BY <1>1 DEF Least, Position
  <2>6. mPosition' \in Position /\ mState' \in State /\ (mState'.count = 0 \/ IsLoop(mState'))
    <3>1. CASE EndsLoop(Least(mPosition + buffer.count, mFrameCount))
               /\ mPosition + buffer.count <= mFrameCount
      <4>1. mPosition' = mState.start /\ mState' = [mState EXCEPT !.count = LoopsLeft]
        BY <1>5, <3>1 DEF ReleaseBuffer
      <4>2. LoopsLeft \in -1 .. MaxLoops
        BY <1>1, <3>1, SizeAssumption DEF LoopsLeft, EndsLoop, State
      <4>3. IsLoop(mState)
        BY <3>1 DEF EndsLoop
      <4>4. mState' \in State /\ mState'.start = mState.start /\ mState'.end = mState.end
        BY <1>1, <4>1, <4>2 DEF State
      <4> QED
        BY <1>1, <4>1, <4>3, <4>4 DEF State, IsLoop, Position
    <3>2. CASE ~(EndsLoop(Least(mPosition + buffer.count, mFrameCount))
                 /\ mPosition + buffer.count <= mFrameCount)
      BY <1>1, <1>5, <2>5, <3>2 DEF ReleaseBuffer
    <3> QED
      BY <3>1, <3>2
  <2> QED
    BY <1>2, <1>3, <1>5, <2>2, <2>4, <2>6 DEF ReleaseBuffer, clientVars, State
<1> QED
  BY <1>3, <1>4, <1>5

LEMMA NextTypes == ASSUME Typed, Next, UNCHANGED scenario PROVE Typed'
<1> USE DEF Typed, TypeOK, States, clientVars, proxyVars, mixVars
<1>1. CASE Store
  BY <1>1 DEF Store
<1>2. CASE Mix
  BY <1>2, SizeAssumption DEF Mix
<1>3. CASE Rest
  BY <1>3 DEF Rest
<1>4. CASE FastMix
  BY <1>4, SizeAssumption DEF FastMix
<1>5. CASE Obtained
  <2>1. (IF mIsShutdown THEN 0 ELSE Available(mPosition, mState, wanted)) \in 0 .. FrameCount
    <3>1. wanted \in Nat /\ wanted <= FrameCount /\ mState \in State
      BY SizeAssumption DEF State
    <3>2. Available(mPosition, mState, wanted) \in 0 .. wanted
      BY <3>1, AvailableFacts
    <3> QED
      BY <3>1, <3>2, SizeAssumption
  <2> QED
    BY <1>5, <2>1, SizeAssumption DEF Obtained, NoBuffer, Position
<1>6. CASE Keep
  BY <1>6 DEF Keep
<1>7. CASE FastState
  BY <1>7 DEF FastState
<1> QED
  BY <1>1, <1>2, <1>3, <1>4, <1>5, <1>6, <1>7, ClientTypes, PollStepTypes, ReleaseTypes DEF Next, MixStep
-----------------------------------------------------------------------------
(* The counts agree *)

(***************************************************************************)
(* After pollPosition(), as long as no buffer is held, the count is that   *)
(* of the state and the position that the proxy now has.                   *)
(***************************************************************************)
LEMMA PollAgrees ==
  ASSUME Typed, AccountsAgree, pollPosition
  PROVE  /\ ~mIsShutdown'
         /\ mFramesReady' = FramesFrom(mState', mPosition')
         /\ mState'.count # 0 => mPosition' < mState'.end
<1> USE DEF Typed, States, AccountsAgree
<1>1. latest \in State /\ mState \in State /\ mPosition \in Position
  BY DEF TypeOK, State
<1>2. CASE ~fresh /\ UNCHANGED proxyVars
  BY <1>2 DEF proxyVars
<1>3. CASE /\ latest.count = 0 \/ IsLoop(latest)
           /\ mPosition' = Resumes(latest)
           /\ mState' = IF latest.count = 0 THEN [mState EXCEPT !.count = 0] ELSE latest
           /\ mFramesReady' = FramesFrom(latest, mPosition')
           /\ UNCHANGED mIsShutdown
  <2>1. mPosition' \in Position /\ mState' \in State /\ (mState'.count = 0 \/ IsLoop(mState'))
    BY PollTypes
  <2>2. mState'.count = 0 <=> latest.count = 0
    BY <1>1, <1>3 DEF State
  <2>3. CASE latest.count = 0
    <3>1. FramesFrom(mState', mPosition') = mFrameCount - mPosition'
      BY <2>1, <2>2, <2>3, FramesFacts
    <3>2. FramesFrom(latest, mPosition') = mFrameCount - mPosition'
      BY <1>1, <2>1, <2>3, FramesFacts
    <3> QED
      BY <1>3, <2>2, <2>3, <3>1, <3>2
  <2>4. CASE latest.count # 0
    <3>1. mPosition' < latest.end
      BY <1>1, <1>3, <2>4, SizeAssumption DEF Resumes, IsLoop, State, Position
    <3> QED
      BY <1>3, <2>4, <3>1
  <2> QED
    BY <2>3, <2>4
<1> QED
  BY <1>2, <1>3 DEF pollPosition

LEMMA InitInv == ASSUME Init, Undisturbed PROVE IInv
<1>1. Typed
  BY InitTypes
<1>2. mState \in State /\ mState.count = 0 /\ mPosition \in Position
  BY <1>1 DEF Typed, TypeOK, State, Init
<1>3. FramesFrom(mState, mPosition) = mFrameCount - mPosition
  BY <1>2, FramesFacts
<1>4. AccountsAgree
  BY <1>2, <1>3, SizeAssumption DEF Init, AccountsAgree
<1> QED
  BY <1>1, <1>4 DEF Init, IInv, Turning, Held, NoBuffer

LEMMA ClientInv == ASSUME IInv, Client, UNCHANGED scenario PROVE IInv'
<1> USE DEF IInv
<1>1. Typed' /\ Undisturbed'
  BY ClientTypes DEF Undisturbed
<1>2. Turning'
  BY DEF Client, setLoop, Start, Pause, Stop, mixVars, Turning, Typed, TypeOK
<1>3. CASE \E state \in LoopState : setLoop(state)
  BY <1>1, <1>2, <1>3 DEF setLoop, Held, End, AccountsAgree, proxyVars, mixVars
<1>4. CASE Start
  <2>1. CASE active
    BY <1>1, <1>2, <1>4, <2>1 DEF Start, Held, End, AccountsAgree, proxyVars
  <2>2. CASE ~active
    <3>1. pollPosition /\ buffer' = NoBuffer
      BY <1>4, <2>2 DEF Start, AccountsAgree
    <3>2. /\ mPosition' \in Position /\ mState' \in State /\ mFramesReady' \in Int
          /\ mState'.count = 0 \/ IsLoop(mState')
      BY <3>1, PollTypes DEF INT64_MAX
    <3>3. /\ ~mIsShutdown' /\ mFramesReady' = FramesFrom(mState', mPosition')
          /\ mState'.count # 0 => mPosition' < mState'.end
      BY <3>1, PollAgrees
    <3>4. aborted' = (mFramesReady' < Available(mPosition', mState', 1))
      BY <1>4, <2>2, <3>3 DEF Start
    <3>5. Available(mPosition', mState', 1) \in Int /\ Available(mPosition', mState', 1) <= mFramesReady'
      BY <3>2, <3>3, AvailableFacts, AvailableIsCounted
    <3>6. AccountsAgree'
      <4>1. ~(mFramesReady' < Available(mPosition', mState', 1))
        BY <3>2, <3>5
      <4>2. ~aborted'
        BY <3>4, <4>1
      <4> QED
        BY <3>3, <4>2 DEF AccountsAgree
    <3>7. Held'
      BY <3>1 DEF Held, NoBuffer
    <3> QED
      BY <1>1, <1>2, <3>6, <3>7
  <2> QED
    BY <2>1, <2>2
<1>5. CASE Pause \/ Stop
  BY <1>1, <1>2, <1>5 DEF Pause, Stop, Held, End, AccountsAgree, proxyVars, mixVars
<1> QED
  BY <1>3, <1>4, <1>5 DEF Client

LEMMA PollStepInv ==
  ASSUME IInv, UNCHANGED scenario, Prepare \/ ObtainBuffer \/ SetSyncEvent
  PROVE  IInv'
<1> USE DEF IInv
<1>1. Typed' /\ Undisturbed'
  BY PollStepTypes DEF Undisturbed
<1>2. /\ UNCHANGED <<aborted, mUnreleased, buffer>>
      /\ Poll \/ UNCHANGED proxyVars
      /\ buffer.count > 0 => UNCHANGED proxyVars /\ UNCHANGED spc
  <2>1. CASE Prepare
    <3>1. ~(buffer.count > 0)
      BY <2>1 DEF Prepare, Mixing, Held
    <3> QED
      BY <2>1, <3>1 DEF Prepare, mixVars
  <2>2. CASE ObtainBuffer
    <3>1. ~(buffer.count > 0)
      BY <2>2 DEF ObtainBuffer
    <3> QED
      BY <2>2, <3>1 DEF ObtainBuffer
  <2>3. CASE SetSyncEvent
    <3>1. ~PollsWhenAsked
      BY <2>3 DEF SetSyncEvent, Undisturbed, PollsWhenAsked
    <3> QED
      BY <2>3, <3>1 DEF SetSyncEvent, mixVars
  <2> QED
    BY <2>1, <2>2, <2>3
<1>3. AccountsAgree'
  <2>1. CASE Poll
    BY <1>2, <2>1, PollAgrees DEF Poll, AccountsAgree
  <2>2. CASE UNCHANGED proxyVars
    BY <1>2, <2>2 DEF AccountsAgree, proxyVars
  <2> QED
    BY <1>2, <2>1, <2>2
<1>4. Held'
  BY <1>2 DEF Held, End, proxyVars
<1>5. Turning'
  BY DEF Prepare, ObtainBuffer, SetSyncEvent, Mixing, mixVars, Turning
<1> QED
  BY <1>1, <1>3, <1>4, <1>5

LEMMA ObtainedInv == ASSUME IInv, Obtained, UNCHANGED scenario PROVE IInv'
<1> USE DEF IInv
<1>1. Typed' /\ Undisturbed'
  BY NextTypes DEF Undisturbed, Next, MixStep
<1> DEFINE avail == Available(mPosition, mState, wanted)
<1>2. mState \in State /\ mPosition \in Position /\ wanted \in Nat /\ mFramesReady \in Nat /\ mFrameCount \in Nat
  BY SizeAssumption DEF Typed, TypeOK, State
<1>3. avail \in Nat /\ (avail > 0 => mPosition + avail <= End)
  BY <1>2, AvailableFacts DEF End
<1>6. avail <= mFramesReady
  BY <1>2, AvailableIsCounted DEF AccountsAgree, Typed, States
<1>7. ~mIsShutdown /\ aborted' = (mFramesReady < avail) /\ mUnreleased' = avail
      /\ buffer' = (IF avail = 0 THEN NoBuffer ELSE [raw |-> mPosition, count |-> avail])
      /\ spc' = (IF avail = 0 THEN "idle" ELSE "mix")
      /\ UNCHANGED proxyVars
  BY DEF Obtained, AccountsAgree
<1>8. End' = End
  BY <1>7 DEF End, proxyVars
<1> HIDE DEF avail
<1>9. AccountsAgree'
  <2>1. ~(mFramesReady < avail)
    BY <1>2, <1>3, <1>6
  <2>2. ~aborted'
    BY <1>7, <2>1
  <2> QED
    BY <1>7, <2>2 DEF AccountsAgree, proxyVars
<1>10. Held'
  BY <1>2, <1>3, <1>7, <1>8 DEF Held, proxyVars, NoBuffer
<1>11. Turning'
  BY DEF Obtained, Mixing, Turning
<1> QED
  BY <1>1, <1>9, <1>10, <1>11

(***************************************************************************)
(* What releaseBuffer() does with a buffer that is held.                   *)
(***************************************************************************)
LEMMA ReleaseFacts ==
  ASSUME IInv, ReleaseBuffer
  PROVE  /\ buffer.count > 0 /\ mPosition + buffer.count <= End /\ End <= mFrameCount
         /\ ~aborted' /\ ~mIsShutdown' /\ buffer' = NoBuffer
         /\ IF mState.count # 0 /\ mPosition + buffer.count = mState.end
            THEN mPosition' = mState.start /\ mState' = [mState EXCEPT !.count = LoopsLeft]
            ELSE mPosition' = mPosition + buffer.count /\ mState' = mState
         /\ mFramesReady' = IF mState.count = -1 THEN INT64_MAX ELSE mFramesReady - buffer.count
<1> USE DEF IInv
<1>1. /\ mState \in State /\ mPosition \in Position /\ mPosition \in Nat /\ buffer.count \in Nat
      /\ mFramesReady \in Nat /\ mUnreleased \in Nat /\ mFrameCount \in Nat /\ mState.end \in Nat
  BY SizeAssumption DEF Typed, TypeOK, State, Position
<1>2. buffer.count > 0 /\ buffer' = NoBuffer
  BY DEF ReleaseBuffer
<1>3. mPosition + buffer.count <= End /\ buffer.count <= mUnreleased
  BY <1>2 DEF Held
<1>4. End <= mFrameCount
  BY <1>1 DEF End, Typed, States, IsLoop
<1>5. mFramesReady >= mFrameCount - mPosition /\ (mFramesReady = INT64_MAX <=> mState.count = -1)
  BY <1>1, FramesFacts DEF AccountsAgree, Typed, States
<1>6. End \in Nat
  BY <1>1 DEF End
<1>7. buffer.count <= mFramesReady
  BY <1>1, <1>3, <1>4, <1>5, <1>6
<1>8. Least(mPosition + buffer.count, mFrameCount) = mPosition + buffer.count
      /\ mPosition + buffer.count <= mFrameCount
  BY <1>1, <1>3, <1>4, <1>6 DEF Least
<1>9. ~aborted'
  BY <1>3, <1>7 DEF ReleaseBuffer
<1>10. mFramesReady' = IF mState.count = -1 THEN INT64_MAX ELSE mFramesReady - buffer.count
  BY <1>5, <1>9 DEF ReleaseBuffer
<1>11. ~mIsShutdown'
  BY <1>9 DEF ReleaseBuffer, AccountsAgree
<1>12. IF mState.count # 0 /\ mPosition + buffer.count = mState.end
       THEN mPosition' = mState.start /\ mState' = [mState EXCEPT !.count = LoopsLeft]
       ELSE mPosition' = mPosition + buffer.count /\ mState' = mState
  BY <1>8, <1>9 DEF ReleaseBuffer, EndsLoop
<1> QED
  BY <1>2, <1>3, <1>4, <1>9, <1>10, <1>11, <1>12

LEMMA ReleaseInv == ASSUME IInv, ReleaseBuffer, UNCHANGED scenario PROVE IInv'
<1> USE DEF IInv
<1>1. Typed' /\ Undisturbed'
  BY ReleaseTypes DEF Undisturbed
<1>2. Held'
  BY ReleaseFacts DEF Held, NoBuffer
<1>3. /\ mState \in State /\ mPosition \in Position /\ mPosition \in Nat /\ buffer.count \in Nat
      /\ mFrameCount \in Nat /\ mState.start \in Nat /\ mState.end \in Nat /\ mState.count \in Int
      /\ mState.count >= -1
  BY SizeAssumption DEF Typed, TypeOK, State, Position
<1>4. mFramesReady = FramesFrom(mState, mPosition) /\ (mState.count # 0 => mPosition < mState.end)
  BY DEF AccountsAgree
<1>5. mState'.count # 0 => mPosition' < mState'.end
  <2>1. CASE mState.count # 0 /\ mPosition + buffer.count = mState.end
    BY <1>3, <2>1, ReleaseFacts DEF Typed, States, IsLoop, State
  <2>2. CASE ~(mState.count # 0 /\ mPosition + buffer.count = mState.end)
    BY <1>3, <2>2, ReleaseFacts DEF End
  <2> QED
    BY <2>1, <2>2
<1>6. mFramesReady' = FramesFrom(mState', mPosition')
  <2>1. CASE mState.count # 0 /\ mPosition + buffer.count = mState.end
    <3>1. IsLoop(mState) /\ mPosition' = mState.start /\ mState' = [mState EXCEPT !.count = LoopsLeft]
      BY <2>1, ReleaseFacts DEF Typed, States
    <3>2. CASE mState.count = -1
      <4>1. mState'.count = -1
        BY <1>3, <3>1, <3>2 DEF LoopsLeft, State
      <4> QED
        BY <3>2, <4>1, ReleaseFacts DEF FramesFrom
    <3>3. CASE mState.count # -1
      <4>1. mState' = [mState EXCEPT !.count = mState.count - 1] /\ mState.count > 0
        BY <1>3, <2>1, <3>1, <3>3 DEF LoopsLeft
      <4>2. FramesFrom(mState', mPosition') = FramesFrom(mState, mPosition) - (mState.end - mPosition)
        BY <1>3, <3>1, <4>1, RepeatFacts
      <4>3. mState.end - mPosition = buffer.count
        BY <1>3, <2>1
      <4> QED
        BY <1>4, <3>3, <4>2, <4>3, ReleaseFacts
    <3> QED
      BY <3>2, <3>3
  <2>2. CASE ~(mState.count # 0 /\ mPosition + buffer.count = mState.end)
    <3>1. mPosition' = mPosition + buffer.count /\ mState' = mState
      BY <2>2, ReleaseFacts
    <3>2. CASE mState.count = -1
      BY <3>1, <3>2, ReleaseFacts DEF FramesFrom
    <3>3. CASE mState.count # -1
      <4> DEFINE repeated == mState.count * (mState.end - mState.start)
      <4>1. repeated \in Int
        BY <1>3
      <4>2. FramesFrom(mState, mPosition) = repeated + mFrameCount - mPosition
            /\ FramesFrom(mState', mPosition') = repeated + mFrameCount - (mPosition + buffer.count)
        BY <3>1, <3>3 DEF FramesFrom
      <4>3. mFramesReady' = mFramesReady - buffer.count
        BY <3>3, ReleaseFacts
      <4> HIDE DEF repeated
      <4> QED
        BY <1>3, <1>4, <4>1, <4>2, <4>3
    <3> QED
      BY <3>2, <3>3
  <2> QED
    BY <2>1, <2>2
<1>7. AccountsAgree'
  BY <1>5, <1>6, ReleaseFacts DEF AccountsAgree
<1>8. Turning'
  BY DEF ReleaseBuffer, Mixing, Turning
<1> QED
  BY <1>1, <1>2, <1>7, <1>8

LEMMA NextInv ==
  ASSUME IInv, [Next /\ UNCHANGED scenario]_<<vars, scenario>>
  PROVE  IInv'
<1> USE DEF IInv, clientVars, proxyVars, mixVars
<1>1. CASE UNCHANGED <<vars, scenario>>
  BY <1>1 DEF Typed, TypeOK, States, Undisturbed, Turning, Held, End, AccountsAgree, vars
<1>2. CASE Next /\ UNCHANGED scenario
  <2>1. Typed' /\ Undisturbed'
    BY <1>2, NextTypes DEF Undisturbed
  <2>2. CASE Store \/ Mix \/ Rest \/ FastMix \/ FastState
    <3>1. UNCHANGED <<proxyVars, mUnreleased, buffer, aborted>>
      BY <2>2 DEF Store, Mix, Rest, FastMix, FastState
    <3>2. AccountsAgree'
      BY <3>1 DEF AccountsAgree
    <3>3. buffer.count > 0 => spc' = "mix" \/ (scenario.kind = "fast" /\ spc' = "idle")
      BY <2>2 DEF Store, Mix, Rest, FastMix, FastState, Mixing, Held
    <3>4. Held'
      BY <1>2, <3>1, <3>3 DEF Held, End
    <3>5. Turning'
      BY <2>2 DEF Store, Mix, Rest, FastMix, FastState, Mixing, Turning
    <3> QED
      BY <2>1, <3>2, <3>4, <3>5
  <2>3. CASE Keep
    <3>1. scenario.kind = "fast"
      BY <2>3 DEF Keep, Undisturbed
    <3>2. UNCHANGED <<proxyVars, mUnreleased, buffer, aborted>> /\ spc' = "idle"
      BY <2>3 DEF Keep
    <3>3. Held'
      BY <1>2, <3>1, <3>2 DEF Held, End
    <3> QED
      BY <2>1, <3>2, <3>3 DEF AccountsAgree, Turning
  <2> QED
    BY <1>2, <2>2, <2>3, ClientInv, PollStepInv, ObtainedInv, ReleaseInv DEF Next, MixStep
<1> QED
  BY <1>1, <1>2
-----------------------------------------------------------------------------
(* The order of the frames *)

(***************************************************************************)
(* A set of numbers that has 0 and the successor of each of its members.   *)
(***************************************************************************)
LEMMA AllNumbers ==
  ASSUME NEW S, 0 \in S, \A n \in Nat : n \in S => n + 1 \in S
  PROVE  Nat \subseteq S
<1> DEFINE R == {p \in Nat \X Nat : p[1] < p[2]}
<1>1. IsWellFoundedOn(R, Nat)
  BY NatLessThanWellFounded DEF OpToRel
<1>2. SUFFICES ASSUME Nat \ S # {} PROVE FALSE
  OBVIOUS
<1>3. PICK n \in Nat \ S : \A m \in Nat \ S : ~(<<m, n>> \in R)
  BY <1>1, <1>2, WFMin
<1>4. n # 0 /\ n - 1 \in Nat /\ <<n - 1, n>> \in R
  BY <1>3
<1>5. n - 1 \in S
  BY <1>3, <1>4
<1> QED
  BY <1>3, <1>4, <1>5

(***************************************************************************)
(* Walk is a function that satisfies its definition: the first frames of a *)
(* walk of any length can be gone on with by one.                          *)
(***************************************************************************)
First == [position |-> mPosition, count |-> mState.count]

LEMMA WalkDef ==
  Walk = [n \in 0 .. FrameCount |-> IF n = 0 THEN First ELSE Follows(Walk[n - 1])]
<1> DEFINE IsWalk(f, m) == f = [n \in 0 .. m |-> IF n = 0 THEN First ELSE Follows(f[n - 1])]
           S == {m \in Nat : \E f : IsWalk(f, m)}
<1>1. 0 \in S
  <2>1. IsWalk([n \in 0 .. 0 |-> First], 0)
    OBVIOUS
  <2> QED
    BY <2>1
<1>2. ASSUME NEW m \in Nat, m \in S PROVE m + 1 \in S
  <2>1. PICK f : IsWalk(f, m)
    BY <1>2
  <2> DEFINE g == [n \in 0 .. m + 1 |-> IF n = m + 1 THEN Follows(f[m]) ELSE f[n]]
  <2>2. ASSUME NEW n \in 0 .. m + 1 PROVE g[n] = IF n = 0 THEN First ELSE Follows(g[n - 1])
    BY <2>1
  <2>3. IsWalk(g, m + 1)
    BY <2>2
  <2>4. \E h : IsWalk(h, m + 1)
    <3> HIDE DEF IsWalk, g
    <3> QED
      BY <2>3
  <2> QED
    BY <2>4
<1>3. FrameCount \in S
  <2>1. Nat \subseteq S
    <3> HIDE DEF S
    <3> QED
      BY <1>1, <1>2, AllNumbers
  <2> QED
    BY <2>1, SizeAssumption
<1>4. \E f : IsWalk(f, FrameCount)
  BY <1>3
<1>5. Walk = CHOOSE f : IsWalk(f, FrameCount)
  BY DEF Walk, First
<1> HIDE DEF IsWalk
<1>6. IsWalk(Walk, FrameCount)
  BY <1>4, <1>5
<1> QED
  BY <1>6 DEF IsWalk

(***************************************************************************)
(* The walk of a buffer that is held does not turn before its last frame.  *)
(***************************************************************************)
LEMMA WalkFacts ==
  ASSUME IInv, buffer.count > 0
  PROVE  /\ \A n \in 0 .. buffer.count - 1 : Walk[n] = [position |-> mPosition + n, count |-> mState.count]
         /\ Walk[buffer.count] = Follows([position |-> mPosition + buffer.count - 1, count |-> mState.count])
<1> DEFINE At(n) == [position |-> mPosition + n, count |-> mState.count]
           S == {n \in Nat : n < buffer.count => Walk[n] = At(n)}
<1>1. /\ mPosition \in Nat /\ buffer.count \in Nat /\ buffer.count <= FrameCount /\ FrameCount \in Nat
      /\ mState.end \in Nat
  BY SizeAssumption DEF IInv, Typed, TypeOK, Position
<1>2. mPosition + buffer.count <= End
  BY DEF IInv, Held
<1>3. Walk[0] = First
  BY <1>1, WalkDef
<1>4. ASSUME NEW n \in Nat, n < buffer.count PROVE Walk[n + 1] = Follows(Walk[n])
  <2>1. n + 1 \in 0 .. FrameCount /\ n + 1 # 0 /\ (n + 1) - 1 = n
    BY <1>1, <1>4
  <2> QED
    BY <2>1, WalkDef
<1>5. 0 \in S
  BY <1>1, <1>3 DEF First
<1>6. ASSUME NEW n \in Nat, n \in S PROVE n + 1 \in S
  <2>1. SUFFICES ASSUME n + 1 < buffer.count PROVE Walk[n + 1] = At(n + 1)
    OBVIOUS
  <2>2. Walk[n + 1] = Follows(At(n))
    BY <1>1, <1>4, <1>6, <2>1
  <2>3. mState.count # 0 => (mPosition + n) + 1 # mState.end
    BY <1>1, <1>2, <2>1 DEF End
  <2>4. Follows(At(n)) = [position |-> (mPosition + n) + 1, count |-> mState.count]
    BY <2>3 DEF Follows
  <2> QED
    BY <1>1, <2>2, <2>4
<1>7. Nat \subseteq S
  <2> HIDE DEF S
  <2> QED
    BY <1>5, <1>6, AllNumbers
<1>8. ASSUME NEW n \in 0 .. buffer.count - 1 PROVE Walk[n] = At(n)
  BY <1>1, <1>7
<1>9. Walk[buffer.count] = Follows(At(buffer.count - 1))
  <2>1. buffer.count - 1 \in Nat /\ buffer.count - 1 < buffer.count /\ (buffer.count - 1) + 1 = buffer.count
    BY <1>1
  <2>2. Walk[(buffer.count - 1) + 1] = Follows(Walk[buffer.count - 1])
    BY <1>4, <2>1
  <2>3. Walk[buffer.count - 1] = At(buffer.count - 1)
    BY <1>1, <1>8
  <2> QED
    BY <2>1, <2>2, <2>3
<1>10. mPosition + (buffer.count - 1) = mPosition + buffer.count - 1
  BY <1>1
<1> QED
  BY <1>8, <1>9, <1>10

(***************************************************************************)
(* Only releaseBuffer() lets go of a buffer in the middle of a mix, and    *)
(* the position and the loop are then where the walk ends.                 *)
(***************************************************************************)
LEMMA InOrder ==
  ASSUME IInv, [Next /\ UNCHANGED scenario]_<<vars, scenario>>,
         spc = "mix", buffer.count > 0, buffer'.count = 0
  PROVE  /\ Walk[buffer.count] = [position |-> mPosition', count |-> mState'.count]
         /\ \A n \in 0 .. buffer.count - 1 : Walk[n].position = buffer.raw + n
<1>1. ReleaseBuffer
  <2>1. UNCHANGED buffer \/ ReleaseBuffer
    BY DEF IInv, Turning, Typed, TypeOK, Next, Client, MixStep, setLoop, Start, Pause, Stop, Store, Prepare,
           Mix, Rest, FastMix, FastState, ObtainBuffer, Obtained, Keep, SetSyncEvent, Mixing, mixVars, vars
  <2> QED
    BY <2>1
<1>2. \A n \in 0 .. buffer.count - 1 : Walk[n].position = buffer.raw + n
  <2>1. buffer.raw = mPosition
    BY DEF IInv, Held
  <2>2. ASSUME NEW n \in 0 .. buffer.count - 1 PROVE Walk[n].position = mPosition + n
    <3>1. Walk[n] = [position |-> mPosition + n, count |-> mState.count]
      BY WalkFacts
    <3> QED
      BY <3>1
  <2> QED
    BY <2>1, <2>2
<1>3. /\ mPosition \in Nat /\ buffer.count \in Nat /\ mState \in State
  BY SizeAssumption DEF IInv, Typed, TypeOK, State, Position
<1>4. (mPosition + buffer.count - 1) + 1 = mPosition + buffer.count
  BY <1>3
<1>5. Walk[buffer.count] = IF mState.count # 0 /\ mPosition + buffer.count = mState.end
                           THEN [position |-> mState.start, count |-> LoopsLeft]
                           ELSE [position |-> mPosition + buffer.count, count |-> mState.count]
  BY <1>4, WalkFacts DEF Follows, LoopsLeft
<1>6. IF mState.count # 0 /\ mPosition + buffer.count = mState.end
      THEN mPosition' = mState.start /\ mState'.count = LoopsLeft
      ELSE mPosition' = mPosition + buffer.count /\ mState'.count = mState.count
  BY <1>1, <1>3, ReleaseFacts DEF State
<1> QED
  BY <1>2, <1>5, <1>6
-----------------------------------------------------------------------------
(* The theorems *)

(***************************************************************************)
(* Type correctness, whoever polls and whatever the mixer keeps: positions *)
(* stay in the buffer and mFramesReady from 0 to INT64_MAX.                *)
(***************************************************************************)
THEOREM TypeCorrect == Spec => []TypeOK
<1>1. Init => Typed
  BY InitTypes
<1>2. Typed /\ [Next /\ UNCHANGED scenario]_<<vars, scenario>> => Typed'
  <2>1. ASSUME Typed, UNCHANGED <<vars, scenario>> PROVE Typed'
    BY <2>1 DEF Typed, TypeOK, States, vars, clientVars, proxyVars, mixVars
  <2> QED
    BY <2>1, NextTypes
<1>3. Typed => TypeOK
  BY DEF Typed
<1> QED
  BY <1>1, <1>2, <1>3, PTL DEF Spec

(***************************************************************************)
(* The invariant of a track that nobody disturbs.                          *)
(***************************************************************************)
THEOREM Invariant == Spec /\ Undisturbed => []IInv
<1>1. Init /\ Undisturbed => IInv
  BY InitInv
<1>2. IInv /\ [Next /\ UNCHANGED scenario]_<<vars, scenario>> => IInv'
  BY NextInv
<1> QED
  BY <1>1, <1>2, PTL DEF Spec

(***************************************************************************)
(* "As mFramesReady is the total remaining frames in the static audio      *)
(* track, it is always larger or equal to avail" (obtainBuffer()): it is   *)
(* what remains, the server's assertions hold and it never shuts down.     *)
(***************************************************************************)
THEOREM TheAccountsAgree == Spec /\ Undisturbed => []AccountsAgree
<1>1. IInv => AccountsAgree
  BY DEF IInv
<1> QED
  BY <1>1, Invariant, PTL

(***************************************************************************)
(* Every frame that releaseBuffer() counts is the one that follows the one *)
(* before, through the repetitions of the loop and to the end.             *)
(***************************************************************************)
THEOREM PlaysTheFramesInOrder == Spec /\ Undisturbed => PlaysInOrder
<1>1. ASSUME IInv, [Next /\ UNCHANGED scenario]_<<vars, scenario>>
      PROVE  [spc = "mix" /\ buffer.count > 0 /\ buffer'.count = 0 =>
                /\ Walk[buffer.count] = [position |-> mPosition', count |-> mState'.count]
                /\ \A n \in 0 .. buffer.count - 1 : Walk[n].position = buffer.raw + n]_vars
  BY <1>1, InOrder
<1> QED
  BY <1>1, Invariant, PTL DEF Spec, PlaysInOrder
=============================================================================
