-------------------------- MODULE StateQueuesProofs --------------------------
(***************************************************************************)
(* Proofs about the two state queues.  About StateQueue, for every number  *)
(* of slots kN >= 4 and every set of states: the inductive invariant, the  *)
(* privacy of the mutating slot, the results of push(), and the            *)
(* implementation of PublishedState.  About SingleStateQueue (One), for *)
(* every set of words, every even Modulus and every MAX_TRIES: the         *)
(* inductive invariant, what ack() answers, and the implementation of      *)
(* LatestValue.                                                            *)
(***************************************************************************)
EXTENDS StateQueue, TLAPS

-----------------------------------------------------------------------------
(* Circular order *)

(***************************************************************************)
(* With four slots or more, a slot differs from its three successors.      *)
(***************************************************************************)
LEMMA NextSlotFacts ==
  ASSUME NEW s \in Slot
  PROVE  /\ NextSlot(s) \in Slot
         /\ s # NextSlot(s)
         /\ s # NextSlot(NextSlot(s))
         /\ s # NextSlot(NextSlot(NextSlot(s)))
  BY kNAssumption DEF Slot, NextSlot

\* NULL is no slot.
LEMMA NullIsNoSlot == NULL \notin Slot /\ NextSlot(NULL) = 0
  BY kNAssumption DEF NULL, Slot, NextSlot

(***************************************************************************)
(* The invariant keeps the mutating slot apart from every slot that the    *)
(* observer may read (StateQueue.cpp push()).                              *)
(***************************************************************************)
LEMMA PrivateInv == IInv => MutatingIsPrivate
<1> SUFFICES ASSUME IInv PROVE MutatingIsPrivate
  OBVIOUS
<1>0. mMutating \in Slot /\ {mNext, mCurrent, mPrevious, polled} \subseteq Slot \cup {NULL}
  BY DEF IInv, TypeOK, Pointer
<1>1. mMutating # NULL
  BY <1>0, NullIsNoSlot
<1>2. mMutating # mNext
  BY <1>0, <1>1, NextSlotFacts DEF IInv, Order, Follows
<1>3. mMutating # mCurrent
  BY <1>0, <1>1, <1>2, NextSlotFacts DEF IInv, Order, Follows
<1>4. mMutating # mPrevious
  BY <1>0, <1>1, <1>2, NextSlotFacts DEF IInv, Order, Follows
<1>5. opc = "ack" => mMutating # polled
  BY <1>2 DEF IInv, Order
<1> QED
  BY <1>2, <1>3, <1>4, <1>5 DEF MutatingIsPrivate, ObserverSlots
-----------------------------------------------------------------------------
(* The inductive invariant *)

LEMMA InitInv == ASSUME Init PROVE IInv
<1>1. TypeOK
  <2>1. mStates \in [Slot -> Value \cup {Torn}]
    BY DEF Init
  <2>2. {mNext, mAck, mCurrent, mPrevious, polled, mExpecting} \subseteq Pointer
    BY DEF Init, Pointer
  <2>3. mMutating \in Slot
    BY kNAssumption DEF Init, Slot
  <2> QED
    BY <2>1, <2>2, <2>3 DEF Init, TypeOK, block_t
<1>2. Order
  BY DEF Init, Order, Follows
<1>3. Handshake
  BY DEF Init, Handshake, InPush
<1>4. NoTornState
  BY DEF Init, NoTornState, ObserverSlots
<1>5. PushReturn
  BY DEF Init, PushReturn
<1> QED
  BY <1>1, <1>2, <1>3, <1>4, <1>5 DEF IInv

LEMMA PollLoadInv == ASSUME IInv, PollLoad PROVE IInv'
  BY kNAssumption, TornAssumption, PrivateInv, NextSlotFacts, NullIsNoSlot
  DEF PollLoad, IInv, TypeOK, Order, Handshake, NoTornState, PushReturn, MutatingIsPrivate, ObserverSlots,
      Follows, Pointer, block_t, BLOCK_NEVER, BLOCK_UNTIL_ACKED, BLOCK_UNTIL_PUSHED, InPush, observerVars, mutatorVars,
      PushEntry, Acked

LEMMA PollAckInv == ASSUME IInv, PollAck PROVE IInv'
  BY kNAssumption, TornAssumption, PrivateInv, NextSlotFacts, NullIsNoSlot
  DEF PollAck, IInv, TypeOK, Order, Handshake, NoTornState, PushReturn, MutatingIsPrivate, ObserverSlots,
      Follows, Pointer, block_t, BLOCK_NEVER, BLOCK_UNTIL_ACKED, BLOCK_UNTIL_PUSHED, InPush, observerVars, mutatorVars,
      PushEntry, Acked

LEMMA BeginInv == ASSUME IInv, Begin PROVE IInv'
  BY kNAssumption, TornAssumption, PrivateInv, NextSlotFacts, NullIsNoSlot
  DEF Begin, IInv, TypeOK, Order, Handshake, NoTornState, PushReturn, MutatingIsPrivate, ObserverSlots,
      Follows, Pointer, block_t, BLOCK_NEVER, BLOCK_UNTIL_ACKED, BLOCK_UNTIL_PUSHED, InPush, observerVars, mutatorVars,
      PushEntry, Acked

LEMMA ModifyInv == ASSUME IInv, Modify PROVE IInv'
  BY kNAssumption, TornAssumption, PrivateInv, NextSlotFacts, NullIsNoSlot
  DEF Modify, IInv, TypeOK, Order, Handshake, NoTornState, PushReturn, MutatingIsPrivate, ObserverSlots,
      Follows, Pointer, block_t, BLOCK_NEVER, BLOCK_UNTIL_ACKED, BLOCK_UNTIL_PUSHED, InPush, observerVars, mutatorVars,
      PushEntry, Acked

LEMMA EndUnmodifiedInv == ASSUME IInv, EndUnmodified PROVE IInv'
  BY kNAssumption, TornAssumption, PrivateInv, NextSlotFacts, NullIsNoSlot
  DEF EndUnmodified, IInv, TypeOK, Order, Handshake, NoTornState, PushReturn, MutatingIsPrivate, ObserverSlots,
      Follows, Pointer, block_t, BLOCK_NEVER, BLOCK_UNTIL_ACKED, BLOCK_UNTIL_PUSHED, InPush, observerVars, mutatorVars,
      PushEntry, Acked

LEMMA EndModifiedInv == ASSUME NEW v \in Value, IInv, EndModified(v) PROVE IInv'
  BY kNAssumption, TornAssumption, PrivateInv, NextSlotFacts, NullIsNoSlot
  DEF EndModified, IInv, TypeOK, Order, Handshake, NoTornState, PushReturn, MutatingIsPrivate, ObserverSlots,
      Follows, Pointer, block_t, BLOCK_NEVER, BLOCK_UNTIL_ACKED, BLOCK_UNTIL_PUSHED, InPush, observerVars, mutatorVars,
      PushEntry, Acked

LEMMA PushInv == ASSUME NEW b \in block_t, IInv, Push(b) PROVE IInv'
  BY kNAssumption, TornAssumption, PrivateInv, NextSlotFacts, NullIsNoSlot
  DEF Push, IInv, TypeOK, Order, Handshake, NoTornState, PushReturn, MutatingIsPrivate, ObserverSlots,
      Follows, Pointer, block_t, BLOCK_NEVER, BLOCK_UNTIL_ACKED, BLOCK_UNTIL_PUSHED, InPush, observerVars, mutatorVars,
      PushEntry, Acked

LEMMA PriorAckedInv == ASSUME IInv, PriorAcked PROVE IInv'
  BY kNAssumption, TornAssumption, PrivateInv, NextSlotFacts, NullIsNoSlot
  DEF PriorAcked, IInv, TypeOK, Order, Handshake, NoTornState, PushReturn, MutatingIsPrivate, ObserverSlots,
      Follows, Pointer, block_t, BLOCK_NEVER, BLOCK_UNTIL_ACKED, BLOCK_UNTIL_PUSHED, InPush, observerVars, mutatorVars,
      PushEntry, Acked

LEMMA PriorNotAckedInv == ASSUME IInv, PriorNotAcked PROVE IInv'
  BY kNAssumption, TornAssumption, PrivateInv, NextSlotFacts, NullIsNoSlot
  DEF PriorNotAcked, IInv, TypeOK, Order, Handshake, NoTornState, PushReturn, MutatingIsPrivate, ObserverSlots,
      Follows, Pointer, block_t, BLOCK_NEVER, BLOCK_UNTIL_ACKED, BLOCK_UNTIL_PUSHED, InPush, observerVars, mutatorVars,
      PushEntry, Acked

LEMMA PublishInv == ASSUME IInv, Publish PROVE IInv'
  BY kNAssumption, TornAssumption, PrivateInv, NextSlotFacts, NullIsNoSlot
  DEF Publish, IInv, TypeOK, Order, Handshake, NoTornState, PushReturn, MutatingIsPrivate, ObserverSlots,
      Follows, Pointer, block_t, BLOCK_NEVER, BLOCK_UNTIL_ACKED, BLOCK_UNTIL_PUSHED, InPush, observerVars, mutatorVars,
      PushEntry, Acked

LEMMA CopyBeginInv == ASSUME IInv, CopyBegin PROVE IInv'
  BY kNAssumption, TornAssumption, PrivateInv, NextSlotFacts, NullIsNoSlot
  DEF CopyBegin, IInv, TypeOK, Order, Handshake, NoTornState, PushReturn, MutatingIsPrivate, ObserverSlots,
      Follows, Pointer, block_t, BLOCK_NEVER, BLOCK_UNTIL_ACKED, BLOCK_UNTIL_PUSHED, InPush, observerVars, mutatorVars,
      PushEntry, Acked

LEMMA CopyEndInv == ASSUME IInv, CopyEnd PROVE IInv'
<1> USE DEF IInv, CopyEnd
<1>1. mExpecting \in Slot /\ mMutating \in Slot /\ mExpecting = mNext /\ mStates[mNext] # Torn
  BY DEF TypeOK, Pointer, Handshake, NoTornState, ObserverSlots
<1>2. mMutating \notin ObserverSlots
  BY PrivateInv DEF MutatingIsPrivate
<1>3. ObserverSlots' = ObserverSlots
  BY DEF ObserverSlots, observerVars
<1>4. TypeOK'
  BY <1>1 DEF TypeOK, observerVars
<1>5. Order'
  BY DEF Order, Follows, observerVars
<1>6. Handshake'
  BY <1>1, NullIsNoSlot DEF Handshake, InPush, observerVars
<1>7. NoTornState'
  <2>1. mStates'[mMutating] # Torn
    BY <1>1 DEF TypeOK
  <2>2. \A s \in ObserverSlots \ {NULL} : mStates'[s] = mStates[s]
    BY <1>2 DEF ObserverSlots, TypeOK, Pointer
  <2> QED
    BY <1>3, <2>1, <2>2 DEF NoTornState
<1>8. PushReturn'
  BY DEF PushReturn, Handshake, InPush
<1> QED
  BY <1>4, <1>5, <1>6, <1>7, <1>8

LEMMA PushAckedInv == ASSUME IInv, PushAcked PROVE IInv'
  BY kNAssumption, TornAssumption, PrivateInv, NextSlotFacts, NullIsNoSlot
  DEF PushAcked, IInv, TypeOK, Order, Handshake, NoTornState, PushReturn, MutatingIsPrivate, ObserverSlots,
      Follows, Pointer, block_t, BLOCK_NEVER, BLOCK_UNTIL_ACKED, BLOCK_UNTIL_PUSHED, InPush, observerVars, mutatorVars,
      PushEntry, Acked

LEMMA ReturnInv == ASSUME IInv, Return PROVE IInv'
  BY kNAssumption, TornAssumption, PrivateInv, NextSlotFacts, NullIsNoSlot
  DEF Return, IInv, TypeOK, Order, Handshake, NoTornState, PushReturn, MutatingIsPrivate, ObserverSlots,
      Follows, Pointer, block_t, BLOCK_NEVER, BLOCK_UNTIL_ACKED, BLOCK_UNTIL_PUSHED, InPush, observerVars, mutatorVars,
      PushEntry, Acked

LEMMA NextInv == ASSUME IInv, [Next]_vars PROVE IInv'
<1>1. CASE Observer
  BY <1>1, PollLoadInv, PollAckInv DEF Observer
<1>2. CASE Mutator
  BY <1>2, BeginInv, ModifyInv, EndUnmodifiedInv, EndModifiedInv, PushInv, PriorAckedInv,
     PriorNotAckedInv, PublishInv, CopyBeginInv, CopyEndInv, PushAckedInv, ReturnInv
  DEF Mutator, PushStep
<1>3. CASE UNCHANGED vars
  BY <1>3 DEF vars, observerVars, mutatorVars, IInv, TypeOK, Order, Follows, Handshake, InPush,
              NoTornState, PushReturn, ObserverSlots
<1> QED
  BY <1>1, <1>2, <1>3 DEF Next

(***************************************************************************)
(* The invariant holds of every run of the two threads, and with it        *)
(* everything it implies.                                                  *)
(***************************************************************************)
THEOREM Invariant == Spec => []IInv
<1>1. Init => IInv
  BY InitInv
<1>2. IInv /\ [Next]_vars => IInv'
  BY NextInv
<1> QED
  BY <1>1, <1>2, PTL DEF Spec

(***************************************************************************)
(* Type correctness of the two threads' variables.                         *)
(***************************************************************************)
THEOREM TypeCorrect == Spec => []TypeOK
<1>1. IInv => TypeOK
  BY DEF IInv
<1> QED
  BY <1>1, Invariant, PTL

(***************************************************************************)
(* The mutator never edits, or copies into, a slot the observer may read:  *)
(* what kN >= 4 and the waits of push() are for.                           *)
(***************************************************************************)
THEOREM Private == Spec => []MutatingIsPrivate
  BY Invariant, PrivateInv, PTL

(***************************************************************************)
(* push() answers as StateQueue.h documents, in each of its three modes.   *)
(***************************************************************************)
THEOREM PushAnswers == Spec => []PushReturn
<1>1. IInv => PushReturn
  BY DEF IInv
<1> QED
  BY <1>1, Invariant, PTL
-----------------------------------------------------------------------------
(* StateQueue implements PublishedState *)

(***************************************************************************)
(* A step that moves no pointer and writes at most the mutating slot is    *)
(* not seen by the observer.                                               *)
(***************************************************************************)
LEMMA Unseen ==
  ASSUME IInv, UNCHANGED <<mNext, mCurrent, mPrevious>>,
         \A s \in Slot \ {mMutating} : mStates'[s] = mStates[s]
  PROVE  UNCHANGED Published!vars
<1>1. {mNext, mCurrent, mPrevious} \subseteq Slot \cup {NULL}
  BY DEF IInv, TypeOK, Pointer
<1>2. mMutating \notin {mNext, mCurrent, mPrevious}
  BY PrivateInv DEF MutatingIsPrivate, ObserverSlots
<1> QED
  BY <1>1, <1>2 DEF Published!vars

LEMMA InitImplements == Init => Published!Init
  BY DEF Init, Published!Init

\* The store of mNext is the abstract Publish.
LEMMA PublishImplements == ASSUME IInv, Publish PROVE Published!Publish
<1>1. mCurrent = mNext /\ mIsDirty /\ mMutating \in Slot /\ mStates[mMutating] # Torn
  BY NullIsNoSlot DEF IInv, Publish, Handshake, NoTornState, TypeOK
<1>2. mStates[mMutating] \in Value
  BY <1>1 DEF IInv, TypeOK
<1>3. mMutating # NULL /\ mMutating # mCurrent
  BY <1>1, NullIsNoSlot, PrivateInv DEF MutatingIsPrivate, ObserverSlots
<1> QED
  BY <1>1, <1>2, <1>3 DEF Publish, observerVars, Published!Publish

\* The acknowledgement is the abstract Observe.
LEMMA PollAckImplements == ASSUME IInv, PollAck PROVE Published!Observe
  BY DEF IInv, Order, PollAck, Published!Observe

\* Every other step of either thread is invisible.
LEMMA NextImplements ==
  ASSUME IInv, [Next]_vars
  PROVE  [Published!Next]_Published!vars
<1>1. CASE Publish
  BY <1>1, PublishImplements DEF Published!Next
<1>2. CASE PollAck
  BY <1>2, PollAckImplements DEF Published!Next
<1>3. CASE PollLoad \/ UNCHANGED vars
  BY <1>3, Unseen DEF PollLoad, vars, observerVars
<1>4. CASE Begin \/ EndUnmodified \/ (\E b \in block_t : Push(b))
  BY <1>4, Unseen DEF Begin, EndUnmodified, Push, observerVars
<1>5. CASE Modify \/ (\E v \in Value : EndModified(v)) \/ CopyBegin \/ CopyEnd
  BY <1>5, Unseen DEF Modify, EndModified, CopyBegin, CopyEnd, observerVars, IInv, TypeOK
<1>6. CASE PriorAcked \/ PriorNotAcked \/ PushAcked \/ Return
  BY <1>6, Unseen DEF PriorAcked, PriorNotAcked, PushAcked, Return, observerVars
<1> QED
  BY <1>1, <1>2, <1>3, <1>4, <1>5, <1>6 DEF Next, Observer, Mutator, PushStep

(***************************************************************************)
(* StateQueue<T>, at the grain of its loads and stores, implements the     *)
(* publication of whole snapshots, each taken over once and in order.      *)
(***************************************************************************)
THEOREM Implements == Spec => Refinement
<1>1. Init => Published!Init
  BY InitImplements
<1>2. IInv /\ [Next]_vars => [Published!Next]_Published!vars
  BY NextImplements
<1> QED
  BY <1>1, <1>2, Invariant, PTL DEF Spec, Refinement, Published!Spec
-----------------------------------------------------------------------------
(***************************************************************************)
(* SingleStateQueue.  It shares nothing with StateQueue; its sizes are     *)
(* assumed where they are needed.                                          *)
(***************************************************************************)
CONSTANTS Word, Modulus, MAX_TRIES, MaxLag
VARIABLES mSequence, mValue, oneAck, toWrite, oneOpc, before, tries, temp, toRead, seen, value

One == INSTANCE SingleStateQueue WITH mAck <- oneAck, opc <- oneOpc

-----------------------------------------------------------------------------
(* Sequence numbers *)

(***************************************************************************)
(* A sequence number and its successor differ in parity, even at the wrap. *)
(***************************************************************************)
LEMMA IncFacts ==
  ASSUME One!Sizes, NEW s \in One!Sequence
  PROVE  One!Inc(s) \in One!Sequence /\ (One!Odd(One!Inc(s)) <=> ~One!Odd(s)) /\ One!Inc(s) # s
  BY DEF One!Sizes, One!Sequence, One!Inc, One!Odd

(***************************************************************************)
(* Ahead counts the steps from one sequence number to another.             *)
(***************************************************************************)
LEMMA AheadFacts ==
  ASSUME One!Sizes, NEW a \in One!Sequence, NEW b \in One!Sequence, NEW c \in One!Sequence
  PROVE  /\ One!Ahead(a, b) \in One!Sequence
         /\ One!Ahead(a, b) = One!Ahead(c, b) <=> a = c
         /\ One!Ahead(a, b) = 0 <=> a = b
         /\ One!Ahead(a, b) + 1 < Modulus => One!Ahead(One!Inc(a), b) = One!Ahead(a, b) + 1
         /\ One!Ahead(c, b) <= One!Ahead(a, b) => One!Ahead(a, c) = One!Ahead(a, b) - One!Ahead(c, b)
  BY DEF One!Sizes, One!Sequence, One!Inc, One!Ahead
-----------------------------------------------------------------------------
(* The inductive invariant *)

LEMMA OneInitInv == ASSUME One!Sizes, One!Init PROVE One!IInv
<1> USE DEF One!Sizes
<1>1. One!TypeOK
  BY DEF One!Init, One!TypeOK, One!Sequence
<1>2. One!Lag
  BY DEF One!Init, One!Lag, One!Odd, One!Ahead
<1>3. One!Written
  BY DEF One!Init, One!Written, One!Odd
<1>4. One!Loaded
  BY DEF One!Init, One!Loaded
<1> QED
  BY <1>1, <1>2, <1>3, <1>4 DEF One!IInv

(***************************************************************************)
(* When mSequence advances, an observer in the middle of poll() is left    *)
(* with a number that it will not meet again.                              *)
(***************************************************************************)
LEMMA AdvanceInv ==
  ASSUME One!Sizes, One!IInv, One!Ahead(mSequence, oneAck) + 1 <= MaxLag,
         mSequence' = One!Inc(mSequence), UNCHANGED One!observerVars
  PROVE  /\ mSequence' \in One!Sequence
         /\ One!Ahead(mSequence', oneAck') = One!Ahead(mSequence, oneAck) + 1
         /\ One!Ahead(seen', oneAck') <= One!Ahead(mSequence', oneAck')
         /\ mSequence' # seen'
         /\ One!Loaded'
<1>0. mSequence \in One!Sequence /\ oneAck \in One!Sequence /\ seen \in One!Sequence /\ before \in One!Sequence
  BY DEF One!IInv, One!TypeOK
<1>1. mSequence' \in One!Sequence /\ oneAck' = oneAck /\ seen' = seen /\ before' = before
  BY <1>0, IncFacts DEF One!observerVars
<1>2. One!Ahead(mSequence', oneAck) = One!Ahead(mSequence, oneAck) + 1
  <2>1. One!Ahead(mSequence, oneAck) \in Int
    BY <1>0, AheadFacts DEF One!Sequence
  <2>2. One!Ahead(mSequence, oneAck) + 1 < Modulus
    BY <2>1 DEF One!Sizes
  <2> QED
    BY <1>0, <2>2, AheadFacts
<1>3. One!Ahead(mSequence, oneAck) \in Int /\ One!Ahead(seen, oneAck) \in Int /\ One!Ahead(before, oneAck) \in Int
  BY <1>0, AheadFacts DEF One!Sequence
<1>4. One!Ahead(seen, oneAck) <= One!Ahead(mSequence, oneAck)
  BY DEF One!IInv, One!Lag
<1>5. mSequence' # seen
  BY <1>2, <1>3, <1>4
<1>6. oneOpc = "read" => mSequence' # before /\ One!Ahead(before, oneAck) <= One!Ahead(mSequence', oneAck)
  BY <1>2, <1>3 DEF One!IInv, One!Loaded
<1>7. One!Loaded'
  BY <1>1, <1>5, <1>6 DEF One!IInv, One!Loaded, One!observerVars
<1> QED
  BY <1>1, <1>2, <1>3, <1>4, <1>5, <1>7

LEMMA PushBeginInv == ASSUME One!Sizes, One!IInv, One!PushBegin PROVE One!IInv'
<1>0. mSequence \in One!Sequence /\ One!Ahead(mSequence, oneAck) \in Int
  BY AheadFacts DEF One!IInv, One!TypeOK, One!Sequence
<1>a. One!Odd(mSequence') /\ mSequence' \in One!Sequence
  BY <1>0, IncFacts DEF One!PushBegin
<1>b. /\ One!Ahead(mSequence', oneAck') = One!Ahead(mSequence, oneAck) + 1
      /\ One!Ahead(seen', oneAck') <= One!Ahead(mSequence', oneAck')
      /\ One!Loaded'
  BY <1>0, AdvanceInv DEF One!Sizes, One!PushBegin
<1>1. One!TypeOK'
  BY <1>a DEF One!IInv, One!TypeOK, One!PushBegin, One!observerVars
<1>2. One!Lag'
  BY <1>0, <1>a, <1>b DEF One!Sizes, One!IInv, One!Lag, One!PushBegin, One!observerVars
<1>3. One!Written'
  BY <1>a DEF One!Written, One!PushBegin
<1> QED
  BY <1>b, <1>1, <1>2, <1>3 DEF One!IInv

LEMMA WriteWordInv == ASSUME One!Sizes, One!IInv, NEW w \in Word, One!WriteWord(w) PROVE One!IInv'
<1>0. mSequence \in One!Sequence
  BY DEF One!IInv, One!TypeOK
<1>1. One!TypeOK'
  BY <1>0, IncFacts DEF One!IInv, One!TypeOK, One!WriteWord, One!observerVars
<1>2. One!Lag' /\ One!Loaded'
  BY DEF One!IInv, One!Lag, One!Loaded, One!WriteWord, One!observerVars
<1>3. One!Odd(mSequence)
  BY DEF One!IInv, One!Written, One!WriteWord
<1>4. One!Written'
  BY <1>3 DEF One!IInv, One!TypeOK, One!Written, One!WriteWord
<1> QED
  BY <1>1, <1>2, <1>4 DEF One!IInv

LEMMA PushEndInv == ASSUME One!Sizes, One!IInv, One!PushEnd PROVE One!IInv'
<1>0. mSequence \in One!Sequence /\ One!Ahead(mSequence, oneAck) \in Int
  BY AheadFacts DEF One!IInv, One!TypeOK, One!Sequence
<1>a. ~One!Odd(mSequence') /\ mSequence' \in One!Sequence
  BY <1>0, IncFacts DEF One!PushEnd
<1>b. /\ One!Ahead(mSequence', oneAck') = One!Ahead(mSequence, oneAck) + 1
      /\ One!Ahead(seen', oneAck') <= One!Ahead(mSequence', oneAck')
      /\ One!Loaded'
  BY AdvanceInv DEF One!IInv, One!Lag, One!PushEnd
<1>1. One!TypeOK'
  BY <1>a DEF One!IInv, One!TypeOK, One!PushEnd, One!mutatorVars, One!observerVars
<1>2. One!Lag'
  BY <1>0, <1>a, <1>b DEF One!IInv, One!Lag, One!PushEnd, One!observerVars
<1>3. One!Written'
  BY <1>a DEF One!IInv, One!Written, One!PushEnd, One!mutatorVars
<1> QED
  BY <1>b, <1>1, <1>2, <1>3 DEF One!IInv

(***************************************************************************)
(* Where poll() goes with a number that is not the one it has seen.        *)
(***************************************************************************)
LEMMA ConsiderInv ==
  ASSUME One!Sizes, One!IInv, oneOpc # "ack", mSequence # seen, NEW n \in 0 .. MAX_TRIES - 1, One!Consider(mSequence, n),
         UNCHANGED <<mSequence, One!mutatorVars, oneAck, temp, seen, value>>
  PROVE  One!IInv'
<1>1. One!TypeOK'
  BY DEF One!Sizes, One!IInv, One!TypeOK, One!Consider, One!mutatorVars
<1>2. One!Lag' /\ One!Written'
  BY DEF One!IInv, One!Lag, One!Written, One!Consider, One!mutatorVars
<1>3. One!Ahead(mSequence, oneAck) \in Int
  BY AheadFacts DEF One!IInv, One!TypeOK, One!Sequence
<1>4. One!Loaded'
  BY <1>3 DEF One!IInv, One!Loaded, One!Consider, One!Busy
<1> QED
  BY <1>1, <1>2, <1>4 DEF One!IInv

LEMMA OnePollLoadInv == ASSUME One!Sizes, One!IInv, One!PollLoad PROVE One!IInv'
  BY ConsiderInv DEF One!Sizes, One!PollLoad

LEMMA ReloadInv == ASSUME One!Sizes, One!IInv, One!Reload PROVE One!IInv'
  BY ConsiderInv DEF One!Reload, One!IInv, One!TypeOK, One!Loaded

LEMMA ReadWordInv == ASSUME One!Sizes, One!IInv, NEW w \in Word, One!ReadWord(w) PROVE One!IInv'
<1>1. oneOpc = "read"
  BY DEF One!IInv, One!Loaded, One!ReadWord
<1>2. One!TypeOK'
  BY DEF One!IInv, One!TypeOK, One!ReadWord, One!mutatorVars
<1>3. One!Lag' /\ One!Written'
  BY DEF One!IInv, One!Lag, One!Written, One!ReadWord, One!mutatorVars
<1>4. mSequence = before => mValue[w] = before
  BY <1>1 DEF One!IInv, One!Written, One!Loaded
<1>5. One!Loaded'
  BY <1>1, <1>4 DEF One!IInv, One!TypeOK, One!Loaded, One!ReadWord
<1> QED
  BY <1>2, <1>3, <1>5 DEF One!IInv

(***************************************************************************)
(* poll() has its value.                                                   *)
(***************************************************************************)
LEMMA WholeValue == ASSUME One!Sizes, One!IInv, One!LoadAfter PROVE temp = [w \in Word |-> mSequence]
  BY DEF One!IInv, One!TypeOK, One!Loaded, One!LoadAfter, One!Unchanged

LEMMA LoadAfterInv == ASSUME One!Sizes, One!IInv, One!LoadAfter PROVE One!IInv'
<1>1. One!TypeOK'
  BY DEF One!Sizes, One!IInv, One!TypeOK, One!LoadAfter, One!mutatorVars
<1>2. One!Lag'
  BY DEF One!IInv, One!Lag, One!Loaded, One!LoadAfter, One!Unchanged
<1>3. One!Written'
  BY DEF One!IInv, One!Written, One!LoadAfter, One!mutatorVars
<1>4. One!Loaded'
  BY WholeValue DEF One!IInv, One!Loaded, One!LoadAfter, One!Unchanged
<1> QED
  BY <1>1, <1>2, <1>3, <1>4 DEF One!IInv

LEMMA LoadAfterChangedInv == ASSUME One!Sizes, One!IInv, One!LoadAfterChanged PROVE One!IInv'
<1>0. mSequence # seen /\ tries \in 0 .. MAX_TRIES - 1
  BY DEF One!IInv, One!TypeOK, One!Loaded, One!LoadAfterChanged
<1>1. CASE tries + 1 >= MAX_TRIES
  <2>1. One!TypeOK'
    BY <1>1 DEF One!Sizes, One!IInv, One!TypeOK, One!LoadAfterChanged, One!mutatorVars
  <2>2. One!Lag' /\ One!Written' /\ One!Loaded'
    BY <1>1 DEF One!IInv, One!Lag, One!Written, One!Loaded, One!LoadAfterChanged, One!mutatorVars
  <2> QED
    BY <2>1, <2>2 DEF One!IInv
<1>2. CASE ~(tries + 1 >= MAX_TRIES)
  <2>1. tries + 1 \in 0 .. MAX_TRIES - 1
    BY <1>0, <1>2 DEF One!Sizes
  <2>2. One!Consider(mSequence, tries + 1)
    BY <1>2 DEF One!LoadAfterChanged
  <2> QED
    BY <1>0, <2>1, <2>2, ConsiderInv DEF One!LoadAfterChanged
<1> QED
  BY <1>1, <1>2

LEMMA StoreAckInv == ASSUME One!Sizes, One!IInv, One!StoreAck PROVE One!IInv'
<1>0. /\ mSequence \in One!Sequence /\ oneAck \in One!Sequence /\ seen \in One!Sequence /\ before = seen
      /\ One!Ahead(seen, oneAck) <= One!Ahead(mSequence, oneAck)
  BY DEF One!IInv, One!TypeOK, One!Lag, One!StoreAck
<1>1. One!TypeOK'
  BY DEF One!IInv, One!TypeOK, One!StoreAck, One!NewAck, One!mutatorVars
<1>2. One!Ahead(mSequence, seen) = One!Ahead(mSequence, oneAck) - One!Ahead(seen, oneAck) /\ One!Ahead(seen, seen) = 0
  BY <1>0, AheadFacts
<1>3. One!Ahead(mSequence, oneAck) \in Nat /\ One!Ahead(seen, oneAck) \in Nat
  BY <1>0, AheadFacts DEF One!Sequence
<1>4. One!Lag'
  BY <1>0, <1>2, <1>3 DEF One!Sizes, One!IInv, One!Lag, One!StoreAck, One!NewAck
<1>5. One!Written' /\ One!Loaded'
  BY DEF One!IInv, One!Written, One!Loaded, One!StoreAck, One!mutatorVars
<1> QED
  BY <1>1, <1>4, <1>5 DEF One!IInv

(***************************************************************************)
(* The invariant holds of every reachable state, whatever the number of    *)
(* words, the width of the sequence numbers and MAX_TRIES.                 *)
(***************************************************************************)
THEOREM OneInvariant ==
  ASSUME One!Sizes
  PROVE  One!Spec => []One!IInv
<1>1. One!Init => One!IInv
  BY OneInitInv
<1>2. One!IInv /\ [One!Next]_One!vars => One!IInv'
  <2> SUFFICES ASSUME One!IInv, [One!Next]_One!vars PROVE One!IInv'
    OBVIOUS
  <2>1. CASE One!Mutator
    BY <2>1, PushBeginInv, WriteWordInv, PushEndInv DEF One!Mutator, One!PushStep
  <2>2. CASE One!Observer
    BY <2>2, OnePollLoadInv, ReloadInv, ReadWordInv, LoadAfterInv, LoadAfterChangedInv, StoreAckInv
    DEF One!Observer
  <2>3. CASE UNCHANGED One!vars
    BY <2>3 DEF One!IInv, One!TypeOK, One!Lag, One!Written, One!Loaded, One!vars, One!mutatorVars,
           One!observerVars
  <2> QED
    BY <2>1, <2>2, <2>3 DEF One!Next
<1> QED
  BY <1>1, <1>2, PTL DEF One!Spec

(***************************************************************************)
(* Type correctness.                                                       *)
(***************************************************************************)
THEOREM OneTypeCorrect ==
  ASSUME One!Sizes
  PROVE  One!Spec => []One!TypeOK
<1>1. One!IInv => One!TypeOK
  BY DEF One!IInv
<1> QED
  BY <1>1, OneInvariant, PTL
-----------------------------------------------------------------------------
(* What the mutator may believe *)

(***************************************************************************)
(* ack() never tells of a push that poll() has not returned or passed.     *)
(***************************************************************************)
LEMMA AckIsTrueInv ==
  ASSUME One!Sizes
  PROVE  One!IInv => One!AckIsTrue
<1> SUFFICES ASSUME One!IInv, NEW s \in One!Sequence, One!Ahead(mSequence, s) <= MaxLag, One!ack(s)
             PROVE  One!Ahead(seen, s) <= MaxLag
  BY DEF One!AckIsTrue
<1>1. mSequence \in One!Sequence /\ oneAck \in One!Sequence /\ seen \in One!Sequence
  BY DEF One!IInv, One!TypeOK
<1>2. One!Ahead(mSequence, oneAck) <= MaxLag
  <2>1. One!Ahead(mSequence, oneAck) \in Int
    BY <1>1, AheadFacts DEF One!Sequence
  <2> QED
    BY <2>1 DEF One!Sizes, One!IInv, One!Lag
<1>3. One!Ahead(seen, oneAck) <= One!Ahead(mSequence, oneAck)
  BY DEF One!IInv, One!Lag
<1> QED
  BY <1>1, <1>2, <1>3 DEF One!Sizes, One!ack, One!Ahead, One!Sequence

(***************************************************************************)
(* ack(sequence) is true only of what poll() has returned or passed, for   *)
(* every number of words and every width of the sequence numbers.          *)
(***************************************************************************)
THEOREM AckAnswers ==
  ASSUME One!Sizes
  PROVE  One!Spec => []One!AckIsTrue
  BY AckIsTrueInv, OneInvariant, PTL
-----------------------------------------------------------------------------
(* Implementation of LatestValue *)

LEMMA InitLatest ==
  ASSUME One!Sizes
  PROVE  One!Init => One!Latest!Init
  BY DEF One!Sizes, One!Init, One!Latest!Init, One!lastPush, One!Odd, One!Sequence

(***************************************************************************)
(* The last push ends with the store of its even number.                   *)
(***************************************************************************)
LEMMA MutatorLatest ==
  ASSUME One!Sizes, One!IInv, One!IInv', One!Mutator
  PROVE  [One!Latest!Next]_<<[w \in Word |-> One!lastPush], value, One!lastPush # seen>>
<1>0. mSequence \in One!Sequence /\ seen \in One!Sequence /\ mSequence' \in One!Sequence
  BY DEF One!IInv, One!TypeOK
<1>1. CASE One!PushBegin
  <2>1. One!lastPush' = One!lastPush
    BY <1>0, <1>1 DEF One!Sizes, One!lastPush, One!PushBegin, One!Inc, One!Odd, One!Sequence
  <2> QED
    BY <1>1, <2>1 DEF One!PushBegin, One!observerVars
<1>2. ASSUME NEW w \in Word, One!WriteWord(w)
      PROVE  UNCHANGED <<[v \in Word |-> One!lastPush], value, One!lastPush # seen>>
  BY <1>2 DEF One!WriteWord, One!observerVars, One!lastPush
<1>3. CASE One!PushEnd
  <2>1. ~One!Odd(mSequence') /\ One!lastPush' = mSequence'
    BY <1>0, <1>3, IncFacts DEF One!PushEnd, One!lastPush
  <2>2. [w \in Word |-> One!lastPush'] \in [Word -> One!Sequence]
    BY <1>0, <2>1
  <2>3. seen' = seen /\ value' = value
    BY <1>3 DEF One!PushEnd, One!observerVars
  <2>4. mSequence' # seen'
    BY <1>3, AdvanceInv DEF One!IInv, One!Lag, One!PushEnd
  <2> QED
    BY <2>1, <2>2, <2>3, <2>4 DEF One!Latest!Next, One!Latest!Push
<1> QED
  BY <1>1, <1>2, <1>3 DEF One!Mutator, One!PushStep

(***************************************************************************)
(* A poll() takes the latest value with its last load; its other steps are *)
(* nobody's business.                                                      *)
(***************************************************************************)
LEMMA ObserverLatest ==
  ASSUME One!Sizes, One!IInv, One!Observer
  PROVE  [One!Latest!Next]_<<[w \in Word |-> One!lastPush], value, One!lastPush # seen>>
<1>1. CASE One!LoadAfter
  <2>1. One!lastPush' = One!lastPush /\ One!lastPush = mSequence /\ mSequence # seen /\ seen' = mSequence
    BY <1>1 DEF One!IInv, One!Loaded, One!LoadAfter, One!Unchanged, One!lastPush
  <2>2. value' = [w \in Word |-> One!lastPush]
    BY <1>1, <2>1, WholeValue DEF One!LoadAfter
  <2> QED
    BY <2>1, <2>2 DEF One!Latest!Next, One!Latest!Take
<1>2. ASSUME UNCHANGED <<mSequence, seen, value>>
      PROVE  UNCHANGED <<[w \in Word |-> One!lastPush], value, One!lastPush # seen>>
  BY <1>2 DEF One!lastPush
<1>3. ~One!LoadAfter => UNCHANGED <<mSequence, seen, value>>
  BY DEF One!Observer, One!PollLoad, One!Reload, One!ReadWord, One!LoadAfterChanged, One!StoreAck
<1> QED
  BY <1>1, <1>2, <1>3

(***************************************************************************)
(* The queue is an atomic multi-word load and store, for every width.      *)
(***************************************************************************)
THEOREM OneImplements ==
  ASSUME One!Sizes
  PROVE  One!Spec => One!Refinement
<1>1. One!Init => One!Latest!Init
  BY InitLatest
<1>2. One!IInv /\ One!IInv' /\ [One!Next]_One!vars
      => [One!Latest!Next]_<<[w \in Word |-> One!lastPush], value, One!lastPush # seen>>
  <2> SUFFICES ASSUME One!IInv, One!IInv', [One!Next]_One!vars
               PROVE  [One!Latest!Next]_<<[w \in Word |-> One!lastPush], value, One!lastPush # seen>>
    OBVIOUS
  <2>1. CASE One!Mutator
    BY <2>1, MutatorLatest
  <2>2. CASE One!Observer
    BY <2>2, ObserverLatest
  <2>3. CASE UNCHANGED One!vars
    BY <2>3 DEF One!vars, One!observerVars, One!lastPush
  <2> QED
    BY <2>1, <2>2, <2>3 DEF One!Next
<1> QED
  BY <1>1, <1>2, OneInvariant, PTL DEF One!Spec, One!Refinement, One!Latest!Spec
=============================================================================
