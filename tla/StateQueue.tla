----------------------------- MODULE StateQueue -----------------------------
(***************************************************************************)
(* StateQueue<T> (services/audioflinger/StateQueue.{h,cpp}): the lock-free *)
(* queue by which a normal mixer (or record) thread, the mutator, hands    *)
(* states to a fast mixer (or fast capture) thread, the observer.          *)
(*                                                                         *)
(* The two threads share mStates, mNext and mAck; every action makes at    *)
(* most one access to what they share, so that TLC interleaves them at     *)
(* the grain of the code's loads and stores.  A T is many words long, so   *)
(* an edit in place and the copy in push() each have a step that leaves    *)
(* the slot half written (Torn).  Statistics (STATE_QUEUE_DUMP) are left   *)
(* out; a wait loop is the guard that ends it.                             *)
(***************************************************************************)
EXTENDS Integers

CONSTANTS
  kN,       \* number of slots, 4 in the code
  Value,    \* the states the mutator can write
  Torn      \* the content of a slot that is half written or never written

(***************************************************************************)
(* StateQueue.h: "values < 4 are not supported by this code".              *)
(***************************************************************************)
ASSUME kNAssumption == kN \in Nat /\ kN >= 4
ASSUME TornAssumption == Torn \notin Value

Slot == 0 .. kN - 1
NULL == -1
Pointer == Slot \cup {NULL}

\* enum block_t
BLOCK_NEVER == "BLOCK_NEVER"
BLOCK_UNTIL_PUSHED == "BLOCK_UNTIL_PUSHED"
BLOCK_UNTIL_ACKED == "BLOCK_UNTIL_ACKED"
block_t == {BLOCK_NEVER, BLOCK_UNTIL_PUSHED, BLOCK_UNTIL_ACKED}

VARIABLES
  mStates,        \* the slots: written by the mutator, read by the observer
  mNext,          \* written by the mutator, read by the observer
  mAck,           \* written by the observer, read by the mutator
  mCurrent,       \* observer: what poll() returned last
  mPrevious,      \* observer: what it returned before, kept by the caller
  opc, polled,    \* observer: where it is in poll(), and poll()'s local next
  mMutating,      \* mutator: the slot edited in place
  mExpecting,     \* mutator: the ack it waits for, or NULL
  mIsDirty,       \* mutator: edited since the last push
  mIsInitialized, \* mutator: some edit has been made
  mpc,            \* mutator: where it is in begin() .. end() or push()
  block,          \* mutator: the argument of push()
  pushed          \* mutator: what push() returns

observerVars == <<mAck, mCurrent, mPrevious, opc, polled>>
mutatorVars == <<mMutating, mExpecting, mIsDirty, mIsInitialized, mpc, block, pushed>>
vars == <<mStates, mNext, observerVars, mutatorVars>>

\* Inside push(); mpc \in {"mutating", "writing"} is the code's mInMutation.
InPush == mpc \in {"waitPrior", "publish", "copy", "copying", "waitAck"}

TypeOK ==
  /\ mStates \in [Slot -> Value \cup {Torn}]
  /\ {mNext, mAck, mCurrent, mPrevious, polled, mExpecting} \subseteq Pointer
  /\ opc \in {"idle", "ack"}
  /\ mMutating \in Slot
  /\ mIsDirty \in BOOLEAN /\ mIsInitialized \in BOOLEAN /\ pushed \in BOOLEAN
  /\ mpc \in {"idle", "mutating", "writing", "waitPrior", "publish",
              "copy", "copying", "waitAck", "return"}
  /\ block \in block_t

Init ==
  /\ mStates = [s \in Slot |-> Torn]
  /\ mNext = NULL /\ mAck = NULL /\ mCurrent = NULL /\ mPrevious = NULL
  /\ opc = "idle" /\ polled = NULL
  /\ mMutating = 0 /\ mExpecting = NULL
  /\ mIsDirty = FALSE /\ mIsInitialized = FALSE
  /\ mpc = "idle" /\ block = BLOCK_NEVER /\ pushed = TRUE
-----------------------------------------------------------------------------
(* Observer *)

\* poll(): the acquire load of mNext.  When it equals mCurrent, poll() returns
\* without storing anything.
PollLoad ==
  /\ opc = "idle"
  /\ mNext # mCurrent
  /\ polled' = mNext
  /\ opc' = "ack"
  /\ UNCHANGED <<mStates, mNext, mAck, mCurrent, mPrevious, mutatorVars>>

\* poll(): the store of mAck; mCurrent is private, and so is the caller's move
\* of its current state to previous on return.
PollAck ==
  /\ opc = "ack"
  /\ mAck' = polled
  /\ mCurrent' = polled
  /\ mPrevious' = mCurrent
  /\ opc' = "idle"
  /\ UNCHANGED <<mStates, mNext, polled, mutatorVars>>

Observer == PollLoad \/ PollAck
-----------------------------------------------------------------------------
(* Mutator *)

Begin ==
  /\ mpc = "idle"
  /\ mpc' = "mutating"
  /\ UNCHANGED <<mStates, mNext, observerVars, mMutating, mExpecting, mIsDirty,
                 mIsInitialized, block, pushed>>

\* The caller has stored some, not all, of the fields it changes in *begin().
Modify ==
  /\ mpc = "mutating"
  /\ mStates' = [mStates EXCEPT ![mMutating] = Torn]
  /\ mpc' = "writing"
  /\ UNCHANGED <<mNext, observerVars, mMutating, mExpecting, mIsDirty,
                 mIsInitialized, block, pushed>>

\* The caller's last store, and end(true).
EndModified(v) ==
  /\ mpc = "writing"
  /\ mStates' = [mStates EXCEPT ![mMutating] = v]
  /\ mIsDirty' = TRUE
  /\ mIsInitialized' = TRUE
  /\ mpc' = "idle"
  /\ UNCHANGED <<mNext, observerVars, mMutating, mExpecting, block, pushed>>

\* end(false), which asserts that the state has been initialized.
EndUnmodified ==
  /\ mpc = "mutating"
  /\ mIsInitialized
  /\ mpc' = "idle"
  /\ UNCHANGED <<mStates, mNext, observerVars, mMutating, mExpecting, mIsDirty,
                 mIsInitialized, block, pushed>>

\* Where push(b) goes first: a clean state is not published again, but
\* BLOCK_UNTIL_ACKED still waits for a push that has not been acknowledged.
PushEntry_Skip(b) == IF ~mIsDirty THEN "return" ELSE
                     IF mExpecting # NULL THEN "waitPrior" ELSE "publish"
PushEntry_NoNullTest(b) == CASE mIsDirty -> IF mExpecting # NULL THEN "waitPrior" ELSE "publish"
                             [] ~mIsDirty -> IF b = BLOCK_UNTIL_ACKED THEN "waitAck" ELSE "return"
PushEntry(b) ==
  CASE mIsDirty /\ mExpecting # NULL -> "waitPrior"
    [] mIsDirty /\ mExpecting = NULL -> "publish"
    [] ~mIsDirty /\ b = BLOCK_UNTIL_ACKED /\ mExpecting # NULL -> "waitAck"
    [] OTHER -> "return"

\* push() up to its first shared access.
Push(b) ==
  /\ mpc = "idle"
  /\ block' = b
  /\ pushed' = TRUE
  /\ mpc' = PushEntry(b)
  /\ UNCHANGED <<mStates, mNext, observerVars, mMutating, mExpecting, mIsDirty,
                 mIsInitialized>>

\* The test that ends either wait for the observer.
Acked_Mutant == TRUE
Acked == mAck = mExpecting

\* The prior push has been acknowledged.
PriorAcked ==
  /\ mpc = "waitPrior"
  /\ Acked
  /\ mpc' = "publish"
  /\ UNCHANGED <<mStates, mNext, observerVars, mMutating, mExpecting, mIsDirty,
                 mIsInitialized, block, pushed>>

\* The prior push has not been acknowledged and the caller will not wait.
PriorNotAcked ==
  /\ mpc = "waitPrior"
  /\ ~Acked
  /\ block = BLOCK_NEVER
  /\ pushed' = FALSE
  /\ mpc' = "return"
  /\ UNCHANGED <<mStates, mNext, observerVars, mMutating, mExpecting, mIsDirty,
                 mIsInitialized, block>>

\* "copy with circular wraparound": the next slot in circular order.
NextSlot(s) == IF s + 1 >= kN THEN 0 ELSE s + 1

\* The release store of mNext, and the private bookkeeping after it.
Publish ==
  /\ mpc = "publish"
  /\ mNext' = mMutating
  /\ mExpecting' = mMutating
  /\ mMutating' = NextSlot(mMutating)
  /\ mpc' = "copy"
  /\ UNCHANGED <<mStates, observerVars, mIsDirty, mIsInitialized, block, pushed>>

\* *mMutating = *mExpecting has begun ...
CopyBegin ==
  /\ mpc = "copy"
  /\ mStates' = [mStates EXCEPT ![mMutating] = Torn]
  /\ mpc' = "copying"
  /\ UNCHANGED <<mNext, observerVars, mMutating, mExpecting, mIsDirty,
                 mIsInitialized, block, pushed>>

\* ... and ended.
CopyEnd ==
  /\ mpc = "copying"
  /\ mStates' = [mStates EXCEPT ![mMutating] = mStates[mExpecting]]
  /\ mIsDirty' = FALSE
  /\ mpc' = IF block = BLOCK_UNTIL_ACKED THEN "waitAck" ELSE "return"
  /\ UNCHANGED <<mNext, observerVars, mMutating, mExpecting, mIsInitialized,
                 block, pushed>>

PushAcked ==
  /\ mpc = "waitAck"
  /\ Acked
  /\ mExpecting' = NULL
  /\ mpc' = "return"
  /\ UNCHANGED <<mStates, mNext, observerVars, mMutating, mIsDirty,
                 mIsInitialized, block, pushed>>

Return ==
  /\ mpc = "return"
  /\ mpc' = "idle"
  /\ UNCHANGED <<mStates, mNext, observerVars, mMutating, mExpecting, mIsDirty,
                 mIsInitialized, block, pushed>>

PushStep ==
  \/ PriorAcked \/ PriorNotAcked \/ Publish \/ CopyBegin \/ CopyEnd
  \/ PushAcked \/ Return

Mutator ==
  \/ Begin \/ Modify \/ EndUnmodified
  \/ \E v \in Value : EndModified(v)
  \/ \E b \in block_t : Push(b)
  \/ PushStep
-----------------------------------------------------------------------------
Next == Observer \/ Mutator

Spec == Init /\ [][Next]_vars

(***************************************************************************)
(* The fast thread polls in an endless loop and push() loops until it      *)
(* returns; nothing makes the mutator start another mutation or push.      *)
(***************************************************************************)
Fairness == WF_vars(Observer) /\ WF_vars(PushStep)
FairSpec == Spec /\ Fairness
-----------------------------------------------------------------------------
(* Properties *)

\* The slots whose contents the observer may read at any moment: the states it
\* holds, and the one it finds, or has found, in mNext.
ObserverSlots == {mNext, mCurrent, mPrevious} \cup (IF opc = "ack" THEN {polled} ELSE {})

(***************************************************************************)
(* The slot the mutator edits and copies into is never one that the        *)
(* observer may read: the reason for kN = 4 and for waiting in push().     *)
(***************************************************************************)
MutatingIsPrivate == mMutating \notin ObserverSlots

(***************************************************************************)
(* What push() answers (StateQueue.h): false exactly if BLOCK_NEVER leaves *)
(* the state dirty; and after BLOCK_UNTIL_ACKED the observer has the last  *)
(* pushed state, even if this call had nothing to push.                    *)
(***************************************************************************)
PushReturn ==
  mpc = "return" =>
    /\ pushed <=> ~mIsDirty
    /\ ~pushed => block = BLOCK_NEVER
    /\ block = BLOCK_UNTIL_ACKED => mCurrent = mNext

\* A state that is visible to the observer, or will be once it is published, is
\* completely written: "first end() must modify for initialization".
NoTornState ==
  \A s \in (ObserverSlots \cup (IF mIsDirty /\ mpc \notin {"writing", "copy", "copying"}
                                THEN {mMutating} ELSE {})) \ {NULL} :
    mStates[s] # Torn

\* The circular order of the slots: each pointer is one behind the next.
Follows(t, s) == s = NULL \/ t = NextSlot(s)

(***************************************************************************)
(* "The states in chronological order are: previous, current, next, and    *)
(* mutating": consecutive slots, of which the last two or three may still  *)
(* coincide with NULL or with each other.                                  *)
(***************************************************************************)
Order ==
  /\ mNext = NULL => mMutating = 0 /\ mCurrent = NULL
  /\ Follows(mMutating, mNext)
  /\ mCurrent # mNext => Follows(mNext, mCurrent)
  /\ mCurrent = NULL => mPrevious = NULL
  /\ Follows(mCurrent, mPrevious)
  /\ mAck = mCurrent
  /\ opc = "ack" => polled = mNext /\ mNext # mCurrent

\* What the mutator knows of the observer, and of its own slot, at each point
\* of push().
Handshake ==
  /\ mExpecting \in {NULL, mNext}
  /\ mExpecting = NULL => mCurrent = mNext
  /\ mpc \in {"waitPrior", "publish"} => mIsDirty
  /\ mpc \in {"copy", "copying"} => mIsDirty /\ mExpecting = mNext /\ mNext # NULL
  /\ mpc = "publish" => mCurrent = mNext
  /\ mpc = "waitAck" => ~mIsDirty /\ block = BLOCK_UNTIL_ACKED
  /\ mpc \in {"waitPrior", "waitAck"} => mExpecting # NULL
  /\ InPush => pushed
  /\ mIsDirty \/ mNext # NULL => mIsInitialized

\* The inductive invariant.
IInv == TypeOK /\ Order /\ Handshake /\ NoTornState /\ PushReturn

Published == INSTANCE PublishedState WITH
  NoValue <- Torn,
  latest <- IF mNext = NULL THEN Torn ELSE mStates[mNext],
  current <- IF mCurrent = NULL THEN Torn ELSE mStates[mCurrent],
  previous <- IF mPrevious = NULL THEN Torn ELSE mStates[mPrevious],
  fresh <- mNext # mCurrent

(***************************************************************************)
(* The queue implements PublishedState: whatever the observer reads        *)
(* through its pointers are whole, unchanging snapshots, each taken over   *)
(* once and in the order of the pushes.                                    *)
(***************************************************************************)
Refinement == Published!Spec

(***************************************************************************)
(* Every pushed state is seen by the observer, none is skipped.            *)
(***************************************************************************)
EveryPushIsSeen == \A s \in Slot : mNext = s ~> mCurrent = s

(***************************************************************************)
(* push() returns, in whichever mode, as long as the observer polls.       *)
(***************************************************************************)
PushReturns == InPush ~> mpc = "return"
=============================================================================
