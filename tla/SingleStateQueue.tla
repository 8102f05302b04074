-------------------------- MODULE SingleStateQueue --------------------------
(***************************************************************************)
(* SingleStateQueue<T> (media/libmedia/SingleStateQueue.cpp): a sequence   *)
(* lock by which one thread hands a value of several words to another, in  *)
(* another process, neither ever blocking.  The client of a static         *)
(* AudioTrack passes its loop to the mixer through one, the fast mixer its *)
(* timestamps to the normal mixer.                                         *)
(*                                                                         *)
(* One action is one access to shared memory.  A value is known by the     *)
(* sequence number of its push, which each of its words carries.           *)
(***************************************************************************)
EXTENDS Integers

CONSTANTS
  Word,       \* the words of T
  Modulus,    \* sequence numbers wrap here (2^32)
  MAX_TRIES,  \* 5 in the code
  MaxLag      \* bound on how far mSequence runs ahead of mAck

\* A wrapped sequence number is never taken for an older one (2^30 pushes).
Sizes ==
  /\ Modulus \in Nat /\ Modulus % 2 = 0
  /\ MaxLag \in Nat /\ 2 * MaxLag < Modulus
  /\ MAX_TRIES \in Nat \ {0}
ASSUME SizesAssumption == Sizes

Sequence == 0 .. Modulus - 1
Odd(s) == s % 2 = 1
Inc(s) == IF s + 1 = Modulus THEN 0 ELSE s + 1

\* How far a is ahead of b.
Ahead(a, b) == IF a >= b THEN a - b ELSE a - b + Modulus

VARIABLES
  \* SingleStateQueue::Shared
  mSequence, mValue, mAck,
  \* the mutator, whose own mSequence is the shared one
  toWrite,  \* the words push() has not stored yet
  \* the observer in poll()
  opc, before, tries, temp,
  toRead,   \* the words it has not loaded yet
  seen,     \* its mSequence
  value     \* what it returned last

mutatorVars == <<mValue, toWrite>>
observerVars == <<mAck, opc, before, tries, temp, toRead, seen, value>>
vars == <<mSequence, mutatorVars, observerVars>>

TypeOK ==
  /\ {mSequence, mAck, before, seen} \subseteq Sequence
  /\ mValue \in [Word -> Sequence] /\ temp \in [Word -> Sequence] /\ value \in [Word -> Sequence]
  /\ toWrite \subseteq Word /\ toRead \subseteq Word
  /\ opc \in {"idle", "reload", "read", "ack"}
  /\ tries \in 0 .. MAX_TRIES - 1

\* What mValue holds before the first push is never read.
Init ==
  /\ mSequence = 0 /\ mAck = 0
  /\ mValue = [w \in Word |-> 0] /\ toWrite = {}
  /\ opc = "idle" /\ before = 0 /\ tries = 0 /\ temp = mValue /\ toRead = {}
  /\ seen = 0 /\ value = mValue
-----------------------------------------------------------------------------
(* Mutator::push() *)

\* The acquire store of the odd number.
PushBegin ==
  /\ ~Odd(mSequence)
  /\ Ahead(mSequence, mAck) + 2 <= MaxLag
  /\ mSequence' = Inc(mSequence)
  /\ toWrite' = Word
  /\ UNCHANGED <<mValue, observerVars>>

WriteWord(w) ==
  /\ w \in toWrite
  /\ mValue' = [mValue EXCEPT ![w] = Inc(mSequence)]
  /\ toWrite' = toWrite \ {w}
  /\ UNCHANGED <<mSequence, observerVars>>

\* The release store of the even number.
PushEnd ==
  /\ Odd(mSequence) /\ toWrite = {}
  /\ mSequence' = Inc(mSequence)
  /\ UNCHANGED <<mutatorVars, observerVars>>

PushStep == PushEnd \/ \E w \in Word : WriteWord(w)
Mutator == PushBegin \/ PushStep
-----------------------------------------------------------------------------
(* Observer::poll() *)

\* The head of the loop: sequence number s has been loaded, after n failed tries.
\* An odd one costs a try; at MAX_TRIES poll() gives up.
Busy_Mutant(s) == FALSE
Busy_Inverted(s) == ~Odd(s)
Busy(s) == Odd(s)
Consider(s, n) ==
  LET failed == IF Busy(s) THEN n + 1 ELSE n
      done == failed >= MAX_TRIES
  IN /\ before' = s
     /\ tries' = IF done THEN 0 ELSE failed
     /\ opc' = CASE done -> "idle" [] ~done /\ Busy(s) -> "reload" [] OTHER -> "read"
     /\ toRead' = IF done \/ Busy(s) THEN {} ELSE Word

\* The first load; poll() returns at once when nothing has changed.
PollLoad ==
  /\ opc = "idle"
  /\ mSequence # seen
  /\ Consider(mSequence, 0)
  /\ UNCHANGED <<mSequence, mutatorVars, mAck, temp, seen, value>>

Reload ==
  /\ opc = "reload"
  /\ Consider(mSequence, tries)
  /\ UNCHANGED <<mSequence, mutatorVars, mAck, temp, seen, value>>

ReadWord(w) ==
  /\ w \in toRead
  /\ temp' = [temp EXCEPT ![w] = mValue[w]]
  /\ toRead' = toRead \ {w}
  /\ UNCHANGED <<mSequence, mutatorVars, mAck, opc, before, tries, seen, value>>

\* The load of after: poll() has its value if no push began meanwhile.
Unchanged == mSequence = before

LoadAfter ==
  /\ opc = "read" /\ toRead = {}
  /\ Unchanged
  /\ value' = temp /\ seen' = before
  /\ opc' = "ack" /\ tries' = 0
  /\ UNCHANGED <<mSequence, mutatorVars, mAck, before, temp, toRead>>

LoadAfterChanged ==
  /\ opc = "read" /\ toRead = {}
  /\ ~Unchanged
  /\ IF tries + 1 >= MAX_TRIES
     THEN opc' = "idle" /\ tries' = 0 /\ UNCHANGED <<before, toRead>>
     ELSE Consider(mSequence, tries + 1)
  /\ UNCHANGED <<mSequence, mutatorVars, mAck, temp, seen, value>>

\* The store of mAck, the last shared access of a poll() that returns true.
NewAck_Mutant == mSequence
NewAck == before

StoreAck ==
  /\ opc = "ack"
  /\ mAck' = NewAck
  /\ opc' = "idle"
  /\ UNCHANGED <<mSequence, mutatorVars, before, tries, temp, toRead, seen, value>>

Observer ==
  \/ PollLoad \/ Reload \/ LoadAfter \/ LoadAfterChanged \/ StoreAck
  \/ \E w \in Word : ReadWord(w)
-----------------------------------------------------------------------------
Next == Mutator \/ Observer

Spec == Init /\ [][Next]_vars

\* The observer polls in a loop and a push() that has begun ends; nothing makes
\* the mutator push again.
Fairness == WF_vars(Observer) /\ WF_vars(PushStep)
FairSpec == Spec /\ Fairness
-----------------------------------------------------------------------------
(* Properties *)

\* The number of the last push that has ended.
lastPush == IF Odd(mSequence) THEN mSequence - 1 ELSE mSequence

Latest == INSTANCE LatestValue WITH
  Value <- [Word -> Sequence],
  latest <- [w \in Word |-> lastPush],
  taken <- value,
  fresh <- lastPush # seen

(***************************************************************************)
(* A "multi-word atomic load / store": poll() returns the value of the     *)
(* last push that has ended, whole, and none twice.                        *)
(***************************************************************************)
Refinement == Latest!Spec

(***************************************************************************)
(* ack(sequence): "return true if a push with specified sequence number or *)
(* later has been observed", for the numbers within MaxLag of the latest:  *)
(* only what poll() has returned is acknowledged, a wrap in between or not.*)
(***************************************************************************)
ack(sequence) == Ahead(mAck, sequence) < Modulus \div 2
AckIsTrue ==
  \A s \in Sequence :
    Ahead(mSequence, s) <= MaxLag /\ ack(s) => Ahead(seen, s) <= MaxLag

(***************************************************************************)
(* Once the mutator rests, the observer takes its last push, and ack()     *)
(* tells: a poll() that gave up is made good by a later one.               *)
(***************************************************************************)
LastPushIsSeen == <>[](toWrite = {} /\ ~Odd(mSequence)) => <>[](mAck = mSequence)

\* Everything the observer knows lies between mAck and mSequence.
Lag ==
  /\ ~Odd(mAck) /\ ~Odd(seen)
  /\ Ahead(mSequence, mAck) + (IF Odd(mSequence) THEN 1 ELSE 0) <= MaxLag
  /\ Ahead(seen, mAck) <= Ahead(mSequence, mAck)
  /\ opc # "ack" => mAck = seen
  /\ opc = "ack" => before = seen

\* mValue is the last push, or that of the push() going on as far as it is written.
Written ==
  /\ ~Odd(mSequence) => toWrite = {}
  /\ \A w \in Word \ toWrite : mValue[w] = IF Odd(mSequence) THEN Inc(mSequence) ELSE mSequence

\* What poll() has loaded is whole as long as no push has begun since.
Loaded ==
  /\ value = [w \in Word |-> seen]
  /\ opc \in {"reload", "read"} => mSequence # seen
  /\ toRead # {} => opc = "read"
  /\ opc = "read" => /\ ~Odd(before) /\ before # seen
                     /\ Ahead(before, mAck) <= Ahead(mSequence, mAck)
                     /\ mSequence = before => \A w \in Word \ toRead : temp[w] = before

\* The inductive invariant.
IInv == TypeOK /\ Lag /\ Written /\ Loaded
=============================================================================
