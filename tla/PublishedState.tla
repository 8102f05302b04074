--------------------------- MODULE PublishedState ---------------------------
(***************************************************************************)
(* What StateQueue<T> promises, with no slots, pointers or pushing         *)
(* protocol: a mutator edits a private working state and publishes         *)
(* snapshots of it one at a time, and an observer takes over each          *)
(* published snapshot exactly once, keeping the one it had before so that  *)
(* it can compare the two (services/audioflinger/StateQueue.h).            *)
(***************************************************************************)

CONSTANTS
  Value,    \* the states that a mutation can produce
  NoValue   \* "no state yet": what poll() returning NULL means

VARIABLES
  latest,   \* the last published snapshot
  current,  \* the snapshot the observer works from
  previous, \* the snapshot the observer had before
  fresh     \* TRUE while latest has not been taken over by the observer

vars == <<latest, current, previous, fresh>>

TypeOK ==
  /\ latest \in Value \cup {NoValue}
  /\ current \in Value \cup {NoValue}
  /\ previous \in Value \cup {NoValue}
  /\ fresh \in BOOLEAN

Init ==
  /\ latest = NoValue
  /\ current = NoValue
  /\ previous = NoValue
  /\ fresh = FALSE

\* A snapshot is only replaced after the observer has taken it over, so the
\* observer sees every published snapshot, in order.
Publish ==
  /\ ~fresh
  /\ latest' \in Value
  /\ fresh' = TRUE
  /\ UNCHANGED <<current, previous>>

Observe ==
  /\ fresh
  /\ previous' = current
  /\ current' = latest
  /\ fresh' = FALSE
  /\ UNCHANGED latest

Next == Publish \/ Observe

Spec == Init /\ [][Next]_vars
=============================================================================
