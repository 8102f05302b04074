---------------------------- MODULE LatestValue ----------------------------
(***************************************************************************)
(* What SingleStateQueue promises: an atomic load and store of one value   *)
(* of many words between a single writer and a single reader.  The reader  *)
(* may miss values, never takes one twice, and takes the latest there is.  *)
(***************************************************************************)
CONSTANT Value

VARIABLES
  latest,  \* the value pushed last
  taken,   \* the value the reader took last
  fresh    \* latest has not been taken

Init == latest \in Value /\ taken = latest /\ fresh = FALSE

Push ==
  /\ latest' \in Value
  /\ fresh' = TRUE
  /\ UNCHANGED taken

Take ==
  /\ fresh
  /\ taken' = latest
  /\ fresh' = FALSE
  /\ UNCHANGED latest

Next == Push \/ Take

Spec == Init /\ [][Next]_<<latest, taken, fresh>>
=============================================================================
