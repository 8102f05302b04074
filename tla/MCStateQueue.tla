---------------------------- MODULE MCStateQueue ----------------------------
(* StateQueue with the four slots of the code and two states to tell apart. *)
EXTENDS StateQueue, TLC

CONSTANTS v1, v2

MCValue == {v1, v2}
=============================================================================
