---------------------------- MODULE MCFastMixer ----------------------------
(* FastMixer with two fast tracks contending for a slot. *)
EXTENDS FastMixer, TLC

CONSTANTS t1, t2

MCTrack == {t1, t2}

\* All that the code may do, and an ordinary output.
MCScenarios == {[Prompt |-> FALSE, MaySuspend |-> TRUE], [Prompt |-> TRUE, MaySuspend |-> FALSE]}
MCSuspended == {[Prompt |-> TRUE, MaySuspend |-> TRUE]}
MCDelayed == {[Prompt |-> FALSE, MaySuspend |-> FALSE]}
=============================================================================
