--------------------------- MODULE MCOffloadThread ---------------------------
(* OffloadThread with one or two tracks, of two sessions, from just before the sequence *)
(* numbers wrap.                                                                   *)
EXTENDS OffloadThread, TLC

CONSTANTS t1, t2
MCTrack == {t1, t2}
MCSession == [t \in Track |-> t]
MCCalls == (Track :> 4) @@ ({t1} :> 7) @@ ({t2} :> 0)

MCInit == Init /\ mWriteAckSequence = Sequences - 2 /\ mDrainSequence = Sequences - 2
MCFairSpec == MCInit /\ [][Next]_vars /\ Fairness
=============================================================================
