----------------------------- MODULE MCMonoPipe -----------------------------
(* MonoPipe with positions and sequence numbers that wrap. *)
EXTENDS MonoPipe, TLC

CONSTANTS pts1, pts2

\* The positions start just before they wrap.
MCInit == Init /\ mFront = Modulus - 1 /\ mUpdateSeq.number = SeqModulus - 1
MCSpec == MCInit /\ [][Next]_vars
=============================================================================
