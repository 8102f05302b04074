------------------------ MODULE MCSingleStateQueue ------------------------
(* SingleStateQueue with a value of two words. *)
EXTENDS SingleStateQueue

CONSTANTS w1, w2
MCWord == {w1, w2}
=============================================================================
