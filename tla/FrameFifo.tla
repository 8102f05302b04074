----------------------------- MODULE FrameFifo -----------------------------
(***************************************************************************)
(* What a streaming control block promises, and a MonoPipe: frames leave   *)
(* in the order in which they entered, none twice, and never more than     *)
(* Capacity wait.  A flush takes frames out without playing them.          *)
(***************************************************************************)
EXTENDS Integers, SequencesExt

CONSTANTS Frame, Capacity

VARIABLE frames  \* written and neither taken nor flushed yet, oldest first

Init == frames = <<>>

\* The client releases a buffer it has filled; write() stores mRear.
Enter == IsPrefix(frames, frames') /\ Len(frames') <= Capacity

\* The server releases a buffer it has played, or discards flushed frames; read()
\* stores mFront.
Leave == IsSuffix(frames', frames)

Spec == Init /\ [][Enter \/ Leave]_frames
=============================================================================
