------------------------ MODULE MCAudioTrackShared ------------------------
(* AudioTrackShared with a ring of two to four frames whose indices wrap.  *)
EXTENDS AudioTrackShared

AllTimeouts == {"ZERO", "INFINITE", "FINITE"}
Ordinary == [Mixer |-> "whole", Timeouts |-> AllTimeouts, MaxFlush |-> 0, May |-> {}]

\* The ring alone.
MCRing == {[Ordinary EXCEPT !.Mixer = "chunks"]}
\* Other threads, with a buffer kept; flushes, interrupts and the death of the server.
MCThreads ==
  {[Ordinary EXCEPT !.Mixer = "keeps", !.Timeouts = {"FINITE"},
                    !.May = {"invalidate", "setSyncEvent", "streamEnd"}],
   [Ordinary EXCEPT !.MaxFlush = 1, !.Timeouts = {"INFINITE"}, !.May = {"interrupt", "binderDied"}]}
\* For the deviations: each with what may happen to the track.
MCInvalidated == {[Ordinary EXCEPT !.May = {"invalidate"}]}
MCStreamEnd == {[Ordinary EXCEPT !.May = {"streamEnd"}]}
MCFramesReady == {[Ordinary EXCEPT !.May = {"setSyncEvent"}]}
MCFlushed == {[Ordinary EXCEPT !.MaxFlush = 1]}
MCFlushRace == {[Ordinary EXCEPT !.MaxFlush = 1, !.May = {"flushRace"}]}
MCKept == {[Ordinary EXCEPT !.MaxFlush = 1, !.Mixer = "keeps"]}

\* The indices start just before they wrap.
CONSTANT First
MCInit == Init /\ mFront = First
MCSpec == MCInit /\ [][Next /\ UNCHANGED scenario]_<<vars, scenario>>
MCFairSpec == MCSpec /\ Fairness
=============================================================================
