------------------------- MODULE MCStaticAudioTrack -------------------------
(* StaticAudioTrack of either kind, and for the deviations. *)
EXTENDS StaticAudioTrack

MCScenarios == {[kind |-> "normal", May |-> {}], [kind |-> "fast", May |-> {"setSyncEvent"}]}
MCResampled == {[kind |-> "normal", May |-> {"keeps"}]}
MCSyncEvent == {[kind |-> "normal", May |-> {"setSyncEvent"}]}
=============================================================================
