---------------------------- MODULE MCMessageLoops ----------------------------
(* MessageLoops with one looper that can be started twice, or with two loopers; any thread *)
(* may await any handler, its own looper's among them.                                   *)
EXTENDS MessageLoops, TLC

CONSTANTS l1, l2, h1, h2, c1, c2, t1, u1, t2
MCLooperOf == (h1 :> l1) @@ (h2 :> l2)
MCThreadOf == (t1 :> l1) @@ (u1 :> l1) @@ (t2 :> l2)
MCAwaits == Thread \X Handler
MCScenarios ==
  {[handlers |-> {h1}, threads |-> {c1, c2, t1}, messages |-> 3, now |-> 0],
   [handlers |-> {h1}, threads |-> {c1, c2, t1, u1}, messages |-> 2, now |-> 0],
   [handlers |-> {h1, h2}, threads |-> {c1, t1, t2}, messages |-> 3, now |-> 1]}
=============================================================================
