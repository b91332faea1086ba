------------------------------ MODULE MCPorts -------------------------------
(***************************************************************************)
(* Modules a and b feed one audio port of the mixer m, and a feeds b by    *)
(* audio and by two control voltages.  In the patch of the stereo owner a  *)
(* feeds the mixer by two audio ports, ao and av, ahead of b.              *)
(***************************************************************************)
EXTENDS Ports, TLC

CONSTANTS a, b, m, ao, bo, bi, mi, av, aw, bv

MCOwner == ao :> a @@ av :> a @@ aw :> a @@ bi :> b @@ bv :> b @@ bo :> b @@ mi :> m
MCLinks == {<<ao, mi>>, <<bo, mi>>, <<ao, bi>>, <<av, bv>>, <<aw, bv>>}

StereoOwner == ao :> a @@ av :> a @@ bo :> b @@ mi :> m
StereoLinks == {<<ao, mi>>, <<av, mi>>, <<bo, mi>>}
=============================================================================
