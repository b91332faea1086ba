----------------------------- MODULE MCDspMaster -----------------------------
(***************************************************************************)
(* Instances of DspMaster for TLC: small patches.                          *)
(***************************************************************************)
EXTENDS DspMaster

\* Two modules feed a third, which feeds back into the second; one of the
\* connections may be faded out while the patch plays.
FanIn == {<<1, 3>>, <<2, 3>>, <<3, 2>>}
FanInRamp == {<<1, 3>>}

\* One module feeds two others, of which one is being disconnected.
FanOut == {<<1, 2>>, <<1, 3>>}
FanOutRamp == {<<1, 2>>}

\* Two modules in a row: no parallelism, so the period is run serially.
Chain == {<<1, 2>>}
===============================================================================
