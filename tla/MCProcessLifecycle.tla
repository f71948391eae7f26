------------------------- MODULE MCProcessLifecycle -------------------------
(* ProcessLifecycle on a small instance: two engines, although the process *)
(* is to make one.                                                         *)
EXTENDS ProcessLifecycle

CONSTANTS g1, g2

TwoEngines == {g1, g2}
=============================================================================
