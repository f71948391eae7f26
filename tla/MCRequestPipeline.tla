-------------------------- MODULE MCRequestPipeline --------------------------
(* RequestPipeline on small instances. *)
EXTENDS RequestPipeline, TLC

CONSTANTS r1, r2, k1, c1

TwoRequests == {r1, r2}
OneKey == {k1}
OneClientId == {c1}
Clock == {1}

Symmetry == Permutations(TwoRequests)
=============================================================================
