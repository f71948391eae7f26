--------------------------- MODULE MCOrderService ---------------------------
(* OrderService on a small instance. *)
EXTENDS OrderService

CONSTANTS r1, r2, r3, k1, k2

ThreeRequests == {r1, r2, r3}
TwoKeys == {k1, k2}
Clock == {1}
=============================================================================
