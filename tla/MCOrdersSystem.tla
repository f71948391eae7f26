--------------------------- MODULE MCOrdersSystem ---------------------------
(* OrdersSystem on small instances. *)
EXTENDS OrdersSystem, TLC

CONSTANTS r1, r2, k1, k2, w1, w2

TwoRequests == {r1, r2}
OneKey == {k1}
TwoKeys == {k1, k2}
OneWorker == {w1}
TwoWorkers == {w1, w2}
Clock == {1}

Crashes == {"crash"}
CrashesAndDatabaseFaults == {"crash", "database"}

\* Requests are interchangeable, and so are keys and workers.
Symmetry ==
    Permutations(TwoRequests) \cup Permutations(TwoKeys)
        \cup Permutations(TwoWorkers)
=============================================================================
