--------------------------- MODULE MCOutboxWorker ---------------------------
(* OutboxWorker on small instances. *)
EXTENDS OutboxWorker, TLC

CONSTANTS e1, e2, e3, w1, w2

TwoEvents == {e1, e2}
ThreeEvents == {e1, e2, e3}
OneWorker == {w1}
TwoWorkers == {w1, w2}
OneTime == {1}
TwoTimes == {1, 2}

NoFaults == {}
DatabaseFaults == {"database"}
CrashesAndDatabaseFaults == {"crash", "database"}
AllFaults == {"crash", "connection", "database"}

\* Events are interchangeable, and so are workers.
Symmetry == Permutations(ThreeEvents) \cup Permutations(TwoWorkers)
=============================================================================
