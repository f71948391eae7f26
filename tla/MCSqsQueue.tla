----------------------------- MODULE MCSqsQueue -----------------------------
(* SqsQueue on small instances: the .cfg files bind its constants.         *)
EXTENDS SqsQueue

CONSTANTS e1, e2, w1, w2

OneEvent == {e1}
TwoEvents == {e1, e2}
OneWorker == {w1}
TwoWorkers == {w1, w2}
OneTime == {1}

Crashes == {"crash"}
=============================================================================
