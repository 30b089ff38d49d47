--------------------------- MODULE MCCheckQueue -----------------------------
(* Instances of CheckQueue.                                                *)
EXTENDS CheckQueue

CONSTANTS w1, w2, m1, m2

MCWorkers == {w1, w2}
MCMasters == {m1, m2}
MCFailing == {{2}, {1, 3, 4}}
=============================================================================
