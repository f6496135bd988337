----------------------- MODULE MCCheckpointCleanup -----------------------
(* Two workers and two conversations.                               *)
EXTENDS CheckpointCleanup, TLC

CONSTANTS t1, t2, w1, w2

TwoThreads == {t1, t2}
TwoTurnsOrOne == [t \in TwoThreads |-> IF t = t1 THEN 2 ELSE 1]
TwoWorkers == {w1, w2}
WorkerSymmetry == Permutations(TwoWorkers)
=============================================================================
