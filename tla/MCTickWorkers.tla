--------------------------- MODULE MCTickWorkers ---------------------------
(***************************************************************************)
(* TickWorkers for TLC.  The workers are interchangeable; only the runs    *)
(* without liveness properties use that symmetry.                          *)
(***************************************************************************)
EXTENDS TickWorkers, TLC

CONSTANTS w1, w2, r1

TwoWorkers == {w1, w2}
WorkersAndRecoverer == {w1, w2, r1}
Recoverer == {r1}

WorkerSymmetry == Permutations(TwoWorkers)
=============================================================================
