---------------------------- MODULE MCLoadRamp ----------------------------
(* LoadRamp for TLC: two publishers and two workers. *)
EXTENDS LoadRamp, MCTickWorkers

CONSTANTS p1, p2

TwoPublishers == {p1, p2}
=============================================================================
