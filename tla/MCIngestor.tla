----------------------------- MODULE MCIngestor -----------------------------
(* Ingestor for TLC: a feed that crosses one full hour. *)
EXTENDS Ingestor

TwoHours == 1 .. 2
=============================================================================
