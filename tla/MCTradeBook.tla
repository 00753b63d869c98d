---------------------------- MODULE MCTradeBook ----------------------------
(***************************************************************************)
(* TradeBook for TLC: one simulator, and ticks two units of time apart.    *)
(***************************************************************************)
EXTENDS TradeBook

CONSTANT sim

OneSimulator == {sim}

EverySecondTick == [m \in Messages |-> 2 * m]

AllAnomalies == ANOMALY_TYPES
GapsOnly == {"sequence_gap"}
=============================================================================
