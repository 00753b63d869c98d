--------------------------- MODULE MCBreakReport ---------------------------
(***************************************************************************)
(* BreakReport for TLC: reports of the whole session or its later part.    *)
(***************************************************************************)
EXTENDS BreakReport, MCTradeBook

WholeSession == {-100}
WholeOrLater == {-100, 5}
=============================================================================
