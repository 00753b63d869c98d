----------------------------- MODULE Reconciler -----------------------------
(***************************************************************************)
(* Reconciler.reconcile_symbol (posttrade/reconcile/reconciler.py): three  *)
(* queries, one after the other and each on its own, and the three kinds   *)
(* of breaks computed from what they returned.  Whoever writes the tables  *)
(* may write between two of the queries.                                   *)
(***************************************************************************)
EXTENDS BookTables, FiniteSetsExt

CONSTANTS
    MatchWindow,    \* tick_match_window (5 s)
    Starts, Until,  \* the starts a caller may give, and the end
    NoBreaks        \* value of the report before there is one

VARIABLES
    step,                       \* the query that comes next
    start,                      \* start
    fillsRead, ticksRead,       \* fills_df and ticks_df
    breaks                      \* the result: breaks by type

Distance(a, b) == IF a < b THEN b - a ELSE a - b

-----------------------------------------------------------------------------
(* Faulty variants of definitions below, to test the properties against;   *)
(* the first is the bug that test_position_drift_sorts_by_sequence_not_    *)
(* corrupted_timestamp keeps out.                                          *)
UpToByTime(f, g) == f.time < g.time \/ (f.time = g.time /\ f.sequence <= g.sequence)
GapsOfNeighbours(T) ==
    {g \in T \X T : g[2] - g[1] >= 1 /\ \A m \in T : ~(g[1] < m /\ m < g[2])}

TicksSeenUnwidened == TicksBetween(start, Until)
GapsOfSeveral(T) ==
    {g \in T \X T : g[2] - g[1] > 2 /\ \A m \in T : ~(g[1] < m /\ m < g[2])}

(* _find_unmatched_fills: the fills without a tick inside the window; all  *)
(* of them when there is no tick at all.                                   *)
UnmatchedFills(F, T) ==
    {f.id : f \in {g \in F :
        \A m \in T : Distance(TickTime[m], g.time) > MatchWindow}}

(* Order of the rows after ORDER BY time and sort_values("sequence"), which *)
(* is stable for the sizes that matter (insertion sort below 17 rows).      *)
UpTo(f, g) ==
    \/ f.sequence < g.sequence
    \/ f.sequence = g.sequence /\ f.time < g.time
    \/ f.sequence = g.sequence /\ f.time = g.time /\ f.id[1] <= g.id[1]

(* expected_position: the cumulative sum at a fill, from the first row the *)
(* query returned.                                                         *)
ExpectedPosition(F, g) ==
    LET quantity(f) == f.quantity
    IN  MapThenSumSet(quantity, {f \in F : UpTo(f, g)})

(* _find_position_drift: a snapshot whose fill was not read is skipped. *)
PositionDrift(F, P) ==
    {g.id : g \in {f \in F : \E p \in P :
        p.fill = f.id /\ p.quantity # ExpectedPosition(F, f)}}

(* _find_sequence_gaps: neighbours <<prev, curr>> in the sorted sequences  *)
(* that are not consecutive.                                               *)
SequenceGaps(T) ==
    {g \in T \X T :
        /\ g[2] - g[1] > 1
        /\ \A m \in T : ~(g[1] < m /\ m < g[2])}

-----------------------------------------------------------------------------
ReaderInit ==
    /\ step = "fills"
    /\ start = Until
    /\ fillsRead = {} /\ ticksRead = {}
    /\ breaks = NoBreaks

(* The call, and read_fills_df with the window widened on both sides. *)
ReadFills ==
    /\ step = "fills"
    /\ start' \in Starts
    /\ fillsRead' = FillsBetween(start' - MatchWindow, Until + MatchWindow)
    /\ step' = "ticks"
    /\ UNCHANGED <<ticksRead, breaks>>

(* read_ticks_df with the same window. *)
TicksSeen == TicksBetween(start - MatchWindow, Until + MatchWindow)

ReadTicks ==
    /\ step = "ticks"
    /\ ticksRead' = TicksSeen
    /\ step' = "positions"
    /\ UNCHANGED <<start, fillsRead, breaks>>

(* read_positions_df with the window as given, and the three checks. *)
ReadPositions ==
    /\ step = "positions"
    /\ LET read == PositionsBetween(start, Until)
       IN  breaks' = [unmatched_fill |-> UnmatchedFills(fillsRead, ticksRead),
                      position_drift |-> PositionDrift(fillsRead, read),
                      sequence_gap |-> SequenceGaps(ticksRead)]
    /\ step' = "done"
    /\ fillsRead' = {} /\ ticksRead' = {}
    /\ UNCHANGED start

Reconcile == ReadFills \/ ReadTicks \/ ReadPositions
=============================================================================
