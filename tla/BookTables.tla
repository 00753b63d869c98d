---------------------------- MODULE BookTables ----------------------------
(***************************************************************************)
(* The tables the simulator, the reconciler and the report share: ticks    *)
(* (posttrade/storage/timeseries_store.py) and fills, positions and        *)
(* planted_anomalies (posttrade/storage/book_store.py).  One symbol; every *)
(* operation is one statement on an autocommit connection, so one step.    *)
(***************************************************************************)
EXTENDS Integers, FiniteSets

CONSTANT TickTime   \* exchange_timestamp of each tick, as a number

VARIABLES ticks, fills, positions, planted

tableVars == <<ticks, fills, positions, planted>>

TablesInit == ticks = {} /\ fills = {} /\ positions = {} /\ planted = {}

Within(t, a, b) == a <= t /\ t <= b

(* write_fill: ON CONFLICT (fill_id) DO NOTHING. *)
InsertFill(f) ==
    fills' = IF \E g \in fills : g.id = f.id THEN fills ELSE fills \cup {f}

(* write_position, log_planted_anomaly: tables without a key of the rows'  *)
(* own; no two rows the simulator writes are alike.                        *)
InsertPosition(p) == positions' = positions \cup {p}
InsertAnomaly(a) == planted' = planted \cup {a}

ReturnedAsked(S) == S   \* a faulty variant of the next, to test the properties against

(* delete_sequences; RETURNING names the rows that were there. *)
Returned(S) == ticks \cap S
DeleteSequences(S) == ticks' = ticks \ S

(* read_fills_df, read_ticks_df, read_positions_df: time BETWEEN a AND b. *)
FillsBetween(a, b) == {f \in fills : Within(f.time, a, b)}
TicksBetween(a, b) == {m \in ticks : Within(TickTime[m], a, b)}
PositionsBetween(a, b) == {p \in positions : Within(p.time, a, b)}

(* read_planted_anomalies_df: the whole table, whatever its rows' times. *)
GroundTruth == planted
=============================================================================
