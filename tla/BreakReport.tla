---------------------------- MODULE BreakReport ----------------------------
(***************************************************************************)
(* The simulator and the reconciler on the same tables: what the breaks of *)
(* a report (posttrade/report/report.py) have to do with the anomalies the *)
(* simulator planted, also when the report runs beside the simulator.      *)
(* After the breaks the report reads the ground truth and scores them.     *)
(***************************************************************************)
EXTENDS TradeBook

CONSTANTS
    MatchWindow,    \* tick_match_window (5 s)
    Starts, Until,  \* starts a report may have, and its end
    NoBreaks        \* value of the report before there is one

ASSUME ReportAssumption == MatchWindow \in Nat /\ Starts \cup {Until} \subseteq Int

(* minutes_forward (30) puts the end of a report behind every tick, and    *)
(* behind the fills moved minutes away from theirs (15).                   *)
ASSUME WindowAssumption == \A m \in Messages : TickTime[m] + Shift <= Until

VARIABLES
    step, start, fillsRead, ticksRead, breaks,  \* the reconciler
    truth,          \* ground_truth
    quiet           \* auxiliary: the simulator had ended when the report began

R == INSTANCE Reconciler

readerVars == <<step, start, fillsRead, ticksRead, breaks, truth, quiet>>
reportVars == <<vars, readerVars>>

ReportInit == Init /\ R!ReaderInit /\ truth = {} /\ quiet = FALSE

(* generate_break_report calls reconcile_symbol while the rest goes on; in *)
(* run_pipeline.sh after the workers have drained the stream ...           *)
Report ==
    /\ StoredFirst => stored = Messages
    /\ R!Reconcile
    /\ quiet' = IF step = "fills" THEN phase = "stopped" ELSE quiet
    /\ UNCHANGED <<vars, truth>>

(* ... and then reads the ground truth, all of it.                         *)
Score ==
    /\ step = "done"
    /\ truth' = GroundTruth
    /\ step' = "scored"
    /\ UNCHANGED <<vars, start, fillsRead, ticksRead, breaks, quiet>>

(* Nothing after the score matters to it. *)
ReportNext ==
    \/ step # "scored" /\ Next /\ UNCHANGED readerVars
    \/ Report \/ Score

ReportSpec == ReportInit /\ [][ReportNext]_reportVars

(* planted_ids, and the fills counted as fp and fn, of an anomaly type. *)
PlantedIds(type) == {a.fill : a \in {b \in truth : b.type = type}}
FalsePositives(type) == breaks[type] \ PlantedIds(type)
FalseNegatives(type) == PlantedIds(type) \ breaks[type]

-----------------------------------------------------------------------------
Reported == step \in {"done", "scored"}
Scored == step = "scored"
OneRun == runs <= 1

(* The query missed no fill that came before one it returned: the window   *)
(* starts early enough, also for the fills moved out of the session.       *)
NoneSkipped ==
    \A f \in fillsRead, g \in fills : g.sequence < f.sequence => g \in fillsRead

(* However the queries of the report interleave with the statements of one *)
(* simulator process, its drift breaks are exactly the planted drifts      *)
(* among the rows in its window, as long as the window cuts off no earlier *)
(* fill: no snapshot is compared with a partial sum.                       *)
DriftIsExact ==
    [][step = "positions" /\ step' = "done" /\ OneRun /\ NoneSkipped =>
        breaks'.position_drift =
            {p.fill : p \in {q \in positions : q.time >= start}}
                \cap DriftedRows \cap {f.id : f \in fillsRead}]_reportVars

(* "0 false positives": a report never calls a fill unmatched unless it    *)
(* was planted so or the ticks around it were deleted to plant a gap,      *)
(* provided the workers had drained the stream.  So it is in every window: *)
(* a fill at its edge has its tick inside.                                 *)
UnmatchedIsExplained ==
    Reported /\ StoredFirst /\ crashes = 0 =>
        \A f \in fills : f.id \in breaks.unmatched_fill =>
            f.type = "unmatched_fill" \/ InPlantedGap(f.tick)

(* Missing sequences lie in planted gaps, and the runs found never exceed  *)
(* the gaps planted: adjacent gaps merge, one gap never splits in two.     *)
GapsAreExplained ==
    Reported /\ StoredFirst /\ crashes = 0 =>
        /\ \A g \in breaks.sequence_gap : \A m \in (g[1] + 1) .. (g[2] - 1) : InPlantedGap(m)
        /\ Cardinality(breaks.sequence_gap)
            <= Cardinality(PlantedOf("sequence_gap")) + (IF gap = {} THEN 0 ELSE 1)

(* The window of the report covers the session. *)
SessionCovered == \A f \in fills : start <= f.time

(* The score of a report that races the simulator or follows its death: a  *)
(* drift logged before its row is written is never a false positive, and   *)
(* of the fills planted as unmatched, logged after the row, at most the    *)
(* one in hand is.                                                         *)
RaceCostsOneRow ==
    Scored /\ OneRun /\ SessionCovered =>
        /\ FalsePositives("position_drift") = {}
        /\ Cardinality(FalsePositives("unmatched_fill") \cap FillsOf("unmatched_fill")) <= 1

(* Away from every tick there ever was, which the shift does not look at. *)
FarFromTicks(f) ==
    \A m \in Messages : R!Distance(TickTime[m], f.time) > MatchWindow

(* "Perfect detection": when the simulator has ended by itself and the     *)
(* workers have drained the stream before, the report finds every planted  *)
(* drift, every planted fill that was moved away from the ticks, and every *)
(* gap with a tick before it in the window.                                *)
PlantedIsFound ==
    Scored /\ quiet /\ OneRun /\ StoredFirst /\ SessionCovered =>
        /\ FalseNegatives("position_drift") = {}
        /\ \A f \in fills : f.id \in FalseNegatives("unmatched_fill") => ~FarFromTicks(f)
        /\ \A a \in {b \in truth : b.type = "sequence_gap"} :
            (\E m \in R!TicksSeen : m < a.first) =>
                \E g \in breaks.sequence_gap : g[1] < a.first /\ a.last < g[2]

-----------------------------------------------------------------------------
(* What the sources say of the planted anomalies. *)

(* "sequence_gap: previously-stored tick rows are deleted for real, so the *)
(* reconciler's sequence scan has something genuine to find".              *)
PlantedGapIsFound ==
    AtRest /\ crashes = 0 =>
        \A a \in PlantedOf("sequence_gap") :
            \E g \in R!SequenceGaps(ticks) : g[1] < a.first /\ a.last < g[2]

(* "`sequence` is the true per-symbol execution order", so that the drift  *)
(* check has no false positives: over the runs of the simulator too.       *)
NoFalseDrift ==
    Scored /\ crashes = 0 /\ SessionCovered => FalsePositives("position_drift") = {}
=============================================================================
