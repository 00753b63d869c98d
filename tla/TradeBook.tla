----------------------------- MODULE TradeBook -----------------------------
(***************************************************************************)
(* The trade book simulator (posttrade/simulate/trade_book_simulator.py):  *)
(* it reads the tick stream through a consumer group of its own, sometimes *)
(* trades on a tick, and writes fills, positions and the ground truth of   *)
(* the anomalies it plants (posttrade/storage/book_store.py).              *)
(*                                                                         *)
(* One symbol: every table row and every dictionary of the simulator is    *)
(* per symbol.  Each statement sent to Redis or to the database is a step, *)
(* so the simulator can die between any two of them.  Decimal quantities   *)
(* are integers; prices appear only through the side they decide.          *)
(***************************************************************************)
EXTENDS ConsumerGroup, BookTables, FiniteSetsExt

CONSTANTS
    Sim,            \* consumer name of the simulator
    ReadCount,      \* count of consumer.read (20)
    Quantities,     \* magnitudes of a fill
    Drifts,         \* magnitudes of a position drift
    Shift,          \* minutes an unmatched fill is moved by (15), in ticks of time
    MinRecent,      \* tracked sequences needed to plant a gap (6)
    MaxGap,         \* longest gap (3)
    RecentLimit,    \* tracked sequences kept (50)
    None,           \* Python's None
    MaxFills,       \* max_fills, or None
    MaxIdleReads,   \* max_idle_reads, or None
    Anomalies,      \* the anomaly types the run may draw, of ANOMALY_TYPES
    StoredFirst,    \* TRUE: run_pipeline.sh, workers have drained the stream before
    MaxTrades,      \* bound: fills ever generated
    MaxCrashes,     \* bound: simulators that die
    MaxRuns         \* bound: simulators started

ANOMALY_TYPES == {"unmatched_fill", "position_drift", "sequence_gap"}

ASSUME TradeBookAssumption ==
    /\ Consumers = {Sim}
    /\ TickTime \in [Messages -> Int]
    /\ {ReadCount, MinRecent, MaxGap, RecentLimit} \subseteq Nat \ {0}
    /\ MaxGap < MinRecent
    /\ Quantities \cup Drifts \subseteq Nat \ {0}
    /\ Shift \in Nat \ {0}
    /\ {MaxFills, MaxIdleReads} \subseteq (Nat \ {0}) \cup {None}
    /\ Anomalies \subseteq ANOMALY_TYPES
    /\ StoredFirst \in BOOLEAN
    /\ {MaxTrades, MaxCrashes, MaxRuns} \subseteq Nat

VARIABLES
    stored,         \* ticks the workers have ever copied to the ticks table
    phase,          \* what the simulator does next
    todo,           \* rest of the batch it read
    fill,           \* the fill it is working on
    gap,            \* the sequences it has just deleted
    truePosition,   \* _true_position
    nextSequence,   \* _fill_sequences
    recent,         \* _recent_sequences
    emitted,        \* fills_emitted
    idle,           \* idle, local of run
    runs,           \* simulators started so far
    crashes         \* simulators that died so far

groupVars == <<published, cursor, owner>>
localVars == <<todo, fill, gap, truePosition, nextSequence, recent, emitted, idle>>
vars == <<groupVars, stored, tableVars, phase, localVars, runs, crashes>>

Busy == {"read", "next", "fill", "log", "position", "delete", "logGap"}
Types == ANOMALY_TYPES \cup {None}

(* A fill row; `tick' is auxiliary, the message the fill reacted to.  The  *)
(* uuid is the pair of the process and its fill sequence.                  *)
FillRow == [id : Nat \X Nat, tick : Messages, sequence : Nat, quantity : Int,
            time : Int, type : Types]

TypeOK ==
    /\ GroupTypeOK
    /\ ticks \subseteq stored /\ stored \subseteq Messages
    /\ fills \subseteq FillRow
    /\ positions \subseteq [fill : Nat \X Nat, quantity : Int, time : Int]
    /\ planted \subseteq [type : ANOMALY_TYPES, fill : (Nat \X Nat) \cup {None},
                          first : Messages \cup {None}, last : Messages \cup {None}]
    /\ phase \in Busy \cup {"down", "stopped", "crashed"}
    /\ todo \subseteq Messages /\ gap \subseteq Messages /\ recent \subseteq Messages
    /\ fill \in FillRow \cup {None}
    /\ truePosition \in Int
    /\ {nextSequence, emitted, idle, runs, crashes} \subseteq Nat

Init ==
    /\ GroupInit
    /\ TablesInit
    /\ stored = {}
    /\ phase = "down"
    /\ todo = {} /\ gap = {} /\ recent = {} /\ fill = None
    /\ truePosition = 0 /\ nextSequence = 1 /\ emitted = 0 /\ idle = 0
    /\ runs = 0 /\ crashes = 0

-----------------------------------------------------------------------------
(* The rest of the pipeline: the ingestor publishes, a worker copies a     *)
(* tick to the table (each tick once, as TickDelivery promises).           *)
Publish ==
    /\ XAdd(1)
    /\ UNCHANGED <<cursor, owner, stored, tableVars, phase, localVars, runs, crashes>>

Persist ==
    /\ \E m \in (1 .. published) \ stored :
        /\ stored' = stored \cup {m}
        /\ ticks' = ticks \cup {m}
    /\ UNCHANGED <<groupVars, fills, positions, planted, phase, localVars, runs, crashes>>

-----------------------------------------------------------------------------
(* __init__: a new process knows nothing of the book written before it. *)
Start ==
    /\ phase \in {"down", "stopped", "crashed"}
    /\ runs < MaxRuns
    /\ StoredFirst => stored = Messages
    /\ CreateGroup
    /\ phase' = "read"
    /\ todo' = {} /\ gap' = {} /\ recent' = {} /\ fill' = None
    /\ truePosition' = 0 /\ nextSequence' = 1 /\ emitted' = 0 /\ idle' = 0
    /\ runs' = runs + 1
    /\ UNCHANGED <<published, owner, stored, tableVars, crashes>>

Read ==
    /\ phase = "read"
    /\ ReadGroup(Sim, ReadCount)
    /\ todo' = Fresh(ReadCount)
    /\ idle' = 0
    /\ phase' = "next"
    /\ UNCHANGED <<published, stored, tableVars, fill, gap, truePosition,
                   nextSequence, recent, emitted, runs, crashes>>

(* An idle read; without a limit the count does not matter. *)
ReadNothing ==
    /\ phase = "read"
    /\ ReadNone
    /\ idle' = IF MaxIdleReads = None THEN idle ELSE idle + 1
    /\ phase' = IF MaxIdleReads # None /\ idle + 1 >= MaxIdleReads THEN "stopped" ELSE "read"
    /\ UNCHANGED <<groupVars, stored, tableVars, todo, fill, gap, truePosition,
                   nextSequence, recent, emitted, runs, crashes>>

(* The top of the loop over the messages of a batch. *)
AfterMessage(rest) == IF rest = {} THEN "read" ELSE "next"

(* _track_sequence: the last RecentLimit sequences. *)
Tracked(m) ==
    {k \in recent \cup {m} : Cardinality({j \in recent \cup {m} : j > k}) < RecentLimit}

(* A shifted timestamp for an unmatched fill, the tick's own otherwise. *)
FillTimes(m, type) ==
    IF type = "unmatched_fill" THEN {TickTime[m] - Shift, TickTime[m] + Shift}
                               ELSE {TickTime[m]}

(* The momentum side: the first tick a process trades on is a BUY. *)
Signs == IF nextSequence = 1 THEN {1} ELSE {1, -1}

(* The message is acknowledged before anything is done with it. *)
Acknowledge(m) ==
    /\ phase = "next"
    /\ m = Min(todo)
    /\ XAck({m})
    /\ todo' = todo \ {m}
    /\ recent' = Tracked(m)
    /\ UNCHANGED <<published, cursor, stored, tableVars, gap, truePosition,
                   emitted, idle, runs, crashes>>

(* The strategy does not trade on this tick. *)
Skip(m) ==
    /\ Acknowledge(m)
    /\ phase' = AfterMessage(todo')
    /\ fill' = None
    /\ UNCHANGED nextSequence

(* It does: _generate_fill up to the first statement it sends. *)
Trade(m) ==
    /\ Acknowledge(m)
    /\ Cardinality(fills) < MaxTrades
    /\ \E type \in Anomalies \cup {None}, sign \in Signs, q \in Quantities :
        \E time \in FillTimes(m, type) :
            fill' = [id |-> <<runs, nextSequence>>, tick |-> m, sequence |-> nextSequence,
                     quantity |-> sign * q, time |-> time, type |-> type]
    /\ nextSequence' = nextSequence + 1
    /\ phase' = "fill"

(* Faulty variants of definitions below, to test the properties against. *)
DoneAtBatchEnd ==
    IF MaxFills # None /\ emitted >= MaxFills /\ todo = {} THEN "stopped" ELSE AfterMessage(todo)

LoggedDrift == {"position_drift"}
LoggedUnmatched == {"unmatched_fill"}

(* After the work on a message: max_fills returns with the batch unread. *)
Done ==
    IF MaxFills # None /\ emitted >= MaxFills THEN "stopped" ELSE AfterMessage(todo)

(* The anomalies whose ground truth names the fill. *)
Logged == {"unmatched_fill", "position_drift"}

(* write_fill, _apply_fill. *)
WriteFill ==
    /\ phase = "fill"
    /\ InsertFill(fill)
    /\ truePosition' = truePosition + fill.quantity
    /\ emitted' = emitted + 1
    /\ phase' = IF fill.type \in Logged THEN "log" ELSE "position"
    /\ UNCHANGED <<groupVars, stored, ticks, positions, planted, todo, fill, gap,
                   nextSequence, recent, idle, runs, crashes>>

(* log_planted_anomaly of an unmatched fill, which gets no position row,   *)
(* or of a drift, whose position row comes next.                           *)
LogAnomaly ==
    /\ phase = "log"
    /\ InsertAnomaly([type |-> fill.type, fill |-> fill.id, first |-> None, last |-> None])
    /\ phase' = IF fill.type = "position_drift" THEN "position" ELSE Done
    /\ UNCHANGED <<groupVars, stored, ticks, fills, positions, todo, fill, gap,
                   truePosition, nextSequence, recent, emitted, idle, runs, crashes>>

(* _write_position, with quantity_override for a drift; the simulator's    *)
(* own position stays the true one.                                        *)
RecordedQuantities ==
    IF fill.type = "position_drift"
    THEN {truePosition + d : d \in Drifts} \cup {truePosition - d : d \in Drifts}
    ELSE {truePosition}

WritePosition ==
    /\ phase = "position"
    /\ \E q \in RecordedQuantities :
        InsertPosition([fill |-> fill.id, quantity |-> q, time |-> TickTime[fill.tick]])
    /\ phase' = IF fill.type = "sequence_gap" THEN "delete" ELSE Done
    /\ UNCHANGED <<groupVars, stored, ticks, fills, planted, todo, fill, gap,
                   truePosition, nextSequence, recent, emitted, idle, runs, crashes>>

(* The runs of tracked sequences _plant_sequence_gap can pick: at most     *)
(* MaxGap of them, neighbours in the list, never reaching the last one.    *)
IndexOf(k) == Cardinality({j \in recent : j < k})
GapChoices ==
    {{k \in recent : start <= IndexOf(k) /\ IndexOf(k) < start + size} :
        start \in 0 .. (Cardinality(recent) - MaxGap - 1), size \in 1 .. MaxGap}

(* _plant_sequence_gap up to the deletion, which may find nothing. *)
DeleteTicks ==
    /\ phase = "delete"
    /\ IF Cardinality(recent) < MinRecent
       THEN /\ phase' = Done
            /\ UNCHANGED <<ticks, gap>>
       ELSE \E chosen \in GapChoices :
            /\ DeleteSequences(chosen)
            /\ gap' = Returned(chosen)
            /\ phase' = IF gap' = {} THEN Done ELSE "logGap"
    /\ UNCHANGED <<groupVars, stored, fills, positions, planted, todo, fill,
                   truePosition, nextSequence, recent, emitted, idle, runs, crashes>>

LogGap ==
    /\ phase = "logGap"
    /\ InsertAnomaly([type |-> "sequence_gap", fill |-> None,
                      first |-> Min(gap), last |-> Max(gap)])
    /\ phase' = Done
    /\ gap' = {}
    /\ UNCHANGED <<groupVars, stored, ticks, fills, positions, todo, fill,
                   truePosition, nextSequence, recent, emitted, idle, runs, crashes>>

(* The process dies or a statement raises; run has no handler.  What it    *)
(* had in memory is gone.                                                  *)
Crash ==
    /\ phase \in Busy
    /\ crashes < MaxCrashes
    /\ crashes' = crashes + 1
    /\ phase' = "crashed"
    /\ todo' = {} /\ gap' = {} /\ recent' = {} /\ fill' = None
    /\ UNCHANGED <<groupVars, stored, tableVars, truePosition, nextSequence,
                   emitted, idle, runs>>

SimulatorStep ==
    \/ Start \/ Read \/ ReadNothing
    \/ \E m \in todo : Skip(m) \/ Trade(m)
    \/ WriteFill \/ LogAnomaly \/ WritePosition \/ DeleteTicks \/ LogGap
    \/ Crash

Next == Publish \/ Persist \/ SimulatorStep

Spec == Init /\ [][Next]_vars

-----------------------------------------------------------------------------
(* The simulator is between two messages, or gone without having died. *)
AtRest == phase \in {"down", "read", "next", "stopped"}
PlantedOf(type) == {a \in planted : a.type = type}
FillsOf(type) == {f.id : f \in {g \in fills : g.type = type}}
DriftedRows == {p.fill : p \in {q \in positions : q.fill \in FillsOf("position_drift")}}

(* Logged as deleted, or deleted and about to be logged. *)
InPlantedGap(m) ==
    \/ \E a \in PlantedOf("sequence_gap") : a.first <= m /\ m <= a.last
    \/ m \in gap

(* The ground truth is complete whenever the simulator is between two      *)
(* messages: one row per planted fill, one range around each deletion, and *)
(* no range that ends with a tick which is still there.                    *)
GroundTruthIsComplete ==
    AtRest /\ crashes = 0 =>
        /\ \A type \in {"unmatched_fill", "position_drift"} :
            {a.fill : a \in PlantedOf(type)} = FillsOf(type)
        /\ DriftedRows = FillsOf("position_drift")
        /\ \A m \in stored \ ticks : InPlantedGap(m)
        /\ \A a \in PlantedOf("sequence_gap") : {a.first, a.last} \subseteq stored \ ticks

(* A crash costs the ground truth at most the anomaly in hand. *)
Unlogged ==
    {f \in fills : f.type \in {"unmatched_fill", "position_drift"}
                   /\ \A a \in planted : a.fill # f.id}
CrashLosesOneRow ==
    Cardinality(Unlogged)
        <= crashes + (IF phase = "log" /\ fill \in Unlogged THEN 1 ELSE 0)

(* The simulator acknowledges before it acts, so it is at most once where  *)
(* the workers are at least once: over crashes and restarts no tick has    *)
(* two fills, and the tick of a fill has left the pending list for good.   *)
AtMostOneFill ==
    /\ \A f, g \in fills : f.tick = g.tick => f = g
    /\ \A f \in fills : f.tick \in Delivered \ Pending

(* max_fills ends the run at once, in the middle of a batch too. *)
MaxFillsKept ==
    MaxFills # None => Cardinality({f \in fills : f.id[1] = runs}) <= MaxFills
=============================================================================
