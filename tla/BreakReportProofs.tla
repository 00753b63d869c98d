-------------------------- MODULE BreakReportProofs -------------------------
(***************************************************************************)
(* Proofs about BreakReport: what the breaks of a report have to do with   *)
(* the anomalies planted, for every interleaving of the report's queries   *)
(* with the statements of the simulator, every session and every window.   *)
(*                                                                         *)
(* A step of the report leaves the simulator's variables alone and a step  *)
(* of the simulator the report's, so that the invariants of TradeBook hold *)
(* here too.  What is new relates the two: what a query returned to what   *)
(* the tables hold now.                                                    *)
(***************************************************************************)
EXTENDS BreakReport, TradeBookProofs, SumProofs

(* The assumptions on the constants, in the form the proofs use. *)
LEMMA ReportConstants ==
    /\ MatchWindow \in Nat /\ Until \in Int /\ Starts \subseteq Int
    /\ \A m \in Messages : TickTime[m] \in Int
BY ReportAssumption, TradeBookAssumption

USE Constants, ReportConstants

-----------------------------------------------------------------------------
(* The inductive invariants, in parts. *)

BookInv == TypeInv /\ TakenInv /\ AtMostOneFill /\ IdInv /\ RowsInv /\ GapInv

(* What was read has been in the tables, and breaks name fills and ticks.  *)
ReaderInv ==
    /\ step \in {"fills", "ticks", "positions", "done", "scored"}
    /\ start \in Int
    /\ fillsRead \subseteq fills
    /\ ticksRead \subseteq Messages
    /\ Reported =>
        /\ breaks.unmatched_fill \subseteq {f.id : f \in fills}
        /\ breaks.position_drift \subseteq {f.id : f \in fills}
        /\ breaks.sequence_gap \subseteq Messages \X Messages

(* A fill id is the key of the table, and a fill has the time of its tick  *)
(* unless it was planted as unmatched.                                     *)
FillsInv ==
    /\ \A f, g \in fills : f.id = g.id => f = g
    /\ \A f \in fills : f.time \in FillTimes(f.tick, f.type)
    /\ phase \in Working => fill.time \in FillTimes(fill.tick, fill.type)

(* run_pipeline.sh starts simulator and report when all ticks are stored.  *)
StoredInv == StoredFirst /\ (phase # "down" \/ step # "fills") => stored = Messages

Seen(t) == Within(t, start - MatchWindow, Until + MatchWindow)

(* A tick that the report has not seen though it is in the window was      *)
(* deleted, and stays so: what the report calls unmatched or missing goes  *)
(* back to a deletion, or was planted as unmatched.                        *)
MissedInv ==
    StoredFirst =>
        /\ step = "ticks" => \A f \in fillsRead : Seen(f.time)
        /\ step = "positions" =>
            /\ \A f \in fillsRead : Seen(f.time)
            /\ \A m \in Messages : Seen(TickTime[m]) => m \in ticksRead \/ m \notin ticks
            /\ \A m \in ticksRead : Seen(TickTime[m])
        /\ Reported =>
            \A f \in fills : f.id \in breaks.unmatched_fill =>
                f.type = "unmatched_fill" \/ f.tick \notin ticks

(* The sequences the simulator tracks, and after them what it holds of the *)
(* batch, are neighbours in the stream, up to the last one delivered; the  *)
(* tick it works on is the newest of those tracked.                        *)
RecentInv ==
    /\ phase = "read" => todo = {}
    /\ recent \subseteq Delivered
    /\ \A k \in recent, j \in todo : k < j
    /\ \A k \in recent \cup todo, j \in Messages : k <= j /\ j <= cursor => j \in recent \cup todo
    /\ phase \in Working => fill.tick \in recent /\ \A k \in recent : k <= fill.tick

(* The range about to be logged is none of those logged before. *)
FreshInv ==
    /\ IsFiniteSet(planted)
    /\ \A a \in PlantedOf("sequence_gap") : a.first \notin gap

(* The whole of a planted range is missing, and of the one about to be.    *)
RangesInv ==
    StoredFirst =>
        /\ phase = "down" => planted = {}
        /\ \A a \in PlantedOf("sequence_gap"), m \in Messages :
            a.first <= m /\ m <= a.last => m \notin ticks
        /\ gap # {} => \A m \in Messages : Min(gap) <= m /\ m <= Max(gap) => m \notin ticks

(* The runs of missing sequences that were found, and the ranges planted.  *)
Ranges == Cardinality(PlantedOf("sequence_gap")) + (IF gap = {} THEN 0 ELSE 1)

HolesInv ==
    StoredFirst =>
        /\ Reported =>
            \A g \in breaks.sequence_gap : \A m \in (g[1] + 1) .. (g[2] - 1) :
                m \in Messages /\ m \notin ticks
        /\ crashes = 0 =>
            /\ step = "positions" => Cardinality(R!SequenceGaps(ticksRead)) <= Ranges
            /\ Reported => Cardinality(breaks.sequence_gap) <= Ranges

(* The stream is in the order of the exchange's time stamps, as the        *)
(* sequences the ingestor gives are meant to be.                           *)
TimesInOrder == \A a, b \in Messages : a <= b => TickTime[a] <= TickTime[b]

-----------------------------------------------------------------------------
(* Frames. *)

(* Without Persist the ticks can only become fewer. *)
LEMMA TicksOnlyGo ==
    ASSUME TypeInv, [Next]_vars, stored = Messages
    PROVE  ticks' \subseteq ticks /\ stored' = stored
<1> USE DEF localVars, tableVars
<1>1. ~Persist
    BY DEF Persist, Messages, TypeInv, TypeOK, GroupTypeOK
<1>2. CASE DeleteTicks
    BY <1>2 DEF DeleteTicks, DeleteSequences
<1>3. CASE Publish \/ Start \/ Read \/ ReadNothing \/ WriteFill \/ LogAnomaly \/ WritePosition
           \/ LogGap \/ Crash \/ UNCHANGED vars
    BY <1>3 DEF Publish, Start, Read, ReadNothing, WriteFill, LogAnomaly, WritePosition, LogGap,
                Crash, vars
<1>4. ASSUME NEW m \in todo, Skip(m) \/ Trade(m) PROVE ticks' = ticks /\ stored' = stored
    BY <1>4 DEF Skip, Trade, Acknowledge
<1> QED
    BY <1>1, <1>2, <1>3, <1>4 DEF Next, SimulatorStep

(* Fills are only inserted, by WriteFill. *)
LEMMA FillsOnlyCome ==
    ASSUME [Next]_vars
    PROVE  \/ fills' = fills
           \/ WriteFill /\ fills \subseteq fills' /\ fills' \subseteq fills \cup {fill}
<1> USE DEF localVars, tableVars
<1>1. CASE WriteFill
    BY <1>1 DEF WriteFill, InsertFill
<1>2. CASE Publish \/ Persist \/ Start \/ Read \/ ReadNothing \/ DeleteTicks \/ LogAnomaly
           \/ WritePosition \/ LogGap \/ Crash \/ UNCHANGED vars
    BY <1>2 DEF Publish, Persist, Start, Read, ReadNothing, DeleteTicks, LogAnomaly, WritePosition,
                LogGap, Crash, vars
<1>3. ASSUME NEW m \in todo, Skip(m) \/ Trade(m) PROVE fills' = fills
    BY <1>3 DEF Skip, Trade, Acknowledge
<1> QED
    BY <1>1, <1>2, <1>3 DEF Next, SimulatorStep

(* Every step is one of the simulator, of the report, or neither. *)
LEMMA Sides ==
    ASSUME [ReportNext]_reportVars
    PROVE  \/ [Next]_vars /\ UNCHANGED readerVars
           \/ (R!ReadFills \/ R!ReadTicks \/ R!ReadPositions \/ Score) /\ UNCHANGED vars
<1>1. CASE Report
    BY <1>1 DEF Report, R!Reconcile
<1> QED
    BY <1>1 DEF ReportNext, reportVars, Score

LEMMA BookInit == Init => BookInv
<1> SUFFICES ASSUME Init PROVE AtMostOneFill /\ RowsInv /\ GapInv
    BY TypeInit, TakenInit DEF BookInv
<1>1. \A type : PlantedOf(type) = {} /\ FillsOf(type) = {} /\ InHand(type) = {}
    BY DEF Init, TablesInit, PlantedOf, FillsOf, InHand
<1> QED
    BY <1>1 DEF AtMostOneFill, RowsInv, GapInv, Init, TablesInit

LEMMA BookStep == BookInv /\ [ReportNext]_reportVars => BookInv'
<1> SUFFICES ASSUME BookInv, [ReportNext]_reportVars PROVE BookInv'
    OBVIOUS
<1>1. [Next]_vars
    BY Sides
<1> QED
    BY <1>1, TypeStep, TakenStep, IdStep, RowsStep, GapStep DEF BookInv

-----------------------------------------------------------------------------
(* The parts, one by one. *)

LEMMA ReaderStep == BookInv /\ ReaderInv /\ [ReportNext]_reportVars => ReaderInv'
<1> SUFFICES ASSUME BookInv, ReaderInv, [ReportNext]_reportVars PROVE ReaderInv'
    OBVIOUS
<1> USE DEF ReaderInv, Reported
<1>1. CASE [Next]_vars /\ UNCHANGED readerVars
    <2>1. fills \subseteq fills'
        BY <1>1, FillsOnlyCome
    <2> QED
        BY <1>1, <2>1 DEF readerVars
<1>2. CASE R!ReadFills /\ UNCHANGED vars
    BY <1>2 DEF R!ReadFills, R!FillsBetween, FillsBetween, vars, tableVars
<1>3. CASE R!ReadTicks /\ UNCHANGED vars
    BY <1>3 DEF R!ReadTicks, R!TicksSeen, R!TicksBetween, TicksBetween, vars, tableVars, BookInv,
                TypeInv, TypeOK
<1>4. CASE R!ReadPositions /\ UNCHANGED vars
    <2>1. /\ breaks'.unmatched_fill = R!UnmatchedFills(fillsRead, ticksRead)
          /\ breaks'.sequence_gap = R!SequenceGaps(ticksRead)
          /\ breaks'.position_drift =
                R!PositionDrift(fillsRead, R!PositionsBetween(start, Until))
          /\ step' = "done" /\ fillsRead' = {} /\ ticksRead' = {} /\ start' = start
          /\ fills' = fills
        BY <1>4 DEF R!ReadPositions, vars, tableVars
    <2> QED
        BY <2>1 DEF R!UnmatchedFills, R!SequenceGaps, R!PositionDrift
<1>5. CASE Score /\ UNCHANGED vars
    BY <1>5 DEF Score, vars, tableVars
<1> QED
    BY <1>1, <1>2, <1>3, <1>4, <1>5, Sides

LEMMA FillsStep == BookInv /\ FillsInv /\ [ReportNext]_reportVars => FillsInv'
<1> SUFFICES ASSUME BookInv, FillsInv, [Next]_vars PROVE FillsInv'
    BY Sides DEF FillsInv, vars, tableVars, localVars
<1> USE DEF FillsInv, localVars, tableVars
<1>1. CASE WriteFill
    <2>1. fills' = fills \cup {fill} /\ fill' = fill /\ phase = "fill"
        BY <1>1 DEF WriteFill, InsertFill, BookInv, IdInv
    <2>2. \A f \in fills : f.id # fill.id
        BY <2>1 DEF BookInv, IdInv
    <2> QED
        BY <2>1, <2>2 DEF Working
<1>2. ASSUME NEW m \in todo, Trade(m) PROVE FillsInv'
    <2>1. PICK type \in Anomalies \cup {None}, sign \in Signs, q \in Quantities :
                \E time \in FillTimes(m, type) :
                    fill' = [id |-> <<runs, nextSequence>>, tick |-> m, sequence |-> nextSequence,
                             quantity |-> sign * q, time |-> time, type |-> type]
        BY <1>2 DEF Trade
    <2>2. fill'.time \in FillTimes(fill'.tick, fill'.type)
        BY <2>1
    <2>3. fills' = fills
        BY <1>2 DEF Trade, Acknowledge
    <2> QED
        BY <2>2, <2>3
<1>3. CASE fills' = fills /\ (phase' \in Working => phase \in Working /\ fill' = fill)
    BY <1>3
<1>4. CASE Publish \/ Persist \/ Start \/ Read \/ ReadNothing \/ LogAnomaly
           \/ WritePosition \/ DeleteTicks \/ LogGap \/ Crash \/ UNCHANGED vars
    BY <1>3, <1>4, DonePhase DEF Publish, Persist, Start, Read, ReadNothing, LogAnomaly,
        WritePosition, DeleteTicks, LogGap, Crash, vars, Working
<1>5. ASSUME NEW m \in todo, Skip(m) PROVE FillsInv'
    BY <1>3, <1>5 DEF Skip, Acknowledge, AfterMessage, Working
<1> QED
    BY <1>1, <1>2, <1>4, <1>5 DEF Next, SimulatorStep

LEMMA StoredStep == BookInv /\ StoredInv /\ [ReportNext]_reportVars => StoredInv'
<1> SUFFICES ASSUME BookInv, StoredInv, [ReportNext]_reportVars, StoredFirst PROVE StoredInv'
    BY DEF StoredInv
<1>1. CASE stored = Messages
    <2>1. stored' = Messages
        BY <1>1, Sides, TicksOnlyGo DEF vars, BookInv
    <2> QED
        BY <2>1 DEF StoredInv
<1>2. CASE stored # Messages
    <2>1. phase = "down" /\ step = "fills"
        BY <1>2 DEF StoredInv
    <2>2. ~Start /\ ~Report
        BY <1>2 DEF Start, Report
    <2>3. ASSUME Next PROVE phase' = "down"
        BY <2>1, <2>2, <2>3 DEF Next, SimulatorStep, Publish, Persist, Read, ReadNothing, Skip, Trade,
            Acknowledge, WriteFill, LogAnomaly, WritePosition, DeleteTicks, LogGap, Crash, Busy
    <2>4. phase' = "down" /\ step' = "fills"
        BY <2>1, <2>2, <2>3 DEF ReportNext, Score, readerVars, reportVars, vars
    <2> QED
        BY <2>4 DEF StoredInv
<1> QED
    BY <1>1, <1>2

LEMMA MissedStep ==
    BookInv /\ ReaderInv /\ FillsInv /\ StoredInv /\ MissedInv /\ [ReportNext]_reportVars
        => MissedInv'
<1> SUFFICES ASSUME BookInv, ReaderInv, FillsInv, StoredInv, MissedInv, [ReportNext]_reportVars,
                    StoredFirst
             PROVE  MissedInv'
    BY DEF MissedInv
<1> USE DEF Reported
<1>1. CASE step = "fills"
    <2>1. CASE R!ReadFills /\ UNCHANGED vars
        BY <2>1 DEF R!ReadFills, R!FillsBetween, FillsBetween, R!Within, Within, Seen, MissedInv
    <2>2. CASE UNCHANGED readerVars
        BY <1>1, <2>2 DEF readerVars, MissedInv
    <2> QED
        BY <1>1, <2>1, <2>2, Sides DEF R!ReadTicks, R!ReadPositions, Score
<1>2. CASE step # "fills"
    <2>1. stored = Messages /\ ticks' \subseteq ticks
        BY <1>2, Sides, TicksOnlyGo DEF StoredInv, vars, tableVars, BookInv
    <2>2. CASE [Next]_vars /\ UNCHANGED readerVars
        <3>1. \A f \in fills' \ fills : f.id \notin {g.id : g \in fills}
            BY <2>2, FillsOnlyCome DEF BookInv, IdInv, WriteFill
        <3>2. Reported => breaks.unmatched_fill \subseteq {g.id : g \in fills}
            BY DEF ReaderInv
        <3>3. UNCHANGED <<start, step, fillsRead, ticksRead, breaks>>
            BY <2>2 DEF readerVars
        <3>4. \A t : Seen(t)' = Seen(t)
            BY <3>3 DEF Seen
        <3>5. Reported' => \A f \in fills' : f.id \in breaks'.unmatched_fill =>
                    f.type = "unmatched_fill" \/ f.tick \notin ticks'
            BY <2>1, <3>1, <3>2, <3>3 DEF MissedInv
        <3> QED
            BY <2>1, <3>3, <3>4, <3>5 DEF MissedInv
    <2>3. CASE R!ReadTicks /\ UNCHANGED vars
        BY <2>3 DEF R!ReadTicks, R!TicksSeen, R!TicksBetween, TicksBetween, R!Within, Within, Seen,
            MissedInv, vars, tableVars
    <2>4. CASE R!ReadPositions /\ UNCHANGED vars
        <3>1. /\ breaks'.unmatched_fill = R!UnmatchedFills(fillsRead, ticksRead)
              /\ step = "positions" /\ step' = "done"
              /\ fills' = fills /\ ticks' = ticks
            BY <2>4 DEF R!ReadPositions, vars, tableVars
        <3>2. ASSUME NEW f \in fills, f.id \in breaks'.unmatched_fill, f.type # "unmatched_fill"
              PROVE  f.tick \notin ticks
            <4>1. f \in fillsRead /\ \A m \in ticksRead : R!Distance(TickTime[m], f.time) > MatchWindow
                BY <3>1, <3>2 DEF R!UnmatchedFills, FillsInv, ReaderInv
            <4>2. f.tick \in Messages /\ f.time = TickTime[f.tick]
                BY <3>2 DEF FillsInv, FillTimes, BookInv, TypeInv, TypeOK, FillRow
            <4>3. Seen(TickTime[f.tick])
                BY <3>1, <4>1, <4>2 DEF MissedInv
            <4>4. f.tick \notin ticksRead
                BY <4>1, <4>2 DEF R!Distance
            <4> QED
                BY <3>1, <4>2, <4>3, <4>4 DEF MissedInv
        <3> QED
            BY <3>1, <3>2 DEF MissedInv
    <2>5. CASE Score /\ UNCHANGED vars
        BY <2>5 DEF Score, MissedInv, vars, tableVars
    <2> QED
        BY <1>2, <2>2, <2>3, <2>4, <2>5, Sides DEF R!ReadFills
<1> QED
    BY <1>1, <1>2

LEMMA ReportStart == ReportInit => BookInv /\ ReaderInv /\ FillsInv /\ StoredInv /\ MissedInv
<1> SUFFICES ASSUME ReportInit
             PROVE  BookInv /\ ReaderInv /\ FillsInv /\ StoredInv /\ MissedInv
    OBVIOUS
<1>1. BookInv
    BY BookInit DEF ReportInit
<1>2. phase = "down" /\ step = "fills" /\ fills = {} /\ start = Until /\ fillsRead = {} /\ ticksRead = {}
    BY DEF ReportInit, Init, TablesInit, R!ReaderInit
<1> QED
    BY <1>1, <1>2 DEF ReaderInv, FillsInv, StoredInv, MissedInv, Reported, Working

(* What a report calls unmatched was planted so, or the tick of the fill   *)
(* was deleted: for every session, every window and every interleaving     *)
(* with a simulator that is still at work.                                 *)
THEOREM UnmatchedGoesBack == ReportSpec => []UnmatchedIsExplained
<1> DEFINE Inv == BookInv /\ ReaderInv /\ FillsInv /\ StoredInv /\ MissedInv
<1>1. ReportInit => Inv
    BY ReportStart
<1>2. Inv /\ [ReportNext]_reportVars => Inv'
    BY BookStep, ReaderStep, FillsStep, StoredStep, MissedStep
<1>3. Inv => UnmatchedIsExplained
    <2> SUFFICES ASSUME Inv, Reported, StoredFirst, crashes = 0,
                        NEW f \in fills, f.id \in breaks.unmatched_fill, f.type # "unmatched_fill"
                 PROVE  InPlantedGap(f.tick)
        BY DEF UnmatchedIsExplained
    <2>1. f.tick \in Messages
        BY DEF BookInv, TypeInv, TypeOK, FillRow
    <2>2. stored = Messages
        BY DEF StoredInv, Reported
    <2>3. f.tick \notin ticks
        BY DEF MissedInv
    <2> QED
        BY <2>1, <2>2, <2>3 DEF BookInv, GapInv
<1> QED
    BY <1>1, <1>2, <1>3, PTL DEF ReportSpec

-----------------------------------------------------------------------------
(* What the simulator deletes are neighbours. *)

LEMMA RecentFinite ==
    ASSUME TypeInv, NEW S \in SUBSET Messages
    PROVE  IsFiniteSet(S) /\ Cardinality(S) \in Nat
<1>1. IsFiniteSet(Messages)
    BY FS_Interval DEF Messages
<1> QED
    BY <1>1, FS_Subset, FS_CardinalityType

(* Tracked keeps the newest, the one just added among them. *)
LEMMA TrackedKeeps ==
    ASSUME TypeInv, NEW m \in Messages, \A k \in recent : k < m
    PROVE  /\ m \in Tracked(m) /\ Tracked(m) \subseteq recent \cup {m}
           /\ \A k \in Tracked(m), j \in recent \cup {m} : k <= j => j \in Tracked(m)
<1> DEFINE S == recent \cup {m}
           Above(k) == {j \in S : j > k}
<1>1. S \subseteq Messages /\ \A j \in S : j \in Int
    BY DEF TypeInv, TypeOK, Messages
<1>2. \A k \in S : IsFiniteSet(Above(k)) /\ Cardinality(Above(k)) \in Nat
    <2> TAKE k \in S
    <2>1. Above(k) \in SUBSET Messages
        BY <1>1
    <2> HIDE DEF Above
    <2> QED
        BY <2>1, RecentFinite
<1>3. Above(m) = {}
    <2>0. m \in Int /\ \A j \in recent : j < m /\ j \in Int
        BY <1>1
    <2>1. \A j \in S : ~(j > m)
        BY <2>0
    <2> QED
        BY <2>1
<1>4. Cardinality(Above(m)) = 0
    <2> HIDE DEF Above
    <2> QED
        BY <1>3, FS_EmptySet
<1>5. ASSUME NEW k \in S, NEW j \in S, k <= j PROVE Cardinality(Above(j)) <= Cardinality(Above(k))
    <2>1. Above(j) \subseteq Above(k)
        BY <1>1, <1>5
    <2> QED
        BY <1>2, <2>1, FS_Subset
<1>6. Tracked(m) = {k \in S : Cardinality(Above(k)) < RecentLimit}
    BY DEF Tracked
<1> HIDE DEF S, Above
<1>7. m \in S
    BY DEF S
<1>8. ASSUME NEW k \in S, NEW j \in S, k <= j, Cardinality(Above(k)) < RecentLimit
      PROVE  Cardinality(Above(j)) < RecentLimit
    BY <1>2, <1>5, <1>8
<1> QED
    BY <1>4, <1>6, <1>7, <1>8 DEF S

LEMMA RecentStep == BookInv /\ RecentInv /\ [ReportNext]_reportVars => RecentInv'
<1> SUFFICES ASSUME BookInv, RecentInv, [Next]_vars PROVE RecentInv'
    BY Sides DEF RecentInv, vars, tableVars, localVars, groupVars, Delivered, Messages
<1> USE DEF RecentInv, localVars, groupVars
<1>0. /\ recent \subseteq Messages /\ todo \subseteq Messages /\ todo \subseteq Delivered
      /\ Messages \subseteq Nat /\ cursor \in Int /\ published \in Nat
    BY DEF BookInv, TypeInv, TypeOK, GroupTypeOK, TakenInv, Messages, NoGroup
<1>1. CASE Start
    BY <1>1 DEF Start, Working
<1>2. CASE Read
    <2>1. /\ phase = "read" /\ todo = {} /\ phase' = "next" /\ recent' = recent
          /\ todo' = Fresh(ReadCount)
          /\ cursor' = IF cursor + ReadCount < published THEN cursor + ReadCount ELSE published
          /\ cursor <= published
        BY <1>2 DEF Read, ReadGroup, BookInv, TakenInv
    <2>2. \A j \in Messages : j \in todo' <=> cursor < j /\ j <= cursor'
        BY <1>0, <2>1 DEF Fresh
    <2>3. cursor <= cursor'
        BY <1>0, <2>1
    <2>4. recent' \subseteq Delivered' /\ \A k \in recent' : k <= cursor
        BY <1>0, <2>1, <2>3 DEF Delivered
    <2>5. todo' \subseteq Messages
        BY <2>1 DEF Fresh
    <2>6. \A k \in recent', j \in todo' : k < j
        BY <1>0, <2>1, <2>2, <2>4, <2>5
    <2>7. \A k \in recent' \cup todo', j \in Messages :
              k <= j /\ j <= cursor' => j \in recent' \cup todo'
        <3> TAKE k \in recent' \cup todo', j \in Messages
        <3>1. CASE j <= cursor
            BY <1>0, <2>1, <2>2, <2>5, <3>1
        <3>2. CASE ~(j <= cursor)
            BY <1>0, <2>2, <3>2
        <3> QED
            BY <3>1, <3>2
    <2> QED
        BY <2>1, <2>4, <2>6, <2>7 DEF Working
<1>3. ASSUME NEW m \in todo, Skip(m) \/ Trade(m) PROVE RecentInv'
    <2>1. /\ m = Min(todo) /\ todo' = todo \ {m} /\ recent' = Tracked(m) /\ cursor' = cursor
        BY <1>3 DEF Skip, Trade, Acknowledge
    <2>2. m \in Messages /\ \A j \in todo : m <= j
        BY <1>0, <2>1, MinOfMessages
    <2>3. /\ m \in recent' /\ recent' \subseteq recent \cup {m}
          /\ \A k \in recent', j \in recent \cup {m} : k <= j => j \in recent'
        BY <2>1, <2>2, TrackedKeeps DEF BookInv
    <2>4. recent' \subseteq Delivered'
        BY <1>0, <2>1, <2>3 DEF Delivered
    <2>5. \A k \in recent', j \in todo' : k < j
        BY <1>0, <2>1, <2>2, <2>3
    <2>6. \A k \in recent' \cup todo', j \in Messages :
              k <= j /\ j <= cursor' => j \in recent' \cup todo'
        <3> TAKE k \in recent' \cup todo', j \in Messages
        <3>1. SUFFICES ASSUME k <= j, j <= cursor PROVE j \in recent' \cup todo'
            BY <2>1
        <3>2. k \in recent \cup todo
            BY <2>1, <2>3
        <3>3. j \in recent \cup todo
            BY <3>1, <3>2
        <3>4. CASE k \in recent'
            BY <2>1, <2>3, <3>1, <3>3, <3>4
        <3>5. CASE k \in todo'
            <4>1. m < j
                BY <1>0, <2>3, <2>5, <3>1, <3>5
            <4>2. j \notin recent
                BY <1>0, <4>1
            <4> QED
                BY <1>0, <2>1, <3>3, <4>1, <4>2
        <3> QED
            BY <3>4, <3>5
    <2>7. \A k \in recent' : k <= m
        BY <1>0, <2>2, <2>3
    <2>8. CASE Skip(m)
        <3>1. phase' = IF todo' = {} THEN "read" ELSE "next"
            BY <2>8 DEF Skip, AfterMessage
        <3> QED
            BY <2>4, <2>5, <2>6, <3>1 DEF Working
    <2>9. CASE Trade(m)
        <3>1. fill'.tick = m /\ phase' = "fill"
            BY <2>9 DEF Trade
        <3> QED
            BY <2>3, <2>4, <2>5, <2>6, <2>7, <3>1
    <2> QED
        BY <1>3, <2>8, <2>9
<1>4. CASE Crash
    BY <1>4 DEF Crash, Working
<1>5. CASE UNCHANGED <<cursor, todo, recent, fill>> /\ (phase' = "read" => todo = {})
           /\ (phase' \in Working => phase \in Working)
    BY <1>5 DEF Delivered
<1>6. Done = "read" => todo = {}
    BY DEF Done, AfterMessage
<1>7. CASE Publish \/ Persist \/ ReadNothing \/ UNCHANGED vars
    BY <1>5, <1>7 DEF Publish, Persist, ReadNothing, vars, Working
<1>8. CASE WriteFill \/ LogAnomaly \/ WritePosition \/ DeleteTicks \/ LogGap
    BY <1>5, <1>6, <1>8, DonePhase DEF WriteFill, LogAnomaly, WritePosition, DeleteTicks, LogGap,
        Working
<1> QED
    BY <1>1, <1>2, <1>3, <1>4, <1>7, <1>8 DEF Next, SimulatorStep

(* The index of a tracked sequence grows with it. *)
LEMMA IndexGrows ==
    ASSUME TypeInv, NEW k \in recent, NEW l \in recent
    PROVE  /\ IndexOf(k) \in Nat
           /\ k <= l => IndexOf(k) <= IndexOf(l)
<1> DEFINE Below(i) == {j \in recent : j < i}
<1>1. \A i \in recent : i \in Int /\ i \in Messages
    BY DEF TypeInv, TypeOK, Messages
<1>2. \A i \in recent : IsFiniteSet(Below(i)) /\ Cardinality(Below(i)) \in Nat
    <2> TAKE i \in recent
    <2>1. Below(i) \in SUBSET Messages
        BY <1>1
    <2> HIDE DEF Below
    <2> QED
        BY <2>1, RecentFinite
<1>3. \A i \in recent : IndexOf(i) = Cardinality(Below(i))
    BY DEF IndexOf
<1>4. ASSUME k <= l PROVE Below(k) \subseteq Below(l)
    BY <1>1, <1>4
<1> HIDE DEF Below
<1>6. ASSUME k <= l PROVE Cardinality(Below(k)) <= Cardinality(Below(l))
    BY <1>2, <1>4, <1>6, FS_Subset
<1> QED
    BY <1>2, <1>3, <1>6

(* The newest has the last index. *)
LEMMA NewestIndex ==
    ASSUME TypeInv, NEW n \in recent, \A k \in recent : k <= n
    PROVE  IndexOf(n) = Cardinality(recent) - 1 /\ Cardinality(recent) \in Nat
<1>1. \A i \in recent : i \in Int /\ i \in Messages
    BY DEF TypeInv, TypeOK, Messages
<1>2. {j \in recent : j < n} = recent \ {n}
    <2>1. \A j \in recent : j < n <=> j # n
        BY <1>1
    <2> QED
        BY <2>1
<1>3. IsFiniteSet(recent) /\ Cardinality(recent) \in Nat
    BY <1>1, RecentFinite DEF TypeInv, TypeOK
<1>4. Cardinality(recent \ {n}) = Cardinality(recent) - 1
    BY <1>3, FS_RemoveElement
<1> QED
    BY <1>2, <1>3, <1>4 DEF IndexOf

(* A choice has no holes, and the newest is never chosen. *)
LEMMA ChosenAreNeighbours ==
    ASSUME TypeInv, NEW chosen \in GapChoices
    PROVE  /\ chosen \subseteq recent
           /\ \A a, b \in chosen, m \in recent : a <= m /\ m <= b => m \in chosen
           /\ \A n \in recent : (\A k \in recent : k <= n) => n \notin chosen
<1>1. PICK s \in 0 .. (Cardinality(recent) - MaxGap - 1), size \in 1 .. MaxGap :
            chosen = {k \in recent : s <= IndexOf(k) /\ IndexOf(k) < s + size}
    BY DEF GapChoices
<1>2. \A k \in recent : IndexOf(k) \in Nat
    BY IndexGrows
<1>3. chosen \subseteq recent
    BY <1>1
<1>4. ASSUME NEW a \in chosen, NEW b \in chosen, NEW m \in recent, a <= m, m <= b
      PROVE  m \in chosen
    <2>1. IndexOf(a) <= IndexOf(m) /\ IndexOf(m) <= IndexOf(b)
        BY <1>3, <1>4, IndexGrows
    <2>2. s <= IndexOf(a) /\ IndexOf(b) < s + size
        BY <1>1
    <2> QED
        BY <1>1, <1>2, <1>3, <2>1, <2>2
<1>5. ASSUME NEW n \in recent, \A k \in recent : k <= n PROVE n \notin chosen
    <2>1. IndexOf(n) = Cardinality(recent) - 1 /\ Cardinality(recent) \in Nat
        BY <1>5, NewestIndex
    <2>2. s \in Int /\ size \in Int /\ s <= Cardinality(recent) - MaxGap - 1 /\ size <= MaxGap
        BY <1>1, <2>1
    <2>3. ~(IndexOf(n) < s + size)
        BY <2>1, <2>2
    <2> QED
        BY <1>1, <2>3
<1> QED
    BY <1>3, <1>4, <1>5

LEMMA RangesStep ==
    BookInv /\ StoredInv /\ RecentInv /\ RangesInv /\ [ReportNext]_reportVars => RangesInv'
<1> SUFFICES ASSUME BookInv, StoredInv, RecentInv, RangesInv, [Next]_vars, StoredFirst
             PROVE  RangesInv'
    BY Sides DEF RangesInv, vars, tableVars, localVars, PlantedOf, Messages
<1> DEFINE Planted == PlantedOf("sequence_gap")
<1> USE DEF localVars, tableVars
<1>1. CASE phase = "down"
    <2>1. planted = {} /\ gap = {}
        BY <1>1 DEF RangesInv, BookInv, GapInv
    <2>2. planted' = {} /\ gap' = {}
        BY <1>1, <2>1 DEF Next, SimulatorStep, Publish, Persist, Start, Read, ReadNothing, Skip, Trade,
            Acknowledge, WriteFill, LogAnomaly, WritePosition, DeleteTicks, LogGap, Crash, Busy, vars
    <2> QED
        BY <2>2 DEF RangesInv, PlantedOf
<1>2. CASE phase # "down"
    <2>0. ticks' \subseteq ticks /\ stored = Messages /\ gap \subseteq Messages
        BY <1>2, TicksOnlyGo DEF StoredInv, BookInv, TypeInv, TypeOK
    <2>1. phase' # "down"
        BY <1>2, DonePhase DEF Next, SimulatorStep, Publish, Persist, Start, Read, ReadNothing, Skip, Trade,
            Acknowledge, WriteFill, LogAnomaly, WritePosition, DeleteTicks, LogGap, Crash, vars,
            AfterMessage
    <2>2. /\ \A a \in Planted, m \in Messages : a.first <= m /\ m <= a.last => m \notin ticks
          /\ gap # {} => \A m \in Messages : Min(gap) <= m /\ m <= Max(gap) => m \notin ticks
        BY DEF RangesInv
    <2>3. CASE DeleteTicks
        <3>1. planted' = planted /\ phase = "delete"
            BY <2>3 DEF DeleteTicks
        <3>2. Planted' = Planted
            BY <3>1 DEF PlantedOf
        <3>3. ASSUME gap' # {}, NEW m \in Messages, Min(gap') <= m, m <= Max(gap')
              PROVE  m \notin ticks'
            <4>0. gap = {}
                BY <3>1 DEF BookInv, GapInv
            <4>1. PICK chosen \in GapChoices : ticks' = ticks \ chosen /\ gap' = ticks \cap chosen
                BY <2>3, <3>3, <4>0 DEF DeleteTicks, DeleteSequences, Returned
            <4>2. gap' \in SUBSET Messages /\ gap' \subseteq chosen
                BY <2>0, <4>1 DEF BookInv, TypeInv, TypeOK
            <4>3. Min(gap') \in gap' /\ Max(gap') \in gap'
                BY <3>3, <4>2, MinOfMessages
            <4>4. chosen \subseteq recent /\ recent \subseteq Delivered
                BY ChosenAreNeighbours DEF RecentInv, BookInv
            <4>5. Min(gap') \in recent /\ Max(gap') \in recent /\ Max(gap') <= cursor
                BY <4>2, <4>3, <4>4 DEF Delivered
            <4>6. m \in Int /\ Max(gap') \in Int /\ cursor \in Int /\ \A j \in todo : j \in Int
                <5>1. todo \subseteq Messages /\ cursor \in {-1} \cup (0 .. MaxPublished)
                    BY DEF BookInv, TypeInv, TypeOK, GroupTypeOK, NoGroup
                <5>2. \A j \in Messages : j \in Int
                    BY DEF Messages
                <5>3. Max(gap') \in Messages
                    BY <4>2, <4>3
                <5> QED
                    BY <5>1, <5>2, <5>3
            <4>7. m <= cursor
                BY <3>3, <4>5, <4>6
            <4>8. m \in recent \cup todo
                BY <3>3, <4>5, <4>7 DEF RecentInv
            <4>9. m \notin todo
                BY <3>3, <4>5, <4>6 DEF RecentInv
            <4>10. m \in chosen
                BY <3>3, <4>2, <4>3, <4>8, <4>9, ChosenAreNeighbours DEF BookInv
            <4> QED
                BY <4>1, <4>10
        <3> QED
            BY <2>0, <2>1, <2>2, <3>2, <3>3 DEF RangesInv
    <2>4. CASE LogGap
        <3> DEFINE new == [type |-> "sequence_gap", fill |-> None,
                           first |-> Min(gap), last |-> Max(gap)]
        <3>1. /\ planted' = planted \cup {new} /\ gap' = {} /\ gap # {}
              /\ new.first = Min(gap) /\ new.last = Max(gap)
            BY <2>4 DEF LogGap, InsertAnomaly, BookInv, TypeInv
        <3> HIDE DEF new
        <3>2. Planted' \subseteq Planted \cup {new}
            BY <3>1 DEF PlantedOf
        <3> QED
            BY <2>0, <2>1, <2>2, <3>1, <3>2 DEF RangesInv
    <2>5. CASE LogAnomaly
        <3> DEFINE new == [type |-> fill.type, fill |-> fill.id, first |-> None, last |-> None]
        <3>1. planted' = planted \cup {new} /\ gap' = gap /\ new.type # "sequence_gap"
            BY <2>5 DEF LogAnomaly, InsertAnomaly, BookInv, TypeInv, Logged
        <3> HIDE DEF new
        <3>2. Planted' = Planted
            BY <3>1 DEF PlantedOf
        <3> QED
            BY <2>0, <2>1, <2>2, <3>1, <3>2 DEF RangesInv
    <2>6. CASE planted' = planted /\ (gap' = gap \/ gap' = {})
        <3>1. Planted' = Planted
            BY <2>6 DEF PlantedOf
        <3> QED
            BY <2>0, <2>1, <2>2, <2>6, <3>1 DEF RangesInv
    <2>7. CASE Publish \/ Persist \/ Start \/ Read \/ ReadNothing \/ WriteFill \/ WritePosition \/ Crash
               \/ UNCHANGED vars
        BY <2>6, <2>7 DEF Publish, Persist, Start, Read, ReadNothing, WriteFill, WritePosition, Crash,
            vars
    <2>8. ASSUME NEW m \in todo, Skip(m) \/ Trade(m) PROVE RangesInv'
        BY <2>6, <2>8 DEF Skip, Trade, Acknowledge
    <2> QED
        BY <2>3, <2>4, <2>5, <2>7, <2>8 DEF Next, SimulatorStep
<1> QED
    BY <1>1, <1>2

-----------------------------------------------------------------------------
(* The runs of missing sequences. *)

LEMMA FreshStep == BookInv /\ FreshInv /\ [ReportNext]_reportVars => FreshInv'
<1> SUFFICES ASSUME BookInv, FreshInv, [Next]_vars PROVE FreshInv'
    BY Sides DEF FreshInv, vars, tableVars, localVars, PlantedOf
<1> DEFINE Planted == PlantedOf("sequence_gap")
<1> USE DEF localVars, tableVars, FreshInv
<1>1. CASE DeleteTicks
    <2>1. planted' = planted /\ gap' \subseteq ticks /\ phase = "delete"
        BY <1>1 DEF DeleteTicks, Returned, BookInv, GapInv
    <2>2. Planted' = Planted
        BY <2>1 DEF PlantedOf
    <2> QED
        BY <2>1, <2>2 DEF BookInv, GapInv
<1>2. CASE LogGap
    <2>1. gap' = {} /\ IsFiniteSet(planted')
        BY <1>2, FS_AddElement DEF LogGap, InsertAnomaly
    <2> QED
        BY <2>1
<1>3. CASE LogAnomaly
    <2> DEFINE new == [type |-> fill.type, fill |-> fill.id, first |-> None, last |-> None]
    <2>1. planted' = planted \cup {new} /\ gap' = gap /\ new.type # "sequence_gap"
        BY <1>3 DEF LogAnomaly, InsertAnomaly, BookInv, TypeInv, Logged
    <2> HIDE DEF new
    <2>2. IsFiniteSet(planted') /\ Planted' = Planted
        BY <2>1, FS_AddElement DEF PlantedOf
    <2> QED
        BY <2>1, <2>2
<1>4. CASE planted' = planted /\ (gap' = gap \/ gap' = {})
    BY <1>4 DEF PlantedOf
<1>5. CASE Publish \/ Persist \/ Start \/ Read \/ ReadNothing \/ WriteFill \/ WritePosition
           \/ Crash \/ UNCHANGED vars
    BY <1>4, <1>5 DEF Publish, Persist, Start, Read, ReadNothing, WriteFill, WritePosition, Crash, vars
<1>6. ASSUME NEW m \in todo, Skip(m) \/ Trade(m) PROVE FreshInv'
    BY <1>4, <1>6 DEF Skip, Trade, Acknowledge
<1> QED
    BY <1>1, <1>2, <1>3, <1>5, <1>6 DEF Next, SimulatorStep

LEMMA RangesFinite ==
    ASSUME IsFiniteSet(planted)
    PROVE  IsFiniteSet(PlantedOf("sequence_gap")) /\ Cardinality(PlantedOf("sequence_gap")) \in Nat
BY FS_Subset, FS_CardinalityType DEF PlantedOf

(* While no simulator dies, a range that was deleted is logged and stays.  *)
LEMMA RangesGrow ==
    ASSUME BookInv, FreshInv, FreshInv', [Next]_vars, crashes' = crashes
    PROVE  Ranges \in Nat /\ Ranges' \in Nat /\ Ranges <= Ranges'
<1> DEFINE Planted == PlantedOf("sequence_gap")
<1> USE DEF localVars, tableVars
<1>1. /\ IsFiniteSet(Planted) /\ Cardinality(Planted) \in Nat
      /\ IsFiniteSet(Planted') /\ Cardinality(Planted') \in Nat
    <2>1. IsFiniteSet(Planted') /\ Cardinality(Planted') \in Nat
        BY FS_Subset, FS_CardinalityType DEF PlantedOf, FreshInv
    <2> QED
        BY <2>1, RangesFinite DEF FreshInv
<1>2. Ranges \in Nat /\ Ranges' \in Nat
    BY <1>1 DEF Ranges
<1>3. CASE LogGap
    <2> DEFINE new == [type |-> "sequence_gap", fill |-> None,
                       first |-> Min(gap), last |-> Max(gap)]
    <2>1. /\ planted' = planted \cup {new} /\ gap' = {} /\ gap # {} /\ gap \subseteq Messages
          /\ new.first = Min(gap) /\ new.type = "sequence_gap"
        BY <1>3 DEF LogGap, InsertAnomaly, BookInv, TypeInv, TypeOK
    <2> HIDE DEF new
    <2>2. Planted' = Planted \cup {new}
        BY <2>1 DEF PlantedOf
    <2>3. new \notin Planted
        BY <2>1, MinOfMessages DEF FreshInv
    <2>4. Cardinality(Planted') = Cardinality(Planted) + 1
        BY <1>1, <2>2, <2>3, FS_AddElement
    <2> QED
        BY <1>1, <2>1, <2>4 DEF Ranges
<1>4. CASE Planted' = Planted /\ (gap = {} \/ gap' = gap)
    BY <1>1, <1>4 DEF Ranges
<1>5. CASE LogAnomaly
    <2> DEFINE new == [type |-> fill.type, fill |-> fill.id, first |-> None, last |-> None]
    <2>1. planted' = planted \cup {new} /\ gap' = gap /\ new.type # "sequence_gap"
        BY <1>5 DEF LogAnomaly, InsertAnomaly, BookInv, TypeInv, Logged
    <2> HIDE DEF new
    <2>2. Planted' = Planted
        BY <2>1 DEF PlantedOf
    <2> QED
        BY <1>4, <2>1, <2>2
<1>6. CASE DeleteTicks \/ Start
    <2>1. gap = {} /\ planted' = planted
        BY <1>6 DEF DeleteTicks, Start, BookInv, GapInv
    <2> QED
        BY <1>4, <2>1 DEF PlantedOf
<1>7. CASE Publish \/ Persist \/ Read \/ ReadNothing \/ WriteFill \/ WritePosition \/ UNCHANGED vars
    BY <1>4, <1>7 DEF Publish, Persist, Read, ReadNothing, WriteFill, WritePosition, vars, PlantedOf
<1>8. ~Crash
    BY DEF Crash, BookInv, TypeInv, TypeOK
<1>9. ASSUME NEW m \in todo, Skip(m) \/ Trade(m) PROVE Ranges <= Ranges'
    BY <1>4, <1>9 DEF Skip, Trade, Acknowledge, PlantedOf
<1> QED
    BY <1>2, <1>3, <1>5, <1>6, <1>7, <1>8, <1>9 DEF Next, SimulatorStep

(* Between two neighbours among the ticks seen, all were deleted. *)
LEMMA BetweenIsMissing ==
    ASSUME TimesInOrder, ReaderInv, NEW T \in SUBSET Messages, \A m \in T : Seen(TickTime[m]),
           \A m \in Messages : Seen(TickTime[m]) => m \in T \/ m \notin ticks,
           NEW g \in R!SequenceGaps(T), NEW m \in (g[1] + 1) .. (g[2] - 1)
    PROVE  m \in Messages /\ m \notin ticks
<1>1. /\ g[1] \in T /\ g[2] \in T /\ g[2] - g[1] > 1
      /\ \A k \in T : ~(g[1] < k /\ k < g[2])
    BY DEF R!SequenceGaps
<1>2. g[1] \in 1 .. MaxPublished /\ g[2] \in 1 .. MaxPublished
    BY <1>1 DEF Messages
<1>3. m \in Int /\ g[1] < m /\ m < g[2]
    BY <1>2
<1>4. m \in Messages
    BY <1>2, <1>3 DEF Messages
<1>5. TickTime[g[1]] <= TickTime[m] /\ TickTime[m] <= TickTime[g[2]]
    BY <1>1, <1>2, <1>3, <1>4 DEF TimesInOrder
<1>6. Seen(TickTime[g[1]]) /\ Seen(TickTime[g[2]])
    BY <1>1
<1>7. Seen(TickTime[m])
    <2>1. /\ TickTime[g[1]] \in Int /\ TickTime[m] \in Int /\ TickTime[g[2]] \in Int
          /\ start \in Int /\ start - MatchWindow \in Int /\ Until + MatchWindow \in Int
        BY <1>1, <1>4 DEF ReaderInv
    <2> QED
        BY <1>5, <1>6, <2>1 DEF Seen, Within
<1>8. m \notin T
    BY <1>1, <1>3
<1> QED
    BY <1>4, <1>7, <1>8

(* A run of missing sequences begins where a planted range begins, so that *)
(* there are no more runs than ranges: when the ticks are read, none of    *)
(* those seen lies in a range.                                             *)
LEMMA RunsBeginWithRanges ==
    ASSUME TimesInOrder, BookInv, ReaderInv, FreshInv, RangesInv, StoredFirst, stored = Messages,
           crashes = 0, NEW T \in SUBSET ticks, \A m \in T : Seen(TickTime[m]),
           \A m \in Messages : Seen(TickTime[m]) => m \in T \/ m \notin ticks
    PROVE  Cardinality(R!SequenceGaps(T)) <= Ranges
<1> DEFINE Planted == PlantedOf("sequence_gap")
           Firsts == {a.first : a \in Planted}
           H == Firsts \cup IF gap = {} THEN {} ELSE {Min(gap)}
           G == R!SequenceGaps(T)
<1>0. T \in SUBSET Messages /\ gap \subseteq Messages /\ \A m \in Messages : m \in Int
    BY DEF BookInv, TypeInv, TypeOK, Messages
<1>1. IsFiniteSet(Planted) /\ Cardinality(Planted) \in Nat
    BY RangesFinite DEF FreshInv
<1>2. IsFiniteSet(Firsts) /\ Cardinality(Firsts) <= Cardinality(Planted) /\ Cardinality(Firsts) \in Nat
    <2> DEFINE s == [a \in Planted |-> a.first]
    <2>1. s \in Surjection(Planted, Firsts)
        BY DEF Surjection
    <2> HIDE DEF s, Firsts, Planted
    <2>2. IsFiniteSet(Firsts) /\ Cardinality(Firsts) <= Cardinality(Planted)
        BY <1>1, <2>1, FS_Surjection
    <2> QED
        BY <2>2, FS_CardinalityType
<1>3. IsFiniteSet(H) /\ Cardinality(H) <= Ranges /\ Cardinality(H) \in Nat
    <2>1. CASE gap = {}
        <3>1. H = Firsts
            BY <2>1
        <3> HIDE DEF H, Firsts
        <3> QED
            BY <1>1, <1>2, <2>1, <3>1 DEF Ranges
    <2>2. CASE gap # {}
        <3>1. H = Firsts \cup {Min(gap)}
            BY <2>2
        <3> HIDE DEF H, Firsts
        <3>2. IsFiniteSet(H) /\ Cardinality(H) \in Nat /\ Cardinality(H) <= Cardinality(Firsts) + 1
            BY <1>2, <3>1, FS_AddElement, FS_CardinalityType
        <3> QED
            BY <1>1, <1>2, <2>2, <3>2 DEF Ranges
    <2> QED
        BY <2>1, <2>2
<1>4. ASSUME NEW g \in G PROVE g[1] + 1 \in H
    <2>1. /\ g[1] \in T /\ g[2] \in T /\ g[2] - g[1] > 1
        BY DEF R!SequenceGaps
    <2>2. g[1] \in Messages /\ g[1] \in Int /\ g[2] \in Int /\ g[1] + 1 \in (g[1] + 1) .. (g[2] - 1)
        <3>1. g[1] \in Messages /\ g[1] \in Int /\ g[2] \in Int
            BY <1>0, <2>1
        <3> QED
            BY <2>1, <3>1
    <2>3. g[1] + 1 \in Messages /\ g[1] + 1 \notin ticks
        BY <1>0, <2>2, BetweenIsMissing
    <2>4. InPlantedGap(g[1] + 1)
        BY <2>3 DEF BookInv, GapInv
    <2>5. CASE g[1] + 1 \in gap
        <3>1. /\ Min(gap) \in gap /\ Min(gap) <= g[1] + 1 /\ Max(gap) \in gap /\ g[1] + 1 <= Max(gap)
            BY <1>0, <2>5, MinOfMessages
        <3>2. Min(gap) \in Int /\ Max(gap) \in Int
            BY <1>0, <3>1
        <3>3. g[1] \in ticks
            BY <2>1
        <3>4. ~(Min(gap) <= g[1] /\ g[1] <= Max(gap))
            BY <2>2, <2>5, <3>3 DEF RangesInv
        <3>5. Min(gap) = g[1] + 1
            BY <2>2, <3>1, <3>2, <3>4
        <3> QED
            BY <2>5, <3>5
    <2>6. ASSUME NEW a \in Planted, a.first <= g[1] + 1, g[1] + 1 <= a.last PROVE g[1] + 1 \in H
        <3>1. a.first \in Messages /\ a.last \in Messages
            BY DEF BookInv, GapInv, TypeInv, TypeOK
        <3>2. a.first \in Int /\ a.last \in Int
            BY <3>1 DEF Messages
        <3>3. ~(a.first <= g[1] /\ g[1] <= a.last)
            BY <2>1, <2>2 DEF RangesInv
        <3>4. a.first = g[1] + 1
            BY <2>2, <2>6, <3>2, <3>3
        <3> QED
            BY <3>4
    <2> QED
        BY <2>4, <2>5, <2>6 DEF InPlantedGap
<1>5. ASSUME NEW g \in G, NEW h \in G, g[1] + 1 = h[1] + 1 PROVE g = h
    <2>1. /\ g \in T \X T /\ h \in T \X T /\ g[2] - g[1] > 1 /\ h[2] - h[1] > 1
          /\ \A m \in T : ~(g[1] < m /\ m < g[2]) /\ ~(h[1] < m /\ m < h[2])
        BY DEF R!SequenceGaps
    <2>2. g[1] \in Int /\ h[1] \in Int /\ g[2] \in Int /\ h[2] \in Int
        <3>1. g[1] \in T /\ g[2] \in T /\ h[1] \in T /\ h[2] \in T
            BY <2>1
        <3> QED
            BY <1>0, <3>1
    <2>3. g[1] = h[1] /\ g[2] = h[2]
        BY <1>5, <2>1, <2>2
    <2> QED
        BY <2>1, <2>3
<1> DEFINE e == [g \in G |-> g[1] + 1]
<1> HIDE DEF G, H
<1>6. e \in Injection(G, H)
    BY <1>4, <1>5 DEF Injection, IsInjective
<1> HIDE DEF e
<1>7. IsFiniteSet(G) /\ Cardinality(G) <= Cardinality(H)
    BY <1>3, <1>6, FS_Injection
<1>8. Cardinality(G) \in Nat /\ Ranges \in Nat
    BY <1>1, <1>7, FS_CardinalityType DEF Ranges
<1>9. Cardinality(G) <= Ranges
    BY <1>3, <1>7, <1>8
<1> QED
    BY <1>9 DEF G

LEMMA HolesStep ==
    ASSUME TimesInOrder
    PROVE  BookInv /\ ReaderInv /\ StoredInv /\ MissedInv /\ FreshInv /\ FreshInv' /\ RangesInv
               /\ HolesInv /\ [ReportNext]_reportVars
               => HolesInv'
<1> SUFFICES ASSUME BookInv, ReaderInv, StoredInv, MissedInv, FreshInv, FreshInv', RangesInv,
                    HolesInv, [ReportNext]_reportVars, StoredFirst
             PROVE  HolesInv'
    BY DEF HolesInv
<1> USE DEF Reported
<1>1. CASE step = "fills"
    BY <1>1, Sides DEF R!ReadFills, R!ReadTicks, R!ReadPositions, Score, readerVars, HolesInv
<1>2. CASE step # "fills"
    <2>1. stored = Messages
        BY <1>2 DEF StoredInv
    <2>2. ticks' \subseteq ticks
        BY <2>1, Sides, TicksOnlyGo DEF vars, tableVars, BookInv
    <2>3. CASE [Next]_vars /\ UNCHANGED readerVars
        <3>1. UNCHANGED <<step, ticksRead, breaks>>
            BY <2>3 DEF readerVars
        <3>2. crashes' = 0 => crashes = 0
            <4>1. crashes \in Nat
                BY DEF BookInv, TypeInv, TypeOK
            <4>2. crashes' = crashes \/ crashes' = crashes + 1
                BY <2>3 DEF Next, SimulatorStep, vars, Publish, Persist, Start, Read, ReadNothing, Skip,
                    Trade, Acknowledge, WriteFill, LogAnomaly, WritePosition, DeleteTicks, LogGap, Crash
            <4> QED
                BY <4>1, <4>2
        <3>3. crashes' = 0 => Ranges \in Nat /\ Ranges' \in Nat /\ Ranges <= Ranges'
            BY <2>3, <3>2, RangesGrow
        <3>4. ASSUME crashes' = 0, step = "positions"
              PROVE  Cardinality(R!SequenceGaps(ticksRead)) <= Ranges'
            <4> DEFINE G == R!SequenceGaps(ticksRead)
            <4>1. Cardinality(G) <= Ranges /\ IsFiniteSet(G)
                <5>1. G \subseteq Messages \X Messages
                    BY DEF R!SequenceGaps, ReaderInv
                <5>2. IsFiniteSet(Messages)
                    BY FS_Interval DEF Messages
                <5> QED
                    BY <3>2, <3>4, <5>1, <5>2, FS_Product, FS_Subset DEF HolesInv
            <4> HIDE DEF G
            <4>2. Cardinality(G) \in Nat
                BY <4>1, FS_CardinalityType
            <4>3. Cardinality(G) <= Ranges'
                BY <3>3, <3>4, <4>1, <4>2
            <4> QED
                BY <4>3 DEF G
        <3>5. ASSUME crashes' = 0, Reported
              PROVE  Cardinality(breaks.sequence_gap) <= Ranges'
            <4> DEFINE G == breaks.sequence_gap
            <4>1. Cardinality(G) <= Ranges /\ IsFiniteSet(G)
                <5>1. G \subseteq Messages \X Messages
                    BY <3>5 DEF ReaderInv
                <5>2. IsFiniteSet(Messages)
                    BY FS_Interval DEF Messages
                <5> QED
                    BY <3>2, <3>5, <5>1, <5>2, FS_Product, FS_Subset DEF HolesInv
            <4> HIDE DEF G
            <4>2. Cardinality(G) \in Nat
                BY <4>1, FS_CardinalityType
            <4>3. Cardinality(G) <= Ranges'
                BY <3>3, <3>5, <4>1, <4>2
            <4> QED
                BY <4>3 DEF G
        <3> QED
            BY <2>2, <3>1, <3>4, <3>5 DEF HolesInv
    <2>4. CASE R!ReadTicks /\ UNCHANGED vars
        <3>1. /\ step' = "positions" /\ ticksRead' = {m \in ticks : Seen(TickTime[m])}
              /\ UNCHANGED <<ticks, planted, gap, crashes>>
            BY <2>4 DEF R!ReadTicks, R!TicksSeen, R!TicksBetween, TicksBetween, R!Within, Within, Seen,
                vars, tableVars, localVars
        <3>2. Ranges' = Ranges
            BY <3>1 DEF Ranges, PlantedOf
        <3>3. ticksRead' \in SUBSET ticks /\ (\A m \in ticksRead' : Seen(TickTime[m]))
              /\ \A m \in Messages : Seen(TickTime[m]) => m \in ticksRead' \/ m \notin ticks
            BY <3>1
        <3>4. crashes = 0 => Cardinality(R!SequenceGaps(ticksRead')) <= Ranges
            BY <2>1, <3>3, RunsBeginWithRanges
        <3>5. crashes' = 0 => Cardinality(R!SequenceGaps(ticksRead)') <= Ranges'
            BY <3>1, <3>2, <3>4 DEF R!SequenceGaps
        <3> QED
            BY <3>1, <3>5 DEF HolesInv
    <2>5. CASE R!ReadPositions /\ UNCHANGED vars
        <3>1. /\ breaks'.sequence_gap = R!SequenceGaps(ticksRead)
              /\ step = "positions" /\ step' = "done" /\ UNCHANGED <<ticks, planted, gap, crashes>>
            BY <2>5 DEF R!ReadPositions, vars, tableVars, localVars
        <3>2. Ranges' = Ranges
            BY <3>1 DEF Ranges, PlantedOf
        <3>3. ASSUME NEW g \in breaks'.sequence_gap, NEW m \in (g[1] + 1) .. (g[2] - 1)
              PROVE  m \in Messages /\ m \notin ticks
            <4>1. ticksRead \in SUBSET Messages /\ (\A k \in ticksRead : Seen(TickTime[k]))
                  /\ \A k \in Messages : Seen(TickTime[k]) => k \in ticksRead \/ k \notin ticks
                BY <3>1 DEF ReaderInv, MissedInv
            <4> QED
                BY <3>1, <4>1, BetweenIsMissing
        <3> QED
            BY <3>1, <3>2, <3>3 DEF HolesInv, Messages
    <2>6. CASE Score /\ UNCHANGED vars
        <3>1. /\ step = "done" /\ step' = "scored" /\ UNCHANGED <<breaks, ticks, planted, gap, crashes>>
            BY <2>6 DEF Score, vars, tableVars, localVars
        <3>2. Ranges' = Ranges
            BY <3>1 DEF Ranges, PlantedOf
        <3> QED
            BY <3>1, <3>2 DEF HolesInv, Messages
    <2> QED
        BY <1>2, <2>3, <2>4, <2>5, <2>6, Sides DEF R!ReadFills
<1> QED
    BY <1>1, <1>2

LEMMA RangesStart == ReportInit => RecentInv /\ FreshInv /\ RangesInv /\ HolesInv
BY FS_EmptySet DEF ReportInit, Init, TablesInit, R!ReaderInit, Delivered, NoGroup, Working, PlantedOf,
   RecentInv, FreshInv, RangesInv, HolesInv, Reported

(* What a report finds missing was deleted and is named by the ground      *)
(* truth, and it finds no more runs than were planted, in every window and *)
(* beside a simulator at work, if sequences follow the exchange's times.   *)
THEOREM GapsGoBack ==
    ASSUME TimesInOrder
    PROVE  ReportSpec => []GapsAreExplained
<1> DEFINE Inv == /\ BookInv /\ ReaderInv /\ FillsInv /\ StoredInv /\ MissedInv
                  /\ RecentInv /\ FreshInv /\ RangesInv /\ HolesInv
<1>1. ReportInit => Inv
    BY ReportStart, RangesStart
<1>2. Inv /\ [ReportNext]_reportVars => Inv'
    BY BookStep, ReaderStep, FillsStep, StoredStep, MissedStep, RecentStep, FreshStep, RangesStep,
       HolesStep
<1>3. Inv => GapsAreExplained
    <2> SUFFICES ASSUME Inv, Reported, StoredFirst, crashes = 0
                 PROVE  /\ \A g \in breaks.sequence_gap :
                                \A m \in (g[1] + 1) .. (g[2] - 1) : InPlantedGap(m)
                        /\ Cardinality(breaks.sequence_gap) <= Ranges
        BY DEF GapsAreExplained, Ranges
    <2>1. stored = Messages
        BY DEF StoredInv, Reported
    <2> QED
        BY <2>1 DEF HolesInv, BookInv, GapInv
<1> QED
    BY <1>1, <1>2, <1>3, PTL DEF ReportSpec

-----------------------------------------------------------------------------
(* The position after some fills. *)

Total(S) == MapThenSumSet(LAMBDA f : f.quantity, S)

(* g gives every set of fills its total, in the order of the fold. *)
TotalsUp(g, S) ==
    g = [s \in SUBSET S |-> IF s = {} THEN 0 ELSE Picked(s).quantity + g[s \ {Picked(s)}]]

LEMMA TotalIsChosenSum ==
    ASSUME NEW S
    PROVE  Total(S) = (CHOOSE g : TotalsUp(g, S))[S]
BY DEF Total, MapThenSumSet, MapThenFoldSet, TotalsUp, Picked

(* It is a sum like the others, whatever function gives the quantities. *)
LEMMA TotalIsASum ==
    ASSUME NEW S, IsFiniteSet(S), NEW q, \A f \in S : f.quantity \in Int /\ q[f] = f.quantity
    PROVE  Total(S) = SumFunctionOnSet(q, S)
<1> DEFINE g == CHOOSE h : TotalsUp(h, S)
<1>1. \A f \in S : q[f] \in Int
    OBVIOUS
<1>2. \A s \in SUBSET S : s # {} => Picked(s) \in S
    BY PickedIsIn
<1>3. \A h : TotalsUp(h, S) <=> SumsUp(h, q, S)
    <2>1. \A h : \A s \in SUBSET S :
              (IF s = {} THEN 0 ELSE Picked(s).quantity + h[s \ {Picked(s)}])
                = (IF s = {} THEN 0 ELSE q[Picked(s)] + h[s \ {Picked(s)}])
        BY <1>2
    <2> QED
        BY <2>1 DEF TotalsUp, SumsUp
<1>4. Total(S) = g[S]
    BY TotalIsChosenSum
<1>5. \E h : TotalsUp(h, S)
    BY <1>1, <1>3, SumsExist
<1>6. TotalsUp(g, S)
    BY <1>5
<1> HIDE DEF g
<1>7. SumsUp(g, q, S)
    BY <1>3, <1>6
<1>8. PICK h : SumsOf(h, q, S)
    BY <1>1, SumIsChosen
<1>9. SumsUp(h, q, S) /\ SumFunctionOnSet(q, S) = h[S]
    BY <1>8 DEF SumsOf
<1>10. S \in SUBSET S
    OBVIOUS
<1>11. h[S] = g[S]
    BY <1>1, <1>7, <1>9, <1>10, SumsAgree
<1> QED
    BY <1>4, <1>9, <1>11

LEMMA TotalOfNoFills == Total({}) = 0
<1>1. Total({}) = SumFunctionOnSet(<<>>, {})
    BY TotalIsASum, FS_EmptySet
<1> QED
    BY <1>1, SumOfNone

LEMMA TotalOfOneMore ==
    ASSUME NEW S, IsFiniteSet(S), \A f \in S : f.quantity \in Int,
           NEW x, x \notin S, x.quantity \in Int
    PROVE  Total(S \cup {x}) = Total(S) + x.quantity /\ Total(S) \in Int
<1> DEFINE U == S \cup {x}
           q == [f \in U |-> f.quantity]
<1>1. /\ \A f \in U : f.quantity \in Int /\ q[f] = f.quantity
      /\ \A f \in S : f.quantity \in Int /\ q[f] = f.quantity
      /\ \A f \in S : q[f] \in Int
      /\ q[x] = x.quantity
    OBVIOUS
<1>2. IsFiniteSet(U)
    BY FS_AddElement
<1> HIDE DEF q
<1>3. Total(S) = SumFunctionOnSet(q, S)
    BY <1>1, TotalIsASum
<1>4. Total(U) = SumFunctionOnSet(q, U)
    <2> HIDE DEF U
    <2> QED
        BY <1>1, <1>2, TotalIsASum
<1>5. SumFunctionOnSet(q, U) = q[x] + SumFunctionOnSet(q, S) /\ SumFunctionOnSet(q, S) \in Int
    <2>1. \A f \in S : q[f] \in Int
        BY <1>1
    <2>2. SumFunctionOnSet(q, S) \in Int
        BY <2>1, SumElements
    <2>3. q[x] \in Int
        BY <1>1
    <2> QED
        BY <2>1, <2>2, <2>3, SumAdded
<1> QED
    BY <1>1, <1>3, <1>4, <1>5

-----------------------------------------------------------------------------
(* One run of the simulator. *)

(* The first run writes into empty tables: its fills are numbered in the   *)
(* order it writes them, and its position is the total of the table.       *)
RunInv ==
    /\ phase = "down" <=> runs = 0
    /\ runs = 0 => fills = {} /\ positions = {}
    /\ OneRun =>
        /\ crashes > 0 => phase = "crashed"
        /\ \A f \in fills : f.id = <<1, f.sequence>> /\ f.sequence < nextSequence
        /\ phase \in Working => fill.id = <<1, fill.sequence>> /\ fill.sequence = nextSequence - 1
        /\ phase \in Working \ {"fill"} => fill \in fills
        /\ truePosition = Total(fills)

LEMMA WriteFillCounts ==
    ASSUME BookInv, RunInv, OneRun, WriteFill
    PROVE  /\ fills' = fills \cup {fill} /\ fill \notin fills
           /\ \A f \in fills : f.sequence < fill.sequence
           /\ Total(fills') = Total(fills) + fill.quantity
<1>1. phase = "fill" /\ phase \in Working /\ \A f \in fills : f.id # fill.id
    BY DEF WriteFill, BookInv, IdInv, Working
<1>2. fills' = fills \cup {fill} /\ fill \notin fills
    BY <1>1 DEF WriteFill, InsertFill
<1>3. /\ fill.sequence \in Int /\ fill.quantity \in Int /\ nextSequence \in Int
      /\ \A f \in fills : f.sequence \in Int /\ f.quantity \in Int
    BY <1>1 DEF BookInv, TypeInv, TypeOK, FillRow
<1>4. ASSUME NEW f \in fills PROVE f.sequence < fill.sequence
    <2>1. f.sequence # fill.sequence
        BY <1>1 DEF RunInv
    <2>2. f.sequence < nextSequence /\ fill.sequence = nextSequence - 1
        BY <1>1 DEF RunInv
    <2> QED
        BY <1>3, <2>1, <2>2
<1>5. Total(fills') = Total(fills) + fill.quantity
    BY <1>2, <1>3, TotalOfOneMore DEF BookInv, TypeInv
<1> QED
    BY <1>2, <1>4, <1>5

LEMMA RunStep == BookInv /\ RunInv /\ [ReportNext]_reportVars => RunInv'
<1> SUFFICES ASSUME BookInv, RunInv, [Next]_vars PROVE RunInv'
    BY Sides DEF RunInv, vars, tableVars, localVars, OneRun
<1> USE DEF localVars, tableVars, OneRun
<1>0. runs \in Nat /\ nextSequence \in Nat /\ crashes \in Nat /\ truePosition \in Int
    BY DEF BookInv, TypeInv, TypeOK
<1>1. CASE Start
    <2>1. /\ runs' = runs + 1 /\ phase' = "read" /\ truePosition' = 0 /\ crashes' = crashes
          /\ fills' = fills /\ phase \in {"down", "stopped", "crashed"}
        BY <1>1 DEF Start
    <2>2. CASE runs = 0
        <3>1. phase = "down" /\ fills = {} /\ crashes = 0
            BY <1>0, <2>2 DEF RunInv
        <3> QED
            BY <1>0, <2>1, <2>2, <3>1, TotalOfNoFills DEF RunInv, Working
    <2>3. CASE runs # 0
        BY <1>0, <2>1, <2>3 DEF RunInv
    <2> QED
        BY <2>2, <2>3
<1>2. ASSUME NEW m \in todo, Trade(m) PROVE RunInv'
    <2>1. /\ phase = "next" /\ phase' = "fill" /\ nextSequence' = nextSequence + 1
          /\ UNCHANGED <<fills, positions, truePosition, runs, crashes>>
        BY <1>2 DEF Trade, Acknowledge
    <2>2. fill'.id = <<runs, nextSequence>> /\ fill'.sequence = nextSequence
        BY <1>2 DEF Trade
    <2>3. runs # 0
        BY <2>1 DEF RunInv
    <2>4. \A f \in fills : f.sequence \in Int
        BY DEF BookInv, TypeInv, TypeOK, FillRow
    <2>5. CASE OneRun
        <3>1. runs = 1 /\ crashes = 0
            BY <1>0, <2>1, <2>3, <2>5 DEF RunInv
        <3>2. \A f \in fills : f.id = <<1, f.sequence>> /\ f.sequence < nextSequence'
            BY <1>0, <2>1, <2>4, <2>5 DEF RunInv
        <3> QED
            BY <1>0, <2>1, <2>2, <2>5, <3>1, <3>2 DEF RunInv
    <2> QED
        BY <2>1, <2>3, <2>5 DEF RunInv
<1>3. CASE WriteFill
    <2>1. /\ phase = "fill" /\ phase' \in {"log", "position"} /\ fill' = fill
          /\ truePosition' = truePosition + fill.quantity
          /\ UNCHANGED <<runs, crashes, nextSequence, positions>>
        BY <1>3 DEF WriteFill
    <2>2. runs # 0
        BY <2>1 DEF RunInv
    <2>3. CASE OneRun
        <3>1. /\ fills' = fills \cup {fill} /\ Total(fills') = Total(fills) + fill.quantity
            BY <1>3, <2>3, WriteFillCounts
        <3>2. fill.id = <<1, fill.sequence>> /\ fill.sequence = nextSequence - 1
            BY <2>1, <2>3 DEF RunInv, Working
        <3>3. fill.sequence < nextSequence
            BY <1>0, <3>2
        <3> QED
            BY <1>0, <2>1, <2>2, <2>3, <3>1, <3>2, <3>3 DEF RunInv, Working
    <2> QED
        BY <2>1, <2>2, <2>3 DEF RunInv
<1>4. CASE Crash
    <2>1. /\ phase \in Busy /\ phase' = "crashed" /\ UNCHANGED <<fills, positions, truePosition,
             nextSequence, runs>>
        BY <1>4 DEF Crash
    <2> QED
        BY <2>1 DEF RunInv, Working, Busy
<1>5. CASE /\ UNCHANGED <<fills, truePosition, runs, crashes, nextSequence>>
           /\ positions' = positions \/ phase = "position"
           /\ \/ phase' = phase /\ fill' = fill
              \/ phase \in Busy /\ phase' \in {"read", "next", "stopped"}
              \/ /\ phase \in Working \ {"fill"} /\ phase' \in Working \ {"fill"} /\ fill' = fill
    <2>1. phase' = "down" <=> phase = "down"
        BY <1>5 DEF Busy, Working
    <2>2. runs = 0 => positions' = {}
        BY <1>5 DEF RunInv
    <2>3. OneRun /\ crashes > 0 => phase' = "crashed"
        BY <1>5 DEF RunInv, Busy, Working
    <2>4. phase' \in Working => phase \in Working /\ fill' = fill
        BY <1>5 DEF Working
    <2>5. phase' \in Working \ {"fill"} => phase \in Working \ {"fill"} /\ fill' = fill
        BY <1>5 DEF Working
    <2> QED
        BY <1>5, <2>1, <2>2, <2>3, <2>4, <2>5 DEF RunInv
<1>6. CASE Publish \/ Persist \/ Read \/ ReadNothing \/ UNCHANGED vars
    BY <1>5, <1>6 DEF Publish, Persist, Read, ReadNothing, vars, Busy
<1>7. CASE LogAnomaly \/ WritePosition \/ DeleteTicks \/ LogGap
    BY <1>5, <1>7, DonePhase DEF LogAnomaly, WritePosition, DeleteTicks, LogGap, Busy, Working
<1>8. ASSUME NEW m \in todo, Skip(m) PROVE RunInv'
    <2>1. phase = "next" /\ phase' \in {"read", "next"}
          /\ UNCHANGED <<fills, positions, truePosition, runs, crashes, nextSequence>>
        BY <1>8 DEF Skip, Acknowledge, AfterMessage
    <2> QED
        BY <1>5, <2>1 DEF Busy
<1> QED
    BY <1>1, <1>2, <1>3, <1>4, <1>6, <1>7, <1>8 DEF Next, SimulatorStep

(* The true position after a fill of the table. *)
PositionAfter(f) == Total({g \in fills : g.sequence <= f.sequence})

Names(type, id) == \E a \in PlantedOf(type) : a.fill = id

(* A recorded position is the true one exactly if no drift was planted,    *)
(* and a drift is named before its row is written.                         *)
SnapshotOf(p, f) ==
    /\ p.fill = f.id /\ p.time = TickTime[f.tick]
    /\ p.quantity = PositionAfter(f) <=> f.type # "position_drift"
    /\ f.type = "position_drift" => Names("position_drift", f.id)

PositionsInv ==
    OneRun =>
        /\ \A p \in positions : \E f \in fills : SnapshotOf(p, f)
        /\ phase = "position" /\ fill.type = "position_drift" => Names("position_drift", fill.id)

(* Of the fills planted as unmatched only the newest may be without a name. *)
NamedInv ==
    OneRun =>
        \A f \in fills : f.type = "unmatched_fill" =>
            \/ Names("unmatched_fill", f.id)
            \/ f.sequence = nextSequence - 1 /\ phase \in {"log", "crashed"}

LEMMA NamesStay ==
    ASSUME [Next]_vars, NEW type, NEW id, Names(type, id)
    PROVE  Names(type, id)'
<1>1. planted \subseteq planted'
    BY DEF Next, SimulatorStep, Publish, Persist, Start, Read, ReadNothing, Skip, Trade, Acknowledge,
        WriteFill, LogAnomaly, WritePosition, DeleteTicks, LogGap, Crash, vars, tableVars, InsertAnomaly
<1> QED
    BY <1>1 DEF Names, PlantedOf

LEMMA LogAnomalyNames ==
    ASSUME BookInv, LogAnomaly
    PROVE  /\ Names(fill.type, fill.id)' /\ phase = "log" /\ fill' = fill
           /\ \A type, id : type = fill.type /\ id = fill.id => Names(type, id)'
<1> DEFINE new == [type |-> fill.type, fill |-> fill.id, first |-> None, last |-> None]
<1>1. /\ planted' = planted \cup {new} /\ new.type = fill.type /\ new.fill = fill.id
      /\ phase = "log" /\ fill' = fill
    BY DEF LogAnomaly, InsertAnomaly
<1> HIDE DEF new
<1> QED
    BY <1>1 DEF Names, PlantedOf

LEMMA PositionsStep ==
    BookInv /\ FillsInv /\ RunInv /\ PositionsInv /\ [ReportNext]_reportVars => PositionsInv'
<1> SUFFICES ASSUME BookInv, FillsInv, RunInv, PositionsInv, [Next]_vars, OneRun' PROVE PositionsInv'
    BY Sides DEF PositionsInv, vars, tableVars, localVars, OneRun, SnapshotOf, PositionAfter, Names,
        PlantedOf
<1>0. OneRun
    <2>1. runs \in Nat /\ (runs' = runs \/ runs' = runs + 1)
        BY DEF BookInv, TypeInv, TypeOK, Next, SimulatorStep, Publish, Persist, Start, Read, ReadNothing,
            Skip, Trade, Acknowledge, WriteFill, LogAnomaly, WritePosition, DeleteTicks, LogGap, Crash,
            vars, localVars
    <2> QED
        BY <2>1 DEF OneRun
<1> USE DEF localVars, tableVars
<1>1. CASE WriteFill
    <2>1. /\ fills' = fills \cup {fill} /\ \A f \in fills : f.sequence < fill.sequence
        BY <1>0, <1>1, WriteFillCounts
    <2>2. /\ UNCHANGED <<positions, fill>> /\ phase = "fill"
          /\ phase' = IF fill.type \in Logged THEN "log" ELSE "position"
        BY <1>1 DEF WriteFill
    <2>3. /\ fill.sequence \in Int /\ \A f \in fills : f.sequence \in Int
        BY <2>2 DEF BookInv, TypeInv, TypeOK, FillRow, Working
    <2>4. ASSUME NEW f \in fills PROVE PositionAfter(f)' = PositionAfter(f)
        <3>1. ~(fill.sequence <= f.sequence)
            BY <2>1, <2>3
        <3>2. {g \in fills' : g.sequence <= f.sequence} = {g \in fills : g.sequence <= f.sequence}
            BY <2>1, <3>1
        <3> QED
            BY <3>2 DEF PositionAfter
    <2>5. ASSUME NEW p \in positions, NEW f \in fills, SnapshotOf(p, f) PROVE SnapshotOf(p, f)'
        BY <2>4, <2>5, NamesStay DEF SnapshotOf
    <2>6. \A p \in positions' : \E f \in fills' : SnapshotOf(p, f)'
        BY <1>0, <2>1, <2>2, <2>5 DEF PositionsInv
    <2>7. ~(phase' = "position" /\ fill'.type = "position_drift")
        BY <2>2 DEF Logged
    <2> QED
        BY <2>6, <2>7 DEF PositionsInv
<1>2. CASE fills' = fills
    <2>1. ASSUME NEW p, NEW f, SnapshotOf(p, f) PROVE SnapshotOf(p, f)'
        BY <1>2, <2>1, NamesStay DEF SnapshotOf, PositionAfter
    <2>2. \A p \in positions : \E f \in fills' : SnapshotOf(p, f)'
        BY <1>0, <1>2, <2>1 DEF PositionsInv
    <2>3. CASE WritePosition
        <3>1. PICK q \in RecordedQuantities :
                positions' = positions \cup {[fill |-> fill.id, quantity |-> q,
                                              time |-> TickTime[fill.tick]]}
            BY <2>3 DEF WritePosition, InsertPosition
        <3> DEFINE new == [fill |-> fill.id, quantity |-> q, time |-> TickTime[fill.tick]]
        <3>2. /\ positions' = positions \cup {new} /\ new.fill = fill.id /\ new.quantity = q
              /\ new.time = TickTime[fill.tick]
            BY <3>1
        <3> HIDE DEF new
        <3>3. phase = "position" /\ fill \in fills /\ truePosition = Total(fills)
            BY <1>0, <2>3 DEF WritePosition, RunInv, Working
        <3>4. \A f \in fills : f.sequence <= fill.sequence
            <4>1. /\ nextSequence \in Int /\ fill.sequence = nextSequence - 1
                  /\ \A f \in fills : f.sequence < nextSequence /\ f.sequence \in Int
                BY <1>0, <3>3 DEF RunInv, BookInv, TypeInv, TypeOK, FillRow, Working
            <4> QED
                BY <4>1
        <3>5. PositionAfter(fill) = truePosition
            <4>1. {g \in fills : g.sequence <= fill.sequence} = fills
                BY <3>4
            <4> QED
                BY <3>3, <4>1 DEF PositionAfter
        <3>6. truePosition \in Int /\ \A d \in Drifts : d \in Int /\ d # 0
            BY DEF BookInv, TypeInv, TypeOK
        <3>7. q = truePosition <=> fill.type # "position_drift"
            <4>1. CASE fill.type = "position_drift"
                <5>1. PICK d \in Drifts : q = truePosition + d \/ q = truePosition - d
                    BY <4>1 DEF RecordedQuantities
                <5> QED
                    BY <3>6, <4>1, <5>1
            <4>2. CASE fill.type # "position_drift"
                BY <4>2 DEF RecordedQuantities
            <4> QED
                BY <4>1, <4>2
        <3>8. fill.type = "position_drift" => Names("position_drift", fill.id)
            BY <1>0, <3>3 DEF PositionsInv
        <3>9. SnapshotOf(new, fill)
            BY <3>2, <3>5, <3>7, <3>8 DEF SnapshotOf
        <3>10. ASSUME NEW p \in positions' PROVE \E f \in fills' : SnapshotOf(p, f)'
            <4>1. CASE p \in positions
                BY <1>0, <1>2, <2>1, <4>1 DEF PositionsInv
            <4>2. CASE p = new
                <5>1. PICK f \in fills : SnapshotOf(p, f)
                    BY <3>3, <3>9, <4>2
                <5> QED
                    BY <1>2, <2>1, <5>1
            <4> QED
                BY <3>2, <4>1, <4>2
        <3>11. phase' # "position"
            BY <2>3, DonePhase DEF WritePosition
        <3> QED
            BY <3>10, <3>11 DEF PositionsInv
    <2>4. CASE LogAnomaly
        <3>1. positions' = positions /\ Names(fill.type, fill.id)' /\ fill' = fill
            BY <2>4, LogAnomalyNames DEF LogAnomaly
        <3> QED
            BY <2>2, <3>1 DEF PositionsInv
    <2>5. CASE positions' = positions
               /\ (phase' = "position" => phase = "position" /\ fill' = fill)
        BY <1>0, <2>2, <2>5, NamesStay DEF PositionsInv
    <2>6. CASE Publish \/ Persist \/ Start \/ Read \/ ReadNothing \/ DeleteTicks \/ LogGap \/ Crash
               \/ UNCHANGED vars
        BY <2>5, <2>6, DonePhase DEF Publish, Persist, Start, Read, ReadNothing, DeleteTicks, LogGap,
            Crash, vars
    <2>7. ASSUME NEW m \in todo, Skip(m) \/ Trade(m) PROVE PositionsInv'
        BY <2>5, <2>7 DEF Skip, Trade, Acknowledge, AfterMessage
    <2> QED
        BY <1>1, <2>3, <2>4, <2>6, <2>7 DEF Next, SimulatorStep
<1> QED
    BY <1>1, <1>2, FillsOnlyCome

LEMMA NamedStep ==
    BookInv /\ FillsInv /\ RunInv /\ NamedInv /\ [ReportNext]_reportVars => NamedInv'
<1> SUFFICES ASSUME BookInv, FillsInv, RunInv, NamedInv, [Next]_vars, OneRun' PROVE NamedInv'
    BY Sides DEF NamedInv, vars, tableVars, localVars, OneRun, Names, PlantedOf
<1>0. OneRun /\ (Start => runs = 0)
    <2>1. runs \in Nat /\ (runs' = runs \/ runs' = runs + 1) /\ (Start => runs' = runs + 1)
        BY DEF BookInv, TypeInv, TypeOK, Next, SimulatorStep, Publish, Persist, Start, Read, ReadNothing,
            Skip, Trade, Acknowledge, WriteFill, LogAnomaly, WritePosition, DeleteTicks, LogGap, Crash,
            vars, localVars
    <2> QED
        BY <2>1 DEF OneRun
<1> USE DEF localVars, tableVars
<1>1. CASE WriteFill
    <2>1. fills' = fills \cup {fill}
        BY <1>0, <1>1, WriteFillCounts
    <2>2. /\ UNCHANGED <<planted, nextSequence>> /\ phase = "fill"
          /\ phase' = IF fill.type \in Logged THEN "log" ELSE "position"
        BY <1>1 DEF WriteFill
    <2>3. fill.sequence = nextSequence - 1
        BY <1>0, <2>2 DEF RunInv, Working
    <2>4. ASSUME NEW f \in fills, f.type = "unmatched_fill" PROVE Names("unmatched_fill", f.id)'
        BY <1>0, <2>2, <2>4, NamesStay DEF NamedInv
    <2> QED
        BY <2>1, <2>2, <2>3, <2>4 DEF NamedInv, Logged
<1>2. CASE LogAnomaly
    <2>1. /\ phase = "log" /\ fills' = fills
          /\ \A type, id : type = fill.type /\ id = fill.id => Names(type, id)'
        BY <1>2, LogAnomalyNames DEF LogAnomaly
    <2>2. ASSUME NEW f \in fills, f.type = "unmatched_fill", f.sequence = nextSequence - 1
          PROVE  Names("unmatched_fill", f.id)'
        <3>1. fill.id = <<1, fill.sequence>> /\ fill.sequence = nextSequence - 1 /\ fill \in fills
            BY <1>0, <2>1 DEF RunInv, Working
        <3>2. f = fill
            BY <1>0, <2>2, <3>1 DEF RunInv, FillsInv
        <3> QED
            BY <1>0, <2>1, <2>2, <3>1, <3>2
    <2> QED
        BY <1>0, <2>1, <2>2, NamesStay DEF NamedInv
<1>3. CASE Crash
    <2>1. phase' = "crashed" /\ UNCHANGED <<fills, nextSequence>>
        BY <1>3 DEF Crash
    <2> QED
        BY <1>0, <2>1, NamesStay DEF NamedInv
<1>4. CASE Start
    <2>1. fills' = {}
        BY <1>0, <1>4 DEF Start, RunInv
    <2> QED
        BY <2>1 DEF NamedInv
<1>5. CASE fills' = fills /\ phase \notin {"log", "crashed"}
    BY <1>0, <1>5, NamesStay DEF NamedInv
<1>6. CASE UNCHANGED <<fills, phase, nextSequence>>
    BY <1>0, <1>6, NamesStay DEF NamedInv
<1>7. CASE Publish \/ Persist \/ UNCHANGED vars
    BY <1>6, <1>7 DEF Publish, Persist, vars
<1>8. CASE Read \/ ReadNothing \/ WritePosition \/ DeleteTicks \/ LogGap
    BY <1>5, <1>8 DEF Read, ReadNothing, WritePosition, DeleteTicks, LogGap
<1>9. ASSUME NEW m \in todo, Skip(m) \/ Trade(m) PROVE NamedInv'
    BY <1>5, <1>9 DEF Skip, Trade, Acknowledge
<1> QED
    BY <1>1, <1>2, <1>3, <1>4, <1>7, <1>8, <1>9 DEF Next, SimulatorStep

-----------------------------------------------------------------------------
(* What the drift check computes. *)

LEMMA ExpectedIsTotal ==
    ASSUME NEW F, NEW g
    PROVE  R!ExpectedPosition(F, g) = Total({f \in F : R!UpTo(f, g)})
BY DEF R!ExpectedPosition, R!MapThenSumSet, R!MapThenFoldSet, Total, MapThenSumSet, MapThenFoldSet

(* The running sum is the true position if no earlier fill is missing. *)
LEMMA ExpectedIsTrue ==
    ASSUME BookInv, FillsInv, RunInv, OneRun, NEW F \in SUBSET fills, NEW f \in F,
           \A g \in fills : g.sequence < f.sequence => g \in F
    PROVE  R!ExpectedPosition(F, f) = PositionAfter(f)
<1>1. ASSUME NEW g \in fills PROVE R!UpTo(g, f) <=> g.sequence <= f.sequence
    <2>1. /\ g.sequence \in Int /\ f.sequence \in Int /\ g.id = <<1, g.sequence>>
          /\ f.id = <<1, f.sequence>> /\ g.time \in Int /\ f.time \in Int
        BY DEF RunInv, BookInv, TypeInv, TypeOK, FillRow
    <2>2. g.sequence = f.sequence => g = f
        BY <2>1 DEF FillsInv
    <2>3. g.id[1] = 1 /\ f.id[1] = 1
        BY <2>1
    <2>4. CASE g.sequence = f.sequence
        <3>1. g.time = f.time /\ g.id[1] <= f.id[1]
            BY <2>2, <2>3, <2>4
        <3> QED
            BY <2>1, <2>4, <3>1 DEF R!UpTo
    <2>5. CASE g.sequence # f.sequence
        BY <2>1, <2>5 DEF R!UpTo
    <2> QED
        BY <2>4, <2>5
<1>2. ASSUME NEW g \in fills, g.sequence <= f.sequence PROVE g \in F
    <2>1. g.sequence \in Int /\ f.sequence \in Int
        BY DEF BookInv, TypeInv, TypeOK, FillRow
    <2>2. g.sequence = f.sequence => g = f
        BY DEF RunInv, FillsInv
    <2> QED
        BY <1>2, <2>1, <2>2
<1>3. {g \in F : R!UpTo(g, f)} = {g \in fills : g.sequence <= f.sequence}
    BY <1>1, <1>2
<1> QED
    BY <1>3, ExpectedIsTotal DEF PositionAfter

(* The drift check finds exactly the drifts, if no fill is missing that    *)
(* comes before one of those read.                                         *)
LEMMA DriftsFound ==
    ASSUME BookInv, FillsInv, RunInv, PositionsInv, OneRun, NEW F \in SUBSET fills,
           \A f \in F, g \in fills : g.sequence < f.sequence => g \in F,
           NEW P \in SUBSET positions
    PROVE  R!PositionDrift(F, P) =
                {f.id : f \in {g \in F : g.type = "position_drift" /\ \E p \in P : p.fill = g.id}}
<1>1. ASSUME NEW f \in F, NEW p \in P, p.fill = f.id
      PROVE  p.quantity # R!ExpectedPosition(F, f) <=> f.type = "position_drift"
    <2>1. PICK g \in fills : SnapshotOf(p, g)
        BY DEF PositionsInv
    <2>2. g = f
        BY <1>1, <2>1 DEF SnapshotOf, FillsInv
    <2>3. R!ExpectedPosition(F, f) = PositionAfter(f)
        BY ExpectedIsTrue
    <2> QED
        BY <2>1, <2>2, <2>3 DEF SnapshotOf
<1> QED
    BY <1>1 DEF R!PositionDrift

(* A fill that was not read lies outside the window, or was written after  *)
(* the query.                                                              *)
OrderInv ==
    OneRun /\ step \in {"ticks", "positions"} =>
        \A g \in fills \ fillsRead : Seen(g.time) => \A f \in fillsRead : f.sequence < g.sequence

(* The drift breaks of a report that covers the session are named by the   *)
(* ground truth, which the score reads whole.                              *)
DriftInv ==
    /\ Reported /\ OneRun /\ SessionCovered =>
        \A id \in breaks.position_drift : Names("position_drift", id)
    /\ Scored => truth = planted

LEMMA OneRunBefore ==
    ASSUME BookInv, [Next]_vars, OneRun'
    PROVE  OneRun
<1>1. runs \in Nat /\ (runs' = runs \/ runs' = runs + 1)
    BY DEF BookInv, TypeInv, TypeOK, Next, SimulatorStep, Publish, Persist, Start, Read, ReadNothing,
        Skip, Trade, Acknowledge, WriteFill, LogAnomaly, WritePosition, DeleteTicks, LogGap, Crash,
        vars, localVars
<1> QED
    BY <1>1 DEF OneRun

(* In a window that covers the session every fill is seen. *)
LEMMA CoveredIsSeen ==
    ASSUME BookInv, FillsInv, ReaderInv, SessionCovered, NEW f \in fills
    PROVE  Seen(f.time) /\ start <= f.time /\ f.time <= Until
<1>1. /\ f.tick \in Messages /\ f.time \in FillTimes(f.tick, f.type) /\ f.time \in Int
      /\ start <= f.time /\ start \in Int
    BY DEF BookInv, TypeInv, TypeOK, FillRow, FillsInv, ReaderInv, SessionCovered
<1>2. TickTime[f.tick] \in Int /\ TickTime[f.tick] + Shift <= Until /\ Shift \in Nat
    BY <1>1, WindowAssumption
<1>3. \/ f.time = TickTime[f.tick] \/ f.time = TickTime[f.tick] - Shift
      \/ f.time = TickTime[f.tick] + Shift
    BY <1>1 DEF FillTimes
<1>4. f.time <= Until
    BY <1>2, <1>3
<1> QED
    BY <1>1, <1>4 DEF Seen, Within

LEMMA OrderStep ==
    BookInv /\ ReaderInv /\ RunInv /\ OrderInv /\ [ReportNext]_reportVars => OrderInv'
<1> SUFFICES ASSUME BookInv, ReaderInv, RunInv, OrderInv, [ReportNext]_reportVars, OneRun'
             PROVE  OrderInv'
    BY DEF OrderInv
<1>1. OneRun
    BY Sides, OneRunBefore
<1>2. CASE [Next]_vars /\ UNCHANGED readerVars
    <2>1. UNCHANGED <<step, start, fillsRead>> /\ \A t : Seen(t)' = Seen(t)
        BY <1>2 DEF readerVars, Seen
    <2>2. ASSUME NEW g \in fills' \ fills, NEW f \in fillsRead PROVE f.sequence < g.sequence
        <3>1. WriteFill /\ g = fill /\ f \in fills
            BY <1>2, <2>2, FillsOnlyCome DEF ReaderInv
        <3> QED
            BY <1>1, <3>1, WriteFillCounts
    <2> QED
        BY <1>1, <2>1, <2>2 DEF OrderInv
<1>3. CASE R!ReadFills /\ UNCHANGED vars
    BY <1>3 DEF R!ReadFills, R!FillsBetween, FillsBetween, R!Within, Within, Seen, OrderInv, vars, tableVars
<1>4. CASE (R!ReadTicks \/ R!ReadPositions \/ Score) /\ UNCHANGED vars
    BY <1>1, <1>4 DEF R!ReadTicks, R!ReadPositions, Score, OrderInv, vars, tableVars, Seen
<1> QED
    BY <1>2, <1>3, <1>4, Sides

(* A window that covers the session cuts off no earlier fill. *)
LEMMA CoveredIsWhole ==
    ASSUME BookInv, FillsInv, ReaderInv, RunInv, OrderInv, OneRun, SessionCovered,
           step \in {"ticks", "positions"}, NEW f \in fillsRead, NEW g \in fills,
           g.sequence < f.sequence
    PROVE  g \in fillsRead
<1>1. g.sequence \in Int /\ f.sequence \in Int
    BY DEF BookInv, TypeInv, TypeOK, FillRow, ReaderInv
<1>2. g \notin fillsRead => f.sequence < g.sequence
    BY CoveredIsSeen DEF OrderInv
<1> QED
    BY <1>1, <1>2

LEMMA DriftStep ==
    BookInv /\ FillsInv /\ ReaderInv /\ RunInv /\ PositionsInv /\ OrderInv /\ DriftInv
        /\ [ReportNext]_reportVars => DriftInv'
<1> SUFFICES ASSUME BookInv, FillsInv, ReaderInv, RunInv, PositionsInv, OrderInv, DriftInv,
                    [ReportNext]_reportVars
             PROVE  DriftInv'
    OBVIOUS
<1> USE DEF Reported, Scored
<1>1. CASE [Next]_vars /\ UNCHANGED readerVars
    <2>1. UNCHANGED <<step, start, breaks, truth>> /\ fills \subseteq fills'
        BY <1>1, FillsOnlyCome DEF readerVars
    <2>2. OneRun' /\ SessionCovered' => OneRun /\ SessionCovered
        BY <1>1, <2>1, OneRunBefore DEF SessionCovered
    <2>3. Scored => vars' = vars
        BY <1>1, <2>1 DEF ReportNext, reportVars, R!Reconcile, Report, R!ReadFills, R!ReadTicks,
            R!ReadPositions, Score
    <2> QED
        BY <1>1, <2>1, <2>2, <2>3, NamesStay DEF DriftInv, vars, tableVars
<1>2. CASE R!ReadPositions /\ UNCHANGED vars
    <2>1. /\ breaks'.position_drift = R!PositionDrift(fillsRead, R!PositionsBetween(start, Until))
          /\ step = "positions" /\ step' = "done" /\ start' = start
          /\ UNCHANGED <<fills, positions, planted, runs>>
        BY <1>2 DEF R!ReadPositions, vars, tableVars
    <2>2. ASSUME OneRun, SessionCovered, NEW id \in breaks'.position_drift
          PROVE  Names("position_drift", id)
        <3> DEFINE P == R!PositionsBetween(start, Until)
        <3>1. P \in SUBSET positions
            BY DEF R!PositionsBetween
        <3> HIDE DEF P
        <3>2. fillsRead \in SUBSET fills
            BY DEF ReaderInv
        <3>3. \A f \in fillsRead, g \in fills : g.sequence < f.sequence => g \in fillsRead
            BY <2>1, <2>2, CoveredIsWhole
        <3>4. PICK f \in fillsRead, p \in P : id = f.id /\ f.type = "position_drift" /\ p.fill = f.id
            BY <2>1, <2>2, <3>1, <3>2, <3>3, DriftsFound DEF P
        <3>5. PICK g \in fills : SnapshotOf(p, g)
            BY <2>2, <3>1 DEF PositionsInv
        <3>6. g = f
            BY <3>2, <3>4, <3>5 DEF SnapshotOf, FillsInv
        <3> QED
            BY <3>4, <3>5, <3>6 DEF SnapshotOf
    <2> QED
        BY <2>1, <2>2 DEF DriftInv, OneRun, SessionCovered, Names, PlantedOf
<1>3. CASE Score /\ UNCHANGED vars
    BY <1>3 DEF Score, GroundTruth, DriftInv, OneRun, SessionCovered, Names, PlantedOf, vars, tableVars,
        localVars
<1>4. CASE (R!ReadFills \/ R!ReadTicks) /\ UNCHANGED vars
    BY <1>4 DEF R!ReadFills, R!ReadTicks, DriftInv
<1> QED
    BY <1>1, <1>2, <1>3, <1>4, Sides

LEMMA RunStart == ReportInit => RunInv /\ PositionsInv /\ NamedInv /\ OrderInv /\ DriftInv
<1>1. ReportInit => /\ phase = "down" /\ runs = 0 /\ fills = {} /\ positions = {} /\ step = "fills"
                    /\ truePosition = 0 /\ crashes = 0 /\ fillsRead = {}
    BY DEF ReportInit, Init, TablesInit, R!ReaderInit
<1> QED
    BY <1>1, TotalOfNoFills DEF RunInv, PositionsInv, NamedInv, OrderInv, DriftInv, Working, Reported,
       Scored

(* A position row is in the window unless it is before its start. *)
LEMMA RowsEndInTime ==
    ASSUME BookInv, ReaderInv, PositionsInv, OneRun
    PROVE  R!PositionsBetween(start, Until) = {q \in positions : q.time >= start}
<1>1. ASSUME NEW p \in positions PROVE p.time \in Int /\ p.time <= Until
    <2>1. PICK f \in fills : p.time = TickTime[f.tick]
        BY DEF PositionsInv, SnapshotOf
    <2>2. f.tick \in Messages
        BY DEF BookInv, TypeInv, TypeOK, FillRow
    <2>3. TickTime[f.tick] \in Int /\ TickTime[f.tick] + Shift <= Until /\ Shift \in Nat
        BY <2>2, WindowAssumption
    <2> QED
        BY <2>1, <2>3
<1>2. start \in Int
    BY DEF ReaderInv
<1>3. \A p \in positions : R!Within(p.time, start, Until) <=> p.time >= start
    BY <1>1, <1>2 DEF R!Within
<1> QED
    BY <1>3 DEF R!PositionsBetween

(* The drift breaks of a report are exactly the planted drifts among the   *)
(* rows in its window, whichever statements of the simulator fall between  *)
(* its three queries.                                                      *)
THEOREM DriftsAreExact == ReportSpec => DriftIsExact
<1> DEFINE Inv == BookInv /\ ReaderInv /\ FillsInv /\ RunInv /\ PositionsInv
           Exact == step = "positions" /\ step' = "done" /\ OneRun /\ NoneSkipped =>
                        breaks'.position_drift =
                            {p.fill : p \in {q \in positions : q.time >= start}}
                                \cap DriftedRows \cap {f.id : f \in fillsRead}
<1>1. ReportInit => Inv
    BY ReportStart, RunStart
<1>2. Inv /\ [ReportNext]_reportVars => Inv'
    BY BookStep, ReaderStep, FillsStep, RunStep, PositionsStep
<1>3. Inv /\ [ReportNext]_reportVars => Exact
    <2> SUFFICES ASSUME Inv, [ReportNext]_reportVars, step = "positions", step' = "done", OneRun,
                        NoneSkipped
                 PROVE  breaks'.position_drift =
                            {p.fill : p \in {q \in positions : q.time >= start}}
                                \cap DriftedRows \cap {f.id : f \in fillsRead}
        OBVIOUS
    <2> DEFINE P == R!PositionsBetween(start, Until)
    <2>1. R!ReadPositions /\ UNCHANGED vars
        BY Sides DEF readerVars, R!ReadFills, R!ReadTicks, Score
    <2>2. breaks'.position_drift = R!PositionDrift(fillsRead, P)
        BY <2>1 DEF R!ReadPositions
    <2>3. P = {q \in positions : q.time >= start}
        BY RowsEndInTime
    <2> HIDE DEF P
    <2>4. breaks'.position_drift =
            {f.id : f \in {g \in fillsRead : g.type = "position_drift" /\ \E p \in P : p.fill = g.id}}
        <3>1. fillsRead \in SUBSET fills /\ P \in SUBSET positions
            BY <2>3 DEF ReaderInv
        <3> QED
            BY <2>2, <3>1, DriftsFound DEF NoneSkipped
    <2>5. ASSUME NEW f \in fillsRead
          PROVE  f.type = "position_drift" <=> f.id \in FillsOf("position_drift")
        BY DEF FillsOf, FillsInv, ReaderInv
    <2>6. \A p \in positions : p.fill \in DriftedRows <=> p.fill \in FillsOf("position_drift")
        BY DEF DriftedRows
    <2> QED
        BY <2>3, <2>4, <2>5, <2>6
<1> QED
    BY <1>1, <1>2, <1>3, PTL DEF ReportSpec, DriftIsExact

(* A report that races the simulator, or follows its death, calls no drift *)
(* false, and of the fills planted as unmatched at most the newest, whose  *)
(* name the ground truth did not hold yet: the row is written before it.   *)
THEOREM RaceIsOneRow == ReportSpec => []RaceCostsOneRow
<1> DEFINE Inv == /\ BookInv /\ ReaderInv /\ FillsInv /\ RunInv /\ PositionsInv /\ NamedInv
                  /\ OrderInv /\ DriftInv
           Late == FalsePositives("unmatched_fill") \cap FillsOf("unmatched_fill")
           Newest == <<1, nextSequence - 1>>
<1>1. ReportInit => Inv
    BY ReportStart, RunStart
<1>2. Inv /\ [ReportNext]_reportVars => Inv'
    BY BookStep, ReaderStep, FillsStep, RunStep, PositionsStep, NamedStep, OrderStep, DriftStep
<1>3. Inv => RaceCostsOneRow
    <2> SUFFICES ASSUME Inv, Scored, OneRun, SessionCovered
                 PROVE  FalsePositives("position_drift") = {} /\ Cardinality(Late) <= 1
        BY DEF RaceCostsOneRow
    <2>1. \A type : PlantedIds(type) = {a.fill : a \in PlantedOf(type)}
        BY DEF PlantedIds, PlantedOf, DriftInv
    <2>2. FalsePositives("position_drift") = {}
        BY <2>1 DEF FalsePositives, DriftInv, Names, Scored, Reported
    <2>3. ASSUME NEW id \in Late PROVE id = Newest
        <3>1. PICK f \in fills : id = f.id /\ f.type = "unmatched_fill"
            BY DEF FillsOf
        <3>2. ~Names("unmatched_fill", id)
            BY <2>1 DEF FalsePositives, Names
        <3>3. f.sequence = nextSequence - 1
            BY <3>1, <3>2 DEF NamedInv
        <3> QED
            BY <3>1, <3>3 DEF RunInv
    <2> HIDE DEF Late, Newest
    <2>4. Late \in SUBSET {Newest}
        BY <2>3
    <2>5. IsFiniteSet({Newest}) /\ Cardinality({Newest}) = 1
        BY FS_Singleton
    <2>6. Cardinality(Late) <= Cardinality({Newest})
        BY <2>4, <2>5, FS_Subset
    <2> QED
        BY <2>2, <2>5, <2>6
<1> QED
    BY <1>1, <1>2, <1>3, PTL DEF ReportSpec

-----------------------------------------------------------------------------
(* When the simulator had ended before the report began. *)

(* The breaks a report would find in the tables as they are. *)
FillsInWindow == R!FillsBetween(start - MatchWindow, Until + MatchWindow)
RowsInWindow == R!PositionsBetween(start, Until)
UnmatchedNow == R!UnmatchedFills(FillsInWindow, R!TicksSeen)
DriftsNow == R!PositionDrift(FillsInWindow, RowsInWindow)
GapsNow == R!SequenceGaps(R!TicksSeen)

(* After the simulator has ended nothing changes in the tables any more,   *)
(* and the three queries see one state of them.                            *)
QuietInv ==
    quiet /\ OneRun /\ StoredFirst /\ step # "fills" =>
        /\ phase = "stopped"
        /\ step \in {"ticks", "positions"} => fillsRead = FillsInWindow
        /\ step = "positions" => ticksRead = R!TicksSeen
        /\ Reported =>
            /\ breaks.unmatched_fill = UnmatchedNow
            /\ breaks.position_drift = DriftsNow
            /\ breaks.sequence_gap = GapsNow

(* What is deleted lies before everything the simulator has still to do,   *)
(* and before a tick that stays: the newest tracked is never chosen.       *)
TailInv ==
    \A m \in stored \ ticks :
        /\ m <= cursor
        /\ \A j \in todo : m < j
        /\ phase \in Working => m < fill.tick
        /\ StoredFirst => \E k \in ticks : m < k

(* A range begins before it ends. *)
EndsInv == \A a \in PlantedOf("sequence_gap") : a.first <= a.last

LEMMA QuietIsNoted ==
    ASSUME [ReportNext]_reportVars
    PROVE  /\ step # "fills" => quiet' = quiet
           /\ step = "fills" /\ step' # "fills" => quiet' = (phase = "stopped")
BY DEF ReportNext, reportVars, readerVars, Report, Score

LEMMA StoppedIsStill ==
    ASSUME BookInv, RunInv, [Next]_vars, phase = "stopped", stored = Messages, OneRun'
    PROVE  phase' = "stopped" /\ UNCHANGED tableVars
<1>1. ~Persist
    BY DEF Persist, Messages, BookInv, TypeInv, TypeOK, GroupTypeOK
<1>2. ~Start
    <2>1. runs \in Nat /\ runs # 0
        BY DEF BookInv, TypeInv, TypeOK, RunInv
    <2> QED
        BY <2>1 DEF Start, OneRun
<1> QED
    BY <1>1, <1>2 DEF Next, SimulatorStep, Publish, Read, ReadNothing, Skip, Trade, Acknowledge,
        WriteFill, LogAnomaly, WritePosition, DeleteTicks, LogGap, Crash, Busy, vars

LEMMA SameTables ==
    ASSUME UNCHANGED <<tableVars, start>>
    PROVE  /\ FillsInWindow' = FillsInWindow /\ R!TicksSeen' = R!TicksSeen
           /\ UNCHANGED <<UnmatchedNow, DriftsNow, GapsNow>>
<1>1. /\ FillsInWindow' = FillsInWindow /\ R!TicksSeen' = R!TicksSeen
      /\ RowsInWindow' = RowsInWindow
    BY DEF FillsInWindow, RowsInWindow, R!FillsBetween, R!TicksSeen, R!TicksBetween,
           R!PositionsBetween, tableVars
<1>2. UnmatchedNow' = UnmatchedNow
    BY <1>1 DEF UnmatchedNow, R!UnmatchedFills
<1>3. GapsNow' = GapsNow
    BY <1>1 DEF GapsNow, R!SequenceGaps
<1>4. DriftsNow' = DriftsNow
    BY <1>1 DEF DriftsNow
<1> QED
    BY <1>1, <1>2, <1>3, <1>4

LEMMA QuietStep ==
    BookInv /\ StoredInv /\ RunInv /\ QuietInv /\ [ReportNext]_reportVars => QuietInv'
<1> SUFFICES ASSUME BookInv, StoredInv, RunInv, QuietInv, [ReportNext]_reportVars,
                    quiet', OneRun', StoredFirst, step' # "fills"
             PROVE  QuietInv'
    BY DEF QuietInv
<1> USE DEF Reported
<1>1. OneRun
    BY Sides, OneRunBefore
<1>2. CASE [Next]_vars /\ UNCHANGED readerVars
    <2>1. quiet /\ step # "fills" /\ UNCHANGED <<step, start, fillsRead, ticksRead, breaks>>
        BY <1>2 DEF readerVars
    <2>2. phase' = "stopped" /\ UNCHANGED tableVars
        BY <1>1, <1>2, <2>1, StoppedIsStill DEF QuietInv, StoredInv
    <2> QED
        BY <1>1, <2>1, <2>2, SameTables DEF QuietInv
<1>3. CASE R!ReadFills /\ UNCHANGED vars
    <2>1. step = "fills" /\ step' = "ticks" /\ UNCHANGED <<fills, phase>>
          /\ fillsRead' = R!FillsBetween(start' - MatchWindow, Until + MatchWindow)
        BY <1>3 DEF R!ReadFills, vars, tableVars
    <2>2. phase = "stopped"
        BY <2>1, QuietIsNoted
    <2>3. fillsRead' = FillsInWindow'
        BY <2>1 DEF FillsInWindow, R!FillsBetween
    <2> QED
        BY <2>1, <2>2, <2>3 DEF QuietInv
<1>4. CASE (R!ReadTicks \/ R!ReadPositions \/ Score) /\ UNCHANGED vars
    <2>1. step # "fills"
        BY <1>4 DEF R!ReadTicks, R!ReadPositions, Score
    <2>2. quiet
        BY <2>1, QuietIsNoted
    <2>3. UNCHANGED <<tableVars, phase, start>>
        BY <1>4 DEF R!ReadTicks, R!ReadPositions, Score, vars
    <2>4. CASE R!ReadTicks
        BY <1>1, <2>1, <2>2, <2>3, <2>4, SameTables DEF R!ReadTicks, QuietInv
    <2>5. CASE R!ReadPositions
        <3>1. /\ breaks'.unmatched_fill = R!UnmatchedFills(fillsRead, ticksRead)
              /\ breaks'.position_drift = R!PositionDrift(fillsRead, RowsInWindow)
              /\ breaks'.sequence_gap = R!SequenceGaps(ticksRead)
              /\ step = "positions" /\ step' = "done"
            BY <2>5 DEF R!ReadPositions, RowsInWindow
        <3>2. /\ breaks'.unmatched_fill = UnmatchedNow
              /\ breaks'.position_drift = DriftsNow
              /\ breaks'.sequence_gap = GapsNow
              /\ phase = "stopped"
            BY <1>1, <2>2, <3>1 DEF QuietInv, UnmatchedNow, DriftsNow, GapsNow
        <3> QED
            BY <2>3, <3>1, <3>2, SameTables DEF QuietInv
    <2>6. CASE Score
        BY <1>1, <2>1, <2>2, <2>3, <2>6, SameTables DEF Score, QuietInv
    <2> QED
        BY <1>4, <2>4, <2>5, <2>6
<1> QED
    BY <1>2, <1>3, <1>4, Sides

LEMMA TailStep ==
    BookInv /\ StoredInv /\ RecentInv /\ TailInv /\ [ReportNext]_reportVars => TailInv'
<1> SUFFICES ASSUME BookInv, StoredInv, RecentInv, TailInv, [Next]_vars PROVE TailInv'
    BY Sides DEF TailInv, vars, tableVars, localVars, groupVars
<1> DEFINE Deleted == stored \ ticks
<1> USE DEF localVars, tableVars, groupVars
<1>0. /\ \A m \in Messages : m \in Int
      /\ stored \subseteq Messages /\ ticks \subseteq stored /\ todo \subseteq Messages
      /\ cursor \in Int
    BY DEF BookInv, TypeInv, TypeOK, GroupTypeOK, Messages, NoGroup
<1>1. CASE /\ Deleted' \subseteq Deleted /\ ticks \subseteq ticks'
           /\ cursor' \in Int /\ cursor <= cursor'
           /\ todo' \subseteq todo
           /\ phase' \in Working => phase \in Working /\ fill' = fill
    <2> SUFFICES ASSUME NEW m \in Deleted'
                 PROVE  /\ m <= cursor' /\ \A j \in todo' : m < j
                        /\ phase' \in Working => m < fill'.tick
                        /\ StoredFirst => \E k \in ticks' : m < k
        BY DEF TailInv
    <2>1. m \in Deleted /\ m \in Int /\ m <= cursor
        BY <1>0, <1>1 DEF TailInv
    <2>2. m <= cursor'
        BY <1>0, <1>1, <2>1
    <2> QED
        BY <1>1, <2>1, <2>2 DEF TailInv
<1>2. CASE Publish \/ Persist \/ ReadNothing \/ WriteFill \/ LogAnomaly \/ WritePosition \/ LogGap
           \/ Crash \/ UNCHANGED vars
    BY <1>0, <1>1, <1>2, DonePhase DEF Publish, Persist, ReadNothing, WriteFill, LogAnomaly,
        WritePosition, LogGap, Crash, vars, Working
<1>3. CASE Start
    <2>1. cursor' \in Int /\ cursor <= cursor'
        BY <1>0, <1>3 DEF Start, CreateGroup, NoGroup
    <2> QED
        BY <1>1, <1>3, <2>1 DEF Start, Working
<1>4. CASE Read
    <2>1. /\ UNCHANGED <<stored, ticks>> /\ phase' = "next" /\ todo' = Fresh(ReadCount)
          /\ cursor' = IF cursor + ReadCount < published THEN cursor + ReadCount ELSE published
          /\ cursor <= published /\ published \in Int
        BY <1>4 DEF Read, ReadGroup, BookInv, TakenInv, TypeInv, TypeOK, GroupTypeOK
    <2>2. cursor' \in Int /\ cursor <= cursor' /\ \A j \in todo' : cursor < j /\ j \in Int
        <3>1. \A j \in todo' : cursor < j /\ j \in Int
            BY <1>0, <2>1 DEF Fresh
        <3> QED
            BY <1>0, <2>1, <3>1
    <2>3. ASSUME NEW m \in Deleted' PROVE m <= cursor' /\ \A j \in todo' : m < j
        <3>1. m \in Int /\ m <= cursor
            BY <1>0, <2>1 DEF TailInv
        <3> QED
            BY <1>0, <2>2, <3>1
    <2> QED
        BY <2>1, <2>3 DEF TailInv, Working
<1>5. ASSUME NEW n \in todo, Skip(n) \/ Trade(n) PROVE TailInv'
    <2>1. /\ UNCHANGED <<stored, ticks, cursor>> /\ todo' \subseteq todo
          /\ phase' \in Working => fill'.tick = n
        BY <1>5 DEF Skip, Trade, Acknowledge, AfterMessage, Working
    <2> QED
        BY <2>1 DEF TailInv
<1>6. CASE DeleteTicks
    <2>1. /\ UNCHANGED <<stored, cursor, todo, fill>> /\ phase = "delete" /\ phase \in Working
        BY <1>6 DEF DeleteTicks, Working
    <2>2. CASE ticks' = ticks
        BY <1>0, <1>1, <2>1, <2>2
    <2>3. ASSUME NEW chosen \in GapChoices, ticks' = ticks \ chosen PROVE TailInv'
        <3>1. /\ chosen \subseteq recent /\ fill.tick \in recent
              /\ \A k \in recent : k <= fill.tick
              /\ \A k \in recent, j \in todo : k < j
              /\ recent \subseteq Delivered
            BY <2>1, ChosenAreNeighbours DEF RecentInv, BookInv
        <3>2. fill.tick \notin chosen
            BY <3>1, ChosenAreNeighbours DEF BookInv
        <3>3. fill.tick \in Int /\ \A k \in recent : k \in Int
            BY <1>0, <3>1 DEF Delivered
        <3>4. ASSUME NEW m \in Deleted'
              PROVE  m <= cursor /\ (\A j \in todo : m < j) /\ m < fill.tick
            <4>1. CASE m \in Deleted
                BY <2>1, <4>1 DEF TailInv
            <4>2. CASE m \in chosen
                <5>1. m # fill.tick /\ m <= fill.tick
                    BY <3>1, <3>2, <4>2
                <5>2. m < fill.tick
                    BY <3>1, <3>3, <4>2, <5>1
                <5> QED
                    BY <3>1, <4>2, <5>2 DEF Delivered
            <4> QED
                BY <2>1, <2>3, <4>1, <4>2
        <3>5. StoredFirst => fill.tick \in ticks'
            <4>1. StoredFirst => stored = Messages
                BY <2>1 DEF StoredInv
            <4>2. fill.tick \in Messages
                BY <3>1 DEF Delivered
            <4>3. ~(fill.tick < fill.tick)
                BY <3>3
            <4>4. fill.tick \notin Deleted
                BY <2>1, <4>3 DEF TailInv
            <4> QED
                BY <2>3, <3>2, <4>1, <4>2, <4>4
        <3> QED
            BY <2>1, <3>4, <3>5 DEF TailInv
    <2> QED
        BY <1>6, <2>2, <2>3 DEF DeleteTicks, DeleteSequences
<1> QED
    BY <1>2, <1>3, <1>4, <1>5, <1>6 DEF Next, SimulatorStep

LEMMA EndsStep == BookInv /\ EndsInv /\ [ReportNext]_reportVars => EndsInv'
<1> SUFFICES ASSUME BookInv, EndsInv, [Next]_vars PROVE EndsInv'
    BY Sides DEF EndsInv, vars, tableVars, PlantedOf
<1> USE DEF localVars, tableVars
<1>1. CASE LogGap
    <2> DEFINE new == [type |-> "sequence_gap", fill |-> None,
                       first |-> Min(gap), last |-> Max(gap)]
    <2>1. /\ planted' = planted \cup {new} /\ gap # {} /\ gap \subseteq Messages
          /\ new.first = Min(gap) /\ new.last = Max(gap)
        BY <1>1 DEF LogGap, InsertAnomaly, BookInv, TypeInv, TypeOK
    <2> HIDE DEF new
    <2>2. Min(gap) <= Max(gap)
        BY <2>1, MinOfMessages
    <2> QED
        BY <2>1, <2>2 DEF EndsInv, PlantedOf
<1>2. CASE LogAnomaly
    <2> DEFINE new == [type |-> fill.type, fill |-> fill.id, first |-> None, last |-> None]
    <2>1. planted' = planted \cup {new} /\ new.type # "sequence_gap"
        BY <1>2 DEF LogAnomaly, InsertAnomaly, BookInv, TypeInv, Logged
    <2> HIDE DEF new
    <2> QED
        BY <2>1 DEF EndsInv, PlantedOf
<1>3. CASE planted' = planted
    BY <1>3 DEF EndsInv, PlantedOf
<1> QED
    BY <1>1, <1>2, <1>3 DEF Next, SimulatorStep, Publish, Persist, Start, Read, ReadNothing, Skip, Trade,
        Acknowledge, WriteFill, WritePosition, DeleteTicks, Crash, vars

LEMMA QuietStart == ReportInit => QuietInv /\ TailInv /\ EndsInv
BY DEF ReportInit, Init, TablesInit, R!ReaderInit, QuietInv, TailInv, EndsInv, PlantedOf

(* The premises of PlantedIsFound, with what the invariants make of them. *)
QuietReport ==
    /\ BookInv /\ ReaderInv /\ FillsInv /\ StoredInv /\ RunInv /\ PositionsInv /\ DriftInv
    /\ RangesInv /\ QuietInv /\ TailInv /\ EndsInv
    /\ Scored /\ quiet /\ OneRun /\ StoredFirst /\ SessionCovered

LEMMA QuietFacts ==
    ASSUME QuietReport
    PROVE  /\ phase = "stopped" /\ crashes = 0 /\ stored = Messages
           /\ FillsInWindow = fills
           /\ breaks.unmatched_fill = UnmatchedNow
           /\ breaks.position_drift = DriftsNow
           /\ breaks.sequence_gap = GapsNow
           /\ \A type : PlantedIds(type) = {a.fill : a \in PlantedOf(type)}
<1> USE DEF QuietReport, Scored
<1>1. /\ phase = "stopped"
      /\ breaks.unmatched_fill = UnmatchedNow /\ breaks.position_drift = DriftsNow
      /\ breaks.sequence_gap = GapsNow
    BY DEF QuietInv, Reported
<1>2. crashes = 0
    BY <1>1 DEF RunInv, BookInv, TypeInv, TypeOK
<1>3. stored = Messages
    BY DEF StoredInv
<1>4. FillsInWindow = fills
    <2>1. \A f \in fills : Seen(f.time)
        BY CoveredIsSeen
    <2> QED
        BY <2>1 DEF FillsInWindow, R!FillsBetween, R!Within, Seen, Within
<1>5. \A type : PlantedIds(type) = {a.fill : a \in PlantedOf(type)}
    BY DEF PlantedIds, PlantedOf, DriftInv
<1> QED
    BY <1>1, <1>2, <1>3, <1>4, <1>5

(* Every planted drift has a row in the window that is not the sum. *)
LEMMA DriftsAreFound ==
    ASSUME QuietReport, NEW id, id \in PlantedIds("position_drift")
    PROVE  id \in breaks.position_drift
<1> USE DEF QuietReport
<1>1. id \in FillsOf("position_drift")
    BY QuietFacts DEF BookInv, RowsInv, Logged
<1>2. PICK f \in fills : f.id = id /\ f.type = "position_drift"
    BY <1>1 DEF FillsOf
<1>3. PICK p \in positions : p.fill = id
    BY <1>1, QuietFacts DEF BookInv, RowsInv
<1>4. PICK g \in fills : SnapshotOf(p, g)
    BY DEF PositionsInv
<1>5. p.time = TickTime[f.tick]
    BY <1>2, <1>3, <1>4 DEF SnapshotOf, FillsInv
<1>6. f.time = TickTime[f.tick]
    BY <1>2 DEF FillsInv, FillTimes
<1>7. start <= p.time
    BY <1>5, <1>6 DEF SessionCovered
<1>8. p.time \in Int /\ start \in Int
    BY DEF BookInv, TypeInv, TypeOK, ReaderInv
<1>9. p \in RowsInWindow
    BY <1>7, <1>8, RowsEndInTime DEF RowsInWindow
<1> DEFINE P == RowsInWindow
<1>10. P \in SUBSET positions
    BY DEF RowsInWindow, R!PositionsBetween
<1> HIDE DEF P
<1>11. R!PositionDrift(fills, P) =
            {h.id : h \in {k \in fills : k.type = "position_drift" /\ \E r \in P : r.fill = k.id}}
    BY <1>10, DriftsFound
<1>12. id \in R!PositionDrift(fills, P)
    <2>1. \E r \in P : r.fill = f.id
        BY <1>2, <1>3, <1>9 DEF P
    <2> QED
        BY <1>2, <1>11, <2>1
<1> QED
    BY <1>12, QuietFacts DEF DriftsNow, P

(* A fill away from every tick is away from those in the window. *)
LEMMA FarIsFound ==
    ASSUME QuietReport, NEW f \in fills, FarFromTicks(f)
    PROVE  f.id \in breaks.unmatched_fill
<1>1. R!TicksSeen \subseteq Messages
    BY DEF QuietReport, R!TicksSeen, R!TicksBetween, BookInv, TypeInv, TypeOK
<1>2. f.id \in R!UnmatchedFills(fills, R!TicksSeen)
    BY <1>1 DEF R!UnmatchedFills, FarFromTicks
<1> QED
    BY <1>2, QuietFacts DEF UnmatchedNow

(* What the scan of the sequences is for: a sequence lies in a break found *)
(* exactly when it was not read while a smaller and a larger one were, and *)
(* in one break only.                                                      *)
THEOREM ScanIsExact ==
    ASSUME NEW T \in SUBSET Messages, NEW m \in Int
    PROVE  /\ (\E g \in R!SequenceGaps(T) : g[1] < m /\ m < g[2])
                <=> m \notin T /\ (\E a \in T : a < m) /\ (\E b \in T : m < b)
           /\ \A g, h \in R!SequenceGaps(T) :
                g[1] < m /\ m < g[2] /\ h[1] < m /\ m < h[2] => g = h
<1>1. \A g \in R!SequenceGaps(T) : /\ g[1] \in T /\ g[2] \in T /\ g = <<g[1], g[2]>>
                                   /\ \A n \in T : ~(g[1] < n /\ n < g[2])
    BY DEF R!SequenceGaps
<1>2. \A n \in T : n \in Int
    BY DEF Messages
<1>3. ASSUME NEW g \in R!SequenceGaps(T), NEW h \in R!SequenceGaps(T),
             g[1] < m, m < g[2], h[1] < m, m < h[2]
      PROVE  g = h
    <2>1. /\ g[1] \in Int /\ g[2] \in Int /\ h[1] \in Int /\ h[2] \in Int
          /\ g = <<g[1], g[2]>> /\ h = <<h[1], h[2]>>
        BY <1>1, <1>2
    <2>2. ~(g[1] < h[1]) /\ ~(h[1] < g[1]) /\ ~(g[2] < h[2]) /\ ~(h[2] < g[2])
        BY <1>1, <1>3, <2>1
    <2>3. g[1] = h[1] /\ g[2] = h[2]
        BY <2>1, <2>2
    <2> QED
        BY <2>1, <2>3
<1>4. ASSUME NEW a \in T, NEW b \in T, a < m, m < b, m \notin T
      PROVE  \E g \in R!SequenceGaps(T) : g[1] < m /\ m < g[2]
    <2> DEFINE L == {n \in T : n < m}
               H == {n \in T : m < n}
               l == Max(L)
               r == Min(H)
    <2>1. /\ l \in L /\ \A n \in L : n <= l
          /\ r \in H /\ \A n \in H : r <= n
        <3>1. L \in SUBSET Messages /\ H \in SUBSET Messages /\ a \in L /\ b \in H
            BY <1>4
        <3> HIDE DEF L, H
        <3> QED
            BY <3>1, MinOfMessages
    <2>2. l \in T /\ r \in T /\ l \in Int /\ r \in Int /\ l < m /\ m < r
        BY <1>2, <2>1
    <2>3. \A n \in T : n <= l \/ r <= n
        BY <1>2, <1>4, <2>1
    <2> HIDE DEF l, r
    <2>4. r - l > 1 /\ \A n \in T : ~(l < n /\ n < r)
        BY <1>2, <2>2, <2>3
    <2>5. <<l, r>> \in T \X T /\ <<l, r>>[1] = l /\ <<l, r>>[2] = r
        BY <2>2
    <2>6. <<l, r>> \in R!SequenceGaps(T)
        BY <2>4, <2>5 DEF R!SequenceGaps
    <2> QED
        BY <2>2, <2>5, <2>6
<1> QED
    BY <1>1, <1>3, <1>4

(* The ticks next to a planted range are in the window if one before the   *)
(* range is, and the run between them holds the range.                     *)
LEMMA RangeIsFound ==
    ASSUME TimesInOrder, QuietReport, NEW a \in PlantedOf("sequence_gap"),
           NEW before \in R!TicksSeen, before < a.first
    PROVE  \E g \in breaks.sequence_gap : g[1] < a.first /\ a.last < g[2]
<1> DEFINE T == R!TicksSeen
<1> USE DEF QuietReport
<1>1. /\ T \subseteq ticks /\ \A m \in ticks : m \in T <=> Seen(TickTime[m])
      /\ ticks \subseteq Messages /\ \A m \in Messages : m \in Int
    BY DEF R!TicksSeen, R!TicksBetween, R!Within, Seen, Within, BookInv, TypeInv, TypeOK, Messages
<1>2. a.first \in stored \ ticks /\ a.last \in stored \ ticks /\ stored = Messages
    BY QuietFacts DEF BookInv, GapInv
<1>3. a.first \in Int /\ a.last \in Int /\ a.first <= a.last
    BY <1>1, <1>2 DEF EndsInv
<1>4. PICK k \in ticks : a.last < k
    BY <1>2 DEF TailInv
<1>5. k \in T
    <2>1. before \in Messages /\ k \in Messages /\ Seen(TickTime[before])
        BY <1>1
    <2>2. before <= k
        BY <1>1, <1>3, <1>4, <2>1
    <2>3. TickTime[before] <= TickTime[k] /\ TickTime[k] + Shift <= Until
        BY <2>1, <2>2, WindowAssumption DEF TimesInOrder
    <2>4. TickTime[before] \in Int /\ TickTime[k] \in Int /\ start \in Int /\ Shift \in Nat
        BY <2>1 DEF ReaderInv
    <2>5. start - MatchWindow <= TickTime[before]
        BY <2>1 DEF Seen, Within
    <2>6. start - MatchWindow <= TickTime[k]
        BY <2>3, <2>4, <2>5
    <2>7. TickTime[k] <= Until + MatchWindow
        BY <2>3, <2>4
    <2> QED
        BY <1>1, <2>6, <2>7 DEF Seen, Within
<1>6. before \in T /\ a.first < k /\ \A m \in T : ~(a.first <= m /\ m <= a.last)
    <2>1. \A m \in T : m \in Int /\ m \in Messages /\ m \in ticks
        BY <1>1
    <2>2. a.first < k
        BY <1>3, <1>4, <1>5, <2>1
    <2> QED
        BY <2>1, <2>2 DEF RangesInv
<1> HIDE DEF T
<1>7. PICK g \in R!SequenceGaps(T) : g[1] < a.first /\ a.first < g[2]
    <2>1. T \in SUBSET Messages /\ a.first \notin T /\ a.first \in Int
        BY <1>1, <1>2, <1>3
    <2>2. (\E m \in T : m < a.first) /\ (\E m \in T : a.first < m)
        BY <1>5, <1>6
    <2> QED
        BY <2>1, <2>2, ScanIsExact
<1>8. a.last < g[2]
    <2>1. g[2] \in T /\ g[2] \in Int
        BY <1>1, <1>7 DEF R!SequenceGaps
    <2> QED
        BY <1>3, <1>6, <1>7, <2>1
<1>9. g \in breaks.sequence_gap
    BY <1>7, QuietFacts DEF GapsNow, T
<1> QED
    BY <1>7, <1>8, <1>9

(* "Perfect detection": the report on a session whose simulator had ended  *)
(* by itself finds every drift, every fill moved away from the ticks and   *)
(* every gap with a tick before it, if sequences follow the exchange's     *)
(* times.                                                                  *)
THEOREM DetectionIsPerfect ==
    ASSUME TimesInOrder
    PROVE  ReportSpec => []PlantedIsFound
<1> DEFINE Inv == /\ BookInv /\ ReaderInv /\ FillsInv /\ StoredInv /\ RecentInv /\ RangesInv
                  /\ RunInv /\ PositionsInv /\ OrderInv /\ DriftInv
                  /\ QuietInv /\ TailInv /\ EndsInv
<1>1. ReportInit => Inv
    BY ReportStart, RangesStart, RunStart, QuietStart
<1>2. Inv /\ [ReportNext]_reportVars => Inv'
    BY BookStep, ReaderStep, FillsStep, StoredStep, RecentStep, RangesStep, RunStep, PositionsStep,
       OrderStep, DriftStep, QuietStep, TailStep, EndsStep
<1>3. Inv => PlantedIsFound
    <2> SUFFICES ASSUME QuietReport
                 PROVE  /\ FalseNegatives("position_drift") = {}
                        /\ \A f \in fills : f.id \in FalseNegatives("unmatched_fill") => ~FarFromTicks(f)
                        /\ \A a \in {b \in truth : b.type = "sequence_gap"} :
                            (\E m \in R!TicksSeen : m < a.first) =>
                                \E g \in breaks.sequence_gap : g[1] < a.first /\ a.last < g[2]
        BY DEF PlantedIsFound, QuietReport
    <2>1. FalseNegatives("position_drift") = {}
        BY DriftsAreFound DEF FalseNegatives
    <2>2. \A f \in fills : f.id \in FalseNegatives("unmatched_fill") => ~FarFromTicks(f)
        BY FarIsFound DEF FalseNegatives
    <2>3. {b \in truth : b.type = "sequence_gap"} = PlantedOf("sequence_gap")
        BY DEF QuietReport, DriftInv, PlantedOf
    <2> QED
        BY <2>1, <2>2, <2>3, RangeIsFound
<1> QED
    BY <1>1, <1>2, <1>3, PTL DEF ReportSpec
=============================================================================
