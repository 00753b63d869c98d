--------------------------- MODULE TradeBookProofs --------------------------
(***************************************************************************)
(* Proofs about TradeBook for every stream of ticks, every drawing of the  *)
(* strategy and every bound: type correctness, at most one fill per tick,  *)
(* the limit on the fills of a run, what a crash costs the ground truth,   *)
(* and that the ground truth is complete between two messages.             *)
(***************************************************************************)
EXTENDS TradeBook, FiniteSetTheorems, TLAPS

(* The assumptions on the constants, in the form the proofs use. *)
LEMMA Constants ==
    /\ Consumers = {Sim} /\ NoOwner # Sim
    /\ MaxPublished \in Nat
    /\ TickTime \in [Messages -> Int]
    /\ ReadCount \in Nat \ {0} /\ MinRecent \in Nat \ {0} /\ MaxGap \in Nat \ {0}
    /\ RecentLimit \in Nat \ {0} /\ Shift \in Nat \ {0}
    /\ Quantities \subseteq Nat \ {0} /\ Drifts \subseteq Nat \ {0}
    /\ MaxFills \in (Nat \ {0}) \cup {None}
    /\ Anomalies \subseteq ANOMALY_TYPES
BY ConsumersAssumption, MaxPublishedAssumption, TradeBookAssumption

USE Constants

-----------------------------------------------------------------------------
(* The inductive invariants, in parts. *)

(* The phases in which there is a fill in hand. *)
Working == {"fill", "log", "position", "delete", "logGap"}

TypeInv ==
    /\ TypeOK
    /\ phase \in Working => fill \in FillRow
    /\ phase = "log" => fill.type \in Logged
    /\ phase = "logGap" => gap # {}
    /\ IsFiniteSet(fills)

(* The batch is pending; what was taken from it is not, and stays so.      *)
TakenInv ==
    /\ cursor <= published
    /\ todo \subseteq Delivered \cap Pending
    /\ phase \in Working => fill.tick \in Delivered \ Pending
    /\ phase = "fill" => \A f \in fills : f.tick # fill.tick

(* A fill id is a process and a number it gives once. *)
IdInv ==
    /\ \A f \in fills : f.id[1] <= runs /\ (f.id[1] = runs => f.id[2] < nextSequence)
    /\ phase \in Working => fill.id[1] = runs /\ fill.id[2] < nextSequence
    /\ phase = "fill" => \A f \in fills : f.id # fill.id

OfThisRun == {f \in fills : f.id[1] = runs}

(* emitted counts the fills of the run, and the limit is looked at before  *)
(* the next one is begun.                                                  *)
CountInv ==
    /\ Cardinality(OfThisRun) <= emitted
    /\ MaxFills # None =>
        /\ emitted <= MaxFills
        /\ phase \in {"read", "next", "fill"} => emitted < MaxFills

(* What the ground truth is about to name. *)
InHand(type) == IF phase = "log" /\ fill.type = type THEN {fill.id} ELSE {}

(* Without a crash every planted fill is named, and every drifted one has  *)
(* a position, but for the fill in hand.                                   *)
RowsInv ==
    crashes = 0 =>
        /\ \A type \in Logged : {a.fill : a \in PlantedOf(type)} \cup InHand(type) = FillsOf(type)
        /\ \A id \in FillsOf("position_drift") :
            \/ \E p \in positions : p.fill = id
            \/ phase \in {"log", "position"} /\ fill.id = id /\ fill.type = "position_drift"

(* What is missing of the ticks is what was deleted: ranges begin and end  *)
(* with a missing tick, and without a crash they hold every missing one.   *)
GapInv ==
    /\ phase # "logGap" => gap = {}
    /\ gap \subseteq stored \ ticks
    /\ \A a \in PlantedOf("sequence_gap") : {a.first, a.last} \subseteq stored \ ticks
    /\ crashes = 0 => \A m \in stored \ ticks : InPlantedGap(m)

-----------------------------------------------------------------------------
(* Facts about the operators. *)

LEMMA MinProperties ==
    ASSUME NEW S \in SUBSET Nat, S # {}
    PROVE  Min(S) \in S /\ \A m \in S : Min(S) <= m
<1> DEFINE R == {ss \in Nat \X Nat : ss[1] < ss[2]}
<1>1. R = OpToRel(<, Nat)
    BY DEF OpToRel
<1>2. IsWellFoundedOn(R, Nat)
    BY <1>1, NatLessThanWellFounded
<1> HIDE DEF R
<1>3. PICK x \in S : \A y \in S : ~(<<y, x>> \in R)
    BY <1>2, WFMin
<1>4. ASSUME NEW y \in S PROVE x <= y
    <2>1. <<y, x>> \in Nat \X Nat /\ <<y, x>>[1] = y /\ <<y, x>>[2] = x
        OBVIOUS
    <2>2. ~(y < x)
        BY <1>3, <2>1 DEF R
    <2> QED
        BY <2>1, <2>2
<1> QED
    BY <1>4 DEF Min

LEMMA MaxProperties ==
    ASSUME NEW n \in Nat, NEW S \in SUBSET (0 .. n), S # {}
    PROVE  Max(S) \in S /\ \A m \in S : m <= Max(S)
<1> DEFINE T == {n - m : m \in S}
<1>1. T \in SUBSET Nat /\ T # {}
    <2>1. \A m \in S : n - m \in Nat
        OBVIOUS
    <2>2. PICK m \in S : TRUE
        OBVIOUS
    <2> QED
        BY <2>1, <2>2
<1>2. Min(T) \in T /\ \A k \in T : Min(T) <= k
    BY <1>1, MinProperties
<1>3. PICK x \in S : Min(T) = n - x
    BY <1>2
<1>4. \A m \in S : m <= x
    <2> TAKE m \in S
    <2>1. n - m \in T
        OBVIOUS
    <2>2. n - x <= n - m
        BY <1>2, <1>3, <2>1
    <2>3. m \in Nat /\ x \in Nat
        OBVIOUS
    <2> QED
        BY <2>2, <2>3
<1> QED
    BY <1>4 DEF Max

LEMMA MinOfMessages ==
    ASSUME NEW S \in SUBSET Messages, S # {}
    PROVE  /\ Min(S) \in S /\ Max(S) \in S
           /\ \A m \in S : Min(S) <= m /\ m <= Max(S)
<1>1. S \in SUBSET Nat /\ S \in SUBSET (0 .. MaxPublished)
    BY DEF Messages
<1> QED
    BY <1>1, MinProperties, MaxProperties

LEMMA FillsFinite ==
    ASSUME IsFiniteSet(fills), NEW S \in SUBSET fills
    PROVE  IsFiniteSet(S) /\ Cardinality(S) \in Nat
BY FS_Subset, FS_CardinalityType

-----------------------------------------------------------------------------
(* Every reachable state is of the types the declarations announce. *)

LEMMA TypeInit == Init => TypeInv
BY FS_EmptySet DEF Init, GroupInit, TablesInit, TypeInv, TypeOK, GroupTypeOK, NoGroup, Working

(* The phases that follow the work on a message. *)
LEMMA DonePhase == Done \in {"stopped", "read", "next"}
BY DEF Done, AfterMessage

LEMMA TypeStep == TypeInv /\ [Next]_vars => TypeInv'
<1> SUFFICES ASSUME TypeInv, [Next]_vars PROVE TypeInv'
    OBVIOUS
<1> USE DEF TypeInv, TypeOK, GroupTypeOK, NoGroup, Working, Busy, groupVars, localVars,
            tableVars
<1>1. CASE Publish
    BY <1>1 DEF Publish, XAdd
<1>2. CASE Persist
    <2>1. PICK m \in (1 .. published) \ stored :
                stored' = stored \cup {m} /\ ticks' = ticks \cup {m}
        BY <1>2 DEF Persist
    <2>2. m \in Messages
        BY DEF Messages
    <2> QED
        BY <1>2, <2>1, <2>2 DEF Persist
<1>3. CASE Start
    BY <1>3 DEF Start, CreateGroup
<1>4. CASE Read
    <2>1. cursor' \in 0 .. MaxPublished
        <3>1. cursor \in 0 .. MaxPublished /\ published \in 0 .. MaxPublished
            BY <1>4 DEF Read, ReadGroup
        <3>2. cursor' = IF cursor + ReadCount < published THEN cursor + ReadCount ELSE published
            BY <1>4 DEF Read, ReadGroup
        <3> QED
            BY <3>1, <3>2
    <2>2. owner' \in [Messages -> Consumers \cup {NoOwner}] /\ todo' \subseteq Messages
        BY <1>4 DEF Read, ReadGroup, Fresh
    <2> QED
        BY <1>4, <2>1, <2>2 DEF Read
<1>5. CASE ReadNothing
    BY <1>5 DEF ReadNothing
<1>6. ASSUME NEW m \in todo, Skip(m) PROVE TypeInv'
    BY <1>6 DEF Skip, Acknowledge, XAck, AfterMessage, Tracked
<1>7. ASSUME NEW m \in todo, Trade(m) PROVE TypeInv'
    <2>1. /\ UNCHANGED <<published, cursor, stored, tableVars, gap, truePosition,
                         emitted, idle, runs, crashes>>
          /\ owner' \in [Messages -> Consumers \cup {NoOwner}]
          /\ todo' \subseteq Messages /\ recent' \subseteq Messages
          /\ phase' = "fill" /\ nextSequence' = nextSequence + 1
        BY <1>7 DEF Trade, Acknowledge, XAck, Tracked
    <2>2. fill' \in FillRow
        <3>0. PICK type \in Anomalies \cup {None}, sign \in Signs, q \in Quantities :
                \E time \in FillTimes(m, type) :
                  fill' = [id |-> <<runs, nextSequence>>, tick |-> m, sequence |-> nextSequence,
                           quantity |-> sign * q, time |-> time, type |-> type]
            BY <1>7 DEF Trade
        <3>1. PICK time \in FillTimes(m, type) :
                fill' = [id |-> <<runs, nextSequence>>, tick |-> m, sequence |-> nextSequence,
                         quantity |-> sign * q, time |-> time, type |-> type]
            BY <3>0
        <3>2. m \in Messages /\ TickTime[m] \in Int
            OBVIOUS
        <3>3. time \in Int
            BY <3>2 DEF FillTimes
        <3>4. sign * q \in Int
            BY DEF Signs
        <3>5. type \in Types
            BY DEF Types
        <3>6. <<runs, nextSequence>> \in Nat \X Nat
            OBVIOUS
        <3> QED
            BY <3>1, <3>2, <3>3, <3>4, <3>5, <3>6 DEF FillRow
    <2> QED
        BY <2>1, <2>2
<1>8. CASE WriteFill
    <2>1. fill \in FillRow /\ phase' \in {"log", "position"}
          /\ (phase' = "log" => fill.type \in Logged)
        BY <1>8 DEF WriteFill
    <2>2. fills' \subseteq FillRow /\ IsFiniteSet(fills')
        BY <1>8, <2>1, FS_AddElement DEF WriteFill, InsertFill
    <2>3. truePosition' \in Int
        BY <1>8, <2>1 DEF WriteFill, FillRow
    <2> QED
        BY <1>8, <2>1, <2>2, <2>3 DEF WriteFill
<1>9. CASE LogAnomaly
    <2>1. fill.type \in ANOMALY_TYPES /\ fill.id \in Nat \X Nat
        BY <1>9 DEF LogAnomaly, Logged, FillRow, ANOMALY_TYPES
    <2>2. planted' \subseteq [type : ANOMALY_TYPES, fill : (Nat \X Nat) \cup {None},
                              first : Messages \cup {None}, last : Messages \cup {None}]
        BY <1>9, <2>1 DEF LogAnomaly, InsertAnomaly
    <2>3. phase' \in {"position", "stopped", "read", "next"}
        BY <1>9, DonePhase DEF LogAnomaly
    <2> QED
        BY <1>9, <2>2, <2>3 DEF LogAnomaly
<1>10. CASE WritePosition
    <2>1. fill.id \in Nat \X Nat /\ TickTime[fill.tick] \in Int
        BY <1>10 DEF WritePosition, FillRow
    <2>2. RecordedQuantities \subseteq Int
        BY DEF RecordedQuantities
    <2>3. positions' \subseteq [fill : Nat \X Nat, quantity : Int, time : Int]
        BY <1>10, <2>1, <2>2 DEF WritePosition, InsertPosition
    <2>4. phase' \in {"delete", "stopped", "read", "next"}
        BY <1>10, DonePhase DEF WritePosition
    <2> QED
        BY <1>10, <2>3, <2>4 DEF WritePosition
<1>11. CASE DeleteTicks
    <2>1. /\ UNCHANGED <<groupVars, stored, fills, positions, planted, todo, fill,
                         truePosition, nextSequence, recent, emitted, idle, runs, crashes>>
          /\ phase = "delete"
        BY <1>11 DEF DeleteTicks
    <2>2. /\ ticks' \subseteq ticks /\ gap' \subseteq Messages
          /\ phase' \in {"stopped", "read", "next"} \/ (phase' = "logGap" /\ gap' # {})
        BY <1>11, DonePhase DEF DeleteTicks, DeleteSequences, Returned
    <2> QED
        BY <2>1, <2>2
<1>12. CASE LogGap
    <2>1. Min(gap) \in Messages /\ Max(gap) \in Messages
        BY <1>12, MinOfMessages DEF LogGap
    <2>2. planted' \subseteq [type : ANOMALY_TYPES, fill : (Nat \X Nat) \cup {None},
                              first : Messages \cup {None}, last : Messages \cup {None}]
        BY <1>12, <2>1 DEF LogGap, InsertAnomaly, ANOMALY_TYPES
    <2>3. phase' \in {"stopped", "read", "next"}
        BY <1>12, DonePhase DEF LogGap
    <2> QED
        BY <1>12, <2>2, <2>3 DEF LogGap
<1>13. CASE Crash
    BY <1>13 DEF Crash
<1>14. CASE UNCHANGED vars
    BY <1>14 DEF vars
<1> QED
    BY <1>1, <1>2, <1>3, <1>4, <1>5, <1>6, <1>7, <1>8, <1>9, <1>10, <1>11, <1>12, <1>13, <1>14
       DEF Next, SimulatorStep

(* The rows of the four tables and what the simulator holds are of their   *)
(* types; a range of deleted ticks has two ends because none is logged for *)
(* a deletion that found nothing.                                          *)
THEOREM TypeCorrect == Spec => []TypeOK
<1>1. Init => TypeInv
    BY TypeInit
<1>2. TypeInv /\ [Next]_vars => TypeInv'
    BY TypeStep
<1>3. TypeInv => TypeOK
    BY DEF TypeInv
<1> QED
    BY <1>1, <1>2, <1>3, PTL DEF Spec

-----------------------------------------------------------------------------
(* At most one fill per tick. *)

LEMMA TakenInit == Init => TakenInv /\ IdInv
BY DEF Init, GroupInit, TablesInit, TakenInv, IdInv, NoGroup, Working

LEMMA ReadTakes ==
    ASSUME TypeInv, TakenInv, Read
    PROVE  /\ cursor' <= published'
           /\ Delivered' = Delivered \cup todo'
           /\ Pending' = Pending \cup todo'
           /\ Delivered \cap todo' = {}
<1> USE DEF TypeInv, TypeOK, GroupTypeOK
<1>1. /\ cursor \in 0 .. MaxPublished /\ published \in 0 .. MaxPublished
      /\ cursor <= published /\ published' = published
    BY DEF Read, ReadGroup, NoGroup, TakenInv
<1>2. /\ cursor' = IF cursor + ReadCount < published THEN cursor + ReadCount ELSE published
      /\ todo' = Fresh(ReadCount)
      /\ owner' = [m \in Messages |-> IF m \in Fresh(ReadCount) THEN Sim ELSE owner[m]]
    BY DEF Read, ReadGroup
<1>3. \A m \in Messages : m \in Int
    BY DEF Messages
<1>4. \A m \in Messages :
        m <= cursor' <=> (m <= cursor \/ (m <= cursor + ReadCount /\ m <= published))
    BY <1>1, <1>2, <1>3
<1>5. Delivered' = Delivered \cup todo'
    <2>1. Delivered' = {m \in Messages : m <= cursor'}
        BY DEF Delivered, Messages
    <2> QED
        BY <1>1, <1>2, <1>3, <1>4, <2>1 DEF Delivered, Fresh
<1>6. Pending' = Pending \cup todo'
    BY <1>2 DEF Pending, Fresh
<1>7. Delivered \cap todo' = {}
    BY <1>1, <1>2, <1>3 DEF Delivered, Fresh
<1> QED
    BY <1>1, <1>2, <1>5, <1>6, <1>7

LEMMA AcknowledgeTakes ==
    ASSUME TypeInv, TakenInv, NEW m \in todo, Acknowledge(m)
    PROVE  /\ Pending' = Pending \ {m} /\ Delivered' = Delivered
           /\ m \in Delivered \cap Pending
           /\ todo' = todo \ {m}
           /\ UNCHANGED <<cursor, published, fills, runs>>
<1>1. m \in Delivered \cap Pending
    BY DEF TakenInv
<1> QED
    BY <1>1 DEF Acknowledge, XAck, Pending, Delivered, TypeInv, TypeOK, GroupTypeOK, tableVars

LEMMA TakenStep ==
    TypeInv /\ TakenInv /\ IdInv /\ AtMostOneFill /\ [Next]_vars
        => TakenInv' /\ AtMostOneFill'
<1> SUFFICES ASSUME TypeInv, TakenInv, IdInv, AtMostOneFill, [Next]_vars
             PROVE  TakenInv' /\ AtMostOneFill'
    OBVIOUS
<1> USE DEF TakenInv, AtMostOneFill, Working, groupVars, localVars, tableVars
<1>1. CASE Publish
    <2>1. /\ published' = published + 1 /\ published \in Int /\ cursor \in Int
          /\ UNCHANGED <<cursor, owner, fills, phase, todo, fill>>
        BY <1>1 DEF Publish, XAdd, TypeInv, TypeOK, GroupTypeOK, NoGroup
    <2>2. Delivered' = Delivered /\ Pending' = Pending
        BY <2>1 DEF Delivered, Pending
    <2>3. cursor' <= published'
        BY <2>1
    <2> QED
        BY <2>1, <2>2, <2>3
<1>2. CASE Start
    <2>1. /\ cursor' = IF cursor = NoGroup THEN 0 ELSE cursor
          /\ UNCHANGED <<published, owner, fills>>
          /\ phase' = "read" /\ todo' = {}
        BY <1>2 DEF Start, CreateGroup
    <2>2. Delivered' = Delivered
        BY <2>1 DEF Delivered, NoGroup, Messages
    <2>3. Pending' = Pending
        BY <2>1 DEF Pending
    <2>4. cursor' <= published'
        BY <2>1 DEF NoGroup, TypeInv, TypeOK, GroupTypeOK
    <2> QED
        BY <2>1, <2>2, <2>3, <2>4
<1>3. CASE Read
    <2>1. /\ cursor' <= published'
          /\ Delivered' = Delivered \cup todo'
          /\ Pending' = Pending \cup todo'
          /\ Delivered \cap todo' = {}
        BY <1>3, ReadTakes
    <2>2. phase' = "next" /\ UNCHANGED fills
        BY <1>3 DEF Read
    <2> QED
        BY <2>1, <2>2
<1>4. ASSUME NEW m \in todo, Skip(m) PROVE TakenInv' /\ AtMostOneFill'
    <2>1. Acknowledge(m) /\ phase' \in {"read", "next"}
        BY <1>4 DEF Skip, AfterMessage
    <2>2. /\ Pending' = Pending \ {m} /\ Delivered' = Delivered
          /\ todo' = todo \ {m} /\ UNCHANGED <<cursor, published, fills>>
        BY <2>1, AcknowledgeTakes
    <2> QED
        BY <2>1, <2>2
<1>5. ASSUME NEW m \in todo, Trade(m) PROVE TakenInv' /\ AtMostOneFill'
    <2>1. Acknowledge(m) /\ phase' = "fill" /\ fill'.tick = m
        BY <1>5 DEF Trade
    <2>2. /\ Pending' = Pending \ {m} /\ Delivered' = Delivered
          /\ m \in Delivered \cap Pending
          /\ todo' = todo \ {m} /\ UNCHANGED <<cursor, published, fills>>
        BY <2>1, AcknowledgeTakes
    <2> QED
        BY <2>1, <2>2
<1>6. CASE WriteFill
    <2>1. /\ UNCHANGED <<published, cursor, owner, todo, fill>>
          /\ phase = "fill" /\ phase' \in {"log", "position"}
          /\ fills' \subseteq fills \cup {fill} /\ fills \subseteq fills'
        BY <1>6 DEF WriteFill, InsertFill
    <2>2. Delivered' = Delivered /\ Pending' = Pending
        BY <2>1 DEF Delivered, Pending
    <2> QED
        BY <2>1, <2>2
<1>7. CASE LogAnomaly \/ WritePosition \/ DeleteTicks \/ LogGap
    <2>1. /\ UNCHANGED <<published, cursor, owner, todo, fill, fills>>
          /\ phase \in Working /\ phase' # "fill"
        BY <1>7, DonePhase DEF LogAnomaly, WritePosition, DeleteTicks, LogGap
    <2>2. Delivered' = Delivered /\ Pending' = Pending
        BY <2>1 DEF Delivered, Pending
    <2> QED
        BY <2>1, <2>2
<1>8. CASE Crash
    BY <1>8 DEF Crash, Delivered, Pending
<1>9. CASE Persist \/ ReadNothing \/ UNCHANGED vars
    <2>1. /\ UNCHANGED <<published, cursor, owner, todo, fill, fills>>
          /\ phase' = phase \/ phase' \in {"stopped", "read"}
        BY <1>9 DEF Persist, ReadNothing, vars
    <2>2. Delivered' = Delivered /\ Pending' = Pending
        BY <2>1 DEF Delivered, Pending
    <2> QED
        BY <2>1, <2>2
<1> QED
    BY <1>1, <1>2, <1>3, <1>4, <1>5, <1>6, <1>7, <1>8, <1>9 DEF Next, SimulatorStep

LEMMA IdStep == TypeInv /\ IdInv /\ [Next]_vars => IdInv'
<1> SUFFICES ASSUME TypeInv, IdInv, [Next]_vars PROVE IdInv'
    OBVIOUS
<1>0. /\ runs \in Nat /\ nextSequence \in Nat
      /\ \A f \in fills : f.id \in Nat \X Nat
      /\ phase \in Working => fill.id \in Nat \X Nat
    BY DEF TypeInv, TypeOK, FillRow
<1> USE DEF IdInv, Working, localVars, tableVars
<1>1. CASE Start
    <2>1. phase' = "read" /\ runs' = runs + 1 /\ UNCHANGED fills
        BY <1>1 DEF Start
    <2>2. \A f \in fills : f.id[1] \in Nat /\ f.id[1] <= runs
        BY <1>0
    <2> QED
        BY <1>0, <2>1, <2>2
<1>2. ASSUME NEW m \in todo, Trade(m) PROVE IdInv'
    <2>1. /\ phase' = "fill" /\ nextSequence' = nextSequence + 1
          /\ fill'.id = <<runs, nextSequence>> /\ UNCHANGED <<fills, runs>>
        BY <1>2 DEF Trade, Acknowledge
    <2>2. \A f \in fills : f.id[1] \in Nat /\ f.id[2] \in Nat
        BY <1>0
    <2>3. \A f \in fills : f.id # <<runs, nextSequence>>
        BY <1>0, <2>2
    <2> QED
        BY <1>0, <2>1, <2>2, <2>3
<1>3. CASE WriteFill
    BY <1>0, <1>3 DEF WriteFill, InsertFill
<1>4. CASE LogAnomaly \/ WritePosition \/ DeleteTicks \/ LogGap
    <2>1. /\ UNCHANGED <<fill, fills, runs, nextSequence>>
          /\ phase \in Working /\ phase' # "fill"
        BY <1>4, DonePhase DEF LogAnomaly, WritePosition, DeleteTicks, LogGap
    <2> QED
        BY <2>1
<1>5. ASSUME NEW m \in todo, Skip(m) PROVE IdInv'
    BY <1>5 DEF Skip, Acknowledge, AfterMessage
<1>6. CASE Publish \/ Persist \/ Read \/ ReadNothing \/ Crash \/ UNCHANGED vars
    <2>1. /\ UNCHANGED <<fills, runs, nextSequence>>
          /\ (phase' = phase /\ fill' = fill) \/ phase' \in {"stopped", "read", "next", "crashed"}
        BY <1>6 DEF Publish, Persist, Read, ReadNothing, Crash, vars
    <2> QED
        BY <2>1
<1> QED
    BY <1>1, <1>2, <1>3, <1>4, <1>5, <1>6 DEF Next, SimulatorStep

(* The simulator acknowledges before it acts: over crashes and restarts no *)
(* tick has two fills, and the tick of a fill has left the pending list    *)
(* for good.                                                               *)
THEOREM OneFillPerTick == Spec => []AtMostOneFill
<1> DEFINE Inv == TypeInv /\ TakenInv /\ IdInv /\ AtMostOneFill
<1>1. Init => Inv
    <2>1. Init => AtMostOneFill
        BY DEF Init, TablesInit, AtMostOneFill
    <2> QED
        BY <2>1, TypeInit, TakenInit
<1>2. Inv /\ [Next]_vars => Inv'
    BY TypeStep, TakenStep, IdStep
<1> QED
    BY <1>1, <1>2, PTL DEF Spec

-----------------------------------------------------------------------------
(* The limit on the fills of a run. *)

LEMMA OneMoreFill ==
    ASSUME IsFiniteSet(fills), IsFiniteSet(fills'), UNCHANGED runs, NEW f,
           fills' \subseteq fills \cup {f}
    PROVE  /\ Cardinality(OfThisRun') \in Nat /\ Cardinality(OfThisRun) \in Nat
           /\ Cardinality(OfThisRun') <= Cardinality(OfThisRun) + 1
<1>1. IsFiniteSet(OfThisRun) /\ Cardinality(OfThisRun) \in Nat
    BY FillsFinite DEF OfThisRun
<1>2. IsFiniteSet(OfThisRun') /\ Cardinality(OfThisRun') \in Nat
    <2>1. IsFiniteSet(OfThisRun')
        BY FS_Subset DEF OfThisRun
    <2> QED
        BY <2>1, FS_CardinalityType
<1>3. OfThisRun' \subseteq OfThisRun \cup {f}
    BY DEF OfThisRun
<1>4. /\ IsFiniteSet(OfThisRun \cup {f})
      /\ Cardinality(OfThisRun \cup {f}) <= Cardinality(OfThisRun) + 1
      /\ Cardinality(OfThisRun \cup {f}) \in Nat
    <2>1. /\ IsFiniteSet(OfThisRun \cup {f})
          /\ Cardinality(OfThisRun \cup {f}) = IF f \in OfThisRun THEN Cardinality(OfThisRun)
                                               ELSE Cardinality(OfThisRun) + 1
        BY <1>1, FS_AddElement
    <2> QED
        BY <1>1, <2>1
<1>5. Cardinality(OfThisRun') <= Cardinality(OfThisRun \cup {f})
    BY <1>3, <1>4, FS_Subset
<1> QED
    BY <1>1, <1>2, <1>4, <1>5

LEMMA CountStep ==
    TypeInv /\ TypeInv' /\ IdInv /\ CountInv /\ [Next]_vars => CountInv'
<1> SUFFICES ASSUME TypeInv, TypeInv', IdInv, CountInv, [Next]_vars PROVE CountInv'
    OBVIOUS
<1>0. /\ IsFiniteSet(fills) /\ IsFiniteSet(fills')
      /\ emitted \in Nat /\ runs \in Nat
      /\ MaxFills # None => MaxFills \in Nat \ {0}
    BY DEF TypeInv, TypeOK
<1> USE DEF CountInv, localVars, tableVars
<1>1. CASE Start
    <2>1. phase' = "read" /\ runs' = runs + 1 /\ emitted' = 0 /\ UNCHANGED fills
        BY <1>1 DEF Start
    <2>2. \A f \in fills : f.id[1] \in Nat /\ f.id[1] <= runs
        BY DEF TypeInv, TypeOK, FillRow, IdInv
    <2>3. OfThisRun' = {}
        BY <1>0, <2>1, <2>2 DEF OfThisRun
    <2>4. Cardinality(OfThisRun') = 0
        BY <2>3, FS_EmptySet
    <2> QED
        BY <1>0, <2>1, <2>4
<1>2. CASE WriteFill
    <2>1. /\ phase = "fill" /\ phase' \in {"log", "position"} /\ emitted' = emitted + 1
          /\ UNCHANGED runs /\ fills' \subseteq fills \cup {fill}
        BY <1>2 DEF WriteFill, InsertFill
    <2>2. /\ Cardinality(OfThisRun') \in Nat /\ Cardinality(OfThisRun) \in Nat
          /\ Cardinality(OfThisRun') <= Cardinality(OfThisRun) + 1
        BY <1>0, <2>1, OneMoreFill
    <2> QED
        BY <1>0, <2>1, <2>2
<1>3. CASE LogAnomaly \/ WritePosition \/ DeleteTicks \/ LogGap
    <2>1. /\ UNCHANGED <<fills, runs, emitted>>
          /\ phase' \in {"log", "position", "delete", "logGap"} \/ phase' = Done
        BY <1>3 DEF LogAnomaly, WritePosition, DeleteTicks, LogGap
    <2>2. OfThisRun' = OfThisRun
        BY <2>1 DEF OfThisRun
    <2>3. phase' \in {"read", "next", "fill"} => (MaxFills # None => emitted < MaxFills)
        BY <1>0, <2>1 DEF Done, AfterMessage
    <2> QED
        BY <2>1, <2>2, <2>3
<1>4. CASE UNCHANGED <<fills, runs, emitted>> /\
           (phase' \in {"read", "next", "fill"} => phase \in {"read", "next", "fill"})
    <2>1. OfThisRun' = OfThisRun
        BY <1>4 DEF OfThisRun
    <2> QED
        BY <1>4, <2>1
<1>5. ASSUME NEW m \in todo, Skip(m) \/ Trade(m) PROVE CountInv'
    BY <1>4, <1>5 DEF Skip, Trade, Acknowledge
<1>6. CASE Publish \/ Persist \/ Read \/ ReadNothing \/ Crash \/ UNCHANGED vars
    BY <1>4, <1>6 DEF Publish, Persist, Read, ReadNothing, Crash, vars
<1> QED
    BY <1>1, <1>2, <1>3, <1>5, <1>6 DEF Next, SimulatorStep

(* max_fills ends the run at once, in the middle of a batch too: no run    *)
(* has more fills in the table, whatever runs wrote before it.             *)
THEOREM MaxFillsIsKept == Spec => []MaxFillsKept
<1>1. Init => TypeInv /\ IdInv /\ CountInv
    <2>1. ASSUME Init PROVE CountInv
        <3>1. OfThisRun = {} /\ emitted = 0 /\ phase = "down"
            BY <2>1 DEF Init, TablesInit, OfThisRun
        <3> QED
            BY <3>1, FS_EmptySet DEF CountInv
    <2> QED
        BY <2>1, TypeInit, TakenInit
<1>2. TypeInv /\ IdInv /\ CountInv /\ [Next]_vars => TypeInv' /\ IdInv' /\ CountInv'
    BY TypeStep, IdStep, CountStep
<1>3. TypeInv /\ CountInv => MaxFillsKept
    <2> SUFFICES ASSUME TypeInv, CountInv, MaxFills # None
                 PROVE  Cardinality(OfThisRun) <= MaxFills
        BY DEF MaxFillsKept, OfThisRun
    <2>1. Cardinality(OfThisRun) \in Nat
        BY FillsFinite DEF TypeInv, OfThisRun
    <2>2. emitted \in Nat /\ MaxFills \in Nat
        BY DEF TypeInv, TypeOK
    <2> QED
        BY <2>1, <2>2 DEF CountInv
<1> QED
    BY <1>1, <1>2, <1>3, PTL DEF Spec

-----------------------------------------------------------------------------
(* What a crash costs the ground truth. *)

Counted == IF phase = "log" /\ fill \in Unlogged THEN 1 ELSE 0

LEMMA UnloggedFinite ==
    ASSUME IsFiniteSet(fills)
    PROVE  IsFiniteSet(Unlogged) /\ Cardinality(Unlogged) \in Nat
BY FillsFinite DEF Unlogged

LEMMA FewerUnlogged ==
    ASSUME TypeInv, Unlogged' \subseteq Unlogged
    PROVE  /\ Cardinality(Unlogged') \in Nat
           /\ Cardinality(Unlogged') <= Cardinality(Unlogged)
<1>1. IsFiniteSet(Unlogged)
    BY UnloggedFinite DEF TypeInv
<1> QED
    BY <1>1, FS_Subset, FS_CardinalityType

LEMMA CrashStep ==
    TypeInv /\ TypeInv' /\ CrashLosesOneRow /\ [Next]_vars => CrashLosesOneRow'
<1> SUFFICES ASSUME TypeInv, TypeInv', CrashLosesOneRow, [Next]_vars
             PROVE  Cardinality(Unlogged') <= crashes' + Counted'
    BY DEF CrashLosesOneRow, Counted
<1>0. /\ Cardinality(Unlogged) \in Nat /\ IsFiniteSet(Unlogged)
      /\ crashes \in Nat /\ Counted \in {0, 1} /\ Counted' \in {0, 1}
      /\ Cardinality(Unlogged) <= crashes + Counted
    BY UnloggedFinite DEF TypeInv, TypeOK, Counted, CrashLosesOneRow
<1> USE DEF localVars, tableVars
<1>1. CASE WriteFill
    <2>1. /\ phase = "fill" /\ UNCHANGED <<planted, fill, crashes>>
          /\ fills \subseteq fills' /\ fills' \subseteq fills \cup {fill}
          /\ phase' = IF fill.type \in Logged THEN "log" ELSE "position"
        BY <1>1 DEF WriteFill, InsertFill
    <2>2. Counted = 0
        BY <2>1 DEF Counted
    <2>3. Unlogged' \subseteq Unlogged \cup {fill}
        BY <2>1 DEF Unlogged
    <2>4. CASE fill \in Unlogged'
        <3>1. Counted' = 1
            BY <2>1, <2>4 DEF Unlogged, Counted, Logged
        <3>2. /\ IsFiniteSet(Unlogged \cup {fill})
              /\ Cardinality(Unlogged \cup {fill}) =
                    IF fill \in Unlogged THEN Cardinality(Unlogged) ELSE Cardinality(Unlogged) + 1
            BY <1>0, FS_AddElement
        <3>3. /\ Cardinality(Unlogged') <= Cardinality(Unlogged \cup {fill})
              /\ Cardinality(Unlogged') \in Nat
            BY <2>3, <3>2, FS_Subset, FS_CardinalityType
        <3> QED
            BY <1>0, <2>1, <2>2, <3>1, <3>2, <3>3
    <2>5. CASE fill \notin Unlogged'
        <3>1. Unlogged' \subseteq Unlogged
            BY <2>3, <2>5
        <3> QED
            BY <1>0, <2>1, <2>2, <3>1, FewerUnlogged
    <2> QED
        BY <2>4, <2>5
<1>2. CASE LogAnomaly
    <2>1. /\ phase = "log" /\ UNCHANGED <<fills, fill, crashes>>
          /\ planted' = planted \cup {[type |-> fill.type, fill |-> fill.id,
                                       first |-> None, last |-> None]}
        BY <1>2 DEF LogAnomaly, InsertAnomaly
    <2>2. Unlogged' \subseteq Unlogged \ {fill}
        <3> DEFINE new == [type |-> fill.type, fill |-> fill.id, first |-> None, last |-> None]
        <3>1. new \in planted' /\ new.fill = fill.id /\ planted \subseteq planted'
            BY <2>1
        <3> HIDE DEF new
        <3> QED
            BY <2>1, <3>1 DEF Unlogged
    <2>3. CASE fill \in Unlogged
        <3>1. /\ IsFiniteSet(Unlogged \ {fill})
              /\ Cardinality(Unlogged \ {fill}) = Cardinality(Unlogged) - 1
            BY <1>0, <2>3, FS_RemoveElement
        <3>2. /\ Cardinality(Unlogged') <= Cardinality(Unlogged) - 1
              /\ Cardinality(Unlogged') \in Nat
            BY <2>2, <3>1, FS_Subset, FS_CardinalityType
        <3> QED
            BY <1>0, <2>1, <3>2
    <2>4. CASE fill \notin Unlogged
        <3>1. Counted = 0
            BY <2>4 DEF Counted
        <3>2. /\ Cardinality(Unlogged') <= Cardinality(Unlogged)
              /\ Cardinality(Unlogged') \in Nat
            BY <2>2, FewerUnlogged
        <3> QED
            BY <1>0, <2>1, <3>1, <3>2
    <2> QED
        BY <2>3, <2>4
<1>3. CASE Crash
    <2>1. crashes' = crashes + 1 /\ UNCHANGED <<fills, planted>>
        BY <1>3 DEF Crash
    <2>2. Unlogged' = Unlogged
        BY <2>1 DEF Unlogged
    <2> QED
        BY <1>0, <2>1, <2>2
<1>4. CASE phase # "log" /\ fills' = fills /\ planted \subseteq planted' /\ UNCHANGED crashes
    <2>1. Unlogged' \subseteq Unlogged
        BY <1>4 DEF Unlogged
    <2>2. Counted = 0
        BY <1>4 DEF Counted
    <2>3. /\ Cardinality(Unlogged') <= Cardinality(Unlogged)
          /\ Cardinality(Unlogged') \in Nat
        BY <2>1, FewerUnlogged
    <2> QED
        BY <1>0, <1>4, <2>2, <2>3
<1>5. CASE Start \/ Read \/ ReadNothing \/ WritePosition \/ DeleteTicks \/ LogGap
    BY <1>4, <1>5 DEF Start, Read, ReadNothing, WritePosition, DeleteTicks, LogGap, InsertAnomaly
<1>6. ASSUME NEW m \in todo, Skip(m) \/ Trade(m)
      PROVE  Cardinality(Unlogged') <= crashes' + Counted'
    BY <1>4, <1>6 DEF Skip, Trade, Acknowledge
<1>7. CASE Publish \/ Persist \/ UNCHANGED vars
    <2>1. UNCHANGED <<fills, planted, phase, fill, crashes>>
        BY <1>7 DEF Publish, Persist, vars
    <2>2. Unlogged' = Unlogged /\ Counted' = Counted
        BY <2>1 DEF Unlogged, Counted
    <2> QED
        BY <1>0, <2>1, <2>2
<1> QED
    BY <1>1, <1>2, <1>3, <1>5, <1>6, <1>7 DEF Next, SimulatorStep

(* Each crash leaves at most one anomaly in the tables that the ground     *)
(* truth does not name.                                                    *)
THEOREM CrashCostsOneRow == Spec => []CrashLosesOneRow
<1>1. Init => TypeInv /\ CrashLosesOneRow
    <2>1. ASSUME Init PROVE CrashLosesOneRow
        <3>1. Unlogged = {} /\ crashes = 0
            BY <2>1 DEF Init, TablesInit, Unlogged
        <3> QED
            BY <3>1, FS_EmptySet DEF CrashLosesOneRow
    <2> QED
        BY <2>1, TypeInit
<1>2. TypeInv /\ CrashLosesOneRow /\ [Next]_vars => TypeInv' /\ CrashLosesOneRow'
    BY TypeStep, CrashStep
<1> QED
    BY <1>1, <1>2, PTL DEF Spec

-----------------------------------------------------------------------------
(* The ground truth. *)

LEMMA RowsStep ==
    TypeInv /\ IdInv /\ RowsInv /\ [Next]_vars => RowsInv'
<1> SUFFICES ASSUME TypeInv, IdInv, RowsInv, [Next]_vars, crashes' = 0 PROVE RowsInv'
    BY DEF RowsInv
<1>0. /\ crashes = 0
      /\ \A type \in Logged : {a.fill : a \in PlantedOf(type)} \cup InHand(type) = FillsOf(type)
      /\ \A id \in FillsOf("position_drift") :
            \/ \E p \in positions : p.fill = id
            \/ phase \in {"log", "position"} /\ fill.id = id /\ fill.type = "position_drift"
    <2>1. crashes \in Nat
        BY DEF TypeInv, TypeOK
    <2>2. crashes' = crashes \/ crashes' = crashes + 1
        BY DEF Next, SimulatorStep, vars, Publish, Persist, Start, Read, ReadNothing, Skip, Trade,
               Acknowledge, WriteFill, LogAnomaly, WritePosition, DeleteTicks, LogGap, Crash
    <2>3. crashes = 0
        BY <2>1, <2>2
    <2> QED
        BY <2>3 DEF RowsInv
<1> USE DEF localVars, tableVars
<1>1. CASE WriteFill
    <2>1. /\ phase = "fill" /\ UNCHANGED <<planted, positions, fill>>
          /\ phase' = IF fill.type \in Logged THEN "log" ELSE "position"
        BY <1>1 DEF WriteFill
    <2>2. fills' = fills \cup {fill}
        BY <1>1 DEF WriteFill, InsertFill, IdInv
    <2>3. ASSUME NEW type
          PROVE  FillsOf(type)' = FillsOf(type) \cup IF fill.type = type THEN {fill.id} ELSE {}
        BY <2>2 DEF FillsOf
    <2>4. ASSUME NEW type \in Logged
          PROVE  {a.fill : a \in PlantedOf(type)'} \cup InHand(type)' = FillsOf(type)'
        <3>1. PlantedOf(type)' = PlantedOf(type)
            BY <2>1 DEF PlantedOf
        <3>2. InHand(type) = {} /\ InHand(type)' = IF fill.type = type THEN {fill.id} ELSE {}
            BY <2>1 DEF InHand
        <3> QED
            BY <1>0, <2>3, <3>1, <3>2
    <2>5. ASSUME NEW id \in FillsOf("position_drift")'
          PROVE  \/ \E p \in positions' : p.fill = id
                 \/ phase' \in {"log", "position"} /\ fill'.id = id /\ fill'.type = "position_drift"
        <3>1. CASE id \in FillsOf("position_drift")
            BY <1>0, <2>1, <3>1
        <3>2. CASE id \notin FillsOf("position_drift")
            BY <2>1, <2>3, <3>2
        <3> QED
            BY <3>1, <3>2
    <2> QED
        BY <2>4, <2>5 DEF RowsInv
<1>2. CASE LogAnomaly
    <2> DEFINE new == [type |-> fill.type, fill |-> fill.id, first |-> None, last |-> None]
    <2>1. /\ phase = "log" /\ UNCHANGED <<fills, positions, fill>>
          /\ planted' = planted \cup {new}
          /\ phase' = IF fill.type = "position_drift" THEN "position" ELSE Done
          /\ phase' # "log"
        BY <1>2, DonePhase DEF LogAnomaly, InsertAnomaly
    <2>2. new.type = fill.type /\ new.fill = fill.id
        OBVIOUS
    <2> HIDE DEF new
    <2>3. \A type : FillsOf(type)' = FillsOf(type)
        BY <2>1 DEF FillsOf
    <2>4. ASSUME NEW type \in Logged
          PROVE  {a.fill : a \in PlantedOf(type)'} \cup InHand(type)' = FillsOf(type)'
        <3>1. PlantedOf(type)' = PlantedOf(type) \cup IF fill.type = type THEN {new} ELSE {}
            BY <2>1, <2>2 DEF PlantedOf
        <3>2. InHand(type)' = {} /\ InHand(type) = IF fill.type = type THEN {fill.id} ELSE {}
            BY <2>1 DEF InHand
        <3> QED
            BY <1>0, <2>2, <2>3, <3>1, <3>2
    <2>5. ASSUME NEW id \in FillsOf("position_drift")'
          PROVE  \/ \E p \in positions' : p.fill = id
                 \/ phase' \in {"log", "position"} /\ fill'.id = id /\ fill'.type = "position_drift"
        BY <1>0, <2>1, <2>3
    <2> QED
        BY <2>4, <2>5 DEF RowsInv
<1>3. CASE WritePosition
    <2>1. PICK q \in RecordedQuantities :
                positions' = positions \cup {[fill |-> fill.id, quantity |-> q,
                                              time |-> TickTime[fill.tick]]}
        BY <1>3 DEF WritePosition, InsertPosition
    <2> DEFINE new == [fill |-> fill.id, quantity |-> q, time |-> TickTime[fill.tick]]
    <2>2. positions' = positions \cup {new} /\ new.fill = fill.id
        BY <2>1
    <2> HIDE DEF new
    <2>3. positions \subseteq positions' /\ \E p \in positions' : p.fill = fill.id
        BY <2>2
    <2>4. phase = "position" /\ phase' # "log" /\ UNCHANGED <<fills, planted, fill>>
        BY <1>3, DonePhase DEF WritePosition
    <2>5. /\ phase = "position" /\ phase' # "log" /\ UNCHANGED <<fills, planted, fill>>
          /\ positions \subseteq positions' /\ \E p \in positions' : p.fill = fill.id
        BY <2>3, <2>4
    <2>6. \A type : /\ FillsOf(type)' = FillsOf(type) /\ PlantedOf(type)' = PlantedOf(type)
                    /\ InHand(type)' = {} /\ InHand(type) = {}
        BY <2>5 DEF FillsOf, PlantedOf, InHand
    <2> QED
        BY <1>0, <2>5, <2>6 DEF RowsInv
<1>4. CASE LogGap
    <2> DEFINE new == [type |-> "sequence_gap", fill |-> None,
                       first |-> Min(gap), last |-> Max(gap)]
    <2>1. /\ phase = "logGap" /\ phase' # "log" /\ UNCHANGED <<fills, positions>>
          /\ planted' = planted \cup {new} /\ new.type \notin Logged
        BY <1>4, DonePhase DEF LogGap, InsertAnomaly, Logged
    <2> HIDE DEF new
    <2>2. \A type \in Logged :
                /\ FillsOf(type)' = FillsOf(type) /\ PlantedOf(type)' = PlantedOf(type)
                /\ InHand(type)' = {} /\ InHand(type) = {}
        BY <2>1 DEF FillsOf, PlantedOf, InHand
    <2>3. "position_drift" \in Logged
        BY DEF Logged
    <2> QED
        BY <1>0, <2>1, <2>2, <2>3 DEF RowsInv
<1>5. CASE UNCHANGED <<fills, positions, planted>> /\ phase \notin {"log", "position"}
           /\ phase' # "log"
    <2>1. \A type : /\ FillsOf(type)' = FillsOf(type) /\ PlantedOf(type)' = PlantedOf(type)
                    /\ InHand(type)' = {} /\ InHand(type) = {}
        BY <1>5 DEF FillsOf, PlantedOf, InHand
    <2> QED
        BY <1>0, <1>5, <2>1 DEF RowsInv
<1>6. CASE UNCHANGED <<fills, positions, planted, phase, fill>>
    <2>1. \A type : /\ FillsOf(type)' = FillsOf(type) /\ PlantedOf(type)' = PlantedOf(type)
                    /\ InHand(type)' = InHand(type)
        BY <1>6 DEF FillsOf, PlantedOf, InHand
    <2> QED
        BY <1>0, <1>6, <2>1 DEF RowsInv
<1>7. CASE Start \/ Read \/ ReadNothing \/ DeleteTicks
    BY <1>5, <1>7, DonePhase DEF Start, Read, ReadNothing, DeleteTicks
<1>8. ASSUME NEW m \in todo, Skip(m) \/ Trade(m) PROVE RowsInv'
    BY <1>5, <1>8 DEF Skip, Trade, Acknowledge, AfterMessage
<1>9. CASE Publish \/ Persist \/ UNCHANGED vars
    BY <1>6, <1>9 DEF Publish, Persist, vars
<1>10. CASE Crash
    <2>1. crashes' = crashes + 1
        BY <1>10 DEF Crash
    <2> QED
        BY <1>0, <2>1
<1> QED
    BY <1>1, <1>2, <1>3, <1>4, <1>7, <1>8, <1>9, <1>10 DEF Next, SimulatorStep

LEMMA GapStep ==
    TypeInv /\ GapInv /\ [Next]_vars => GapInv'
<1> SUFFICES ASSUME TypeInv, GapInv, [Next]_vars PROVE GapInv'
    OBVIOUS
<1>0. crashes \in Nat /\ ticks \subseteq stored /\ stored \subseteq Messages /\ gap \subseteq Messages
    BY DEF TypeInv, TypeOK
<1> USE DEF localVars, tableVars, GapInv
<1>1. CASE Persist
    <2>1. PICK m \in (1 .. published) \ stored :
                stored' = stored \cup {m} /\ ticks' = ticks \cup {m}
        BY <1>1 DEF Persist
    <2>2. stored' \ ticks' = stored \ ticks
        BY <1>0, <2>1
    <2>3. UNCHANGED <<planted, phase, gap, crashes>>
        BY <1>1 DEF Persist
    <2> QED
        BY <2>2, <2>3 DEF PlantedOf, InPlantedGap
<1>2. CASE Start
    <2>1. phase # "logGap" /\ gap' = {} /\ phase' = "read" /\ UNCHANGED <<stored, ticks, planted, crashes>>
        BY <1>2 DEF Start
    <2> QED
        BY <2>1 DEF PlantedOf, InPlantedGap
<1>3. CASE LogAnomaly
    <2> DEFINE new == [type |-> fill.type, fill |-> fill.id, first |-> None, last |-> None]
    <2>1. /\ phase = "log" /\ phase' # "logGap" /\ UNCHANGED <<stored, ticks, gap, crashes>>
          /\ planted' = planted \cup {new} /\ new.type # "sequence_gap"
        BY <1>3, DonePhase DEF LogAnomaly, InsertAnomaly, TypeInv, Logged
    <2> HIDE DEF new
    <2>2. PlantedOf("sequence_gap")' = PlantedOf("sequence_gap")
        BY <2>1 DEF PlantedOf
    <2> QED
        BY <2>1, <2>2 DEF InPlantedGap
<1>4. CASE DeleteTicks
    <2>1. phase = "delete" /\ UNCHANGED <<stored, planted, crashes>> /\ gap = {}
        BY <1>4 DEF DeleteTicks
    <2>2. /\ gap' \cap ticks' = {} /\ gap' \subseteq ticks
          /\ ticks = ticks' \cup gap'
          /\ (phase' # "logGap" => gap' = {})
        BY <1>4, <2>1, DonePhase DEF DeleteTicks, DeleteSequences, Returned
    <2>3. PlantedOf("sequence_gap")' = PlantedOf("sequence_gap")
        BY <2>1 DEF PlantedOf
    <2>4. stored' \ ticks' = (stored \ ticks) \cup gap'
        BY <1>0, <2>1, <2>2
    <2> QED
        BY <2>1, <2>2, <2>3, <2>4 DEF InPlantedGap
<1>5. CASE LogGap
    <2> DEFINE new == [type |-> "sequence_gap", fill |-> None,
                       first |-> Min(gap), last |-> Max(gap)]
    <2>1. /\ phase' # "logGap" /\ gap' = {} /\ UNCHANGED <<stored, ticks, crashes>>
          /\ planted' = planted \cup {new}
          /\ new.type = "sequence_gap" /\ new.first = Min(gap) /\ new.last = Max(gap)
        BY <1>5, DonePhase DEF LogGap, InsertAnomaly
    <2> HIDE DEF new
    <2>2. gap # {}
        BY <1>5 DEF LogGap, TypeInv
    <2>3. /\ Min(gap) \in gap /\ Max(gap) \in gap
          /\ \A m \in gap : Min(gap) <= m /\ m <= Max(gap)
        BY <1>0, <2>2, MinOfMessages
    <2>4. PlantedOf("sequence_gap")' = PlantedOf("sequence_gap") \cup {new}
        BY <2>1 DEF PlantedOf
    <2>5. \A a \in PlantedOf("sequence_gap")' : {a.first, a.last} \subseteq stored \ ticks
        BY <2>1, <2>3, <2>4
    <2>6. \A m : InPlantedGap(m) => InPlantedGap(m)'
        BY <2>1, <2>3, <2>4 DEF InPlantedGap
    <2> QED
        BY <2>1, <2>5, <2>6
<1>6. CASE Crash
    <2>1. /\ crashes' = crashes + 1 /\ gap' = {} /\ phase' = "crashed"
          /\ UNCHANGED <<stored, ticks, planted>>
        BY <1>6 DEF Crash
    <2> QED
        BY <1>0, <2>1 DEF PlantedOf
<1>7. CASE UNCHANGED <<stored, ticks, planted, gap, crashes>>
           /\ (phase' # phase => phase # "logGap" /\ phase' # "logGap")
    BY <1>7 DEF PlantedOf, InPlantedGap
<1>8. CASE Publish \/ Read \/ ReadNothing \/ WriteFill \/ WritePosition \/ UNCHANGED vars
    BY <1>7, <1>8, DonePhase DEF Publish, Read, ReadNothing, WriteFill, WritePosition, vars
<1>9. ASSUME NEW m \in todo, Skip(m) \/ Trade(m) PROVE GapInv'
    BY <1>7, <1>9 DEF Skip, Trade, Acknowledge, AfterMessage
<1> QED
    BY <1>1, <1>2, <1>3, <1>4, <1>5, <1>6, <1>8, <1>9 DEF Next, SimulatorStep

(* While no simulator dies, the ground truth is complete whenever it is    *)
(* between two messages: a row for each planted fill, a position for each  *)
(* drifted one, and a range around each deleted tick that begins and ends  *)
(* with a deleted tick.                                                    *)
THEOREM GroundTruthHolds == Spec => []GroundTruthIsComplete
<1> DEFINE Inv == TypeInv /\ IdInv /\ RowsInv /\ GapInv
<1>1. Init => Inv
    <2>1. ASSUME Init PROVE RowsInv /\ GapInv
        <3>1. \A type : PlantedOf(type) = {} /\ FillsOf(type) = {} /\ InHand(type) = {}
            BY <2>1 DEF Init, TablesInit, PlantedOf, FillsOf, InHand
        <3> QED
            BY <2>1, <3>1 DEF RowsInv, GapInv, Init, TablesInit
    <2> QED
        BY <2>1, TypeInit, TakenInit
<1>2. Inv /\ [Next]_vars => Inv'
    BY TypeStep, IdStep, RowsStep, GapStep
<1>3. Inv => GroundTruthIsComplete
    <2> SUFFICES ASSUME RowsInv, GapInv, AtRest, crashes = 0
                 PROVE  /\ \A type \in {"unmatched_fill", "position_drift"} :
                            {a.fill : a \in PlantedOf(type)} = FillsOf(type)
                        /\ DriftedRows = FillsOf("position_drift")
                        /\ \A m \in stored \ ticks : InPlantedGap(m)
                        /\ \A a \in PlantedOf("sequence_gap") :
                            {a.first, a.last} \subseteq stored \ ticks
        BY DEF GroundTruthIsComplete
    <2>1. phase \notin {"log", "position"}
        BY DEF AtRest
    <2>2. \A type : InHand(type) = {}
        BY <2>1 DEF InHand
    <2>3. \A type \in {"unmatched_fill", "position_drift"} :
            {a.fill : a \in PlantedOf(type)} = FillsOf(type)
        BY <2>2 DEF RowsInv, Logged
    <2>4. \A id \in FillsOf("position_drift") : \E p \in positions : p.fill = id
        BY <2>1 DEF RowsInv
    <2>5. DriftedRows = FillsOf("position_drift")
        BY <2>4 DEF DriftedRows
    <2> QED
        BY <2>3, <2>5 DEF GapInv
<1> QED
    BY <1>1, <1>2, <1>3, PTL DEF Spec
=============================================================================
