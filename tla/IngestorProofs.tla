--------------------------- MODULE IngestorProofs ---------------------------
(***************************************************************************)
(* Proofs about Ingestor for every set of hours, every limit of the bronze *)
(* writer and every bound: type correctness, that no line is lost without  *)
(* a kill or a failed PUT, that a line lands twice only after a failed     *)
(* PUT, the bound of the memory, the numbering of the published ticks, and *)
(* that the program implements RawLog.                                     *)
(***************************************************************************)
EXTENDS Ingestor, FiniteSetTheorems, TLAPS

(* The assumptions on the constants, in the form the proofs use. *)
LEMMA Constants ==
    /\ IsFiniteSet(Partitions) /\ Partitions \subseteq Nat
    /\ FlushMaxLines \in Nat \ {0} /\ FlushMaxAge \in Nat \ {0}
    /\ MaxReconnects \in Nat \cup {None}
    /\ MaxBackoff \in Nat \ {0}
    /\ MaxReceived \in Nat /\ MaxPutErrors \in Nat /\ MaxKills \in Nat /\ MaxRuns \in Nat
BY WriterAssumption, IngestorAssumption

USE Constants

-----------------------------------------------------------------------------
(* The inductive invariants, in parts. *)

(* A PUT is named by the number of objects before it, which is one. *)
ObjectsFinite == IsFiniteSet(objects)

(* What is published is a tick. *)
TypeInv ==
    /\ TypeOK
    /\ ObjectsFinite
    /\ phase = "publish" => tick \in Tick

(* A line waits in one buffer at most, and no line was seen before it was  *)
(* received.                                                               *)
LinesInv ==
    /\ \A p, q \in Partitions : p # q => buffers[p] \cap buffers[q] = {}
    /\ \A p \in Partitions : buffers[p] \subseteq 1 .. received
    /\ \A o \in objects : o.lines \subseteq 1 .. received

(* The entries of the stream that the run numbered r published. *)
OfRun(r) == {j \in DOMAIN stream : stream[j].run = r}

(* The counter is ahead of the stream by the tick that is being published; *)
(* what a run that ends has published does not matter, as the next run     *)
(* counts its own.                                                         *)
StreamInv ==
    /\ \A j \in DOMAIN stream : stream[j].run <= runs /\ stream[j].message <= received
    /\ phase \in Alive \ {"publish", "exit"} => nextSequence = Cardinality(OfRun(runs)) + 1
    /\ phase = "publish" =>
        /\ tick.run = runs /\ tick.message = received
        /\ tick.sequence = Cardinality(OfRun(runs)) + 1
        /\ nextSequence = Cardinality(OfRun(runs)) + 2
        /\ \A j \in OfRun(runs) : stream[j].message < received

-----------------------------------------------------------------------------
(* Facts about the operators of the bronze writer. *)

WriterTypeOK ==
    /\ buffers \in [Partitions -> SUBSET Lines]
    /\ age \in [Partitions -> 0 .. FlushMaxAge]
    /\ objects \subseteq [partition : Partitions, key : Nat, lines : SUBSET Lines]
    /\ putErrors \in Nat
    /\ ObjectsFinite

(* The objects of a flush of the partitions ps, when b are the buffers. *)
New(b, ps) == {Object(p, b[p]) : p \in ps}

LEMMA NewFinite ==
    ASSUME NEW b, NEW ps \in SUBSET Partitions, ObjectsFinite
    PROVE  IsFiniteSet(objects \cup New(b, ps))
<1> DEFINE f == [p \in ps |-> Object(p, b[p])]
<1>1. IsFiniteSet(ps)
    BY FS_Subset
<1>2. f \in Surjection(ps, New(b, ps))
    BY DEF New, Surjection
<1>3. IsFiniteSet(New(b, ps))
    BY <1>1, <1>2, FS_Surjection
<1> QED
    BY <1>3, FS_Union DEF ObjectsFinite

LEMMA NewTypes ==
    ASSUME NEW b \in [Partitions -> SUBSET Lines], NEW ps \in SUBSET Partitions,
           WriterTypeOK
    PROVE  /\ New(b, ps) \subseteq [partition : Partitions, key : Nat, lines : SUBSET Lines]
           /\ IsFiniteSet(objects \cup New(b, ps))
<1>1. Cardinality(objects) \in Nat
    BY FS_CardinalityType DEF WriterTypeOK, ObjectsFinite
<1> QED
    BY <1>1, NewFinite DEF New, Object, WriterTypeOK

LEMMA PutAllTypes ==
    ASSUME NEW b \in [Partitions -> SUBSET Lines],
           NEW a \in [Partitions -> 0 .. FlushMaxAge],
           NEW ps \in SUBSET Partitions,
           WriterTypeOK, PutAll(b, a, ps)
    PROVE  WriterTypeOK'
<1>1. objects' = objects \cup New(b, ps)
    BY DEF PutAll, New
<1>2. /\ New(b, ps) \subseteq [partition : Partitions, key : Nat, lines : SUBSET Lines]
      /\ IsFiniteSet(objects')
    BY <1>1, NewTypes
<1> QED
    BY <1>1, <1>2 DEF PutAll, WriterTypeOK, ObjectsFinite

(* The flush that fails empties the partitions done, and lands those of    *)
(* landing: one more when the store took the object.                       *)
LEMMA PutFailsEffect ==
    ASSUME NEW b, NEW a, NEW ps, PutFails(b, a, ps)
    PROVE  \E done, landing \in SUBSET ps, failing \in ps :
              /\ failing \notin done /\ done \subseteq landing /\ landing \subseteq done \cup {failing}
              /\ objects' = objects \cup New(b, landing)
              /\ buffers' = [p \in Partitions |-> IF p \in done THEN {} ELSE b[p]]
              /\ age' = [p \in Partitions |-> IF p \in done THEN 0 ELSE a[p]]
              /\ putErrors' = putErrors + 1
<1>1. PICK done \in SUBSET ps, taken \in BOOLEAN, failing \in ps :
        /\ failing \notin done
        /\ objects' = objects \cup {Object(p, b[p]) : p \in
                            IF taken THEN done \cup {failing} ELSE done}
        /\ buffers' = [p \in Partitions |-> IF p \in done THEN {} ELSE b[p]]
        /\ age' = [p \in Partitions |-> IF p \in done THEN 0 ELSE a[p]]
        /\ putErrors' = putErrors + 1
    BY DEF PutFails
<1> DEFINE landing == IF taken THEN done \cup {failing} ELSE done
<1>3. landing \in SUBSET ps
    BY <1>1
<1>4. objects' = objects \cup New(b, landing)
    BY <1>1 DEF New
<1>5. done \subseteq landing /\ landing \subseteq done \cup {failing}
    OBVIOUS
<1> HIDE DEF landing
<1> QED
    BY <1>1, <1>3, <1>4, <1>5

LEMMA PutFailsTypes ==
    ASSUME NEW b \in [Partitions -> SUBSET Lines],
           NEW a \in [Partitions -> 0 .. FlushMaxAge],
           NEW ps \in SUBSET Partitions,
           WriterTypeOK, PutFails(b, a, ps)
    PROVE  WriterTypeOK'
<1>1. PICK done \in SUBSET ps, landing \in SUBSET ps, failing \in ps :
        /\ failing \notin done /\ done \subseteq landing /\ landing \subseteq done \cup {failing}
        /\ objects' = objects \cup New(b, landing)
        /\ buffers' = [p \in Partitions |-> IF p \in done THEN {} ELSE b[p]]
        /\ age' = [p \in Partitions |-> IF p \in done THEN 0 ELSE a[p]]
        /\ putErrors' = putErrors + 1
    BY PutFailsEffect
<1>2. /\ New(b, landing) \subseteq [partition : Partitions, key : Nat, lines : SUBSET Lines]
      /\ IsFiniteSet(objects')
    BY <1>1, NewTypes
<1> QED
    BY <1>1, <1>2 DEF WriterTypeOK, ObjectsFinite

-----------------------------------------------------------------------------
(* Every reachable state is of the types the declarations announce. *)

LEMMA TypeInit == Init => TypeInv
<1> SUFFICES ASSUME Init PROVE TypeInv
    OBVIOUS
<1>1. IsFiniteSet(objects)
    BY FS_EmptySet DEF Init, WriterInit
<1> QED
    BY <1>1 DEF Init, WriterInit, TypeInv, TypeOK, ObjectsFinite

(* Appending the line m to the buffer of p, whether or not it is flushed. *)
LEMMA AppendedType ==
    ASSUME WriterTypeOK, NEW p \in Partitions, NEW m \in Lines
    PROVE  /\ Appended(p, m) \in [Partitions -> SUBSET Lines]
           /\ Filled(p, m) \in SUBSET Partitions
           /\ \A q \in Partitions : Appended(p, m)[q] =
                  IF q = p THEN buffers[p] \cup {m} ELSE buffers[q]
BY DEF WriterTypeOK, Appended, Filled

LEMMA OlderType ==
    ASSUME WriterTypeOK
    PROVE  /\ Older \in [Partitions -> 0 .. FlushMaxAge]
           /\ Due(Older) \in SUBSET Partitions
BY DEF WriterTypeOK, Older, Due

LEMMA WriterStep ==
    ASSUME TypeInv, [Next]_vars
    PROVE  WriterTypeOK'
<1>0. WriterTypeOK
    BY DEF TypeInv, TypeOK, WriterTypeOK
<1>1. CASE UNCHANGED writerVars
    BY <1>0, <1>1 DEF WriterTypeOK, ObjectsFinite, writerVars
<1>2. CASE Start
    BY <1>0, <1>2 DEF Start, WriterTypeOK, ObjectsFinite
<1>3. CASE ReceiveRejected \/ ReceiveTick \/ ReceiveUnlanded
    <2>1. hour \in Partitions /\ received' \in Lines
        BY <1>3 DEF ReceiveRejected, ReceiveTick, ReceiveUnlanded, Receive, TypeInv, TypeOK, Lines
    <2>2. CASE AppendLine(hour, received')
        BY <1>0, <2>1, <2>2, AppendedType, PutAllTypes DEF AppendLine, WriterTypeOK
    <2>3. CASE AppendLineFails(hour, received')
        BY <1>0, <2>1, <2>3, AppendedType, PutFailsTypes DEF AppendLineFails, WriterTypeOK
    <2> QED
        BY <1>3, <2>2, <2>3 DEF ReceiveRejected, ReceiveTick, ReceiveUnlanded
<1>4. CASE FlushPeriod
    BY <1>0, <1>4, OlderType, PutAllTypes, PutFailsTypes
       DEF FlushPeriod, FlushDue, FlushDueFails, WriterTypeOK
<1>5. CASE Exit
    <2>1. NonEmpty \in SUBSET Partitions
        BY DEF NonEmpty
    <2> QED
        BY <1>0, <1>5, <2>1, PutAllTypes, PutFailsTypes
           DEF Exit, FlushAll, FlushAllFails, WriterTypeOK
<1> QED
    BY <1>1, <1>2, <1>3, <1>4, <1>5
       DEF Next, vars, Connect, Subscribe, Disconnect, Sleep, CleanClose,
           Publish, PublishFails, Interrupt, Kill, NextHour

LEMMA TypeStep == TypeInv /\ [Next]_vars => TypeInv'
<1> SUFFICES ASSUME TypeInv, [Next]_vars PROVE TypeInv'
    OBVIOUS
<1>0. WriterTypeOK'
    BY WriterStep
<1> USE DEF TypeInv, TypeOK, WriterTypeOK, ObjectsFinite, Alive, writerVars, runVars
<1>1. CASE Start
    BY <1>0, <1>1 DEF Start
<1>2. CASE Connect \/ Subscribe \/ Disconnect \/ CleanClose
    <2>1. phase' \in Alive \ {"publish"}
        BY <1>2 DEF Connect, Subscribe, Disconnect, CleanClose
    <2>3. attempts' \in Nat
        BY <1>2 DEF Connect, Subscribe, Disconnect, CleanClose
    <2>4. backoff' \in 1 .. MaxBackoff
        BY <1>2 DEF Connect, Subscribe, Disconnect, CleanClose
    <2>2. UNCHANGED <<writerVars, nextSequence, tick, hour, flusher, received, stream, kills, runs>>
        BY <1>2 DEF Connect, Subscribe, Disconnect, CleanClose
    <2> QED
        BY <1>0, <2>1, <2>2, <2>3, <2>4
<1>3. CASE Sleep
    BY <1>0, <1>3 DEF Sleep
<1>4. CASE ReceiveRejected \/ ReceiveTick \/ ReceiveUnlanded
    <2>1. received' \in Lines /\ received' \in 0 .. MaxReceived
        BY <1>4 DEF ReceiveRejected, ReceiveTick, ReceiveUnlanded, Receive, Lines
    <2>2. CASE ReceiveRejected \/ ReceiveUnlanded
        BY <1>0, <2>1, <2>2 DEF ReceiveRejected, ReceiveUnlanded, Receive
    <2>3. CASE ReceiveTick
        <3>1. tick' \in Tick
            BY <2>1, <2>3 DEF ReceiveTick, Tick
        <3>2. nextSequence' \in Nat \ {0} /\ phase' = "publish"
            BY <2>3 DEF ReceiveTick
        <3> QED
            BY <1>0, <2>1, <2>3, <3>1, <3>2 DEF ReceiveTick, Receive
    <2> QED
        BY <1>4, <2>2, <2>3
<1>5. CASE Publish \/ PublishFails \/ Interrupt
    <2>1. phase = "publish" => Append(stream, tick) \in Seq(Tick)
        OBVIOUS
    <2>2. stream' \in Seq(Tick)
        BY <1>5, <2>1 DEF Publish, PublishFails, Interrupt
    <2> QED
        BY <1>0, <1>5, <2>2 DEF Publish, PublishFails, Interrupt
<1>6. CASE FlushPeriod
    BY <1>0, <1>6 DEF FlushPeriod
<1>7. CASE Exit
    BY <1>0, <1>7 DEF Exit
<1>8. CASE Kill
    BY <1>0, <1>8 DEF Kill
<1>9. CASE NextHour
    BY <1>0, <1>9 DEF NextHour
<1>10. CASE UNCHANGED vars
    BY <1>0, <1>10 DEF vars
<1> QED
    BY <1>1, <1>2, <1>3, <1>4, <1>5, <1>6, <1>7, <1>8, <1>9, <1>10
       DEF Next

(* The buffers hold lines of the feed, the ages stay below the limit at    *)
(* which a buffer is flushed, and what is published is a tick.             *)
THEOREM TypeCorrect == Spec => []TypeOK
<1>1. Init => TypeInv
    BY TypeInit
<1>2. TypeInv /\ [Next]_vars => TypeInv'
    BY TypeStep
<1>3. TypeInv => TypeOK
    BY DEF TypeInv
<1> QED
    BY <1>1, <1>2, <1>3, PTL DEF Spec
-----------------------------------------------------------------------------
(* What a flush does to the lines: those of the partitions in landing go   *)
(* to the bucket, those of the partitions in done leave memory.            *)

Flushing(b, done, landing) ==
    /\ done \subseteq landing /\ landing \subseteq Partitions
    /\ objects' = objects \cup New(b, landing)
    /\ buffers' = [p \in Partitions |-> IF p \in done THEN {} ELSE b[p]]

LinesOf(b, ps) == UNION {b[p] : p \in ps}

LEMMA PutAllFlushes ==
    ASSUME NEW b, NEW a, NEW ps \in SUBSET Partitions, PutAll(b, a, ps)
    PROVE  Flushing(b, ps, ps)
BY DEF PutAll, Flushing, New

LEMMA PutFailsFlushes ==
    ASSUME NEW b, NEW a, NEW ps \in SUBSET Partitions, PutFails(b, a, ps)
    PROVE  \E done, landing \in SUBSET ps : Flushing(b, done, landing)
<1>1. PICK done \in SUBSET ps, landing \in SUBSET ps, failing \in ps :
        /\ failing \notin done /\ done \subseteq landing /\ landing \subseteq done \cup {failing}
        /\ objects' = objects \cup New(b, landing)
        /\ buffers' = [p \in Partitions |-> IF p \in done THEN {} ELSE b[p]]
        /\ age' = [p \in Partitions |-> IF p \in done THEN 0 ELSE a[p]]
        /\ putErrors' = putErrors + 1
    BY PutFailsEffect
<1>2. Flushing(b, done, landing)
    BY <1>1 DEF Flushing
<1> QED
    BY <1>2

LEMMA FlushMovesLines ==
    ASSUME NEW b, NEW done, NEW landing, Flushing(b, done, landing)
    PROVE  /\ Landed' = Landed \cup LinesOf(b, landing)
           /\ Buffered' = LinesOf(b, Partitions \ done)
           /\ Landed' \cup Buffered' = Landed \cup LinesOf(b, Partitions)
           /\ Buffered' \ Landed' = LinesOf(b, Partitions) \ Landed'
<1>1. Landed' = Landed \cup LinesOf(b, landing)
    <2>1. \A m : m \in Landed' <=> \E o \in objects \cup New(b, landing) : m \in o.lines
        BY DEF Landed, Flushing
    <2>2. ASSUME NEW m
          PROVE  (\E o \in New(b, landing) : m \in o.lines) <=> \E p \in landing : m \in b[p]
        <3>1. \A p : Object(p, b[p]).lines = b[p]
            BY DEF Object
        <3> QED
            BY <3>1 DEF New
    <2> QED
        BY <2>1, <2>2 DEF Landed, LinesOf
<1>2. Buffered' = LinesOf(b, Partitions \ done)
    <2>1. \A p \in Partitions : buffers'[p] = IF p \in done THEN {} ELSE b[p]
        BY DEF Flushing
    <2> QED
        BY <2>1 DEF Buffered, LinesOf
<1>3. \A m : m \in LinesOf(b, Partitions) <=>
                m \in LinesOf(b, Partitions \ done) \/ m \in LinesOf(b, done)
    BY DEF LinesOf, Flushing
<1>4. LinesOf(b, done) \subseteq LinesOf(b, landing)
    BY DEF LinesOf, Flushing
<1>5. LinesOf(b, landing) \subseteq LinesOf(b, Partitions)
    BY DEF LinesOf, Flushing
<1> QED
    BY <1>1, <1>2, <1>3, <1>4, <1>5

LEMMA AppendedLines ==
    ASSUME TypeInv, NEW p \in Partitions, NEW m \in Lines
    PROVE  LinesOf(Appended(p, m), Partitions) = Buffered \cup {m}
<1>1. \A q \in Partitions : Appended(p, m)[q] = IF q = p THEN buffers[p] \cup {m}
                                                        ELSE buffers[q]
    BY AppendedType DEF TypeInv, TypeOK, WriterTypeOK
<1> QED
    BY <1>1 DEF LinesOf, Buffered

(* A step of the receiving task with a new line. *)
LEMMA ReceiveEffect ==
    ASSUME TypeInv, ReceiveRejected \/ ReceiveTick \/ ReceiveUnlanded
    PROVE  /\ received < MaxReceived /\ received' = received + 1
           /\ InMemory = Buffered /\ InMemory' = Buffered'
           /\ \E done, landing \in SUBSET Partitions :
                Flushing(Appended(hour, received'), done, landing)
<1>1. hour \in Partitions /\ received' \in Lines
    BY DEF ReceiveRejected, ReceiveTick, ReceiveUnlanded, Receive, Lines, TypeInv, TypeOK
<1>2. received < MaxReceived /\ received' = received + 1
    BY DEF ReceiveRejected, ReceiveTick, ReceiveUnlanded, Receive
<1>3. InMemory = Buffered /\ InMemory' = Buffered'
    BY DEF InMemory, ReceiveRejected, ReceiveTick, ReceiveUnlanded, Receive
<1>4. Filled(hour, received') \in SUBSET Partitions
    BY <1>1 DEF Filled
<1>5. \E done, landing \in SUBSET Partitions :
                Flushing(Appended(hour, received'), done, landing)
    BY <1>4, PutAllFlushes, PutFailsFlushes
       DEF ReceiveRejected, ReceiveTick, ReceiveUnlanded, AppendLine, AppendLineFails
<1> QED
    BY <1>2, <1>3, <1>5

LEMMA BufferedLines == Buffered = LinesOf(buffers, Partitions)
BY DEF Buffered, LinesOf

(* A step of the flush task. *)
LEMMA FlushPeriodEffect ==
    ASSUME TypeInv, FlushPeriod
    PROVE  /\ InMemory = Buffered /\ InMemory' = Buffered' /\ UNCHANGED received
           /\ \E done, landing \in SUBSET Partitions : Flushing(buffers, done, landing)
<1>1. Due(Older) \in SUBSET Partitions
    BY DEF Due
<1>2. \E done, landing \in SUBSET Partitions : Flushing(buffers, done, landing)
    BY <1>1, PutAllFlushes, PutFailsFlushes DEF FlushPeriod, FlushDue, FlushDueFails
<1>3. InMemory = Buffered /\ InMemory' = Buffered' /\ UNCHANGED received
    BY DEF FlushPeriod, InMemory, Alive, runVars
<1> QED
    BY <1>2, <1>3

(* The end of the program. *)
LEMMA ExitEffect ==
    ASSUME TypeInv, Exit
    PROVE  /\ InMemory = Buffered /\ InMemory' = {} /\ UNCHANGED received
           /\ \E done, landing \in SUBSET Partitions : Flushing(buffers, done, landing)
<1>1. NonEmpty \in SUBSET Partitions
    BY DEF NonEmpty
<1>2. \E done, landing \in SUBSET Partitions : Flushing(buffers, done, landing)
    BY <1>1, PutAllFlushes, PutFailsFlushes DEF Exit, FlushAll, FlushAllFails
<1>3. InMemory = Buffered /\ InMemory' = {} /\ UNCHANGED received
    BY DEF Exit, InMemory
<1> QED
    BY <1>2, <1>3

(* The steps that leave the writer alone, and what the process holds. *)
LEMMA OtherEffect ==
    ASSUME TypeInv,
           \/ Connect \/ Subscribe \/ Disconnect \/ CleanClose \/ Sleep \/ Publish
           \/ PublishFails \/ Interrupt \/ NextHour \/ UNCHANGED vars
    PROVE  /\ Landed' = Landed /\ InMemory' = InMemory
           /\ UNCHANGED <<writerVars, received, kills>>
<1>1. UNCHANGED <<writerVars, received, kills>>
    BY DEF Connect, Subscribe, Disconnect, CleanClose, Sleep, Publish, PublishFails,
           Interrupt, NextHour, vars
<1>2. phase = "down" <=> phase' = "down"
    BY DEF Connect, Subscribe, Disconnect, CleanClose, Sleep, Publish, PublishFails,
           Interrupt, NextHour, vars, runVars, Alive
<1>3. Landed' = Landed /\ Buffered' = Buffered
    BY <1>1 DEF Landed, Buffered, writerVars
<1> QED
    BY <1>1, <1>2, <1>3 DEF InMemory
-----------------------------------------------------------------------------
(* Nothing received is lost without a kill or a failed PUT. *)

(* A step in which every PUT succeeds and nothing is killed keeps what was *)
(* kept, and what it receives.                                             *)
LEMMA KeptStep ==
    ASSUME TypeInv, [Next]_vars, kills' = 0, putErrors' = 0
    PROVE  /\ kills = 0 /\ putErrors = 0
           /\ Kept \subseteq Kept'
           /\ received' = received \/ (received' = received + 1 /\ received' \in Kept')
<1> USE DEF Kept
<1>0. kills \in Nat /\ putErrors \in Nat /\ received \in Nat
    BY DEF TypeInv, TypeOK
<1>1. CASE Start
    <2>1. Landed' = Landed /\ InMemory = {} /\ UNCHANGED <<received, kills, putErrors>>
        BY <1>1 DEF Start, Landed, InMemory
    <2> QED
        BY <2>1
<1>2. CASE ReceiveRejected \/ ReceiveTick \/ ReceiveUnlanded
    <2>1. received' = received + 1 /\ InMemory = Buffered /\ InMemory' = Buffered'
        BY <1>2, ReceiveEffect
    <2>2. hour \in Partitions /\ received' \in Lines
        BY <1>2, ReceiveEffect DEF TypeInv, TypeOK, Lines
    <2>3. PICK done, landing \in SUBSET Partitions :
                Flushing(Appended(hour, received'), done, landing)
        BY <1>2, ReceiveEffect
    <2>4. Landed' \cup Buffered' = Landed \cup LinesOf(Appended(hour, received'), Partitions)
        BY <2>3, FlushMovesLines
    <2>5. LinesOf(Appended(hour, received'), Partitions) = Buffered \cup {received'}
        BY <2>2, AppendedLines
    <2>6. kills' = kills /\ putErrors' \in {putErrors, putErrors + 1}
        BY <1>2 DEF ReceiveRejected, ReceiveTick, ReceiveUnlanded, Receive, AppendLine,
                    AppendLineFails, PutAll, PutFails
    <2> QED
        BY <1>0, <2>1, <2>4, <2>5, <2>6
<1>3. CASE FlushPeriod
    <2>1. received' = received /\ InMemory = Buffered /\ InMemory' = Buffered'
        BY <1>3, FlushPeriodEffect
    <2>2. PICK done, landing \in SUBSET Partitions : Flushing(buffers, done, landing)
        BY <1>3, FlushPeriodEffect
    <2>3. Landed' \cup Buffered' = Landed \cup Buffered
        BY <2>2, FlushMovesLines, BufferedLines
    <2>4. kills' = kills /\ putErrors' \in {putErrors, putErrors + 1}
        BY <1>3 DEF FlushPeriod, FlushDue, FlushDueFails, PutAll, PutFails
    <2> QED
        BY <1>0, <2>1, <2>3, <2>4
<1>4. CASE Exit
    <2>1. kills' = kills /\ putErrors' \in {putErrors, putErrors + 1}
        BY <1>4 DEF Exit, FlushAll, FlushAllFails, PutAll, PutFails
    <2>2. FlushAll
        BY <1>0, <1>4 DEF Exit, FlushAllFails, PutFails
    <2>3. Flushing(buffers, NonEmpty, NonEmpty)
        BY <2>2, PutAllFlushes DEF FlushAll, NonEmpty
    <2>4. Landed' = Landed \cup LinesOf(buffers, NonEmpty)
        BY <2>3, FlushMovesLines
    <2>5. Buffered \subseteq LinesOf(buffers, NonEmpty)
        BY DEF Buffered, LinesOf, NonEmpty
    <2>6. received' = received /\ InMemory = Buffered
        BY <1>4, ExitEffect
    <2> QED
        BY <1>0, <2>1, <2>4, <2>5, <2>6
<1>5. CASE Kill
    BY <1>0, <1>5 DEF Kill
<1>6. CASE \/ Connect \/ Subscribe \/ Disconnect \/ CleanClose \/ Sleep \/ Publish
           \/ PublishFails \/ Interrupt \/ NextHour \/ UNCHANGED vars
    BY <1>6, OtherEffect DEF writerVars
<1> QED
    BY <1>1, <1>2, <1>3, <1>4, <1>5, <1>6 DEF Next

LEMMA EveryLineStep ==
    TypeInv /\ EveryLineIsKept /\ [Next]_vars => EveryLineIsKept'
<1> SUFFICES ASSUME TypeInv, EveryLineIsKept, [Next]_vars, kills' = 0, putErrors' = 0
             PROVE  1 .. received' \subseteq Kept'
    BY DEF EveryLineIsKept
<1>1. /\ 1 .. received \subseteq Kept /\ Kept \subseteq Kept'
      /\ received' = received \/ (received' = received + 1 /\ received' \in Kept')
    BY KeptStep DEF EveryLineIsKept
<1>2. received \in Nat
    BY DEF TypeInv, TypeOK
<1> QED
    BY <1>1, <1>2

(* "Bronze capture happens on every relevant message": while no process is *)
(* killed and no PUT fails, every line received is in the bucket or in the *)
(* memory of a live process, over all restarts.                            *)
THEOREM LinesAreKept == Spec => []EveryLineIsKept
<1>1. Init => TypeInv /\ EveryLineIsKept
    <2>1. Init => EveryLineIsKept
        BY DEF Init, EveryLineIsKept
    <2> QED
        BY <2>1, TypeInit
<1>2. TypeInv /\ EveryLineIsKept /\ [Next]_vars => TypeInv' /\ EveryLineIsKept'
    BY TypeStep, EveryLineStep
<1> QED
    BY <1>1, <1>2, PTL DEF Spec

-----------------------------------------------------------------------------
(* The bound of the memory. *)

LEMMA LinesFinite ==
    ASSUME NEW S \in SUBSET Lines
    PROVE  IsFiniteSet(S) /\ Cardinality(S) \in Nat
<1>1. IsFiniteSet(Lines)
    BY FS_Interval DEF Lines
<1>2. IsFiniteSet(S)
    BY <1>1, FS_Subset
<1> QED
    BY <1>2, FS_CardinalityType

LEMMA EmptyIsBelow == Cardinality({}) < FlushMaxLines
BY FS_EmptySet

LEMMA BelowLimitStep ==
    TypeInv /\ BuffersStayBelowLimit /\ [Next]_vars => BuffersStayBelowLimit'
<1> SUFFICES ASSUME TypeInv, BuffersStayBelowLimit, [Next]_vars,
                    phase' \in Alive \ {"exit"}, NEW p \in Partitions
             PROVE  Cardinality(buffers'[p]) < FlushMaxLines
    BY DEF BuffersStayBelowLimit
<1>1. CASE Start
    BY <1>1, EmptyIsBelow DEF Start
<1>2. CASE ReceiveRejected \/ ReceiveTick
    <2> DEFINE b == Appended(hour, received')
               full == Filled(hour, received')
    <2>1. hour \in Partitions /\ received' \in Lines /\ phase \in Alive \ {"exit"}
        BY <1>2 DEF ReceiveRejected, ReceiveTick, Receive, Lines, Alive, TypeInv, TypeOK
    <2>2. PutAll(b, age, full)
        BY <1>2 DEF ReceiveRejected, ReceiveTick, AppendLine
    <2>3. buffers'[p] = IF p \in full THEN {} ELSE b[p]
        BY <2>2 DEF PutAll
    <2>4. b[p] = IF p = hour THEN buffers[hour] \cup {received'} ELSE buffers[p]
        <3>1. WriterTypeOK
            BY DEF TypeInv, TypeOK, WriterTypeOK
        <3>2. \A q \in Partitions : b[q] = IF q = hour THEN buffers[hour] \cup {received'}
                                                      ELSE buffers[q]
            BY <2>1, <3>1, AppendedType
        <3> QED
            BY <3>2
    <2>5. CASE p \in full
        BY <2>3, <2>5, EmptyIsBelow
    <2>6. CASE p \notin full /\ p = hour
        <3>1. b[p] \in SUBSET Lines
            BY <2>1, <2>4 DEF TypeInv, TypeOK
        <3>2. Cardinality(b[p]) \in Nat
            BY <3>1, LinesFinite
        <3>3. ~Full(b[p])
            BY <2>6 DEF Filled
        <3> QED
            BY <2>3, <2>6, <3>2, <3>3 DEF Full
    <2>7. CASE p \notin full /\ p # hour
        BY <2>1, <2>3, <2>4, <2>7 DEF BuffersStayBelowLimit
    <2> QED
        BY <2>5, <2>6, <2>7
<1>3. CASE FlushPeriod
    <2>1. PICK done, landing \in SUBSET Partitions : Flushing(buffers, done, landing)
        BY <1>3, FlushPeriodEffect
    <2>2. buffers'[p] \in {{}, buffers[p]}
        BY <2>1 DEF Flushing
    <2>3. phase \in Alive \ {"exit"}
        BY <1>3 DEF FlushPeriod, runVars
    <2> QED
        BY <2>2, <2>3, EmptyIsBelow DEF BuffersStayBelowLimit
<1>4. CASE ReceiveUnlanded \/ Exit \/ Kill
    BY <1>4 DEF ReceiveUnlanded, Exit, Kill, Alive
<1>5. CASE \/ Connect \/ Subscribe \/ Disconnect \/ CleanClose \/ Sleep \/ Publish
           \/ PublishFails \/ Interrupt \/ NextHour \/ UNCHANGED vars
    <2>1. buffers' = buffers
        BY <1>5, OtherEffect DEF writerVars
    <2>2. phase \in Alive \ {"exit"}
        BY <1>5 DEF Connect, Subscribe, Disconnect, CleanClose, Sleep, Publish,
                    PublishFails, Interrupt, NextHour, vars, runVars, Alive
    <2> QED
        BY <2>1, <2>2 DEF BuffersStayBelowLimit
<1> QED
    BY <1>1, <1>2, <1>3, <1>4, <1>5 DEF Next

(* While messages are taken, no hour holds as many lines as flush it: a    *)
(* PUT that fails because of them ends the run.                            *)
THEOREM MemoryIsBounded == Spec => []BuffersStayBelowLimit
<1>1. Init => TypeInv /\ BuffersStayBelowLimit
    <2>1. Init => BuffersStayBelowLimit
        BY DEF Init, Alive, BuffersStayBelowLimit
    <2> QED
        BY <2>1, TypeInit
<1>2. TypeInv /\ BuffersStayBelowLimit /\ [Next]_vars => TypeInv' /\ BuffersStayBelowLimit'
    BY TypeStep, BelowLimitStep
<1> QED
    BY <1>1, <1>2, PTL DEF Spec

-----------------------------------------------------------------------------
(* The program implements RawLog. *)

LEMMA RawLogInit == Init => Log!Init
BY DEF Init, WriterInit, Log!Init, InMemory, Landed

LEMMA RawLogStep == TypeInv /\ [Next]_vars => [Log!Next]_(Log!vars)
<1> SUFFICES ASSUME TypeInv, [Next]_vars PROVE [Log!Next]_(Log!vars)
    OBVIOUS
<1> DEFINE waits == InMemory \ Landed
<1>1. CASE Start
    <2>1. UNCHANGED <<received, objects>> /\ \A p \in Partitions : buffers'[p] = {}
        BY <1>1 DEF Start
    <2>2. InMemory = {} /\ Landed' = Landed
        BY <1>1, <2>1 DEF Start, InMemory, Landed
    <2>3. InMemory' = {}
        BY <2>1 DEF InMemory, Buffered
    <2> QED
        BY <2>1, <2>2, <2>3 DEF Log!vars
<1>2. CASE ReceiveRejected \/ ReceiveTick \/ ReceiveUnlanded
    <2> DEFINE m == received'
               S == Landed' \cap (waits \cup {m})
    <2>1. /\ received < MaxReceived /\ m = received + 1
          /\ InMemory = Buffered /\ InMemory' = Buffered'
        BY <1>2, ReceiveEffect
    <2>2. hour \in Partitions /\ m \in Lines
        BY <2>1 DEF TypeInv, TypeOK, Lines
    <2>3. PICK done, landing \in SUBSET Partitions :
                Flushing(Appended(hour, m), done, landing)
        BY <1>2, ReceiveEffect
    <2>4. LinesOf(Appended(hour, m), Partitions) = Buffered \cup {m}
        BY <2>2, AppendedLines
    <2>5. /\ Landed \subseteq Landed'
          /\ Landed' \cup Buffered' = Landed \cup Buffered \cup {m}
          /\ Buffered' \ Landed' = (Buffered \cup {m}) \ Landed'
        BY <2>3, <2>4, FlushMovesLines
    <2>6. Landed' = Landed \cup S
        BY <2>1, <2>5
    <2>7. waits' = (waits \cup {m}) \ S
        BY <2>1, <2>5
    <2>8. Log!Capture
        BY <2>1, <2>6, <2>7 DEF Log!Capture, Log!Land
    <2> QED
        BY <2>8 DEF Log!Next
<1>3. CASE FlushPeriod
    <2> DEFINE S == Landed' \cap waits
    <2>1. received' = received /\ InMemory = Buffered /\ InMemory' = Buffered'
        BY <1>3, FlushPeriodEffect
    <2>2. PICK done, landing \in SUBSET Partitions : Flushing(buffers, done, landing)
        BY <1>3, FlushPeriodEffect
    <2>3. /\ Landed \subseteq Landed'
          /\ Landed' \cup Buffered' = Landed \cup Buffered
          /\ Buffered' \ Landed' = Buffered \ Landed'
        BY <2>2, FlushMovesLines, BufferedLines
    <2>4. Landed' = Landed \cup S /\ waits' = waits \ S
        BY <2>1, <2>3
    <2>5. Log!Flush
        BY <2>1, <2>4 DEF Log!Flush, Log!Land
    <2> QED
        BY <2>5 DEF Log!Next
<1>4. CASE Exit
    <2> DEFINE S == Landed' \cap waits
    <2>1. received' = received /\ InMemory = Buffered /\ InMemory' = {}
        BY <1>4, ExitEffect
    <2>2. PICK done, landing \in SUBSET Partitions : Flushing(buffers, done, landing)
        BY <1>4, ExitEffect
    <2>3. Landed \subseteq Landed' /\ Landed' \subseteq Landed \cup Buffered
        BY <2>2, FlushMovesLines, BufferedLines
    <2>4. Landed' = Landed \cup S /\ waits' = {}
        BY <2>1, <2>3
    <2>5. Log!End
        BY <2>1, <2>4 DEF Log!End
    <2> QED
        BY <2>5 DEF Log!Next
<1>5. CASE Kill
    <2>1. UNCHANGED received /\ Landed' = Landed /\ waits' = {}
        BY <1>5 DEF Kill, writerVars, Landed, InMemory
    <2>2. Log!End
        BY <2>1 DEF Log!End
    <2> QED
        BY <2>2 DEF Log!Next
<1>6. CASE \/ Connect \/ Subscribe \/ Disconnect \/ CleanClose \/ Sleep \/ Publish
           \/ PublishFails \/ Interrupt \/ NextHour \/ UNCHANGED vars
    BY <1>6, OtherEffect DEF Log!vars
<1> QED
    BY <1>1, <1>2, <1>3, <1>4, <1>5, <1>6 DEF Next

(* Whatever fails, is killed or restarts, the ingest program behaves as    *)
(* the log of raw lines: what has landed stays, and only the end of a      *)
(* process loses lines, those that waited in its memory.                   *)
THEOREM IngestorImplementsRawLog == Spec => ImplementsRawLog
<1>1. Init => TypeInv /\ Log!Init
    BY TypeInit, RawLogInit
<1>2. TypeInv /\ [Next]_vars => TypeInv' /\ [Log!Next]_(Log!vars)
    BY TypeStep, RawLogStep
<1> QED
    BY <1>1, <1>2, PTL DEF Spec, ImplementsRawLog, Log!Spec

-----------------------------------------------------------------------------
(* The lines of the buffers and objects. *)

LEMMA LinesInit == Init => LinesInv
BY DEF Init, WriterInit, LinesInv

(* Each line stays where it was, the new one is in the buffer of its hour. *)
LEMMA FlushKeepsLines ==
    ASSUME NEW b \in [Partitions -> SUBSET Lines], NEW done, NEW landing,
           Flushing(b, done, landing), NEW n,
           \A p, q \in Partitions : p # q => b[p] \cap b[q] = {},
           \A p \in Partitions : b[p] \subseteq 1 .. n,
           \A o \in objects : o.lines \subseteq 1 .. n
    PROVE  /\ \A p, q \in Partitions : p # q => buffers'[p] \cap buffers'[q] = {}
           /\ \A p \in Partitions : buffers'[p] \subseteq 1 .. n
           /\ \A o \in objects' : o.lines \subseteq 1 .. n
<1>1. \A p \in Partitions : buffers'[p] = IF p \in done THEN {} ELSE b[p]
    BY DEF Flushing
<1>2. ASSUME NEW o \in objects' PROVE o.lines \subseteq 1 .. n
    <2>1. CASE o \in objects
        BY <2>1
    <2>2. CASE o \in New(b, landing)
        <3>1. PICK p \in landing : o = Object(p, b[p])
            BY <2>2 DEF New
        <3>2. o.lines = b[p] /\ p \in Partitions
            BY <3>1 DEF Object, Flushing
        <3> QED
            BY <3>2
    <2> QED
        BY <2>1, <2>2 DEF Flushing
<1> QED
    BY <1>1, <1>2

LEMMA LinesStep == TypeInv /\ LinesInv /\ [Next]_vars => LinesInv'
<1> SUFFICES ASSUME TypeInv, LinesInv, [Next]_vars PROVE LinesInv'
    OBVIOUS
<1>1. CASE Start
    <2>1. UNCHANGED <<objects, received>> /\ \A p \in Partitions : buffers'[p] = {}
        BY <1>1 DEF Start
    <2> QED
        BY <2>1 DEF LinesInv
<1>2. CASE ReceiveRejected \/ ReceiveTick \/ ReceiveUnlanded
    <2> DEFINE m == received'
               b == Appended(hour, m)
    <2>1. received < MaxReceived /\ m = received + 1 /\ received \in Nat
        BY <1>2, ReceiveEffect DEF TypeInv, TypeOK
    <2>2. hour \in Partitions /\ m \in Lines /\ WriterTypeOK
        BY <2>1 DEF TypeInv, TypeOK, Lines, WriterTypeOK
    <2>3. /\ b \in [Partitions -> SUBSET Lines]
          /\ \A q \in Partitions : b[q] = IF q = hour THEN buffers[hour] \cup {m}
                                                      ELSE buffers[q]
        BY <2>2, AppendedType
    <2>4. PICK done, landing \in SUBSET Partitions : Flushing(b, done, landing)
        BY <1>2, ReceiveEffect
    <2> HIDE DEF b
    <2>5. \A p \in Partitions : b[p] \subseteq 1 .. m
        BY <2>1, <2>2, <2>3 DEF LinesInv
    <2>6. \A p, q \in Partitions : p # q => b[p] \cap b[q] = {}
        <3>1. \A p \in Partitions : m \notin buffers[p]
            <4>1. \A p \in Partitions : buffers[p] \subseteq 1 .. received
                BY DEF LinesInv
            <4>2. m \notin 1 .. received
                BY <2>1
            <4> QED
                BY <4>1, <4>2
        <3>2. \A p, q \in Partitions : p # q => buffers[p] \cap buffers[q] = {}
            BY DEF LinesInv
        <3>3. \A p \in Partitions : b[p] \subseteq buffers[p] \cup {m} /\ (m \in b[p] => p = hour)
            <4>1. \A p \in Partitions : b[p] = IF p = hour THEN buffers[hour] \cup {m}
                                                           ELSE buffers[p]
                BY <2>3
            <4> HIDE DEF m
            <4> QED
                BY <3>1, <4>1
        <3> HIDE DEF m
        <3> QED
            BY <3>2, <3>3
    <2>7. \A o \in objects : o.lines \subseteq 1 .. m
        BY <2>1 DEF LinesInv
    <2> QED
        BY <2>3, <2>4, <2>5, <2>6, <2>7, FlushKeepsLines DEF LinesInv
<1>3. CASE FlushPeriod \/ Exit
    <2>1. PICK done, landing \in SUBSET Partitions : Flushing(buffers, done, landing)
        BY <1>3, FlushPeriodEffect, ExitEffect
    <2>2. received' = received
        BY <1>3, FlushPeriodEffect, ExitEffect
    <2>3. buffers \in [Partitions -> SUBSET Lines]
        BY DEF TypeInv, TypeOK
    <2> QED
        BY <2>1, <2>2, <2>3, FlushKeepsLines DEF LinesInv
<1>4. CASE Kill
    BY <1>4 DEF Kill, LinesInv, writerVars
<1>5. CASE \/ Connect \/ Subscribe \/ Disconnect \/ CleanClose \/ Sleep \/ Publish
           \/ PublishFails \/ Interrupt \/ NextHour \/ UNCHANGED vars
    BY <1>5, OtherEffect DEF LinesInv, writerVars
<1> QED
    BY <1>1, <1>2, <1>3, <1>4, <1>5 DEF Next

-----------------------------------------------------------------------------
(* How often a line lands. *)

Copies(m) == {o \in objects : m \in o.lines}
Once(m, S) == IF m \in S THEN 1 ELSE 0

LEMMA CopiesFinite ==
    ASSUME NEW m, ObjectsFinite
    PROVE  IsFiniteSet(Copies(m)) /\ Cardinality(Copies(m)) \in Nat
<1>1. IsFiniteSet(Copies(m))
    BY FS_Subset DEF ObjectsFinite, Copies
<1> QED
    BY <1>1, FS_CardinalityType

LEMMA CopiesFinitePrimed ==
    ASSUME NEW m, ObjectsFinite'
    PROVE  Cardinality(Copies(m)') \in Nat
<1>1. IsFiniteSet(Copies(m)')
    BY FS_Subset DEF ObjectsFinite, Copies
<1> QED
    BY <1>1, FS_CardinalityType

(* A flush adds one copy of a line at most, and only of the lines it lands. *)
LEMMA FlushAddsOneCopy ==
    ASSUME ObjectsFinite, NEW b, NEW done, NEW landing, Flushing(b, done, landing),
           \A p, q \in Partitions : p # q => b[p] \cap b[q] = {},
           NEW m
    PROVE  /\ m \notin LinesOf(b, landing) => Copies(m)' = Copies(m)
           /\ Cardinality(Copies(m)') \in Nat
           /\ Cardinality(Copies(m)') <= Cardinality(Copies(m)) + 1
<1>1. Copies(m)' = Copies(m) \cup {o \in New(b, landing) : m \in o.lines}
    BY DEF Copies, Flushing
<1>2. \A p : Object(p, b[p]).lines = b[p]
    BY DEF Object
<1>3. IsFiniteSet(Copies(m)) /\ Cardinality(Copies(m)) \in Nat
    BY CopiesFinite
<1>4. CASE m \notin LinesOf(b, landing)
    <2>1. {o \in New(b, landing) : m \in o.lines} = {}
        BY <1>2, <1>4 DEF New, LinesOf
    <2>2. Copies(m)' = Copies(m)
        BY <1>1, <2>1
    <2>3. Cardinality(Copies(m)') = Cardinality(Copies(m))
        BY <2>2
    <2> QED
        BY <1>3, <2>2, <2>3
<1>5. CASE m \in LinesOf(b, landing)
    <2>1. PICK p \in landing : m \in b[p]
        BY <1>5 DEF LinesOf
    <2>2. \A q \in landing : m \in b[q] => q = p
        BY <2>1 DEF Flushing
    <2>3. {o \in New(b, landing) : m \in o.lines} = {Object(p, b[p])}
        BY <1>2, <2>1, <2>2 DEF New
    <2>4. Copies(m)' = Copies(m) \cup {Object(p, b[p])}
        BY <1>1, <2>3
    <2>5. \/ Cardinality(Copies(m)') = Cardinality(Copies(m))
          \/ Cardinality(Copies(m)') = Cardinality(Copies(m)) + 1
        BY <1>3, <2>4, FS_AddElement
    <2> QED
        BY <1>3, <1>5, <2>5
<1> QED
    BY <1>4, <1>5

(* A flush whose PUTs succeed moves a line or leaves it; one that fails    *)
(* leaves one line more, when the object was taken.                        *)
LEMMA FlushCounts ==
    ASSUME ObjectsFinite, NEW b, NEW done, NEW landing, Flushing(b, done, landing),
           \A p, q \in Partitions : p # q => b[p] \cap b[q] = {},
           NEW m
    PROVE  /\ Cardinality(Copies(m)') + Once(m, Buffered')
                <= Cardinality(Copies(m)) + Once(m, LinesOf(b, Partitions)) + 1
           /\ done = landing =>
                Cardinality(Copies(m)') + Once(m, Buffered')
                    <= Cardinality(Copies(m)) + Once(m, LinesOf(b, Partitions))
<1>1. /\ m \notin LinesOf(b, landing) => Copies(m)' = Copies(m)
      /\ Cardinality(Copies(m)') \in Nat
      /\ Cardinality(Copies(m)') <= Cardinality(Copies(m)) + 1
    BY FlushAddsOneCopy
<1>2. Cardinality(Copies(m)) \in Nat
    BY CopiesFinite
<1>3. Buffered' = LinesOf(b, Partitions \ done)
    BY FlushMovesLines
<1>4. Buffered' \subseteq LinesOf(b, Partitions)
    BY <1>3 DEF LinesOf
<1>5. m \in LinesOf(b, done) => m \notin Buffered' /\ m \in LinesOf(b, Partitions)
    BY <1>3 DEF LinesOf, Flushing
<1> QED
    BY <1>1, <1>2, <1>4, <1>5 DEF Once

OnceInv ==
    \A m \in Lines : Cardinality(Copies(m)) + Once(m, InMemory) <= 1 + putErrors

LEMMA OnceStep ==
    TypeInv /\ TypeInv' /\ LinesInv /\ OnceInv /\ [Next]_vars => OnceInv'
<1> SUFFICES ASSUME TypeInv, TypeInv', LinesInv, OnceInv, [Next]_vars, NEW m \in Lines
             PROVE  Cardinality(Copies(m)') + Once(m, InMemory') <= 1 + putErrors'
    BY DEF OnceInv
<1>0. /\ ObjectsFinite /\ putErrors \in Nat /\ received \in Nat
      /\ Cardinality(Copies(m)) \in Nat /\ Cardinality(Copies(m)') \in Nat
      /\ Cardinality(Copies(m)) + Once(m, InMemory) <= 1 + putErrors
    <2>1. ObjectsFinite /\ ObjectsFinite'
        BY DEF TypeInv
    <2>2. Cardinality(Copies(m)) \in Nat /\ Cardinality(Copies(m)') \in Nat
        BY <2>1, CopiesFinite, CopiesFinitePrimed
    <2> QED
        BY <2>1, <2>2 DEF TypeInv, TypeOK, OnceInv
<1>1. ASSUME NEW b \in [Partitions -> SUBSET Lines],
             \A p, q \in Partitions : p # q => b[p] \cap b[q] = {},
             Cardinality(Copies(m)) + Once(m, LinesOf(b, Partitions)) <= 1 + putErrors,
             InMemory' \subseteq Buffered',
             NEW a, NEW ps \in SUBSET Partitions,
             PutAll(b, a, ps) \/ PutFails(b, a, ps)
      PROVE  Cardinality(Copies(m)') + Once(m, InMemory') <= 1 + putErrors'
    <2>1. Once(m, InMemory') <= Once(m, Buffered') /\ \A S : Once(m, S) \in Nat
        BY <1>1 DEF Once
    <2>2. CASE PutAll(b, a, ps)
        <3>1. Flushing(b, ps, ps)
            BY <2>2, PutAllFlushes
        <3>2. Cardinality(Copies(m)') + Once(m, Buffered')
                    <= Cardinality(Copies(m)) + Once(m, LinesOf(b, Partitions))
            BY <1>0, <1>1, <3>1, FlushCounts
        <3>3. putErrors' = putErrors
            BY <2>2 DEF PutAll
        <3> QED
            BY <1>0, <1>1, <2>1, <3>2, <3>3
    <2>3. CASE PutFails(b, a, ps)
        <3>1. PICK done, landing \in SUBSET ps : Flushing(b, done, landing)
            BY <2>3, PutFailsFlushes
        <3>2. Cardinality(Copies(m)') + Once(m, Buffered')
                    <= Cardinality(Copies(m)) + Once(m, LinesOf(b, Partitions)) + 1
            BY <1>0, <1>1, <3>1, FlushCounts
        <3>3. putErrors' = putErrors + 1
            BY <2>3 DEF PutFails
        <3> QED
            BY <1>0, <1>1, <2>1, <3>2, <3>3
    <2> QED
        BY <1>1, <2>2, <2>3
<1>2. ASSUME phase # "down"
      PROVE  Cardinality(Copies(m)) + Once(m, LinesOf(buffers, Partitions)) <= 1 + putErrors
    BY <1>0, <1>2, BufferedLines DEF InMemory
<1>3. /\ buffers \in [Partitions -> SUBSET Lines]
      /\ \A p, q \in Partitions : p # q => buffers[p] \cap buffers[q] = {}
    BY DEF TypeInv, TypeOK, LinesInv
<1>4. CASE Start
    <2>1. UNCHANGED <<objects, putErrors>> /\ \A p \in Partitions : buffers'[p] = {}
        BY <1>4 DEF Start
    <2>2. Copies(m)' = Copies(m) /\ InMemory' = {}
        BY <2>1 DEF Copies, InMemory, Buffered
    <2> QED
        BY <1>0, <2>1, <2>2 DEF Once
<1>5. CASE ReceiveRejected \/ ReceiveTick \/ ReceiveUnlanded
    <2> DEFINE b == Appended(hour, received')
    <2>1. /\ received' = received + 1 /\ received < MaxReceived
          /\ InMemory = Buffered /\ InMemory' = Buffered'
        BY <1>5, ReceiveEffect
    <2>2. /\ hour \in Partitions /\ WriterTypeOK
          /\ received' \in Lines
        <3>1. hour \in Partitions /\ WriterTypeOK
            BY DEF TypeInv, TypeOK, WriterTypeOK
        <3>2. received' \in Lines
            BY <1>0, <2>1 DEF Lines
        <3> QED
            BY <3>1, <3>2
    <2>3. /\ b \in [Partitions -> SUBSET Lines]
          /\ \A q \in Partitions : b[q] = IF q = hour THEN buffers[hour] \cup {received'}
                                                      ELSE buffers[q]
          /\ Filled(hour, received') \in SUBSET Partitions
        BY <2>2, AppendedType
    <2>4. \A p \in Partitions : received' \notin buffers[p]
        <3>1. received' \notin 1 .. received
            BY <1>0, <2>1
        <3> QED
            BY <3>1 DEF LinesInv
    <2>5. \A p, q \in Partitions : p # q => b[p] \cap b[q] = {}
        BY <1>3, <2>3, <2>4
    <2>6. LinesOf(b, Partitions) = Buffered \cup {received'}
        BY <2>2, AppendedLines
    <2>7. Cardinality(Copies(m)) + Once(m, LinesOf(b, Partitions)) <= 1 + putErrors
        <3>1. CASE m = received'
            <4>1. m \notin 1 .. received
                BY <1>0, <2>1, <3>1
            <4>2. Copies(m) = {}
                BY <4>1 DEF Copies, LinesInv
            <4>3. Cardinality(Copies(m)) = 0
                BY <4>2, FS_EmptySet
            <4> QED
                BY <1>0, <4>3 DEF Once
        <3>2. CASE m # received'
            BY <1>0, <2>1, <2>6, <3>2 DEF Once
        <3> QED
            BY <3>1, <3>2
    <2>8. PutAll(b, age, Filled(hour, received')) \/ PutFails(b, age, Filled(hour, received'))
        BY <1>5 DEF ReceiveRejected, ReceiveTick, ReceiveUnlanded, AppendLine, AppendLineFails
    <2> HIDE DEF b
    <2> QED
        BY <1>1, <2>1, <2>3, <2>5, <2>7, <2>8
<1>6. CASE FlushPeriod
    <2>1. phase # "down" /\ InMemory' = Buffered'
        BY <1>6, FlushPeriodEffect DEF FlushPeriod, Alive
    <2>2. PutAll(buffers, Older, Due(Older)) \/ PutFails(buffers, Older, Due(Older))
        BY <1>6 DEF FlushPeriod, FlushDue, FlushDueFails
    <2>3. Due(Older) \in SUBSET Partitions
        BY DEF Due
    <2> QED
        BY <1>1, <1>2, <1>3, <2>1, <2>2, <2>3
<1>7. CASE Exit
    <2>1. phase # "down" /\ InMemory' = {}
        BY <1>7, ExitEffect DEF Exit
    <2>2. PutAll(buffers, age, NonEmpty) \/ PutFails(buffers, age, NonEmpty)
        BY <1>7 DEF Exit, FlushAll, FlushAllFails
    <2>3. NonEmpty \in SUBSET Partitions
        BY DEF NonEmpty
    <2> QED
        BY <1>1, <1>2, <1>3, <2>1, <2>2, <2>3
<1>8. CASE Kill
    <2>1. InMemory' = {} /\ Copies(m)' = Copies(m) /\ putErrors' = putErrors
        BY <1>8 DEF Kill, InMemory, Copies, writerVars
    <2> QED
        BY <1>0, <2>1 DEF Once
<1>9. CASE \/ Connect \/ Subscribe \/ Disconnect \/ CleanClose \/ Sleep \/ Publish
           \/ PublishFails \/ Interrupt \/ NextHour \/ UNCHANGED vars
    BY <1>0, <1>9, OtherEffect DEF Copies, writerVars
<1> QED
    BY <1>4, <1>5, <1>6, <1>7, <1>8, <1>9 DEF Next

(* A line lands once, and once more for each PUT that failed although the  *)
(* store had taken the object: no interleaving of size flush, timed flush  *)
(* and final flush, and no restart, lands it again.                        *)
THEOREM LinesLandOnce == Spec => []LandedOnce
<1> DEFINE Inv == TypeInv /\ LinesInv /\ OnceInv
<1>1. Init => Inv
    <2>1. ASSUME Init, NEW m \in Lines
          PROVE  Cardinality(Copies(m)) + Once(m, InMemory) <= 1 + putErrors
        <3>1. Copies(m) = {} /\ InMemory = {} /\ putErrors = 0
            BY <2>1 DEF Init, WriterInit, Copies, InMemory
        <3> QED
            BY <3>1, FS_EmptySet DEF Once
    <2> QED
        BY <2>1, TypeInit, LinesInit DEF OnceInv
<1>2. Inv /\ [Next]_vars => Inv'
    BY TypeStep, LinesStep, OnceStep
<1>3. Inv => LandedOnce
    BY DEF OnceInv, LandedOnce, Copies, Once
<1> QED
    BY <1>1, <1>2, <1>3, PTL DEF Spec

-----------------------------------------------------------------------------
(* The numbers of the published ticks. *)

LEMMA OfRunFinite ==
    ASSUME TypeInv, NEW r
    PROVE  IsFiniteSet(OfRun(r)) /\ Cardinality(OfRun(r)) \in Nat
<1>1. DOMAIN stream = 1 .. Len(stream) /\ Len(stream) \in Nat
    BY DEF TypeInv, TypeOK
<1>2. IsFiniteSet(DOMAIN stream)
    BY <1>1, FS_Interval
<1>3. IsFiniteSet(OfRun(r))
    BY <1>2, FS_Subset DEF OfRun
<1> QED
    BY <1>3, FS_CardinalityType

(* The entries of the stream up to the ith of its run. *)
Before(i) == {j \in 1 .. i : stream[j].run = stream[i].run}

(* The tick being published becomes the last entry of its run. *)
LEMMA PublishedEntry ==
    ASSUME TypeInv, StreamInv, phase = "publish", stream' = Append(stream, tick)
    PROVE  /\ runs' = runs => Cardinality(OfRun(runs))' = Cardinality(OfRun(runs)) + 1
           /\ \A j \in DOMAIN stream' : stream'[j].run <= runs /\ stream'[j].message <= received
           /\ SequencesHaveNoHoles => SequencesHaveNoHoles'
<1> DEFINE n == Len(stream)
<1>1. /\ n \in Nat /\ DOMAIN stream = 1 .. n
      /\ DOMAIN stream' = 1 .. n + 1
      /\ \A j \in 1 .. n : stream'[j] = stream[j]
      /\ stream'[n + 1] = tick
    BY DEF TypeInv, TypeOK
<1>2. /\ tick.run = runs /\ tick.message = received
      /\ tick.sequence = Cardinality(OfRun(runs)) + 1
      /\ \A j \in OfRun(runs) : stream[j].message < received
    BY DEF StreamInv
<1>3. runs \in Nat /\ received \in Nat
    BY DEF TypeInv, TypeOK
<1>4. {j \in 1 .. n + 1 : stream'[j].run = runs} = OfRun(runs) \cup {n + 1}
    BY <1>1, <1>2 DEF OfRun
<1>5. n + 1 \notin OfRun(runs)
    BY <1>1 DEF OfRun
<1>6. Cardinality(OfRun(runs) \cup {n + 1}) = Cardinality(OfRun(runs)) + 1
    BY <1>5, OfRunFinite, FS_AddElement
<1>7. runs' = runs => Cardinality(OfRun(runs))' = Cardinality(OfRun(runs)) + 1
    BY <1>1, <1>4, <1>6 DEF OfRun
<1>8. \A j \in DOMAIN stream' : stream'[j].run <= runs /\ stream'[j].message <= received
    BY <1>1, <1>2, <1>3 DEF StreamInv
<1>9. ASSUME SequencesHaveNoHoles, NEW i \in DOMAIN stream'
      PROVE  /\ stream'[i].sequence = Cardinality(Before(i)')
             /\ \A j \in Before(i)' : j < i => stream'[j].message < stream'[i].message
    <2>1. CASE i \in 1 .. n
        <3>1. Before(i)' = Before(i)
            BY <1>1, <2>1 DEF Before
        <3>2. /\ stream[i].sequence = Cardinality(Before(i))
              /\ \A j \in Before(i) : j < i => stream[j].message < stream[i].message
            BY <1>1, <1>9, <2>1 DEF SequencesHaveNoHoles, Before
        <3>3. \A j \in Before(i) : stream'[j] = stream[j]
            BY <1>1, <2>1 DEF Before
        <3> QED
            BY <1>1, <2>1, <3>1, <3>2, <3>3
    <2>2. CASE i = n + 1
        <3>1. Before(i)' = OfRun(runs) \cup {n + 1}
            BY <1>1, <1>2, <1>4, <2>2 DEF Before
        <3>2. stream'[i].sequence = Cardinality(Before(i)')
            BY <1>1, <1>2, <1>6, <2>2, <3>1
        <3>3. ASSUME NEW j \in Before(i)', j < i
              PROVE  stream'[j].message < stream'[i].message
            BY <1>1, <1>2, <2>2, <3>1, <3>3 DEF OfRun
        <3> QED
            BY <3>2, <3>3
    <2>3. i \in 1 .. n \/ i = n + 1
        <3>1. i \in 1 .. n + 1
            BY <1>1
        <3> HIDE DEF n
        <3> QED
            BY <1>1, <3>1
    <2> QED
        BY <2>1, <2>2, <2>3
<1> QED
    BY <1>7, <1>8, <1>9 DEF SequencesHaveNoHoles, Before

LEMMA StreamStep ==
    TypeInv /\ StreamInv /\ SequencesHaveNoHoles /\ [Next]_vars
        => StreamInv' /\ SequencesHaveNoHoles'
<1> SUFFICES ASSUME TypeInv, StreamInv, SequencesHaveNoHoles, [Next]_vars
             PROVE  StreamInv' /\ SequencesHaveNoHoles'
    OBVIOUS
<1>0. /\ runs \in Nat /\ received \in Nat /\ nextSequence \in Nat
      /\ \A r : Cardinality(OfRun(r)) \in Nat
      /\ DOMAIN stream = 1 .. Len(stream)
      /\ \A j \in DOMAIN stream : stream[j].run \in Nat /\ stream[j].message \in Nat
    <2>1. \A r : Cardinality(OfRun(r)) \in Nat
        BY OfRunFinite
    <2>2. /\ runs \in Nat /\ received \in Nat /\ nextSequence \in Nat
          /\ DOMAIN stream = 1 .. Len(stream)
        BY DEF TypeInv, TypeOK
    <2>3. \A j \in DOMAIN stream : stream[j] \in Tick
        BY DEF TypeInv, TypeOK
    <2>4. \A j \in DOMAIN stream : stream[j].run \in Nat /\ stream[j].message \in Nat
        BY <2>3 DEF Tick, Lines
    <2> QED
        BY <2>1, <2>2, <2>4
<1>1. CASE Start
    <2>1. /\ phase' = "connect" /\ nextSequence' = 1 /\ runs' = runs + 1
          /\ UNCHANGED <<received, stream>>
        BY <1>1 DEF Start
    <2>2. OfRun(runs)' = {}
        BY <1>0, <2>1 DEF OfRun, StreamInv
    <2>3. Cardinality(OfRun(runs)') = 0
        BY <2>2, FS_EmptySet
    <2>4. StreamInv'
        BY <1>0, <2>1, <2>3 DEF StreamInv
    <2> QED
        BY <2>1, <2>4 DEF SequencesHaveNoHoles
<1>2. CASE ReceiveTick
    <2>1. /\ phase = "listen" /\ phase' = "publish"
          /\ received' = received + 1
          /\ tick' = [run |-> runs, sequence |-> nextSequence, message |-> received']
          /\ nextSequence' = nextSequence + 1
          /\ UNCHANGED <<stream, runs>>
        BY <1>2 DEF ReceiveTick, Receive
    <2>2. OfRun(runs)' = OfRun(runs) /\ nextSequence = Cardinality(OfRun(runs)) + 1
        BY <2>1 DEF OfRun, StreamInv, Alive
    <2>3. \A j \in DOMAIN stream' : stream'[j].run <= runs' /\ stream'[j].message < received'
        BY <1>0, <2>1 DEF StreamInv
    <2>4. /\ tick'.run = runs' /\ tick'.message = received'
          /\ tick'.sequence = Cardinality(OfRun(runs)') + 1
          /\ nextSequence' = Cardinality(OfRun(runs)') + 2
        BY <1>0, <2>1, <2>2
    <2>5. \A j \in DOMAIN stream' : stream'[j].run <= runs' /\ stream'[j].message <= received'
        BY <1>0, <2>1 DEF StreamInv
    <2>6. \A j \in OfRun(runs)' : stream'[j].message < received'
        BY <2>3 DEF OfRun
    <2>7. StreamInv'
        BY <2>1, <2>4, <2>5, <2>6 DEF StreamInv
    <2> QED
        BY <2>1, <2>7 DEF SequencesHaveNoHoles
<1>3. CASE Publish \/ PublishFails \/ Interrupt
    <2>1. /\ UNCHANGED <<nextSequence, received, runs>>
          /\ stream' = stream \/ (phase = "publish" /\ stream' = Append(stream, tick))
          /\ phase' = "exit" \/ (phase = "publish" /\ phase' = "listen"
                                    /\ stream' = Append(stream, tick))
        BY <1>3 DEF Publish, PublishFails, Interrupt
    <2>2. CASE stream' = stream /\ phase' = "exit"
        BY <2>1, <2>2 DEF StreamInv, SequencesHaveNoHoles, OfRun
    <2>3. CASE phase = "publish" /\ stream' = Append(stream, tick)
        <3>1. /\ Cardinality(OfRun(runs))' = Cardinality(OfRun(runs)) + 1
              /\ \A j \in DOMAIN stream' :
                    stream'[j].run <= runs' /\ stream'[j].message <= received'
              /\ SequencesHaveNoHoles'
            BY <2>1, <2>3, PublishedEntry
        <3>2. nextSequence = Cardinality(OfRun(runs)) + 2
            BY <2>3 DEF StreamInv
        <3>3. nextSequence' = Cardinality(OfRun(runs))' + 1 /\ phase' # "publish"
            BY <1>0, <2>1, <3>1, <3>2
        <3> QED
            BY <3>1, <3>3 DEF StreamInv
    <2> QED
        BY <2>1, <2>2, <2>3
<1>4. CASE UNCHANGED <<stream, runs, nextSequence, tick, received>>
           /\ (phase' = "publish" => phase = "publish")
           /\ (phase' \in Alive \ {"publish", "exit"} => phase \in Alive \ {"publish", "exit"})
    <2>1. \A r : OfRun(r)' = OfRun(r)
        BY <1>4 DEF OfRun
    <2> QED
        BY <1>4, <2>1 DEF StreamInv, SequencesHaveNoHoles
<1>5. CASE UNCHANGED <<stream, runs, nextSequence, tick>> /\ received' = received + 1
           /\ phase = "listen" /\ phase' \in {"listen", "exit"}
    <2>1. OfRun(runs)' = OfRun(runs)
        BY <1>5 DEF OfRun
    <2>2. \A j \in DOMAIN stream' : stream'[j].run <= runs' /\ stream'[j].message <= received'
        BY <1>0, <1>5 DEF StreamInv
    <2>3. StreamInv'
        BY <1>5, <2>1, <2>2 DEF StreamInv, Alive
    <2> QED
        BY <1>5, <2>3 DEF SequencesHaveNoHoles
<1>6. CASE ReceiveRejected \/ ReceiveUnlanded
    BY <1>5, <1>6 DEF ReceiveRejected, ReceiveUnlanded, Receive
<1>7. CASE \/ Connect \/ Subscribe \/ Disconnect \/ CleanClose \/ Sleep
           \/ FlushPeriod \/ Exit \/ Kill \/ NextHour \/ UNCHANGED vars
    <2>1. phase' = "publish" => phase = "publish"
        BY <1>7 DEF Connect, Subscribe, Disconnect, CleanClose, Sleep, FlushPeriod, Exit,
                    NextHour, Kill, runVars, vars
    <2>2. phase' \in Alive \ {"publish", "exit"} => phase \in Alive \ {"publish", "exit"}
        BY <1>7 DEF Connect, Subscribe, Disconnect, CleanClose, Sleep, FlushPeriod, Exit,
                    NextHour, Kill, runVars, vars, Alive
    <2>3. CASE Kill
        BY <2>3 DEF Kill, StreamInv, SequencesHaveNoHoles, Alive
    <2>4. CASE ~Kill
        <3>1. UNCHANGED <<stream, runs, nextSequence, tick, received>>
            BY <1>7, <2>4 DEF Connect, Subscribe, Disconnect, CleanClose, Sleep, FlushPeriod,
                              Exit, NextHour, runVars, vars
        <3> QED
            BY <1>4, <2>1, <2>2, <3>1
    <2> QED
        BY <2>3, <2>4
<1> QED
    BY <1>1, <1>2, <1>3, <1>6, <1>7 DEF Next

(* "This is our gap-detection axis": whatever is rejected, reconnected,    *)
(* interrupted or restarted, the ticks that one run has in the stream are  *)
(* numbered 1, 2, 3, ... in the order of their messages.                   *)
THEOREM NoHolesInSequences == Spec => []SequencesHaveNoHoles
<1> DEFINE Inv == TypeInv /\ StreamInv /\ SequencesHaveNoHoles
<1>1. Init => Inv
    <2>1. Init => StreamInv /\ SequencesHaveNoHoles
        BY DEF Init, StreamInv, SequencesHaveNoHoles, Alive
    <2> QED
        BY <2>1, TypeInit
<1>2. Inv /\ [Next]_vars => Inv'
    BY TypeStep, StreamStep
<1> QED
    BY <1>1, <1>2, PTL DEF Spec
=============================================================================
