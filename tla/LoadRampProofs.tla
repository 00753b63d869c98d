--------------------------- MODULE LoadRampProofs --------------------------
(***************************************************************************)
(* Proofs about LoadRamp for every number of publishers, workers, steps    *)
(* and entries: type correctness, that the steps of a ramp do not run into *)
(* each other, that the results add up to the stream, and that a ramp that *)
(* ends caught up has stored everything.                                   *)
(*                                                                         *)
(* The invariants of the workers are those of TickWorkersProofs: a step of *)
(* the ramp is one of theirs, or leaves them alone but for the group it    *)
(* creates, a failure it counts or a worker it stops before its start.     *)
(***************************************************************************)
EXTENDS LoadRamp, TickWorkersProofs

LEMMA RampConstants ==
    /\ IsFiniteSet(Publishers) /\ Steps \in Nat \ {0}
    /\ Recoverers = {} /\ MaxMessages = None /\ MaxIdleReads = None
    /\ PublishBatch \in Nat \ {0} /\ Workers = Consumers
<1>1. Recoverers = {} /\ MaxMessages = None /\ MaxIdleReads = None
    BY RampAssumption
<1> QED
    BY <1>1, RampAssumption, WorkersAssumption DEF Workers

USE Constants, RampConstants

-----------------------------------------------------------------------------
(* The workers under the steps of the ramp. *)

PoolInv == TypeOK /\ DeliveryInv /\ CopiesInv /\ OnlyCrashOrCapStrands

LEMMA PoolKeeps == PoolInv /\ [Next]_vars => PoolInv'
BY TypeStep, DeliveryStep, CopiesStep, StrandStep DEF PoolInv

LEMMA GroupMade ==
    ASSUME PoolInv, CreateGroup, UNCHANGED <<published, owner, loopVars, rows, runs, crashes, claims>>
    PROVE  PoolInv'
<1> USE DEF PoolInv, loopVars
<1>1. TypeOK'
    <2>1. cursor' \in {NoGroup} \cup (0 .. MaxPublished)
        BY DEF TypeOK, GroupTypeOK, CreateGroup, NoGroup
    <2> QED
        BY <2>1 DEF TypeOK, GroupTypeOK
<1>2. Delivered' = Delivered /\ Pending' = Pending /\ cursor' <= published'
    BY DEF Delivered, Pending, CreateGroup, NoGroup, Messages, TypeOK, GroupTypeOK, DeliveryInv
<1>3. DeliveryInv'
    BY <1>2 DEF DeliveryInv, NothingLost, Settled
<1>4. CopiesInv'
    BY <1>1, FewerWriters DEF Writers
<1>5. OnlyCrashOrCapStrands'
    BY <1>2 DEF OnlyCrashOrCapStrands, Abandoned
<1> QED
    BY <1>1, <1>3, <1>4, <1>5

LEMMA FailureCounted ==
    ASSUME PoolInv, crashes' = crashes + 1, UNCHANGED <<groupVars, loopVars, rows, runs, claims>>
    PROVE  PoolInv'
<1> USE DEF PoolInv, loopVars, groupVars
<1>1. TypeOK' /\ crashes' > 0
    BY DEF TypeOK, GroupTypeOK
<1>2. Delivered' = Delivered /\ Pending' = Pending
    BY DEF Delivered, Pending
<1>3. DeliveryInv'
    BY <1>2 DEF DeliveryInv, NothingLost, Settled
<1>4. CopiesInv'
    BY <1>1, FewerWriters DEF Writers
<1> QED
    BY <1>1, <1>3, <1>4 DEF OnlyCrashOrCapStrands

LEMMA StoppedEarly ==
    ASSUME PoolInv, NEW w \in Workers, phase[w] = "down", phase' = [phase EXCEPT ![w] = "stopped"],
           UNCHANGED <<groupVars, batch, processed, idle, running, rows, runs, crashes, claims>>
    PROVE  PoolInv'
<1> USE DEF PoolInv, groupVars
<1>1. TypeOK'
    BY DEF TypeOK, GroupTypeOK, Phases
<1>2. Delivered' = Delivered /\ Pending' = Pending
    BY DEF Delivered, Pending
<1>3. \A c \in Consumers : phase'[c] \in {"write", "ack"} => phase[c] = phase'[c]
    BY DEF TypeOK
<1>4. DeliveryInv'
    BY <1>2, <1>3 DEF DeliveryInv, NothingLost, Settled, TypeOK
<1>5. CopiesInv'
    BY <1>1, <1>3, FewerWriters DEF Writers
<1>6. OnlyCrashOrCapStrands'
    BY <1>2 DEF OnlyCrashOrCapStrands, Abandoned
<1> QED
    BY <1>1, <1>4, <1>5, <1>6

LEMMA WorkerRunsNext ==
    ASSUME NEW w \in Workers, WorkerRuns(w)
    PROVE  Next
BY DEF WorkerRuns, Next, WorkerStep

LEMMA SendBatchPublishes ==
    ASSUME NEW p \in Publishers, SendBatch(p)
    PROVE  Next
<1>1. PublishBatch \in 1 .. PublishBatch /\ XAdd(PublishBatch)
    BY DEF SendBatch
<1> QED
    BY <1>1 DEF SendBatch, Next, Publish

LEMMA PoolStep == PoolInv /\ [RampNext]_allVars => PoolInv'
<1> SUFFICES ASSUME PoolInv, [RampNext]_allVars PROVE PoolInv'
    OBVIOUS
<1>1. CASE UNCHANGED vars
    BY <1>1, PoolKeeps
<1>2. CASE StartWorkers
    BY <1>2, GroupMade DEF StartWorkers
<1>3. ASSUME NEW w \in Workers, Terminate(w) PROVE PoolInv'
    <2>1. CASE Signal(w)
        BY <2>1, PoolKeeps DEF Next, WorkerStep
    <2> QED
        BY <1>3, <2>1, StoppedEarly DEF Terminate
<1>4. ASSUME NEW p \in Publishers, SendBatch(p) \/ Report(p) \/ PublisherDies(p) PROVE PoolInv'
    BY <1>1, <1>4, PoolKeeps, SendBatchPublishes, FailureCounted DEF Report, PublisherDies
<1>5. CASE StepRaises
    BY <1>5, FailureCounted DEF StepRaises
<1>6. ASSUME NEW w \in Workers, WorkerRuns(w) PROVE PoolInv'
    BY <1>6, PoolKeeps, WorkerRunsNext
<1>7. CASE BeginStep \/ EndProduce \/ GracePoll \/ Judge \/ Join \/ Sample \/ UNCHANGED allVars
    BY <1>1, <1>7 DEF BeginStep, EndProduce, GracePoll, Judge, Join, Sample, allVars
<1> QED
    BY <1>2, <1>3, <1>4, <1>5, <1>6, <1>7 DEF RampNext, Harness

-----------------------------------------------------------------------------
(* The stages of the ramp. *)

(* What each stage of the ramp knows of the group, of the publishers and   *)
(* of what has been measured so far.                                       *)
StageInv ==
    /\ ramp = "idle" => published = 0 /\ results = <<>>
    /\ ramp # "idle" => cursor # NoGroup
    /\ ramp \in {"idle", "begin"} => \A p \in Publishers : publisher[p] = "none" /\ sent[p] = 0
    /\ ramp = "begin" => cursor = published
    /\ ramp \in {"grace", "judge"} => AllExited
    /\ ramp \in Measuring => base <= cursor /\ {peak, endLag} \subseteq 0 .. published - base
    /\ ramp \notin Measuring => peak = 0 /\ endLag = 0
    /\ ramp \notin {"stop", "over"} => Len(results) < Steps

(* The types of the ramp, with a bound on each count that one step keeps.  *)
RampTypeInv ==
    /\ ramp \in {"idle", "begin", "stop", "over"} \cup Measuring
    /\ publisher \in [Publishers -> {"none", "sending", "reported", "dead"}]
    /\ sent \in [Publishers -> Nat]
    /\ \A p \in Publishers : sent[p] <= published
    /\ base \in 0 .. published
    /\ results \in Seq(StepResult) /\ Len(results) <= Steps

RampInv == PoolInv /\ RampTypeInv /\ StageInv

LEMMA LagIs ==
    ASSUME RampInv, ramp # "idle"
    PROVE  /\ cursor \in Nat /\ published \in Nat /\ cursor <= published /\ published <= MaxPublished
           /\ Lag \in 0 .. published /\ (Lag = 0 <=> cursor = published)
<1>1. cursor \in 0 .. MaxPublished /\ published \in 0 .. MaxPublished /\ cursor <= published
    BY DEF RampInv, PoolInv, StageInv, TypeOK, GroupTypeOK, DeliveryInv
<1> QED
    BY <1>1 DEF Lag

(* The group only moves forward, and no entry leaves the stream. *)
LEMMA StreamGrows ==
    ASSUME RampInv, [RampNext]_allVars
    PROVE  /\ published \in Nat /\ published' \in Nat /\ published <= published'
           /\ cursor # NoGroup => cursor' \in Nat /\ cursor <= cursor'
           /\ cursor' # NoGroup => cursor' <= published' /\ cursor' \in Nat
<1>1. PoolInv /\ PoolInv'
    BY PoolStep DEF RampInv
<1>2. /\ published \in Nat /\ published' \in Nat
      /\ cursor # NoGroup => cursor \in Nat
      /\ cursor' # NoGroup => cursor' \in Nat
      /\ cursor <= published /\ cursor' <= published'
    BY <1>1 DEF PoolInv, TypeOK, GroupTypeOK, DeliveryInv
<1>3. CASE UNCHANGED <<published, cursor>>
    BY <1>2, <1>3
<1>4. ASSUME NEW w \in Workers, WorkerRuns(w)
      PROVE  published' = published /\ (cursor # NoGroup => cursor' \in Nat /\ cursor <= cursor')
    <2>1. CASE Read(w)
        <3>1. /\ cursor' = IF cursor + ReadBatch < published THEN cursor + ReadBatch ELSE published
              /\ published' = published /\ ReadBatch \in Nat
            BY <2>1 DEF Read, ReadGroup
        <3> QED
            BY <1>2, <3>1
    <2>2. CASE UNCHANGED <<published, cursor>>
        BY <1>2, <2>2
    <2>3. CASE Start(w)
        BY <1>2, <2>3 DEF Start, CreateGroup
    <2> QED
        BY <1>4, <2>1, <2>2, <2>3 DEF WorkerRuns, ReadNothing, Write, Ack, Crash, groupVars
<1>5. ASSUME NEW p \in Publishers, SendBatch(p)
      PROVE  published <= published' /\ cursor' = cursor
    BY <1>2, <1>5 DEF SendBatch, XAdd
<1>6. CASE StartWorkers
    BY <1>2, <1>6 DEF StartWorkers, CreateGroup
<1>7. CASE \/ BeginStep \/ EndProduce \/ GracePoll \/ Judge \/ Join \/ Sample \/ StepRaises
           \/ \E w \in Workers : Terminate(w)
           \/ \E p \in Publishers : Report(p) \/ PublisherDies(p)
           \/ UNCHANGED allVars
    BY <1>3, <1>7 DEF BeginStep, EndProduce, GracePoll, Judge, Join, Sample, StepRaises, Terminate,
                      Signal, Report, PublisherDies, groupVars, vars, allVars
<1> QED
    BY <1>2, <1>4, <1>5, <1>6, <1>7 DEF RampNext, Harness

LEMMA CountedIsNat ==
    ASSUME RampTypeInv
    PROVE  Counted \in Nat
<1> DEFINE S == {p \in Publishers : publisher[p] = "reported"}
<1>1. IsFiniteSet(S) /\ \A p \in S : sent[p] \in Nat
    BY FS_Subset DEF RampTypeInv
<1> HIDE DEF S
<1>2. SumFunctionOnSet(sent, S) \in Nat
    BY <1>1, SumType
<1> QED
    BY <1>2 DEF S, Counted

LEMMA RampInitiallyTyped == RampInit => RampInv
<1> SUFFICES ASSUME RampInit PROVE RampInv
    OBVIOUS
<1>1. PoolInv
    BY TypeInit, DeliveryInit, CopiesInit
       DEF RampInit, PoolInv, Init, GroupInit, OnlyCrashOrCapStrands, Abandoned, Pending
<1>2. results = <<>> /\ Len(results) = 0 /\ results \in Seq(StepResult) /\ published = 0
    BY DEF RampInit, Init, GroupInit
<1>3. RampTypeInv
    BY <1>2 DEF RampInit, RampTypeInv, Measuring
<1>4. StageInv
    BY <1>2 DEF RampInit, StageInv, Measuring
<1> QED
    BY <1>1, <1>3, <1>4 DEF RampInv

(* The steps of the workers leave the ramp as it is. *)
LEMMA RampStutters ==
    ASSUME RampInv, [RampNext]_allVars, UNCHANGED rampVars
    PROVE  RampTypeInv' /\ StageInv'
<1> USE DEF rampVars, publishVars, stepVars
<1>1. /\ published \in Nat /\ published' \in Nat /\ published <= published'
      /\ cursor # NoGroup => cursor' \in Nat /\ cursor <= cursor'
      /\ cursor' # NoGroup => cursor' <= published' /\ cursor' \in Nat
    BY StreamGrows
<1>2. RampTypeInv'
    <2>1. \A p \in Publishers : sent[p] \in Nat /\ sent[p] <= published'
        BY <1>1 DEF RampInv, RampTypeInv
    <2>2. base \in 0 .. published'
        BY <1>1 DEF RampInv, RampTypeInv
    <2> QED
        BY <2>1, <2>2 DEF RampInv, RampTypeInv
<1>3. cursor # NoGroup => cursor \in Nat
    BY DEF RampInv, PoolInv, TypeOK, GroupTypeOK
<1>4. ramp = "begin" => cursor' = published'
    <2>1. CASE published' = published
        BY <1>1, <1>3, <2>1 DEF RampInv, StageInv, NoGroup
    <2>2. CASE published' # published
        <3>1. PICK p \in Publishers : SendBatch(p)
            BY <2>2 DEF RampNext, Harness, StartWorkers, BeginStep, EndProduce, GracePoll, Judge, Join,
                        Sample, StepRaises, Terminate, Signal, Report, PublisherDies, WorkerRuns,
                        Start, Read, ReadNothing, Write, Ack, Crash, groupVars, vars, allVars
        <3> QED
            BY <3>1 DEF SendBatch, RampInv, StageInv
    <2> QED
        BY <2>1, <2>2
<1>5. ramp = "idle" => published' = 0
    <2> SUFFICES ASSUME ramp = "idle" PROVE published' = published
        BY DEF RampInv, StageInv
    <2> QED
        BY DEF RampNext, Harness, StartWorkers, BeginStep, EndProduce, GracePoll, Judge, Join,
               Sample, StepRaises, Terminate, Signal, Report, PublisherDies, WorkerRuns, SendBatch,
               groupVars, vars, allVars, RampInv, StageInv, Measuring
<1>6. ramp # "idle" => cursor' # NoGroup
    BY <1>1 DEF RampInv, StageInv, NoGroup
<1>7. ramp \in Measuring => base <= cursor' /\ {peak, endLag} \subseteq 0 .. published' - base
    <2> SUFFICES ASSUME ramp \in Measuring
                 PROVE  base <= cursor' /\ {peak, endLag} \subseteq 0 .. published' - base
        OBVIOUS
    <2>1. base <= cursor /\ {peak, endLag} \subseteq 0 .. published - base /\ cursor # NoGroup
        BY DEF RampInv, StageInv, Measuring
    <2>2. base \in Nat
        BY DEF RampInv, RampTypeInv
    <2> QED
        BY <1>1, <1>3, <2>1, <2>2
<1>8. StageInv'
    BY <1>4, <1>5, <1>6, <1>7 DEF RampInv, StageInv, Measuring, AllExited
<1> QED
    BY <1>2, <1>8

LEMMA StageStep ==
    ASSUME RampInv, [RampNext]_allVars
    PROVE  RampTypeInv' /\ StageInv'
<1> USE DEF Measuring, publishVars, stepVars
<1>1. /\ published \in Nat /\ published' \in Nat /\ published <= published'
      /\ cursor # NoGroup => cursor' \in Nat /\ cursor <= cursor'
      /\ cursor' # NoGroup => cursor' <= published' /\ cursor' \in Nat
    BY StreamGrows
<1>2. RampTypeInv /\ StageInv
    BY DEF RampInv
<1>3. CASE UNCHANGED rampVars
    BY <1>3, RampStutters
<1>4. CASE StartWorkers
    <2>1. /\ ramp = "idle" /\ ramp' = "begin" /\ cursor' = IF cursor = NoGroup THEN 0 ELSE cursor
          /\ UNCHANGED <<published, publisher, sent, peak, endLag, results, base>>
        BY <1>4 DEF StartWorkers, CreateGroup
    <2>2. cursor' # NoGroup /\ cursor' = published' /\ published = 0
        BY <1>1, <1>2, <2>1 DEF StageInv, NoGroup
    <2> QED
        BY <1>2, <2>1, <2>2 DEF RampTypeInv, StageInv
<1>5. CASE BeginStep
    <2>1. /\ ramp = "begin" /\ ramp' = "produce" /\ base' = published
          /\ publisher' = [p \in Publishers |-> "sending"]
          /\ UNCHANGED <<published, cursor, sent, peak, endLag, results>>
        BY <1>5 DEF BeginStep, vars, groupVars
    <2>2. {peak, endLag} \subseteq 0 .. published' - base' /\ base' <= cursor'
        BY <1>1, <1>2, <2>1 DEF StageInv
    <2> QED
        BY <1>1, <1>2, <2>1, <2>2 DEF RampTypeInv, StageInv
<1>6. CASE EndProduce \/ GracePoll \/ Sample
    <2>1. ramp \in Measuring /\ ramp # "idle"
        BY <1>6 DEF EndProduce, GracePoll, Sample
    <2>2. /\ UNCHANGED <<published, cursor, publisher, sent, results, base>>
          /\ ramp' \in Measuring
          /\ ramp' # "produce" => AllExited
          /\ peak' \in {peak, Lag} /\ endLag' \in {endLag, Lag}
        BY <1>2, <1>6 DEF EndProduce, GracePoll, AfterPoll, Sample, Larger, vars, groupVars, StageInv
    <2>3. Lag \in 0 .. published - base
        <3>1. /\ cursor \in Nat /\ cursor <= published /\ base <= cursor /\ base \in Nat
              /\ Lag = published - cursor
            BY <1>1, <1>2, <2>1, LagIs DEF StageInv, RampTypeInv, Lag
        <3> QED
            BY <1>1, <3>1
    <2>4. {peak', endLag'} \subseteq 0 .. published' - base' /\ base' <= cursor'
        BY <1>2, <2>1, <2>2, <2>3 DEF StageInv
    <2>5. RampTypeInv'
        BY <1>2, <2>2 DEF RampTypeInv
    <2>6. ramp' # "produce" => AllExited'
        BY <2>2 DEF AllExited
    <2> QED
        BY <1>2, <2>1, <2>2, <2>4, <2>5, <2>6 DEF StageInv
<1>7. CASE Judge
    <2> DEFINE new == [published |-> Counted, peak |-> peak, endLag |-> endLag, caughtUp |-> Lag = 0]
    <2>1. /\ ramp = "judge" /\ results' = Append(results, new)
          /\ ramp' = IF GoesOn(Lag = 0) THEN "begin" ELSE "stop"
          /\ publisher' = [p \in Publishers |-> "none"] /\ sent' = [p \in Publishers |-> 0]
          /\ peak' = 0 /\ endLag' = 0 /\ base' = 0
          /\ UNCHANGED <<published, cursor>>
        BY <1>7 DEF Judge, vars, groupVars
    <2>2. new \in StepResult
        <3>1. Counted \in Nat
            BY <1>2, CountedIsNat
        <3>2. peak \in Nat /\ endLag \in Nat
            BY <1>1, <1>2, <2>1 DEF StageInv, RampTypeInv
        <3>3. (Lag = 0) \in BOOLEAN
            OBVIOUS
        <3> QED
            BY <3>1, <3>2, <3>3 DEF StepResult
    <2> HIDE DEF new
    <2>3. /\ results' \in Seq(StepResult) /\ Len(results') = Len(results) + 1
          /\ Len(results) \in Nat /\ Len(results) < Steps
        BY <1>2, <2>1, <2>2 DEF RampTypeInv, StageInv
    <2>4. ramp' = "begin" => Lag = 0 /\ Len(results') < Steps
        BY <2>1, <2>3 DEF GoesOn
    <2>5. Lag = 0 <=> cursor = published
        BY <2>1, LagIs
    <2>6. RampTypeInv'
        <3>1. Len(results') <= Steps /\ base' \in 0 .. published'
            BY <1>1, <2>1, <2>3
        <3>2. \A p \in Publishers : sent'[p] <= published'
            BY <1>1, <2>1
        <3> QED
            BY <2>1, <2>3, <3>1, <3>2 DEF RampTypeInv
    <2>7. cursor # NoGroup
        BY <1>2, <2>1 DEF StageInv
    <2> QED
        BY <2>1, <2>4, <2>5, <2>6, <2>7 DEF StageInv
<1>8. CASE StepRaises
    <2>1. /\ ramp \in Measuring /\ ramp' = "stop" /\ peak' = 0 /\ endLag' = 0 /\ base' = 0
          /\ UNCHANGED <<published, cursor, publisher, sent, results>>
        BY <1>8 DEF StepRaises, groupVars
    <2> QED
        BY <1>1, <1>2, <2>1 DEF RampTypeInv, StageInv
<1>9. CASE Join
    <2>1. ramp = "stop" /\ ramp' = "over" /\ UNCHANGED <<published, cursor, publisher, sent, peak, endLag, results, base>>
        BY <1>9 DEF Join, vars, groupVars
    <2> QED
        BY <1>2, <2>1 DEF RampTypeInv, StageInv
<1>10. ASSUME NEW p \in Publishers, SendBatch(p) PROVE RampTypeInv' /\ StageInv'
    <2>1. /\ publisher[p] = "sending" /\ published' = published + PublishBatch
          /\ sent' = [sent EXCEPT ![p] = @ + PublishBatch]
          /\ UNCHANGED <<cursor, ramp, publisher, peak, endLag, results, base>>
        BY <1>10 DEF SendBatch, XAdd
    <2>2. ramp \notin {"idle", "begin", "grace", "judge"}
        BY <1>2, <2>1 DEF StageInv, AllExited
    <2>3. \A q \in Publishers : sent'[q] \in Nat /\ sent'[q] <= published'
        <3>1. \A q \in Publishers : sent[q] \in Nat /\ sent[q] <= published
            BY <1>2 DEF RampTypeInv
        <3>2. \A q \in Publishers : sent'[q] = IF q = p THEN sent[q] + PublishBatch ELSE sent[q]
            BY <1>2, <2>1 DEF RampTypeInv
        <3> QED
            BY <1>1, <2>1, <3>1, <3>2
    <2>4. base' \in 0 .. published'
        BY <1>1, <1>2, <2>1 DEF RampTypeInv
    <2>5. RampTypeInv'
        BY <1>2, <2>1, <2>3, <2>4 DEF RampTypeInv
    <2>6. ramp' \in Measuring => base' <= cursor' /\ {peak', endLag'} \subseteq 0 .. published' - base'
        <3> SUFFICES ASSUME ramp \in Measuring
                     PROVE  base <= cursor /\ {peak, endLag} \subseteq 0 .. published' - base
            BY <2>1
        <3>1. base <= cursor /\ {peak, endLag} \subseteq 0 .. published - base /\ base \in Nat
            BY <1>2 DEF StageInv, RampTypeInv
        <3> QED
            BY <1>1, <2>1, <3>1
    <2> QED
        BY <1>2, <2>1, <2>2, <2>5, <2>6 DEF StageInv
<1>11. ASSUME NEW p \in Publishers, Report(p) \/ PublisherDies(p) PROVE RampTypeInv' /\ StageInv'
    <2>1. /\ publisher[p] = "sending"
          /\ \E e \in {"reported", "dead"} : publisher' = [publisher EXCEPT ![p] = e]
          /\ sent' = sent \/ sent' = [sent EXCEPT ![p] = 0]
          /\ UNCHANGED <<published, cursor, ramp, peak, endLag, results, base>>
        BY <1>11 DEF Report, PublisherDies, vars, groupVars
    <2>2. ramp \notin {"idle", "begin", "grace", "judge"}
        BY <1>2, <2>1 DEF StageInv, AllExited
    <2>3. RampTypeInv'
        BY <1>1, <1>2, <2>1 DEF RampTypeInv
    <2> QED
        BY <1>2, <2>1, <2>2, <2>3 DEF StageInv
<1> QED
    BY <1>3, <1>4, <1>5, <1>6, <1>7, <1>8, <1>9, <1>10, <1>11
       DEF RampNext, Harness, Terminate, WorkerRuns, allVars

LEMMA RampStep == RampInv /\ [RampNext]_allVars => RampInv'
BY PoolStep, StageStep DEF RampInv

(* Harness, publishers and workers keep to their types, the results have   *)
(* one record per step at most, and each lag is a number of entries.       *)
THEOREM RampTypeCorrect == RampSpec => []RampTypeOK
<1>1. RampInit => RampInv
    BY RampInitiallyTyped
<1>2. RampInv /\ [RampNext]_allVars => RampInv'
    BY RampStep
<1>3. RampInv => RampTypeOK
    <2> SUFFICES ASSUME RampInv PROVE RampTypeOK
        OBVIOUS
    <2>1. TypeOK /\ RampTypeInv /\ StageInv /\ published \in 0 .. MaxPublished
        BY DEF RampInv, PoolInv, TypeOK, GroupTypeOK
    <2>2. \A p \in Publishers : sent[p] \in 0 .. MaxPublished
        BY <2>1 DEF RampTypeInv
    <2>3. {peak, endLag, base} \subseteq 0 .. MaxPublished
        <3>1. base \in 0 .. MaxPublished
            BY <2>1 DEF RampTypeInv
        <3>2. {peak, endLag} \subseteq 0 .. published
            BY <2>1, <3>1 DEF RampTypeInv, StageInv
        <3> QED
            BY <2>1, <3>1, <3>2
    <2> QED
        BY <2>1, <2>2, <2>3 DEF RampTypeInv, RampTypeOK
<1> QED
    BY <1>1, <1>2, <1>3, PTL DEF RampSpec

(* A step is measured against a stream whose earlier entries have all been *)
(* read: no step is blamed for the backlog of another.                     *)
THEOREM StepsDoNotOverlap == RampSpec => []StepsAreApart
<1>1. RampInit => RampInv
    BY RampInitiallyTyped
<1>2. RampInv /\ [RampNext]_allVars => RampInv'
    BY RampStep
<1>3. RampInv => StepsAreApart
    BY DEF RampInv, StageInv, StepsAreApart
<1> QED
    BY <1>1, <1>2, <1>3, PTL DEF RampSpec

-----------------------------------------------------------------------------
(* The published counts of the results, added up as the property does it.  *)

PublishedTotal(rs) == FoldFunction(LAMBDA r, total : r.published + total, 0, rs)

CountsOf(rs) == [i \in DOMAIN rs |-> rs[i].published]

CountsUp(g, rs, S) ==
    g = [s \in SUBSET S |->
            IF s = {} THEN 0 ELSE rs[Picked(s)].published + g[s \ {Picked(s)}]]

LEMMA TotalIsChosen ==
    ASSUME NEW rs
    PROVE  PublishedTotal(rs) = (CHOOSE g : CountsUp(g, rs, DOMAIN rs))[DOMAIN rs]
BY DEF PublishedTotal, FoldFunction, FoldFunctionOnSet, MapThenFoldSet, CountsUp, Picked

(* It is a sum like the others. *)
LEMMA TotalIsSum ==
    ASSUME NEW rs, IsFiniteSet(DOMAIN rs), \A i \in DOMAIN rs : rs[i].published \in Int
    PROVE  PublishedTotal(rs) = SumFunctionOnSet(CountsOf(rs), DOMAIN rs)
<1> DEFINE S == DOMAIN rs
           f == CountsOf(rs)
           g == CHOOSE h : CountsUp(h, rs, S)
<1>1. IsFiniteSet(S) /\ (\A i \in S : f[i] \in Int) /\ \A i \in S : f[i] = rs[i].published
    BY DEF CountsOf
<1>2. \A s \in SUBSET S : s # {} => Picked(s) \in S
    BY PickedIsIn
<1>3. \A h : CountsUp(h, rs, S) <=> SumsUp(h, f, S)
    <2> HIDE DEF S, f
    <2>1. \A h : \A s \in SUBSET S :
              (IF s = {} THEN 0 ELSE rs[Picked(s)].published + h[s \ {Picked(s)}])
                = (IF s = {} THEN 0 ELSE f[Picked(s)] + h[s \ {Picked(s)}])
        BY <1>1, <1>2
    <2> QED
        BY <2>1 DEF CountsUp, SumsUp
<1>4. PublishedTotal(rs) = g[S]
    BY TotalIsChosen
<1>5. \E h : CountsUp(h, rs, S)
    <2> HIDE DEF S, f
    <2> QED
        BY <1>1, <1>3, SumsExist
<1>6. CountsUp(g, rs, S)
    <2> HIDE DEF S, f
    <2> QED
        BY <1>5
<1> HIDE DEF S, f, g
<1>7. SumsUp(g, f, S)
    BY <1>3, <1>6
<1>8. PICK h : SumsOf(h, f, S)
    BY <1>1, SumIsChosen
<1>9. SumsUp(h, f, S) /\ SumFunctionOnSet(f, S) = h[S]
    BY <1>8 DEF SumsOf
<1>10. S \in SUBSET S
    OBVIOUS
<1>11. h[S] = g[S]
    BY <1>1, <1>7, <1>9, <1>10, SumsAgree
<1> QED
    BY <1>4, <1>9, <1>11 DEF S, f

LEMMA TotalOfNone == PublishedTotal(<<>>) = 0
<1>1. DOMAIN <<>> = {}
    OBVIOUS
<1>2. PublishedTotal(<<>>) = SumFunctionOnSet(CountsOf(<<>>), DOMAIN <<>>)
    BY <1>1, TotalIsSum, FS_EmptySet
<1> QED
    BY <1>1, <1>2, SumOfNone

LEMMA TotalAppended ==
    ASSUME NEW rs \in Seq(StepResult), NEW r \in StepResult
    PROVE  PublishedTotal(Append(rs, r)) = PublishedTotal(rs) + r.published
<1> DEFINE new == Append(rs, r)
           n == Len(rs) + 1
           S == DOMAIN rs
<1>1. /\ new \in Seq(StepResult) /\ DOMAIN new = 1 .. n /\ S = 1 .. Len(rs) /\ n \in Nat
      /\ \A i \in S : new[i] = rs[i]
      /\ new[n] = r
    OBVIOUS
<1>2. IsFiniteSet(S) /\ IsFiniteSet(DOMAIN new) /\ DOMAIN new = S \cup {n} /\ n \notin S
    <2>1. Len(rs) \in Nat
        OBVIOUS
    <2> HIDE DEF new
    <2>2. IsFiniteSet(1 .. Len(rs)) /\ IsFiniteSet(1 .. n)
        BY <2>1, FS_Interval
    <2> QED
        BY <1>1, <2>1, <2>2
<1>3. /\ \A i \in S : rs[i].published \in Int
      /\ \A i \in DOMAIN new : new[i].published \in Int
      /\ r.published \in Int
    <2>1. \A x \in StepResult : x.published \in Int
        BY DEF StepResult
    <2>2. \A i \in S : rs[i] \in StepResult
        OBVIOUS
    <2>3. \A i \in DOMAIN new : new[i] \in StepResult
        <3> HIDE DEF new
        <3> QED
            BY <1>1
    <2> QED
        BY <2>1, <2>2, <2>3
<1> HIDE DEF new, n, S
<1> DEFINE f == CountsOf(rs)
           h == CountsOf(new)
<1>4. /\ \A i \in S : f[i] \in Int /\ h[i] = f[i] /\ h[i] \in Int
      /\ h[n] = r.published
    BY <1>1, <1>2, <1>3 DEF CountsOf, S
<1>5. PublishedTotal(rs) = SumFunctionOnSet(f, S)
    BY <1>2, <1>3, TotalIsSum DEF S
<1>6. PublishedTotal(new) = SumFunctionOnSet(h, S \cup {n})
    BY <1>2, <1>3, TotalIsSum
<1> HIDE DEF f, h
<1>7. SumFunctionOnSet(h, S \cup {n}) = h[n] + SumFunctionOnSet(h, S)
    BY <1>2, <1>3, <1>4, SumAdded
<1>8. SumFunctionOnSet(h, S) = SumFunctionOnSet(f, S)
    BY <1>2, <1>4, SumOfSame
<1>9. SumFunctionOnSet(f, S) \in Int
    BY <1>2, <1>4, SumElements
<1> QED
    BY <1>3, <1>4, <1>5, <1>6, <1>7, <1>8, <1>9 DEF new

-----------------------------------------------------------------------------
(* A ramp in which nothing has failed. *)

(* Every publisher of the step sends or has reported, their counts are     *)
(* what the step added to the stream, the results account for the rest,    *)
(* and a ramp that ended with a pool that had caught up left nothing       *)
(* unread.                                                                 *)
CleanInv ==
    crashes = 0 =>
        /\ ramp \in Measuring =>
            /\ \A p \in Publishers : publisher[p] \in {"sending", "reported"}
            /\ SumFunctionOnSet(sent, Publishers) = published - base
        /\ ramp \notin Measuring => \A p \in Publishers : publisher[p] = "none"
        /\ PublishedTotal(results) = IF ramp \in Measuring THEN base ELSE published
        /\ \A i \in DOMAIN results :
            {results[i].peak, results[i].endLag} \subseteq 0 .. results[i].published
        /\ ramp \in {"stop", "over"} =>
            results # <<>> /\ (results[Len(results)].caughtUp => cursor = published)

LEMMA CleanInit == RampInit => CleanInv
<1> SUFFICES ASSUME RampInit PROVE CleanInv
    OBVIOUS
<1>1. results = <<>> /\ DOMAIN results = {} /\ published = 0 /\ ramp = "idle"
      /\ \A p \in Publishers : publisher[p] = "none"
    BY DEF RampInit, Init, GroupInit
<1> QED
    BY <1>1, TotalOfNone DEF CleanInv, Measuring

(* A step of the workers. *)
LEMMA CleanStutters ==
    ASSUME RampInv, CleanInv, [RampNext]_allVars, UNCHANGED <<rampVars, published>>,
           crashes' = 0 => crashes = 0
    PROVE  CleanInv'
<1> USE DEF rampVars, publishVars, stepVars
<1> SUFFICES ASSUME crashes' = 0, crashes = 0 PROVE CleanInv'
    BY DEF CleanInv
<1>1. ramp \in {"stop", "over"} /\ cursor = published => cursor' = published'
    <2>1. ramp \in {"stop", "over"} => cursor # NoGroup
        BY DEF RampInv, StageInv
    <2> QED
        BY <2>1, StreamGrows DEF NoGroup
<1>2. PublishedTotal(results)' = PublishedTotal(results)
    OBVIOUS
<1>3. SumFunctionOnSet(sent, Publishers)' = SumFunctionOnSet(sent, Publishers)
    OBVIOUS
<1> QED
    BY <1>1, <1>2, <1>3 DEF CleanInv, Measuring

LEMMA CleanStep == RampInv /\ CleanInv /\ [RampNext]_allVars => CleanInv'
<1> SUFFICES ASSUME RampInv, CleanInv, [RampNext]_allVars, crashes' = 0 PROVE CleanInv'
    BY DEF CleanInv
<1> USE DEF Measuring, publishVars, stepVars
<1>1. RampTypeInv /\ StageInv /\ TypeOK
    BY DEF RampInv, PoolInv
<1>2. crashes = 0
    <2>1. crashes \in Nat
        BY <1>1 DEF TypeOK
    <2> QED
        BY <2>1 DEF RampNext, Harness, StartWorkers, BeginStep, EndProduce, GracePoll, Judge, Join,
                    Sample, StepRaises, Terminate, Signal, Report, PublisherDies, WorkerRuns, SendBatch,
                    Start, Read, ReadNothing, Write, Ack, Crash, vars, allVars
<1>3. /\ published \in Nat /\ published' \in Nat /\ published <= published'
    BY StreamGrows
<1>4. CASE UNCHANGED <<rampVars, published>>
    BY <1>2, <1>4, CleanStutters
<1>5. /\ ramp \in Measuring =>
            /\ \A p \in Publishers : publisher[p] \in {"sending", "reported"}
            /\ SumFunctionOnSet(sent, Publishers) = published - base
      /\ ramp \notin Measuring => \A p \in Publishers : publisher[p] = "none"
      /\ PublishedTotal(results) = IF ramp \in Measuring THEN base ELSE published
      /\ \A i \in DOMAIN results :
            {results[i].peak, results[i].endLag} \subseteq 0 .. results[i].published
      /\ ramp \in {"stop", "over"} =>
            results # <<>> /\ (results[Len(results)].caughtUp => cursor = published)
    BY <1>2 DEF CleanInv
<1>6. CASE StartWorkers
    <2>1. /\ ramp = "idle" /\ ramp' = "begin"
          /\ UNCHANGED <<published, publisher, sent, peak, endLag, results, base>>
        BY <1>6 DEF StartWorkers
    <2> QED
        BY <1>5, <2>1 DEF CleanInv
<1>7. CASE BeginStep
    <2>1. /\ ramp = "begin" /\ ramp' = "produce" /\ base' = published
          /\ publisher' = [p \in Publishers |-> "sending"]
          /\ UNCHANGED <<published, cursor, sent, peak, endLag, results>>
        BY <1>7 DEF BeginStep, vars, groupVars
    <2>2. SumFunctionOnSet(sent, Publishers) = 0
        <3>1. \A p \in Publishers : sent[p] = 0
            BY <1>1, <2>1 DEF StageInv
        <3> QED
            BY <3>1, SumOfZeros
    <2>3. SumFunctionOnSet(sent', Publishers) = published' - base'
        BY <1>3, <2>1, <2>2
    <2> QED
        BY <1>5, <2>1, <2>3 DEF CleanInv
<1>8. CASE EndProduce \/ GracePoll \/ Sample
    <2>1. /\ ramp \in Measuring /\ ramp' \in Measuring
          /\ UNCHANGED <<published, cursor, publisher, sent, results, base>>
        BY <1>8 DEF EndProduce, GracePoll, AfterPoll, Sample, vars, groupVars
    <2> QED
        BY <1>5, <2>1 DEF CleanInv
<1>9. CASE Judge
    <2> DEFINE new == [published |-> Counted, peak |-> peak, endLag |-> endLag, caughtUp |-> Lag = 0]
    <2>1. /\ ramp = "judge" /\ results' = Append(results, new)
          /\ ramp' \in {"begin", "stop"}
          /\ publisher' = [p \in Publishers |-> "none"]
          /\ UNCHANGED <<published, cursor>>
        BY <1>9 DEF Judge, vars, groupVars
    <2>2. Counted = published - base
        <3>1. {p \in Publishers : publisher[p] = "reported"} = Publishers
            BY <1>1, <1>5, <2>1 DEF StageInv, AllExited
        <3> QED
            BY <1>5, <2>1, <3>1 DEF Counted
    <2>3. base \in Nat /\ published - base \in Nat /\ {peak, endLag} \subseteq 0 .. published - base
        BY <1>1, <1>3, <2>1 DEF RampTypeInv, StageInv
    <2>4. new \in StepResult /\ new.published = published - base
          /\ new.peak = peak /\ new.endLag = endLag /\ new.caughtUp = (Lag = 0)
        <3>1. (Lag = 0) \in BOOLEAN /\ peak \in Nat /\ endLag \in Nat
            BY <2>3
        <3> QED
            BY <2>2, <2>3, <3>1 DEF StepResult
    <2> HIDE DEF new
    <2>5. /\ results \in Seq(StepResult) /\ Len(results) \in Nat
          /\ Len(results') = Len(results) + 1 /\ DOMAIN results' = 1 .. Len(results) + 1
          /\ DOMAIN results = 1 .. Len(results)
          /\ \A i \in DOMAIN results : results'[i] = results[i]
          /\ results'[Len(results) + 1] = new
        BY <1>1, <2>1, <2>4 DEF RampTypeInv
    <2>6. PublishedTotal(results') = published'
        <3>1. PublishedTotal(results') = PublishedTotal(results) + new.published
            BY <2>1, <2>4, <2>5, TotalAppended
        <3>2. PublishedTotal(results) = base
            BY <1>5, <2>1
        <3> QED
            BY <1>3, <2>1, <2>3, <2>4, <3>1, <3>2
    <2>7. \A i \in DOMAIN results' :
              {results'[i].peak, results'[i].endLag} \subseteq 0 .. results'[i].published
        <3> SUFFICES ASSUME NEW i \in DOMAIN results'
                     PROVE  {results'[i].peak, results'[i].endLag} \subseteq 0 .. results'[i].published
            OBVIOUS
        <3>1. CASE i \in DOMAIN results
            BY <1>5, <2>5, <3>1
        <3>2. CASE i = Len(results) + 1
            BY <2>3, <2>4, <2>5, <3>2
        <3>3. i \in DOMAIN results \/ i = Len(results) + 1
            BY <2>5
        <3> QED
            BY <3>1, <3>2, <3>3
    <2>8. results' # <<>> /\ (results'[Len(results')].caughtUp => cursor' = published')
        <3>1. Lag = 0 => cursor = published
            BY <2>1, LagIs
        <3>2. results' # <<>>
            BY <2>5
        <3>3. results'[Len(results')].caughtUp = (Lag = 0)
            BY <2>4, <2>5
        <3> QED
            BY <2>1, <3>1, <3>2, <3>3
    <2> QED
        BY <2>1, <2>6, <2>7, <2>8 DEF CleanInv
<1>10. CASE Join
    <2>1. ramp = "stop" /\ ramp' = "over"
          /\ UNCHANGED <<published, cursor, publisher, sent, peak, endLag, results, base>>
        BY <1>10 DEF Join, vars, groupVars
    <2> QED
        BY <1>5, <2>1 DEF CleanInv
<1>11. ASSUME NEW p \in Publishers, SendBatch(p) PROVE CleanInv'
    <2>1. /\ publisher[p] = "sending" /\ published' = published + PublishBatch
          /\ sent' = [sent EXCEPT ![p] = @ + PublishBatch]
          /\ UNCHANGED <<cursor, ramp, publisher, peak, endLag, results, base>>
        BY <1>11 DEF SendBatch, XAdd
    <2>2. ramp \in Measuring
        BY <1>5, <2>1
    <2>3. SumFunctionOnSet(sent', Publishers) = SumFunctionOnSet(sent, Publishers) + PublishBatch
        <3> DEFINE n == PublishBatch
                   new == sent'
        <3>1. \A q \in Publishers : sent[q] \in Int
            BY <1>1 DEF RampTypeInv
        <3>2. /\ \A q \in Publishers \ {p} : new[q] = sent[q]
              /\ new[p] = sent[p] + n /\ n \in Int
            BY <1>1, <2>1 DEF RampTypeInv
        <3> HIDE DEF n, new
        <3>3. SumFunctionOnSet(new, Publishers) = SumFunctionOnSet(sent, Publishers) + n
            BY <3>1, <3>2, SumAtOne
        <3> QED
            BY <3>3 DEF n, new
    <2>4. base \in Nat
        BY <1>1 DEF RampTypeInv
    <2>5. SumFunctionOnSet(sent', Publishers) = published' - base'
        BY <1>3, <1>5, <2>1, <2>2, <2>3, <2>4
    <2> QED
        BY <1>5, <2>1, <2>2, <2>5 DEF CleanInv
<1>12. ASSUME NEW p \in Publishers, Report(p) PROVE CleanInv'
    <2>1. /\ publisher[p] = "sending" /\ publisher' = [publisher EXCEPT ![p] = "reported"]
          /\ UNCHANGED <<published, cursor, ramp, sent, peak, endLag, results, base>>
        BY <1>12 DEF Report, vars, groupVars
    <2>2. ramp \in Measuring
        BY <1>5, <2>1
    <2>3. \A q \in Publishers : publisher'[q] \in {"sending", "reported"}
        BY <1>1, <1>5, <2>1, <2>2 DEF RampTypeInv
    <2> QED
        BY <1>5, <2>1, <2>2, <2>3 DEF CleanInv
<1>13. ASSUME NEW p \in Publishers PROVE ~PublisherDies(p) /\ ~StepRaises
    BY <1>2 DEF PublisherDies, StepRaises
<1>14. ASSUME NEW w \in Workers, WorkerRuns(w) \/ Terminate(w) PROVE UNCHANGED <<rampVars, published>>
    BY <1>14 DEF WorkerRuns, Terminate, Start, Read, ReadNothing, Write, Ack, Signal, Crash, groupVars
<1>15. ~StepRaises
    BY <1>2 DEF StepRaises
<1> QED
    BY <1>4, <1>6, <1>7, <1>8, <1>9, <1>10, <1>11, <1>12, <1>13, <1>14, <1>15
       DEF RampNext, Harness, allVars, vars, groupVars

LEMMA RampInvariance == RampSpec => [](RampInv /\ CleanInv)
<1>1. RampInit => RampInv /\ CleanInv
    BY RampInitiallyTyped, CleanInit
<1>2. RampInv /\ CleanInv /\ [RampNext]_allVars => RampInv' /\ CleanInv'
    BY RampStep, CleanStep
<1> QED
    BY <1>1, <1>2, PTL DEF RampSpec

(* If nothing fails, the published counts of the results are the entries   *)
(* of the stream, and no step shows more lag than it published.            *)
THEOREM ResultsAreComplete == RampSpec => []ResultsAddUp
<1>1. ASSUME CleanInv, crashes = 0
      PROVE  /\ ramp \in {"begin", "stop", "over"} => published = PublishedTotal(results)
             /\ \A i \in DOMAIN results :
                    {results[i].peak, results[i].endLag} \subseteq 0 .. results[i].published
    BY <1>1 DEF CleanInv, Measuring
<1>2. CleanInv => ResultsAddUp
    BY <1>1 DEF ResultsAddUp, PublishedTotal
<1> QED
    BY <1>2, RampInvariance, PTL

(* A lag of zero is not yet a stored stream, but after the shutdown of a   *)
(* ramp that ended caught up every entry is stored once and settled.       *)
THEOREM ShutdownStoresAll == RampSpec => []StoppedIsStored
<1>1. ASSUME RampInv, CleanInv, Ended, crashes = 0, results[Len(results)].caughtUp,
             NEW m \in 1 .. published
      PROVE  m \in Settled /\ rows[m] = 1
    <2>1. cursor = published
        BY <1>1 DEF CleanInv, Ended
    <2>2. m \in Messages /\ m \in Delivered
        BY <1>1, <2>1 DEF RampInv, PoolInv, TypeOK, GroupTypeOK, Messages, Delivered
    <2>3. \A c \in Consumers : phase[c] \notin InLoop
        BY <1>1 DEF Ended
    <2> QED
        BY <1>1, <2>2, <2>3, OneRowEach DEF RampInv, PoolInv, Settled
<1>2. RampInv /\ CleanInv => StoppedIsStored
    BY <1>1 DEF StoppedIsStored
<1> QED
    BY <1>2, RampInvariance, PTL

-----------------------------------------------------------------------------
(* What the workers promise they promise under the harness too. *)

LEMMA HarnessStutters ==
    ASSUME PoolInv, UNCHANGED <<published, owner, rows>>,
           cursor' = cursor \/ CreateGroup
    PROVE  [Delivery!Next]_(Delivery!vars)
<1>1. Delivered' = Delivered /\ Pending' = Pending
    BY DEF Delivered, Pending, CreateGroup, NoGroup, Messages, PoolInv, TypeOK, GroupTypeOK
<1> QED
    BY <1>1, DeliveryStutters DEF Settled

LEMMA HarnessStep == PoolInv /\ [RampNext]_allVars => [Delivery!Next]_(Delivery!vars)
<1> SUFFICES ASSUME PoolInv, [RampNext]_allVars PROVE [Delivery!Next]_(Delivery!vars)
    OBVIOUS
<1>1. CASE [Next]_vars
    BY <1>1, DeliveryRefinesStep DEF PoolInv
<1>2. ASSUME NEW w \in Workers, Terminate(w) PROVE [Delivery!Next]_(Delivery!vars)
    <2>1. CASE Signal(w)
        BY <1>1, <2>1 DEF Next, WorkerStep
    <2> QED
        BY <1>2, <2>1, HarnessStutters DEF Terminate, groupVars
<1>3. ASSUME NEW p \in Publishers, SendBatch(p) \/ Report(p) \/ PublisherDies(p)
      PROVE  [Delivery!Next]_(Delivery!vars)
    BY <1>1, <1>3, SendBatchPublishes, HarnessStutters DEF Report, PublisherDies, groupVars
<1>4. CASE StartWorkers \/ StepRaises
    BY <1>4, HarnessStutters DEF StartWorkers, StepRaises, groupVars
<1>5. ASSUME NEW w \in Workers, WorkerRuns(w) PROVE [Delivery!Next]_(Delivery!vars)
    BY <1>1, <1>5, WorkerRunsNext
<1>6. CASE BeginStep \/ EndProduce \/ GracePoll \/ Judge \/ Join \/ Sample \/ UNCHANGED allVars
    BY <1>1, <1>6 DEF BeginStep, EndProduce, GracePoll, Judge, Join, Sample, allVars
<1> QED
    BY <1>2, <1>3, <1>4, <1>5, <1>6 DEF RampNext, Harness

(* The pool under the load harness implements TickDelivery as well: what   *)
(* the harness does to its workers, a signal before their start, failures  *)
(* and publishers that die, never makes one settle a tick that no row      *)
(* holds, nor store one twice.                                             *)
THEOREM HarnessImplementsDelivery == RampSpec => ImplementsDelivery
<1>1. RampInit => PoolInv /\ Delivery!Init
    BY RampInitiallyTyped, DeliveryRefinesInit DEF RampInit, RampInv
<1>2. PoolInv /\ [RampNext]_allVars => PoolInv'
    BY PoolStep
<1>3. PoolInv /\ [RampNext]_allVars => [Delivery!Next]_(Delivery!vars)
    BY HarnessStep
<1> QED
    BY <1>1, <1>2, <1>3, PTL DEF RampSpec, ImplementsDelivery, Delivery!Spec
=============================================================================
