------------------------- MODULE TickWorkersProofs -------------------------
(***************************************************************************)
(* Proofs about TickWorkers for every number of consumers and entries and  *)
(* every value of the limits: type correctness, that no delivered entry is *)
(* ever lost, the bound on the copies of a tick, that the pool implements  *)
(* TickDelivery, that the cap of a worker is kept, that only a crash or    *)
(* the cap strands an entry, and that the counts the pool returns add up.  *)
(***************************************************************************)
EXTENDS TickWorkers, SumProofs

(* The assumptions on the constants, in the form the proofs use. *)
LEMMA Constants ==
    /\ IsFiniteSet(Consumers) /\ NoOwner \notin Consumers
    /\ MaxPublished \in Nat
    /\ Recoverers \subseteq Consumers
    /\ ReadBatch \in Nat \ {0} /\ ClaimBatch \in Nat \ {0}
    /\ MaxMessages \in Nat \cup {None}
BY ConsumersAssumption, MaxPublishedAssumption, WorkersAssumption

USE Constants

-----------------------------------------------------------------------------
(* Facts about the operators. *)

LEMMA SubsetsFinite ==
    ASSUME NEW S \in SUBSET Messages
    PROVE  IsFiniteSet(S) /\ Cardinality(S) \in Nat
<1>1. IsFiniteSet(Messages)
    BY FS_Interval DEF Messages
<1>2. IsFiniteSet(S)
    BY <1>1, FS_Subset
<1> QED
    BY <1>2, FS_CardinalityType

(* First keeps a part of the set, and so does the cap of run_worker. *)
LEMMA FirstSubset ==
    ASSUME NEW S, NEW n
    PROVE  First(S, n) \subseteq S
BY DEF First

LEMMA CappedSubset ==
    ASSUME NEW w, NEW S
    PROVE  Capped(w, S) \subseteq S
BY FirstSubset DEF Capped

LEMMA FreshSubset ==
    ASSUME NEW n
    PROVE  Fresh(n) \subseteq Messages
BY DEF Fresh

LEMMA ClaimableSubset ==
    ASSUME NEW S, NEW n
    PROVE  Claimable(S, n) \subseteq Pending
BY FirstSubset DEF Claimable

-----------------------------------------------------------------------------
(* Every reachable state is of the types the declarations announce. *)

LEMMA TypeInit == Init => TypeOK
BY DEF Init, GroupInit, TypeOK, GroupTypeOK, NoGroup, Phases

LEMMA TypeStep == TypeOK /\ [Next]_vars => TypeOK'
<1> SUFFICES ASSUME TypeOK, [Next]_vars PROVE TypeOK'
    OBVIOUS
<1> USE DEF TypeOK, GroupTypeOK, NoGroup, Phases, groupVars, loopVars, Workers
<1>1. CASE Publish
    BY <1>1 DEF Publish, XAdd
<1>2. ASSUME NEW w \in Workers, Start(w) PROVE TypeOK'
    BY <1>2 DEF Start, CreateGroup
<1>3. ASSUME NEW w \in Workers, Read(w) PROVE TypeOK'
    <2>1. Capped(w, Fresh(ReadBatch)) \subseteq Messages
        BY CappedSubset, FreshSubset
    <2>2. cursor' \in {NoGroup} \cup 0 .. MaxPublished
        <3>1. /\ cursor # NoGroup
              /\ cursor' = IF cursor + ReadBatch < published
                           THEN cursor + ReadBatch ELSE published
            BY <1>3 DEF Read, ReadGroup
        <3>2. published \in 0 .. MaxPublished /\ cursor \in 0 .. MaxPublished
            BY <3>1
        <3> QED
            BY <3>1, <3>2
    <2> QED
        BY <1>3, <2>1, <2>2 DEF Read, ReadGroup
<1>4. ASSUME NEW w \in Workers, ReadNothing(w) PROVE TypeOK'
    BY <1>4 DEF ReadNothing, LoopTop
<1>5. ASSUME NEW c \in Consumers, Write(c) PROVE TypeOK'
    BY <1>5 DEF Write
<1>6. ASSUME NEW w \in Workers, Ack(w) PROVE TypeOK'
    <2>1. Cardinality(batch[w]) \in Nat
        BY SubsetsFinite
    <2> QED
        BY <1>6, <2>1 DEF Ack, XAck, LoopTop
<1>7. ASSUME NEW w \in Workers, Signal(w) PROVE TypeOK'
    BY <1>7 DEF Signal
<1>8. ASSUME NEW c \in Consumers, Crash(c) PROVE TypeOK'
    BY <1>8 DEF Crash
<1>9. ASSUME NEW r \in Recoverers, Claim(r) PROVE TypeOK'
    <2>1. Claimable(Stale, ClaimBatch) \subseteq Messages
        BY ClaimableSubset DEF Pending
    <2> QED
        BY <1>9, <2>1 DEF Claim, XAutoClaim
<1>10. ASSUME NEW r \in Recoverers, AckClaimed(r) PROVE TypeOK'
    BY <1>10 DEF AckClaimed, XAck
<1>11. CASE UNCHANGED vars
    BY <1>11 DEF vars
<1> QED
    BY <1>1, <1>2, <1>3, <1>4, <1>5, <1>6, <1>7, <1>8, <1>9, <1>10, <1>11
       DEF Next, WorkerStep, RecovererStep

THEOREM TypeCorrect == Spec => []TypeOK
<1>1. Init => TypeOK
    BY TypeInit
<1>2. TypeOK /\ [Next]_vars => TypeOK'
    BY TypeStep
<1> QED
    BY <1>1, <1>2, PTL DEF Spec
-----------------------------------------------------------------------------
(* What the reads and the claims hand out. *)

LEMMA ReadDelivers ==
    ASSUME TypeOK, DeliveryInv, NEW w \in Consumers, NEW n \in Nat \ {0}, ReadGroup(w, n)
    PROVE  /\ Delivered' = Delivered \cup Fresh(n)
           /\ Delivered \cap Fresh(n) = {}
           /\ cursor' \in Int /\ cursor' <= published
           /\ Pending' = Pending \cup Fresh(n)
<1> USE DEF TypeOK, GroupTypeOK, ReadGroup
<1>1. /\ cursor \in 0 .. MaxPublished /\ published \in 0 .. MaxPublished
      /\ cursor <= published
    BY DEF NoGroup, DeliveryInv
<1>2. cursor' = IF cursor + n < published THEN cursor + n ELSE published
    OBVIOUS
<1>3. ASSUME NEW m \in Messages
      PROVE  m <= cursor' <=> (m <= cursor \/ (m <= cursor + n /\ m <= published))
    BY <1>1, <1>2 DEF Messages
<1>4. Delivered' = Delivered \cup Fresh(n)
    <2>1. Delivered' = {m \in Messages : m <= cursor'}
        BY DEF Delivered, Messages
    <2>2. \A m \in Messages : m \in Int
        BY DEF Messages
    <2> QED
        BY <1>1, <1>3, <2>1, <2>2 DEF Delivered, Fresh
<1>5. Delivered \cap Fresh(n) = {}
    BY <1>1 DEF Delivered, Fresh, Messages
<1>6. Pending' = Pending \cup Fresh(n)
    BY DEF Pending, Fresh
<1> QED
    BY <1>1, <1>2, <1>4, <1>5, <1>6

LEMMA ClaimTakesPending ==
    ASSUME TypeOK, NEW r \in Consumers, NEW S, NEW n, XAutoClaim(r, S, n)
    PROVE  Pending' = Pending
<1>1. Claimable(S, n) \subseteq Pending
    BY ClaimableSubset
<1> QED
    BY <1>1 DEF TypeOK, GroupTypeOK, XAutoClaim, Pending

LEMMA AckTakesFromPending ==
    ASSUME TypeOK, NEW S \in SUBSET Messages, XAck(S)
    PROVE  Pending' = Pending \ S
BY DEF TypeOK, GroupTypeOK, XAck, Pending

-----------------------------------------------------------------------------
(* DeliveryInv is inductive. *)

LEMMA DeliveryInit == Init => DeliveryInv
BY DEF Init, GroupInit, DeliveryInv, NothingLost, Settled, Pending, Delivered,
       NoGroup, Messages

LEMMA DeliveryStep ==
    TypeOK /\ DeliveryInv /\ [Next]_vars => DeliveryInv'
<1> SUFFICES ASSUME TypeOK, DeliveryInv, [Next]_vars PROVE DeliveryInv'
    OBVIOUS
<1> USE DEF DeliveryInv, NothingLost, Settled, groupVars, loopVars
<1>1. CASE Publish
    <2>1. /\ published' \in Int /\ published <= published' /\ cursor' = cursor
          /\ UNCHANGED <<owner, phase, batch, rows>>
        BY <1>1 DEF Publish, XAdd, TypeOK, GroupTypeOK
    <2>2. Delivered' = Delivered /\ Pending' = Pending
        BY <2>1 DEF Delivered, Pending
    <2>3. cursor \in Int /\ published \in Int
        BY DEF TypeOK, GroupTypeOK, NoGroup
    <2> QED
        BY <2>1, <2>2, <2>3
<1>2. ASSUME NEW w \in Workers, Start(w) PROVE DeliveryInv'
    <2>1. /\ cursor' = IF cursor = NoGroup THEN 0 ELSE cursor
          /\ UNCHANGED <<published, owner, batch, rows>>
          /\ phase' = [phase EXCEPT ![w] = "read"]
          /\ phase[w] \in {"down", "stopped", "crashed"}
        BY <1>2 DEF Start, CreateGroup
    <2>2. Delivered' = Delivered
        BY <2>1 DEF Delivered, NoGroup, Messages
    <2>3. Pending' = Pending
        BY <2>1 DEF Pending
    <2>4. cursor' <= published'
        BY <2>1 DEF TypeOK, GroupTypeOK, NoGroup
    <2> QED
        BY <2>1, <2>2, <2>3, <2>4 DEF TypeOK
<1>3. ASSUME NEW w \in Workers, Read(w) PROVE DeliveryInv'
    <2>1. /\ ReadGroup(w, ReadBatch)
          /\ batch' = [batch EXCEPT ![w] = Capped(w, Fresh(ReadBatch))]
          /\ phase' = [phase EXCEPT ![w] = "write"]
          /\ UNCHANGED <<published, rows>>
        BY <1>3 DEF Read
    <2>2. /\ Delivered' = Delivered \cup Fresh(ReadBatch)
          /\ cursor' <= published
          /\ Pending' = Pending \cup Fresh(ReadBatch)
        BY <2>1, ReadDelivers DEF Workers
    <2>3. Capped(w, Fresh(ReadBatch)) \subseteq Fresh(ReadBatch)
        BY CappedSubset
    <2> QED
        BY <2>1, <2>2, <2>3 DEF TypeOK
<1>4. ASSUME NEW w \in Workers, ReadNothing(w) PROVE DeliveryInv'
    <2>1. /\ UNCHANGED <<published, cursor, owner, batch, rows>>
          /\ phase[w] = "read"
          /\ \A c \in Consumers : c # w => phase'[c] = phase[c]
          /\ phase'[w] \in {"read", "stopped"}
        BY <1>4 DEF ReadNothing, LoopTop, TypeOK, Workers
    <2>2. Delivered' = Delivered /\ Pending' = Pending
        BY <2>1 DEF Delivered, Pending
    <2> QED
        BY <2>1, <2>2
<1>5. ASSUME NEW c \in Consumers, Write(c) PROVE DeliveryInv'
    <2>1. /\ UNCHANGED <<published, cursor, owner, batch>>
          /\ phase' = [phase EXCEPT ![c] = "ack"]
          /\ phase[c] = "write"
          /\ rows' = [m \in Messages |->
                        IF m \in batch[c] THEN rows[m] + 1 ELSE rows[m]]
        BY <1>5 DEF Write
    <2>2. Delivered' = Delivered /\ Pending' = Pending
        BY <2>1 DEF Delivered, Pending
    <2>3. \A m \in Messages : rows[m] > 0 => rows'[m] > 0
        BY <2>1 DEF TypeOK
    <2>4. \A m \in Messages : rows'[m] > 0 => rows[m] > 0 \/ m \in batch[c]
        BY <2>1
    <2>5. \A m \in batch[c] : rows'[m] > 0
        BY <2>1 DEF TypeOK
    <2>6. \A d \in Consumers : batch[d] \subseteq Messages
        BY DEF TypeOK
    <2> QED
        BY <2>1, <2>2, <2>3, <2>4, <2>5, <2>6 DEF TypeOK, Delivered
<1>6. ASSUME NEW c \in Consumers, phase[c] = "ack", XAck(batch[c]),
             batch' = [batch EXCEPT ![c] = {}],
             UNCHANGED <<published, cursor, rows>>,
             \A d \in Consumers : d # c => phase'[d] = phase[d],
             phase'[c] \notin {"write", "ack"}
      PROVE  DeliveryInv'
    <2>1. Pending' = Pending \ batch[c]
        BY <1>6, AckTakesFromPending DEF TypeOK
    <2>2. Delivered' = Delivered
        BY <1>6 DEF Delivered
    <2> QED
        BY <1>6, <2>1, <2>2 DEF TypeOK
<1>7. ASSUME NEW w \in Workers, Ack(w) PROVE DeliveryInv'
    BY <1>7, <1>6 DEF Ack, LoopTop, TypeOK, Workers
<1>8. ASSUME NEW r \in Recoverers, AckClaimed(r) PROVE DeliveryInv'
    BY <1>8, <1>6 DEF AckClaimed, TypeOK
<1>9. ASSUME NEW w \in Workers, Signal(w) PROVE DeliveryInv'
    BY <1>9 DEF Signal, Delivered, Pending
<1>10. ASSUME NEW c \in Consumers, Crash(c) PROVE DeliveryInv'
    <2>1. /\ UNCHANGED <<published, cursor, owner, rows>>
          /\ batch' = [batch EXCEPT ![c] = {}]
          /\ \A d \in Consumers : d # c => phase'[d] = phase[d]
          /\ phase'[c] \in {"crashed", "down"}
        BY <1>10 DEF Crash, TypeOK
    <2>2. Delivered' = Delivered /\ Pending' = Pending
        BY <2>1 DEF Delivered, Pending
    <2> QED
        BY <2>1, <2>2 DEF TypeOK
<1>11. ASSUME NEW r \in Recoverers, Claim(r) PROVE DeliveryInv'
    <2>1. /\ UNCHANGED <<published, cursor, rows>>
          /\ XAutoClaim(r, Stale, ClaimBatch)
          /\ batch' = [batch EXCEPT ![r] = Claimable(Stale, ClaimBatch)]
          /\ phase' = [phase EXCEPT ![r] = "write"]
        BY <1>11 DEF Claim
    <2>2. Pending' = Pending
        BY <2>1, ClaimTakesPending
    <2>3. Delivered' = Delivered
        BY <2>1 DEF Delivered
    <2>4. Claimable(Stale, ClaimBatch) \subseteq Delivered
        BY ClaimableSubset
    <2> QED
        BY <2>1, <2>2, <2>3, <2>4 DEF TypeOK
<1>12. CASE UNCHANGED vars
    BY <1>12 DEF vars, Delivered, Pending
<1> QED
    BY <1>1, <1>2, <1>3, <1>4, <1>5, <1>7, <1>8, <1>9, <1>10, <1>11, <1>12
       DEF Next, WorkerStep, RecovererStep, Workers

(* Whatever dies, restarts, is signalled or reclaims: an entry the group   *)
(* delivered is pending or stored.                                         *)
THEOREM DeliveredIsKept == Spec => []NothingLost
<1>1. Init => DeliveryInv
    BY DeliveryInit
<1>2. TypeOK /\ DeliveryInv /\ [Next]_vars => DeliveryInv'
    BY DeliveryStep
<1>3. DeliveryInv => NothingLost
    BY DEF DeliveryInv
<1> QED
    BY <1>1, <1>2, <1>3, TypeCorrect, PTL DEF Spec
-----------------------------------------------------------------------------
(* The bound on the copies of a tick. *)

LEMMA WritersFinite ==
    ASSUME NEW m
    PROVE  IsFiniteSet(Writers(m)) /\ Cardinality(Writers(m)) \in Nat
<1>1. Writers(m) \subseteq Consumers
    BY DEF Writers
<1>2. IsFiniteSet(Writers(m))
    BY <1>1, FS_Subset
<1> QED
    BY <1>2, FS_CardinalityType

(* A step that adds no writer and no row keeps the bound. *)
LEMMA FewerWriters ==
    ASSUME TypeOK, TypeOK', CopiesInv, UNCHANGED rows, UNCHANGED claims,
           \A m \in Messages : Writers(m)' \subseteq Writers(m)
    PROVE  CopiesInv'
<1>1. ASSUME NEW m \in Messages
      PROVE  Cardinality(Writers(m)') <= Cardinality(Writers(m))
    BY WritersFinite, FS_Subset
<1>2. ASSUME NEW m \in Messages
      PROVE  rows'[m] + Cardinality(Writers(m)') <= 1 + claims'[m]
    <2>1. Cardinality(Writers(m)) \in Nat /\ Cardinality(Writers(m)') \in Nat
        <3>1. Writers(m)' \subseteq Writers(m)
            OBVIOUS
        <3>2. IsFiniteSet(Writers(m)) /\ Cardinality(Writers(m)) \in Nat
            BY WritersFinite
        <3>3. IsFiniteSet(Writers(m)')
            BY <3>1, <3>2, FS_Subset
        <3> QED
            BY <3>2, <3>3, FS_CardinalityType
    <2>2. rows[m] \in Nat /\ claims[m] \in Nat
        BY DEF TypeOK
    <2> QED
        BY <1>1, <2>1, <2>2 DEF CopiesInv
<1> QED
    BY <1>2 DEF CopiesInv

LEMMA CopiesInit == Init => CopiesInv
<1> SUFFICES ASSUME Init PROVE CopiesInv
    OBVIOUS
<1>1. ASSUME NEW m \in Messages PROVE Writers(m) = {}
    BY DEF Init, Writers
<1>2. Cardinality({}) = 0
    BY FS_EmptySet
<1> QED
    BY <1>1, <1>2 DEF CopiesInv, Init

LEMMA CopiesStep ==
    TypeOK /\ TypeOK' /\ DeliveryInv /\ CopiesInv /\ [Next]_vars => CopiesInv'
<1> SUFFICES ASSUME TypeOK, TypeOK', DeliveryInv, CopiesInv, [Next]_vars
             PROVE  CopiesInv'
    OBVIOUS
<1> USE DEF groupVars, loopVars
<1>1. CASE Publish
    BY <1>1, FewerWriters DEF Publish, Writers
<1>2. ASSUME NEW w \in Workers, Start(w) PROVE CopiesInv'
    BY <1>2, FewerWriters DEF Start, Writers, TypeOK
<1>3. ASSUME NEW w \in Workers, Read(w) PROVE CopiesInv'
    <2> DEFINE new == Fresh(ReadBatch)
    <2>1. /\ ReadGroup(w, ReadBatch)
          /\ batch' = [batch EXCEPT ![w] = Capped(w, new)]
          /\ phase' = [phase EXCEPT ![w] = "write"]
          /\ UNCHANGED <<rows, claims>>
        BY <1>3 DEF Read
    <2>2. Capped(w, new) \subseteq new /\ Delivered \cap new = {}
        BY <2>1, CappedSubset, ReadDelivers DEF Workers
    <2>3. ASSUME NEW m \in Messages \ new
          PROVE  rows'[m] + Cardinality(Writers(m)') <= 1 + claims'[m]
        <3>1. \A c \in Consumers : m \in batch'[c] => c # w /\ m \in batch[c]
            BY <2>1, <2>2 DEF TypeOK
        <3>2. \A c \in Consumers : c # w =>
                    batch'[c] = batch[c] /\ phase'[c] = phase[c]
            BY <2>1 DEF TypeOK
        <3>3. w \notin Writers(m)
            BY <1>3 DEF Read, Writers
        <3>4. Writers(m)' = Writers(m)
            BY <3>1, <3>2, <3>3 DEF Writers
        <3> QED
            BY <2>1, <3>4 DEF CopiesInv
    <2>4. ASSUME NEW m \in new
          PROVE  rows'[m] + Cardinality(Writers(m)') <= 1 + claims'[m]
        <3>1. m \in Messages /\ m \notin Delivered
            BY <2>2, FreshSubset
        <3>2. \A c \in Consumers : m \notin batch[c]
            BY <3>1 DEF DeliveryInv
        <3>3. Writers(m)' \subseteq {w}
            BY <2>1, <3>2 DEF Writers, TypeOK
        <3>4. Cardinality(Writers(m)') <= 1 /\ Cardinality(Writers(m)') \in Nat
            <4>1. IsFiniteSet({w}) /\ Cardinality({w}) = 1
                BY FS_Singleton
            <4>2. IsFiniteSet(Writers(m)')
                BY <3>3, <4>1, FS_Subset
            <4> QED
                BY <3>3, <4>1, <4>2, FS_Subset, FS_CardinalityType
        <3>5. rows[m] = 0
            BY <3>1 DEF DeliveryInv, TypeOK
        <3>6. claims[m] \in Nat
            BY <3>1 DEF TypeOK
        <3> QED
            BY <2>1, <3>4, <3>5, <3>6
    <2> QED
        BY <2>1, <2>3, <2>4 DEF CopiesInv
<1>4. ASSUME NEW w \in Workers, ReadNothing(w) PROVE CopiesInv'
    BY <1>4, FewerWriters DEF ReadNothing, LoopTop, Writers, TypeOK
<1>5. ASSUME NEW c \in Consumers, Write(c) PROVE CopiesInv'
    <2>1. /\ phase[c] = "write"
          /\ phase' = [phase EXCEPT ![c] = "ack"]
          /\ rows' = [m \in Messages |->
                        IF m \in batch[c] THEN rows[m] + 1 ELSE rows[m]]
          /\ UNCHANGED <<batch, claims>>
        BY <1>5 DEF Write
    <2>2. ASSUME NEW m \in Messages
          PROVE  rows'[m] + Cardinality(Writers(m)') <= 1 + claims'[m]
        <3>1. Writers(m)' = Writers(m) \ {c}
            BY <2>1 DEF Writers, TypeOK
        <3>2. c \in Writers(m) <=> m \in batch[c]
            BY <2>1 DEF Writers
        <3>3. Cardinality(Writers(m)') =
                IF m \in batch[c] THEN Cardinality(Writers(m)) - 1
                                  ELSE Cardinality(Writers(m))
            BY <3>1, <3>2, WritersFinite, FS_RemoveElement
        <3>4. /\ rows[m] \in Nat /\ claims[m] \in Nat
              /\ Cardinality(Writers(m)) \in Nat
            BY WritersFinite DEF TypeOK
        <3>5. rows'[m] = IF m \in batch[c] THEN rows[m] + 1 ELSE rows[m]
            BY <2>1
        <3> QED
            BY <2>1, <3>3, <3>4, <3>5 DEF CopiesInv
    <2> QED
        BY <2>1, <2>2 DEF CopiesInv
<1>6. ASSUME NEW w \in Workers, Ack(w) PROVE CopiesInv'
    BY <1>6, FewerWriters DEF Ack, LoopTop, Writers, TypeOK
<1>7. ASSUME NEW w \in Workers, Signal(w) PROVE CopiesInv'
    BY <1>7, FewerWriters DEF Signal, Writers
<1>8. ASSUME NEW c \in Consumers, Crash(c) PROVE CopiesInv'
    BY <1>8, FewerWriters DEF Crash, Writers, TypeOK
<1>9. ASSUME NEW r \in Recoverers, Claim(r) PROVE CopiesInv'
    <2> DEFINE taken == Claimable(Stale, ClaimBatch)
    <2>1. /\ phase[r] = "down"
          /\ phase' = [phase EXCEPT ![r] = "write"]
          /\ batch' = [batch EXCEPT ![r] = taken]
          /\ claims' = [m \in Messages |->
                          IF m \in taken THEN claims[m] + 1 ELSE claims[m]]
          /\ UNCHANGED rows
        BY <1>9 DEF Claim
    <2>2. ASSUME NEW m \in Messages
          PROVE  rows'[m] + Cardinality(Writers(m)') <= 1 + claims'[m]
        <3>1. r \notin Writers(m)
            BY <2>1 DEF Writers
        <3>2. Writers(m)' = IF m \in taken THEN Writers(m) \cup {r} ELSE Writers(m)
            BY <2>1, <3>1 DEF Writers, TypeOK
        <3>3. Cardinality(Writers(m)') =
                IF m \in taken THEN Cardinality(Writers(m)) + 1
                               ELSE Cardinality(Writers(m))
            BY <3>1, <3>2, WritersFinite, FS_AddElement
        <3>4. /\ rows[m] \in Nat /\ claims[m] \in Nat
              /\ Cardinality(Writers(m)) \in Nat
            BY WritersFinite DEF TypeOK
        <3>5. claims'[m] = IF m \in taken THEN claims[m] + 1 ELSE claims[m]
            BY <2>1
        <3> QED
            BY <2>1, <3>3, <3>4, <3>5 DEF CopiesInv
    <2> QED
        BY <2>2 DEF CopiesInv
<1>10. ASSUME NEW r \in Recoverers, AckClaimed(r) PROVE CopiesInv'
    BY <1>10, FewerWriters DEF AckClaimed, Writers, TypeOK
<1>11. CASE UNCHANGED vars
    BY <1>11, FewerWriters DEF vars, Writers
<1> QED
    BY <1>1, <1>2, <1>3, <1>4, <1>5, <1>6, <1>7, <1>8, <1>9, <1>10, <1>11
       DEF Next, WorkerStep, RecovererStep, Workers

(* The conjunction that the remaining theorems start from. *)
THEOREM Invariance == Spec => [](TypeOK /\ DeliveryInv /\ CopiesInv)
<1> DEFINE Inv == TypeOK /\ DeliveryInv /\ CopiesInv
<1>1. Init => Inv
    BY TypeInit, DeliveryInit, CopiesInit
<1>2. Inv /\ [Next]_vars => Inv'
    BY TypeStep, DeliveryStep, CopiesStep
<1> QED
    BY <1>1, <1>2, PTL DEF Spec

(* What is delivered, in hand, stored and pending stays in step, through   *)
(* every crash, restart, signal and reclaim.                               *)
THEOREM DeliveryIsConsistent == Spec => []DeliveryInv
BY Invariance, PTL

(* The rows of a tick and the batches that will still add one are paid for *)
(* by its first delivery and the times it was reclaimed.                   *)
THEOREM CopiesAreAccounted == Spec => []CopiesInv
BY Invariance, PTL

LEMMA CopiesImplied == TypeOK /\ CopiesInv => CopiesBounded
<1> SUFFICES ASSUME TypeOK, CopiesInv, NEW m \in Messages
             PROVE  rows[m] <= 1 + claims[m]
    BY DEF CopiesBounded
<1>1. /\ rows[m] \in Nat /\ claims[m] \in Nat
      /\ Cardinality(Writers(m)) \in Nat
    BY WritersFinite DEF TypeOK
<1> QED
    BY <1>1 DEF CopiesInv

(* A tick has at most one row more than it was reclaimed. *)
THEOREM CopiesAreBounded == Spec => []CopiesBounded
BY CopiesImplied, Invariance, PTL

-----------------------------------------------------------------------------
(* The pool implements TickDelivery. *)

LEMMA DeliveryRefinesInit == Init => Delivery!Init
BY DEF Init, GroupInit, Delivery!Init, Delivery!Ticks, Settled, Delivered, Pending,
       NoGroup, Messages

(* A step that changes neither the stream, nor the table, nor what is      *)
(* settled is a stutter of TickDelivery.                                   *)
LEMMA DeliveryStutters ==
    ASSUME UNCHANGED <<published, rows>>, Delivered' \ Pending' = Settled
    PROVE  [Delivery!Next]_(Delivery!vars)
BY DEF Delivery!vars, Settled

LEMMA SettleStep ==
    ASSUME TypeOK, DeliveryInv, NEW c \in Consumers, phase[c] = "ack",
           XAck(batch[c]), UNCHANGED <<published, cursor, rows>>
    PROVE  [Delivery!Next]_(Delivery!vars)
<1>1. Pending' = Pending \ batch[c]
    BY AckTakesFromPending DEF TypeOK
<1>2. Delivered' = Delivered
    BY DEF Delivered
<1>3. batch[c] \subseteq Delivered /\ \A m \in batch[c] : rows[m] > 0
    BY DEF DeliveryInv
<1>4. Settled' = Settled \cup batch[c]
    BY <1>1, <1>2, <1>3 DEF Settled
<1>5. batch[c] \in SUBSET {m \in Messages : rows[m] > 0}
    BY <1>3 DEF TypeOK
<1>6. Delivery!Settle
    BY <1>4, <1>5 DEF Delivery!Settle, Delivery!Ticks, Messages
<1> QED
    BY <1>6 DEF Delivery!Next

LEMMA StoreStep ==
    ASSUME TypeOK, DeliveryInv, CopiesInv, NEW c \in Consumers, Write(c)
    PROVE  [Delivery!Next]_(Delivery!vars)
<1>1. /\ phase[c] = "write"
      /\ UNCHANGED <<published, cursor, owner>>
      /\ rows' = [m \in Messages |->
                    IF m \in batch[c] THEN rows[m] + 1 ELSE rows[m]]
    BY DEF Write, groupVars
<1>2. batch[c] \subseteq Delivered
    BY DEF DeliveryInv
<1>3. batch[c] \in SUBSET (1 .. published)
    BY <1>2 DEF Delivered, DeliveryInv, TypeOK, GroupTypeOK, NoGroup, Messages
<1>4. ASSUME Recoverers = {}, NEW m \in batch[c] PROVE rows[m] = 0
    <2>1. m \in Messages
        BY <1>2 DEF Delivered
    <2>2. c \in Writers(m)
        BY <1>1 DEF Writers
    <2>3. Cardinality(Writers(m)) \in Nat /\ Cardinality(Writers(m)) # 0
        BY <2>2, WritersFinite, FS_EmptySet
    <2>4. rows[m] \in Nat /\ claims[m] = 0
        BY <1>4, <2>1 DEF TypeOK, CopiesInv
    <2> QED
        BY <2>1, <2>3, <2>4 DEF CopiesInv
<1>5. Settled' = Settled
    BY <1>1 DEF Settled, Delivered, Pending
<1>6. Delivery!Store
    BY <1>1, <1>3, <1>4, <1>5 DEF Delivery!Store, Delivery!Ticks, Messages
<1> QED
    BY <1>6 DEF Delivery!Next

LEMMA DeliveryRefinesStep ==
    TypeOK /\ DeliveryInv /\ CopiesInv /\ [Next]_vars
        => [Delivery!Next]_(Delivery!vars)
<1> SUFFICES ASSUME TypeOK, DeliveryInv, CopiesInv, [Next]_vars
             PROVE  [Delivery!Next]_(Delivery!vars)
    OBVIOUS
<1> USE DEF groupVars, loopVars
<1>1. CASE Publish
    <2>1. PICK n \in 1 .. PublishBatch : XAdd(n)
        BY <1>1 DEF Publish
    <2>2. published' \in (published + 1) .. MaxPublished
        BY <2>1 DEF XAdd, TypeOK, GroupTypeOK
    <2>3. UNCHANGED rows /\ Settled' = Settled
        BY <1>1 DEF Publish, Settled, Delivered, Pending
    <2> QED
        BY <2>2, <2>3 DEF Delivery!Publish, Delivery!Next
<1>2. ASSUME NEW w \in Workers, Start(w) PROVE [Delivery!Next]_(Delivery!vars)
    <2>1. Delivered' = Delivered
        BY <1>2 DEF Start, CreateGroup, Delivered, NoGroup, Messages
    <2>2. Pending' = Pending /\ UNCHANGED <<published, rows>>
        BY <1>2 DEF Start, Pending
    <2> QED
        BY <2>1, <2>2, DeliveryStutters DEF Settled
<1>3. ASSUME NEW w \in Workers, Read(w) PROVE [Delivery!Next]_(Delivery!vars)
    <2>1. ReadGroup(w, ReadBatch) /\ UNCHANGED <<published, rows>>
        BY <1>3 DEF Read
    <2>2. /\ Delivered' = Delivered \cup Fresh(ReadBatch)
          /\ Delivered \cap Fresh(ReadBatch) = {}
          /\ Pending' = Pending \cup Fresh(ReadBatch)
        BY <2>1, ReadDelivers DEF Workers
    <2> QED
        BY <2>1, <2>2, DeliveryStutters DEF Settled
<1>4. ASSUME NEW w \in Workers, ReadNothing(w)
      PROVE  [Delivery!Next]_(Delivery!vars)
    BY <1>4, DeliveryStutters DEF ReadNothing, Settled, Delivered, Pending
<1>5. ASSUME NEW c \in Consumers, Write(c) PROVE [Delivery!Next]_(Delivery!vars)
    BY <1>5, StoreStep
<1>6. ASSUME NEW w \in Workers, Ack(w) PROVE [Delivery!Next]_(Delivery!vars)
    BY <1>6, SettleStep DEF Ack, Workers
<1>7. ASSUME NEW w \in Workers, Signal(w) PROVE [Delivery!Next]_(Delivery!vars)
    BY <1>7, DeliveryStutters DEF Signal, Settled, Delivered, Pending
<1>8. ASSUME NEW c \in Consumers, Crash(c) PROVE [Delivery!Next]_(Delivery!vars)
    BY <1>8, DeliveryStutters DEF Crash, Settled, Delivered, Pending
<1>9. ASSUME NEW r \in Recoverers, Claim(r) PROVE [Delivery!Next]_(Delivery!vars)
    <2>1. /\ XAutoClaim(r, Stale, ClaimBatch)
          /\ UNCHANGED <<published, cursor, rows>>
        BY <1>9 DEF Claim
    <2>2. Pending' = Pending
        BY <2>1, ClaimTakesPending
    <2> QED
        BY <2>1, <2>2, DeliveryStutters DEF Settled, Delivered
<1>10. ASSUME NEW r \in Recoverers, AckClaimed(r)
       PROVE  [Delivery!Next]_(Delivery!vars)
    BY <1>10, SettleStep DEF AckClaimed
<1>11. CASE UNCHANGED vars
    BY <1>11, DeliveryStutters DEF vars, Settled, Delivered, Pending
<1> QED
    BY <1>1, <1>2, <1>3, <1>4, <1>5, <1>6, <1>7, <1>8, <1>9, <1>10, <1>11
       DEF Next, WorkerStep, RecovererStep, Workers

(* Every behaviour of the workers is one of TickDelivery: a tick is stored *)
(* before it is settled, and once only when nobody reclaims.               *)
THEOREM WorkersImplementDelivery == Spec => ImplementsDelivery
<1>1. Init => Delivery!Init
    BY DeliveryRefinesInit
<1>2. TypeOK /\ DeliveryInv /\ CopiesInv /\ [Next]_vars
        => [Delivery!Next]_(Delivery!vars)
    BY DeliveryRefinesStep
<1> QED
    BY <1>1, <1>2, Invariance, PTL DEF Spec, ImplementsDelivery, Delivery!Spec

-----------------------------------------------------------------------------
(* The cap on the messages of a worker. *)

(* As many elements of a finite set as there are numbers below them. *)
LEMMA FirstIsBounded ==
    ASSUME NEW S \in SUBSET Messages, NEW n \in Nat
    PROVE  Cardinality(First(S, n)) <= n
<1> DEFINE Below(m) == {k \in S : k < m}
           rank == [m \in First(S, n) |-> Cardinality(Below(m))]
<1>1. ASSUME NEW m \in S PROVE /\ Below(m) \in SUBSET Messages /\ IsFiniteSet(Below(m))
                               /\ Cardinality(Below(m)) \in Nat
    <2>1. Below(m) \in SUBSET Messages
        OBVIOUS
    <2> QED
        BY <2>1, SubsetsFinite
<1>2. ASSUME NEW k \in S, NEW m \in S, k < m
      PROVE  Cardinality(Below(k)) < Cardinality(Below(m))
    <2>1. k \in Int /\ m \in Int /\ \A j \in S : j \in Int
        BY DEF Messages
    <2>2. Below(k) \in SUBSET Below(m) /\ k \in Below(m) /\ k \notin Below(k)
        <3>1. \A j \in S : j < k => j < m
            BY <1>2, <2>1
        <3>2. ~(k < k)
            BY <2>1
        <3> QED
            BY <1>2, <3>1, <3>2
    <2>3. /\ Cardinality(Below(k)) <= Cardinality(Below(m))
          /\ Cardinality(Below(k)) # Cardinality(Below(m))
        BY <1>1, <2>2, FS_Subset
    <2>4. Cardinality(Below(k)) \in Nat /\ Cardinality(Below(m)) \in Nat
        BY <1>1
    <2> QED
        BY <2>3, <2>4
<1>3. \A m \in First(S, n) : m \in S /\ Cardinality(Below(m)) < n
    BY DEF First
<1>4. \A m \in First(S, n) : Cardinality(Below(m)) \in 0 .. n - 1
    BY <1>1, <1>3
<1>5. ASSUME NEW k \in First(S, n), NEW m \in First(S, n),
             Cardinality(Below(k)) = Cardinality(Below(m))
      PROVE  k = m
    <2>1. k \in S /\ m \in S
        BY FirstSubset
    <2>2. Cardinality(Below(k)) \in Nat /\ Cardinality(Below(m)) \in Nat
        BY <1>1, <2>1
    <2>3. ~(k < m) /\ ~(m < k)
        BY <1>2, <1>5, <2>1, <2>2
    <2>4. k \in Int /\ m \in Int
        BY <2>1 DEF Messages
    <2> QED
        BY <2>3, <2>4
<1> HIDE DEF Below
<1>6. rank \in Injection(First(S, n), 0 .. n - 1)
    BY <1>4, <1>5 DEF Injection, IsInjective
<1>7. /\ IsFiniteSet(0 .. n - 1)
      /\ Cardinality(0 .. n - 1) = n
    BY FS_Interval
<1> QED
    BY <1>6, <1>7, FS_Injection

(* The least element is always among the first. *)
LEMMA FirstIsNonempty ==
    ASSUME NEW S \in SUBSET Messages, S # {}, NEW n \in Nat \ {0}
    PROVE  First(S, n) # {}
<1> DEFINE R == {ss \in Nat \X Nat : ss[1] < ss[2]}
<1>1. R = OpToRel(<, Nat)
    BY DEF OpToRel
<1>2. IsWellFoundedOn(R, Nat)
    BY <1>1, NatLessThanWellFounded
<1>3. S \subseteq Nat
    BY DEF Messages
<1> HIDE DEF R
<1>4. PICK x \in S : \A y \in S : ~(<<y, x>> \in R)
    BY <1>2, <1>3, WFMin
<1>5. ASSUME NEW y \in S PROVE ~(y < x)
    <2>1. <<y, x>> \in Nat \X Nat /\ <<y, x>>[1] = y /\ <<y, x>>[2] = x
        BY <1>3
    <2> QED
        BY <1>4, <2>1 DEF R
<1>6. {k \in S : k < x} = {}
    BY <1>5
<1>7. Cardinality({k \in S : k < x}) = 0
    BY <1>6, FS_EmptySet
<1>8. x \in First(S, n)
    BY <1>7 DEF First
<1> QED
    BY <1>8

(* A worker with a cap reads only while it is below it, never cuts a batch *)
(* to nothing, and what it has in hand fits.                               *)
CapInv ==
    MaxMessages # None /\ MaxMessages # 0 =>
        \A w \in Workers :
            /\ processed[w] + Cardinality(batch[w]) <= MaxMessages
            /\ phase[w] = "read" => processed[w] < MaxMessages
            /\ phase[w] \in {"write", "ack"} => batch[w] # {}
            /\ phase[w] = "crashed" => crashes > 0

LEMMA CapStep == TypeOK /\ DeliveryInv /\ CapInv /\ [Next]_vars => CapInv'
<1> SUFFICES ASSUME TypeOK, DeliveryInv, CapInv, [Next]_vars,
                    MaxMessages # None, MaxMessages # 0,
                    NEW v \in Workers
             PROVE  /\ processed'[v] + Cardinality(batch'[v]) <= MaxMessages
                    /\ phase'[v] = "read" => processed'[v] < MaxMessages
                    /\ phase'[v] \in {"write", "ack"} => batch'[v] # {}
                    /\ phase'[v] = "crashed" => crashes' > 0
    BY DEF CapInv
<1> DEFINE Goal == /\ processed'[v] + Cardinality(batch'[v]) <= MaxMessages
                   /\ phase'[v] = "read" => processed'[v] < MaxMessages
                   /\ phase'[v] \in {"write", "ack"} => batch'[v] # {}
                   /\ phase'[v] = "crashed" => crashes' > 0
<1> USE DEF Workers
<1>1. /\ processed[v] + Cardinality(batch[v]) <= MaxMessages
      /\ phase[v] = "read" => processed[v] < MaxMessages
      /\ phase[v] \in {"write", "ack"} => batch[v] # {}
      /\ phase[v] = "crashed" => crashes > 0
    BY DEF CapInv
<1>2. /\ MaxMessages \in Nat \ {0} /\ v \in Consumers /\ v \notin Recoverers
      /\ processed[v] \in Nat /\ Cardinality(batch[v]) \in Nat /\ crashes \in Nat
      /\ batch[v] \subseteq Messages
    BY SubsetsFinite DEF TypeOK
<1>3. phase[v] \notin {"write", "ack"} => batch[v] = {} /\ Cardinality(batch[v]) = 0
    BY <1>2, FS_EmptySet DEF DeliveryInv
<1>4. CASE /\ processed'[v] = processed[v] /\ batch'[v] = batch[v] /\ phase'[v] = phase[v]
           /\ crashes' \in {crashes, crashes + 1}
    BY <1>1, <1>2, <1>4
<1>5. CASE Publish
    BY <1>4, <1>5 DEF Publish, loopVars
<1>6. ASSUME NEW w \in Workers, WorkerStep(w), w # v PROVE Goal
    BY <1>2, <1>4, <1>6 DEF WorkerStep, Start, Read, ReadNothing, Write, Ack, Signal, Crash,
                            loopVars, TypeOK
<1>7. ASSUME NEW r \in Recoverers, RecovererStep(r) PROVE Goal
    BY <1>2, <1>4, <1>7 DEF RecovererStep, Claim, Write, AckClaimed, Crash, loopVars, TypeOK
<1>8. CASE Start(v)
    <2>1. /\ phase[v] \in {"down", "stopped", "crashed"}
          /\ processed'[v] = 0 /\ phase'[v] = "read" /\ batch' = batch
        BY <1>2, <1>8 DEF Start, TypeOK
    <2>2. Cardinality(batch'[v]) = 0
        BY <1>3, <2>1
    <2> QED
        BY <1>2, <2>1, <2>2
<1>9. CASE Read(v)
    <2> DEFINE S == Fresh(ReadBatch)
    <2>1. /\ phase[v] = "read" /\ S # {} /\ UNCHANGED processed
          /\ batch'[v] = Capped(v, S) /\ phase'[v] = "write"
        BY <1>2, <1>9 DEF Read, ReadGroup, TypeOK
    <2>2. S \in SUBSET Messages
        BY FreshSubset
    <2>3. Cardinality(S) \in Nat
        BY <2>2, SubsetsFinite
    <2> HIDE DEF S
    <2>4. MaxMessages - processed[v] \in Nat \ {0}
        BY <1>1, <1>2, <2>1
    <2>5. /\ Cardinality(First(S, MaxMessages - processed[v])) <= MaxMessages - processed[v]
          /\ First(S, MaxMessages - processed[v]) # {}
          /\ Cardinality(First(S, MaxMessages - processed[v])) \in Nat
        <3>1. First(S, MaxMessages - processed[v]) \in SUBSET Messages
            BY <2>2, FirstSubset
        <3> QED
            BY <2>1, <2>2, <2>4, <3>1, FirstIsBounded, FirstIsNonempty, SubsetsFinite
    <2>6. Capped(v, S) # {} /\ processed[v] + Cardinality(Capped(v, S)) <= MaxMessages
        BY <1>2, <2>1, <2>3, <2>5 DEF Capped
    <2> QED
        BY <2>1, <2>6
<1>10. CASE ReadNothing(v)
    <2>1. /\ phase[v] = "read" /\ phase'[v] \in {"read", "stopped"}
          /\ UNCHANGED <<processed, batch>>
        BY <1>2, <1>10 DEF ReadNothing, LoopTop, TypeOK
    <2> QED
        BY <1>1, <2>1
<1>11. CASE Write(v)
    <2>1. phase[v] = "write" /\ phase'[v] = "ack" /\ UNCHANGED <<processed, batch>>
        BY <1>2, <1>11 DEF Write, TypeOK
    <2> QED
        BY <1>1, <2>1
<1>12. CASE Ack(v)
    <2> DEFINE total == processed[v] + Cardinality(batch[v])
    <2>1. /\ processed'[v] = total /\ batch'[v] = {} /\ batch[v] # {}
          /\ phase'[v] \in {"read", "stopped"}
          /\ phase'[v] = "read" => ~(total >= MaxMessages)
        BY <1>1, <1>2, <1>12 DEF Ack, LoopTop, TypeOK
    <2>2. total \in Nat /\ total <= MaxMessages /\ Cardinality(batch'[v]) = 0
        BY <1>1, <1>2, <2>1, FS_EmptySet
    <2> QED
        BY <1>2, <2>1, <2>2
<1>13. CASE Signal(v)
    BY <1>4, <1>13 DEF Signal
<1>14. CASE Crash(v)
    <2>1. /\ phase'[v] = "crashed" /\ batch'[v] = {} /\ UNCHANGED processed
          /\ crashes' = crashes + 1
        BY <1>2, <1>14 DEF Crash, TypeOK
    <2>2. Cardinality(batch'[v]) = 0
        BY <2>1, FS_EmptySet
    <2> QED
        BY <1>1, <1>2, <2>1, <2>2
<1>15. CASE UNCHANGED vars
    BY <1>4, <1>15 DEF vars, loopVars
<1>16. ASSUME NEW w \in Workers, WorkerStep(w) PROVE Goal
    BY <1>6, <1>8, <1>9, <1>10, <1>11, <1>12, <1>13, <1>14, <1>16 DEF WorkerStep
<1> QED
    BY <1>5, <1>7, <1>15, <1>16 DEF Next

(* A worker with a cap never writes more than the cap, and the empty batch *)
(* whose log line would raise never comes up: only a crash ends it early.  *)
THEOREM CapIsKept == Spec => []CapKept
<1>1. Init => CapInv
    BY FS_EmptySet DEF Init, CapInv, Workers
<1>2. TypeOK /\ DeliveryInv /\ CapInv /\ [Next]_vars => CapInv'
    BY CapStep
<1>3. TypeOK /\ CapInv => CapKept
    <2> SUFFICES ASSUME TypeOK, CapInv, MaxMessages # None, MaxMessages # 0, NEW w \in Workers
                 PROVE  /\ processed[w] <= MaxMessages
                        /\ phase[w] = "crashed" => crashes > 0
        BY DEF CapKept
    <2>1. processed[w] \in Nat /\ Cardinality(batch[w]) \in Nat /\ MaxMessages \in Nat
        BY SubsetsFinite DEF TypeOK, Workers
    <2> QED
        BY <2>1 DEF CapInv
<1> QED
    BY <1>1, <1>2, <1>3, Invariance, PTL DEF Spec

-----------------------------------------------------------------------------
(* What is left in the pending list. *)

LEMMA StrandStep ==
    TypeOK /\ DeliveryInv /\ OnlyCrashOrCapStrands /\ [Next]_vars => OnlyCrashOrCapStrands'
<1> SUFFICES ASSUME TypeOK, TypeOK', DeliveryInv, OnlyCrashOrCapStrands, [Next]_vars,
                    crashes' = 0, MaxMessages = None,
                    NEW m \in Messages, owner'[m] # NoOwner
             PROVE  m \in batch'[owner'[m]]
    BY TypeStep DEF OnlyCrashOrCapStrands, Abandoned, Pending, TypeOK
<1>1. crashes = 0
    BY DEF Next, Publish, WorkerStep, RecovererStep, Start, Read, ReadNothing, Write, Ack, Signal,
           Crash, Claim, AckClaimed, TypeOK, vars
<1>2. owner[m] # NoOwner => m \in batch[owner[m]] /\ owner[m] \in Consumers
    BY <1>1 DEF OnlyCrashOrCapStrands, Abandoned, Pending, TypeOK, GroupTypeOK
<1>3. CASE UNCHANGED <<owner, batch>>
    BY <1>2, <1>3
<1>4. ASSUME NEW w \in Workers, Read(w) PROVE m \in batch'[owner'[m]]
    <2>1. /\ owner' = [k \in Messages |-> IF k \in Fresh(ReadBatch) THEN w ELSE owner[k]]
          /\ batch' = [batch EXCEPT ![w] = Fresh(ReadBatch)]
          /\ phase[w] = "read"
        BY <1>4 DEF Read, ReadGroup, Capped
    <2>2. batch[w] = {} /\ w \in Consumers
        BY <2>1 DEF DeliveryInv, Workers
    <2> QED
        BY <1>2, <2>1, <2>2 DEF TypeOK
<1>5. ASSUME NEW r \in Recoverers, Claim(r) PROVE m \in batch'[owner'[m]]
    <2> DEFINE taken == Claimable(Stale, ClaimBatch)
    <2>1. /\ owner' = [k \in Messages |-> IF k \in taken THEN r ELSE owner[k]]
          /\ batch' = [batch EXCEPT ![r] = taken]
          /\ phase[r] = "down"
        BY <1>5 DEF Claim, XAutoClaim
    <2> HIDE DEF taken
    <2>2. batch[r] = {} /\ r \in Consumers
        BY <2>1 DEF DeliveryInv
    <2> QED
        BY <1>2, <2>1, <2>2 DEF TypeOK
<1>6. ASSUME NEW c \in Consumers, XAck(batch[c]), batch' = [batch EXCEPT ![c] = {}]
      PROVE  m \in batch'[owner'[m]]
    BY <1>2, <1>6 DEF XAck, TypeOK
<1>7. ASSUME NEW w \in Workers, WorkerStep(w) PROVE m \in batch'[owner'[m]]
    <2>1. ~Crash(w)
        BY <1>1 DEF Crash, TypeOK
    <2>2. CASE Ack(w)
        BY <1>6, <2>2 DEF Ack, Workers
    <2>3. CASE Start(w) \/ ReadNothing(w) \/ Write(w) \/ Signal(w)
        BY <1>3, <2>3 DEF Start, ReadNothing, Write, Signal, groupVars
    <2> QED
        BY <1>4, <1>7, <2>1, <2>2, <2>3 DEF WorkerStep
<1>8. ASSUME NEW r \in Recoverers, RecovererStep(r) PROVE m \in batch'[owner'[m]]
    <2>1. ~Crash(r)
        BY <1>1 DEF Crash, TypeOK
    <2>2. CASE AckClaimed(r)
        BY <1>6, <2>2 DEF AckClaimed
    <2>3. CASE Write(r)
        BY <1>3, <2>3 DEF Write, groupVars
    <2> QED
        BY <1>5, <1>8, <2>1, <2>2, <2>3 DEF RecovererStep
<1>9. CASE Publish \/ UNCHANGED vars
    BY <1>3, <1>9 DEF Publish, vars, loopVars, groupVars
<1> QED
    BY <1>7, <1>8, <1>9 DEF Next

(* Signals, idle stops and slow siblings strand nothing: an entry that is  *)
(* pending and in nobody's hands is the mark of a crash or of the cap.     *)
THEOREM NothingElseStrands == Spec => []OnlyCrashOrCapStrands
<1>1. Init => OnlyCrashOrCapStrands
    BY DEF Init, GroupInit, OnlyCrashOrCapStrands, Abandoned, Pending
<1>2. TypeOK /\ DeliveryInv /\ OnlyCrashOrCapStrands /\ [Next]_vars => OnlyCrashOrCapStrands'
    BY StrandStep
<1> QED
    BY <1>1, <1>2, Invariance, PTL DEF Spec

-----------------------------------------------------------------------------
(* The counts of the pool. *)

(* A worker that was never started has done nothing, and one that was has  *)
(* found or made the group.                                                *)
StartInv ==
    \A w \in Workers :
        /\ runs[w] = 0 => phase[w] = "down" /\ processed[w] = 0
        /\ runs[w] > 0 => cursor # NoGroup

LEMMA StartStep == TypeOK /\ StartInv /\ [Next]_vars => StartInv'
<1> SUFFICES ASSUME TypeOK, StartInv, [Next]_vars, NEW v \in Workers
             PROVE  /\ runs'[v] = 0 => phase'[v] = "down" /\ processed'[v] = 0
                    /\ runs'[v] > 0 => cursor' # NoGroup
    BY DEF StartInv, Workers
<1> DEFINE Goal == /\ runs'[v] = 0 => phase'[v] = "down" /\ processed'[v] = 0
                   /\ runs'[v] > 0 => cursor' # NoGroup
<1> USE DEF Workers
<1>1. /\ runs[v] = 0 => phase[v] = "down" /\ processed[v] = 0
      /\ runs[v] > 0 => cursor # NoGroup
      /\ runs[v] \in Nat /\ v \in Consumers /\ v \notin Recoverers
    BY DEF StartInv, TypeOK
<1>2. cursor # NoGroup => cursor' # NoGroup
    <2>1. ASSUME NEW w, ReadGroup(w, ReadBatch) PROVE cursor' # NoGroup
        BY <2>1 DEF ReadGroup, NoGroup, TypeOK, GroupTypeOK
    <2> QED
        BY <2>1 DEF Next, Publish, WorkerStep, RecovererStep, Start, CreateGroup, Read, ReadNothing,
                    Write, Ack, Signal, Crash, Claim, AckClaimed, NoGroup, groupVars, vars
<1>3. CASE UNCHANGED <<runs, phase, processed>>
    BY <1>1, <1>2, <1>3
<1>4. ASSUME NEW w \in Workers, WorkerStep(w), w # v PROVE Goal
    <2>1. UNCHANGED <<runs[v], phase[v], processed[v]>>
        BY <1>1, <1>4 DEF WorkerStep, Start, Read, ReadNothing, Write, Ack, Signal, Crash,
                          loopVars, TypeOK
    <2> QED
        BY <1>1, <1>2, <2>1
<1>5. ASSUME NEW r \in Recoverers, RecovererStep(r) PROVE Goal
    <2>1. UNCHANGED <<runs[v], phase[v], processed[v]>>
        BY <1>1, <1>5 DEF RecovererStep, Claim, Write, AckClaimed, Crash, loopVars, TypeOK
    <2> QED
        BY <1>1, <1>2, <2>1
<1>6. CASE Start(v)
    BY <1>1, <1>6 DEF Start, CreateGroup, NoGroup, TypeOK
<1>7. ASSUME Read(v) \/ ReadNothing(v) \/ Write(v) \/ Ack(v) \/ Signal(v) \/ Crash(v) PROVE Goal
    <2>1. runs' = runs /\ phase[v] # "down"
        BY <1>7 DEF Read, ReadNothing, Write, Ack, Signal, Crash, InLoop
    <2> QED
        BY <1>1, <1>2, <2>1
<1>8. CASE Publish \/ UNCHANGED vars
    BY <1>3, <1>8 DEF Publish, vars, loopVars
<1> QED
    BY <1>4, <1>5, <1>6, <1>7, <1>8 DEF Next, WorkerStep

(* What a worker counted, with the batch it has written and not yet        *)
(* acknowledged.                                                           *)
Stored == [c \in Consumers |->
              IF phase[c] = "ack" THEN processed[c] + Cardinality(batch[c]) ELSE processed[c]]

(* While nobody died, ran twice or reclaims, the rows are what the workers *)
(* stored.                                                                 *)
FirstRuns == Recoverers = {} /\ crashes = 0 /\ \A w \in Workers : runs[w] <= 1

TotalsInv == FirstRuns => SumFunction(rows) = SumFunction(Stored)

LEMMA TotalsInit == Init => TotalsInv
<1> SUFFICES ASSUME Init PROVE SumFunction(rows) = SumFunction(Stored)
    BY DEF TotalsInv
<1>1. IsFiniteSet(Messages)
    BY FS_Interval DEF Messages
<1>2. /\ \A m \in Messages : rows[m] = 0
      /\ \A c \in Consumers : Stored[c] = 0
      /\ DOMAIN rows = Messages /\ DOMAIN Stored = Consumers
    BY DEF Init, Stored
<1>3. SumFunctionOnSet(rows, Messages) = 0
    BY <1>1, <1>2, SumOfZeros
<1>4. SumFunctionOnSet(Stored, Consumers) = 0
    BY <1>2, SumOfZeros
<1> QED
    BY <1>2, <1>3, <1>4 DEF SumFunction

LEMMA TotalsStep ==
    TypeOK /\ DeliveryInv /\ StartInv /\ TotalsInv /\ [Next]_vars => TotalsInv'
<1> SUFFICES ASSUME TypeOK, TypeOK', DeliveryInv, StartInv, TotalsInv, [Next]_vars, FirstRuns'
             PROVE  SumFunction(rows)' = SumFunction(Stored)'
    BY TypeStep DEF TotalsInv
<1>1. Recoverers = {} /\ crashes' = 0 /\ crashes = 0 /\ Workers = Consumers
    BY DEF FirstRuns, Next, Publish, WorkerStep, RecovererStep, Start, Read, ReadNothing, Write, Ack,
           Signal, Crash, Claim, AckClaimed, TypeOK, Workers, vars
<1>2. \A w \in Workers : runs[w] <= 1
    <2>1. \A w \in Workers : runs[w] <= runs'[w] /\ runs[w] \in Nat /\ runs'[w] \in Nat
        BY <1>1 DEF Next, Publish, WorkerStep, RecovererStep, Start, Read, ReadNothing, Write, Ack,
           Signal, Crash, TypeOK, Workers, vars
    <2> QED
        BY <2>1 DEF FirstRuns
<1>3. SumFunction(rows) = SumFunction(Stored)
    BY <1>1, <1>2 DEF TotalsInv, FirstRuns
<1>4. CASE rows' = rows /\ Stored' = Stored
    BY <1>3, <1>4 DEF SumFunction
<1>5. ASSUME NEW w \in Workers, Start(w) PROVE rows' = rows /\ Stored' = Stored
    <2>1. runs[w] = 0
        BY <1>5 DEF Start, TypeOK, FirstRuns, Workers
    <2>2. processed[w] = 0 /\ phase[w] = "down" /\ w \in Consumers
        BY <2>1 DEF StartInv, Workers
    <2>3. /\ processed' = [processed EXCEPT ![w] = 0] /\ phase' = [phase EXCEPT ![w] = "read"]
          /\ batch' = batch /\ rows' = rows
        BY <1>5 DEF Start
    <2>4. processed' = processed
        BY <2>2, <2>3 DEF TypeOK
    <2>5. \A c \in Consumers : phase'[c] = "ack" <=> phase[c] = "ack"
        BY <2>2, <2>3 DEF TypeOK
    <2> QED
        BY <2>3, <2>4, <2>5 DEF Stored
<1>6. ASSUME NEW w \in Workers, Read(w) \/ ReadNothing(w) \/ Signal(w)
      PROVE  rows' = rows /\ Stored' = Stored
    <2>1. /\ \A c \in Consumers : phase'[c] = "ack" <=> phase[c] = "ack"
          /\ \A c \in Consumers : phase[c] = "ack" => batch'[c] = batch[c]
          /\ processed' = processed /\ rows' = rows
        BY <1>6 DEF Read, ReadNothing, LoopTop, Signal, TypeOK, Workers
    <2> QED
        BY <2>1 DEF Stored
<1>7. ASSUME NEW w \in Workers, Ack(w) PROVE rows' = rows /\ Stored' = Stored
    <2>1. /\ phase[w] = "ack" /\ phase'[w] # "ack" /\ w \in Consumers
          /\ processed'[w] = processed[w] + Cardinality(batch[w])
          /\ \A c \in Consumers : c # w => /\ phase'[c] = phase[c] /\ batch'[c] = batch[c]
                                           /\ processed'[c] = processed[c]
          /\ rows' = rows
        BY <1>7 DEF Ack, LoopTop, TypeOK, Workers
    <2> QED
        BY <2>1 DEF Stored
<1>8. ASSUME NEW w \in Workers, Write(w) PROVE SumFunction(rows)' = SumFunction(Stored)'
    <2>1. /\ phase[w] = "write" /\ phase' = [phase EXCEPT ![w] = "ack"]
          /\ rows' = [m \in Messages |-> IF m \in batch[w] THEN rows[m] + 1 ELSE rows[m]]
          /\ batch' = batch /\ processed' = processed /\ w \in Consumers
        BY <1>8 DEF Write, Workers
    <2>2. IsFiniteSet(batch[w]) /\ Cardinality(batch[w]) \in Nat /\ batch[w] \subseteq Messages
        BY <2>1, SubsetsFinite DEF TypeOK
    <2> DEFINE n == Cardinality(batch[w])
    <2>3. SumFunctionOnSet(rows', Messages) = SumFunctionOnSet(rows, Messages) + n
        <3>1. IsFiniteSet(Messages)
            BY FS_Interval DEF Messages
        <3>2. \A m \in Messages : /\ rows[m] \in Int
                                  /\ rows'[m] = IF m \in batch[w] THEN rows[m] + 1 ELSE rows[m]
            BY <2>1 DEF TypeOK
        <3> QED
            BY <2>2, <3>1, <3>2, SumOfPart
    <2>4. SumFunctionOnSet(Stored', Consumers) = SumFunctionOnSet(Stored, Consumers) + n
        <3>1. \A c \in Consumers : processed[c] \in Nat /\ Cardinality(batch[c]) \in Nat
            BY SubsetsFinite DEF TypeOK
        <3>2. phase'[w] = "ack" /\ \A c \in Consumers \ {w} : phase'[c] = phase[c]
            BY <2>1 DEF TypeOK
        <3>3. Stored'[w] = Stored[w] + n
            BY <2>1, <3>2 DEF Stored
        <3>4. \A c \in Consumers \ {w} : Stored'[c] = Stored[c]
            BY <2>1, <3>2 DEF Stored
        <3>5. \A c \in Consumers : Stored[c] \in Int
            BY <3>1 DEF Stored
        <3> QED
            BY <2>1, <2>2, <3>3, <3>4, <3>5, SumAtOne
    <2>5. /\ DOMAIN rows = Messages /\ DOMAIN rows' = Messages
          /\ DOMAIN Stored = Consumers /\ DOMAIN Stored' = Consumers
        BY DEF TypeOK, Stored
    <2> QED
        BY <1>3, <2>3, <2>4, <2>5 DEF SumFunction
<1>9. CASE Publish \/ UNCHANGED vars
    BY <1>4, <1>9 DEF Publish, vars, loopVars, Stored
<1>10. ASSUME NEW w \in Workers PROVE ~Crash(w)
    BY <1>1 DEF Crash
<1> QED
    BY <1>1, <1>4, <1>5, <1>6, <1>7, <1>8, <1>9, <1>10 DEF Next, WorkerStep

(* When nobody holds anything any more, every delivered entry has one row. *)
LEMMA OneRowEach ==
    ASSUME TypeOK, DeliveryInv, CopiesInv, OnlyCrashOrCapStrands, Recoverers = {}, crashes = 0,
           MaxMessages = None, \A c \in Consumers : phase[c] \notin InLoop
    PROVE  /\ Pending = {}
           /\ \A m \in Messages : rows[m] = IF m \in Delivered THEN 1 ELSE 0
<1>1. \A c \in Consumers : batch[c] = {}
    BY DEF DeliveryInv, InLoop
<1>2. Pending = {}
    BY <1>1 DEF OnlyCrashOrCapStrands, Abandoned, Pending, TypeOK, GroupTypeOK
<1>3. ASSUME NEW m \in Messages PROVE rows[m] = IF m \in Delivered THEN 1 ELSE 0
    <2>1. rows[m] \in Nat /\ Cardinality(Writers(m)) \in Nat
        BY WritersFinite DEF TypeOK
    <2>2. rows[m] + Cardinality(Writers(m)) <= 1 + claims[m] /\ claims[m] = 0
        BY DEF CopiesInv
    <2>3. m \in Delivered => rows[m] >= 1
        BY <1>2 DEF DeliveryInv, NothingLost, Settled
    <2>4. rows[m] > 0 => m \in Delivered
        BY DEF DeliveryInv
    <2> QED
        BY <2>1, <2>2, <2>3, <2>4
<1> QED
    BY <1>2, <1>3

LEMMA CursorCounts ==
    ASSUME TypeOK, cursor # NoGroup
    PROVE  IsFiniteSet(Delivered) /\ Cardinality(Delivered) = cursor
<1>1. cursor \in 0 .. MaxPublished
    BY DEF TypeOK, GroupTypeOK
<1>2. Delivered = 1 .. cursor
    BY <1>1 DEF Delivered, Messages
<1> QED
    BY <1>1, <1>2, FS_Interval

LEMMA TotalsFollow ==
    ASSUME Workers # {}, TypeOK, DeliveryInv, CopiesInv, OnlyCrashOrCapStrands, StartInv, TotalsInv
    PROVE  TotalsAgree
<1> SUFFICES ASSUME PoolOver, crashes = 0, Recoverers = {}
             PROVE  /\ SumFunction(processed) = SumFunction(rows)
                    /\ MaxMessages = None => SumFunction(processed) = cursor
    BY DEF TotalsAgree
<1>1. \A w \in Consumers : phase[w] = "stopped" /\ runs[w] = 1
    BY DEF PoolOver, Workers
<1>2. Stored = processed
    BY <1>1 DEF Stored, TypeOK
<1>3. SumFunction(rows) = SumFunction(processed)
    <2>1. FirstRuns
        BY <1>1 DEF FirstRuns, Workers
    <2> QED
        BY <1>2, <2>1 DEF TotalsInv
<1>4. ASSUME MaxMessages = None PROVE SumFunction(rows) = cursor
    <2>1. cursor # NoGroup /\ cursor \in Nat
        BY <1>1 DEF StartInv, TypeOK, GroupTypeOK, Workers
    <2> DEFINE none == [m \in Messages |-> 0]
    <2>2. \A m \in Messages : /\ none[m] \in Int
                              /\ rows[m] = IF m \in Delivered THEN none[m] + 1 ELSE none[m]
        <3>1. \A m \in Messages : rows[m] = IF m \in Delivered THEN 1 ELSE 0
            BY <1>1, <1>4, OneRowEach DEF InLoop
        <3> QED
            BY <3>1
    <2>3. IsFiniteSet(Messages) /\ Delivered \in SUBSET Messages
        BY FS_Interval DEF Messages, Delivered
    <2>4. SumFunctionOnSet(none, Messages) = 0
        BY <2>3, SumOfZeros
    <2> HIDE DEF none
    <2>5. SumFunctionOnSet(rows, Messages)
            = SumFunctionOnSet(none, Messages) + Cardinality(Delivered)
        BY <2>2, <2>3, SumOfPart
    <2>6. Cardinality(Delivered) = cursor
        BY <2>1, CursorCounts
    <2>7. DOMAIN rows = Messages
        BY DEF TypeOK
    <2> QED
        BY <2>1, <2>4, <2>5, <2>6, <2>7 DEF SumFunction
<1> QED
    BY <1>3, <1>4

(* The counts run_worker_pool returns for its one or more workers are the  *)
(* rows they wrote, and without a cap the entries the group delivered.     *)
THEOREM CountsAddUp ==
    ASSUME Workers # {}
    PROVE  Spec => []TotalsAgree
<1>1. Init => StartInv
    BY DEF Init, StartInv, Workers
<1>2. TypeOK /\ StartInv /\ [Next]_vars => StartInv'
    BY StartStep
<1>3. Init => TotalsInv
    BY TotalsInit
<1>4. TypeOK /\ DeliveryInv /\ StartInv /\ TotalsInv /\ [Next]_vars => TotalsInv'
    BY TotalsStep
<1>5. TypeOK /\ DeliveryInv /\ CopiesInv /\ OnlyCrashOrCapStrands /\ StartInv /\ TotalsInv
        => TotalsAgree
    BY TotalsFollow
<1> QED
    BY <1>1, <1>2, <1>3, <1>4, <1>5, Invariance, NothingElseStrands, PTL DEF Spec
=============================================================================
