---------------------------- MODULE TickWorkers ----------------------------
(***************************************************************************)
(* The consumer side of the tick stream: several processes in run_worker   *)
(* (posttrade/workers/worker.py) share one consumer group, copy each batch *)
(* to the ticks table and acknowledge it afterwards.                       *)
(*                                                                         *)
(* One action per call the loop makes: XREADGROUP, COPY and XACK.  Between *)
(* two of them any other process may act, a signal may arrive and the      *)
(* process may die; an exception of a call ends run_worker the same way    *)
(* (there is no handler), so Crash stands for it too.  A process that is   *)
(* started again comes back under the same name, as worker_pool names them *)
(* worker-0, worker-1, ...                                                 *)
(*                                                                         *)
(* Recoverers are the callers of StreamConsumer.claim_stale.  No process   *)
(* under src/ is one: the only callers are the tests, and a run with       *)
(* Recoverers = {} is the system as it is deployed.                        *)
(***************************************************************************)
EXTENDS ConsumerGroup, Functions

CONSTANTS
    Recoverers,     \* the consumers that reclaim pending entries
    ReadBatch,      \* read_batch_size
    ClaimBatch,     \* count of claim_stale
    ClaimLive,      \* TRUE: min_idle_ms = 0, a batch in progress can be claimed
    None,           \* Python's None
    MaxMessages,    \* max_messages, or None
    MaxIdleReads,   \* max_idle_reads, or None
    PublishBatch,   \* bound: entries one publish_batch adds
    AllowSignals,   \* bound: whether SIGTERM or SIGINT is ever sent
    MaxCrashes,     \* bound: processes that die
    MaxRuns,        \* bound: times a worker is started
    MaxClaims       \* bound: calls of claim_stale that return something

ASSUME WorkersAssumption ==
    /\ Recoverers \subseteq Consumers
    /\ {ReadBatch, ClaimBatch, PublishBatch} \subseteq Nat \ {0}
    /\ {ClaimLive, AllowSignals} \subseteq BOOLEAN
    /\ MaxMessages \in Nat \cup {None}
    /\ MaxIdleReads \in (Nat \ {0}) \cup {None}
    /\ {MaxCrashes, MaxRuns, MaxClaims} \subseteq Nat

Workers == Consumers \ Recoverers

VARIABLES
    phase,          \* where each consumer is in its loop
    batch,          \* the entries it works on
    processed,      \* local variable of run_worker
    idle,           \* local variable idle_reads
    running,        \* local variable of run_worker
    rows,           \* rows of the ticks table per entry (no unique constraint)
    runs,           \* times each worker was started
    crashes,        \* processes that died so far
    claims          \* auxiliary: times each entry was reclaimed

groupVars == <<published, cursor, owner>>
loopVars == <<phase, batch, processed, idle, running>>
vars == <<groupVars, loopVars, rows, runs, crashes, claims>>

Phases == {"down", "read", "write", "ack", "stopped", "crashed"}
InLoop == {"read", "write", "ack"}

TypeOK ==
    /\ GroupTypeOK
    /\ phase \in [Consumers -> Phases]
    /\ batch \in [Consumers -> SUBSET Messages]
    /\ processed \in [Consumers -> Nat]
    /\ idle \in [Consumers -> Nat]
    /\ running \in [Consumers -> BOOLEAN]
    /\ rows \in [Messages -> Nat]
    /\ runs \in [Consumers -> Nat]
    /\ crashes \in Nat
    /\ claims \in [Messages -> Nat]

Init ==
    /\ GroupInit
    /\ phase = [c \in Consumers |-> "down"]
    /\ batch = [c \in Consumers |-> {}]
    /\ processed = [c \in Consumers |-> 0]
    /\ idle = [c \in Consumers |-> 0]
    /\ running = [c \in Consumers |-> FALSE]
    /\ rows = [m \in Messages |-> 0]
    /\ runs = [c \in Consumers |-> 0]
    /\ crashes = 0
    /\ claims = [m \in Messages |-> 0]

-----------------------------------------------------------------------------
(* StreamPublisher.publish and publish_batch. *)
Publish ==
    /\ \E n \in 1 .. PublishBatch : XAdd(n)
    /\ UNCHANGED <<cursor, owner, loopVars, rows, runs, crashes, claims>>

(* run_worker up to its loop: a fresh process, the group created if needed. *)
Start(w) ==
    /\ phase[w] \in {"down", "stopped", "crashed"}
    /\ runs[w] < MaxRuns
    /\ CreateGroup
    /\ phase' = [phase EXCEPT ![w] = "read"]
    /\ processed' = [processed EXCEPT ![w] = 0]
    /\ idle' = [idle EXCEPT ![w] = 0]
    /\ running' = [running EXCEPT ![w] = TRUE]
    /\ runs' = [runs EXCEPT ![w] = @ + 1]
    /\ UNCHANGED <<published, owner, batch, rows, crashes, claims>>

(* Faulty variants of definitions below, to test the properties against. *)
CappedNever(w, S) == S
LoopTopForever(stillRunning) == "read"

(* batch = batch[: max_messages - processed], when the batch is too long. *)
Capped(w, S) ==
    IF MaxMessages # None /\ processed[w] + Cardinality(S) > MaxMessages
    THEN First(S, MaxMessages - processed[w])
    ELSE S

(* consumer.read returns messages: all of them are pending under w from   *)
(* now on, also those the cap cuts off.  `running' is not looked at: a     *)
(* signal that arrives during the blocking read does not interrupt it.    *)
Read(w) ==
    /\ phase[w] = "read"
    /\ ReadGroup(w, ReadBatch)
    /\ batch' = [batch EXCEPT ![w] = Capped(w, Fresh(ReadBatch))]
    /\ idle' = [idle EXCEPT ![w] = 0]
    /\ phase' = [phase EXCEPT ![w] = "write"]
    /\ UNCHANGED <<published, processed, running, rows, runs, crashes, claims>>

(* The loop's top: `while running'. *)
LoopTop(stillRunning) == IF stillRunning THEN "read" ELSE "stopped"

(* consumer.read times out.  idle_reads matters only to a worker that has  *)
(* a limit, and is counted only then.                                      *)
ReadNothing(w) ==
    /\ phase[w] = "read"
    /\ ReadNone
    /\ idle' = [idle EXCEPT ![w] = IF MaxIdleReads = None THEN @ ELSE @ + 1]
    /\ phase' = [phase EXCEPT ![w] =
            IF MaxIdleReads # None /\ idle[w] + 1 >= MaxIdleReads
            THEN "stopped"
            ELSE LoopTop(running[w])]
    /\ UNCHANGED <<groupVars, batch, processed, running, rows, runs, crashes, claims>>

(* store.write_ticks_batch: one COPY, all rows of the batch or none. *)
Write(c) ==
    /\ phase[c] = "write"
    /\ rows' = [m \in Messages |-> IF m \in batch[c] THEN rows[m] + 1 ELSE rows[m]]
    /\ phase' = [phase EXCEPT ![c] = "ack"]
    /\ UNCHANGED <<groupVars, batch, processed, idle, running, runs, crashes, claims>>

(* consumer.ack_batch, and the rest of the iteration.  The log line reads  *)
(* batch[0]: an empty batch (max_messages = 0) ends the process.           *)
Ack(w) ==
    LET total == processed[w] + Cardinality(batch[w])
        more == running[w] /\ ~(MaxMessages # None /\ total >= MaxMessages)
    IN  /\ w \in Workers
        /\ phase[w] = "ack"
        /\ XAck(batch[w])
        /\ processed' = [processed EXCEPT ![w] = total]
        /\ batch' = [batch EXCEPT ![w] = {}]
        /\ running' = [running EXCEPT ![w] = more]
        /\ phase' = [phase EXCEPT ![w] =
                        IF batch[w] = {} THEN "crashed" ELSE LoopTop(more)]
        /\ UNCHANGED <<published, cursor, idle, rows, runs, crashes, claims>>

(* _stop, the handler of SIGTERM and SIGINT. *)
Signal(w) ==
    /\ AllowSignals
    /\ phase[w] \in InLoop
    /\ running[w]
    /\ running' = [running EXCEPT ![w] = FALSE]
    /\ UNCHANGED <<groupVars, phase, batch, processed, idle, rows, runs, crashes, claims>>

(* The process dies, or a call raises and run_worker with it. *)
Crash(c) ==
    /\ phase[c] \in InLoop
    /\ crashes < MaxCrashes
    /\ crashes' = crashes + 1
    /\ phase' = [phase EXCEPT ![c] = IF c \in Workers THEN "crashed" ELSE "down"]
    /\ batch' = [batch EXCEPT ![c] = {}]
    /\ running' = [running EXCEPT ![c] = FALSE]
    /\ UNCHANGED <<groupVars, processed, idle, rows, runs, claims>>

-----------------------------------------------------------------------------
(* Entries pending under a consumer that no longer works on them. *)
Abandoned == {m \in Pending : m \notin batch[owner[m]]}

(* claim_stale: with min_idle_ms = 0 every pending entry qualifies; with a *)
(* min_idle_ms longer than any iteration only the abandoned ones do.       *)
Stale == IF ClaimLive THEN Messages ELSE Abandoned

Claim(r) ==
    /\ phase[r] = "down"
    /\ Claimable(Stale, ClaimBatch) # {}
    /\ XAutoClaim(r, Stale, ClaimBatch)
    /\ batch' = [batch EXCEPT ![r] = Claimable(Stale, ClaimBatch)]
    /\ claims' = [m \in Messages |->
            IF m \in Claimable(Stale, ClaimBatch) THEN claims[m] + 1 ELSE claims[m]]
    /\ runs' = [runs EXCEPT ![r] = @ + 1]
    /\ runs[r] < MaxClaims
    /\ phase' = [phase EXCEPT ![r] = "write"]
    /\ UNCHANGED <<published, cursor, processed, idle, running, rows, crashes>>

(* The recoverer has finished the work: ack_batch, ready to claim again. *)
AckClaimed(r) ==
    /\ phase[r] = "ack"
    /\ XAck(batch[r])
    /\ batch' = [batch EXCEPT ![r] = {}]
    /\ phase' = [phase EXCEPT ![r] = "down"]
    /\ UNCHANGED <<published, cursor, processed, idle, running, rows, runs, crashes, claims>>

WorkerStep(w) ==
    Start(w) \/ Read(w) \/ ReadNothing(w) \/ Write(w) \/ Ack(w) \/ Signal(w) \/ Crash(w)

RecovererStep(r) == Claim(r) \/ Write(r) \/ AckClaimed(r) \/ Crash(r)

Next ==
    \/ Publish
    \/ \E w \in Workers : WorkerStep(w)
    \/ \E r \in Recoverers : RecovererStep(r)

Spec == Init /\ [][Next]_vars
-----------------------------------------------------------------------------
(* Fairness: the operating system schedules every started process, every   *)
(* call of Redis and of the store returns, and the pool starts every       *)
(* worker once.  Nothing obliges anyone to start a worker again, to        *)
(* publish, signal or crash.                                               *)
Fairness ==
    /\ \A w \in Workers :
        /\ WF_vars(runs[w] = 0 /\ Start(w))
        /\ WF_vars(Read(w) \/ ReadNothing(w))
        /\ WF_vars(Write(w))
        /\ WF_vars(Ack(w))
    /\ \A r \in Recoverers :
        /\ WF_vars(Claim(r))
        /\ WF_vars(Write(r))
        /\ WF_vars(AckClaimed(r))

FairSpec == Spec /\ Fairness

-----------------------------------------------------------------------------
Settled == Delivered \ Pending

(* The row order of run_worker, COPY before XACK, loses nothing: an entry  *)
(* the group delivered is still pending or has its row, whatever dies.     *)
NothingLost == \A m \in Settled : rows[m] >= 1

(* The strengthening of NothingLost that every step preserves: what a      *)
(* consumer holds or the table has was delivered, a batch is held only     *)
(* between the read and the acknowledgement, and it is stored before it is *)
(* acknowledged.                                                           *)
DeliveryInv ==
    /\ cursor <= published
    /\ Pending \subseteq Delivered
    /\ \A m \in Messages : rows[m] > 0 => m \in Delivered
    /\ \A c \in Consumers :
        /\ batch[c] \subseteq Delivered
        /\ phase[c] \notin {"write", "ack"} => batch[c] = {}
        /\ phase[c] = "ack" => \A m \in batch[c] : rows[m] > 0
    /\ NothingLost

(* The table has no key, so a second row is possible; but only a reclaim   *)
(* makes one: without claim_stale a restart never repeats a tick.          *)
CopiesBounded == \A m \in Messages : rows[m] <= 1 + claims[m]

(* Its strengthening: a batch on its way to the table counts already, and  *)
(* without a recoverer nothing is ever reclaimed.                          *)
Writers(m) == {c \in Consumers : phase[c] = "write" /\ m \in batch[c]}

CopiesInv ==
    /\ \A m \in Messages : rows[m] + Cardinality(Writers(m)) <= 1 + claims[m]
    /\ Recoverers = {} => \A m \in Messages : claims[m] = 0

(* A signal, an idle stop and a slow sibling leave nothing behind: entries *)
(* are stranded in the pending list only by a crash or by the cut that     *)
(* max_messages makes in a batch.                                          *)
OnlyCrashOrCapStrands ==
    Abandoned # {} => crashes > 0 \/ MaxMessages # None

(* max_messages is a cap and not a hint, and a worker that keeps to it     *)
(* never meets the empty batch whose log line would raise.                 *)
CapKept ==
    MaxMessages # None /\ MaxMessages # 0 =>
        \A w \in Workers :
            /\ processed[w] <= MaxMessages
            /\ phase[w] = "crashed" => crashes > 0

(* worker_pool returns the processed counts "so callers can verify work    *)
(* was actually split": when the pool is over, and nobody died or ran      *)
(* twice, they add up to the rows in the table, and without a cap to the   *)
(* entries the group delivered.                                            *)
PoolOver == \A w \in Workers : phase[w] = "stopped" /\ runs[w] = 1

TotalsAgree ==
    PoolOver /\ crashes = 0 /\ Recoverers = {} =>
        /\ SumFunction(processed) = SumFunction(rows)
        /\ MaxMessages = None => SumFunction(processed) = cursor

(* The pool implements at-least-once delivery with store before settle,    *)
(* and at most one row per tick as long as nobody reclaims.                *)
Delivery == INSTANCE TickDelivery WITH
    published <- published,
    rows <- rows,
    settled <- Settled,
    Redelivery <- (Recoverers # {})

ImplementsDelivery == Delivery!Spec

(* A pool whose workers have an idle limit comes to its end, and what was  *)
(* published before it started is stored and settled by then.  An entry is *)
(* left pending only by a crash, and unread only if no worker lived to     *)
(* stop by itself: each was signalled or died, and nobody starts another.  *)
PoolEnded == \A w \in Workers : runs[w] > 0 /\ phase[w] \notin InLoop

BacklogDrained ==
    \A m \in Messages :
        (m <= published /\ \A w \in Workers : runs[w] = 0)
            ~> /\ PoolEnded
               /\ \/ m \in Settled /\ rows[m] >= 1
                  \/ m \in Abandoned /\ crashes > 0
                  \/ \A w \in Workers : ~running[w]

(* A signalled worker finishes the batch in hand and leaves its loop.      *)
SignalStops ==
    \A w \in Workers :
        (phase[w] \in InLoop /\ ~running[w]) ~> (phase[w] \notin InLoop)

(* "Those messages must not be lost" (tests/test_integration.py, of a worker *)
(* that dies with a batch): what was delivered is stored in the end.       *)
DeliveredIsStored ==
    \A m \in Messages : (m \in Delivered) ~> (rows[m] >= 1)

(* With a process that reclaims, every delivered entry is settled in the   *)
(* end, also those of a worker that died.                                  *)
DeliveredIsSettled ==
    \A m \in Messages : (m \in Delivered) ~> (m \in Settled)
=============================================================================
