------------------------------ MODULE Ingestor ------------------------------
(***************************************************************************)
(* The ingest program (posttrade/ingest/async_ingestor.py run by           *)
(* dataeng/bronze/run_bronze_ingestor.py): one event loop with the task of *)
(* AsyncIngestor.run, which receives messages of the exchange, hands the   *)
(* raw text to the bronze writer and publishes a tick, and the task of     *)
(* _periodic_flush.  The tasks interleave where they await.                *)
(*                                                                         *)
(* One symbol, as sequences and buffers are per symbol.  The messages are  *)
(* numbered as they are received; those of other types leave no trace and  *)
(* are left out.                                                           *)
(***************************************************************************)
EXTENDS BronzeWriter, Sequences

CONSTANTS
    None,           \* Python's None
    MaxReconnects,  \* max_reconnects, or None as the program calls it
    MaxBackoff,     \* max_backoff (30)
    MaxReceived,    \* bound: messages received
    MaxPutErrors,   \* bound: PUTs that raise
    MaxKills,       \* bound: processes killed
    MaxRuns         \* bound: times the program is started

ASSUME IngestorAssumption ==
    /\ Partitions \subseteq Nat
    /\ MaxReconnects \in Nat \cup {None}
    /\ MaxBackoff \in Nat \ {0}
    /\ {MaxReceived, MaxPutErrors, MaxKills, MaxRuns} \subseteq Nat

VARIABLES
    phase,          \* where the task of run is
    attempts,       \* attempts, counted when there is a limit
    backoff,        \* backoff
    nextSequence,   \* the counter of _sequences
    tick,           \* the tick being published
    hour,           \* the clock
    flusher,        \* the flush task
    received,       \* messages received so far, over all runs
    stream,         \* the Redis stream
    kills,          \* processes killed so far
    runs            \* times the program was started

runVars == <<phase, attempts, backoff, nextSequence, tick>>
vars == <<writerVars, runVars, hour, flusher, received, stream, kills, runs>>

(* The places where the task of run awaits; "exit" is its finally block. *)
Alive == {"connect", "subscribe", "listen", "publish", "sleep", "exit"}
Lines == 1 .. MaxReceived
Tick == [run : Nat, sequence : Nat, message : Lines]

TypeOK ==
    /\ buffers \in [Partitions -> SUBSET Lines]
    /\ age \in [Partitions -> 0 .. FlushMaxAge]
    /\ objects \subseteq [partition : Partitions, key : Nat, lines : SUBSET Lines]
    /\ phase \in Alive \cup {"down"}
    /\ attempts \in Nat /\ nextSequence \in Nat \ {0} /\ backoff \in 1 .. MaxBackoff
    /\ tick \in Tick \cup {None}
    /\ hour \in Partitions
    /\ flusher \in {"running", "dead"}
    /\ received \in 0 .. MaxReceived
    /\ stream \in Seq(Tick)
    /\ {runs, kills, putErrors} \subseteq Nat

Init ==
    /\ WriterInit
    /\ phase = "down" /\ attempts = 0 /\ backoff = 1 /\ nextSequence = 1 /\ tick = None
    /\ hour \in Partitions /\ \A p \in Partitions : hour <= p
    /\ flusher = "dead"
    /\ received = 0 /\ stream = <<>>
    /\ kills = 0 /\ runs = 0

-----------------------------------------------------------------------------
(* main: a new writer, a new ingestor and the flush task. *)
Start ==
    /\ phase = "down"
    /\ runs < MaxRuns
    /\ phase' = "connect"
    /\ attempts' = 0 /\ backoff' = 1 /\ nextSequence' = 1
    /\ flusher' = "running"
    /\ runs' = runs + 1
    /\ buffers' = [p \in Partitions |-> {}] /\ age' = [p \in Partitions |-> 0]
    /\ UNCHANGED <<objects, putErrors, tick, hour, received, stream, kills>>

MayConnect == ~(MaxReconnects # None /\ attempts > MaxReconnects)

(* The loop's condition, and websockets.connect.  A handshake the server   *)
(* refuses is none of the caught exceptions and ends run, as the limit.    *)
Connect ==
    /\ phase = "connect"
    /\ phase' \in IF MayConnect THEN {"subscribe", "exit"} ELSE {"exit"}
    /\ UNCHANGED <<writerVars, attempts, backoff, nextSequence, tick, hour, flusher,
                   received, stream, kills, runs>>

Subscribe ==
    /\ phase = "subscribe"
    /\ phase' = "listen"
    /\ backoff' = 1
    /\ UNCHANGED <<writerVars, attempts, nextSequence, tick, hour, flusher,
                   received, stream, kills, runs>>

(* ConnectionClosed or OSError, of connect, send or the iteration. *)
Disconnect ==
    /\ phase \in {"connect", "subscribe", "listen"}
    /\ phase = "connect" => MayConnect
    /\ phase' = "sleep"
    /\ attempts' = IF MaxReconnects = None THEN attempts ELSE attempts + 1
    /\ UNCHANGED <<writerVars, backoff, nextSequence, tick, hour, flusher,
                   received, stream, kills, runs>>

(* The server closes the connection properly: the iteration just ends, and *)
(* the loop connects again without an attempt counted and without a pause. *)
CleanClose ==
    /\ phase = "listen"
    /\ phase' = "connect"
    /\ UNCHANGED <<writerVars, attempts, backoff, nextSequence, tick, hour, flusher,
                   received, stream, kills, runs>>

-----------------------------------------------------------------------------
(* Faulty variants of definitions below, to test the properties against. *)
SleepUncapped ==
    /\ phase = "sleep"
    /\ phase' = "connect"
    /\ backoff' = 2 * backoff
    /\ UNCHANGED <<writerVars, attempts, nextSequence, tick, hour, flusher,
                   received, stream, kills, runs>>

FlushPeriodOfThisHour ==
    /\ phase \in Alive /\ flusher = "running"
    /\ PutAll(buffers, Older, Due(Older) \cap {hour})
    /\ UNCHANGED <<runVars, hour, flusher, received, stream, kills, runs>>

(* normalize with the sequence taken before the price is looked at. *)
ReceiveRejectedNumbered ==
    /\ phase = "listen"
    /\ received < MaxReceived
    /\ received' = received + 1
    /\ AppendLine(hour, received')
    /\ phase' = "listen"
    /\ nextSequence' = nextSequence + 1
    /\ UNCHANGED <<attempts, backoff, hour, flusher, stream, kills, runs, tick>>

-----------------------------------------------------------------------------
(* asyncio.sleep(backoff), and the next backoff. *)
Sleep ==
    /\ phase = "sleep"
    /\ phase' = "connect"
    /\ backoff' = IF 2 * backoff < MaxBackoff THEN 2 * backoff ELSE MaxBackoff
    /\ UNCHANGED <<writerVars, attempts, nextSequence, tick, hour, flusher,
                   received, stream, kills, runs>>

Receive ==
    /\ phase = "listen"
    /\ received < MaxReceived
    /\ received' = received + 1
    /\ UNCHANGED <<attempts, backoff, hour, flusher, stream, kills, runs>>

(* on_raw_message, then normalize: a message without a usable price is no  *)
(* tick; one whose time does not parse raises and ends run.                *)
ReceiveRejected ==
    /\ Receive
    /\ AppendLine(hour, received')
    /\ phase' \in {"listen", "exit"}
    /\ UNCHANGED <<nextSequence, tick>>

ReceiveTick ==
    /\ Receive
    /\ AppendLine(hour, received')
    /\ tick' = [run |-> runs, sequence |-> nextSequence, message |-> received']
    /\ nextSequence' = nextSequence + 1
    /\ phase' = "publish"

(* The append fills its partition and the flush raises. *)
ReceiveUnlanded ==
    /\ Receive
    /\ putErrors < MaxPutErrors
    /\ AppendLineFails(hour, received')
    /\ phase' = "exit"
    /\ UNCHANGED <<nextSequence, tick>>

Publish ==
    /\ phase = "publish"
    /\ stream' = Append(stream, tick)
    /\ tick' = None
    /\ phase' = "listen"
    /\ UNCHANGED <<writerVars, attempts, backoff, nextSequence, hour, flusher,
                   received, kills, runs>>

(* XADD raises, whether or not Redis has added the entry. *)
PublishFails ==
    /\ phase = "publish"
    /\ stream' \in {stream, Append(stream, tick)}
    /\ tick' = None
    /\ phase' = "exit"
    /\ UNCHANGED <<writerVars, attempts, backoff, nextSequence, hour, flusher,
                   received, kills, runs>>

-----------------------------------------------------------------------------
(* A period of _periodic_flush.  Its first error ends the task; nobody     *)
(* awaits it, so nobody knows.                                             *)
FlushPeriod ==
    /\ phase \in Alive /\ flusher = "running"
    /\ \/ FlushDue /\ UNCHANGED flusher
       \/ putErrors < MaxPutErrors /\ FlushDueFails /\ flusher' = "dead"
    /\ UNCHANGED <<runVars, hour, received, stream, kills, runs>>

(* The finally block of main: cancel the task, flush_all.  What a PUT that *)
(* raises leaves in memory is gone with the process.                       *)
Exit ==
    /\ phase = "exit"
    /\ FlushAll \/ (putErrors < MaxPutErrors /\ FlushAllFails)
    /\ phase' = "down"
    /\ flusher' = "dead"
    /\ UNCHANGED <<attempts, backoff, nextSequence, tick, hour, received, stream, kills, runs>>

(* SIGINT: the task is cancelled where it awaits. *)
Interrupt ==
    /\ phase \in Alive \ {"exit"}
    /\ phase' = "exit"
    /\ tick' = None
    /\ stream' \in IF phase = "publish" THEN {stream, Append(stream, tick)} ELSE {stream}
    /\ UNCHANGED <<writerVars, attempts, backoff, nextSequence, hour, flusher,
                   received, kills, runs>>

(* SIGTERM, SIGKILL, power: no finally block. *)
Kill ==
    /\ phase \in Alive
    /\ kills < MaxKills
    /\ kills' = kills + 1
    /\ phase' = "down"
    /\ flusher' = "dead"
    /\ tick' = None
    /\ UNCHANGED <<writerVars, attempts, backoff, nextSequence, hour,
                   received, stream, runs>>

NextHour ==
    /\ hour + 1 \in Partitions
    /\ hour' = hour + 1
    /\ UNCHANGED <<writerVars, runVars, flusher, received, stream, kills, runs>>

Next ==
    \/ Start \/ Connect \/ Subscribe \/ Disconnect \/ Sleep \/ CleanClose
    \/ ReceiveRejected \/ ReceiveTick \/ ReceiveUnlanded
    \/ Publish \/ PublishFails
    \/ FlushPeriod \/ Exit \/ Interrupt \/ Kill \/ NextHour

Spec == Init /\ [][Next]_vars

(* The event loop runs both tasks, and every call returns.  Nothing        *)
(* obliges the exchange to send, or anyone to start or end the program.    *)
Fairness == WF_vars(FlushPeriod) /\ WF_vars(Exit)

FairSpec == Spec /\ Fairness

-----------------------------------------------------------------------------
InMemory == IF phase = "down" THEN {} ELSE Buffered
Kept == Landed \cup InMemory

(* "Bronze capture happens on every relevant message regardless of whether *)
(* normalization below succeeds": as long as nobody kills the process and  *)
(* no PUT fails, every line received is in the bucket or in memory, also   *)
(* after a run that gave up, was interrupted or was ended by an exception. *)
EveryLineIsKept == kills = 0 /\ putErrors = 0 => 1 .. received \subseteq Kept

(* Whatever fails, the program implements the log of raw lines: what has   *)
(* landed stays, and only the end of a process loses what it held.         *)
Log == INSTANCE RawLog WITH
    MaxCaptured <- MaxReceived,
    captured <- received,
    waiting <- InMemory \ Landed,
    landed <- Landed

ImplementsRawLog == Log!Spec

(* Only the failure of a PUT, reported although the store took the object, *)
(* lands a line twice; a size flush, a timed flush and the final one never *)
(* flush the same line again.                                              *)
LandedOnce ==
    \A m \in Lines :
        Cardinality({o \in objects : m \in o.lines}) + (IF m \in InMemory THEN 1 ELSE 0)
            <= 1 + putErrors

(* Memory is bounded: while messages are taken no partition is full.       *)
BuffersStayBelowLimit ==
    phase \in Alive \ {"exit"} => \A p \in Partitions : Cardinality(buffers[p]) < FlushMaxLines

(* "This is our gap-detection axis": the entries one run publishes carry   *)
(* the sequences 1, 2, 3, ... in the order of the messages, whatever is    *)
(* rejected, reconnected or flushed in between.                            *)
SequencesHaveNoHoles ==
    \A i \in DOMAIN stream :
        LET before == {j \in 1 .. i : stream[j].run = stream[i].run}
        IN  /\ stream[i].sequence = Cardinality(before)
            /\ \A j \in before : j < i => stream[j].message < stream[i].message

(* A line in memory lands while the flush task lives, however few follow.  *)
BufferedLands ==
    \A m \in Lines : (m \in InMemory) ~> (m \notin InMemory \/ flusher = "dead")

(* "Call periodically [...] otherwise a low-volume symbol could sit        *)
(* buffered in memory indefinitely": no line does.                         *)
NothingSitsBuffered == \A m \in Lines : (m \in InMemory) ~> (m \notin InMemory)
=============================================================================
