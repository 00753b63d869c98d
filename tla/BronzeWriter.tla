---------------------------- MODULE BronzeWriter ----------------------------
(***************************************************************************)
(* The bronze layer's writer (dataeng/bronze/bronze_writer.py): raw lines  *)
(* of one symbol wait in memory per hour partition until the partition is  *)
(* full, old enough or the program ends, and go to the object store with   *)
(* one PUT then.  A line is the number of the message it came with, so a   *)
(* buffer is a set: its order is the order of the numbers.                 *)
(*                                                                         *)
(* The writer has no thread of its own: the calls below are made by the    *)
(* tasks of Ingestor, and each runs without giving up the event loop.      *)
(***************************************************************************)
EXTENDS Integers, FiniteSets

CONSTANTS
    Partitions,     \* the hours that lines are received in
    FlushMaxLines,  \* flush_max_lines (200)
    FlushMaxAge     \* flush_max_seconds (10), in periods of the flush task (2 s)

ASSUME WriterAssumption ==
    /\ IsFiniteSet(Partitions)
    /\ FlushMaxLines \in Nat \ {0} /\ FlushMaxAge \in Nat \ {0}

VARIABLES
    buffers,        \* _buffers
    age,            \* time since _buffer_started_at, in periods
    objects,        \* what the bucket holds
    putErrors       \* PUTs that raised so far

writerVars == <<buffers, age, objects, putErrors>>

WriterInit ==
    /\ buffers = [p \in Partitions |-> {}]
    /\ age = [p \in Partitions |-> 0]
    /\ objects = {}
    /\ putErrors = 0

Buffered == UNION {buffers[p] : p \in Partitions}
Landed == UNION {o.lines : o \in objects}

(* The object of a PUT.  Keys are uuids: a PUT never overwrites another. *)
Object(p, lines) == [partition |-> p, key |-> Cardinality(objects), lines |-> lines]

-----------------------------------------------------------------------------
(* Faulty variants of definitions below, to test the properties against. *)
FullAfter(lines) == Cardinality(lines) > FlushMaxLines

NonEmptyAndOld == {p \in Partitions : buffers[p] # {} /\ age[p] > 0}

PutAllKeeping(b, a, ps) ==
    /\ objects' = objects \cup {Object(p, b[p]) : p \in ps}
    /\ buffers' = b
    /\ age' = [p \in Partitions |-> IF p \in ps THEN 0 ELSE a[p]]
    /\ UNCHANGED putErrors

PutFailsClearing(b, a, ps) ==
    \E done \in SUBSET ps : \E failing \in ps \ done :
        /\ objects' = objects \cup {Object(p, b[p]) : p \in done}
        /\ buffers' = [p \in Partitions |-> IF p \in done \cup {failing} THEN {} ELSE b[p]]
        /\ age' = [p \in Partitions |-> IF p \in done THEN 0 ELSE a[p]]
        /\ putErrors' = putErrors + 1

-----------------------------------------------------------------------------
(* flush of the partitions ps, when b are the buffers and a their ages and *)
(* every PUT succeeds.                                                     *)
PutAll(b, a, ps) ==
    /\ objects' = objects \cup {Object(p, b[p]) : p \in ps}
    /\ buffers' = [p \in Partitions |-> IF p \in ps THEN {} ELSE b[p]]
    /\ age' = [p \in Partitions |-> IF p \in ps THEN 0 ELSE a[p]]
    /\ UNCHANGED putErrors

(* A PUT of the loop raises: the partitions before it are flushed, its own *)
(* and the later ones keep their buffers.  The store may have taken the    *)
(* object although the call failed.                                        *)
PutFails(b, a, ps) ==
    \E done \in SUBSET ps, taken \in BOOLEAN : \E failing \in ps \ done :
        /\ objects' = objects \cup {Object(p, b[p]) : p \in
                            IF taken THEN done \cup {failing} ELSE done}
        /\ buffers' = [p \in Partitions |-> IF p \in done THEN {} ELSE b[p]]
        /\ age' = [p \in Partitions |-> IF p \in done THEN 0 ELSE a[p]]
        /\ putErrors' = putErrors + 1

Full(lines) == Cardinality(lines) >= FlushMaxLines

(* append to the buffer, and the partition to flush because that fills it. *)
Appended(p, m) == [buffers EXCEPT ![p] = @ \cup {m}]
Filled(p, m) == IF Full(Appended(p, m)[p]) THEN {p} ELSE {}

AppendLine(p, m) == PutAll(Appended(p, m), age, Filled(p, m))
AppendLineFails(p, m) == PutFails(Appended(p, m), age, Filled(p, m))

(* flush_due, one period after the last call: time is counted up to the    *)
(* limit, where it stops to matter.                                        *)
Older ==
    [p \in Partitions |->
        IF buffers[p] = {} \/ age[p] >= FlushMaxAge THEN age[p] ELSE age[p] + 1]
Due(a) == {p \in Partitions : buffers[p] # {} /\ a[p] >= FlushMaxAge}

FlushDue == PutAll(buffers, Older, Due(Older))
FlushDueFails == PutFails(buffers, Older, Due(Older))

(* flush_all, at the end of the program. *)
NonEmpty == {p \in Partitions : buffers[p] # {}}
FlushAll == PutAll(buffers, age, NonEmpty)
FlushAllFails == PutFails(buffers, age, NonEmpty)
=============================================================================
