------------------------------ MODULE RawLog ------------------------------
(***************************************************************************)
(* What the bronze layer promises of the lines of the feed, without        *)
(* partitions, buffers, limits, errors or reconnects: a line waits in the  *)
(* memory of the process that captured it and lands in the bucket, alone   *)
(* or with others, where it stays.  Lines are lost only when the process   *)
(* ends with lines that wait, all of them together, and a lost line never  *)
(* comes back.                                                             *)
(***************************************************************************)
EXTENDS Naturals

CONSTANT MaxCaptured    \* bound: lines ever captured

VARIABLES
    captured,       \* lines captured so far
    waiting,        \* lines in memory only
    landed          \* lines in the bucket

vars == <<captured, waiting, landed>>

Init == captured = 0 /\ waiting = {} /\ landed = {}

Land(lines, S) ==
    /\ landed' = landed \cup S
    /\ waiting' = lines \ S

(* A line may fill its buffer, and then lands at once with what is there. *)
Capture ==
    /\ captured < MaxCaptured
    /\ captured' = captured + 1
    /\ \E S \in SUBSET (waiting \cup {captured'}) : Land(waiting \cup {captured'}, S)

Flush ==
    /\ \E S \in SUBSET waiting : Land(waiting, S)
    /\ UNCHANGED captured

End ==
    /\ \E S \in SUBSET waiting : landed' = landed \cup S
    /\ waiting' = {}
    /\ UNCHANGED captured

Next == Capture \/ Flush \/ End

Spec == Init /\ [][Next]_vars
=============================================================================
