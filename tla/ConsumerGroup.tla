--------------------------- MODULE ConsumerGroup ---------------------------
(***************************************************************************)
(* One Redis stream and one consumer group on it, as the wrappers of       *)
(* posttrade/queue/redis_stream.py use them.  A message is the position of *)
(* its entry in the stream, so an id is a number and ids grow with XADD.   *)
(* The group keeps the last position it delivered (`cursor') and the       *)
(* pending entries list: `owner[m]' is the consumer under whose name entry *)
(* m is pending, NoOwner when it is not pending.                           *)
(*                                                                         *)
(* The server itself is not in the repository: what is modelled is what    *)
(* the calls in redis_stream.py ask of it (id="0", ">" and no NOACK, XACK  *)
(* without a consumer name, XAUTOCLAIM always from the first entry).       *)
(***************************************************************************)
EXTENDS Integers, FiniteSets

CONSTANTS
    Consumers,      \* the consumer names that ever join the group
    NoOwner,        \* owner of an entry that is not pending
    MaxPublished    \* bound: entries the publisher ever adds

ASSUME ConsumersAssumption == IsFiniteSet(Consumers) /\ NoOwner \notin Consumers
ASSUME MaxPublishedAssumption == MaxPublished \in Nat

VARIABLES
    published,      \* number of entries in the stream
    cursor,         \* last delivered position of the group, NoGroup before XGROUP CREATE
    owner           \* the pending entries list

Messages == 1 .. MaxPublished
NoGroup == -1

GroupInit ==
    /\ published = 0
    /\ cursor = NoGroup
    /\ owner = [m \in Messages |-> NoOwner]

GroupTypeOK ==
    /\ published \in 0 .. MaxPublished
    /\ cursor \in {NoGroup} \cup (0 .. MaxPublished)
    /\ owner \in [Messages -> Consumers \cup {NoOwner}]

-----------------------------------------------------------------------------
(* XPENDING: what StreamConsumer.pending_count counts. *)
Pending == {m \in Messages : owner[m] # NoOwner}

Delivered == {m \in Messages : m <= cursor}

(* The entries XREADGROUP ">" hands out: at most `count' after the cursor. *)
Fresh(count) ==
    {m \in Messages : cursor < m /\ m <= cursor + count /\ m <= published}

(* The `count' entries of S with the lowest ids. *)
First(S, count) ==
    {m \in S : Cardinality({k \in S : k < m}) < count}

-----------------------------------------------------------------------------
(* Faulty variants of the operations below, one plausible slip each; the   *)
(* properties of the project are tested against them.                      *)
ReadGroupOverrun(c, count) ==
    /\ cursor # NoGroup /\ Fresh(count) # {}
    /\ cursor' = cursor + count
    /\ owner' = [m \in Messages |-> IF m \in Fresh(count) THEN c ELSE owner[m]]

ReadGroupNoAck(c, count) ==
    /\ cursor # NoGroup /\ Fresh(count) # {}
    /\ cursor' = IF cursor + count < published THEN cursor + count ELSE published
    /\ owner' = owner

CreateGroupAgain == cursor' = 0
CreateGroupAtEnd == cursor' = IF cursor = NoGroup THEN published ELSE cursor

XAckNothing(S) == owner' = owner
XAckUpTo(S) ==
    owner' = [m \in Messages |-> IF \E k \in S : m <= k THEN NoOwner ELSE owner[m]]

XAutoClaimRemoves(c, eligible, count) ==
    /\ cursor # NoGroup
    /\ owner' = [m \in Messages |->
                    IF m \in First(Pending \cap eligible, count) THEN NoOwner ELSE owner[m]]

-----------------------------------------------------------------------------
(* XADD, or the MULTI/EXEC pipeline of n of them that publish_batch sends. *)
XAdd(n) ==
    /\ published + n <= MaxPublished
    /\ published' = published + n

(* XGROUP CREATE id="0" MKSTREAM; BUSYGROUP of an existing group is ignored. *)
CreateGroup ==
    cursor' = IF cursor = NoGroup THEN 0 ELSE cursor

(* XREADGROUP ">" COUNT count under the name c, when there is something new. *)
ReadGroup(c, count) ==
    /\ cursor # NoGroup
    /\ Fresh(count) # {}
    /\ cursor' = IF cursor + count < published THEN cursor + count ELSE published
    /\ owner' = [m \in Messages |-> IF m \in Fresh(count) THEN c ELSE owner[m]]

(* XREADGROUP BLOCK that times out: nothing after the cursor. *)
ReadNone ==
    /\ cursor # NoGroup
    /\ cursor = published

(* XACK: names entries, not the consumer that holds them. *)
XAck(S) ==
    owner' = [m \in Messages |-> IF m \in S THEN NoOwner ELSE owner[m]]

(* XAUTOCLAIM from the start of the list: the first `count' pending entries *)
(* of `eligible' (those idle long enough) become pending under c.           *)
Claimable(eligible, count) == First(Pending \cap eligible, count)

XAutoClaim(c, eligible, count) ==
    /\ cursor # NoGroup
    /\ owner' = [m \in Messages |->
                    IF m \in Claimable(eligible, count) THEN c ELSE owner[m]]
=============================================================================
