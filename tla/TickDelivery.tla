---------------------------- MODULE TickDelivery ----------------------------
(***************************************************************************)
(* What the tick stream and its worker pool promise together, without      *)
(* consumers, batches, cursors or crashes: a published tick is stored, and *)
(* it is settled (delivered and no longer pending, so nobody will ever     *)
(* look at it again) only when it is stored.  When no consumer reclaims    *)
(* pending entries (Redelivery is FALSE) a tick is stored at most once.    *)
(***************************************************************************)
EXTENDS Naturals

CONSTANTS
    MaxPublished,   \* bound: ticks ever published
    Redelivery      \* whether a tick may be handed out a second time

VARIABLES
    published,      \* ticks published so far
    rows,           \* how many rows of the ticks table hold each tick
    settled         \* ticks delivered and no longer pending

vars == <<published, rows, settled>>

Ticks == 1 .. MaxPublished

Init ==
    /\ published = 0
    /\ rows = [m \in Ticks |-> 0]
    /\ settled = {}

Publish ==
    /\ published' \in (published + 1) .. MaxPublished
    /\ UNCHANGED <<rows, settled>>

(* A batch reaches the store as a whole. *)
Store ==
    \E batch \in SUBSET (1 .. published) :
        /\ Redelivery \/ \A m \in batch : rows[m] = 0
        /\ rows' = [m \in Ticks |-> IF m \in batch THEN rows[m] + 1 ELSE rows[m]]
        /\ UNCHANGED <<published, settled>>

Settle ==
    \E batch \in SUBSET {m \in Ticks : rows[m] > 0} :
        /\ settled' = settled \cup batch
        /\ UNCHANGED <<published, rows>>

Next == Publish \/ Store \/ Settle

Spec == Init /\ [][Next]_vars
=============================================================================
