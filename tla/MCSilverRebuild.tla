-------------------------- MODULE MCSilverRebuild --------------------------
(* SilverRebuild for TLC: two dates and four lines. *)
EXTENDS SilverRebuild, TLC

CONSTANTS r1, r2

TwoDates == 1 .. 2
FourLines == 1 .. 4
ThreeAndOne == [l \in FourLines |-> IF l <= 3 THEN 1 ELSE 2]
TwoAndTwo == [l \in FourLines |-> IF l <= 2 THEN 1 ELSE 2]
TwoRuns == {r1, r2}
=============================================================================
