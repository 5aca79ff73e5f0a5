------------------------- MODULE MCClusterPresence -------------------------
(* Small instances of ClusterPresence for TLC.                             *)
EXTENDS ClusterPresence

CONSTANTS hub, a, b, l1, l2, w1, w2

\* A star: a and b connect to hub.  Or two links between a and hub, opened by a;
\* or one from each side.
Star     == [l \in Link |-> IF l = l1 THEN a ELSE b]
FromA    == [l \in Link |-> a]
Crossed  == [l \in Link |-> IF l = l1 THEN a ELSE hub]
ToH      == [l \in Link |-> hub]
CrossedTo == [l \in Link |-> IF l = l1 THEN hub ELSE a]

\* w1 is a client of hub, w2 of a.
Homes    == [w \in Ws |-> IF w = w1 THEN hub ELSE a]
=============================================================================
