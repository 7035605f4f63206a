---------------------------- MODULE MCBootstrap ----------------------------
(* Instances of ClusterBootstrap for TLC.  Nodes are alike, so the order in which
   they arrive is fixed. *)
EXTENDS ClusterBootstrap

CONSTANTS b, x, y, z

Hosts == {b, x, y, z}
Orders ==
    [s \in Strategies |-> CASE s \in {"HA", "DelayedHA"} -> <<x, y, z>>
                            [] s \in {"TwoNode", "DelayedTwoNode"} -> <<x, y>>
                            [] s = "Unsafe" -> <<x>>]
Delays == [s \in Strategies |-> IF s \in {"DelayedHA", "DelayedTwoNode"} THEN 1 ELSE 0]
Presents == [s \in Strategies |-> Len(Orders[s]) - 1]
Faults == [s \in Strategies |-> IF s \in {"DelayedTwoNode", "Unsafe"} THEN 1 ELSE 0]
=============================================================================
