----------------------------- MODULE MCPacemaker -----------------------------
(* A small instance of PacemakerHealth: two nodes with one fencing agent each, the
   agent of the first of which fails and recovers. *)
EXTENDS PacemakerHealth

Good == [flaws |-> {}, kubelet |-> {}, etcd |-> {}, agents |-> {{}}]
Of(x) == [nodes |-> [n \in 1..2 |-> IF n = 1 THEN x ELSE Good], maintenance |-> FALSE]
MCClusters == {Of(Good), Of([Good EXCEPT !.agents = {{"failed"}}])}
=============================================================================
