--------------------------- MODULE EtcdMembership ---------------------------
(***************************************************************************)
(* The etcd cluster as the operator's controllers meet it: the replicated  *)
(* member list, the etcd container of every control-plane node, and the    *)
(* reconfiguration requests whose reply was lost and that the servers may  *)
(* still apply.  The membership API follows go.etcd.io/etcd/server/v3 with *)
(* StrictReconfigCheck on, which is the default and what the operator runs.*)
(*                                                                         *)
(* A node, its Machine, its internal IP and the peer URL built from it are *)
(* one identity n.  A member ID is abstracted away; what the code gets out *)
(* of IDs - a request about a removed member fails with "not found" - is   *)
(* kept by dropping n from every list of IDs when n is removed.            *)
(***************************************************************************)
EXTENDS EtcdHealth, FiniteSets

CONSTANTS Nodes,      \* control-plane nodes, by internal IP
          NoNode,     \* a value that is not a node
          MaxLate     \* bound: requests in flight after their caller timed out

ASSUME NodesAssumption == IsFiniteSet(Nodes) /\ NoNode \notin Nodes
ASSUME MaxLateAssumption == MaxLate \in Nat

VARIABLES member,     \* member[n]: "none", "learner" or "voter"
          started,    \* started[n]: the member has published its client URLs
          proc,       \* etcd container on n: "off", "waiting" (running, not
                      \* ready) or "serving"
          late        \* requests <<operation, n>> that may still be applied

etcdVars == <<member, started, proc, late>>

Ops == {"add", "promote", "remove"} \X Nodes

Members == {n \in Nodes : member[n] # "none"}
Voters == {n \in Nodes : member[n] = "voter"}
Learners == {n \in Nodes : member[n] = "learner"}
Serving == {n \in Nodes : proc[n] = "serving"}
Unstarted == {n \in Members : ~started[n]}

(* A majority of the voters serves.  Every call of the operator's client is a
   linearized request (the pool checks a client with MemberList before it
   hands it out), so none succeeds without it. *)
HasQuorum ==
    Cardinality(Voters \cap Serving) >= (Cardinality(Voters) \div 2) + 1

(* GetMemberHealth: an unstarted member is unhealthy without being asked, a
   voter is asked for a linearized read, a learner for a serializable one. *)
Healthy(n) ==
    /\ started[n]
    /\ proc[n] = "serving"
    /\ member[n] = "voter" => HasQuorum

UnhealthyMembers == {n \in Members : ~Healthy(n)}
HealthyVotingMembers == {n \in Voters : Healthy(n)}

-----------------------------------------------------------------------------
(* The membership requests, when the server accepts them. *)

(* MemberAddAsLearner: the client lists the members first and does nothing
   when the peer URL is already one of them. *)
CanAddLearner(n) ==
    /\ n \in Nodes \ Members
    /\ HasQuorum
    /\ ServerAllowsAdd(Cardinality(Voters), Cardinality(Voters \cap Serving))

AddLearner(n) ==
    /\ member' = [member EXCEPT ![n] = "learner"]
    /\ started' = [started EXCEPT ![n] = FALSE]

CanPromote(n) ==
    /\ n \in Learners
    /\ HasQuorum
    /\ started[n]              \* a learner that never joined has no match index
    /\ ServerEnoughStarted(Cardinality(Voters) + 1,
                           Cardinality(Voters \ Unstarted) + 1)

Promote(n) ==
    /\ member' = [member EXCEPT ![n] = "voter"]
    /\ UNCHANGED started

CanRemove(n) ==
    /\ n \in Members
    /\ HasQuorum
    /\ n \in Voters =>
         /\ ServerEnoughStarted(Cardinality(Voters) - 1,
                                Cardinality(Voters \ (Unstarted \cup {n})))
         /\ \/ proc[n] # "serving"
            \/ ServerAllowsActiveRemoval(Cardinality(Voters),
                                         Cardinality(Voters \cap Serving))

(* Mutant: the member list keeps an entry for the removed member. *)
RemoveWithTombstone(n) ==
    /\ member' = [member EXCEPT ![n] = "removed"]
    /\ started' = [started EXCEPT ![n] = FALSE]
    /\ proc' = [proc EXCEPT ![n] = IF @ = "serving" THEN "waiting" ELSE @]
    /\ late' = late \ {<<"promote", n>>, <<"remove", n>>}

(* A removed member's etcd stops serving; requests that name its ID die. *)
Remove(n) ==
    /\ member' = [member EXCEPT ![n] = "none"]
    /\ started' = [started EXCEPT ![n] = FALSE]
    /\ proc' = [proc EXCEPT ![n] = IF @ = "serving" THEN "waiting" ELSE @]
    /\ late' = late \ {<<"promote", n>>, <<"remove", n>>}

(* The caller's 30 second timeout expires while the request is in flight. *)
TimeOut(op) ==
    /\ Cardinality(late) < MaxLate
    /\ late' = late \cup {op}

=============================================================================
