----------------------------- MODULE ClientLease -----------------------------
(***************************************************************************)
(* What the etcd client pool promises its callers (the comment on          *)
(* EtcdClientPool): a client is used by one caller at a time, and at most  *)
(* MaxOpen clients are in use.                                             *)
(***************************************************************************)
EXTENDS Naturals, FiniteSets

CONSTANTS Jobs, Clients, NoClient, MaxOpen

VARIABLE lease    \* lease[j]: the client that caller j uses, or NoClient

Leased == {j \in Jobs : lease[j] # NoClient}

Init == lease = [j \in Jobs |-> NoClient]

Acquire(j, c) ==
    /\ lease[j] = NoClient
    /\ \A k \in Jobs : lease[k] # c
    /\ Cardinality(Leased) < MaxOpen
    /\ lease' = [lease EXCEPT ![j] = c]

Release(j) ==
    /\ lease[j] # NoClient
    /\ lease' = [lease EXCEPT ![j] = NoClient]

Next == \E j \in Jobs : Release(j) \/ \E c \in Clients : Acquire(j, c)

Spec == Init /\ [][Next]_lease
=============================================================================
