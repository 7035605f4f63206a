---------------------------- MODULE MCClientPool ----------------------------
(* Small instances of EtcdClientPool: a health check h of the members m1 and m2,
   and another call r. *)
EXTENDS EtcdClientPool

CONSTANTS h, m1, m2, r

Three == {h, m1, r}
Four == {h, m1, m2, r}
Parents == [j \in Jobs |-> IF j \in {m1, m2} THEN h ELSE NoJob]
=============================================================================
