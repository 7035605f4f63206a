--------------------------- MODULE EtcdClientPool ---------------------------
(***************************************************************************)
(* The pool of etcd clients that every call of the operator to etcd goes   *)
(* through (pkg/etcdcli/etcdcli_pool.go), and the calls that use it        *)
(* (pkg/etcdcli/etcdcli.go, health.go).                                    *)
(*                                                                         *)
(* A job is one goroutine between Get and Return: a call such as           *)
(* MemberList, or one of the goroutines that GetMemberHealth starts, one   *)
(* per member, while its caller still holds the client it got itself.      *)
(***************************************************************************)
EXTENDS Integers, FiniteSets

CONSTANTS Jobs,       \* goroutines that use the pool
          Parent,     \* Parent[j]: the health check j is a part of, or NoJob
          NoJob,
          Clients,    \* identities of clients; a closed one is used again
          NoClient,
          Endpoints,  \* the lists of endpoints the cluster may have
          MaxOpen,    \* maxNumOpenClients
          MaxCached,  \* maxNumCachedClients
          Retries     \* retries

ASSUME PoolAssumption ==
    /\ IsFiniteSet(Jobs) /\ NoJob \notin Jobs
    /\ Parent \in [Jobs -> Jobs \cup {NoJob}]
    /\ IsFiniteSet(Clients) /\ NoClient \notin Clients
    /\ Endpoints # {} /\ "member" \notin Endpoints
    /\ MaxOpen \in Nat \ {0} /\ MaxCached \in Nat /\ Retries \in Nat \ {0}

VARIABLES pc,        \* pc[j]: where job j stands
          try,       \* try[j]: the iteration of the loop in Get
          want,      \* want[j]: desiredEndpoints
          cli,       \* cli[j]: the client j has
          pool,      \* the channel of idle clients
          tokens,    \* messages in the channel availableOpenClients
          open,      \* clients that are not closed
          aim,       \* aim[c]: the endpoints of client c, or "member"
          current    \* the endpoints of the cluster, as the listers have them

vars == <<pc, try, want, cli, pool, tokens, open, aim, current>>

Children(j) == {k \in Jobs : Parent[k] = j}

(* Where a job stands in its call, and what it and the pool hold, stay in their
   types; the channels stay within their capacities. *)
TypeOK ==
    /\ pc \in [Jobs -> {"idle", "start", "take", "wait", "create", "check", "close",
                        "use", "join", "probe", "return", "drop"}]
    /\ try \in [Jobs -> 0..(Retries - 1)]
    /\ want \in [Jobs -> Endpoints]
    /\ cli \in [Jobs -> Clients \cup {NoClient}]
    /\ pool \subseteq Clients /\ Cardinality(pool) <= MaxCached
    /\ tokens \in 0..MaxOpen
    /\ open \subseteq Clients
    /\ aim \in [Clients -> Endpoints \cup {"member"}]
    /\ current \in Endpoints

(* NewEtcdClientPool *)
Init ==
    /\ current \in Endpoints
    /\ pc = [j \in Jobs |-> "idle"]
    /\ try = [j \in Jobs |-> 0]
    /\ want = [j \in Jobs |-> current]
    /\ cli = [j \in Jobs |-> NoClient]
    /\ pool = {} /\ tokens = MaxOpen
    /\ open = {} /\ aim = [c \in Clients |-> current]

Goto(j, l) == pc' = [pc EXCEPT ![j] = l]

(* returnClosedClient: a full channel is left alone. *)
ReturnToken == tokens' = IF tokens < MaxOpen THEN tokens + 1 ELSE tokens

(* The next iteration of the loop, or the error after the last one. *)
Retry(j) ==
    IF try[j] + 1 < Retries
      THEN Goto(j, "take") /\ try' = [try EXCEPT ![j] = @ + 1]
      ELSE Goto(j, "idle") /\ try' = [try EXCEPT ![j] = 0]

-----------------------------------------------------------------------------
(* Get *)

(* A call comes in; the goroutines of a health check are started by Spawn. *)
Call(j) ==
    /\ pc[j] = "idle" /\ Parent[j] = NoJob
    /\ Goto(j, "start")
    /\ UNCHANGED <<try, want, cli, pool, tokens, open, aim, current>>

(* endpointsFunc, which fails while a lister has not synced. *)
ReadEndpoints(j) ==
    /\ pc[j] = "start"
    /\ \/ Goto(j, "take") /\ want' = [want EXCEPT ![j] = current]
       \/ Goto(j, "idle") /\ UNCHANGED want
    /\ UNCHANGED <<try, cli, pool, tokens, open, aim, current>>

(* Mutant: the client is looked up and not received from the channel. *)
TakeShared(j) ==
    /\ pc[j] = "take"
    /\ IF pool # {}
         THEN \E c \in pool : cli' = [cli EXCEPT ![j] = c] /\ Goto(j, "check")
         ELSE Goto(j, "wait") /\ UNCHANGED cli
    /\ UNCHANGED <<try, want, pool, tokens, open, aim, current>>

(* An idle client is taken; otherwise the job waits for a token. *)
Take(j) ==
    /\ pc[j] = "take"
    /\ IF pool # {}
         THEN \E c \in pool : /\ cli' = [cli EXCEPT ![j] = c]
                              /\ pool' = pool \ {c}
                              /\ Goto(j, "check")
         ELSE Goto(j, "wait") /\ UNCHANGED <<cli, pool>>
    /\ UNCHANGED <<try, want, tokens, open, aim, current>>

(* Mutant: an empty channel of tokens does not block. *)
AwaitNoToken(j) ==
    /\ pc[j] = "wait"
    /\ tokens' = IF tokens > 0 THEN tokens - 1 ELSE tokens
    /\ Goto(j, "create")
    /\ UNCHANGED <<try, want, cli, pool, open, aim, current>>

(* A token is free. *)
AwaitToken(j) ==
    /\ pc[j] = "wait"
    /\ tokens > 0
    /\ tokens' = tokens - 1
    /\ Goto(j, "create")
    /\ UNCHANGED <<try, want, cli, pool, open, aim, current>>

(* Mutant: the timeout leads to another try, and the tries are not counted. *)
RejectLater(j) ==
    /\ pc[j] = "wait"
    /\ tokens = 0
    /\ Goto(j, "take")
    /\ UNCHANGED <<try, want, cli, pool, tokens, open, aim, current>>

(* maxAcquireTime passes without a token: an error, without another try. *)
Reject(j) ==
    /\ pc[j] = "wait"
    /\ tokens = 0
    /\ Goto(j, "idle") /\ try' = [try EXCEPT ![j] = 0]
    /\ UNCHANGED <<want, cli, pool, tokens, open, aim, current>>

(* Mutant: the token of a client that could not be made is lost. *)
CreateLeaky(j) ==
    /\ pc[j] = "create"
    /\ \/ \E c \in Clients \ open :
            /\ open' = open \cup {c}
            /\ aim' = [aim EXCEPT ![c] = current]
            /\ cli' = [cli EXCEPT ![j] = c]
            /\ Goto(j, "check")
            /\ UNCHANGED try
       \/ Retry(j) /\ UNCHANGED <<cli, open, aim>>
    /\ UNCHANGED <<want, pool, tokens, current>>

(* newFunc, which reads the endpoints anew. *)
Create(j) ==
    /\ pc[j] = "create"
    /\ \/ \E c \in Clients \ open :
            /\ open' = open \cup {c}
            /\ aim' = [aim EXCEPT ![c] = current]
            /\ cli' = [cli EXCEPT ![j] = c]
            /\ Goto(j, "check")
            /\ UNCHANGED <<try, tokens>>
       \/ Retry(j) /\ ReturnToken /\ UNCHANGED <<cli, open, aim>>
    /\ UNCHANGED <<want, pool, current>>

(* SetEndpoints and healthFunc; the token of an unhealthy client is given back
   before the client is closed. *)
Check(j) ==
    /\ pc[j] = "check"
    /\ aim' = [aim EXCEPT ![cli[j]] = want[j]]
    /\ \/ Goto(j, "use") /\ try' = [try EXCEPT ![j] = 0] /\ UNCHANGED tokens
       \/ Goto(j, "close") /\ ReturnToken /\ UNCHANGED try
    /\ UNCHANGED <<want, cli, pool, open, current>>

CloseUnhealthy(j) ==
    /\ pc[j] = "close"
    /\ open' = open \ {cli[j]}
    /\ cli' = [cli EXCEPT ![j] = NoClient]
    /\ Retry(j)
    /\ UNCHANGED <<want, pool, tokens, aim, current>>

-----------------------------------------------------------------------------
(* The use of a client *)

(* A call is done with its client after one request. *)
Request(j) ==
    /\ pc[j] = "use" /\ Parent[j] = NoJob
    /\ Goto(j, "return")
    /\ UNCHANGED <<try, want, cli, pool, tokens, open, aim, current>>

(* GetMemberHealth: a goroutine per started member, and the wait for all. *)
Spawn(j) ==
    /\ pc[j] = "use" /\ Parent[j] = NoJob
    /\ \E started \in SUBSET Children(j) :
         /\ started # {}
         /\ pc' = [k \in Jobs |-> IF k = j THEN "join"
                                  ELSE IF k \in started THEN "start" ELSE pc[k]]
    /\ UNCHANGED <<try, want, cli, pool, tokens, open, aim, current>>

Join(j) ==
    /\ pc[j] = "join"
    /\ \A k \in Children(j) : pc[k] = "idle"
    /\ Goto(j, "return")
    /\ UNCHANGED <<try, want, cli, pool, tokens, open, aim, current>>

(* checkSingleMemberHealth points the client at one member. *)
Probe(j) ==
    /\ pc[j] = "use" /\ Parent[j] # NoJob
    /\ aim' = [aim EXCEPT ![cli[j]] = "member"]
    /\ want' = [want EXCEPT ![j] = aim[cli[j]]]
    /\ Goto(j, "probe")
    /\ UNCHANGED <<try, cli, pool, tokens, open, current>>

(* Mutant: the endpoints are not put back. *)
RestoreNothing(j) ==
    /\ pc[j] = "probe"
    /\ Goto(j, "return")
    /\ UNCHANGED <<try, want, cli, pool, tokens, open, aim, current>>

(* Its deferred call points the client back at the endpoints it had. *)
Restore(j) ==
    /\ pc[j] = "probe"
    /\ aim' = [aim EXCEPT ![cli[j]] = want[j]]
    /\ Goto(j, "return")
    /\ UNCHANGED <<try, want, cli, pool, tokens, open, current>>

-----------------------------------------------------------------------------
(* Mutant: one client more than the channel holds. *)
ReturnOffByOne(j) ==
    /\ pc[j] = "return"
    /\ IF Cardinality(pool) <= MaxCached
         THEN /\ pool' = pool \cup {cli[j]}
              /\ cli' = [cli EXCEPT ![j] = NoClient]
              /\ Goto(j, "idle")
              /\ UNCHANGED tokens
         ELSE Goto(j, "drop") /\ ReturnToken /\ UNCHANGED <<pool, cli>>
    /\ UNCHANGED <<try, want, open, aim, current>>

(* Return: into the channel if there is room, else closed. *)
Return(j) ==
    /\ pc[j] = "return"
    /\ IF Cardinality(pool) < MaxCached
         THEN /\ pool' = pool \cup {cli[j]}
              /\ cli' = [cli EXCEPT ![j] = NoClient]
              /\ Goto(j, "idle")
              /\ UNCHANGED tokens
         ELSE Goto(j, "drop") /\ ReturnToken /\ UNCHANGED <<pool, cli>>
    /\ UNCHANGED <<try, want, open, aim, current>>

CloseExtra(j) ==
    /\ pc[j] = "drop"
    /\ open' = open \ {cli[j]}
    /\ cli' = [cli EXCEPT ![j] = NoClient]
    /\ Goto(j, "idle")
    /\ UNCHANGED <<try, want, pool, tokens, aim, current>>

-----------------------------------------------------------------------------
Step(j) == \/ ReadEndpoints(j) \/ Take(j) \/ AwaitToken(j) \/ Reject(j) \/ Create(j)
           \/ Check(j) \/ CloseUnhealthy(j) \/ Request(j) \/ Spawn(j) \/ Join(j)
           \/ Probe(j) \/ Restore(j) \/ Return(j) \/ CloseExtra(j)

(* The etcd-endpoints configmap or the nodes change. *)
ChangeEndpoints ==
    /\ current' \in Endpoints
    /\ UNCHANGED <<pc, try, want, cli, pool, tokens, open, aim>>

Next == ChangeEndpoints \/ \E j \in Jobs : Call(j) \/ Step(j)

Spec == Init /\ [][Next]_vars

(* Goroutines are scheduled, timers fire, and every request has a deadline. *)
FairSpec == Spec /\ \A j \in Jobs : WF_vars(Step(j))

-----------------------------------------------------------------------------
(* Jobs that hold a token, with or without a client made with it. *)
Holding == {j \in Jobs : pc[j] \in {"create", "check", "use", "join", "probe", "return"}}

(* No token is lost or made up, whatever fails in Get and Return: those in the
   channel, those of idle clients and those of jobs add up to the capacity. *)
TokensConserved == tokens + Cardinality(Holding) + Cardinality(pool) = MaxOpen

(* A client has one owner: no two jobs have it, the pool does not hold what a
   job has, and what the pool or a job holds is not closed. *)
ClientsOwned ==
    /\ \A j, k \in Jobs : cli[j] = cli[k] /\ cli[j] # NoClient => j = k
    /\ \A j \in Jobs : cli[j] \notin pool /\ cli[j] \in open \cup {NoClient}
    /\ pool \subseteq open

(* An idle client never stays pointed at the single member that a health check
   aimed it at. *)
PooledAimAtCluster == \A c \in pool : aim[c] \in Endpoints

(* The pool implements the lease of clients; a lease begins with the return of
   Get and ends with the call of Return. *)
Lease == INSTANCE ClientLease WITH
    lease <- [j \in Jobs |-> IF pc[j] \in {"use", "join", "probe"} THEN cli[j]
                             ELSE NoClient]

ImplementsLease == Lease!Spec

(* Every call comes to an end, although a health check holds a client while it
   waits for goroutines that need more of them. *)
CallsEnd == \A j \in Jobs : pc[j] # "idle" ~> pc[j] = "idle"

=============================================================================
