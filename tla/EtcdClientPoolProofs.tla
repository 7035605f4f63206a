------------------------ MODULE EtcdClientPoolProofs ------------------------
(***************************************************************************)
(* Proofs about EtcdClientPool, for every number of jobs, clients, tokens  *)
(* and tries: the accounting of tokens, the ownership of clients, and that *)
(* the pool implements ClientLease.                                        *)
(***************************************************************************)
EXTENDS EtcdClientPool, TLAPS, FiniteSetTheorems

(* A job has a client exactly at these places. *)
Having == {"check", "close", "use", "join", "probe", "return", "drop"}
HeldWhere == \A j \in Jobs : cli[j] # NoClient <=> pc[j] \in Having

(* The goroutines of a health check run only while their parent waits. *)
SpawnedByParent ==
    \A k \in Jobs : Parent[k] # NoJob /\ pc[k] # "idle" => pc[Parent[k]] = "join"

(* Only a client that a probe is using points at a single member. *)
AimedAtCluster ==
    \A j \in Jobs : pc[j] \in Having \ {"probe"} => aim[cli[j]] \in Endpoints

OwnInv == TypeOK /\ ClientsOwned /\ HeldWhere /\ SpawnedByParent
          /\ AimedAtCluster /\ PooledAimAtCluster


(* A new pool holds no clients and no job has one. *)
LEMMA OwnInit == Init => OwnInv
<1> USE PoolAssumption DEF Init, OwnInv
<1>1. Init => TypeOK
  BY FS_EmptySet DEF TypeOK
<1>2. Init => ClientsOwned /\ HeldWhere /\ SpawnedByParent /\ AimedAtCluster
              /\ PooledAimAtCluster
  BY DEF ClientsOwned, HeldWhere, SpawnedByParent, AimedAtCluster, PooledAimAtCluster, Having
<1>3. QED
  BY <1>1, <1>2

(* Steps that move one job along and leave the clients alone. *)
LEMMA OwnMove ==
  ASSUME OwnInv, NEW j \in Jobs, NEW l, Goto(j, l),
         \/ l \in {"idle", "start", "take", "wait", "create"} /\ pc[j] \notin Having
         \/ l \in Having \ {"probe"} /\ pc[j] \in Having \ {"probe"},
         pc[j] = "join" => \A k \in Children(j) : pc[k] = "idle",
         pc[j] = "idle" => Parent[j] = NoJob,
         try' \in [Jobs -> 0..(Retries - 1)],
         want' \in [Jobs -> Endpoints],
         tokens' \in 0..MaxOpen,
         current' \in Endpoints,
         UNCHANGED <<cli, pool, open, aim>>
  PROVE  OwnInv'
<1> USE PoolAssumption DEF OwnInv, TypeOK, Goto, Having
<1>1. TypeOK'
  OBVIOUS
<1>2. ClientsOwned' /\ PooledAimAtCluster'
  BY DEF ClientsOwned, PooledAimAtCluster
<1>3. HeldWhere'
  BY DEF HeldWhere
<1>4. SpawnedByParent'
  BY DEF SpawnedByParent, Children
<1>5. AimedAtCluster'
  BY DEF AimedAtCluster
<1>6. QED
  BY <1>1, <1>2, <1>3, <1>4, <1>5

(* Giving a token back, returnClosedClient never overfills the channel. *)
LEMMA TokensTyped ==
  ASSUME TypeOK, tokens' = tokens \/ ReturnToken \/ (tokens > 0 /\ tokens' = tokens - 1)
  PROVE  tokens' \in 0..MaxOpen
  BY PoolAssumption DEF TypeOK, ReturnToken

(* The loop of Get stays within its retries. *)
LEMMA RetryTyped ==
  ASSUME TypeOK, NEW j \in Jobs, Retry(j)
  PROVE  /\ try' \in [Jobs -> 0..(Retries - 1)]
         /\ \E l \in {"take", "idle"} : Goto(j, l)
<1>1. try' \in [Jobs -> 0..(Retries - 1)]
  BY PoolAssumption DEF TypeOK, Retry
<1>2. \E l \in {"take", "idle"} : Goto(j, l)
  BY DEF Retry
<1>3. QED
  BY <1>1, <1>2

(* The steps of Get and Return that only wait or fail. *)
LEMMA OwnWaits ==
  ASSUME OwnInv, NEW j \in Jobs,
         Call(j) \/ ReadEndpoints(j) \/ AwaitToken(j) \/ Reject(j) \/ Request(j) \/ Join(j)
  PROVE  OwnInv'
<1>1. /\ TypeOK /\ try \in [Jobs -> 0..(Retries - 1)] /\ want \in [Jobs -> Endpoints]
      /\ tokens \in 0..MaxOpen /\ current \in Endpoints /\ 0 \in 0..(Retries - 1)
  BY PoolAssumption DEF OwnInv, TypeOK
<1>2. CASE Call(j)
  BY <1>1, <1>2, OwnMove DEF Call, Having
<1>3. CASE ReadEndpoints(j)
  <2>1. want' \in [Jobs -> Endpoints]
    BY <1>1, <1>3 DEF ReadEndpoints
  <2>2. CASE Goto(j, "take")
    BY <1>1, <1>3, <2>1, <2>2, OwnMove DEF ReadEndpoints, Having
  <2>3. CASE Goto(j, "idle")
    BY <1>1, <1>3, <2>1, <2>3, OwnMove DEF ReadEndpoints, Having
  <2>4. QED
    BY <1>3, <2>2, <2>3 DEF ReadEndpoints
<1>4. CASE AwaitToken(j)
  <2>1. tokens' \in 0..MaxOpen
    BY <1>1, <1>4, TokensTyped DEF AwaitToken
  <2>2. QED
    BY <1>1, <1>4, <2>1, OwnMove DEF AwaitToken, Having
<1>5. CASE Reject(j)
  <2>1. try' \in [Jobs -> 0..(Retries - 1)]
    BY <1>1, <1>5 DEF Reject
  <2>2. QED
    BY <1>1, <1>5, <2>1, OwnMove DEF Reject, Having
<1>6. CASE Request(j)
  BY <1>1, <1>6, OwnMove DEF Request, Having
<1>7. CASE Join(j)
  BY <1>1, <1>7, OwnMove DEF Join, Having
<1>8. QED
  BY <1>2, <1>3, <1>4, <1>5, <1>6, <1>7

(* A job comes to have a client that nobody else has. *)
LEMMA OwnGain ==
  ASSUME OwnInv, NEW j \in Jobs, NEW c \in Clients,
         pc[j] \in {"take", "create"}, Goto(j, "check"),
         cli' = [cli EXCEPT ![j] = c],
         \A k \in Jobs : cli[k] # c,
         pool' = pool \ {c}, open' = open \cup {c},
         aim'[c] \in Endpoints, \A d \in Clients \ {c} : aim'[d] = aim[d],
         aim' \in [Clients -> Endpoints \cup {"member"}],
         UNCHANGED <<try, want, tokens, current>>
  PROVE  OwnInv'
<1> USE PoolAssumption DEF OwnInv, TypeOK, Goto, Having
<1>1. TypeOK'
  <2>1. Cardinality(pool') <= MaxCached
    <3>1. IsFiniteSet(pool)
      BY FS_Subset
    <3>2. Cardinality(pool') <= Cardinality(pool) /\ Cardinality(pool) \in Nat
          /\ Cardinality(pool') \in Nat
      BY <3>1, FS_Subset, FS_CardinalityType
    <3>3. QED
      BY <3>2
  <2>2. QED
    BY <2>1
<1>2. ClientsOwned'
  BY DEF ClientsOwned
<1>3. HeldWhere'
  BY DEF HeldWhere
<1>4. SpawnedByParent'
  BY DEF SpawnedByParent
<1>5. AimedAtCluster'
  BY DEF AimedAtCluster, HeldWhere
<1>6. PooledAimAtCluster'
  BY DEF PooledAimAtCluster
<1>7. QED
  BY <1>1, <1>2, <1>3, <1>4, <1>5, <1>6

(* Get receives an idle client from the channel, or waits. *)
LEMMA OwnTake == ASSUME OwnInv, NEW j \in Jobs, Take(j) PROVE OwnInv'
<1>1. /\ try \in [Jobs -> 0..(Retries - 1)] /\ want \in [Jobs -> Endpoints]
      /\ tokens \in 0..MaxOpen /\ current \in Endpoints /\ pool \subseteq Clients
      /\ aim \in [Clients -> Endpoints \cup {"member"}]
  BY DEF OwnInv, TypeOK
<1>2. CASE pool # {}
  <2>1. PICK c \in pool : cli' = [cli EXCEPT ![j] = c] /\ pool' = pool \ {c} /\ Goto(j, "check")
    BY <1>2 DEF Take
  <2>2. open \cup {c} = open /\ aim[c] \in Endpoints /\ \A k \in Jobs : cli[k] # c
    BY DEF OwnInv, ClientsOwned, PooledAimAtCluster
  <2>3. QED
    BY <1>1, <2>1, <2>2, OwnGain DEF Take
<1>3. CASE pool = {}
  BY <1>1, <1>3, OwnMove DEF Take, Having
<1>4. QED
  BY <1>2, <1>3

(* Get makes a client with newFunc, or returns the token. *)
LEMMA OwnCreate == ASSUME OwnInv, NEW j \in Jobs, Create(j) PROVE OwnInv'
<1>1. /\ TypeOK /\ try \in [Jobs -> 0..(Retries - 1)] /\ want \in [Jobs -> Endpoints]
      /\ tokens \in 0..MaxOpen /\ current \in Endpoints /\ pool \subseteq Clients
      /\ aim \in [Clients -> Endpoints \cup {"member"}]
  BY DEF OwnInv, TypeOK
<1>2. ASSUME NEW c \in Clients \ open, open' = open \cup {c},
             aim' = [aim EXCEPT ![c] = current], cli' = [cli EXCEPT ![j] = c],
             Goto(j, "check"), UNCHANGED <<try, tokens>>
      PROVE  OwnInv'
  <2>1. (\A k \in Jobs : cli[k] # c) /\ pool \ {c} = pool
    BY PoolAssumption DEF OwnInv, ClientsOwned
  <2>2. aim'[c] \in Endpoints /\ (\A d \in Clients \ {c} : aim'[d] = aim[d])
        /\ aim' \in [Clients -> Endpoints \cup {"member"}]
    BY <1>1, <1>2
  <2>3. QED
    BY <1>2, <2>1, <2>2, OwnGain DEF Create
<1>3. CASE Retry(j) /\ ReturnToken /\ UNCHANGED <<cli, open, aim>>
  <2>1. try' \in [Jobs -> 0..(Retries - 1)] /\ tokens' \in 0..MaxOpen
    BY <1>1, <1>3, RetryTyped, TokensTyped
  <2>2. ASSUME NEW l \in {"take", "idle"}, Goto(j, l) PROVE OwnInv'
    BY <1>1, <1>3, <2>1, <2>2, OwnMove DEF Create, Having
  <2>3. QED
    BY <1>1, <1>3, <2>2, RetryTyped
<1>4. QED
  BY <1>2, <1>3 DEF Create

(* Get aims its client at the endpoints it read and checks it. *)
LEMMA OwnCheck == ASSUME OwnInv, NEW j \in Jobs, Check(j) PROVE OwnInv'
<1> USE PoolAssumption DEF OwnInv, TypeOK, Check, Goto, Having
<1>1. cli[j] \in Clients
  BY DEF HeldWhere
<1>2. TypeOK'
  BY <1>1, TokensTyped
<1>3. ClientsOwned' /\ HeldWhere' /\ SpawnedByParent'
  BY DEF ClientsOwned, HeldWhere, SpawnedByParent
<1>4. AimedAtCluster' /\ PooledAimAtCluster'
  BY <1>1 DEF AimedAtCluster, PooledAimAtCluster, HeldWhere, ClientsOwned
<1>5. QED
  BY <1>2, <1>3, <1>4

(* A job gives up its client, to the pool or for good. *)
LEMMA OwnLose ==
  ASSUME OwnInv, NEW j \in Jobs, NEW l \in {"idle", "take"}, Goto(j, l),
         pc[j] \in {"close", "return", "drop"},
         cli' = [cli EXCEPT ![j] = NoClient],
         \/ pool' = pool \cup {cli[j]} /\ open' = open /\ Cardinality(pool') <= MaxCached
         \/ pool' = pool /\ open' = open \ {cli[j]},
         try' \in [Jobs -> 0..(Retries - 1)],
         UNCHANGED <<want, tokens, aim, current>>
  PROVE  OwnInv'
<1> USE PoolAssumption DEF OwnInv, TypeOK, Goto, Having
<1>1. cli[j] \in Clients /\ aim[cli[j]] \in Endpoints /\ cli[j] \in open
      /\ (\A k \in Jobs : cli[k] = cli[j] => k = j) /\ cli[j] \notin pool
  BY DEF HeldWhere, AimedAtCluster, ClientsOwned
<1>2. TypeOK'
  BY <1>1
<1>3. ClientsOwned'
  BY <1>1 DEF ClientsOwned
<1>4. HeldWhere' /\ SpawnedByParent'
  BY DEF HeldWhere, SpawnedByParent
<1>5. AimedAtCluster' /\ PooledAimAtCluster'
  BY <1>1 DEF AimedAtCluster, PooledAimAtCluster
<1>6. QED
  BY <1>2, <1>3, <1>4, <1>5

(* A client that is closed, unhealthy or in excess, has no owner any more. *)
LEMMA OwnCloses ==
  ASSUME OwnInv, NEW j \in Jobs, CloseUnhealthy(j) \/ CloseExtra(j) PROVE OwnInv'
<1>1. TypeOK /\ try \in [Jobs -> 0..(Retries - 1)]
  BY DEF OwnInv, TypeOK
<1>2. CASE CloseUnhealthy(j)
  <2>1. try' \in [Jobs -> 0..(Retries - 1)]
    BY <1>1, <1>2, RetryTyped DEF CloseUnhealthy
  <2>2. CASE Goto(j, "take")
    BY <1>2, <2>1, <2>2, OwnLose DEF CloseUnhealthy
  <2>3. CASE Goto(j, "idle")
    BY <1>2, <2>1, <2>3, OwnLose DEF CloseUnhealthy
  <2>4. QED
    BY <1>2, <2>2, <2>3 DEF CloseUnhealthy, Retry
<1>3. CASE CloseExtra(j)
  BY <1>1, <1>3, OwnLose DEF CloseExtra
<1>4. QED
  BY <1>2, <1>3

(* Return puts a client into the channel, or prepares to close it. *)
LEMMA OwnReturn == ASSUME OwnInv, NEW j \in Jobs, Return(j) PROVE OwnInv'
<1>1. /\ TypeOK /\ try \in [Jobs -> 0..(Retries - 1)] /\ want \in [Jobs -> Endpoints]
      /\ current \in Endpoints /\ pool \subseteq Clients
  BY DEF OwnInv, TypeOK
<1>2. CASE Cardinality(pool) < MaxCached
  <2>1. IsFiniteSet(pool) /\ Cardinality(pool) \in Nat
    BY <1>1, PoolAssumption, FS_Subset, FS_CardinalityType
  <2>2. Cardinality(pool \cup {cli[j]}) <= MaxCached
    <3>1. Cardinality(pool \cup {cli[j]}) \in {Cardinality(pool), Cardinality(pool) + 1}
      BY <2>1, FS_AddElement
    <3>2. QED
      BY <1>2, <2>1, <3>1, PoolAssumption
  <2>3. QED
    BY <1>1, <1>2, <2>2, OwnLose DEF Return
<1>3. CASE ~(Cardinality(pool) < MaxCached)
  <2>1. tokens' \in 0..MaxOpen
    BY <1>1, <1>3, TokensTyped DEF Return
  <2>2. QED
    BY <1>1, <1>3, <2>1, OwnMove DEF Return, Having
<1>4. QED
  BY <1>2, <1>3

(* GetMemberHealth starts its goroutines; each aims its own client at one
   member and back. *)
LEMMA OwnHealth ==
  ASSUME OwnInv, NEW j \in Jobs, Spawn(j) \/ Probe(j) \/ Restore(j) PROVE OwnInv'
<1> USE PoolAssumption DEF OwnInv, TypeOK, Having
<1>1. cli[j] \in Clients /\ (\A k \in Jobs : cli[k] = cli[j] => k = j) /\ cli[j] \notin pool
  BY DEF Spawn, Probe, Restore, HeldWhere, ClientsOwned
<1>2. CASE Spawn(j)
  <2>1. PICK started \in SUBSET Children(j) :
          pc' = [k \in Jobs |-> IF k = j THEN "join"
                                ELSE IF k \in started THEN "start" ELSE pc[k]]
    BY <1>2 DEF Spawn
  <2>2. \A k \in started : k # j /\ pc[k] = "idle"
    BY <1>2 DEF Spawn, SpawnedByParent, Children
  <2>3. TypeOK' /\ ClientsOwned' /\ PooledAimAtCluster'
    BY <1>2, <2>1 DEF Spawn, ClientsOwned, PooledAimAtCluster
  <2>4. HeldWhere' /\ AimedAtCluster'
    BY <1>2, <2>1, <2>2 DEF Spawn, HeldWhere, AimedAtCluster
  <2>5. SpawnedByParent'
    BY <1>2, <2>1, <2>2 DEF Spawn, SpawnedByParent, Children
  <2>6. QED
    BY <2>3, <2>4, <2>5
<1>3. CASE Probe(j)
  <2>1. TypeOK'
    BY <1>1, <1>3 DEF Probe, Goto, AimedAtCluster
  <2>2. ClientsOwned' /\ HeldWhere' /\ SpawnedByParent'
    BY <1>3 DEF Probe, Goto, ClientsOwned, HeldWhere, SpawnedByParent
  <2>3. AimedAtCluster' /\ PooledAimAtCluster'
    BY <1>1, <1>3 DEF Probe, Goto, AimedAtCluster, PooledAimAtCluster, HeldWhere
  <2>4. QED
    BY <2>1, <2>2, <2>3
<1>4. CASE Restore(j)
  <2>1. TypeOK'
    BY <1>1, <1>4 DEF Restore, Goto
  <2>2. ClientsOwned' /\ HeldWhere' /\ SpawnedByParent'
    BY <1>4 DEF Restore, Goto, ClientsOwned, HeldWhere, SpawnedByParent
  <2>3. AimedAtCluster' /\ PooledAimAtCluster'
    BY <1>1, <1>4 DEF Restore, Goto, AimedAtCluster, PooledAimAtCluster, HeldWhere
  <2>4. QED
    BY <2>1, <2>2, <2>3
<1>5. QED
  BY <1>2, <1>3, <1>4

(* Every step of Get, Return, the health check and the cluster keeps OwnInv. *)
LEMMA OwnStep == OwnInv /\ [Next]_vars => OwnInv'
<1> SUFFICES ASSUME OwnInv, [Next]_vars PROVE OwnInv'
  OBVIOUS
<1>1. ASSUME NEW j \in Jobs, Call(j) \/ Step(j) PROVE OwnInv'
  BY <1>1, OwnWaits, OwnTake, OwnCreate, OwnCheck, OwnCloses, OwnReturn, OwnHealth DEF Step
<1>2. CASE ChangeEndpoints
  BY <1>2 DEF ChangeEndpoints, OwnInv, TypeOK, ClientsOwned, HeldWhere, SpawnedByParent,
              AimedAtCluster, PooledAimAtCluster
<1>3. CASE UNCHANGED vars
  BY <1>3 DEF vars, OwnInv, TypeOK, ClientsOwned, HeldWhere, SpawnedByParent,
              AimedAtCluster, PooledAimAtCluster
<1>4. QED
  BY <1>1, <1>2, <1>3 DEF Next

(* OwnInv is an invariant of the pool: besides ownership it says where a job that
   has a client stands, that the goroutines of a health check run only while
   their caller waits for them, and what clients are aimed at. *)
THEOREM OwnInvariant == Spec => []OwnInv
  BY OwnInit, OwnStep, PTL DEF Spec

(* The pool never mixes up clients: one owner each, none of them closed, whatever
   the interleaving of calls, health checks and failures. *)
THEOREM ClientsHaveOneOwner == Spec => []ClientsOwned
  BY OwnInvariant, PTL DEF OwnInv

(* The pool never holds more clients than it may, and every try, token and aim stays in
   its range (Get, Return, returnClosedClient). *)
THEOREM TypeCorrect == Spec => []TypeOK
  BY OwnInvariant, PTL DEF OwnInv

(* A client that a health check aimed at one member is aimed at the cluster again before
   it is pooled, whatever the checks and the other users do (getMemberHealth). *)
THEOREM PooledClientsAimAtCluster == Spec => []PooledAimAtCluster
  BY OwnInvariant, PTL DEF OwnInv

-----------------------------------------------------------------------------
(* The accounting of tokens *)

(* Tokens, jobs that hold one and idle clients can be counted. *)
LEMMA Counts ==
  ASSUME OwnInv
  PROVE  /\ IsFiniteSet(Holding) /\ Cardinality(Holding) \in Nat
         /\ IsFiniteSet(pool) /\ Cardinality(pool) \in Nat
         /\ tokens \in Nat
<1>1. IsFiniteSet(Holding) /\ IsFiniteSet(pool)
  BY PoolAssumption, FS_Subset DEF Holding, OwnInv, TypeOK
<1>2. QED
  BY <1>1, FS_CardinalityType DEF OwnInv, TypeOK

(* What becomes of the sum when a job starts or stops holding a token. *)
LEMMA HoldingMoves ==
  ASSUME OwnInv, NEW j \in Jobs, NEW l, Goto(j, l)
  PROVE  LET H == {"create", "check", "use", "join", "probe", "return"}
         IN  Cardinality(Holding') =
               IF pc[j] \in H THEN IF l \in H THEN Cardinality(Holding)
                                   ELSE Cardinality(Holding) - 1
               ELSE IF l \in H THEN Cardinality(Holding) + 1 ELSE Cardinality(Holding)
<1> DEFINE H == {"create", "check", "use", "join", "probe", "return"}
<1>1. Holding' = IF l \in H THEN Holding \cup {j} ELSE Holding \ {j}
  BY DEF Goto, Holding, OwnInv, TypeOK
<1>2. j \in Holding <=> pc[j] \in H
  BY DEF Holding
<1>3. IsFiniteSet(Holding) /\ Cardinality(Holding) \in Nat
  BY Counts
<1>4. Cardinality(Holding \cup {j}) = IF j \in Holding THEN Cardinality(Holding)
                                      ELSE Cardinality(Holding) + 1
  BY <1>3, FS_AddElement
<1>5. Cardinality(Holding \ {j}) = IF j \in Holding THEN Cardinality(Holding) - 1
                                   ELSE Cardinality(Holding)
  BY <1>3, FS_RemoveElement
<1>6. QED
  BY <1>1, <1>2, <1>4, <1>5

(* A token that is given back finds room in the channel. *)
LEMMA TokenFits ==
  ASSUME OwnInv, TokensConserved, NEW j \in Holding, ReturnToken
  PROVE  tokens' = tokens + 1
<1>1. Cardinality(Holding) # 0
  BY Counts, FS_EmptySet
<1>2. QED
  BY <1>1, Counts, PoolAssumption DEF TokensConserved, ReturnToken

(* Every step of a job moves a token or leaves all of them where they are. *)
LEMMA TokensStepJob ==
  ASSUME OwnInv, TokensConserved, NEW j \in Jobs, Call(j) \/ Step(j)
  PROVE  TokensConserved'
<1> USE Counts, PoolAssumption DEF TokensConserved
<1>1. CASE Call(j) \/ ReadEndpoints(j) \/ Reject(j)
  BY <1>1, HoldingMoves DEF Call, ReadEndpoints, Reject
<1>2. CASE Request(j) \/ Join(j) \/ Probe(j) \/ Restore(j)
  BY <1>2, HoldingMoves DEF Request, Join, Probe, Restore
<1>3. CASE CloseExtra(j)
  BY <1>3, HoldingMoves DEF CloseExtra
<1>4. CASE CloseUnhealthy(j)
  <2>1. PICK l \in {"take", "idle"} : Goto(j, l)
    BY <1>4, RetryTyped DEF CloseUnhealthy, OwnInv
  <2>2. QED
    BY <1>4, <2>1, HoldingMoves DEF CloseUnhealthy
<1>5. CASE AwaitToken(j)
  BY <1>5, HoldingMoves DEF AwaitToken
<1>6. CASE Take(j)
  <2>1. CASE pool = {}
    BY <1>6, <2>1, HoldingMoves DEF Take
  <2>2. CASE pool # {}
    <3>1. PICK c \in pool : pool' = pool \ {c} /\ Goto(j, "check")
      BY <1>6, <2>2 DEF Take
    <3>2. Cardinality(pool') = Cardinality(pool) - 1
      BY <3>1, FS_RemoveElement
    <3>3. Cardinality(Holding') = Cardinality(Holding) + 1
      BY <1>6, <3>1, HoldingMoves DEF Take
    <3>4. QED
      BY <1>6, <3>2, <3>3 DEF Take
  <2>3. QED
    BY <2>1, <2>2
<1>7. CASE Create(j)
  <2>1. CASE Goto(j, "check") /\ UNCHANGED tokens
    BY <1>7, <2>1, HoldingMoves DEF Create
  <2>2. CASE Retry(j) /\ ReturnToken
    <3>1. PICK l \in {"take", "idle"} : Goto(j, l)
      BY <2>2, RetryTyped DEF OwnInv
    <3>2. tokens' = tokens + 1
      BY <1>7, <2>2, TokenFits DEF Create, Holding
    <3>3. QED
      BY <1>7, <3>1, <3>2, HoldingMoves DEF Create
  <2>3. QED
    BY <1>7, <2>1, <2>2 DEF Create
<1>8. CASE Check(j)
  <2>1. CASE Goto(j, "use") /\ UNCHANGED tokens
    BY <1>8, <2>1, HoldingMoves DEF Check
  <2>2. CASE Goto(j, "close") /\ ReturnToken
    <3>1. tokens' = tokens + 1
      BY <1>8, <2>2, TokenFits DEF Check, Holding
    <3>2. QED
      BY <1>8, <2>2, <3>1, HoldingMoves DEF Check
  <2>3. QED
    BY <1>8, <2>1, <2>2 DEF Check
<1>9. CASE Return(j)
  <2>1. CASE pool' = pool \cup {cli[j]} /\ Goto(j, "idle") /\ UNCHANGED tokens
    <3>1. cli[j] \notin pool
      BY DEF OwnInv, ClientsOwned
    <3>2. Cardinality(pool') = Cardinality(pool) + 1
      BY <2>1, <3>1, FS_AddElement
    <3>3. QED
      BY <1>9, <2>1, <3>2, HoldingMoves DEF Return
  <2>2. CASE Goto(j, "drop") /\ ReturnToken /\ UNCHANGED pool
    <3>1. tokens' = tokens + 1
      BY <1>9, <2>2, TokenFits DEF Return, Holding
    <3>2. QED
      BY <1>9, <2>2, <3>1, HoldingMoves DEF Return
  <2>3. QED
    BY <1>9, <2>1, <2>2 DEF Return
<1>10. CASE Spawn(j)
  <2>1. Holding' = Holding
    BY <1>10 DEF Spawn, Holding, OwnInv, SpawnedByParent, Children, TypeOK
  <2>2. QED
    BY <1>10, <2>1 DEF Spawn
<1>11. QED
  BY <1>1, <1>2, <1>3, <1>4, <1>5, <1>6, <1>7, <1>8, <1>9, <1>10 DEF Step

(* NewEtcdClientPool fills the channel of tokens. *)
LEMMA TokensInit == Init => TokensConserved
<1>1. Init => Holding = {} /\ pool = {} /\ tokens = MaxOpen
  BY DEF Init, Holding
<1>2. QED
  BY <1>1, FS_EmptySet, PoolAssumption DEF TokensConserved

(* TokensConserved: no failure in Get or Return shrinks the capacity of the pool or
   lets it grow. *)
THEOREM TokensAddUp == Spec => []TokensConserved
<1>1. OwnInv /\ TokensConserved /\ [Next]_vars => TokensConserved'
  <2> SUFFICES ASSUME OwnInv, TokensConserved, [Next]_vars PROVE TokensConserved'
    OBVIOUS
  <2>1. CASE ChangeEndpoints \/ UNCHANGED vars
    BY <2>1 DEF ChangeEndpoints, vars, TokensConserved, Holding
  <2>2. QED
    BY <2>1, TokensStepJob DEF Next
<1>2. QED
  BY <1>1, TokensInit, OwnInvariant, PTL DEF Spec

-----------------------------------------------------------------------------
(* The refinement *)

Leasing == {"use", "join", "probe"}
leaseBar == [j \in Jobs |-> IF pc[j] \in Leasing THEN cli[j] ELSE NoClient]

(* The jobs that lease a client hold tokens; one that is still checking its client
   holds a token and no lease, so there is room for it. *)
LEMMA RoomForLease ==
  ASSUME OwnInv, TokensConserved, NEW j \in Jobs, pc[j] = "check"
  PROVE  Cardinality(Lease!Leased) < MaxOpen
<1> DEFINE L == Lease!Leased
<1>1. L \subseteq Holding \ {j} /\ j \in Holding
  BY DEF Lease!Leased, Holding
<1>2. /\ IsFiniteSet(Holding \ {j})
      /\ Cardinality(Holding \ {j}) = Cardinality(Holding) - 1
  BY <1>1, Counts, FS_RemoveElement
<1>3. IsFiniteSet(L) /\ Cardinality(L) <= Cardinality(Holding \ {j})
  BY <1>1, <1>2, FS_Subset
<1>4. Cardinality(L) \in Nat
  BY <1>3, FS_CardinalityType
<1>5. QED
  BY <1>2, <1>3, <1>4, Counts, PoolAssumption DEF TokensConserved

(* The instance has its own copy of the operator. *)
LEMMA LeaseCardinality == \A S : Lease!Cardinality(S) = Cardinality(S)
  BY Zenon DEF Lease!Cardinality, Cardinality, Lease!IsFiniteSet, IsFiniteSet

(* Every step of the pool acquires a lease, releases one, or changes none. *)
LEMMA LeaseStep ==
  ASSUME OwnInv, TokensConserved, [Next]_vars PROVE [Lease!Next]_leaseBar
<1> USE DEF leaseBar, Leasing
<1>1. ASSUME NEW j \in Jobs, NEW l, Goto(j, l), cli'[j] = cli[j] \/ {pc[j], l} \cap Leasing = {},
             \A k \in Jobs \ {j} : cli'[k] = cli[k],
             pc[j] \in Leasing <=> l \in Leasing
      PROVE  UNCHANGED leaseBar
  BY <1>1 DEF Goto, OwnInv, TypeOK
<1>2. ASSUME NEW j \in Jobs, pc[j] \in Leasing, Goto(j, "return"), UNCHANGED cli
      PROVE  Lease!Next
  <2>1. leaseBar[j] # NoClient
    BY <1>2 DEF OwnInv, HeldWhere, Having
  <2>2. leaseBar' = [leaseBar EXCEPT ![j] = NoClient]
    BY <1>2 DEF Goto, OwnInv, TypeOK
  <2>3. Lease!Release(j)
    BY <2>1, <2>2 DEF Lease!Release
  <2>4. QED
    BY <2>3 DEF Lease!Next
<1>3. ASSUME NEW j \in Jobs, Check(j) PROVE [Lease!Next]_leaseBar
  <2>1. CASE Goto(j, "use")
    <3>1. PICK c \in Clients : c = cli[j] /\ \A k \in Jobs : cli[k] = c => k = j
      BY <1>3 DEF Check, OwnInv, TypeOK, HeldWhere, ClientsOwned, Having
    <3>2. leaseBar[j] = NoClient /\ \A k \in Jobs : leaseBar[k] # c
      BY <1>3, <3>1, PoolAssumption DEF Check
    <3>3. Cardinality(Lease!Leased) < MaxOpen
      BY <1>3, RoomForLease DEF Check
    <3>4. leaseBar' = [leaseBar EXCEPT ![j] = c]
      BY <1>3, <2>1, <3>1 DEF Check, Goto, OwnInv, TypeOK
    <3>5. Lease!Acquire(j, c)
      BY <3>2, <3>3, <3>4, LeaseCardinality DEF Lease!Acquire
    <3>6. Lease!Next
      BY <3>1, <3>5 DEF Lease!Next
    <3>7. QED
      BY <3>6
  <2>2. CASE Goto(j, "close")
    BY <1>1, <1>3, <2>2 DEF Check
  <2>3. QED
    BY <1>3, <2>1, <2>2 DEF Check
<1>4. ASSUME NEW j \in Jobs, Spawn(j) PROVE UNCHANGED leaseBar
  <2>1. PICK started \in SUBSET Children(j) :
          pc' = [k \in Jobs |-> IF k = j THEN "join"
                                ELSE IF k \in started THEN "start" ELSE pc[k]]
    BY <1>4 DEF Spawn
  <2>2. \A k \in started : k # j /\ pc[k] = "idle"
    BY <1>4, PoolAssumption DEF Spawn, SpawnedByParent, Children, OwnInv
  <2>3. UNCHANGED cli /\ pc[j] = "use"
    BY <1>4 DEF Spawn
  <2>4. QED
    BY <2>1, <2>2, <2>3
<1>5. ASSUME NEW j \in Jobs, Request(j) \/ Join(j) \/ Restore(j) PROVE Lease!Next
  BY <1>2, <1>5 DEF Request, Join, Restore
<1>6. ASSUME NEW j \in Jobs, Call(j) \/ ReadEndpoints(j) \/ AwaitToken(j) \/ Reject(j) \/ Probe(j)
      PROVE  UNCHANGED leaseBar
  BY <1>1, <1>6 DEF Call, ReadEndpoints, AwaitToken, Reject, Probe
<1>7. ASSUME NEW j \in Jobs, Take(j) \/ Create(j) \/ Return(j) \/ CloseExtra(j)
             \/ CloseUnhealthy(j)
      PROVE  UNCHANGED leaseBar
  <2>1. pc[j] \in {"take", "create", "return", "drop", "close"}
    BY <1>7 DEF Take, Create, Return, CloseExtra, CloseUnhealthy
  <2>2. PICK l \in {"check", "wait", "take", "idle", "drop"} : Goto(j, l)
    BY <1>7 DEF Take, Create, Return, CloseExtra, CloseUnhealthy, Retry
  <2>3. \A k \in Jobs \ {j} : cli'[k] = cli[k]
    BY <1>7 DEF Take, Create, Return, CloseExtra, CloseUnhealthy, OwnInv, TypeOK
  <2>4. QED
    BY <1>1, <2>1, <2>2, <2>3
<1>8. CASE ChangeEndpoints \/ UNCHANGED vars
  BY <1>8 DEF ChangeEndpoints, vars
<1>9. QED
  BY <1>3, <1>4, <1>5, <1>6, <1>7, <1>8 DEF Next, Step

(* The pool implements ClientLease: exclusive use of clients, no more than MaxOpen
   of them in use. *)
THEOREM PoolImplementsLease == Spec => ImplementsLease
<1>1. Init => Lease!Init
  BY DEF Init, Lease!Init
<1>2. OwnInv /\ TokensConserved /\ [Next]_vars => [Lease!Next]_leaseBar
  BY LeaseStep
<1>3. QED
  BY <1>1, <1>2, OwnInvariant, TokensAddUp, PTL
  DEF Spec, ImplementsLease, Lease!Spec, leaseBar, Leasing
=============================================================================
