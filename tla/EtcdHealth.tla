----------------------------- MODULE EtcdHealth -----------------------------
(***************************************************************************)
(* The arithmetic of quorum and of scaling safety, shared by every module: *)
(* pkg/etcdcli/health.go, pkg/operator/ceohelpers/bootstrap.go and the     *)
(* reconfiguration checks of the etcd server that the operator's calls run *)
(* into.  Everything here is a constant-level operator.                    *)
(***************************************************************************)
EXTENDS Integers

(* MinimumTolerableQuorum: the smallest majority of a cluster of that many
   members; the code returns the value 0 and an error for members <= 0. *)
MinimumTolerableQuorum(members) ==
    IF members <= 0 THEN 0 ELSE (members \div 2) + 1

(* IsQuorumFaultTolerant(Err): can the cluster lose one more member?  Every
   member of the list counts towards the quorum, learners included. *)
IsQuorumFaultTolerant(totalMembers, healthyMembers) ==
    LET quorum == MinimumTolerableQuorum(totalMembers)
    IN  /\ totalMembers > 0
        /\ totalMembers - quorum >= 1
        /\ healthyMembers - quorum >= 1

(* etcd server, mayAddMember: with the new member counted as unavailable, the
   connected voters are still a majority; a single voter may always add. *)
ServerAllowsAdd(voters, active) ==
    voters = 1 \/ active >= MinimumTolerableQuorum(voters + 1)

(* Mutant: the majority of what remains instead of what was there. *)
ServerAllowsRemovalOfMore(voters, active) ==
    active - 1 >= 1 + ((voters - 2) \div 2)

(* etcd server, mayRemoveMember: an active voter may leave only if the active
   ones that stay are a majority of what was there. *)
ServerAllowsActiveRemoval(voters, active) ==
    active - 1 >= 1 + ((voters - 1) \div 2)

(* etcd server, IsReadyToRemoveVotingMember and IsReadyToPromoteMember: the
   started voters of the resulting cluster are a majority of it. *)
ServerEnoughStarted(voters, startedVoters) ==
    startedVoters >= (voters \div 2) + 1
=============================================================================
