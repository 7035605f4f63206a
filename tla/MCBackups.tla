----------------------------- MODULE MCBackups -----------------------------
(* Retention policies for the runs of Backups. *)
EXTENDS Backups

MCSpecs == {[type |-> "unset", max |-> 0], [type |-> "RetentionSize", max |-> 2]}
=============================================================================
