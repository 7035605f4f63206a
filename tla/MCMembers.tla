----------------------------- MODULE MCMembers -----------------------------
(* Small instances of MemberManagement: the three machines a, b, c of an
   installed cluster and one or two machines s, t that may be added. *)
EXTENDS MemberManagement

CONSTANTS a, b, c, s, t

Four == {a, b, c, s}
Installed == {a, b, c}

(* What is left after the loss of a, and the machines that replace it. *)
Regrown == {b, c, s, t}
Survivors == {b, c}

(* Two failure domains, so that the candidates of a scale-down differ. *)
Domains == [n \in Nodes |-> IF n \in {c, s} THEN 1 ELSE 0]
=============================================================================
