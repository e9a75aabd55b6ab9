----------------------------- MODULE MCEntityEditor -----------------------------
(* Two entities of each type; rules fire in the order n1, n2. *)
EXTENDS EntityEditor

CONSTANTS n1, n2

Order == [n \in Names |-> IF n = n1 THEN 1 ELSE 2]
=============================================================================
