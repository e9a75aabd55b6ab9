------------------------------ MODULE MCQueryPath ------------------------------
EXTENDS QueryPath, TLC

CONSTANTS b1, b2, adhoc, etl

(* One backend in each group: straying shows. *)
MCMembers == (adhoc :> {b1}) @@ (etl :> {b2})

Symmetry == Permutations(Requests) \cup Permutations(Queries)
=============================================================================
