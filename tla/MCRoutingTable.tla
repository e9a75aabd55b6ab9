---------------------------- MODULE MCRoutingTable ----------------------------
(* The routing table with interchangeable backends and requests. *)
EXTENDS RoutingTable, TLC

Symmetry == Permutations(Backends) \cup Permutations(Requests)
=============================================================================
