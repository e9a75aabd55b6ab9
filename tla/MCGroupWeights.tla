---------------------------- MODULE MCGroupWeights ----------------------------
(* Group weights with interchangeable clusters. *)
EXTENDS GroupWeights, TLC

Symmetry == Permutations(Clusters)
=============================================================================
