---------------------------- MODULE MCManagement ----------------------------
(* Management with clusters in namespaces of their own, or all in one.     *)
EXTENDS Management, TLC

OwnNamespace    == [c \in Clusters |-> c]
SharedNamespace == [c \in Clusters |-> "shared"]

Alike == Permutations(Clusters)
=============================================================================
