---------------------------- MODULE MCCJsonTree ----------------------------
\* CJsonTree with four items and one key.
EXTENDS CJsonTree

MCFold == [n \in Name |-> "k"]

Symmetry == Permutations(Item)
=============================================================================
