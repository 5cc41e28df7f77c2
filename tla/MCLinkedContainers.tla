-------------------------- MODULE MCLinkedContainers --------------------------
(* Instances of the containers for TLC.                                    *)
EXTENDS LinkedContainers, TLC

\* No definition names an address or a datum, and nothing is checked of fairness.
Symmetry == Permutations(Nodes) \cup Permutations(Data)
=============================================================================
