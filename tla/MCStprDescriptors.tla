-------------------------- MODULE MCStprDescriptors --------------------------
(* Values for the constants of StprDescriptors.                            *)
EXTENDS StprDescriptors, TLC

CONSTANTS a, b

TwoObjects == {a, b}
FourFds == 0..3
(* Bound: no step is taken from a state with two struck descriptors.       *)
FewStruck == Cardinality(struck) < 2
ObjectSymmetry == Permutations(TwoObjects)
=============================================================================
