------------------------------- MODULE MCLoop -------------------------------
(* Loop for TLC: three clients share two descriptors; for liveness two share one. *)
EXTENDS Loop, TLC

CONSTANTS one, two, three

MCClient == {one, two, three}
MCTwo == {one, two}
MCFd == {4, 5}
MCOneFd == {4}
MCCommands == {"query"}
MCKinds == Kinds

Symmetry == Permutations(MCClient)
=============================================================================
