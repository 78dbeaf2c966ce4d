-------------------------------- MODULE MCReview -------------------------------
(* Instances of Review and of its readers for TLC: no voice has a proposal *)
(* the matcher would vouch for.                                            *)
EXTENDS ReviewQueue, TLC

MCProposed == [r \in Run |-> None]

Symmetry == Permutations(Run) \cup Permutations(Slot) \cup Permutations(Reviewer)
================================================================================
