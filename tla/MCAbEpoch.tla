------------------------------ MODULE MCAbEpoch ------------------------------
(* AbEpoch for TLC, every thread counted, as the proofs assume.  The items *)
(* are model values and interchangeable.                                   *)
EXTENDS AbEpochProofs, TLC

Symmetry == Permutations(Items)
==============================================================================
