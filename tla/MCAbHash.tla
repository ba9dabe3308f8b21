------------------------------ MODULE MCAbHash -------------------------------
(* AbHash for TLC: a hash per key.  Keys are named for their hash where    *)
(* hashes differ.                                                          *)
EXTENDS AbHash, TLC

CONSTANTS h1, h3, h5

OwnHash == [k \in Keys |-> CASE k = h1 -> 1 [] k = h3 -> 3 [] OTHER -> 5]
SameHash == [k \in Keys |-> 1]

Symmetry == Permutations(Threads)
==============================================================================
