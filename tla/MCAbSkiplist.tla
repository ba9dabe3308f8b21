---------------------------- MODULE MCAbSkiplist ----------------------------
(* AbSkiplist for TLC. *)
EXTENDS AbSkiplist, TLC

(* Any two calls on two records, with and without duplicates, and three    *)
(* calls on one key in an empty list without: two inserts and a delete can *)
(* make two records of one key and delete one.                             *)
Lists ==
  {[dupl |-> d, keys |-> Keys, loaded |-> <<1, 2>>, calls |-> 2] : d \in BOOLEAN}
    \cup {[dupl |-> FALSE, keys |-> {1}, loaded |-> <<>>, calls |-> 3]}
SameKeys == {[dupl |-> TRUE, keys |-> Keys, loaded |-> <<1, 1>>, calls |-> 2]}

Symmetry == Permutations(Threads)
==============================================================================
