--------------------------- MODULE MCRegistryLookup --------------------------
(* A small instance of RegistryLookup: two registries, in both orders and one *)
(* alone.  A minute is one tick and an hour two.                              *)
EXTENDS RegistryLookup, TLC

CONSTANTS r1, r2, d1, d2, l1, l2

MCLists == {<<r1, r2>>, <<r2, r1>>, <<r2>>}

\* One option at a time.
MCFewOptions == {[fresh |-> FALSE, exhaustive |-> FALSE], [fresh |-> TRUE, exhaustive |-> FALSE],
                 [fresh |-> FALSE, exhaustive |-> TRUE]}

MCSymmetry == Permutations({l1, l2}) \cup Permutations({d1, d2})

=============================================================================
