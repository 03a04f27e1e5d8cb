----------------------------- MODULE MCSessions -----------------------------
(* Four requests of a browser that may be logged in, two keys, two pages    *)
(* that need a login, and one fault.                                        *)
EXTENDS Sessions, TLC
CONSTANTS r1, r2, r3, r4, k1, k2, todos, notes
SomeRequests == {r1, r2, r3, r4}
SomeKeys == {k1, k2}
SomePaths == {todos, notes}
Symmetry ==
  Permutations(SomeRequests) \cup Permutations(SomeKeys)
=============================================================================
