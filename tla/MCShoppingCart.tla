--------------------------- MODULE MCShoppingCart ---------------------------
(***************************************************************************)
(* ShoppingCart on small instances: see the .cfg files named Cart_*.       *)
(***************************************************************************)
EXTENDS ShoppingCart

CONSTANTS r1, r2, b1, b2, p1, p2, o1

OneRequest  == {r1}
TwoRequests == {r1, r2}
OneBrowser  == {b1}
TwoBrowsers == {b1, b2}
OneProduct  == {p1}
TwoProducts == {p1, p2}
NoChoice    == {}
OneChoice   == {o1}

\* The requests of a process pool are interchangeable.
RequestSymmetry == Permutations(Requests)
=============================================================================
