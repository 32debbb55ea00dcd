----------------------------- MODULE MCCheckout -----------------------------
(***************************************************************************)
(* Checkout on small instances: see the .cfg files named Checkout_*.       *)
(***************************************************************************)
EXTENDS Checkout

CONSTANTS r1, r2, b1, b2, p1, p2, n1

OneRequest  == {r1}
TwoRequests == {r1, r2}
OneBrowser  == {b1}
OneProduct  == {p1}
TwoProducts == {p1, p2}
OneNumber   == {n1}
NoChoice    == {}

ProcessSymmetry == Permutations(Requests)
=============================================================================
