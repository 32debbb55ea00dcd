--------------------------- MODULE MCPaymentSetup ---------------------------
(***************************************************************************)
(* PaymentSetup on small instances: see the .cfg files named Setup_*.      *)
(***************************************************************************)
EXTENDS PaymentSetup, TLC

CONSTANTS r1, r2, c1, c2, n1, n2

OneRequest   == {r1}
TwoRequests  == {r1, r2}
OneCustomer  == {c1}
TwoCustomers == {c1, c2}
OneNumber    == {n1}
TwoNumbers   == {n1, n2}

SubmissionSymmetry == Permutations(Requests)
=============================================================================
