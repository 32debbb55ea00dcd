------------------------------ MODULE Purchase ------------------------------
(***************************************************************************)
(* What a checkout promises about a cart: it is charged for once, then     *)
(* there is an order for all of it, and then it is closed.  A cart that    *)
(* has been charged for does not stay that way.                            *)
(***************************************************************************)
EXTENDS Naturals, Sequences

VARIABLES
  purchase,   \* purchase[c]: how far the cart c has come
  bills       \* bills[c]: how often it was charged for

Open ==
  /\ purchase' = Append(purchase, "open")
  /\ bills' = Append(bills, 0)

Move(c, from, to) ==
  purchase[c] = from /\ purchase' = [purchase EXCEPT ![c] = to]

Charge ==
  \E c \in DOMAIN purchase :
    Move(c, "open", "charged") /\ bills' = [bills EXCEPT ![c] = @ + 1]

Order ==
  UNCHANGED bills /\ \E c \in DOMAIN purchase : Move(c, "charged", "ordered")

Close ==
  UNCHANGED bills /\ \E c \in DOMAIN purchase : Move(c, "ordered", "closed")

Init == purchase = << >> /\ bills = << >>

Next == Open \/ Charge \/ Order \/ Close

\* What never happens, without what happens in the end.
Safety == Init /\ [][Next]_<< purchase, bills >>

Spec ==
  /\ Safety
  /\ WF_<< purchase, bills >>(Order)
  /\ WF_<< purchase, bills >>(Close)
=============================================================================
