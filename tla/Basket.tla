------------------------------- MODULE Basket -------------------------------
(***************************************************************************)
(* What a shopper expects of the store's carts: a basket holds so many     *)
(* pieces of each product; one operation concerns one product; checking    *)
(* out closes the basket as it is, and for good.                           *)
(***************************************************************************)
EXTENDS Integers, Sequences

CONSTANT Products

VARIABLE baskets    \* a sequence: new baskets are appended

Init == baskets = << >>

Open ==
  baskets' = Append(baskets,
               [pieces |-> [p \in Products |-> 0], closed |-> FALSE])

\* Whatever the operation makes of this product, it leaves the others alone.
Change(i, p) ==
  /\ Len(baskets') = Len(baskets)
  /\ \E n \in {baskets'[i].pieces[p]} :
       baskets' = [baskets EXCEPT ![i].pieces[p] = n]

Close(i) ==
  /\ ~baskets[i].closed
  /\ baskets' = [baskets EXCEPT ![i].closed = TRUE]

Next ==
  \/ Open
  \/ \E i \in DOMAIN baskets :
       \/ Close(i)
       \/ \E p \in Products : Change(i, p)

Spec == Init /\ [][Next]_baskets
=============================================================================
