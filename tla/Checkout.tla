------------------------------ MODULE Checkout ------------------------------
(***************************************************************************)
(* checkOut.cgi: from the cart and the payment setup to a paid order.      *)
(*                                                                         *)
(* Two of its steps change something.  step=verify stores the customer's   *)
(* payment setup (PaymentSetup).  step=confirmed is createOrderPanel and   *)
(* Ordered_Obj::pay: read the setup, send the charge to the gateway, and   *)
(* only then insert the order and its items, decrement the stock, delete   *)
(* the card data and check the cart out, each with a statement of its own. *)
(* Nothing ties these statements together; a process can die between any   *)
(* two of them, and another request can run in between.                    *)
(*                                                                         *)
(* The payment gateway and the table Product are external.  The gateway    *)
(* approves or declines a charge; its answer can be lost.  Each browser is *)
(* used by one customer, who has an account, so a browser stands for its   *)
(* customer.  Amounts are left out.                                        *)
(***************************************************************************)
EXTENDS ShoppingCart, FiniteSets

CONSTANTS
  Numbers, Parts, MaxServices, FormModes, SetupFaults,     \* PaymentSetup's
  Shelf,        \* pieces of every product in stock in the beginning
  MaxCharges,   \* bound: charges the gateway approves
  PayFaults     \* a subset of {"lost", "order", "item", "die"}

ASSUME CheckoutAssumption ==
  /\ Numbers # {}
  /\ Parts \in Nat \ {0}
  /\ MaxServices \in Nat
  /\ Shelf \in Nat
  /\ MaxCharges \in Nat

VARIABLES
  services, params, form,     \* PaymentSetup's
  charges,    \* the charges that the gateway approved, in order
  orders,     \* the table Ordered, with the items saved in Ordered_Item
  stock,      \* stock[p]: stock_count of the product p
  pay         \* pay[r]: the Ordered_Obj of request r

INSTANCE PaymentSetup WITH Customers <- Browsers

paymentVars  == << services, params, form >>
shopVars     == << charges, orders, stock >>
checkoutVars == << cartVars, paymentVars, shopVars, pay >>

Charge == [cust : Browsers, cart : Nat, lines : Seq(Line), data : SUBSET Datum]
Order  == [cust : Browsers, cart : Nat, tx : Nat, items : Seq(Line)]

PayStages == {"none", "params", "send", "insert", "items", "stock", "forget",
              "end"}

Pay == [at : PayStages, svc : ServiceIds, data : SUBSET Datum, tx : Nat,
        order : Nat, next : Nat, ok : BOOLEAN]

NoPay == [at |-> "none", svc |-> 0, data |-> {}, tx |-> 0, order |-> 0,
          next |-> 1, ok |-> FALSE]

CheckoutTypeOK ==
  /\ CartTypeOK
  /\ SetupTypeOK
  /\ charges \in Seq(Charge)
  /\ orders \in Seq(Order)
  /\ stock \in [Products -> Int]
  /\ pay \in [Requests -> Pay]

CheckoutInit ==
  /\ CartInit
  /\ SetupInit
  /\ charges = << >>
  /\ orders = << >>
  /\ stock = [p \in Products |-> Shelf]
  /\ pay = [r \in Requests |-> NoPay]

-----------------------------------------------------------------------------
(* step=verify.                                                            *)

\* show: a request for a step of the checkout, with something in the cart.
AtCheckout(r) ==
  /\ pc[r] = "checkOut"
  /\ cart[r].lines # << >>
  /\ form[r].at = "none"
  /\ pay[r].at = "none"

Verify(r) ==
  /\ AtCheckout(r)
  /\ \E number \in Numbers, mode \in FormModes :
       Submit(r, [holder |-> who[r], number |-> number], mode)
  /\ UNCHANGED << cartVars, shopVars, pay >>

StoreSetup(r) ==
  /\ FillIn(r)
  /\ UNCHANGED << cartVars, shopVars, pay >>

ShowConfirmation(r) ==
  /\ ShowForm(r)
  /\ ShowPage(r)
  /\ UNCHANGED << shopVars, pay >>

-----------------------------------------------------------------------------
(* step=confirmed.                                                         *)

PayStep(r, from) ==
  /\ pay[r].at = from
  /\ UNCHANGED << cartVars, services, form >>

PayGoesTo(r, stage) == pay' = [pay EXCEPT ![r].at = stage]

\* Mutant of Confirm: does not look whether the cart is checked out.
Confirm_Again(r) ==
  /\ AtCheckout(r)
  /\ \/ \E svc \in ServicesOf(who[r]) :
          pay' = [pay EXCEPT ![r].at = "params", ![r].svc = svc]
     \/ ServicesOf(who[r]) = {} /\ PayGoesTo(r, "end")
  /\ UNCHANGED << cartVars, paymentVars, shopVars >>

(***************************************************************************)
(* The object's own Checked_Out decides, then pay reads the customer's     *)
(* service row, any one of them; without one the payment fails.            *)
(***************************************************************************)
Confirm(r) ==
  /\ AtCheckout(r)
  /\ ~cart[r].checkedOut
  /\ \/ \E svc \in ServicesOf(who[r]) :
          pay' = [pay EXCEPT ![r].at = "params", ![r].svc = svc]
     \/ ServicesOf(who[r]) = {} /\ PayGoesTo(r, "end")
  /\ UNCHANGED << cartVars, paymentVars, shopVars >>

\* getParameters: no parameters, no payment.
ReadParameters(r) ==
  /\ PayStep(r, "params")
  /\ pay' = [pay EXCEPT ![r].data = params[pay[r].svc],
               ![r].at = IF params[pay[r].svc] = {} THEN "end" ELSE "send"]
  /\ UNCHANGED << params, shopVars >>

\* Mutant of Send: goes on to the order whatever the gateway answers.
Send_Unchecked(r) ==
  /\ PayStep(r, "send")
  /\ Len(charges) < MaxCharges
  /\ PayGoesTo(r, "insert")
  /\ UNCHANGED << params, shopVars >>

(***************************************************************************)
(* tcLink.Send().IsGood(): the charge is approved, or it is approved and   *)
(* the answer is lost, or it is declined.                                  *)
(***************************************************************************)
Send(r) ==
  /\ PayStep(r, "send")
  /\ \/ /\ Len(charges) < MaxCharges
        /\ charges' = Append(charges,
             [cust |-> who[r], cart |-> cart[r].id, lines |-> cart[r].lines,
              data |-> pay[r].data])
        /\ \/ pay' = [pay EXCEPT ![r].at = "insert", ![r].tx = Len(charges')]
           \/ "lost" \in PayFaults /\ PayGoesTo(r, "forget")
     \/ PayGoesTo(r, "forget") /\ UNCHANGED charges
  /\ UNCHANGED << params, orders, stock >>

\* Mutant of InsertOrder: goes on to the stock when the insert fails.
InsertOrder_StockAnyway(r) ==
  /\ PayStep(r, "insert")
  /\ \/ /\ orders' = Append(orders,
             [cust |-> who[r], cart |-> cart[r].id, tx |-> pay[r].tx,
              items |-> << >>])
        /\ pay' = [pay EXCEPT ![r].at = "items", ![r].order = Len(orders')]
     \/ "order" \in PayFaults /\ PayGoesTo(r, "stock") /\ UNCHANGED orders
  /\ UNCHANGED << params, charges, stock >>

\* Mutant of InsertOrder: refuses a second order for the same cart.
InsertOrder_OnePerCart(r) ==
  /\ PayStep(r, "insert")
  /\ IF \E o \in DOMAIN orders : orders[o].cart = cart[r].id
       THEN PayGoesTo(r, "forget") /\ UNCHANGED orders
       ELSE /\ orders' = Append(orders,
                 [cust |-> who[r], cart |-> cart[r].id, tx |-> pay[r].tx,
                  items |-> << >>])
            /\ pay' = [pay EXCEPT ![r].at = "items", ![r].order = Len(orders')]
  /\ UNCHANGED << params, charges, stock >>

\* db_insert of the order, with the transaction id of the charge.
InsertOrder(r) ==
  /\ PayStep(r, "insert")
  /\ \/ /\ orders' = Append(orders,
             [cust |-> who[r], cart |-> cart[r].id, tx |-> pay[r].tx,
              items |-> << >>])
        /\ pay' = [pay EXCEPT ![r].at = "items", ![r].order = Len(orders')]
     \/ "order" \in PayFaults /\ PayGoesTo(r, "forget") /\ UNCHANGED orders
  /\ UNCHANGED << params, charges, stock >>

(***************************************************************************)
(* saveOrderedItems: one item after another, up to the first failure.      *)
(***************************************************************************)
SaveItem(r) ==
  LET lines == cart[r].lines
      n     == pay[r].next
  IN  /\ PayStep(r, "items")
      /\ \/ /\ orders' = [orders EXCEPT ![pay[r].order].items =
                            Append(@, lines[n])]
            /\ pay' = [pay EXCEPT ![r] =
                 IF n < Len(lines)
                   THEN [@ EXCEPT !.next = n + 1]
                   ELSE [@ EXCEPT !.at = "stock", !.next = 1, !.ok = TRUE]]
         \/ /\ "item" \in PayFaults
            /\ pay' = [pay EXCEPT ![r].at = "stock", ![r].next = 1]
            /\ UNCHANGED orders
      /\ UNCHANGED << params, charges, stock >>

\* Mutant of DecrementStock: leaves out the last item.
DecrementStock_NotLast(r) ==
  LET lines == cart[r].lines
      n     == pay[r].next
  IN  /\ PayStep(r, "stock")
      /\ IF n < Len(lines)
           THEN /\ stock' = [stock EXCEPT ![lines[n].id] = @ - lines[n].count]
                /\ pay' = [pay EXCEPT ![r].next = n + 1]
           ELSE PayGoesTo(r, "forget") /\ UNCHANGED stock
      /\ UNCHANGED << params, charges, orders >>

(***************************************************************************)
(* decrementStock: for every item of the cart, saved or not.  Nothing      *)
(* looks at what is left.                                                  *)
(***************************************************************************)
DecrementStock(r) ==
  LET lines == cart[r].lines
      n     == pay[r].next
  IN  /\ PayStep(r, "stock")
      /\ stock' = [stock EXCEPT ![lines[n].id] = @ - lines[n].count]
      /\ pay' = [pay EXCEPT ![r] =
           IF n < Len(lines) THEN [@ EXCEPT !.next = n + 1]
                             ELSE [@ EXCEPT !.at = "forget"]]
      /\ UNCHANGED << params, charges, orders >>

\* Mutant of RemoveParams: keeps the card for the next attempt.
RemoveParams_IfPaid(r) ==
  /\ PayStep(r, "forget")
  /\ params' = [params EXCEPT ![pay[r].svc] = IF pay[r].ok THEN {} ELSE @]
  /\ PayGoesTo(r, "end")
  /\ UNCHANGED shopVars

\* removeParams: after every charge that was sent, whatever became of it.
RemoveParams(r) ==
  /\ PayStep(r, "forget")
  /\ params' = [params EXCEPT ![pay[r].svc] = {}]
  /\ PayGoesTo(r, "end")
  /\ UNCHANGED shopVars

\* Mutant of PayEnds: checks out whatever pay returns.
PayEnds_Always(r) ==
  /\ pay[r].at = "end"
  /\ CheckOut(r)
  /\ pay' = [pay EXCEPT ![r] = NoPay]
  /\ UNCHANGED << paymentVars, shopVars >>

\* Back in createOrderPanel: check out, or show what went wrong.
PayEnds(r) ==
  /\ pay[r].at = "end"
  /\ IF pay[r].ok THEN CheckOut(r) ELSE ShowPage(r)
  /\ pay' = [pay EXCEPT ![r] = NoPay]
  /\ UNCHANGED << paymentVars, shopVars >>

-----------------------------------------------------------------------------

\* A page of either program that is not one of the two steps above.
OtherPage(r) ==
  /\ form[r].at = "none"
  /\ pay[r].at = "none"
  /\ Construct(r) \/ Shop(r) \/ ShowPage(r) \/ Reply(r)
  /\ UNCHANGED << paymentVars, shopVars, pay >>

ProcessDies(r) ==
  /\ "die" \in PayFaults
  /\ Die(r)
  /\ ForgetForm(r)
  /\ pay' = [pay EXCEPT ![r] = NoPay]
  /\ UNCHANGED shopVars

\* What a request that has started goes on to do; see Fairness.
Continue(r) ==
  \/ StoreSetup(r)
  \/ ShowConfirmation(r)
  \/ ReadParameters(r)
  \/ Send(r)
  \/ InsertOrder(r)
  \/ SaveItem(r)
  \/ DecrementStock(r)
  \/ RemoveParams(r)
  \/ PayEnds(r)

CheckoutNext ==
  \E r \in Requests :
    \/ OtherPage(r)
    \/ Verify(r)
    \/ Confirm(r)
    \/ Continue(r)
    \/ ProcessDies(r)

CheckoutSpec == CheckoutInit /\ [][CheckoutNext]_checkoutVars

(***************************************************************************)
(* A CGI process that has begun a step of the checkout runs on by itself:  *)
(* it waits for nobody but the database and the gateway, which answer or   *)
(* time out.                                                               *)
(***************************************************************************)
Fairness == \A r \in Requests : WF_checkoutVars(Continue(r))

FairCheckoutSpec == CheckoutSpec /\ Fairness
-----------------------------------------------------------------------------
(* Properties.                                                             *)

(***************************************************************************)
(* Every order was paid for by its own customer, with its own charge, and  *)
(* holds nothing that the charge was not for; requests may overlap, die,   *)
(* or fail at any statement.                                               *)
(***************************************************************************)
EveryOrderPaid ==
  \A o \in DOMAIN orders :
    /\ orders[o].tx \in DOMAIN charges
    /\ charges[orders[o].tx].cust = orders[o].cust
    /\ charges[orders[o].tx].cart = orders[o].cart
    /\ IsPrefix(orders[o].items, charges[orders[o].tx].lines)
    /\ \A o2 \in DOMAIN orders : orders[o2].tx = orders[o].tx => o2 = o

(***************************************************************************)
(* A cart that is checked out has an order with every item of the charge:  *)
(* no failure, and no other request's update of the cart, closes a cart    *)
(* that somebody did not get an order for.                                 *)
(***************************************************************************)
CheckedOutOnlyIfOrdered ==
  \A c \in DOMAIN carts :
    carts[c].checkedOut =>
      \E o \in DOMAIN orders :
        orders[o].cart = c /\ orders[o].items = charges[orders[o].tx].lines

\* The pieces of p that the orders were charged for.
Sold(p) ==
  Total([o \in DOMAIN orders |-> PiecesOf(charges[orders[o].tx].lines, p)])

(***************************************************************************)
(* If no process dies, the stock accounts for exactly the orders, whatever *)
(* happened while they were made: an item that could not be saved is taken *)
(* from the shelf too, and a charge without an order takes nothing.        *)
(***************************************************************************)
StockMatchesOrders ==
  (\A r \in Requests : pay[r].at \notin {"items", "stock"}) =>
    \A p \in Products : Shelf - stock[p] = Sold(p)

(***************************************************************************)
(* Nothing leaves the shelf that nobody paid for, even if processes die.   *)
(***************************************************************************)
OnlySoldLeavesTheShelf ==
  \A p \in Products : Shelf - stock[p] <= Sold(p)

(***************************************************************************)
(* One request at a time: when a confirmation that sent a charge writes    *)
(* its page, the customer's service row has no card data left, approved or *)
(* declined, answered or not.                                              *)
(***************************************************************************)
ChargedCardIsForgotten ==
  [][\A r \in Requests :
       (pay[r].at = "end" /\ pay[r].data # {} /\ pay'[r].at = "none") =>
         params[pay[r].svc] = {}
    ]_checkoutVars

(***************************************************************************)
(* One request at a time and nothing failing, the checkout keeps the       *)
(* promise of Purchase: one charge for a cart, which leads to an order for *)
(* all of it and closes the cart for good.                                 *)
(***************************************************************************)
Ordered(c) ==
  \E o \in DOMAIN orders :
    orders[o].cart = c /\ orders[o].items = charges[orders[o].tx].lines

Bills(c) == Cardinality({t \in DOMAIN charges : charges[t].cart = c})

Progress(c) ==
  IF carts[c].checkedOut THEN "closed"
  ELSE IF Ordered(c) THEN "ordered"
  ELSE IF Bills(c) > 0 THEN "charged" ELSE "open"

P == INSTANCE Purchase WITH
       purchase <- [c \in DOMAIN carts |-> Progress(c)],
       bills    <- [c \in DOMAIN carts |-> Bills(c)]

PurchaseSpec == P!Spec

(***************************************************************************)
(* Also when requests overlap, an approved charge leads to its order, and  *)
(* the request that made it to its end, if the order can be inserted and   *)
(* no process dies; saving its items may fail.  No request waits for       *)
(* another, or stops because of what another has recorded.                 *)
(***************************************************************************)
ChargeLeadsToOrder ==
  \A t \in 1 .. MaxCharges :
    t \in DOMAIN charges ~>
      /\ \E o \in DOMAIN orders : orders[o].tx = t
      /\ \A r \in Requests : pay[r].tx # t

(***************************************************************************)
(* "You have already checked out" (checkout_control.hpp:398): a cart that  *)
(* is being paid for is not charged for again.  Two confirmations that     *)
(* overlap both find the cart open.                                        *)
(***************************************************************************)
OneChargePerCart ==
  \A t1, t2 \in DOMAIN charges : charges[t1].cart = charges[t2].cart => t1 = t2
=============================================================================
