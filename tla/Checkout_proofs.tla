--------------------------- MODULE Checkout_proofs ---------------------------
(***************************************************************************)
(* Proofs about Checkout, for any number of browsers, requests, carts and  *)
(* charges, with requests that overlap, die, and fail at any statement:    *)
(* every variable keeps its type, every order was paid for, no cart is     *)
(* checked out without an order for all of it, to the carts a checkout     *)
(* does nothing that ShoppingCart does not allow, and the stock accounts   *)
(* for what was sold; with one request at a time, a card that was sent to  *)
(* the gateway is forgotten, and if nothing fails, the checkout keeps the  *)
(* promise of Purchase.                                                    *)
(***************************************************************************)
EXTENDS Checkout, ShoppingCart_proofs

-----------------------------------------------------------------------------
(* The payment setup: types.                                               *)

\* The loop over the parameters stays within those the service asks for.
PartsCounted ==
  \A r \in Requests : form[r].at # "done" => form[r].part \in 1 .. Parts

FormInv == SetupTypeOK /\ PartsCounted

\* There is a card, so the form of an idle request is a form.
LEMMA NoFormType ==
  /\ NoForm \in Form
  /\ NoForm.at = "none"
  /\ NoForm.key = 0
  /\ NoForm.part = 1
<1>1. \E c \in Card : TRUE
  <2>1. PICK c \in Browsers, n \in Numbers : TRUE
    BY CartAssumption, CheckoutAssumption
  <2>2. [holder |-> c, number |-> n] \in Card
    BY DEF Card
  <2> QED
    BY <2>2
<1>2. (CHOOSE c \in Card : TRUE) \in Card
  BY <1>1
<1>3. 0 \in ServiceIds
  BY CheckoutAssumption DEF ServiceIds
<1> QED
  BY <1>2, <1>3 DEF NoForm, Form, Stages

\* The fields of a request's form.
LEMMA FormFields ==
  ASSUME SetupTypeOK, NEW r \in Requests
  PROVE  /\ form[r] \in Form
         /\ form[r].at \in Stages
         /\ form[r].card \in Card
         /\ form[r].card.holder \in Browsers
         /\ form[r].key \in ServiceIds
         /\ form[r].old \subseteq ServiceIds
         /\ form[r].part \in Nat
  BY DEF SetupTypeOK, Form, Card

ServiceRow == [cust : Browsers, live : BOOLEAN]

\* The service rows are numbered from 1.
LEMMA ServicesNumbered ==
  ASSUME SetupTypeOK
  PROVE  /\ services \in Seq(ServiceRow)
         /\ Len(services) \in Nat
         /\ DOMAIN services = 1 .. Len(services)
         /\ DOMAIN services \subseteq ServiceIds
         /\ \A id \in DOMAIN services : services[id] \in ServiceRow
<1>1. services \in Seq(ServiceRow)
  BY DEF SetupTypeOK, ServiceRow
<1>2. /\ Len(services) \in Nat
      /\ DOMAIN services = 1 .. Len(services)
  BY <1>1, LenProperties
<1>3. \A id \in DOMAIN services : services[id] \in ServiceRow
  BY <1>1, <1>2, ElementOfSeq
<1> QED
  BY <1>1, <1>2, <1>3, CheckoutAssumption DEF SetupTypeOK, ServiceIds

(***************************************************************************)
(* A step that makes a form of a form and keeps the tables' types.         *)
(***************************************************************************)
LEMMA FormStepType ==
  ASSUME FormInv, NEW r \in Requests, NEW f \in Form,
         f.at # "done" => f.part \in 1 .. Parts,
         form' = [form EXCEPT ![r] = f],
         services' \in Seq(ServiceRow),
         Len(services') <= MaxServices,
         params' \in [ServiceIds -> SUBSET Datum]
  PROVE  FormInv'
<1>1. form \in [Requests -> Form]
  BY DEF FormInv, SetupTypeOK
<1>2. form' \in [Requests -> Form]
  BY <1>1
<1>3. \A q \in Requests : form'[q] = IF q = r THEN f ELSE form[q]
  BY <1>1
<1> QED
  BY <1>2, <1>3 DEF FormInv, SetupTypeOK, PartsCounted, ServiceRow

\* The same for a step that goes on to another stage and leaves the services.
LEMMA AdvanceType ==
  ASSUME FormInv, NEW r \in Requests, NEW stage \in Stages,
         form[r].at # "done", Advance(r, stage), UNCHANGED services,
         params' \in [ServiceIds -> SUBSET Datum]
  PROVE  FormInv'
<1> DEFINE f == [form[r] EXCEPT !.at = stage]
<1>1. form[r] \in Form
  BY FormFields DEF FormInv
<1>2. f \in Form /\ f.part = form[r].part
  BY <1>1 DEF Form
<1>3. form' = [form EXCEPT ![r] = f]
  BY DEF Advance
<1>4. form[r].part \in 1 .. Parts
  BY DEF FormInv, PartsCounted
<1>5. services' \in Seq(ServiceRow) /\ Len(services') <= MaxServices
  BY DEF FormInv, SetupTypeOK, ServiceRow
<1> HIDE DEF f
<1> QED
  BY <1>2, <1>3, <1>4, <1>5, FormStepType

\* A new form is a form.
LEMMA SubmitType ==
  ASSUME FormInv, NEW r \in Requests, NEW card \in Card, NEW mode,
         Submit(r, card, mode)
  PROVE  FormInv'
<1>1. PICK key \in IF ServicesOf(card.holder) = {} THEN {0}
                                            ELSE ServicesOf(card.holder) :
        form' = [form EXCEPT ![r] =
          [NoForm EXCEPT !.card = card, !.key = key,
             !.at = CASE mode = "i" -> "list"
                      [] mode = "u" -> "delete"
                      [] mode = "unchanged" -> "done"
                      [] OTHER -> IF key = 0 THEN "refused" ELSE "done"]]
  BY DEF Submit
<1> DEFINE stage == CASE mode = "i" -> "list"
                      [] mode = "u" -> "delete"
                      [] mode = "unchanged" -> "done"
                      [] OTHER -> IF key = 0 THEN "refused" ELSE "done"
           new   == [NoForm EXCEPT !.card = card, !.key = key, !.at = stage]
<1>2. stage \in Stages
  BY DEF Stages
<1>3. form' = [form EXCEPT ![r] = new]
  BY <1>1
<1>4. key \in ServiceIds
  BY ServicesNumbered, CheckoutAssumption
  DEF FormInv, ServicesOf, ServiceIds
<1> HIDE DEF stage
<1>5. new \in Form /\ new.part = 1
  BY <1>2, <1>4, NoFormType DEF Form
<1> HIDE DEF new
<1>6. /\ services' \in Seq(ServiceRow)
      /\ Len(services') <= MaxServices
      /\ params' \in [ServiceIds -> SUBSET Datum]
  BY DEF Submit, FormInv, SetupTypeOK, ServiceRow
<1>7. 1 \in 1 .. Parts
  BY CheckoutAssumption
<1> QED
  BY <1>3, <1>5, <1>6, <1>7, FormStepType

\* Listing the rows of a customer changes the form alone.
LEMMA ListType ==
  ASSUME FormInv, NEW r \in Requests, ListServices(r)
  PROVE  FormInv'
<1> DEFINE old   == ServicesOf(form[r].card.holder)
           stage == IF old = {} THEN "insert" ELSE "clear"
           f     == [form[r] EXCEPT !.old = old, !.at = stage]
<1>1. old \subseteq ServiceIds
  BY ServicesNumbered DEF FormInv, ServicesOf
<1>2. stage \in Stages
  BY DEF Stages
<1>3. /\ form' = [form EXCEPT ![r] = f]
      /\ form[r].at = "list"
  BY DEF ListServices
<1>4. /\ services' \in Seq(ServiceRow)
      /\ Len(services') <= MaxServices
      /\ params' \in [ServiceIds -> SUBSET Datum]
  BY DEF ListServices, FormInv, SetupTypeOK, ServiceRow
<1>5. form[r] \in Form
  BY FormFields DEF FormInv
<1> HIDE DEF old, stage
<1>6. f \in Form /\ f.part = form[r].part
  BY <1>1, <1>2, <1>5 DEF Form
<1>7. form[r].part \in 1 .. Parts
  BY <1>3 DEF FormInv, PartsCounted
<1> HIDE DEF f
<1> QED
  BY <1>3, <1>4, <1>6, <1>7, FormStepType

\* ivalidate's deletes keep all types: the parameters, ...
LEMMA ClearType ==
  ASSUME FormInv, NEW r \in Requests, ClearListed(r)
  PROVE  FormInv'
<1>1. params' \in [ServiceIds -> SUBSET Datum]
  BY DEF ClearListed, FormInv, SetupTypeOK
<1>2. /\ Advance(r, "drop")
      /\ form[r].at # "done"
      /\ UNCHANGED services
      /\ "drop" \in Stages
  BY DEF ClearListed, Stages
<1> QED
  BY <1>1, <1>2, AdvanceType

\* ... and the rows, which stay in the table as rows that are not live.
LEMMA DropType ==
  ASSUME FormInv, NEW r \in Requests, DropServices(r)
  PROVE  FormInv'
<1> DEFINE gone == ServicesOf(form[r].card.holder)
           f    == [form[r] EXCEPT !.at = "insert"]
<1>1. services' = [id \in DOMAIN services |->
         IF id \in gone THEN [services[id] EXCEPT !.live = FALSE]
                        ELSE services[id]]
  BY DEF DropServices
<1>2. /\ Len(services) \in Nat
      /\ DOMAIN services = 1 .. Len(services)
      /\ \A id \in DOMAIN services : services[id] \in ServiceRow
  BY ServicesNumbered DEF FormInv
<1>3. /\ DOMAIN services' = DOMAIN services
      /\ \A id \in DOMAIN services : services'[id] \in ServiceRow
  BY <1>1, <1>2 DEF ServiceRow
<1>4. services' \in [1 .. Len(services) -> ServiceRow]
  BY <1>1, <1>2, <1>3
<1>5. services' \in Seq(ServiceRow)
  BY <1>2, <1>4, SeqDef
<1>6. Len(services') <= MaxServices
  <2>1. DOMAIN services' = 1 .. Len(services') /\ Len(services') \in Nat
    BY <1>5, LenProperties
  <2>2. Len(services') = Len(services)
    BY <1>2, <1>3, <2>1
  <2> QED
    BY <2>2 DEF FormInv, SetupTypeOK
<1>7. /\ form' = [form EXCEPT ![r] = f]
      /\ params' \in [ServiceIds -> SUBSET Datum]
      /\ form[r].at = "drop"
  BY DEF DropServices, Advance, FormInv, SetupTypeOK
<1>8. f \in Form /\ f.part = form[r].part
  BY FormFields DEF FormInv, Form, Stages
<1>9. form[r].part \in 1 .. Parts
  BY <1>7 DEF FormInv, PartsCounted
<1> HIDE DEF f
<1> QED
  BY <1>5, <1>6, <1>7, <1>8, <1>9, FormStepType

\* A service row that is inserted, or not.
LEMMA InsertType ==
  ASSUME FormInv, NEW r \in Requests, InsertService(r)
  PROVE  FormInv'
<1>1. /\ form[r].at = "insert"
      /\ params' \in [ServiceIds -> SUBSET Datum]
  BY DEF InsertService, FormInv, SetupTypeOK
<1>2. CASE Advance(r, "refused") /\ UNCHANGED services
  BY <1>1, <1>2, AdvanceType DEF Stages
<1>3. CASE /\ Len(services) < MaxServices
           /\ services' = Append(services,
                [cust |-> form[r].card.holder, live |-> TRUE])
           /\ form' = [form EXCEPT ![r].key = Len(services'),
                                   ![r].at = "reread"]
  <2> DEFINE row == [cust |-> form[r].card.holder, live |-> TRUE]
             new == Len(services')
             f   == [form[r] EXCEPT !.key = new, !.at = "reread"]
  <2>1. row \in ServiceRow
    BY FormFields DEF FormInv, ServiceRow
  <2>2. services' = Append(services, row)
    BY <1>3
  <2> HIDE DEF row
  <2>3. services' \in Seq(ServiceRow) /\ new = Len(services) + 1
    BY <2>1, <2>2, ServicesNumbered, AppendProperties DEF FormInv
  <2>4. new \in ServiceIds /\ new <= MaxServices
    BY <1>3, <2>3, ServicesNumbered, CheckoutAssumption
    DEF FormInv, ServiceIds
  <2>5. form' = [form EXCEPT ![r] = f]
    BY <1>3
  <2> HIDE DEF new
  <2>6. f \in Form /\ f.part = form[r].part
    BY <2>4, FormFields DEF FormInv, Form, Stages
  <2>7. form[r].part \in 1 .. Parts
    BY <1>1 DEF FormInv, PartsCounted
  <2> HIDE DEF f
  <2> QED
    BY <1>1, <2>3, <2>4, <2>5, <2>6, <2>7, FormStepType DEF new
<1> QED
  BY <1>2, <1>3 DEF InsertService

\* Reading the row back changes the form alone.
LEMMA ReadBackType ==
  ASSUME FormInv, NEW r \in Requests, ReadBack(r)
  PROVE  FormInv'
<1> DEFINE stage == IF services[form[r].key].live THEN "delete" ELSE "refused"
<1>1. stage \in Stages
  BY DEF Stages
<1>2. /\ Advance(r, stage)
      /\ form[r].at # "done"
      /\ UNCHANGED services
      /\ params' \in [ServiceIds -> SUBSET Datum]
  BY DEF ReadBack, FormInv, SetupTypeOK
<1> HIDE DEF stage
<1> QED
  BY <1>1, <1>2, AdvanceType

\* deleteOldUserParameters keeps all types.
LEMMA DeleteType ==
  ASSUME FormInv, NEW r \in Requests, DeleteOldParameters(r)
  PROVE  FormInv'
<1>1. params' \in [ServiceIds -> SUBSET Datum]
  BY DEF DeleteOldParameters, FormInv, SetupTypeOK
<1>2. /\ Advance(r, "create")
      /\ form[r].at # "done"
      /\ UNCHANGED services
      /\ "create" \in Stages
  BY DEF DeleteOldParameters, Stages
<1> QED
  BY <1>1, <1>2, AdvanceType

\* A parameter that is stored is one that the service asks for.
LEMMA CreateType ==
  ASSUME FormInv, NEW r \in Requests, CreateParameter(r)
  PROVE  FormInv'
<1> DEFINE stage == IF form[r].part = Parts THEN "done" ELSE "create"
           f     == [form[r] EXCEPT !.part = form[r].part + 1, !.at = stage]
           datum == [card |-> form[r].card, part |-> form[r].part]
<1>1. /\ form[r].at = "create"
      /\ form' = [form EXCEPT ![r] = f]
      /\ \/ params' = [params EXCEPT ![form[r].key] = @ \cup {datum}]
         \/ params' = params
  BY DEF CreateParameter
<1>2. form[r].part \in 1 .. Parts
  BY <1>1 DEF FormInv, PartsCounted
<1>3. datum \in Datum
  BY <1>2, FormFields DEF FormInv, Datum
<1> HIDE DEF datum
<1>4. params' \in [ServiceIds -> SUBSET Datum]
  BY <1>1, <1>3 DEF FormInv, SetupTypeOK
<1>5. /\ stage \in Stages
      /\ stage # "done" => form[r].part + 1 \in 1 .. Parts
  BY <1>2, CheckoutAssumption DEF Stages
<1> HIDE DEF stage
<1>6. f \in Form /\ f.part = form[r].part + 1 /\ f.at = stage
  <2>1. form[r] \in Form /\ form[r].part + 1 \in Nat
    BY FormFields DEF FormInv
  <2> QED
    BY <1>5, <2>1 DEF Form
<1>7. services' \in Seq(ServiceRow) /\ Len(services') <= MaxServices
  BY DEF CreateParameter, FormInv, SetupTypeOK, ServiceRow
<1> HIDE DEF f
<1> QED
  BY <1>1, <1>4, <1>5, <1>6, <1>7, FormStepType

\* Filling in a form keeps all types.
LEMMA FillInType ==
  ASSUME FormInv, NEW r \in Requests, FillIn(r)
  PROVE  FormInv'
  BY ListType, ClearType, DropType, InsertType, ReadBackType, DeleteType,
     CreateType DEF FillIn

\* Forgetting a form keeps all types.
LEMMA ForgetType ==
  ASSUME FormInv, NEW r \in Requests, ForgetForm(r)
  PROVE  FormInv'
<1>1. /\ services' \in Seq(ServiceRow)
      /\ Len(services') <= MaxServices
      /\ params' \in [ServiceIds -> SUBSET Datum]
      /\ form' = [form EXCEPT ![r] = NoForm]
  BY DEF ForgetForm, FormInv, SetupTypeOK, ServiceRow
<1>2. 1 \in 1 .. Parts
  BY CheckoutAssumption
<1> QED
  BY <1>1, <1>2, NoFormType, FormStepType

\* No form has been submitted in the beginning.
LEMMA SetupInitType == SetupInit => FormInv
<1> SUFFICES ASSUME SetupInit PROVE FormInv
  OBVIOUS
<1>1. \A r \in Requests : form[r] = NoForm
  BY DEF SetupInit
<1>2. services \in Seq(ServiceRow) /\ Len(services) = 0
  BY EmptySeq DEF SetupInit
<1>3. SetupTypeOK
  BY <1>2, NoFormType, CheckoutAssumption DEF SetupInit, SetupTypeOK, ServiceRow
<1>4. PartsCounted
  BY <1>1, NoFormType, CheckoutAssumption DEF PartsCounted
<1> QED
  BY <1>3, <1>4 DEF FormInv

-----------------------------------------------------------------------------
(* The invariant.                                                          *)

(***************************************************************************)
(* A request is in at most one step of the checkout, with something in a   *)
(* cart that was open when it was read; and a payment that is over has     *)
(* left nothing behind.                                                    *)
(***************************************************************************)
Occupied(r) ==
  /\ pay[r].at = "none" => pay[r] = NoPay
  /\ (form[r].at # "none" \/ pay[r].at # "none") =>
       pc[r] = "checkOut" /\ cart[r].lines # << >>
  /\ pay[r].at # "none" => form[r].at = "none" /\ ~cart[r].checkedOut

\* The charge that r has the answer for is the one for its customer's cart.
ChargeIsOwn(r) ==
  pay[r].tx # 0 =>
    /\ pay[r].tx \in DOMAIN charges
    /\ charges[pay[r].tx].cust = who[r]
    /\ charges[pay[r].tx].cart = cart[r].id
    /\ charges[pay[r].tx].lines = cart[r].lines

\* The order that r has inserted is the one for its charge.
OrderIsOwn(r) ==
  pay[r].order # 0 =>
    /\ pay[r].tx # 0
    /\ pay[r].order \in DOMAIN orders
    /\ orders[pay[r].order].tx = pay[r].tx

\* How far the payment is at every stage, and what is in the order by then.
Progressed(r) ==
  /\ pay[r].at \in {"none", "params", "send"} => pay[r].tx = 0
  /\ pay[r].at \in {"none", "params", "send", "insert"} =>
       pay[r].order = 0 /\ pay[r].next = 1
  /\ pay[r].at \in {"insert", "items", "stock"} => pay[r].tx # 0
  /\ pay[r].at \in {"items", "stock"} =>
       pay[r].order # 0 /\ pay[r].next \in 1 .. Len(cart[r].lines)
  /\ pay[r].at = "insert" =>
       \A o \in DOMAIN orders : orders[o].tx # pay[r].tx
  /\ pay[r].at = "items" =>
       orders[pay[r].order].items = SubSeq(cart[r].lines, 1, pay[r].next - 1)
  /\ pay[r].at \in {"none", "params", "send", "insert", "items"} => ~pay[r].ok
  /\ pay[r].ok =>
       pay[r].order # 0 /\ orders[pay[r].order].items = cart[r].lines

Paying(r) == ChargeIsOwn(r) /\ OrderIsOwn(r) /\ Progressed(r)

\* Two requests never have the answer for the same charge.
ChargesApart ==
  \A r, q \in Requests : (r # q /\ pay[r].tx # 0) => pay[r].tx # pay[q].tx

\* The row of c, or the object of some request, says c is checked out.
SaidToBeClosed(c) ==
  \/ c \in DOMAIN carts /\ carts[c].checkedOut
  \/ \E r \in Requests : cart[r].id = c /\ cart[r].checkedOut

ClosedIsOrdered == \A c : SaidToBeClosed(c) => Ordered(c)

PayTypeOK ==
  /\ charges \in Seq(Charge)
  /\ orders \in Seq(Order)
  /\ stock \in [Products -> Int]
  /\ pay \in [Requests -> Pay]

CheckoutInv ==
  /\ CartTypeOK
  /\ FormInv
  /\ PayTypeOK
  /\ \A r \in Requests : Occupied(r) /\ Paying(r)
  /\ ChargesApart
  /\ EveryOrderPaid
  /\ ClosedIsOrdered

-----------------------------------------------------------------------------
(* Requests apart from each other.                                         *)

\* The fields of a request's payment.
LEMMA PayFields ==
  ASSUME PayTypeOK, NEW r \in Requests
  PROVE  /\ pay[r] \in Pay
         /\ pay[r].at \in PayStages
         /\ pay[r].svc \in ServiceIds
         /\ pay[r].data \in SUBSET Datum
         /\ pay[r].tx \in Nat
         /\ pay[r].order \in Nat
         /\ pay[r].next \in Nat
         /\ pay[r].ok \in BOOLEAN
  BY DEF PayTypeOK, Pay

\* The payment of an idle request.
LEMMA NoPayType ==
  /\ NoPay \in Pay
  /\ NoPay.at = "none"
  /\ NoPay.tx = 0
  /\ NoPay.order = 0
  /\ NoPay.next = 1
  /\ NoPay.ok = FALSE
<1>1. 0 \in ServiceIds
  BY CheckoutAssumption DEF ServiceIds
<1> QED
  BY <1>1 DEF NoPay, Pay, PayStages

\* The fields of a request's cart object.
LEMMA CartFields ==
  ASSUME CartTypeOK, NEW r \in Requests
  PROVE  /\ cart[r].id \in Nat
         /\ cart[r].lines \in Seq(Line)
         /\ cart[r].checkedOut \in BOOLEAN
         /\ who[r] \in Browsers
         /\ Len(cart[r].lines) \in Nat
         /\ cart[r].lines # << >> => Len(cart[r].lines) > 0
<1>1. /\ cart[r].id \in Nat
      /\ cart[r].lines \in Seq(Line)
      /\ cart[r].checkedOut \in BOOLEAN
      /\ who[r] \in Browsers
  BY DEF CartTypeOK, CartObj
<1> QED
  BY <1>1, EmptySeq, LenProperties

\* An order that exists is an order, and so is a charge a charge.
LEMMA OrderFields ==
  ASSUME PayTypeOK
  PROVE  /\ Len(orders) \in Nat
         /\ DOMAIN orders = 1 .. Len(orders)
         /\ \A o \in DOMAIN orders : orders[o] \in Order
         /\ Len(charges) \in Nat
         /\ DOMAIN charges = 1 .. Len(charges)
         /\ \A t \in DOMAIN charges : charges[t] \in Charge
  BY LenProperties, ElementOfSeq DEF PayTypeOK

(***************************************************************************)
(* What one step may add to the history: charges, an order for the charge  *)
(* of r, or an item of the order that r is about to fill.                  *)
(***************************************************************************)
GrowsBy(r) ==
  /\ \A t \in DOMAIN charges : t \in DOMAIN charges' /\ charges'[t] = charges[t]
  /\ \A o \in DOMAIN orders :
       /\ o \in DOMAIN orders'
       /\ orders'[o].tx = orders[o].tx
       /\ orders'[o].cart = orders[o].cart
       /\ \/ orders'[o].items = orders[o].items
          \/ pay[r].at = "items" /\ o = pay[r].order
  /\ \A o \in DOMAIN orders' :
       o \in DOMAIN orders \/ (pay[r].at = "insert" /\ orders'[o].tx = pay[r].tx)

(***************************************************************************)
(* Whatever a step of r adds, the payments of the others stay as far as    *)
(* they are.                                                               *)
(***************************************************************************)
LEMMA OthersKeepPaying ==
  ASSUME CheckoutInv, NEW r \in Requests, GrowsBy(r),
         NEW q \in Requests, q # r,
         pay'[q] = pay[q], cart'[q] = cart[q], who'[q] = who[q]
  PROVE  Paying(q)'
<1>1. Paying(q) /\ Paying(r)
  BY DEF CheckoutInv
<1>2. pay[q].tx # 0 => pay[q].tx # pay[r].tx
  BY DEF CheckoutInv, ChargesApart
<1>3. ChargeIsOwn(q)'
  BY <1>1 DEF Paying, ChargeIsOwn, GrowsBy
<1>4. OrderIsOwn(q)'
  BY <1>1 DEF Paying, OrderIsOwn, GrowsBy
<1>5. pay[q].order # 0 =>
        orders'[pay[q].order].items = orders[pay[q].order].items
  <2>1. SUFFICES ASSUME pay[q].order # 0, pay[r].at = "items",
                        pay[q].order = pay[r].order
                 PROVE  FALSE
    BY <1>1 DEF GrowsBy, Paying, OrderIsOwn
  <2>2. pay[q].tx # 0 /\ pay[q].tx = pay[r].tx
    BY <1>1, <2>1 DEF Paying, OrderIsOwn, Progressed
  <2> QED
    BY <1>2, <2>2
<1>6. pay[q].at = "insert" =>
        \A o \in DOMAIN orders' : orders'[o].tx # pay[q].tx
  BY <1>1, <1>2 DEF GrowsBy, Paying, Progressed
<1>7. Progressed(q)'
  BY <1>1, <1>5, <1>6 DEF Paying, Progressed
<1> QED
  BY <1>3, <1>4, <1>7 DEF Paying

(***************************************************************************)
(* A step that leaves the history as it is keeps the payment of every      *)
(* request that keeps its cart.                                            *)
(***************************************************************************)
LEMMA SamePaying ==
  ASSUME CheckoutInv, UNCHANGED << charges, orders >>, NEW r \in Requests,
         pay'[r] = pay[r], cart'[r] = cart[r], who'[r] = who[r]
  PROVE  Paying(r)'
<1>1. Paying(r)
  BY DEF CheckoutInv
<1> QED
  BY <1>1 DEF Paying, ChargeIsOwn, OrderIsOwn, Progressed

\* A request without a payment.
LEMMA NotPaying ==
  ASSUME NEW r, pay'[r] = NoPay
  PROVE  Paying(r)'
  BY NoPayType DEF Paying, ChargeIsOwn, OrderIsOwn, Progressed

(***************************************************************************)
(* An order with all its items is never touched again: the one order that  *)
(* a request adds items to lacks the item it adds.                         *)
(***************************************************************************)
LEMMA OrderedStays ==
  ASSUME CheckoutInv, NEW r \in Requests, GrowsBy(r), NEW c, Ordered(c)
  PROVE  Ordered(c)'
<1>1. PICK o \in DOMAIN orders :
        orders[o].cart = c /\ orders[o].items = charges[orders[o].tx].lines
  BY DEF Ordered
<1>2. orders[o].tx \in DOMAIN charges
  BY DEF CheckoutInv, EveryOrderPaid
<1>3. ~(pay[r].at = "items" /\ o = pay[r].order)
  <2>1. SUFFICES ASSUME pay[r].at = "items", o = pay[r].order
                 PROVE  FALSE
    OBVIOUS
  <2> DEFINE lines == cart[r].lines
             n     == pay[r].next
  <2>2. Paying(r)
    BY DEF CheckoutInv
  <2>3. orders[o].items = SubSeq(lines, 1, n - 1) /\ n \in 1 .. Len(lines)
    BY <2>1, <2>2 DEF Paying, Progressed
  <2>4. orders[o].tx = pay[r].tx /\ charges[pay[r].tx].lines = lines
    BY <2>1, <2>2 DEF Paying, Progressed, ChargeIsOwn, OrderIsOwn
  <2>5. lines \in Seq(Line) /\ Len(lines) \in Nat
    BY CartFields DEF CheckoutInv
  <2> HIDE DEF lines, n
  <2>6. \A i \in 1 .. n - 1 : lines[i] \in Line
    BY <2>3, <2>5, ElementOfSeq
  <2>7. Len(SubSeq(lines, 1, n - 1)) = IF 1 <= n - 1 THEN n - 1 - 1 + 1 ELSE 0
    BY <2>3, <2>5, <2>6, SubSeqProperties
  <2>8. Len(SubSeq(lines, 1, n - 1)) # Len(lines)
    BY <2>3, <2>5, <2>7
  <2> QED
    BY <1>1, <2>3, <2>4, <2>8
<1>4. /\ o \in DOMAIN orders'
      /\ orders'[o].cart = c
      /\ orders'[o].tx = orders[o].tx
      /\ orders'[o].items = orders[o].items
      /\ charges'[orders[o].tx] = charges[orders[o].tx]
  BY <1>1, <1>2, <1>3 DEF GrowsBy
<1> QED
  BY <1>1, <1>4 DEF Ordered

(***************************************************************************)
(* What a step of r has to show to keep the invariant.                     *)
(***************************************************************************)
LEMMA StepKeeps ==
  ASSUME CheckoutInv, NEW r \in Requests,
         CartTypeOK', FormInv', PayTypeOK', GrowsBy(r),
         \A q \in Requests : q # r =>
           /\ pc'[q] = pc[q]
           /\ who'[q] = who[q]
           /\ cart'[q] = cart[q]
           /\ form'[q] = form[q]
           /\ pay'[q] = pay[q],
         Occupied(r)', Paying(r)',
         pay'[r].tx \in {0, pay[r].tx} \/ pay'[r].tx \notin DOMAIN charges,
         EveryOrderPaid',
         \A c : SaidToBeClosed(c)' => SaidToBeClosed(c) \/ Ordered(c)'
  PROVE  CheckoutInv'
<1>1. \A q \in Requests : Occupied(q)'
  <2>1. ASSUME NEW q \in Requests, q # r
        PROVE  Occupied(q)'
    <3>1. Occupied(q)
      BY DEF CheckoutInv
    <3> QED
      BY <2>1, <3>1 DEF Occupied
  <2> QED
    BY <2>1
<1>2. \A q \in Requests : Paying(q)'
  BY OthersKeepPaying
<1>3. ChargesApart'
  <2>1. \A q \in Requests : pay[q].tx # 0 => pay[q].tx \in DOMAIN charges
    BY DEF CheckoutInv, Paying, ChargeIsOwn
  <2>2. \A q \in Requests : (q # r /\ pay'[r].tx # 0) => pay'[r].tx # pay[q].tx
    BY <2>1 DEF CheckoutInv, ChargesApart
  <2>3. \A q \in Requests : (q # r /\ pay[q].tx # 0) => pay[q].tx # pay'[r].tx
    BY <2>2
  <2>4. ASSUME NEW q \in Requests, NEW p \in Requests, q # p, pay'[q].tx # 0
        PROVE  pay'[q].tx # pay'[p].tx
    <3>1. CASE q = r
      BY <2>2, <2>4, <3>1
    <3>2. CASE p = r
      BY <2>3, <2>4, <3>2
    <3>3. CASE q # r /\ p # r
      BY <2>4, <3>3 DEF CheckoutInv, ChargesApart
    <3> QED
      BY <3>1, <3>2, <3>3
  <2> QED
    BY <2>4 DEF ChargesApart
<1>4. ClosedIsOrdered'
  <2>1. ASSUME NEW c, SaidToBeClosed(c)'
        PROVE  Ordered(c)'
    <3>1. SaidToBeClosed(c) => Ordered(c)
      BY DEF CheckoutInv, ClosedIsOrdered
    <3>2. Ordered(c) => Ordered(c)'
      BY OrderedStays
    <3> QED
      BY <2>1, <3>1, <3>2
  <2> QED
    BY <2>1 DEF ClosedIsOrdered
<1> QED
  BY <1>1, <1>2, <1>3, <1>4 DEF CheckoutInv

\* A step that adds nothing to the history.
LEMMA SameHistory ==
  ASSUME UNCHANGED << charges, orders >>, EveryOrderPaid
  PROVE  (\A r : GrowsBy(r)) /\ EveryOrderPaid'
<1>1. \A r : GrowsBy(r)
  BY DEF GrowsBy
<1>2. EveryOrderPaid'
  BY DEF EveryOrderPaid
<1> QED
  BY <1>1, <1>2

-----------------------------------------------------------------------------
(* Steps that are not a payment's.                                         *)

\* A step of the cart concerns one request.
LEMMA CartStepOfOne ==
  ASSUME CartTypeOK, NEW r \in Requests,
         \/ Construct(r)
         \/ Shop(r)
         \/ ShowPage(r)
         \/ CheckOut(r)
         \/ Reply(r)
         \/ Die(r)
  PROVE  \A q \in Requests : q # r =>
           pc'[q] = pc[q] /\ who'[q] = who[q] /\ cart'[q] = cart[q]
<1>1. CASE Construct(r)
  BY <1>1 DEF Construct, NewCart, NoNewCart, LoadCart, Begin, CartTypeOK
<1>2. ASSUME Finish(r) PROVE \A q \in Requests : q # r =>
                               pc'[q] = pc[q] /\ who'[q] = who[q]
  BY <1>2 DEF Finish, CartTypeOK
<1>3. ASSUME NEW lines, NEW checkedOut, Save(r, lines, checkedOut)
      PROVE  \A q \in Requests : q # r => cart'[q] = cart[q]
  BY <1>3 DEF Save, CartTypeOK
<1>4. CASE Shop(r) \/ ShowPage(r) \/ CheckOut(r)
  <2>1. /\ Finish(r)
        /\ \/ \E lines, checkedOut : Save(r, lines, checkedOut)
           \/ UNCHANGED << carts, cart >>
    BY <1>4 DEF Shop, AlwaysAddProduct, AddProduct, UpdateProduct,
                RemoveProduct, ShowPage, CheckOut
  <2> QED
    BY <1>2, <1>3, <2>1
<1>5. CASE Reply(r) \/ Die(r)
  BY <1>5 DEF Reply, Die, Idle, CartTypeOK
<1> QED
  BY <1>1, <1>4, <1>5

(***************************************************************************)
(* Saving passes on what the object says of being checked out.             *)
(***************************************************************************)
LEMMA SaveSays ==
  ASSUME CartTypeOK, NEW r \in Requests, NEW lines, NEW checkedOut,
         Save(r, lines, checkedOut), NEW c, SaidToBeClosed(c)'
  PROVE  SaidToBeClosed(c) \/ (c = cart[r].id /\ checkedOut)
<1>1. cart \in [Requests -> CartObj]
  BY DEF CartTypeOK
<1>2. CASE c \in DOMAIN carts' /\ carts'[c].checkedOut
  BY <1>2 DEF Save, SaidToBeClosed
<1>3. ASSUME NEW q \in Requests, cart'[q].id = c, cart'[q].checkedOut
      PROVE  SaidToBeClosed(c) \/ (c = cart[r].id /\ checkedOut)
  <2>1. CASE q # r
    BY <1>1, <1>3, <2>1 DEF Save, SaidToBeClosed
  <2>2. CASE q = r
    <3>1. \/ cart'[r] = [id |-> cart[r].id, lines |-> lines,
                         checkedOut |-> checkedOut]
          \/ cart'[r] = Stored(cart[r].id)
      BY <1>1 DEF Save
    <3>2. Stored(cart[r].id).checkedOut =>
            SaidToBeClosed(Stored(cart[r].id).id)
      BY DEF Stored, NoCart, SaidToBeClosed
    <3> QED
      BY <1>3, <2>2, <3>1, <3>2
  <2> QED
    BY <2>1, <2>2
<1> QED
  BY <1>2, <1>3 DEF SaidToBeClosed

(***************************************************************************)
(* No step but CheckOut makes a row or an object say that a cart is        *)
(* checked out of which none did say so.                                   *)
(***************************************************************************)
LEMMA NothingElseCloses ==
  ASSUME CartTypeOK, NEW r \in Requests,
         \/ Construct(r)
         \/ Shop(r)
         \/ ShowPage(r)
         \/ Reply(r)
         \/ Die(r),
         NEW c, SaidToBeClosed(c)'
  PROVE  SaidToBeClosed(c)
<1>0. cart \in [Requests -> CartObj]
  BY DEF CartTypeOK
<1>1. CASE Construct(r)
  <2>1. PICK b \in Browsers, prog \in Programs :
          \/ NewCart(r, b, prog)
          \/ NoNewCart(r, b, prog)
          \/ \E link \in links[b] \cup {Empty} : LoadCart(r, b, prog, link)
    BY <1>1 DEF Construct
  <2>2. /\ \A id : Stored(id).checkedOut => SaidToBeClosed(Stored(id).id)
        /\ ~NoCart.checkedOut
        /\ \A id : ~[NoCart EXCEPT !.id = id].checkedOut
    BY DEF Stored, NoCart, SaidToBeClosed
  <2>3. /\ \A q \in Requests : q # r => cart'[q] = cart[q]
        /\ cart'[r].checkedOut => SaidToBeClosed(cart'[r].id)
    BY <1>0, <2>1, <2>2 DEF NewCart, NoNewCart, LoadCart
  <2>4. CASE c \in DOMAIN carts' /\ carts'[c].checkedOut
    <3> DEFINE row == [lines |-> << >>, checkedOut |-> FALSE]
    <3>1. carts' = carts \/ carts' = Append(carts, row)
      BY <2>1 DEF NewCart, NoNewCart, LoadCart
    <3>2. carts \in Seq(Row) /\ row \in Row /\ ~row.checkedOut
      BY EmptySeq DEF CartTypeOK, Row
    <3> HIDE DEF row
    <3>3. CASE carts' = Append(carts, row)
      <4>1. /\ Len(carts) \in Nat
            /\ DOMAIN carts = 1 .. Len(carts)
            /\ carts' \in Seq(Row)
            /\ Len(carts') = Len(carts) + 1
            /\ carts'[Len(carts) + 1] = row
            /\ \A i \in 1 .. Len(carts) : carts'[i] = carts[i]
        BY <3>2, <3>3, LenProperties, AppendProperties
      <4>2. DOMAIN carts' = 1 .. Len(carts) + 1
        BY <4>1, LenProperties
      <4> QED
        BY <2>4, <3>2, <4>1, <4>2 DEF SaidToBeClosed
    <3> QED
      BY <2>4, <3>1, <3>3 DEF SaidToBeClosed
  <2> QED
    BY <2>3, <2>4 DEF SaidToBeClosed
<1>2. CASE Shop(r)
  <2>1. \/ \E lines : Save(r, lines, cart[r].checkedOut)
        \/ UNCHANGED << carts, cart >>
    BY <1>2 DEF Shop, AlwaysAddProduct, AddProduct, UpdateProduct,
                RemoveProduct
  <2>2. cart[r].checkedOut => SaidToBeClosed(cart[r].id)
    BY DEF SaidToBeClosed
  <2>3. CASE UNCHANGED << carts, cart >>
    BY <2>3 DEF SaidToBeClosed
  <2>4. ASSUME NEW lines, Save(r, lines, cart[r].checkedOut)
        PROVE  SaidToBeClosed(c)
    BY <2>2, <2>4, SaveSays
  <2> QED
    BY <2>1, <2>3, <2>4
<1>3. CASE ShowPage(r)
  BY <1>3 DEF ShowPage, SaidToBeClosed
<1>4. CASE Reply(r) \/ Die(r)
  <2>1. carts' = carts /\ cart' = [cart EXCEPT ![r] = NoCart]
    BY <1>4 DEF Reply, Die, Idle
  <2>2. ~NoCart.checkedOut
    BY DEF NoCart
  <2> QED
    BY <1>0, <2>1, <2>2 DEF SaidToBeClosed
<1> QED
  BY <1>1, <1>2, <1>3, <1>4

\* A page that is no step of the checkout.
LEMMA OtherPageKeeps ==
  ASSUME CheckoutInv, NEW r \in Requests, OtherPage(r)
  PROVE  CheckoutInv'
<1>1. /\ form[r].at = "none"
      /\ pay[r].at = "none"
      /\ \/ Construct(r)
         \/ Shop(r)
         \/ ShowPage(r)
         \/ Reply(r)
      /\ UNCHANGED << services, params, form, charges, orders, stock, pay >>
  BY DEF OtherPage, paymentVars, shopVars
<1>2. CartTypeOK'
  BY <1>1, ConstructType, ShopType, ShowPageType, ReplyType DEF CheckoutInv
<1>3. FormInv' /\ PayTypeOK'
  BY <1>1 DEF CheckoutInv, FormInv, SetupTypeOK, PartsCounted, PayTypeOK
<1>4. GrowsBy(r) /\ EveryOrderPaid'
  BY <1>1, SameHistory DEF CheckoutInv
<1>5. \A q \in Requests : q # r =>
        pc'[q] = pc[q] /\ who'[q] = who[q] /\ cart'[q] = cart[q]
  BY <1>1, CartStepOfOne DEF CheckoutInv
<1>6. pay[r] = NoPay
  BY <1>1 DEF CheckoutInv, Occupied
<1>7. Occupied(r)'
  BY <1>1, <1>6 DEF Occupied
<1>8. Paying(r)'
  BY <1>1, <1>6, NotPaying
<1>9. \A c : SaidToBeClosed(c)' => SaidToBeClosed(c)
  BY <1>1, NothingElseCloses DEF CheckoutInv
<1> QED
  BY <1>1, <1>2, <1>3, <1>4, <1>5, <1>7, <1>8, <1>9, StepKeeps

\* A process that is killed takes its form and its payment with it.
LEMMA ProcessDiesKeeps ==
  ASSUME CheckoutInv, NEW r \in Requests, ProcessDies(r)
  PROVE  CheckoutInv'
<1>1. /\ Die(r)
      /\ ForgetForm(r)
      /\ pay' = [pay EXCEPT ![r] = NoPay]
      /\ UNCHANGED << charges, orders, stock >>
  BY DEF ProcessDies, shopVars
<1>2. CartTypeOK'
  BY <1>1, DieType DEF CheckoutInv
<1>3. FormInv'
  BY <1>1, ForgetType DEF CheckoutInv
<1>4. pay \in [Requests -> Pay] /\ form \in [Requests -> Form]
  BY DEF CheckoutInv, PayTypeOK, FormInv, SetupTypeOK
<1>5. PayTypeOK'
  BY <1>1, <1>4, NoPayType DEF CheckoutInv, PayTypeOK
<1>6. GrowsBy(r) /\ EveryOrderPaid'
  BY <1>1, SameHistory DEF CheckoutInv
<1>7. /\ pay'[r] = NoPay
      /\ form'[r] = NoForm
      /\ \A q \in Requests : q # r => pay'[q] = pay[q] /\ form'[q] = form[q]
  BY <1>1, <1>4 DEF ForgetForm
<1>8. \A q \in Requests : q # r =>
        pc'[q] = pc[q] /\ who'[q] = who[q] /\ cart'[q] = cart[q]
  BY <1>1, CartStepOfOne DEF CheckoutInv
<1>9. Occupied(r)'
  BY <1>7, NoPayType, NoFormType DEF Occupied
<1>10. Paying(r)' /\ pay'[r].tx = 0
  BY <1>7, NotPaying, NoPayType
<1>11. \A c : SaidToBeClosed(c)' => SaidToBeClosed(c)
  BY <1>1, NothingElseCloses DEF CheckoutInv
<1> QED
  BY <1>2, <1>3, <1>5, <1>6, <1>7, <1>8, <1>9, <1>10, <1>11, StepKeeps

(***************************************************************************)
(* The steps of a form that leave the cart alone.                          *)
(***************************************************************************)
LEMMA FormKeeps ==
  ASSUME CheckoutInv, NEW r \in Requests, FormInv',
         UNCHANGED << cartVars, shopVars, pay >>,
         \A q \in Requests : q # r => form'[q] = form[q],
         pay[r].at = "none", pc[r] = "checkOut", cart[r].lines # << >>
  PROVE  CheckoutInv'
<1>1. UNCHANGED << carts, crtid, links, pc, who, cart, setCookie,
                   charges, orders, stock, pay >>
  BY DEF cartVars, shopVars
<1>2. CartTypeOK' /\ PayTypeOK'
  BY <1>1 DEF CheckoutInv, CartTypeOK, PayTypeOK
<1>3. GrowsBy(r) /\ EveryOrderPaid'
  BY <1>1, SameHistory DEF CheckoutInv
<1>4. Occupied(r)'
  BY <1>1 DEF CheckoutInv, Occupied
<1>5. Paying(r)'
  BY <1>1, SamePaying
<1>6. \A c : SaidToBeClosed(c)' => SaidToBeClosed(c)
  BY <1>1 DEF SaidToBeClosed
<1> QED
  BY <1>1, <1>2, <1>3, <1>4, <1>5, <1>6, StepKeeps

\* A form is submitted.
LEMMA VerifyKeeps ==
  ASSUME CheckoutInv, NEW r \in Requests, Verify(r)
  PROVE  CheckoutInv'
<1>1. PICK number \in Numbers, mode \in FormModes :
        Submit(r, [holder |-> who[r], number |-> number], mode)
  BY DEF Verify
<1>2. [holder |-> who[r], number |-> number] \in Card
  BY CartFields DEF CheckoutInv, Card
<1>3. FormInv'
  BY <1>1, <1>2, SubmitType DEF CheckoutInv
<1>4. \A q \in Requests : q # r => form'[q] = form[q]
  BY <1>1 DEF Submit, CheckoutInv, FormInv, SetupTypeOK
<1>5. /\ pay[r].at = "none"
      /\ pc[r] = "checkOut"
      /\ cart[r].lines # << >>
      /\ UNCHANGED << cartVars, shopVars, pay >>
  BY DEF Verify, AtCheckout
<1> QED
  BY <1>3, <1>4, <1>5, FormKeeps

\* A form is stored, one statement after another.
LEMMA StoreSetupKeeps ==
  ASSUME CheckoutInv, NEW r \in Requests, StoreSetup(r)
  PROVE  CheckoutInv'
<1>1. FillIn(r) /\ UNCHANGED << cartVars, shopVars, pay >>
  BY DEF StoreSetup
<1>2. FormInv'
  BY <1>1, FillInType DEF CheckoutInv
<1>3. /\ form[r].at # "none"
      /\ \A q \in Requests : q # r => form'[q] = form[q]
  BY <1>1 DEF FillIn, ListServices, ClearListed, DropServices, InsertService,
              ReadBack, DeleteOldParameters, CreateParameter, Advance,
              CheckoutInv, FormInv, SetupTypeOK
<1>4. /\ pay[r].at = "none"
      /\ pc[r] = "checkOut"
      /\ cart[r].lines # << >>
  BY <1>3 DEF CheckoutInv, Occupied
<1> QED
  BY <1>1, <1>2, <1>3, <1>4, FormKeeps

\* The page after the form is shown.
LEMMA ShowConfirmationKeeps ==
  ASSUME CheckoutInv, NEW r \in Requests, ShowConfirmation(r)
  PROVE  CheckoutInv'
<1>1. /\ form[r].at \in {"done", "refused"}
      /\ ForgetForm(r)
      /\ ShowPage(r)
      /\ UNCHANGED << charges, orders, stock, pay >>
  BY DEF ShowConfirmation, ShowForm, shopVars
<1>2. CartTypeOK' /\ FormInv'
  BY <1>1, ShowPageType, ForgetType DEF CheckoutInv
<1>3. PayTypeOK'
  BY <1>1 DEF CheckoutInv, PayTypeOK
<1>4. GrowsBy(r) /\ EveryOrderPaid'
  BY <1>1, SameHistory DEF CheckoutInv
<1>5. \A q \in Requests : q # r =>
        pc'[q] = pc[q] /\ who'[q] = who[q] /\ cart'[q] = cart[q]
  BY <1>1, CartStepOfOne DEF CheckoutInv
<1>6. form'[r] = NoForm /\ \A q \in Requests : q # r => form'[q] = form[q]
  BY <1>1 DEF ForgetForm, CheckoutInv, FormInv, SetupTypeOK
<1>7. pay[r] = NoPay
  BY <1>1 DEF CheckoutInv, Occupied
<1>8. Occupied(r)'
  BY <1>1, <1>6, <1>7, NoPayType, NoFormType DEF Occupied
<1>9. Paying(r)'
  BY <1>1, <1>7, NotPaying
<1>10. \A c : SaidToBeClosed(c)' => SaidToBeClosed(c)
  BY <1>1, NothingElseCloses DEF CheckoutInv
<1> QED
  BY <1>1, <1>2, <1>3, <1>4, <1>5, <1>6, <1>8, <1>9, <1>10, StepKeeps

-----------------------------------------------------------------------------
(* The steps of a payment.                                                 *)

\* A request that may be paying: what Occupied says of one that is.
MayPay(r) ==
  /\ pc[r] = "checkOut"
  /\ cart[r].lines # << >>
  /\ form[r].at = "none"
  /\ ~cart[r].checkedOut

(***************************************************************************)
(* What a step of a payment has to show to keep the invariant, as long as  *)
(* it does not end the payment.                                            *)
(***************************************************************************)
LEMMA PayKeeps ==
  ASSUME CheckoutInv, NEW r \in Requests,
         MayPay(r) \/ pay[r].at # "none",
         UNCHANGED << cartVars, services, form >>,
         params' \in [ServiceIds -> SUBSET Datum],
         charges' \in Seq(Charge),
         orders' \in Seq(Order),
         stock' \in [Products -> Int],
         NEW p \in Pay, p.at # "none", pay' = [pay EXCEPT ![r] = p],
         GrowsBy(r), Paying(r)', EveryOrderPaid',
         p.tx \in {0, pay[r].tx} \/ p.tx \notin DOMAIN charges
  PROVE  CheckoutInv'
<1>1. UNCHANGED << carts, crtid, links, pc, who, cart, setCookie,
                   services, form >>
  BY DEF cartVars
<1>2. CartTypeOK'
  BY <1>1 DEF CheckoutInv, CartTypeOK
<1>3. FormInv'
  BY <1>1 DEF CheckoutInv, FormInv, SetupTypeOK, PartsCounted
<1>4. pay \in [Requests -> Pay]
  BY DEF CheckoutInv, PayTypeOK
<1>5. PayTypeOK'
  BY <1>4 DEF PayTypeOK
<1>6. pay'[r] = p /\ \A q \in Requests : q # r => pay'[q] = pay[q]
  BY <1>4
<1>7. MayPay(r)
  BY DEF MayPay, CheckoutInv, Occupied
<1>8. Occupied(r)'
  BY <1>1, <1>6, <1>7 DEF Occupied, MayPay
<1>9. \A c : SaidToBeClosed(c)' => SaidToBeClosed(c)
  BY <1>1 DEF SaidToBeClosed
<1> QED
  BY <1>1, <1>2, <1>3, <1>5, <1>6, <1>8, <1>9, StepKeeps

(***************************************************************************)
(* The payment begins with any of the customer's service rows, or ends at  *)
(* once without one.                                                       *)
(***************************************************************************)
LEMMA ConfirmKeeps ==
  ASSUME CheckoutInv, NEW r \in Requests, Confirm(r)
  PROVE  CheckoutInv'
<1>1. /\ MayPay(r)
      /\ pay[r].at = "none"
      /\ UNCHANGED << cartVars, services, form, params, charges, orders, stock >>
  BY DEF Confirm, AtCheckout, MayPay, paymentVars, shopVars
<1>2. pay[r] = NoPay
  BY <1>1 DEF CheckoutInv, Occupied
<1>3. PICK p \in Pay :
        /\ pay' = [pay EXCEPT ![r] = p]
        /\ p.at \in {"params", "end"}
        /\ p.tx = 0 /\ p.order = 0 /\ p.next = 1 /\ p.ok = FALSE
  <2>1. CASE PayGoesTo(r, "end")
    <3> DEFINE p == [NoPay EXCEPT !.at = "end"]
    <3>1. pay' = [pay EXCEPT ![r] = p]
      BY <1>2, <2>1 DEF PayGoesTo
    <3>2. /\ p \in Pay
          /\ p.at = "end"
          /\ p.tx = 0 /\ p.order = 0 /\ p.next = 1 /\ p.ok = FALSE
      BY NoPayType DEF Pay, PayStages
    <3> HIDE DEF p
    <3> QED
      BY <3>1, <3>2
  <2>2. ASSUME NEW svc \in ServicesOf(who[r]),
               pay' = [pay EXCEPT ![r].at = "params", ![r].svc = svc]
        PROVE  \E p \in Pay :
                 /\ pay' = [pay EXCEPT ![r] = p]
                 /\ p.at \in {"params", "end"}
                 /\ p.tx = 0 /\ p.order = 0 /\ p.next = 1 /\ p.ok = FALSE
    <3> DEFINE p == [NoPay EXCEPT !.at = "params", !.svc = svc]
    <3>1. svc \in ServiceIds
      BY ServicesNumbered DEF ServicesOf, CheckoutInv, FormInv
    <3>2. pay' = [pay EXCEPT ![r] = p]
      BY <1>2, <2>2
    <3>3. /\ p \in Pay
          /\ p.at = "params"
          /\ p.tx = 0 /\ p.order = 0 /\ p.next = 1 /\ p.ok = FALSE
      BY <3>1, NoPayType DEF Pay, PayStages
    <3> HIDE DEF p
    <3> QED
      BY <3>2, <3>3
  <2> QED
    BY <2>1, <2>2 DEF Confirm
<1>4. p.at # "none" /\ p.tx \in {0, pay[r].tx}
  BY <1>3
<1>5. UNCHANGED << cartVars, services, form >>
  BY <1>1
<1>6. pay'[r] = p
  BY <1>3 DEF CheckoutInv, PayTypeOK
<1>7. Paying(r)'
  BY <1>3, <1>6 DEF Paying, ChargeIsOwn, OrderIsOwn, Progressed
<1>8. GrowsBy(r) /\ EveryOrderPaid'
  BY <1>1, SameHistory DEF CheckoutInv
<1>9. /\ params' \in [ServiceIds -> SUBSET Datum]
      /\ charges' \in Seq(Charge)
      /\ orders' \in Seq(Order)
      /\ stock' \in [Products -> Int]
  BY <1>1 DEF CheckoutInv, PayTypeOK, FormInv, SetupTypeOK
<1> QED
  BY <1>1, <1>3, <1>4, <1>5, <1>7, <1>8, <1>9, PayKeeps

(***************************************************************************)
(* The steps that go on to another stage, and no more: they leave the      *)
(* history and what the request knows of it.                               *)
(***************************************************************************)
LEMMA GoesOnKeeps ==
  ASSUME CheckoutInv, NEW r \in Requests, pay[r].at # "none",
         UNCHANGED << cartVars, services, form, charges, orders >>,
         params' \in [ServiceIds -> SUBSET Datum],
         stock' \in [Products -> Int],
         NEW p \in Pay, pay' = [pay EXCEPT ![r] = p],
         p.tx = pay[r].tx,
         p.order = pay[r].order,
         p.ok = pay[r].ok,
         \/ /\ p.at \in {"send", "end"}
            /\ pay[r].at = "params"
            /\ p.next = pay[r].next
         \/ p.at \in {"forget", "end"} 
         \/ /\ p.at = "stock"
            /\ pay[r].at \in {"items", "stock"}
            /\ p.next \in 1 .. Len(cart[r].lines)
  PROVE  CheckoutInv'
<1>1. UNCHANGED << carts, who, cart >>
  BY DEF cartVars
<1>2. Paying(r)
  BY DEF CheckoutInv
<1>3. pay'[r] = p
  BY DEF CheckoutInv, PayTypeOK
<1>4. ChargeIsOwn(r)'
  BY <1>1, <1>2, <1>3 DEF Paying, ChargeIsOwn
<1>5. OrderIsOwn(r)'
  BY <1>2, <1>3 DEF Paying, OrderIsOwn
<1>6. Progressed(r)'
  BY <1>1, <1>2, <1>3 DEF Paying, Progressed
<1>7. GrowsBy(r) /\ EveryOrderPaid'
  BY SameHistory DEF CheckoutInv
<1>8. charges' \in Seq(Charge) /\ orders' \in Seq(Order)
  BY DEF CheckoutInv, PayTypeOK
<1>9. Paying(r)' /\ p.at # "none" /\ UNCHANGED << cartVars, services, form >>
  BY <1>4, <1>5, <1>6 DEF Paying
<1> QED
  BY <1>7, <1>8, <1>9, PayKeeps

\* The same when only the stage changes.
LEMMA PayGoesToKeeps ==
  ASSUME CheckoutInv, NEW r \in Requests, pay[r].at # "none",
         UNCHANGED << cartVars, services, form, charges, orders, stock >>,
         params' \in [ServiceIds -> SUBSET Datum],
         NEW stage \in {"forget", "end"}, PayGoesTo(r, stage)
  PROVE  CheckoutInv'
<1> DEFINE p == [pay[r] EXCEPT !.at = stage]
<1>1. pay' = [pay EXCEPT ![r] = p]
  BY DEF PayGoesTo
<1>2. /\ p \in Pay
      /\ p.at = stage
      /\ p.tx = pay[r].tx
      /\ p.order = pay[r].order
      /\ p.ok = pay[r].ok
  BY PayFields DEF CheckoutInv, Pay, PayStages
<1>3. stock' \in [Products -> Int]
  BY DEF CheckoutInv, PayTypeOK
<1> HIDE DEF p
<1>4. UNCHANGED << cartVars, services, form, charges, orders >>
  OBVIOUS
<1> QED
  BY <1>1, <1>2, <1>3, <1>4, GoesOnKeeps

\* getParameters changes nothing but the payment.
LEMMA ReadParametersKeeps ==
  ASSUME CheckoutInv, NEW r \in Requests, ReadParameters(r)
  PROVE  CheckoutInv'
<1> DEFINE data  == params[pay[r].svc]
           stage == IF data = {} THEN "end" ELSE "send"
           p     == [pay[r] EXCEPT !.data = data, !.at = stage]
<1>1. /\ pay[r].at = "params"
      /\ pay' = [pay EXCEPT ![r] = p]
      /\ UNCHANGED << cartVars, services, form, params, charges, orders, stock >>
  BY DEF ReadParameters, PayStep, shopVars
<1>2. data \in SUBSET Datum
  BY PayFields DEF CheckoutInv, FormInv, SetupTypeOK
<1>3. stage \in {"end", "send"}
  OBVIOUS
<1> HIDE DEF data, stage
<1>4. /\ p \in Pay
      /\ p.at = stage
      /\ p.tx = pay[r].tx
      /\ p.order = pay[r].order
      /\ p.next = pay[r].next
      /\ p.ok = pay[r].ok
  BY <1>2, <1>3, PayFields DEF CheckoutInv, Pay, PayStages
<1> HIDE DEF p
<1>5. params' \in [ServiceIds -> SUBSET Datum] /\ stock' \in [Products -> Int]
  BY <1>1 DEF CheckoutInv, PayTypeOK, FormInv, SetupTypeOK
<1>6. UNCHANGED << cartVars, services, form, charges, orders >>
  BY <1>1
<1>7. p.at \in {"send", "end"}
  BY <1>3, <1>4
<1> QED
  BY <1>1, <1>4, <1>5, <1>6, <1>7, GoesOnKeeps

\* removeParams takes parameters away, and that is all.
LEMMA RemoveParamsKeeps ==
  ASSUME CheckoutInv, NEW r \in Requests, RemoveParams(r)
  PROVE  CheckoutInv'
<1>1. /\ pay[r].at = "forget"
      /\ params' = [params EXCEPT ![pay[r].svc] = {}]
      /\ PayGoesTo(r, "end")
      /\ UNCHANGED << cartVars, services, form, charges, orders, stock >>
  BY DEF RemoveParams, PayStep, shopVars
<1>2. params' \in [ServiceIds -> SUBSET Datum]
  BY <1>1 DEF CheckoutInv, FormInv, SetupTypeOK
<1> QED
  BY <1>1, <1>2, PayGoesToKeeps

\* decrementStock goes over the lines of the cart, all of them there.
LEMMA DecrementStockKeeps ==
  ASSUME CheckoutInv, NEW r \in Requests, DecrementStock(r)
  PROVE  CheckoutInv'
<1> DEFINE lines == cart[r].lines
           n     == pay[r].next
           p     == IF n < Len(lines) THEN [pay[r] EXCEPT !.next = n + 1]
                                      ELSE [pay[r] EXCEPT !.at = "forget"]
<1>1. /\ pay[r].at = "stock"
      /\ stock' = [stock EXCEPT ![lines[n].id] = @ - lines[n].count]
      /\ pay' = [pay EXCEPT ![r] = p]
      /\ UNCHANGED << cartVars, services, form, params, charges, orders >>
  BY DEF DecrementStock, PayStep
<1>2. n \in 1 .. Len(lines)
  BY <1>1 DEF CheckoutInv, Paying, Progressed
<1>3. lines \in Seq(Line) /\ Len(lines) \in Nat
  BY CartFields DEF CheckoutInv
<1> HIDE DEF lines, n
<1>4. lines[n] \in Line
  BY <1>2, <1>3, ElementOfSeq
<1>5. stock' \in [Products -> Int]
  <2>1. lines[n].id \in Products /\ lines[n].count \in Int
    BY <1>4 DEF Line
  <2> QED
    BY <1>1, <2>1 DEF CheckoutInv, PayTypeOK
<1>6. /\ p \in Pay
      /\ p.tx = pay[r].tx
      /\ p.order = pay[r].order
      /\ p.ok = pay[r].ok
      /\ \/ p.at = "forget"
         \/ p.at = "stock" /\ p.next \in 1 .. Len(lines)
  <2>1. pay[r] \in Pay
    BY PayFields DEF CheckoutInv
  <2>2. CASE n < Len(lines)
    <3>1. n + 1 \in Nat /\ n + 1 \in 1 .. Len(lines)
      BY <1>2, <1>3, <2>2
    <3>2. p = [pay[r] EXCEPT !.next = n + 1]
      BY <2>2
    <3> HIDE DEF p
    <3> QED
      BY <1>1, <2>1, <3>1, <3>2 DEF Pay
  <2>3. CASE ~(n < Len(lines))
    BY <2>1, <2>3 DEF Pay, PayStages
  <2> QED
    BY <2>2, <2>3
<1> HIDE DEF p
<1>7. params' \in [ServiceIds -> SUBSET Datum]
  BY <1>1 DEF CheckoutInv, FormInv, SetupTypeOK
<1>8. UNCHANGED << cartVars, services, form, charges, orders >>
  BY <1>1
<1> QED
  BY <1>1, <1>5, <1>6, <1>7, <1>8, GoesOnKeeps DEF lines

\* The charge that r sends.
ChargeOf(r) ==
  [cust |-> who[r], cart |-> cart[r].id, lines |-> cart[r].lines,
   data |-> pay[r].data]

\* A charge that is approved comes behind those there are.
LEMMA ChargeAppended ==
  ASSUME CheckoutInv, NEW r \in Requests,
         charges' = Append(charges, ChargeOf(r))
  PROVE  /\ charges' \in Seq(Charge)
         /\ Len(charges') = Len(charges) + 1
         /\ DOMAIN charges' = 1 .. Len(charges) + 1
         /\ charges'[Len(charges) + 1] = ChargeOf(r)
         /\ \A t \in DOMAIN charges :
              t \in DOMAIN charges' /\ charges'[t] = charges[t]
         /\ Len(charges) + 1 \notin DOMAIN charges
         /\ Len(charges) + 1 \in Nat \ {0}
<1>1. ChargeOf(r) \in Charge
  BY CartFields, PayFields DEF CheckoutInv, ChargeOf, Charge
<1>2. /\ Len(charges) \in Nat
      /\ DOMAIN charges = 1 .. Len(charges)
      /\ charges \in Seq(Charge)
  BY OrderFields DEF CheckoutInv, PayTypeOK
<1>3. /\ charges' \in Seq(Charge)
      /\ Len(charges') = Len(charges) + 1
      /\ charges'[Len(charges) + 1] = ChargeOf(r)
      /\ \A t \in 1 .. Len(charges) : charges'[t] = charges[t]
  BY <1>1, <1>2, AppendProperties
<1>4. DOMAIN charges' = 1 .. Len(charges) + 1
  BY <1>3, LenProperties
<1> QED
  BY <1>2, <1>3, <1>4

(***************************************************************************)
(* The gateway's answer: the charge is approved and known to the request,  *)
(* or approved and not known to anyone, or declined.                       *)
(***************************************************************************)
LEMMA SendKeeps ==
  ASSUME CheckoutInv, NEW r \in Requests, Send(r)
  PROVE  CheckoutInv'
<1>1. /\ pay[r].at = "send"
      /\ UNCHANGED << cartVars, services, form, params, orders, stock >>
      /\ UNCHANGED << cart, who >>
  BY DEF Send, PayStep, cartVars
<1>2. /\ params' \in [ServiceIds -> SUBSET Datum]
      /\ orders' \in Seq(Order)
      /\ stock' \in [Products -> Int]
      /\ pay \in [Requests -> Pay]
      /\ pay[r] \in Pay
  BY <1>1, PayFields DEF CheckoutInv, PayTypeOK, FormInv, SetupTypeOK
<1>3. /\ pay[r].tx = 0
      /\ pay[r].order = 0
      /\ pay[r].next = 1
      /\ pay[r].ok = FALSE
  BY <1>1, PayFields DEF CheckoutInv, Paying, Progressed
<1>4. CASE PayGoesTo(r, "forget") /\ UNCHANGED charges
  BY <1>1, <1>2, <1>4, PayGoesToKeeps
<1>5. CASE charges' = Append(charges, ChargeOf(r))
  <2> DEFINE n == Len(charges) + 1
  <2>1. /\ charges' \in Seq(Charge)
        /\ Len(charges') = n
        /\ DOMAIN charges' = 1 .. n
        /\ charges'[n] = ChargeOf(r)
        /\ \A t \in DOMAIN charges :
             t \in DOMAIN charges' /\ charges'[t] = charges[t]
        /\ n \notin DOMAIN charges
        /\ n \in Nat \ {0}
    BY <1>5, ChargeAppended
  <2> HIDE DEF n
  <2>2. GrowsBy(r)
    BY <1>1, <2>1 DEF GrowsBy
  <2>3. EveryOrderPaid'
    BY <1>1, <2>1 DEF CheckoutInv, EveryOrderPaid
  <2>4. \A o \in DOMAIN orders : orders[o].tx # n
    BY <2>1 DEF CheckoutInv, EveryOrderPaid
  <2>5. PICK p \in Pay :
          /\ pay' = [pay EXCEPT ![r] = p]
          /\ p.order = 0 /\ p.next = 1 /\ p.ok = FALSE
          /\ \/ p.at = "insert" /\ p.tx = n
             \/ p.at = "forget" /\ p.tx = 0
    <3>1. CASE pay' = [pay EXCEPT ![r].at = "insert", ![r].tx = Len(charges')]
      <4> DEFINE p == [pay[r] EXCEPT !.at = "insert", !.tx = n]
      <4>1. pay' = [pay EXCEPT ![r] = p]
        BY <2>1, <3>1
      <4>2. /\ p \in Pay
            /\ p.at = "insert" /\ p.tx = n
            /\ p.order = 0 /\ p.next = 1 /\ p.ok = FALSE
        BY <1>2, <1>3, <2>1 DEF Pay, PayStages
      <4> HIDE DEF p
      <4> QED
        BY <4>1, <4>2
    <3>2. CASE PayGoesTo(r, "forget")
      <4> DEFINE p == [pay[r] EXCEPT !.at = "forget"]
      <4>1. pay' = [pay EXCEPT ![r] = p]
        BY <3>2 DEF PayGoesTo
      <4>2. /\ p \in Pay
            /\ p.at = "forget" /\ p.tx = 0
            /\ p.order = 0 /\ p.next = 1 /\ p.ok = FALSE
        BY <1>2, <1>3 DEF Pay, PayStages
      <4> HIDE DEF p
      <4> QED
        BY <4>1, <4>2
    <3>3. UNCHANGED charges => FALSE
      BY <2>1, OrderFields DEF CheckoutInv
    <3> QED
      BY <3>1, <3>2, <3>3 DEF Send
  <2>6. pay'[r] = p
    BY <1>2, <2>5
  <2>7. ChargeIsOwn(r)'
    <3>1. n \in DOMAIN charges'
      BY <2>1
    <3>2. /\ charges'[n].cust = who[r]
          /\ charges'[n].cart = cart[r].id
          /\ charges'[n].lines = cart[r].lines
      BY <2>1 DEF ChargeOf
    <3> QED
      BY <1>1, <2>5, <2>6, <3>1, <3>2 DEF ChargeIsOwn
  <2>8. OrderIsOwn(r)' /\ Progressed(r)'
    BY <1>1, <2>1, <2>4, <2>5, <2>6 DEF OrderIsOwn, Progressed
  <2>9. /\ Paying(r)'
        /\ p.at # "none"
        /\ p.tx \in {0, pay[r].tx} \/ p.tx \notin DOMAIN charges
        /\ pay[r].at # "none"
        /\ UNCHANGED << cartVars, services, form >>
    BY <1>1, <2>1, <2>5, <2>7, <2>8 DEF Paying
  <2> QED
    BY <1>2, <2>1, <2>2, <2>3, <2>5, <2>9, PayKeeps
<1> QED
  BY <1>4, <1>5 DEF Send, ChargeOf

(***************************************************************************)
(* The order that is inserted is for the charge the request has the answer *)
(* for, and the first one for it; it has no items yet.                     *)
(***************************************************************************)
LEMMA InsertOrderKeeps ==
  ASSUME CheckoutInv, NEW r \in Requests, InsertOrder(r)
  PROVE  CheckoutInv'
<1>1. /\ pay[r].at = "insert"
      /\ UNCHANGED << cartVars, services, form, params, charges, stock >>
      /\ UNCHANGED << cart, who >>
  BY DEF InsertOrder, PayStep, cartVars
<1>2. /\ params' \in [ServiceIds -> SUBSET Datum]
      /\ charges' \in Seq(Charge)
      /\ stock' \in [Products -> Int]
      /\ pay \in [Requests -> Pay]
      /\ pay[r] \in Pay
  BY <1>1, PayFields DEF CheckoutInv, PayTypeOK, FormInv, SetupTypeOK
<1>3. /\ pay[r].tx # 0
      /\ pay[r].next = 1
      /\ pay[r].ok = FALSE
      /\ \A o \in DOMAIN orders : orders[o].tx # pay[r].tx
      /\ ChargeIsOwn(r)
  BY <1>1, PayFields DEF CheckoutInv, Paying, Progressed
<1>4. CASE PayGoesTo(r, "forget") /\ UNCHANGED orders
  BY <1>1, <1>2, <1>4, PayGoesToKeeps
<1>5. CASE /\ orders' = Append(orders,
                [cust |-> who[r], cart |-> cart[r].id, tx |-> pay[r].tx,
                 items |-> << >>])
           /\ pay' = [pay EXCEPT ![r].at = "items", ![r].order = Len(orders')]
  <2> DEFINE n   == Len(orders) + 1
             new == [cust |-> who[r], cart |-> cart[r].id, tx |-> pay[r].tx,
                     items |-> << >>]
             p   == [pay[r] EXCEPT !.at = "items", !.order = n]
  <2>1. /\ new \in Order
        /\ new.cust = who[r]
        /\ new.cart = cart[r].id
        /\ new.tx = pay[r].tx
        /\ new.items = << >>
    BY CartFields, PayFields, EmptySeq DEF CheckoutInv, Order
  <2>2. /\ Len(orders) \in Nat
        /\ DOMAIN orders = 1 .. Len(orders)
        /\ orders \in Seq(Order)
    BY OrderFields DEF CheckoutInv, PayTypeOK
  <2>3. orders' = Append(orders, new)
    BY <1>5
  <2> HIDE DEF new
  <2>4. /\ orders' \in Seq(Order)
        /\ Len(orders') = n
        /\ orders'[n] = new
        /\ \A o \in DOMAIN orders : orders'[o] = orders[o]
    BY <2>1, <2>2, <2>3, AppendProperties
  <2>5. /\ DOMAIN orders' = DOMAIN orders \cup {n}
        /\ n \notin DOMAIN orders
        /\ n \in Nat \ {0}
    <3>1. DOMAIN orders' = 1 .. n
      BY <2>4, LenProperties
    <3> QED
      BY <2>2, <3>1
  <2>6. pay' = [pay EXCEPT ![r] = p]
    BY <1>5, <2>4
  <2> HIDE DEF n
  <2>7. /\ p \in Pay
        /\ p.at = "items"
        /\ p.tx = pay[r].tx
        /\ p.order = n
        /\ p.next = 1
        /\ p.ok = FALSE
    BY <1>2, <1>3, <2>5 DEF Pay, PayStages
  <2> HIDE DEF p
  <2>8. pay'[r] = p
    BY <1>2, <2>6
  <2>9. GrowsBy(r)
    BY <1>1, <2>1, <2>4, <2>5 DEF GrowsBy
  <2>10. EveryOrderPaid'
    <3>1. IsPrefix(<< >>, cart[r].lines)
      <4>1. Len(<< >>) = 0
        BY EmptySeq
      <4>2. Len(<< >>) <= Len(cart[r].lines)
        BY <4>1, CartFields DEF CheckoutInv
      <4>3. /\ SubSeq(<< >>, 1, Len(<< >>)) = << >>
            /\ SubSeq(cart[r].lines, 1, Len(<< >>)) = << >>
        BY <4>1, SubSeqEmpty
      <4> QED
        BY <4>2, <4>3 DEF IsPrefix
    <3>2. /\ new.tx \in DOMAIN charges
          /\ charges[new.tx].cust = new.cust
          /\ charges[new.tx].cart = new.cart
          /\ IsPrefix(new.items, charges[new.tx].lines)
      BY <1>3, <2>1, <3>1 DEF ChargeIsOwn
    <3>3. \A o \in DOMAIN orders : orders[o].tx # new.tx
      BY <1>3, <2>1
    <3> QED
      BY <1>1, <2>4, <2>5, <3>2, <3>3 DEF CheckoutInv, EveryOrderPaid
  <2>11. ChargeIsOwn(r)'
    BY <1>1, <1>3, <2>7, <2>8 DEF ChargeIsOwn
  <2>12. OrderIsOwn(r)'
    BY <1>3, <2>1, <2>4, <2>5, <2>7, <2>8 DEF OrderIsOwn
  <2>13. Progressed(r)'
    <3>1. pc[r] = "checkOut" /\ cart[r].lines # << >>
      BY <1>1 DEF CheckoutInv, Occupied
    <3>2. 1 \in 1 .. Len(cart[r].lines)
      BY <3>1, CartFields DEF CheckoutInv
    <3>3. SubSeq(cart[r].lines, 1, 1 - 1) = << >>
      BY SubSeqEmpty
    <3> QED
      BY <1>1, <1>3, <2>1, <2>4, <2>5, <2>7, <2>8, <3>2, <3>3 DEF Progressed
  <2>14. /\ Paying(r)'
         /\ p.at # "none"
         /\ p.tx \in {0, pay[r].tx}
         /\ pay[r].at # "none"
         /\ UNCHANGED << cartVars, services, form >>
    BY <1>1, <2>7, <2>11, <2>12, <2>13 DEF Paying
  <2> QED
    BY <1>2, <2>4, <2>6, <2>7, <2>9, <2>10, <2>14, PayKeeps
<1> QED
  BY <1>4, <1>5 DEF InsertOrder

\* The lines up to one and that line itself are the lines up to that one.
LEMMA OneMoreLine ==
  ASSUME NEW lines \in Seq(Line), NEW n \in 1 .. Len(lines)
  PROVE  /\ Append(SubSeq(lines, 1, n - 1), lines[n]) = SubSeq(lines, 1, n)
         /\ SubSeq(lines, 1, n) \in Seq(Line)
         /\ IsPrefix(SubSeq(lines, 1, n), lines)
         /\ n = Len(lines) => SubSeq(lines, 1, n) = lines
<1>1. /\ Len(lines) \in Nat
      /\ \A i \in 1 .. Len(lines) : lines[i] \in Line
  BY LenProperties, ElementOfSeq
<1>2. n \in Int /\ n - 1 \in Int /\ 1 \in 1 .. Len(lines) /\ n \in 1 .. Len(lines)
  BY <1>1
<1>3. SubSeq(lines, 1, n - 1) \in Seq(Line)
  BY <1>1, <1>2, SubSeqProperties
<1>4. SubSeq(lines, 1, n) = SubSeq(lines, 1, n - 1) \o << lines[n] >>
  BY <1>1, <1>2, SubSeqRecursiveSecond
<1>5. Append(SubSeq(lines, 1, n - 1), lines[n])
        = SubSeq(lines, 1, n - 1) \o << lines[n] >>
  BY <1>1, <1>3, AppendIsConcat
<1>6. /\ SubSeq(lines, 1, n) \in Seq(Line)
      /\ Len(SubSeq(lines, 1, n)) = n
  <2>1. /\ SubSeq(lines, 1, n) \in Seq(Line)
        /\ Len(SubSeq(lines, 1, n)) = IF 1 <= n THEN n - 1 + 1 ELSE 0
    BY <1>1, <1>2, SubSeqProperties
  <2> QED
    BY <1>2, <2>1
<1>7. SubSeq(SubSeq(lines, 1, n), 1, n) = SubSeq(lines, 1, n)
  BY <1>6, SubSeqFull
<1>8. IsPrefix(SubSeq(lines, 1, n), lines)
  BY <1>1, <1>6, <1>7 DEF IsPrefix
<1>9. n = Len(lines) => SubSeq(lines, 1, n) = lines
  BY SubSeqFull
<1> QED
  BY <1>4, <1>5, <1>6, <1>8, <1>9

(***************************************************************************)
(* An item that is saved is the next line of the cart that was charged     *)
(* for; one that is not leaves the order incomplete.                       *)
(***************************************************************************)
LEMMA SaveItemKeeps ==
  ASSUME CheckoutInv, NEW r \in Requests, SaveItem(r)
  PROVE  CheckoutInv'
<1> DEFINE lines == cart[r].lines
           n     == pay[r].next
           mine  == pay[r].order
<1>1. /\ pay[r].at = "items"
      /\ UNCHANGED << cartVars, services, form, params, charges, stock >>
      /\ UNCHANGED << cart, who >>
  BY DEF SaveItem, PayStep, cartVars
<1>2. /\ params' \in [ServiceIds -> SUBSET Datum]
      /\ charges' \in Seq(Charge)
      /\ stock' \in [Products -> Int]
      /\ pay \in [Requests -> Pay]
      /\ pay[r] \in Pay
  BY <1>1, PayFields DEF CheckoutInv, PayTypeOK, FormInv, SetupTypeOK
<1>3. /\ pay[r].tx # 0
      /\ mine \in DOMAIN orders
      /\ mine # 0
      /\ orders[mine].tx = pay[r].tx
      /\ orders[mine].items = SubSeq(lines, 1, n - 1)
      /\ n \in 1 .. Len(lines)
      /\ pay[r].ok = FALSE
      /\ ChargeIsOwn(r)
  BY <1>1, PayFields
  DEF CheckoutInv, Paying, Progressed, OrderIsOwn
<1>4. lines \in Seq(Line) /\ Len(lines) \in Nat /\ 1 \in 1 .. Len(lines)
  BY <1>3, CartFields DEF CheckoutInv
<1>5. CASE /\ pay' = [pay EXCEPT ![r].at = "stock", ![r].next = 1]
           /\ UNCHANGED orders
  <2> DEFINE p == [pay[r] EXCEPT !.at = "stock", !.next = 1]
  <2>1. pay' = [pay EXCEPT ![r] = p]
    BY <1>5
  <2>2. /\ p \in Pay
        /\ p.at = "stock"
        /\ p.next \in 1 .. Len(cart[r].lines)
        /\ p.tx = pay[r].tx
        /\ p.order = pay[r].order
        /\ p.ok = pay[r].ok
    BY <1>2, <1>4 DEF Pay, PayStages
  <2> HIDE DEF p
  <2>3. UNCHANGED << cartVars, services, form, charges, orders >>
    BY <1>1, <1>5
  <2> QED
    BY <1>1, <1>2, <2>1, <2>2, <2>3, GoesOnKeeps
<1>6. CASE /\ orders' = [orders EXCEPT ![mine].items = Append(@, lines[n])]
           /\ pay' = [pay EXCEPT ![r] =
                IF n < Len(lines)
                  THEN [@ EXCEPT !.next = n + 1]
                  ELSE [@ EXCEPT !.at = "stock", !.next = 1, !.ok = TRUE]]
  <2> DEFINE items == SubSeq(lines, 1, n)
             p     == IF n < Len(lines)
                        THEN [pay[r] EXCEPT !.next = n + 1]
                        ELSE [pay[r] EXCEPT !.at = "stock", !.next = 1,
                                            !.ok = TRUE]
  <2>1. pay' = [pay EXCEPT ![r] = p]
    BY <1>6
  <2>2. /\ Append(orders[mine].items, lines[n]) = items
        /\ items \in Seq(Line)
        /\ IsPrefix(items, lines)
        /\ n = Len(lines) => items = lines
    BY <1>3, <1>4, OneMoreLine
  <2>3. /\ p \in Pay
        /\ p.tx = pay[r].tx
        /\ p.order = mine
        /\ \/ /\ n < Len(lines)
              /\ p.at = "items" /\ p.next = n + 1 /\ p.ok = FALSE
           \/ /\ n = Len(lines)
              /\ p.at = "stock" /\ p.next = 1 /\ p.ok = TRUE
    <3>1. CASE n < Len(lines)
      <4>1. p = [pay[r] EXCEPT !.next = n + 1] /\ n + 1 \in Nat
        BY <1>3, <1>4, <3>1
      <4> HIDE DEF p
      <4> QED
        BY <1>1, <1>2, <1>3, <3>1, <4>1 DEF Pay
    <3>2. CASE ~(n < Len(lines))
      <4>1. p = [pay[r] EXCEPT !.at = "stock", !.next = 1, !.ok = TRUE]
        BY <3>2
      <4>2. n = Len(lines)
        BY <1>3, <1>4, <3>2
      <4> HIDE DEF p
      <4> QED
        BY <1>1, <1>2, <4>1, <4>2 DEF Pay, PayStages
    <3> QED
      BY <3>1, <3>2
  <2> HIDE DEF p, items
  <2>4. pay'[r] = p
    BY <1>2, <2>1
  <2>5. /\ Len(orders) \in Nat
        /\ DOMAIN orders = 1 .. Len(orders)
        /\ orders \in Seq(Order)
        /\ orders[mine] \in Order
    BY <1>3, OrderFields DEF CheckoutInv, PayTypeOK
  <2> DEFINE new == [orders[mine] EXCEPT !.items = items]
  <2>6. orders' = [orders EXCEPT ![mine] = new]
    BY <1>6, <2>2
  <2>7. /\ new \in Order
        /\ new.items = items
        /\ new.tx = orders[mine].tx
        /\ new.cart = orders[mine].cart
        /\ new.cust = orders[mine].cust
    BY <2>2, <2>5 DEF Order
  <2> HIDE DEF new
  <2>8. /\ orders' \in Seq(Order)
        /\ DOMAIN orders' = DOMAIN orders
        /\ orders'[mine] = new
        /\ \A o \in DOMAIN orders : o # mine => orders'[o] = orders[o]
    BY <1>3, <2>5, <2>6, <2>7, ExceptSeq
  <2>9. GrowsBy(r)
    BY <1>1, <2>7, <2>8 DEF GrowsBy
  <2>10. EveryOrderPaid'
    <3>1. charges[new.tx].lines = lines
      BY <1>3, <2>7 DEF ChargeIsOwn
    <3>2. IsPrefix(new.items, charges[new.tx].lines)
      BY <2>2, <2>7, <3>1
    <3> QED
      BY <1>1, <1>3, <2>7, <2>8, <3>2 DEF CheckoutInv, EveryOrderPaid
  <2>11. ChargeIsOwn(r)'
    BY <1>1, <1>3, <2>3, <2>4 DEF ChargeIsOwn
  <2>12. OrderIsOwn(r)'
    BY <1>3, <2>3, <2>4, <2>7, <2>8 DEF OrderIsOwn
  <2>13. Progressed(r)'
    <3>1. CASE n < Len(lines)
      <4>1. p.at = "items" /\ p.next = n + 1 /\ p.ok = FALSE
        BY <2>3, <3>1, <1>4
      <4>2. n + 1 \in 1 .. Len(lines) /\ (n + 1) - 1 = n
        BY <1>3, <1>4, <3>1
      <4>3. orders'[mine].items = SubSeq(lines, 1, (n + 1) - 1)
        BY <2>7, <2>8, <4>2 DEF items
      <4> QED
        BY <1>1, <1>3, <2>3, <2>4, <4>1, <4>2, <4>3 DEF Progressed
    <3>2. CASE n = Len(lines)
      <4>1. p.at = "stock" /\ p.next = 1 /\ p.ok = TRUE
        BY <2>3, <3>2, <1>4
      <4>2. orders'[mine].items = lines
        BY <2>2, <2>7, <2>8, <3>2
      <4> QED
        BY <1>1, <1>3, <1>4, <2>3, <2>4, <4>1, <4>2 DEF Progressed
    <3> QED
      BY <2>3, <3>1, <3>2
  <2>14. /\ Paying(r)'
         /\ p.at # "none"
         /\ p.tx \in {0, pay[r].tx}
         /\ pay[r].at # "none"
         /\ UNCHANGED << cartVars, services, form >>
    BY <1>1, <2>3, <2>11, <2>12, <2>13 DEF Paying
  <2> QED
    BY <1>2, <2>1, <2>3, <2>8, <2>9, <2>10, <2>14, PayKeeps
<1> QED
  BY <1>5, <1>6 DEF SaveItem

(***************************************************************************)
(* Back in createOrderPanel: the cart is checked out if the payment says   *)
(* that its order is complete.                                             *)
(***************************************************************************)
LEMMA PayEndsKeeps ==
  ASSUME CheckoutInv, NEW r \in Requests, PayEnds(r)
  PROVE  CheckoutInv'
<1>1. /\ pay[r].at = "end"
      /\ CheckOut(r) \/ ShowPage(r)
      /\ CheckOut(r) => pay[r].ok \/ ShowPage(r)
      /\ pay' = [pay EXCEPT ![r] = NoPay]
      /\ UNCHANGED << services, params, form, charges, orders, stock >>
  BY DEF PayEnds, paymentVars, shopVars
<1>2. CartTypeOK'
  BY <1>1, CheckOutType, ShowPageType DEF CheckoutInv
<1>3. FormInv'
  BY <1>1 DEF CheckoutInv, FormInv, SetupTypeOK, PartsCounted
<1>4. PayTypeOK'
  BY <1>1, NoPayType DEF CheckoutInv, PayTypeOK
<1>5. GrowsBy(r) /\ EveryOrderPaid'
  BY <1>1, SameHistory DEF CheckoutInv
<1>6. \A q \in Requests : q # r =>
        pc'[q] = pc[q] /\ who'[q] = who[q] /\ cart'[q] = cart[q]
  BY <1>1, CartStepOfOne DEF CheckoutInv
<1>7. pay'[r] = NoPay /\ \A q \in Requests : q # r => pay'[q] = pay[q]
  BY <1>1 DEF CheckoutInv, PayTypeOK
<1>8. form[r].at = "none"
  BY <1>1 DEF CheckoutInv, Occupied
<1>9. Occupied(r)'
  BY <1>1, <1>7, <1>8, NoPayType DEF Occupied
<1>10. Paying(r)' /\ pay'[r].tx = 0
  BY <1>7, NotPaying, NoPayType
<1>11. ASSUME NEW c, SaidToBeClosed(c)'
       PROVE  SaidToBeClosed(c) \/ Ordered(c)'
  <2>1. CASE ShowPage(r)
    BY <1>11, <2>1, NothingElseCloses DEF CheckoutInv
  <2>2. CASE CheckOut(r) /\ pay[r].ok
    <3>1. SaidToBeClosed(c) \/ c = cart[r].id
      BY <1>11, <2>2, SaveSays DEF CheckOut, CheckoutInv
    <3>2. c = cart[r].id => Ordered(c)
      <4> DEFINE o == pay[r].order
      <4>1. /\ o \in DOMAIN orders
            /\ orders[o].tx = pay[r].tx
            /\ pay[r].tx # 0
            /\ orders[o].items = cart[r].lines
            /\ ChargeIsOwn(r)
        BY <2>2 DEF CheckoutInv, Paying, Progressed, OrderIsOwn
      <4>2. /\ charges[orders[o].tx].lines = cart[r].lines
            /\ charges[orders[o].tx].cart = cart[r].id
        BY <4>1 DEF ChargeIsOwn
      <4>3. orders[o].cart = cart[r].id
        BY <4>1, <4>2 DEF CheckoutInv, EveryOrderPaid
      <4> QED
        BY <4>1, <4>2, <4>3 DEF Ordered
    <3>3. Ordered(c) => Ordered(c)'
      BY <1>1 DEF Ordered
    <3> QED
      BY <3>1, <3>2, <3>3
  <2> QED
    BY <1>1, <2>1, <2>2
<1> QED
  BY <1>1, <1>2, <1>3, <1>4, <1>5, <1>6, <1>7, <1>9, <1>10, <1>11, StepKeeps

-----------------------------------------------------------------------------
(* The theorems.                                                           *)

\* The invariant holds before anybody has come to the checkout.
LEMMA CheckoutInvInit == CheckoutInit => CheckoutInv
<1> SUFFICES ASSUME CheckoutInit PROVE CheckoutInv
  OBVIOUS
<1>1. CartTypeOK /\ FormInv
  BY CartInitType, SetupInitType DEF CheckoutInit
<1>2. PayTypeOK
  BY NoPayType, EmptySeq, CheckoutAssumption DEF CheckoutInit, PayTypeOK
<1>3. ASSUME NEW r \in Requests
      PROVE  /\ pay[r] = NoPay
             /\ form[r].at = "none"
             /\ cart[r] = NoCart
  BY NoFormType DEF CheckoutInit, SetupInit, CartInit
<1>4. \A r \in Requests : Occupied(r) /\ Paying(r)
  BY <1>3, NoPayType
  DEF Occupied, Paying, ChargeIsOwn, OrderIsOwn, Progressed
<1>5. ChargesApart
  BY <1>3, NoPayType DEF ChargesApart
<1>6. orders = << >> /\ carts = << >>
  BY DEF CheckoutInit, CartInit
<1>7. EveryOrderPaid
  BY <1>6 DEF EveryOrderPaid
<1>8. ClosedIsOrdered
  BY <1>3, <1>6 DEF ClosedIsOrdered, SaidToBeClosed, NoCart
<1> QED
  BY <1>1, <1>2, <1>4, <1>5, <1>7, <1>8 DEF CheckoutInv

\* Every step, of the cart, of a form or of a payment, keeps the invariant.
LEMMA CheckoutInvStep == CheckoutInv /\ [CheckoutNext]_checkoutVars => CheckoutInv'
<1> SUFFICES ASSUME CheckoutInv, [CheckoutNext]_checkoutVars
             PROVE  CheckoutInv'
  OBVIOUS
<1>1. CASE UNCHANGED checkoutVars
  <2>1. UNCHANGED << carts, crtid, links, pc, who, cart, setCookie, services,
                     params, form, charges, orders, stock, pay >>
    BY <1>1 DEF checkoutVars, cartVars, paymentVars, shopVars
  <2>2. CartTypeOK' /\ FormInv' /\ PayTypeOK'
    BY <2>1 DEF CheckoutInv, CartTypeOK, FormInv, SetupTypeOK, PartsCounted,
                PayTypeOK
  <2>3. \A r \in Requests : Occupied(r)'
    BY <2>1 DEF CheckoutInv, Occupied
  <2>4. \A r \in Requests : Paying(r)'
    BY <2>1, SamePaying
  <2>5. ChargesApart'
    BY <2>1 DEF CheckoutInv, ChargesApart
  <2>6. EveryOrderPaid'
    BY <2>1, SameHistory DEF CheckoutInv
  <2>7. ASSUME NEW c, SaidToBeClosed(c)' PROVE Ordered(c)'
    <3>1. SaidToBeClosed(c)
      BY <2>1, <2>7 DEF SaidToBeClosed
    <3>2. Ordered(c)
      BY <3>1 DEF CheckoutInv, ClosedIsOrdered
    <3> QED
      BY <2>1, <3>2 DEF Ordered
  <2> QED
    BY <2>2, <2>3, <2>4, <2>5, <2>6, <2>7 DEF CheckoutInv, ClosedIsOrdered
<1>2. CASE CheckoutNext
  BY <1>2, OtherPageKeeps, VerifyKeeps, ConfirmKeeps, StoreSetupKeeps,
     ShowConfirmationKeeps, ReadParametersKeeps, SendKeeps, InsertOrderKeeps,
     SaveItemKeeps, DecrementStockKeeps, RemoveParamsKeeps, PayEndsKeeps,
     ProcessDiesKeeps DEF CheckoutNext, Continue
<1> QED
  BY <1>1, <1>2

(***************************************************************************)
(* Every variable of the checkout keeps its type: no payment goes past the *)
(* lines of the cart, none names a row that does not exist, and the stock  *)
(* of a product stays a number, though maybe a negative one.               *)
(***************************************************************************)
THEOREM CheckoutTypesHold == CheckoutSpec => []CheckoutTypeOK
<1>1. CheckoutInv => CheckoutTypeOK
  BY DEF CheckoutInv, CheckoutTypeOK, FormInv, PayTypeOK
<1> QED
  BY <1>1, CheckoutInvInit, CheckoutInvStep, PTL DEF CheckoutSpec

(***************************************************************************)
(* Every order was paid for by its own customer, for its own cart, with a  *)
(* charge that no other order has, and holds nothing the charge was not    *)
(* for, however requests overlap, fail or die.                             *)
(***************************************************************************)
THEOREM OrdersArePaid == CheckoutSpec => []EveryOrderPaid
<1>1. CheckoutInv => EveryOrderPaid
  BY DEF CheckoutInv
<1> QED
  BY <1>1, CheckoutInvInit, CheckoutInvStep, PTL DEF CheckoutSpec

(***************************************************************************)
(* A cart that is checked out has an order with every item of the charge,  *)
(* however requests overlap, fail or die, and although every update of the *)
(* cart writes a Checked_Out that may be stale.                            *)
(***************************************************************************)
THEOREM ClosedCartsAreOrdered == CheckoutSpec => []CheckedOutOnlyIfOrdered
<1>1. CheckoutInv => CheckedOutOnlyIfOrdered
  BY DEF CheckoutInv, ClosedIsOrdered, SaidToBeClosed, Ordered,
         CheckedOutOnlyIfOrdered
<1> QED
  BY <1>1, CheckoutInvInit, CheckoutInvStep, PTL DEF CheckoutSpec

\* To the carts, a step of the checkout is a step of ShoppingCart.
LEMMA CheckoutIsCartStep ==
  ASSUME CheckoutInv, [CheckoutNext]_checkoutVars
  PROVE  [CartNext]_cartVars
<1>1. CASE UNCHANGED checkoutVars
  BY <1>1 DEF checkoutVars
<1>2. ASSUME NEW r \in Requests, OtherPage(r)
      PROVE  CartNext
  BY <1>2 DEF OtherPage, CartNext
<1>3. ASSUME NEW r \in Requests, Verify(r) \/ Confirm(r) \/ StoreSetup(r)
      PROVE  UNCHANGED cartVars
  BY <1>3 DEF Verify, Confirm, StoreSetup
<1>4. ASSUME NEW r \in Requests, ShowConfirmation(r)
      PROVE  CartNext
  BY <1>4 DEF ShowConfirmation, CartNext
<1>5. ASSUME NEW r \in Requests,
             \/ ReadParameters(r)
             \/ Send(r)
             \/ InsertOrder(r)
             \/ SaveItem(r)
             \/ DecrementStock(r)
             \/ RemoveParams(r)
      PROVE  UNCHANGED cartVars
  BY <1>5 DEF ReadParameters, Send, InsertOrder, SaveItem, DecrementStock,
              RemoveParams, PayStep
<1>6. ASSUME NEW r \in Requests, PayEnds(r)
      PROVE  CartNext
  <2>1. pay[r].at = "end" /\ (CheckOut(r) \/ ShowPage(r))
    BY <1>6 DEF PayEnds
  <2>2. MayCheckOut(r)
    BY <2>1 DEF CheckoutInv, Occupied, MayCheckOut
  <2> QED
    BY <2>1, <2>2 DEF CartNext
<1>7. ASSUME NEW r \in Requests, ProcessDies(r)
      PROVE  CartNext
  BY <1>7 DEF ProcessDies, CartNext
<1> QED
  BY <1>1, <1>2, <1>3, <1>4, <1>5, <1>6, <1>7 DEF CheckoutNext, Continue

(***************************************************************************)
(* To the carts, the whole checkout does no more than ShoppingCart allows: *)
(* a cart is only checked out by a request whose object holds something    *)
(* and is open, also after all the statements of a payment.                *)
(***************************************************************************)
THEOREM CheckoutRefinesCart == CheckoutSpec => CartSpec
<1>1. CheckoutInit => CartInit
  BY DEF CheckoutInit
<1>2. CheckoutInv /\ [CheckoutNext]_checkoutVars => [CartNext]_cartVars
  BY CheckoutIsCartStep
<1> QED
  BY <1>1, <1>2, CheckoutInvInit, CheckoutInvStep, PTL
  DEF CheckoutSpec, CartSpec

(***************************************************************************)
(* So the carts stay private, and their owners' own, through the checkout. *)
(***************************************************************************)
THEOREM CheckoutKeepsCartsPrivate ==
  CheckoutSpec => []CartsArePrivate /\ OthersNeverTouchMyCart
  BY CheckoutRefinesCart, CartsStayPrivate, MyCartIsMine, PTL

-----------------------------------------------------------------------------
(* The stock.                                                              *)

\* r has inserted its order and has not taken all of it from the shelf yet.
Taking(r) == pay[r].at \in {"items", "stock"}

\* The pieces of p that r has taken for its order so far.
TakenBy(r, p) ==
  IF pay[r].at = "stock"
    THEN Sums(Counts(cart[r].lines, p))[pay[r].next - 1]
    ELSE 0

\* The pieces of p that the order o was charged for.
SoldBy(o, p) == PiecesOf(charges[orders[o].tx].lines, p)

\* What was taken for an order that nobody is at any more.
TakenInTheEnd(n, sold) ==
  IF "die" \in PayFaults THEN 0 <= n /\ n <= sold ELSE n = sold

(***************************************************************************)
(* Order by order, what the shelf lacks of p: the pieces that the request  *)
(* at the order has taken so far, or in the end all the order was charged  *)
(* for; of an order whose process died, any part of them.                  *)
(***************************************************************************)
Accounts(p, taken) ==
  /\ taken \in Seq(Int)
  /\ Len(taken) = Len(orders)
  /\ Shelf - stock[p] = Total(taken)
  /\ \A r \in Requests : Taking(r) => taken[pay[r].order] = TakenBy(r, p)
  /\ \A o \in DOMAIN orders :
       (\A r \in Requests : Taking(r) => pay[r].order # o) =>
         TakenInTheEnd(taken[o], SoldBy(o, p))

StockInv == \A p \in Products : \E taken : Accounts(p, taken)

\* Every line of a cart, and every line that was charged for, has pieces.
PiecesInv ==
  /\ AllIn(WithPieces)
  /\ \A t \in DOMAIN charges : charges[t].lines \in WithPieces

\* Orders keep their charges.
OrdersStay ==
  \A o \in DOMAIN orders :
    /\ o \in DOMAIN orders'
    /\ orders'[o].tx = orders[o].tx
    /\ charges'[orders[o].tx].lines = charges[orders[o].tx].lines

\* Two accounts of the orders that there are differ in one of them alone.
SameBut(mine, taken, new) ==
  \A o \in DOMAIN orders : o # mine => new[o] = taken[o]

\* No two requests are at the same order.
LEMMA OrdersApart ==
  ASSUME CheckoutInv, NEW r \in Requests, NEW q \in Requests, r # q,
         Taking(r), Taking(q)
  PROVE  pay[r].order # pay[q].order
<1>1. Paying(r) /\ Paying(q)
  BY DEF CheckoutInv
<1>2. /\ pay[r].order # 0 /\ orders[pay[r].order].tx = pay[r].tx
      /\ pay[q].order # 0 /\ orders[pay[q].order].tx = pay[q].tx
      /\ pay[r].tx # 0
  BY <1>1 DEF Paying, Progressed, OrderIsOwn, Taking
<1>3. pay[r].tx # pay[q].tx
  BY <1>2 DEF CheckoutInv, ChargesApart
<1> QED
  BY <1>2, <1>3

\* The order a request is at: it exists, and is for the lines of its cart.
LEMMA OwnOrder ==
  ASSUME CheckoutInv, NEW r \in Requests, Taking(r)
  PROVE  /\ pay[r].order \in DOMAIN orders
         /\ charges[orders[pay[r].order].tx].lines = cart[r].lines
         /\ \A p : SoldBy(pay[r].order, p) = PiecesOf(cart[r].lines, p)
         /\ pay[r].next \in 1 .. Len(cart[r].lines)
         /\ cart[r].lines \in Contents
         /\ Len(cart[r].lines) \in Nat
<1>1. Paying(r)
  BY DEF CheckoutInv
<1>2. /\ pay[r].order \in DOMAIN orders
      /\ orders[pay[r].order].tx = pay[r].tx
      /\ pay[r].tx # 0
      /\ pay[r].next \in 1 .. Len(cart[r].lines)
  BY <1>1 DEF Paying, Progressed, OrderIsOwn, Taking
<1>3. charges[pay[r].tx].lines = cart[r].lines
  BY <1>1, <1>2 DEF Paying, ChargeIsOwn
<1> QED
  BY <1>2, <1>3, CartFields DEF CheckoutInv, SoldBy, Contents

(***************************************************************************)
(* What a step of r has to show to keep the accounts, when mine is the     *)
(* only order it is at, inserts or leaves.                                 *)
(***************************************************************************)
LEMMA AccountsStep ==
  ASSUME CheckoutInv, OrdersStay,
         NEW r \in Requests, NEW mine, NEW p, NEW taken, Accounts(p, taken),
         \A q \in Requests : q # r => pay'[q] = pay[q] /\ cart'[q] = cart[q],
         \A q \in Requests : (q # r /\ Taking(q)) => pay[q].order # mine,
         Taking(r) => pay[r].order = mine,
         Taking(r)' => pay'[r].order = mine,
         NEW new \in Seq(Int),
         Len(new) = Len(orders'),
         Shelf - stock'[p] = Total(new),
         Taking(r)' => new[mine] = TakenBy(r, p)',
         SameBut(mine, taken, new),
         \A o \in DOMAIN orders' : o \in DOMAIN orders \/ o = mine,
         (mine \in DOMAIN orders' /\ ~Taking(r)') =>
           TakenInTheEnd(new[mine], SoldBy(mine, p)')
  PROVE  Accounts(p, new)'
<1>1. ASSUME NEW q \in Requests, q # r
      PROVE  /\ Taking(q)' <=> Taking(q)
             /\ TakenBy(q, p)' = TakenBy(q, p)
             /\ pay'[q].order = pay[q].order
  BY <1>1 DEF Taking, TakenBy
<1>2. ASSUME NEW q \in Requests, Taking(q)'
      PROVE  new[pay'[q].order] = TakenBy(q, p)'
  <2>1. CASE q = r
    BY <1>2, <2>1
  <2>2. CASE q # r
    <3>1. Taking(q) /\ pay[q].order # mine
      BY <1>1, <1>2, <2>2
    <3>2. pay[q].order \in DOMAIN orders
      BY <3>1, OwnOrder
    <3>3. taken[pay[q].order] = TakenBy(q, p)
      BY <3>1 DEF Accounts
    <3> QED
      BY <1>1, <2>2, <3>1, <3>2, <3>3 DEF SameBut
  <2> QED
    BY <2>1, <2>2
<1>3. ASSUME NEW o \in DOMAIN orders',
             \A q \in Requests : Taking(q)' => pay'[q].order # o
      PROVE  TakenInTheEnd(new[o], SoldBy(o, p)')
  <2>1. CASE o = mine
    <3>1. ~Taking(r)'
      BY <1>3, <2>1
    <3> QED
      BY <2>1, <3>1
  <2>2. CASE o # mine
    <3>1. o \in DOMAIN orders /\ new[o] = taken[o]
      BY <2>2 DEF SameBut
    <3>2. \A q \in Requests : Taking(q) => pay[q].order # o
      BY <1>1, <1>3, <2>2
    <3>3. TakenInTheEnd(taken[o], SoldBy(o, p))
      BY <3>1, <3>2 DEF Accounts
    <3>4. SoldBy(o, p)' = SoldBy(o, p)
      BY <3>1 DEF SoldBy, OrdersStay
    <3> QED
      BY <3>1, <3>3, <3>4
  <2> QED
    BY <2>1, <2>2
<1>4. \A n, sold : TakenInTheEnd(n, sold)' <=> TakenInTheEnd(n, sold)
  BY DEF TakenInTheEnd
<1> QED
  BY <1>2, <1>3, <1>4 DEF Accounts

(***************************************************************************)
(* A step of a request that is at no order, before it and after it, and    *)
(* leaves the orders and the stock.                                        *)
(***************************************************************************)
LEMMA ElsewhereKeepsAccounts ==
  ASSUME CheckoutInv, StockInv, NEW r \in Requests,
         ~Taking(r), ~Taking(r)',
         UNCHANGED << orders, stock >>,
         \A t \in DOMAIN charges : charges'[t] = charges[t],
         \A q \in Requests : q # r => pay'[q] = pay[q] /\ cart'[q] = cart[q]
  PROVE  StockInv'
<1>1. OrdersStay
  BY DEF CheckoutInv, EveryOrderPaid, OrdersStay
<1>2. DOMAIN orders = 1 .. Len(orders) /\ Len(orders) \in Nat
  BY OrderFields DEF CheckoutInv
<1>3. ASSUME NEW p \in Products, NEW taken, Accounts(p, taken)
      PROVE  Accounts(p, taken)'
  <2>1. /\ taken \in Seq(Int)
        /\ Len(taken) = Len(orders')
        /\ Shelf - stock'[p] = Total(taken)
    BY <1>3 DEF Accounts
  <2>2. /\ 0 \notin DOMAIN orders
        /\ 0 \notin DOMAIN orders'
        /\ \A o \in DOMAIN orders' : o \in DOMAIN orders
    BY <1>2
  <2>3. \A q \in Requests : Taking(q) => pay[q].order # 0
    BY <2>2, OwnOrder
  <2>4. SameBut(0, taken, taken)
    BY DEF SameBut
  <2> QED
    BY <1>1, <1>3, <2>1, <2>2, <2>3, <2>4, AccountsStep
<1> QED
  BY <1>3 DEF StockInv

\* Which requests a payment's stage concerns.
LEMMA OthersAreKept ==
  ASSUME CheckoutInv, NEW r \in Requests, NEW p \in Pay,
         pay' = [pay EXCEPT ![r] = p], UNCHANGED cart
  PROVE  /\ pay'[r] = p
         /\ \A q \in Requests : q # r => pay'[q] = pay[q] /\ cart'[q] = cart[q]
  BY DEF CheckoutInv, PayTypeOK

(***************************************************************************)
(* An order that is inserted has nothing taken for it yet.                 *)
(***************************************************************************)
LEMMA InsertedOrderTookNothing ==
  ASSUME CheckoutInv, CheckoutInv', StockInv, NEW r \in Requests, InsertOrder(r)
  PROVE  StockInv'
<1>1. /\ pay[r].at = "insert"
      /\ UNCHANGED << cart, charges, stock >>
  BY DEF InsertOrder, PayStep, cartVars
<1>2. pay \in [Requests -> Pay] /\ pay[r] \in Pay
  BY PayFields DEF CheckoutInv, PayTypeOK
<1>3. ~Taking(r)
  BY <1>1 DEF Taking
<1>4. CASE PayGoesTo(r, "forget") /\ UNCHANGED orders
  <2>1. /\ pay'[r].at = "forget"
        /\ \A q \in Requests : q # r => pay'[q] = pay[q] /\ cart'[q] = cart[q]
    BY <1>1, <1>2, <1>4 DEF PayGoesTo, Pay
  <2>2. ~Taking(r)'
    BY <2>1 DEF Taking
  <2> QED
    BY <1>1, <1>3, <1>4, <2>1, <2>2, ElsewhereKeepsAccounts
<1>5. CASE /\ orders' = Append(orders,
                [cust |-> who[r], cart |-> cart[r].id, tx |-> pay[r].tx,
                 items |-> << >>])
           /\ pay' = [pay EXCEPT ![r].at = "items", ![r].order = Len(orders')]
  <2> DEFINE row == [cust |-> who[r], cart |-> cart[r].id, tx |-> pay[r].tx,
                     items |-> << >>]
  <2>0. PICK n : n = Len(orders) + 1
    OBVIOUS
  <2>1. /\ Len(orders) \in Nat
        /\ DOMAIN orders = 1 .. Len(orders)
        /\ orders \in Seq(Order)
        /\ row \in Order
    BY OrderFields, CartFields, PayFields, EmptySeq
    DEF CheckoutInv, PayTypeOK, Order
  <2> HIDE DEF row
  <2>2. /\ Len(orders') = n
        /\ DOMAIN orders' = 1 .. n
        /\ \A o \in DOMAIN orders : orders'[o] = orders[o]
    BY <1>5, <2>0, <2>1, AppendProperties, LenProperties DEF row
  <2>3. OrdersStay
    BY <1>1, <2>0, <2>1, <2>2 DEF OrdersStay
  <2>4. /\ pay'[r].at = "items"
        /\ pay'[r].order = n
        /\ \A q \in Requests : q # r => pay'[q] = pay[q] /\ cart'[q] = cart[q]
    BY <1>1, <1>2, <1>5, <2>2 DEF Pay
  <2>5. Taking(r)' /\ \A p : TakenBy(r, p)' = 0
    BY <2>4 DEF Taking, TakenBy
  <2>6. \A q \in Requests : (q # r /\ Taking(q)) => pay[q].order # n
    BY <2>0, <2>1, OwnOrder
  <2>7. ASSUME NEW p \in Products, NEW taken, Accounts(p, taken)
        PROVE  Accounts(p, Append(taken, 0))'
    <3>0. PICK new : new = Append(taken, 0)
      OBVIOUS
    <3>1. /\ taken \in Seq(Int)
          /\ Len(taken) = Len(orders)
          /\ Shelf - stock[p] = Total(taken)
      BY <2>7 DEF Accounts
    <3>2. /\ Len(new) = n
          /\ new[n] = 0
          /\ \A o \in 1 .. Len(orders) : new[o] = taken[o]
      BY <2>0, <3>0, <3>1, AppendProperties
    <3>3. new \in Seq(Int) /\ Total(new) = Total(taken) + 0
      BY <3>0, <3>1, TotalAppend
    <3>4. Total(taken) \in Int
      BY <3>1, TotalIsLastSum
    <3>5. Shelf - stock'[p] = Total(new)
      BY <1>1, <3>1, <3>3, <3>4
    <3>6. \A o \in DOMAIN orders' : o \in DOMAIN orders \/ o = n
      BY <2>0, <2>1, <2>2
    <3>7. /\ new \in Seq(Int)
          /\ Len(new) = Len(orders')
          /\ Taking(r)' => new[n] = TakenBy(r, p)'
          /\ SameBut(n, taken, new)
          /\ Taking(r) => pay[r].order = n
          /\ Taking(r)' => pay'[r].order = n
          /\ (n \in DOMAIN orders' /\ ~Taking(r)') =>
               TakenInTheEnd(new[n], SoldBy(n, p)')
      BY <1>3, <2>1, <2>2, <2>4, <2>5, <3>2, <3>3 DEF SameBut
    <3>8. \A q \in Requests : q # r => pay'[q] = pay[q] /\ cart'[q] = cart[q]
      BY <2>4
    <3>9. Accounts(p, new)'
      BY <2>3, <2>6, <2>7, <3>5, <3>6, <3>7, <3>8, AccountsStep
    <3> QED
      BY <3>0, <3>9
  <2> QED
    BY <2>7 DEF StockInv
<1> QED
  BY <1>4, <1>5 DEF InsertOrder

\* The sums of the lines of a cart, from none of them to all of them.
LEMMA SumsOfLines ==
  ASSUME NEW lines \in Contents, NEW p
  PROVE  /\ Len(lines) \in Nat
         /\ Sums(Counts(lines, p))[0] = 0
         /\ Sums(Counts(lines, p))[Len(lines)] = PiecesOf(lines, p)
         /\ \A n \in 0 .. Len(lines) : Sums(Counts(lines, p))[n] \in Int
         /\ \A n \in 1 .. Len(lines) :
              Sums(Counts(lines, p))[n] = Sums(Counts(lines, p))[n - 1] +
                (IF lines[n].id = p THEN lines[n].count ELSE 0)
         /\ lines \in WithPieces => \A n \in 0 .. Len(lines) :
              /\ 0 <= Sums(Counts(lines, p))[n]
              /\ Sums(Counts(lines, p))[n] <= PiecesOf(lines, p)
<1> DEFINE s == Counts(lines, p)
<1>1. /\ Len(lines) \in Nat
      /\ s \in Seq(Int)
      /\ Len(s) = Len(lines)
      /\ \A i \in 1 .. Len(lines) :
           s[i] = IF lines[i].id = p THEN lines[i].count ELSE 0
      /\ PiecesOf(lines, p) = Total(s)
  BY CountsAddUp
<1> HIDE DEF s
<1>2. IsSum(Sums(s), s) /\ Total(s) = Sums(s)[Len(s)]
  BY <1>1, TotalIsLastSum
<1>3. ASSUME lines \in WithPieces, NEW n \in 0 .. Len(lines)
      PROVE  0 <= Sums(s)[n] /\ Sums(s)[n] <= PiecesOf(lines, p)
  <2>1. \A i \in 1 .. Len(s) : s[i] >= 0
    <3>1. DOMAIN lines = 1 .. Len(lines)
      BY LenProperties DEF Contents
    <3>2. \A i \in 1 .. Len(lines) : lines[i].count > 0
      BY <1>3, <3>1 DEF WithPieces, AllHavePieces
    <3>3. \A i \in 1 .. Len(lines) : lines[i].count \in Int
      BY <3>1, LineType, CountIsInt
    <3> QED
      BY <1>1, <3>2, <3>3
  <2> QED
    BY <1>1, <1>3, <2>1, SumsGrow
<1>4. /\ Sums(s)[0] = 0
      /\ \A n \in 0 .. Len(lines) : Sums(s)[n] \in Int
      /\ \A n \in 1 .. Len(lines) : Sums(s)[n] = Sums(s)[n - 1] + s[n]
  BY <1>1, <1>2 DEF IsSum
<1>5. \A n \in 1 .. Len(lines) : Sums(s)[n] = Sums(s)[n - 1] +
        (IF lines[n].id = p THEN lines[n].count ELSE 0)
  BY <1>1, <1>4
<1> QED
  BY <1>1, <1>2, <1>3, <1>4, <1>5 DEF s

(***************************************************************************)
(* Nothing is taken from the shelf while the items of an order are saved.  *)
(***************************************************************************)
LEMMA SavedItemsTakeNothing ==
  ASSUME CheckoutInv, StockInv, NEW r \in Requests, SaveItem(r)
  PROVE  StockInv'
<1>1. /\ pay[r].at = "items"
      /\ UNCHANGED << cart, charges, stock >>
  BY DEF SaveItem, PayStep, cartVars
<1>2. pay \in [Requests -> Pay] /\ pay[r] \in Pay
  BY PayFields DEF CheckoutInv, PayTypeOK
<1>3. Taking(r)
  BY <1>1 DEF Taking
<1>4. /\ pay[r].order \in DOMAIN orders
      /\ cart[r].lines \in Contents
  BY <1>3, OwnOrder
<1>5. /\ DOMAIN orders = 1 .. Len(orders)
      /\ Len(orders) \in Nat
      /\ orders \in Seq(Order)
  BY OrderFields DEF CheckoutInv, PayTypeOK
<1>6. \/ orders' = orders
      \/ \E items : orders' = [orders EXCEPT ![pay[r].order].items = items]
  BY DEF SaveItem
<1>7. /\ DOMAIN orders' = DOMAIN orders
      /\ \A o \in DOMAIN orders : orders'[o].tx = orders[o].tx
  <2>1. \A o \in DOMAIN orders : orders[o] \in Order
    BY OrderFields DEF CheckoutInv
  <2>2. ASSUME NEW items,
               orders' = [orders EXCEPT ![pay[r].order].items = items]
        PROVE  /\ DOMAIN orders' = DOMAIN orders
               /\ \A o \in DOMAIN orders : orders'[o].tx = orders[o].tx
    BY <2>1, <2>2, <1>5 DEF Order
  <2> QED
    BY <1>6, <2>2
<1>8. OrdersStay /\ Len(orders') = Len(orders)
  <2>1. OrdersStay
    BY <1>1, <1>7 DEF OrdersStay
  <2>2. Len(orders') = Len(orders)
    BY <1>5, <1>6, <1>7
  <2> QED
    BY <2>1, <2>2
<1>9. /\ pay'[r].order = pay[r].order
      /\ pay'[r].at = "items" \/ (pay'[r].at = "stock" /\ pay'[r].next = 1)
      /\ \A q \in Requests : q # r => pay'[q] = pay[q] /\ cart'[q] = cart[q]
  <2>1. \/ pay' = [pay EXCEPT ![r] = [@ EXCEPT !.next = pay[r].next + 1]]
        \/ pay' = [pay EXCEPT ![r] =
                     [@ EXCEPT !.at = "stock", !.next = 1, !.ok = TRUE]]
        \/ pay' = [pay EXCEPT ![r].at = "stock", ![r].next = 1]
    BY DEF SaveItem
  <2>2. CASE pay' = [pay EXCEPT ![r] = [@ EXCEPT !.next = pay[r].next + 1]]
    BY <1>1, <1>2, <2>2 DEF Pay
  <2>3. CASE pay' = [pay EXCEPT ![r] =
                       [@ EXCEPT !.at = "stock", !.next = 1, !.ok = TRUE]]
    BY <1>1, <1>2, <2>3 DEF Pay
  <2>4. CASE pay' = [pay EXCEPT ![r].at = "stock", ![r].next = 1]
    BY <1>1, <1>2, <2>4 DEF Pay
  <2> QED
    BY <2>1, <2>2, <2>3, <2>4
<1>10. PICK mine : mine = pay[r].order
  OBVIOUS
<1>11. Taking(r)' /\ \A p : TakenBy(r, p)' = 0
  <2>1. \A p : Sums(Counts(cart[r].lines, p))[0] = 0
    BY <1>4, SumsOfLines
  <2>2. Taking(r)'
    BY <1>9 DEF Taking
  <2>3. ASSUME NEW p PROVE TakenBy(r, p)' = 0
    <3>1. CASE pay'[r].at = "items"
      BY <3>1 DEF TakenBy
    <3>2. CASE pay'[r].at = "stock" /\ pay'[r].next = 1
      <4>1. pay'[r].next - 1 = 0
        BY <3>2
      <4>2. TakenBy(r, p)' = Sums(Counts(cart[r].lines, p))[0]
        BY <1>1, <3>2, <4>1 DEF TakenBy
      <4> QED
        BY <2>1, <4>2
    <3> QED
      BY <1>9, <3>1, <3>2
  <2> QED
    BY <2>2, <2>3
<1>12. \A q \in Requests : (q # r /\ Taking(q)) => pay[q].order # mine
  BY <1>3, <1>10, OrdersApart
<1>13. ASSUME NEW p \in Products, NEW taken, Accounts(p, taken)
       PROVE  Accounts(p, taken)'
  <2>1. /\ taken \in Seq(Int)
        /\ Len(taken) = Len(orders)
        /\ Shelf - stock'[p] = Total(taken)
        /\ taken[mine] = 0
    BY <1>1, <1>3, <1>10, <1>13 DEF Accounts, TakenBy
  <2>2. /\ Len(taken) = Len(orders')
        /\ SameBut(mine, taken, taken)
        /\ Taking(r)' => taken[mine] = TakenBy(r, p)'
        /\ Taking(r) => pay[r].order = mine
        /\ Taking(r)' => pay'[r].order = mine
        /\ (mine \in DOMAIN orders' /\ ~Taking(r)') =>
             TakenInTheEnd(taken[mine], SoldBy(mine, p)')
    BY <1>8, <1>9, <1>10, <1>11, <2>1 DEF SameBut
  <2>3. \A o \in DOMAIN orders' : o \in DOMAIN orders \/ o = mine
    BY <1>7
  <2>4. \A q \in Requests : q # r => pay'[q] = pay[q] /\ cart'[q] = cart[q]
    BY <1>9
  <2> QED
    BY <1>8, <1>12, <1>13, <2>1, <2>2, <2>3, <2>4, AccountsStep
<1> QED
  BY <1>13 DEF StockInv

(***************************************************************************)
(* A line that is taken from the shelf is taken for the order, and all of  *)
(* them are taken in the end.                                              *)
(***************************************************************************)
LEMMA LinesAreTakenOnce ==
  ASSUME CheckoutInv, StockInv, "die" \in PayFaults => PiecesInv,
         NEW r \in Requests, DecrementStock(r)
  PROVE  StockInv'
<1> DEFINE lines == cart[r].lines
           n     == pay[r].next
<1>1. /\ pay[r].at = "stock"
      /\ UNCHANGED << cart, charges, orders >>
      /\ stock' = [stock EXCEPT ![lines[n].id] = @ - lines[n].count]
      /\ pay' = [pay EXCEPT ![r] =
           IF n < Len(lines) THEN [@ EXCEPT !.next = n + 1]
                             ELSE [@ EXCEPT !.at = "forget"]]
  BY DEF DecrementStock, PayStep, cartVars
<1>2. pay \in [Requests -> Pay] /\ pay[r] \in Pay
  BY PayFields DEF CheckoutInv, PayTypeOK
<1>3. Taking(r)
  BY <1>1 DEF Taking
<1>4. /\ pay[r].order \in DOMAIN orders
      /\ lines \in Contents
      /\ Len(lines) \in Nat
      /\ n \in 1 .. Len(lines)
      /\ \A p : SoldBy(pay[r].order, p) = PiecesOf(lines, p)
      /\ charges[orders[pay[r].order].tx].lines = lines
  BY <1>3, OwnOrder
<1>5. lines[n].id \in Products /\ lines[n].count \in Int
  <2>1. DOMAIN lines = 1 .. Len(lines)
    BY <1>4, LenProperties DEF Contents
  <2> QED
    BY <1>4, <2>1, LineType, CountIsInt DEF Line
<1>6. /\ pay'[r].order = pay[r].order
      /\ \/ n < Len(lines) /\ pay'[r].at = "stock" /\ pay'[r].next = n + 1
         \/ n = Len(lines) /\ pay'[r].at = "forget"
      /\ \A q \in Requests : q # r => pay'[q] = pay[q] /\ cart'[q] = cart[q]
  <2>1. CASE n < Len(lines)
    <3>1. pay' = [pay EXCEPT ![r] = [@ EXCEPT !.next = n + 1]]
      BY <1>1, <2>1
    <3> HIDE DEF n, lines
    <3> QED
      BY <1>1, <1>2, <2>1, <3>1 DEF Pay
  <2>2. CASE ~(n < Len(lines))
    <3>1. pay' = [pay EXCEPT ![r] = [@ EXCEPT !.at = "forget"]]
      BY <1>1, <2>2
    <3>2. n = Len(lines)
      BY <1>4, <2>2
    <3> HIDE DEF n, lines
    <3> QED
      BY <1>1, <1>2, <3>1, <3>2 DEF Pay
  <2> QED
    BY <2>1, <2>2
<1>7. PICK mine : mine = pay[r].order
  OBVIOUS
<1>8. /\ \A q \in Requests : (q # r /\ Taking(q)) => pay[q].order # mine
      /\ \A q \in Requests : q # r => pay'[q] = pay[q] /\ cart'[q] = cart[q]
      /\ \A o \in DOMAIN orders' : o \in DOMAIN orders \/ o = mine
  BY <1>1, <1>3, <1>6, <1>7, OrdersApart
<1>9. OrdersStay
  BY <1>1 DEF OrdersStay
<1>10. /\ DOMAIN orders = 1 .. Len(orders)
       /\ Len(orders) \in Nat
       /\ stock \in [Products -> Int]
  BY OrderFields DEF CheckoutInv, PayTypeOK
<1>11. "die" \in PayFaults => lines \in WithPieces
  <2>1. orders[pay[r].order].tx \in DOMAIN charges
    BY <1>4 DEF CheckoutInv, EveryOrderPaid
  <2> QED
    BY <1>4, <2>1 DEF PiecesInv
<1> HIDE DEF lines, n
<1>12. ASSUME NEW p \in Products, NEW taken, Accounts(p, taken)
       PROVE  \E new : Accounts(p, new)'
  <2> DEFINE f == Sums(Counts(lines, p))
             c == IF lines[n].id = p THEN lines[n].count ELSE 0
  <2>1. /\ f[n] = f[n - 1] + c
        /\ f[n - 1] \in Int
        /\ f[n] \in Int
        /\ f[Len(lines)] = PiecesOf(lines, p)
        /\ lines \in WithPieces => 0 <= f[Len(lines)]
    <3>1. n \in 0 .. Len(lines) /\ n - 1 \in 0 .. Len(lines)
          /\ Len(lines) \in 0 .. Len(lines)
      BY <1>4
    <3> QED
      BY <1>4, <3>1, SumsOfLines
  <2>2. /\ taken \in Seq(Int)
        /\ Len(taken) = Len(orders)
        /\ Shelf - stock[p] = Total(taken)
        /\ taken[mine] = f[n - 1]
    BY <1>1, <1>3, <1>7, <1>12 DEF Accounts, TakenBy, lines, n
  <2>3. PICK new : new = [taken EXCEPT ![mine] = f[n]]
    OBVIOUS
  <2>4. mine \in 1 .. Len(taken) /\ Total(taken) \in Int
    BY <1>4, <1>7, <1>10, <2>2, TotalIsLastSum
  <2> HIDE DEF f
  <2>5. /\ new \in Seq(Int)
        /\ Len(new) = Len(taken)
        /\ Total(new) = Total(taken) - taken[mine] + f[n]
    <3>1. \A x \in Int :
            /\ [taken EXCEPT ![mine] = x] \in Seq(Int)
            /\ Len([taken EXCEPT ![mine] = x]) = Len(taken)
            /\ Total([taken EXCEPT ![mine] = x]) = Total(taken) - taken[mine] + x
      BY <2>2, <2>4, TotalExcept
    <3> QED
      BY <2>1, <2>3, <3>1
  <2>6. new[mine] = f[n] /\ SameBut(mine, taken, new)
    <3>1. DOMAIN taken = 1 .. Len(taken)
      BY <2>2, LenProperties
    <3> QED
      BY <1>10, <2>2, <2>3, <2>4, <3>1 DEF SameBut
  <2>7. c \in Int /\ stock'[p] = stock[p] - c
    <3>1. \A id \in Products, k \in Int :
            stock' = [stock EXCEPT ![id] = @ - k] =>
              stock'[p] = stock[p] - (IF id = p THEN k ELSE 0)
      BY <1>10
    <3>2. stock' = [stock EXCEPT ![lines[n].id] = @ - lines[n].count]
      BY <1>1
    <3>3. stock'[p] = stock[p] - c
      BY <1>5, <3>1, <3>2
    <3> QED
      BY <1>5, <3>3
  <2> HIDE DEF c
  <2>8. Shelf - stock'[p] = Total(new)
    <3>1. stock[p] \in Int /\ Shelf \in Int
      BY <1>10, CheckoutAssumption
    <3>2. Total(new) = Total(taken) - f[n - 1] + f[n]
      BY <2>2, <2>5
    <3>3. \A a, b, d, t, u \in Int :
            (b = a + d /\ Shelf - u = t) => Shelf - (u - d) = t - a + b
      BY <3>1
    <3>4. Shelf - (stock[p] - c) = Total(taken) - f[n - 1] + f[n]
      BY <2>1, <2>2, <2>4, <2>7, <3>1, <3>3, SMTT(30)
    <3> QED
      BY <2>7, <3>2, <3>4
  <2>9. Taking(r)' => new[mine] = TakenBy(r, p)'
    <3>1. SUFFICES ASSUME Taking(r)' PROVE new[mine] = TakenBy(r, p)'
      OBVIOUS
    <3>2. pay'[r].at = "stock" /\ pay'[r].next = n + 1
      BY <1>6, <3>1 DEF Taking
    <3>3. pay'[r].next - 1 = n
      BY <1>4, <3>2
    <3>4. cart'[r].lines = lines
      BY <1>1 DEF lines
    <3>5. TakenBy(r, p)' = f[n]
      BY <3>2, <3>3, <3>4 DEF TakenBy, f
    <3> QED
      BY <2>6, <3>5
  <2>10. (mine \in DOMAIN orders' /\ ~Taking(r)') =>
           TakenInTheEnd(new[mine], SoldBy(mine, p)')
    <3>1. SUFFICES ASSUME ~Taking(r)'
                   PROVE  TakenInTheEnd(new[mine], SoldBy(mine, p)')
      OBVIOUS
    <3>2. n = Len(lines)
      BY <1>6, <3>1 DEF Taking
    <3>3. SoldBy(mine, p) = PiecesOf(lines, p)
      BY <1>4, <1>7
    <3>4. SoldBy(mine, p)' = SoldBy(mine, p)
      BY <1>1 DEF SoldBy
    <3>5. new[mine] = PiecesOf(lines, p) /\ new[mine] \in Int
      BY <2>1, <2>6, <3>2
    <3> QED
      BY <1>11, <2>1, <3>3, <3>4, <3>5 DEF TakenInTheEnd
  <2>11. /\ Len(new) = Len(orders')
         /\ Taking(r) => pay[r].order = mine
         /\ Taking(r)' => pay'[r].order = mine
    BY <1>1, <1>6, <1>7, <2>2, <2>5
  <2>12. Accounts(p, new)'
    BY <1>8, <1>9, <1>12, <2>5, <2>6, <2>8, <2>9, <2>10, <2>11, AccountsStep
  <2> QED
    BY <2>12
<1> QED
  BY <1>12 DEF StockInv

(***************************************************************************)
(* A process that dies leaves a part of its order on the shelf.            *)
(***************************************************************************)
LEMMA DeathTakesNoMore ==
  ASSUME CheckoutInv, StockInv, PiecesInv, NEW r \in Requests, ProcessDies(r)
  PROVE  StockInv'
<1>1. /\ "die" \in PayFaults
      /\ pay' = [pay EXCEPT ![r] = NoPay]
      /\ UNCHANGED << charges, orders, stock >>
  BY DEF ProcessDies, shopVars
<1>2. \A q \in Requests : q # r => pay'[q] = pay[q] /\ cart'[q] = cart[q]
  <2>1. \A q \in Requests : q # r => cart'[q] = cart[q]
    BY CartStepOfOne DEF CheckoutInv, ProcessDies
  <2> QED
    BY <1>1, <2>1 DEF CheckoutInv, PayTypeOK
<1>3. ~Taking(r)'
  BY <1>1, NoPayType DEF CheckoutInv, PayTypeOK, Taking
<1>4. CASE ~Taking(r)
  BY <1>1, <1>2, <1>3, <1>4, ElsewhereKeepsAccounts
<1>5. CASE Taking(r)
  <2> DEFINE lines == cart[r].lines
             n     == pay[r].next
  <2>1. /\ pay[r].order \in DOMAIN orders
        /\ lines \in Contents
        /\ n \in 1 .. Len(lines)
        /\ Len(lines) \in Nat
        /\ \A p : SoldBy(pay[r].order, p) = PiecesOf(lines, p)
        /\ charges[orders[pay[r].order].tx].lines = lines
    BY <1>5, OwnOrder
  <2>2. lines \in WithPieces
    <3>1. orders[pay[r].order].tx \in DOMAIN charges
      BY <2>1 DEF CheckoutInv, EveryOrderPaid
    <3> QED
      BY <2>1, <3>1 DEF PiecesInv
  <2>3. PICK mine : mine = pay[r].order
    OBVIOUS
  <2>4. /\ \A q \in Requests : (q # r /\ Taking(q)) => pay[q].order # mine
        /\ \A o \in DOMAIN orders' : o \in DOMAIN orders \/ o = mine
        /\ OrdersStay
    BY <1>1, <1>5, <2>3, OrdersApart DEF OrdersStay
  <2>5. ASSUME NEW p \in Products, NEW taken, Accounts(p, taken)
        PROVE  Accounts(p, taken)'
    <3>1. /\ taken \in Seq(Int)
          /\ Len(taken) = Len(orders')
          /\ Shelf - stock'[p] = Total(taken)
          /\ taken[mine] = TakenBy(r, p)
      BY <1>1, <1>5, <2>3, <2>5 DEF Accounts
    <3>2. 0 <= TakenBy(r, p) /\ TakenBy(r, p) <= PiecesOf(lines, p)
      <4>1. /\ \A m \in 0 .. Len(lines) :
                 /\ 0 <= Sums(Counts(lines, p))[m]
                 /\ Sums(Counts(lines, p))[m] <= PiecesOf(lines, p)
            /\ Sums(Counts(lines, p))[0] = 0
        BY <2>1, <2>2, SumsOfLines
      <4>2. 0 \in 0 .. Len(lines) /\ n - 1 \in 0 .. Len(lines)
        BY <2>1
      <4>3. \/ TakenBy(r, p) = Sums(Counts(lines, p))[n - 1]
            \/ TakenBy(r, p) = Sums(Counts(lines, p))[0]
        BY <4>1 DEF TakenBy
      <4> QED
        BY <4>1, <4>2, <4>3
    <3>3. SoldBy(mine, p)' = PiecesOf(lines, p)
      BY <1>1, <2>1, <2>3 DEF SoldBy
    <3>4. TakenInTheEnd(taken[mine], SoldBy(mine, p)')
      BY <1>1, <3>1, <3>2, <3>3 DEF TakenInTheEnd
    <3>5. SameBut(mine, taken, taken)
      BY DEF SameBut
    <3> QED
      BY <1>2, <1>3, <2>3, <2>4, <2>5, <3>1, <3>4, <3>5, AccountsStep
  <2> QED
    BY <2>5 DEF StockInv
<1> QED
  BY <1>4, <1>5

\* Every step keeps the accounts.
LEMMA StockInvStep ==
  ASSUME CheckoutInv, CheckoutInv', StockInv, "die" \in PayFaults => PiecesInv,
         [CheckoutNext]_checkoutVars
  PROVE  StockInv'
<1>0. /\ pay \in [Requests -> Pay]
      /\ \A r \in Requests : pay[r] \in Pay
      /\ CartTypeOK
      /\ \A r \in Requests : Occupied(r) /\ Occupied(r)'
  BY PayFields DEF CheckoutInv, PayTypeOK
<1>1. CASE UNCHANGED checkoutVars
  BY <1>1 DEF checkoutVars, cartVars, shopVars, StockInv, Accounts, Taking,
              TakenBy, SoldBy
<1>2. ASSUME NEW r \in Requests, OtherPage(r) \/ Verify(r) \/ StoreSetup(r)
                                   \/ ShowConfirmation(r)
      PROVE  StockInv'
  <2>1. UNCHANGED << charges, orders, stock, pay >>
    BY <1>2 DEF OtherPage, Verify, StoreSetup, ShowConfirmation, shopVars
  <2>2. pay[r].at = "none"
    <3>1. form[r].at # "none" => pay[r].at = "none"
      BY <1>0 DEF Occupied
    <3>2. CASE StoreSetup(r) \/ ShowConfirmation(r)
      BY <3>1, <3>2
      DEF StoreSetup, ShowConfirmation, FillIn, ShowForm, ListServices,
          ClearListed, DropServices, InsertService, ReadBack,
          DeleteOldParameters, CreateParameter
    <3> QED
      BY <1>2, <3>2 DEF OtherPage, Verify, AtCheckout
  <2>3. \A q \in Requests : q # r => cart'[q] = cart[q]
    <3>1. CASE OtherPage(r) \/ ShowConfirmation(r)
      BY <1>0, <3>1, CartStepOfOne DEF OtherPage, ShowConfirmation
    <3>2. CASE Verify(r) \/ StoreSetup(r)
      BY <3>2 DEF Verify, StoreSetup, cartVars
    <3> QED
      BY <1>2, <3>1, <3>2
  <2>4. ~Taking(r) /\ ~Taking(r)'
    BY <2>1, <2>2 DEF Taking
  <2> QED
    BY <2>1, <2>3, <2>4, ElsewhereKeepsAccounts
<1>3. ASSUME NEW r \in Requests, Confirm(r) \/ ReadParameters(r) \/ Send(r)
                                   \/ RemoveParams(r)
      PROVE  StockInv'
  <2>1. /\ pay[r].at \in {"none", "params", "send", "forget"}
        /\ UNCHANGED << cart, orders, stock >>
    BY <1>3 DEF Confirm, AtCheckout, ReadParameters, Send, RemoveParams,
                PayStep, cartVars, shopVars
  <2>2. /\ pay'[r].at \in {"params", "end", "send", "insert", "forget"}
        /\ \A q \in Requests : q # r => pay'[q] = pay[q]
    <3>1. CASE Confirm(r)
      BY <1>0, <3>1 DEF Confirm, PayGoesTo, Pay
    <3>2. CASE ReadParameters(r)
      BY <1>0, <3>2 DEF ReadParameters, Pay
    <3>3. CASE Send(r)
      BY <1>0, <3>3 DEF Send, PayGoesTo, Pay
    <3>4. CASE RemoveParams(r)
      BY <1>0, <3>4 DEF RemoveParams, PayGoesTo, Pay
    <3> QED
      BY <1>3, <3>1, <3>2, <3>3, <3>4
  <2>3. \A t \in DOMAIN charges : charges'[t] = charges[t]
    <3>1. CASE charges' = Append(charges, ChargeOf(r))
      BY <3>1, ChargeAppended
    <3>2. CASE charges' = charges
      BY <3>2
    <3> QED
      BY <1>3, <3>1, <3>2 DEF Confirm, ReadParameters, Send, RemoveParams,
                              ChargeOf, shopVars
  <2>4. ~Taking(r) /\ ~Taking(r)'
    BY <2>1, <2>2 DEF Taking
  <2>5. \A q \in Requests : q # r => pay'[q] = pay[q] /\ cart'[q] = cart[q]
    BY <2>1, <2>2
  <2>6. UNCHANGED << orders, stock >>
    BY <2>1
  <2> QED
    BY <2>3, <2>4, <2>5, <2>6, ElsewhereKeepsAccounts
<1>4. ASSUME NEW r \in Requests, PayEnds(r)
      PROVE  StockInv'
  <2>1. /\ pay[r].at = "end"
        /\ pay' = [pay EXCEPT ![r] = NoPay]
        /\ UNCHANGED << charges, orders, stock >>
        /\ CheckOut(r) \/ ShowPage(r)
    BY <1>4 DEF PayEnds, shopVars
  <2>2. \A q \in Requests : q # r => cart'[q] = cart[q]
    BY <1>0, <2>1, CartStepOfOne
  <2>3. /\ pay'[r] = NoPay
        /\ \A q \in Requests : q # r => pay'[q] = pay[q] /\ cart'[q] = cart[q]
    BY <1>0, <2>1, <2>2
  <2>4. ~Taking(r) /\ ~Taking(r)'
    BY <2>1, <2>3, NoPayType DEF Taking
  <2> QED
    BY <2>1, <2>3, <2>4, ElsewhereKeepsAccounts
<1>5. ASSUME NEW r \in Requests, ProcessDies(r)
      PROVE  StockInv'
  <2>1. "die" \in PayFaults
    BY <1>5 DEF ProcessDies
  <2> QED
    BY <1>5, <2>1, DeathTakesNoMore
<1> QED
  BY <1>1, <1>2, <1>3, <1>4, <1>5, InsertedOrderTookNothing,
     SavedItemsTakeNothing, LinesAreTakenOnce DEF CheckoutNext, Continue

\* In the beginning nothing was sold, and the shelf lacks nothing.
LEMMA StockInvInit == CheckoutInit => StockInv
<1> SUFFICES ASSUME CheckoutInit, NEW p \in Products
             PROVE  Accounts(p, << >>)
  BY DEF StockInv
<1>1. /\ orders = << >>
      /\ stock[p] = Shelf
      /\ \A r \in Requests : pay[r] = NoPay
  BY DEF CheckoutInit
<1>2. << >> \in Seq(Int) /\ Total(<< >>) = 0
  BY EmptySeq, TotalEmpty
<1>3. Shelf - stock[p] = 0
  BY <1>1, CheckoutAssumption
<1>4. \A r \in Requests : ~Taking(r)
  BY <1>1, NoPayType DEF Taking
<1>5. \A o \in DOMAIN orders : FALSE
  BY <1>1
<1> QED
  BY <1>1, <1>2, <1>3, <1>4, <1>5 DEF Accounts

\* What is charged for is what is in a cart.
LEMMA PiecesInvStep ==
  ASSUME ClosedUnderOperations(WithPieces), CheckoutInv, PiecesInv,
         [CheckoutNext]_checkoutVars
  PROVE  PiecesInv'
<1>1. AllIn(WithPieces)'
  BY CheckoutIsCartStep, StepStaysIn DEF CheckoutInv, PiecesInv
<1>2. CASE UNCHANGED charges
  BY <1>1, <1>2 DEF PiecesInv
<1>3. ASSUME NEW r \in Requests, charges' = Append(charges, ChargeOf(r))
      PROVE  PiecesInv'
  <2>1. /\ DOMAIN charges' = 1 .. Len(charges) + 1
        /\ charges'[Len(charges) + 1].lines = cart[r].lines
        /\ \A t \in DOMAIN charges : charges'[t] = charges[t]
    BY <1>3, ChargeAppended DEF ChargeOf
  <2>2. DOMAIN charges = 1 .. Len(charges) /\ Len(charges) \in Nat
    BY OrderFields DEF CheckoutInv
  <2>3. cart[r].lines \in WithPieces
    BY DEF PiecesInv, AllIn
  <2>4. ASSUME NEW t \in DOMAIN charges'
        PROVE  t \in DOMAIN charges \/ t = Len(charges) + 1
    BY <2>1, <2>2
  <2> QED
    BY <1>1, <2>1, <2>3, <2>4 DEF PiecesInv
<1>4. CASE UNCHANGED checkoutVars
  BY <1>2, <1>4 DEF checkoutVars, shopVars
<1>5. ASSUME NEW r \in Requests, Send(r)
      PROVE  PiecesInv'
  BY <1>2, <1>3, <1>5 DEF Send, ChargeOf
<1> QED
  BY <1>2, <1>4, <1>5
  DEF CheckoutNext, Continue, OtherPage, Verify, Confirm, StoreSetup,
      ShowConfirmation, ReadParameters, InsertOrder, SaveItem, DecrementStock,
      RemoveParams, PayEnds, ProcessDies, shopVars

\* The same in the beginning.
LEMMA PiecesInvInit ==
  ASSUME ClosedUnderOperations(WithPieces)
  PROVE  CheckoutInit => PiecesInv
<1> SUFFICES ASSUME CheckoutInit PROVE PiecesInv
  OBVIOUS
<1>1. AllIn(WithPieces)
  BY BeginsIn DEF CheckoutInit, ClosedUnderOperations
<1>2. \A t \in DOMAIN charges : FALSE
  BY DEF CheckoutInit
<1> QED
  BY <1>1, <1>2 DEF PiecesInv

\* What the orders were charged for, order by order, adds up to what is sold.
LEMMA SoldAddsUp ==
  ASSUME CheckoutInv, NEW p
  PROVE  /\ [o \in DOMAIN orders |-> SoldBy(o, p)] \in Seq(Int)
         /\ Len([o \in DOMAIN orders |-> SoldBy(o, p)]) = Len(orders)
         /\ Sold(p) = Total([o \in DOMAIN orders |-> SoldBy(o, p)])
         /\ \A o \in DOMAIN orders : SoldBy(o, p) \in Int
<1> DEFINE s == [o \in DOMAIN orders |-> SoldBy(o, p)]
<1>1. /\ DOMAIN orders = 1 .. Len(orders)
      /\ Len(orders) \in Nat
  BY OrderFields DEF CheckoutInv
<1>2. ASSUME NEW o \in DOMAIN orders
      PROVE  SoldBy(o, p) \in Int
  <2>1. orders[o].tx \in DOMAIN charges
    BY DEF CheckoutInv, EveryOrderPaid
  <2>2. charges[orders[o].tx].lines \in Contents
    BY <2>1, OrderFields DEF CheckoutInv, Charge, Contents
  <2> QED
    BY <2>2, CountsAddUp DEF SoldBy
<1>3. s \in [1 .. Len(orders) -> Int]
  BY <1>1, <1>2
<1>4. s \in Seq(Int)
  BY <1>1, <1>3, SeqDef
<1>5. Len(s) = Len(orders)
  BY <1>1, <1>3, <1>4, LenProperties
<1>6. Sold(p) = Total(s)
  BY DEF Sold, SoldBy
<1> QED
  BY <1>2, <1>4, <1>5, <1>6

(***************************************************************************)
(* If no process dies, then whenever no request is between its order and   *)
(* the end of decrementStock, what the shelf lacks of every product is     *)
(* exactly what the orders were charged for: although requests overlap,    *)
(* answers are lost, and orders and items fail to be saved.                *)
(***************************************************************************)
THEOREM StockIsAccountedFor ==
  ASSUME "die" \notin PayFaults
  PROVE  CheckoutSpec => []StockMatchesOrders
<1>1. CheckoutInit => CheckoutInv /\ StockInv
  BY CheckoutInvInit, StockInvInit
<1>2. CheckoutInv /\ StockInv /\ [CheckoutNext]_checkoutVars
        => (CheckoutInv /\ StockInv)'
  <2> SUFFICES ASSUME CheckoutInv, StockInv, [CheckoutNext]_checkoutVars
               PROVE  CheckoutInv' /\ StockInv'
    OBVIOUS
  <2>1. CheckoutInv'
    BY CheckoutInvStep
  <2> QED
    BY <2>1, StockInvStep
<1>3. CheckoutInv /\ StockInv => StockMatchesOrders
  <2> SUFFICES ASSUME CheckoutInv, StockInv,
                      \A r \in Requests : pay[r].at \notin {"items", "stock"},
                      NEW p \in Products
               PROVE  Shelf - stock[p] = Sold(p)
    BY DEF StockMatchesOrders
  <2> DEFINE s == [o \in DOMAIN orders |-> SoldBy(o, p)]
  <2>1. PICK taken : Accounts(p, taken)
    BY DEF StockInv
  <2>2. \A r \in Requests : ~Taking(r)
    BY DEF Taking
  <2>3. /\ taken \in Seq(Int)
        /\ Len(taken) = Len(orders)
        /\ Shelf - stock[p] = Total(taken)
        /\ \A o \in DOMAIN orders : TakenInTheEnd(taken[o], SoldBy(o, p))
    BY <2>1, <2>2 DEF Accounts
  <2>4. \A o \in DOMAIN orders : taken[o] = s[o]
    BY <2>3 DEF TakenInTheEnd
  <2>5. s \in Seq(Int) /\ Len(s) = Len(orders) /\ Sold(p) = Total(s)
    BY SoldAddsUp
  <2>6. DOMAIN orders = 1 .. Len(orders)
    BY OrderFields DEF CheckoutInv
  <2> HIDE DEF s
  <2>7. taken = s
    BY <2>3, <2>4, <2>5, <2>6, SeqEqual
  <2> QED
    BY <2>3, <2>5, <2>7
<1> QED
  BY <1>1, <1>2, <1>3, PTL DEF CheckoutSpec

(***************************************************************************)
(* Also if processes die, and while others are at work: no more leaves the *)
(* shelf than the orders were charged for, when customers ask for at least *)
(* one piece of something in stock, and for no negative count.             *)
(***************************************************************************)
THEOREM NothingUnpaidLeaves ==
  ASSUME AddCounts \subseteq Nat \ {0},
         Stocks \subseteq Nat \ {0},
         NewCounts \subseteq Nat
  PROVE  CheckoutSpec => []OnlySoldLeavesTheShelf
<1>0. ClosedUnderOperations(WithPieces)
  BY PiecesStay
<1>1. CheckoutInit => CheckoutInv /\ PiecesInv /\ StockInv
  BY <1>0, CheckoutInvInit, PiecesInvInit, StockInvInit
<1>2. CheckoutInv /\ PiecesInv /\ StockInv /\ [CheckoutNext]_checkoutVars
        => (CheckoutInv /\ PiecesInv /\ StockInv)'
  <2> SUFFICES ASSUME CheckoutInv, PiecesInv, StockInv,
                      [CheckoutNext]_checkoutVars
               PROVE  CheckoutInv' /\ PiecesInv' /\ StockInv'
    OBVIOUS
  <2>1. CheckoutInv'
    BY CheckoutInvStep
  <2>2. PiecesInv'
    BY <1>0, PiecesInvStep
  <2> QED
    BY <2>1, <2>2, StockInvStep
<1>3. CheckoutInv /\ PiecesInv /\ StockInv => OnlySoldLeavesTheShelf
  <2> SUFFICES ASSUME CheckoutInv, PiecesInv, StockInv, NEW p \in Products
               PROVE  Shelf - stock[p] <= Sold(p)
    BY DEF OnlySoldLeavesTheShelf
  <2> DEFINE s == [o \in DOMAIN orders |-> SoldBy(o, p)]
  <2>1. PICK taken : Accounts(p, taken)
    BY DEF StockInv
  <2>2. /\ taken \in Seq(Int)
        /\ Len(taken) = Len(orders)
        /\ Shelf - stock[p] = Total(taken)
    BY <2>1 DEF Accounts
  <2>3. /\ s \in Seq(Int)
        /\ Len(s) = Len(orders)
        /\ Sold(p) = Total(s)
        /\ \A o \in DOMAIN orders : SoldBy(o, p) \in Int
    BY SoldAddsUp
  <2>4. DOMAIN orders = 1 .. Len(orders)
    BY OrderFields DEF CheckoutInv
  <2>5. ASSUME NEW o \in DOMAIN orders
        PROVE  taken[o] <= SoldBy(o, p)
    <3>1. CASE \A r \in Requests : Taking(r) => pay[r].order # o
      <4>1. TakenInTheEnd(taken[o], SoldBy(o, p))
        BY <2>1, <3>1 DEF Accounts
      <4> QED
        BY <2>3, <4>1 DEF TakenInTheEnd
    <3>2. ASSUME NEW r \in Requests, Taking(r), pay[r].order = o
          PROVE  taken[o] <= SoldBy(o, p)
      <4> DEFINE lines == cart[r].lines
      <4>1. /\ taken[o] = TakenBy(r, p)
            /\ SoldBy(o, p) = PiecesOf(lines, p)
            /\ lines \in Contents
            /\ Len(lines) \in Nat
            /\ pay[r].next \in 1 .. Len(lines)
        BY <2>1, <3>2, OwnOrder DEF Accounts
      <4>2. lines \in WithPieces
        BY DEF PiecesInv, AllIn
      <4>3. /\ \A m \in 0 .. Len(lines) :
                 Sums(Counts(lines, p))[m] <= PiecesOf(lines, p)
            /\ Sums(Counts(lines, p))[0] = 0
        BY <4>1, <4>2, SumsOfLines
      <4>4. 0 \in 0 .. Len(lines) /\ pay[r].next - 1 \in 0 .. Len(lines)
        BY <4>1
      <4>5. \/ TakenBy(r, p) = Sums(Counts(lines, p))[pay[r].next - 1]
            \/ TakenBy(r, p) = Sums(Counts(lines, p))[0]
        BY <4>3 DEF TakenBy
      <4> QED
        BY <4>1, <4>3, <4>4, <4>5
    <3> QED
      BY <3>1, <3>2
  <2>6. \A i \in 1 .. Len(taken) : taken[i] <= s[i]
    BY <2>2, <2>4, <2>5
  <2> HIDE DEF s
  <2>7. Total(taken) <= Total(s)
    BY <2>2, <2>3, <2>6, TotalMonotone
  <2> QED
    BY <2>2, <2>3, <2>7
<1> QED
  BY <1>1, <1>2, <1>3, PTL DEF CheckoutSpec

-----------------------------------------------------------------------------
(* One request at a time.                                                  *)

\* A payment that is at its end and had card data has deleted them.
CardIsGone ==
  \A r \in Requests :
    (pay[r].at = "end" /\ pay[r].data # {}) => params[pay[r].svc] = {}

\* Nobody else stores a card between the deletion and the page.
LEMMA CardIsGoneStep ==
  ASSUME \A r, q \in Requests : r = q,
         CheckoutInv, CardIsGone, [CheckoutNext]_checkoutVars
  PROVE  CardIsGone'
<1> SUFFICES ASSUME NEW r \in Requests, pay'[r].at = "end", pay'[r].data # {}
             PROVE  params'[pay'[r].svc] = {}
  BY DEF CardIsGone
<1>0. /\ pay \in [Requests -> Pay] /\ pay[r] \in Pay
      /\ params \in [ServiceIds -> SUBSET Datum] /\ Occupied(r)
      /\ pay[r].svc \in ServiceIds
  BY PayFields DEF CheckoutInv, PayTypeOK, FormInv, SetupTypeOK
<1>1. CASE UNCHANGED << pay, params >>
  BY <1>1 DEF CardIsGone
<1>2. CASE OtherPage(r) \/ UNCHANGED checkoutVars
  BY <1>1, <1>2 DEF OtherPage, paymentVars, checkoutVars
<1>3. CASE Verify(r)
  BY <1>3, <1>0 DEF Verify, AtCheckout
<1>4. CASE Confirm(r)
  <2>1. pay[r] = NoPay
    BY <1>0, <1>4 DEF Confirm, AtCheckout, Occupied
  <2>2. pay'[r].at = "params" \/ pay'[r].data = pay[r].data
    BY <1>0, <1>4 DEF Confirm, PayGoesTo, Pay
  <2>3. pay'[r].data = {}
    <3>1. pay'[r].at # "params"
      OBVIOUS
    <3> QED
      BY <2>1, <2>2, <3>1 DEF NoPay
  <2> QED
    BY <2>3
<1>5. CASE StoreSetup(r) \/ ShowConfirmation(r)
  <2>1. pay' = pay /\ form[r].at # "none"
    BY <1>5 DEF StoreSetup, ShowConfirmation, FillIn, ShowForm, ListServices,
                ClearListed, DropServices, InsertService, ReadBack,
                DeleteOldParameters, CreateParameter
  <2> QED
    BY <1>0, <2>1 DEF Occupied
<1>6. CASE ReadParameters(r)
  <2>1. pay'[r].data = params[pay[r].svc]
        /\ (params[pay[r].svc] # {} => pay'[r].at = "send")
    BY <1>0, <1>6 DEF ReadParameters, Pay
  <2> QED
    BY <2>1
<1>7. CASE RemoveParams(r)
  <2>1. params' = [params EXCEPT ![pay[r].svc] = {}]
        /\ pay' = [pay EXCEPT ![r].at = "end"]
    BY <1>7 DEF RemoveParams, PayGoesTo
  <2>2. pay'[r].svc = pay[r].svc
    BY <1>0, <2>1 DEF Pay
  <2> QED
    BY <1>0, <2>1, <2>2
<1>8. CASE Send(r) \/ InsertOrder(r) \/ SaveItem(r) \/ DecrementStock(r)
  <2>1. pay'[r].at \in {"insert", "forget", "items", "stock"}
    <3>1. CASE Send(r)
      BY <1>0, <3>1 DEF Send, PayGoesTo, Pay
    <3>2. CASE InsertOrder(r)
      BY <1>0, <3>2 DEF InsertOrder, PayGoesTo, Pay
    <3>3. CASE SaveItem(r)
      <4>1. \/ pay'[r] = [pay[r] EXCEPT !.next = pay[r].next + 1]
            \/ pay'[r] = [pay[r] EXCEPT !.at = "stock", !.next = 1, !.ok = TRUE]
            \/ pay'[r] = [pay[r] EXCEPT !.at = "stock", !.next = 1]
        BY <1>0, <3>3 DEF SaveItem
      <4>2. pay[r].at = "items"
        BY <3>3 DEF SaveItem, PayStep
      <4>3. /\ [pay[r] EXCEPT !.next = pay[r].next + 1].at = pay[r].at
            /\ [pay[r] EXCEPT !.at = "stock", !.next = 1, !.ok = TRUE].at = "stock"
            /\ [pay[r] EXCEPT !.at = "stock", !.next = 1].at = "stock"
        BY <1>0 DEF Pay
      <4> QED
        BY <4>1, <4>2, <4>3
    <3>4. CASE DecrementStock(r)
      BY <1>0, <3>4 DEF DecrementStock, PayStep, Pay
    <3> QED
      BY <1>8, <3>1, <3>2, <3>3, <3>4
  <2> QED
    BY <2>1
<1>9. CASE PayEnds(r) \/ ProcessDies(r)
  BY <1>0, <1>9, NoPayType DEF PayEnds, ProcessDies
<1> QED
  BY <1>2, <1>3, <1>4, <1>5, <1>6, <1>7, <1>8, <1>9
     DEF CheckoutNext, Continue

(***************************************************************************)
(* With one request at a time, and whatever fails or dies: when a          *)
(* confirmation that had card data to send writes its page, the service    *)
(* row has none left (removeParams, at the end of Ordered_Obj::pay).       *)
(***************************************************************************)
THEOREM ChargedCardsAreForgotten ==
  ASSUME \A r, q \in Requests : r = q
  PROVE  CheckoutSpec => ChargedCardIsForgotten
<1>1. CheckoutInit => CheckoutInv /\ CardIsGone
  BY CheckoutInvInit, NoPayType DEF CheckoutInit, CardIsGone
<1>2. CheckoutInv /\ CardIsGone /\ [CheckoutNext]_checkoutVars
        => (CheckoutInv /\ CardIsGone)'
  BY CheckoutInvStep, CardIsGoneStep
<1>3. CardIsGone =>
        [\A r \in Requests :
           (pay[r].at = "end" /\ pay[r].data # {} /\ pay'[r].at = "none") =>
             params[pay[r].svc] = {}]_checkoutVars
  BY DEF CardIsGone
<1> QED
  BY <1>1, <1>2, <1>3, PTL DEF CheckoutSpec, ChargedCardIsForgotten

-----------------------------------------------------------------------------
(* One request at a time and nothing failing: the promise of Purchase.     *)

\* A request without a cart has nothing to check out.
NothingWithoutCart == \A r \in Requests : cart[r].id = 0 => cart[r].lines = << >>

(***************************************************************************)
(* Every charge is for a row, the only one for it; and the row is checked  *)
(* out, or the request that has the answer is on its way there.  A payment *)
(* that is past the items has saved them all.                              *)
(***************************************************************************)
ChargesClose ==
  \A t \in DOMAIN charges :
    /\ charges[t].cart \in DOMAIN carts
    /\ carts[charges[t].cart].checkedOut \/ \E r \in Requests : pay[r].tx = t

PaidIsOk ==
  \A r \in Requests :
    (pay[r].at \in {"stock", "forget", "end"} /\ pay[r].tx # 0) => pay[r].ok

PurchaseInv ==
  /\ CheckoutInv
  /\ ObjectIsRow
  /\ NothingWithoutCart
  /\ OneChargePerCart
  /\ ChargesClose
  /\ PaidIsOk

\* What the tables say of the purchase of every cart.
Purchases == [c \in DOMAIN carts |-> Progress(c)]
AllBills == [c \in DOMAIN carts |-> Bills(c)]
PurchaseStep == P!Next \/ UNCHANGED << Purchases, AllBills >>

\* A cart was charged for as often as there are charges for it.
LEMMA BillsCount ==
  ASSUME charges \in Seq(Charge), NEW c
  PROVE  /\ Bills(c) \in Nat
         /\ Bills(c) = 0 <=> \A t \in DOMAIN charges : charges[t].cart # c
<1> DEFINE S == {t \in DOMAIN charges : charges[t].cart = c}
<1>1. Len(charges) \in Nat /\ DOMAIN charges = 1 .. Len(charges)
  BY LenProperties
<1>2. IsFiniteSet(1 .. Len(charges))
  BY <1>1, FS_Interval
<1>3. IsFiniteSet(S)
  BY <1>1, <1>2, FS_Subset
<1>4. Cardinality(S) \in Nat /\ (Cardinality(S) = 0 <=> S = {})
  BY <1>3, FS_CardinalityType, FS_EmptySet
<1>5. S = {} <=> \A t \in DOMAIN charges : charges[t].cart # c
  OBVIOUS
<1>6. Bills(c) = Cardinality(S)
  BY DEF Bills
<1> QED
  BY <1>4, <1>5, <1>6

\* One more charge is one more for its cart, and none for the others.
LEMMA BillsAppended ==
  ASSUME CheckoutInv, NEW r \in Requests,
         charges' = Append(charges, ChargeOf(r)), NEW c
  PROVE  Bills(c)' = IF c = cart[r].id THEN Bills(c) + 1 ELSE Bills(c)
<1> DEFINE S == {t \in DOMAIN charges : charges[t].cart = c}
           T == {t \in DOMAIN charges' : charges'[t].cart = c}
           n == Len(charges) + 1
<1>1. /\ Len(charges) \in Nat
      /\ DOMAIN charges = 1 .. Len(charges)
      /\ DOMAIN charges' = 1 .. n
      /\ charges'[n].cart = cart[r].id
      /\ \A t \in DOMAIN charges : charges'[t] = charges[t]
      /\ n \notin DOMAIN charges
  BY OrderFields, ChargeAppended DEF CheckoutInv, ChargeOf
<1>2. IsFiniteSet(S)
  <2>1. IsFiniteSet(1 .. Len(charges))
    BY <1>1, FS_Interval
  <2> QED
    BY <1>1, <2>1, FS_Subset
<1>3. \A t : t \in DOMAIN charges' <=> t \in DOMAIN charges \/ t = n
  BY <1>1
<1>4. n \notin S
  BY <1>1
<1>5. T = IF c = cart[r].id THEN S \cup {n} ELSE S
  <2> HIDE DEF n
  <2> QED
    BY <1>1, <1>3
<1>6. Cardinality(S \cup {n}) = Cardinality(S) + 1
  BY <1>2, <1>4, FS_AddElement
<1>7. Bills(c) = Cardinality(S) /\ Bills(c)' = Cardinality(T)
  BY DEF Bills
<1> QED
  BY <1>5, <1>6, <1>7

\* A step that changes at most the progress of one cart.
LEMMA OneProgress ==
  ASSUME DOMAIN carts' = DOMAIN carts, NEW id \in DOMAIN carts,
         \A c \in DOMAIN carts : c # id => Progress(c)' = Progress(c)
  PROVE  Purchases' = [Purchases EXCEPT ![id] = Progress(id)']
  BY DEF Purchases

(***************************************************************************)
(* A step that adds no charge and no order that is complete, and checks    *)
(* nothing out or in, is none of a purchase.                               *)
(***************************************************************************)
LEMMA NoPurchaseStep ==
  ASSUME charges' = charges, DOMAIN carts' = DOMAIN carts,
         \A c \in DOMAIN carts :
           /\ carts'[c].checkedOut = carts[c].checkedOut
           /\ Ordered(c)' <=> Ordered(c)
  PROVE  UNCHANGED << Purchases, AllBills >>
<1>1. \A c : Bills(c)' = Bills(c)
  BY DEF Bills
<1>2. \A c \in DOMAIN carts : Progress(c)' = Progress(c)
  BY <1>1 DEF Progress
<1> QED
  BY <1>1, <1>2 DEF Purchases, AllBills

\* What is left to show of a step once the carts and the checkout are as ever.
PurchaseKept ==
  OneChargePerCart' /\ ChargesClose' /\ PaidIsOk' /\ PurchaseStep

\* The steps that leave the tables, and what the request knows of them.
LEMMA GoesOnBuying ==
  ASSUME \A r, q \in Requests : r = q, PurchaseInv, NEW r \in Requests,
         UNCHANGED << carts, charges, orders >>,
         pay'[r].tx = pay[r].tx,
         pay'[r].ok = pay[r].ok,
         pay'[r].at \in {"stock", "forget", "end"} =>
           pay[r].at \in {"stock", "forget", "end"} \/ pay[r].tx = 0
  PROVE  PurchaseKept
<1>1. OneChargePerCart'
  BY DEF PurchaseInv, OneChargePerCart
<1>2. ChargesClose'
  <2>1. ASSUME NEW t \in DOMAIN charges
        PROVE  /\ charges[t].cart \in DOMAIN carts
               /\ carts[charges[t].cart].checkedOut \/ pay[r].tx = t
    BY DEF PurchaseInv, ChargesClose
  <2> QED
    BY <2>1 DEF ChargesClose
<1>3. PaidIsOk'
  BY DEF PurchaseInv, PaidIsOk
<1>4. \A c : Ordered(c)' <=> Ordered(c)
  BY DEF Ordered
<1>5. PurchaseStep
  BY <1>4, NoPurchaseStep DEF PurchaseStep
<1> QED
  BY <1>1, <1>2, <1>3, <1>5 DEF PurchaseKept

\* Until the payment has begun, there is nothing to know.
LEMMA FormsBuyNothing ==
  ASSUME \A r, q \in Requests : r = q, PurchaseInv, NEW r \in Requests,
         Verify(r) \/ Confirm(r) \/ StoreSetup(r) \/ ShowConfirmation(r)
  PROVE  PurchaseKept
<1>0. pay \in [Requests -> Pay] /\ pay[r] \in Pay /\ Occupied(r)
  BY PayFields DEF PurchaseInv, CheckoutInv, PayTypeOK
<1>1. CASE Verify(r) \/ StoreSetup(r) \/ ShowConfirmation(r)
  <2>1. pay' = pay /\ UNCHANGED << carts, charges, orders >>
    BY <1>1 DEF Verify, StoreSetup, ShowConfirmation, ShowPage, cartVars, shopVars
  <2> QED
    BY <2>1, GoesOnBuying
<1>2. CASE Confirm(r)
  <2>1. UNCHANGED << carts, charges, orders >> /\ pay[r].at = "none"
    BY <1>2 DEF Confirm, AtCheckout, cartVars, shopVars
  <2>2. pay'[r].tx = pay[r].tx /\ pay'[r].ok = pay[r].ok
    BY <1>0, <1>2 DEF Confirm, PayGoesTo, Pay
  <2>3. pay[r].tx = 0
    BY <1>0, <2>1, NoPayType DEF Occupied
  <2> QED
    BY <2>1, <2>2, <2>3, GoesOnBuying
<1> QED
  BY <1>1, <1>2

\* Of a payment, the steps that go on to another statement and no more.
LEMMA StatementsBuyNothing ==
  ASSUME \A r, q \in Requests : r = q, PurchaseInv, NEW r \in Requests,
         \/ ReadParameters(r)
         \/ DecrementStock(r)
         \/ RemoveParams(r)
         \/ PayStep(r, "send") /\ PayGoesTo(r, "forget")
              /\ UNCHANGED << charges, orders >>
  PROVE  PurchaseKept
<1>0. pay \in [Requests -> Pay] /\ pay[r] \in Pay /\ Progressed(r)
  BY PayFields DEF PurchaseInv, CheckoutInv, PayTypeOK, Paying
<1>1. UNCHANGED << carts, charges, orders >>
  BY DEF ReadParameters, DecrementStock, RemoveParams, PayStep, cartVars, shopVars
<1>2. CASE ReadParameters(r)
  <2>1. /\ pay[r].at = "params"
        /\ pay'[r].tx = pay[r].tx
        /\ pay'[r].ok = pay[r].ok
    BY <1>0, <1>2 DEF ReadParameters, PayStep, Pay
  <2> QED
    BY <1>0, <1>1, <2>1, GoesOnBuying DEF Progressed
<1>3. CASE DecrementStock(r)
  <2>1. /\ pay[r].at = "stock"
        /\ pay'[r].tx = pay[r].tx
        /\ pay'[r].ok = pay[r].ok
    BY <1>0, <1>3 DEF DecrementStock, PayStep, Pay
  <2> QED
    BY <1>1, <2>1, GoesOnBuying
<1>4. CASE RemoveParams(r)
  <2>1. /\ pay[r].at = "forget"
        /\ pay'[r].tx = pay[r].tx
        /\ pay'[r].ok = pay[r].ok
    BY <1>0, <1>4 DEF RemoveParams, PayStep, PayGoesTo, Pay
  <2> QED
    BY <1>1, <2>1, GoesOnBuying
<1>5. CASE PayStep(r, "send") /\ PayGoesTo(r, "forget")
  <2>1. /\ pay[r].at = "send"
        /\ pay'[r].tx = pay[r].tx
        /\ pay'[r].ok = pay[r].ok
    BY <1>0, <1>5 DEF PayStep, PayGoesTo, Pay
  <2> QED
    BY <1>0, <1>1, <2>1, GoesOnBuying DEF Progressed
<1> QED
  BY <1>2, <1>3, <1>4, <1>5

(***************************************************************************)
(* The cart of a payment that is not through is open, was not ordered, and *)
(* has no charge but the one the request has the answer for.               *)
(***************************************************************************)
LEMMA CartIsOpen ==
  ASSUME \A r, q \in Requests : r = q, PurchaseInv, NEW r \in Requests,
         pay[r].at # "none"
  PROVE  /\ cart[r].id \in DOMAIN carts
         /\ ~carts[cart[r].id].checkedOut
         /\ cart[r].lines # << >>
         /\ \A t \in DOMAIN charges :
              charges[t].cart = cart[r].id => pay[r].tx = t
<1>1. /\ pc[r] \in Programs
      /\ cart[r].lines # << >>
      /\ ~cart[r].checkedOut
  BY DEF PurchaseInv, CheckoutInv, Occupied, Programs
<1>2. cart[r].id # 0
  BY <1>1 DEF PurchaseInv, NothingWithoutCart
<1>3. cart[r].id \in DOMAIN carts /\ ~carts[cart[r].id].checkedOut
  BY <1>1, <1>2 DEF PurchaseInv, ObjectIsRow
<1> QED
  BY <1>1, <1>3 DEF PurchaseInv, ChargesClose

\* An order for the cart is for its one charge, and is the payment's own.
LEMMA NotOrderedYet ==
  ASSUME \A r, q \in Requests : r = q, PurchaseInv, NEW r \in Requests,
         pay[r].at \in {"send", "insert", "items"}
  PROVE  ~Ordered(cart[r].id)
<1> SUFFICES ASSUME NEW o \in DOMAIN orders,
                    orders[o].cart = cart[r].id,
                    orders[o].items = charges[orders[o].tx].lines
             PROVE  FALSE
  BY DEF Ordered
<1>1. /\ Progressed(r) /\ ChargeIsOwn(r) /\ OrderIsOwn(r)
      /\ EveryOrderPaid
      /\ PayTypeOK /\ CartTypeOK
  BY DEF PurchaseInv, CheckoutInv, Paying
<1>2. /\ orders[o].tx \in DOMAIN charges
      /\ charges[orders[o].tx].cart = cart[r].id
  BY <1>1 DEF EveryOrderPaid
<1>3. orders[o].tx = pay[r].tx
  BY <1>2, CartIsOpen
<1>4. pay[r].tx # 0
  <2>1. DOMAIN charges = 1 .. Len(charges) /\ Len(charges) \in Nat
    BY <1>1, OrderFields
  <2> QED
    BY <1>2, <1>3, <2>1
<1>5. pay[r].at = "items"
  BY <1>1, <1>3, <1>4 DEF Progressed
<1>6. /\ pay[r].order \in DOMAIN orders
      /\ orders[pay[r].order].tx = pay[r].tx
      /\ pay[r].next \in 1 .. Len(cart[r].lines)
      /\ orders[pay[r].order].items = SubSeq(cart[r].lines, 1, pay[r].next - 1)
  BY <1>1, <1>5 DEF Progressed, OrderIsOwn
<1>7. o = pay[r].order
  BY <1>1, <1>3, <1>6 DEF EveryOrderPaid
<1>8. SubSeq(cart[r].lines, 1, pay[r].next - 1) = cart[r].lines
  BY <1>1, <1>3, <1>4, <1>6, <1>7 DEF ChargeIsOwn
<1>9. cart[r].lines \in Seq(Line) /\ Len(cart[r].lines) \in Nat
  BY <1>1, CartFields
<1>10. Len(SubSeq(cart[r].lines, 1, pay[r].next - 1)) = pay[r].next - 1
  BY <1>6, <1>9, SubSeqProperties
<1> QED
  BY <1>6, <1>8, <1>9, <1>10

\* A charge that is approved is the first for its cart.
LEMMA SendIsCharge ==
  ASSUME \A r, q \in Requests : r = q, PayFaults = {}, PurchaseInv,
         NEW r \in Requests, Send(r)
  PROVE  PurchaseKept
<1>0. /\ pay \in [Requests -> Pay] /\ pay[r] \in Pay
      /\ pay[r].at = "send" /\ pay[r].tx = 0
      /\ UNCHANGED << carts, orders >>
      /\ EveryOrderPaid /\ CheckoutInv
      /\ DOMAIN charges = 1 .. Len(charges) /\ Len(charges) \in Nat
      /\ charges \in Seq(Charge)
  BY PayFields, OrderFields
  DEF Send, PayStep, cartVars, PurchaseInv, CheckoutInv, PayTypeOK, Paying, Progressed
<1>1. CASE PayGoesTo(r, "forget") /\ UNCHANGED charges
  <2>1. PayStep(r, "send")
    BY DEF Send
  <2> QED
    BY <1>0, <1>1, <2>1, StatementsBuyNothing
<1>2. CASE ~(PayGoesTo(r, "forget") /\ UNCHANGED charges)
  <2>0. PICK id : id = cart[r].id
    OBVIOUS
  <2> DEFINE n == Len(charges) + 1
  <2>1. /\ charges' = Append(charges, ChargeOf(r))
        /\ pay' = [pay EXCEPT ![r].at = "insert", ![r].tx = Len(charges')]
    BY <1>2 DEF Send, ChargeOf
  <2>2. /\ DOMAIN charges' = 1 .. n
        /\ Len(charges') = n
        /\ charges'[n].cart = id
        /\ \A t \in DOMAIN charges : charges'[t] = charges[t]
        /\ \A t \in DOMAIN charges' : t \in DOMAIN charges \/ t = n
    BY <1>0, <2>0, <2>1, ChargeAppended DEF ChargeOf
  <2>3. /\ id \in DOMAIN carts
        /\ ~carts[id].checkedOut
        /\ \A t \in DOMAIN charges : charges[t].cart # id
    BY <1>0, <2>0, CartIsOpen
  <2>4. pay'[r].tx = n /\ pay'[r].at = "insert"
    BY <1>0, <2>1, <2>2 DEF Pay
  <2> HIDE DEF n
  <2>5. OneChargePerCart'
    <3>1. \A t \in DOMAIN charges : charges'[t].cart # id
      BY <2>2, <2>3
    <3> SUFFICES ASSUME NEW t \in DOMAIN charges', NEW u \in DOMAIN charges',
                        charges'[t].cart = charges'[u].cart
                 PROVE  t = u
      BY DEF OneChargePerCart
    <3>2. CASE t \in DOMAIN charges /\ u \in DOMAIN charges
      BY <2>2, <3>2 DEF PurchaseInv, OneChargePerCart
    <3> QED
      BY <2>2, <3>1, <3>2
  <2>6. ChargesClose'
    <3> SUFFICES ASSUME NEW t \in DOMAIN charges'
                 PROVE  /\ charges'[t].cart \in DOMAIN carts
                        /\ \/ carts[charges'[t].cart].checkedOut
                           \/ \E q \in Requests : pay'[q].tx = t
      BY <1>0 DEF ChargesClose
    <3>1. CASE t = n
      BY <2>2, <2>3, <2>4, <3>1
    <3>2. CASE t \in DOMAIN charges
      <4>1. /\ charges[t].cart \in DOMAIN carts
            /\ carts[charges[t].cart].checkedOut \/ pay[r].tx = t
        BY <3>2 DEF PurchaseInv, ChargesClose
      <4>2. t # 0
        BY <1>0, <3>2
      <4> QED
        BY <1>0, <2>2, <3>2, <4>1, <4>2
    <3> QED
      BY <2>2, <3>1, <3>2
  <2>7. PaidIsOk'
    BY <2>4 DEF PaidIsOk
  <2>8. \A c : Ordered(c)' <=> Ordered(c)
    BY <1>0, <2>2 DEF Ordered, EveryOrderPaid
  <2>9. \A c : Bills(c)' = IF c = id THEN Bills(c) + 1 ELSE Bills(c)
    BY <1>0, <2>0, <2>1, BillsAppended
  <2>10. Bills(id) = 0 /\ Bills(id)' = 1
    BY <1>0, <2>3, <2>9, BillsCount
  <2>11. Progress(id) = "open" /\ Progress(id)' = "charged"
    <3>1. ~Ordered(id)
      BY <1>0, <2>0, NotOrderedYet
    <3> QED
      BY <1>0, <2>3, <2>8, <2>10, <3>1 DEF Progress
  <2>12. \A c \in DOMAIN carts : c # id => Progress(c)' = Progress(c)
    BY <1>0, <2>8, <2>9 DEF Progress
  <2>13. Purchases' = [Purchases EXCEPT ![id] = "charged"]
    BY <1>0, <2>3, <2>11, <2>12, OneProgress
  <2>14. AllBills' = [AllBills EXCEPT ![id] = @ + 1]
    BY <1>0, <2>3, <2>9 DEF AllBills
  <2>15. Purchases[id] = "open" /\ id \in DOMAIN Purchases
    BY <2>3, <2>11 DEF Purchases
  <2>16. P!Charge
    BY <2>13, <2>14, <2>15 DEF P!Charge, P!Move, Purchases, AllBills
  <2> QED
    BY <2>5, <2>6, <2>7, <2>16 DEF PurchaseKept, PurchaseStep, P!Next
<1> QED
  BY <1>1, <1>2

\* An order without items is not yet an order for the cart.
LEMMA InsertIsNoOrder ==
  ASSUME \A r, q \in Requests : r = q, PayFaults = {}, PurchaseInv,
         NEW r \in Requests, InsertOrder(r)
  PROVE  PurchaseKept
<1>0. /\ pay \in [Requests -> Pay] /\ pay[r] \in Pay
      /\ pay[r].at = "insert" /\ pay[r].tx # 0
      /\ UNCHANGED << carts, charges >>
      /\ ChargeIsOwn(r)
      /\ orders \in Seq(Order) /\ CartTypeOK
      /\ DOMAIN orders = 1 .. Len(orders) /\ Len(orders) \in Nat
  BY PayFields, OrderFields
  DEF InsertOrder, PayStep, cartVars, PurchaseInv, CheckoutInv, PayTypeOK, Paying,
      Progressed
<1> DEFINE new == [cust |-> who[r], cart |-> cart[r].id, tx |-> pay[r].tx,
                   items |-> << >>]
           n == Len(orders) + 1
<1>1. /\ orders' = Append(orders, new)
      /\ pay' = [pay EXCEPT ![r].at = "items", ![r].order = Len(orders')]
  BY DEF InsertOrder
<1>2. new \in Order
  BY <1>0, CartFields, EmptySeq DEF Order, Pay
<1>3. /\ DOMAIN orders' = 1 .. n
      /\ orders'[n] = new
      /\ \A o \in DOMAIN orders : orders'[o] = orders[o]
      /\ \A o \in DOMAIN orders' : o \in DOMAIN orders \/ o = n
      /\ \A o \in DOMAIN orders : o \in DOMAIN orders'
  <2> HIDE DEF new
  <2>1. /\ orders' \in Seq(Order)
        /\ Len(orders') = n
        /\ orders'[n] = new
        /\ \A o \in 1 .. Len(orders) : orders'[o] = orders[o]
    BY <1>0, <1>1, <1>2, AppendProperties
  <2>2. DOMAIN orders' = 1 .. n
    BY <2>1, LenProperties
  <2> QED
    BY <1>0, <2>1, <2>2
<1>4. /\ pay'[r].at = "items"
      /\ pay'[r].tx = pay[r].tx
      /\ pay'[r].ok = pay[r].ok
  BY <1>0, <1>1 DEF Pay
<1>5. OneChargePerCart' /\ ChargesClose' /\ PaidIsOk'
  <2>1. OneChargePerCart'
    BY <1>0 DEF PurchaseInv, OneChargePerCart
  <2>2. ASSUME NEW t \in DOMAIN charges
        PROVE  /\ charges[t].cart \in DOMAIN carts
               /\ carts[charges[t].cart].checkedOut \/ pay[r].tx = t
    BY DEF PurchaseInv, ChargesClose
  <2>3. ChargesClose'
    BY <1>0, <1>4, <2>2 DEF ChargesClose
  <2>4. PaidIsOk'
    BY <1>4 DEF PaidIsOk
  <2> QED
    BY <2>1, <2>3, <2>4
<1>6. charges[pay[r].tx].lines # << >>
  BY <1>0, CartIsOpen DEF ChargeIsOwn
<1>7. ASSUME NEW c PROVE Ordered(c)' <=> Ordered(c)
  <2>1. orders'[n].items # charges[orders'[n].tx].lines
    BY <1>3, <1>6
  <2> HIDE DEF n, new
  <2> QED
    BY <1>0, <1>3, <2>1 DEF Ordered
<1>8. PurchaseStep
  BY <1>0, <1>7, NoPurchaseStep DEF PurchaseStep
<1> QED
  BY <1>5, <1>8 DEF PurchaseKept

\* With the last item, and not before, the order is one for all of the cart.
LEMMA LastItemIsOrder ==
  ASSUME \A r, q \in Requests : r = q, PayFaults = {}, PurchaseInv,
         CheckoutInv', NEW r \in Requests, SaveItem(r)
  PROVE  PurchaseKept
<1> DEFINE o == pay[r].order
           lines == cart[r].lines
           n == pay[r].next
<1>0. /\ pay \in [Requests -> Pay] /\ pay[r] \in Pay
      /\ pay[r].at = "items" /\ pay[r].tx # 0
      /\ UNCHANGED << carts, cart, charges >>
      /\ ChargeIsOwn(r) /\ Progressed(r)'
      /\ orders \in Seq(Order)
      /\ o \in DOMAIN orders /\ orders[o].tx = pay[r].tx
      /\ n \in 1 .. Len(lines) /\ n \in Nat
      /\ lines \in Seq(Line) /\ Len(lines) \in Nat
  BY PayFields, CartFields
  DEF SaveItem, PayStep, cartVars, PurchaseInv, CheckoutInv, PayTypeOK, Paying,
      Progressed, OrderIsOwn
<1>1. /\ orders' = [orders EXCEPT ![o].items = Append(@, lines[n])]
      /\ pay' = [pay EXCEPT ![r] =
           IF n < Len(lines)
             THEN [@ EXCEPT !.next = n + 1]
             ELSE [@ EXCEPT !.at = "stock", !.next = 1, !.ok = TRUE]]
  BY DEF SaveItem
<1>2. /\ DOMAIN orders' = DOMAIN orders
      /\ \A x \in DOMAIN orders : x # o => orders'[x] = orders[x]
      /\ orders'[o].tx = orders[o].tx
      /\ orders'[o].cart = orders[o].cart
  <2>1. orders[o] \in Order
    BY <1>0, ElementOfSeq
  <2>2. /\ DOMAIN orders' = DOMAIN orders
        /\ \A x \in DOMAIN orders : x # o => orders'[x] = orders[x]
        /\ orders'[o] = [orders[o] EXCEPT !.items = Append(orders[o].items, lines[n])]
    BY <1>0, <1>1
  <2>3. \A x \in Order : \A y : /\ [x EXCEPT !.items = y].tx = x.tx
                                /\ [x EXCEPT !.items = y].cart = x.cart
    BY DEF Order
  <2> QED
    BY <2>1, <2>2, <2>3
<1>3. /\ pay'[r].tx = pay[r].tx
      /\ pay'[r].order = o
      /\ n < Len(lines) => pay'[r].at = "items" /\ pay'[r].next = n + 1
      /\ ~(n < Len(lines)) => pay'[r].at = "stock" /\ pay'[r].ok
  <2>1. pay'[r] = IF n < Len(lines)
                    THEN [pay[r] EXCEPT !.next = n + 1]
                    ELSE [pay[r] EXCEPT !.at = "stock", !.next = 1, !.ok = TRUE]
    BY <1>0, <1>1
  <2>2. \A x \in Pay : \A y :
          /\ [x EXCEPT !.next = y].tx = x.tx
          /\ [x EXCEPT !.next = y].at = x.at
          /\ [x EXCEPT !.next = y].order = x.order
          /\ [x EXCEPT !.next = y].next = y
    BY DEF Pay
  <2>3. \A x \in Pay : \A z, t, u :
          /\ [x EXCEPT !.at = z, !.next = t, !.ok = u].tx = x.tx
          /\ [x EXCEPT !.at = z, !.next = t, !.ok = u].order = x.order
          /\ [x EXCEPT !.at = z, !.next = t, !.ok = u].at = z
          /\ [x EXCEPT !.at = z, !.next = t, !.ok = u].ok = u
    BY DEF Pay
  <2>4. CASE n < Len(lines)
    <3>1. pay'[r] = [pay[r] EXCEPT !.next = n + 1]
      BY <2>1, <2>4
    <3>2. /\ pay'[r].tx = pay[r].tx
          /\ pay'[r].at = pay[r].at
          /\ pay'[r].order = o
          /\ pay'[r].next = n + 1
      BY <1>0, <2>2, <3>1
    <3> QED
      BY <1>0, <2>4, <3>2
  <2>5. CASE ~(n < Len(lines))
    <3>1. pay'[r] = [pay[r] EXCEPT !.at = "stock", !.next = 1, !.ok = TRUE]
      BY <2>1, <2>5
    <3>2. \E z, t, u : /\ pay'[r] = [pay[r] EXCEPT !.at = z, !.next = t, !.ok = u]
                       /\ z = "stock" /\ u = TRUE
      BY <3>1, Zenon
    <3>3. PICK z, t, u : /\ pay'[r] = [pay[r] EXCEPT !.at = z, !.next = t, !.ok = u]
                         /\ z = "stock" /\ u = TRUE
      BY <3>2, Zenon
    <3>4. /\ pay'[r].tx = pay[r].tx
          /\ pay'[r].order = o
          /\ pay'[r].at = z
          /\ pay'[r].ok = u
      <4>1. pay'[r] = [pay[r] EXCEPT !.at = z, !.next = t, !.ok = u]
        BY <3>3
      <4> QED
        BY <1>0, <2>3, <4>1
    <3> QED
      BY <2>5, <3>3, <3>4
  <2> QED
    BY <2>4, <2>5
<1>4. OneChargePerCart' /\ ChargesClose' /\ PaidIsOk'
  <2>1. OneChargePerCart'
    BY <1>0 DEF PurchaseInv, OneChargePerCart
  <2>2. ASSUME NEW t \in DOMAIN charges
        PROVE  /\ charges[t].cart \in DOMAIN carts
               /\ carts[charges[t].cart].checkedOut \/ pay[r].tx = t
    BY DEF PurchaseInv, ChargesClose
  <2>3. ChargesClose'
    BY <1>0, <1>3, <2>2 DEF ChargesClose
  <2>4. PaidIsOk'
    BY <1>3 DEF PaidIsOk
  <2> QED
    BY <2>1, <2>3, <2>4
<1>5. PICK id : id = cart[r].id
  OBVIOUS
<1>6. /\ id \in DOMAIN carts
      /\ ~carts[id].checkedOut
      /\ ~Ordered(id)
      /\ orders[o].cart = id
      /\ pay[r].tx \in DOMAIN charges
      /\ charges[pay[r].tx].cart = id
      /\ charges[pay[r].tx].lines = lines
  <2>1. EveryOrderPaid
    BY DEF PurchaseInv, CheckoutInv
  <2>2. orders[o].cart = charges[orders[o].tx].cart
    BY <1>0, <2>1 DEF EveryOrderPaid
  <2> QED
    BY <1>0, <1>5, <2>2, CartIsOpen, NotOrderedYet DEF ChargeIsOwn
<1> HIDE DEF o, lines, n
<1>7. \A c : c # id => (Ordered(c)' <=> Ordered(c))
  BY <1>0, <1>2, <1>6 DEF Ordered
<1>8. \A c : Bills(c)' = Bills(c)
  BY <1>0 DEF Bills
<1>9. \A c \in DOMAIN carts : c # id => Progress(c)' = Progress(c)
  BY <1>0, <1>7, <1>8 DEF Progress
<1>10. CASE n < Len(lines)
  <2>1. orders'[o].items = SubSeq(lines, 1, n)
    BY <1>0, <1>3, <1>10 DEF Progressed, lines
  <2>2. Len(SubSeq(lines, 1, n)) = n
    BY <1>0, <1>10, SubSeqProperties
  <2>3. orders'[o].items # lines
    BY <1>0, <1>10, <2>1, <2>2
  <2>4. ~Ordered(id)'
    BY <1>0, <1>2, <1>6, <2>3 DEF Ordered
  <2>5. \A c : Ordered(c)' <=> Ordered(c)
    BY <1>6, <1>7, <2>4
  <2>6. PurchaseStep
    BY <1>0, <2>5, NoPurchaseStep DEF PurchaseStep
  <2> QED
    BY <1>4, <2>6 DEF PurchaseKept
<1>11. CASE ~(n < Len(lines))
  <2>1. orders'[o].items = lines
    BY <1>0, <1>3, <1>11 DEF Progressed, lines
  <2>2. Ordered(id)'
    BY <1>0, <1>2, <1>6, <2>1 DEF Ordered
  <2>3. Bills(id) > 0
    BY <1>6, BillsCount DEF PurchaseInv, CheckoutInv, PayTypeOK
  <2>4. Progress(id) = "charged" /\ Progress(id)' = "ordered"
    BY <1>0, <1>6, <2>2, <2>3 DEF Progress
  <2>5. Purchases' = [Purchases EXCEPT ![id] = "ordered"]
    BY <1>0, <1>6, <1>9, <2>4, OneProgress
  <2>6. AllBills' = AllBills
    BY <1>0, <1>8 DEF AllBills
  <2>7. Purchases[id] = "charged" /\ id \in DOMAIN Purchases
    BY <1>6, <2>4 DEF Purchases
  <2>8. P!Order
    BY <2>5, <2>6, <2>7 DEF P!Order, P!Move, Purchases, AllBills
  <2> QED
    BY <1>4, <2>8 DEF PurchaseKept, PurchaseStep, P!Next
<1> QED
  BY <1>10, <1>11

\* The cart is closed when its order is complete, and else nothing happens.
LEMMA EndIsClose ==
  ASSUME \A r, q \in Requests : r = q, "update" \notin Faults, PurchaseInv,
         NEW r \in Requests, PayEnds(r)
  PROVE  PurchaseKept
<1>0. /\ pay \in [Requests -> Pay] /\ pay[r] \in Pay
      /\ pay[r].at = "end"
      /\ pay' = [pay EXCEPT ![r] = NoPay]
      /\ UNCHANGED << charges, orders >>
      /\ IF pay[r].ok THEN CheckOut(r) ELSE ShowPage(r)
      /\ Progressed(r) /\ OrderIsOwn(r) /\ ChargeIsOwn(r)
      /\ charges \in Seq(Charge)
  BY PayFields DEF PayEnds, shopVars, PurchaseInv, CheckoutInv, PayTypeOK, Paying
<1>1. pay'[r] = NoPay /\ pay'[r].tx = 0 /\ pay'[r].ok = FALSE /\ pay'[r].at = "none"
  BY <1>0, NoPayType
<1>2. CASE ~pay[r].ok
  <2>1. carts' = carts /\ pay[r].tx = 0
    BY <1>0, <1>2 DEF ShowPage, PurchaseInv, PaidIsOk
  <2>2. pay[r].ok = FALSE
    BY <1>0, <1>2 DEF Pay
  <2> QED
    BY <1>0, <1>1, <2>1, <2>2, GoesOnBuying
<1>3. CASE pay[r].ok
  <2>1. PICK id : id = cart[r].id
    OBVIOUS
  <2>2. /\ id \in DOMAIN carts
        /\ ~carts[id].checkedOut
        /\ \A t \in DOMAIN charges : charges[t].cart = id => pay[r].tx = t
    BY <1>0, <2>1, CartIsOpen
  <2>3. /\ pay[r].tx # 0
        /\ pay[r].tx \in DOMAIN charges
        /\ charges[pay[r].tx].cart = id
    BY <1>0, <1>3, <2>1 DEF Progressed, OrderIsOwn, ChargeIsOwn
  <2>4. carts' = [carts EXCEPT ![id] = [lines |-> cart[r].lines, checkedOut |-> TRUE]]
    BY <1>0, <1>3, <2>1 DEF CheckOut, Save
  <2>5. /\ DOMAIN carts' = DOMAIN carts
        /\ carts'[id].checkedOut
        /\ \A c \in DOMAIN carts : c # id => carts'[c] = carts[c]
    BY <2>2, <2>4
  <2>6. OneChargePerCart'
    BY <1>0 DEF PurchaseInv, OneChargePerCart
  <2>7. ChargesClose'
    <3>1. ASSUME NEW t \in DOMAIN charges
          PROVE  /\ charges[t].cart \in DOMAIN carts
                 /\ carts[charges[t].cart].checkedOut \/ pay[r].tx = t
      BY DEF PurchaseInv, ChargesClose
    <3> QED
      BY <1>0, <2>3, <2>5, <3>1 DEF ChargesClose
  <2>8. PaidIsOk'
    BY <1>1 DEF PaidIsOk
  <2>9. Ordered(id)
    <3> DEFINE o == pay[r].order
    <3>1. /\ o \in DOMAIN orders
          /\ orders[o].tx = pay[r].tx
          /\ orders[o].items = charges[orders[o].tx].lines
      BY <1>0, <1>3 DEF Progressed, OrderIsOwn, ChargeIsOwn
    <3>2. orders[o].cart = charges[orders[o].tx].cart
      BY <3>1 DEF PurchaseInv, CheckoutInv, EveryOrderPaid
    <3> QED
      BY <2>3, <3>1, <3>2 DEF Ordered
  <2>10. \A c : (Ordered(c)' <=> Ordered(c)) /\ Bills(c)' = Bills(c)
    BY <1>0 DEF Ordered, Bills
  <2>11. Progress(id) = "ordered" /\ Progress(id)' = "closed"
    BY <2>2, <2>5, <2>9 DEF Progress
  <2>12. \A c \in DOMAIN carts : c # id => Progress(c)' = Progress(c)
    BY <2>5, <2>10 DEF Progress
  <2>13. Purchases' = [Purchases EXCEPT ![id] = "closed"]
    BY <2>2, <2>5, <2>11, <2>12, OneProgress
  <2>14. AllBills' = AllBills
    BY <2>5, <2>10 DEF AllBills
  <2>15. Purchases[id] = "ordered" /\ id \in DOMAIN Purchases
    BY <2>2, <2>11 DEF Purchases
  <2>16. P!Close
    BY <2>13, <2>14, <2>15 DEF P!Close, P!Move, Purchases, AllBills
  <2> QED
    BY <2>6, <2>7, <2>8, <2>16 DEF PurchaseKept, PurchaseStep, P!Next
<1> QED
  BY <1>2, <1>3

\* What a page of the shop writes says of its cart what the row said.
LEMMA ShopClosesNothing ==
  ASSUME PurchaseInv, NEW r \in Requests, Shop(r)
  PROVE  /\ DOMAIN carts' = DOMAIN carts
         /\ \A c \in DOMAIN carts : carts'[c].checkedOut = carts[c].checkedOut
<1>1. pc[r] \in Programs /\ cart[r].id # 0
  BY DEF Shop, AlwaysAddProduct, AddProduct, UpdateProduct, RemoveProduct, Asks,
         Programs
<1>2. /\ cart[r].id \in DOMAIN carts
      /\ cart[r].checkedOut = carts[cart[r].id].checkedOut
  BY <1>1 DEF PurchaseInv, ObjectIsRow
<1>3. ASSUME NEW lines, Save(r, lines, cart[r].checkedOut)
      PROVE  /\ DOMAIN carts' = DOMAIN carts
             /\ \A c \in DOMAIN carts : carts'[c].checkedOut = carts[c].checkedOut
  BY <1>2, <1>3 DEF Save
<1>4. carts' = carts \/ \E lines : Save(r, lines, cart[r].checkedOut)
  BY DEF Shop, AlwaysAddProduct, AddProduct, UpdateProduct, RemoveProduct
<1> QED
  BY <1>3, <1>4

\* A function on one more number, that has e there, is a sequence with e behind.
LEMMA AppendedFunction ==
  ASSUME NEW S, NEW n \in Nat, NEW f \in [1 .. n -> S], NEW e \in S,
         NEW g \in [1 .. n + 1 -> S],
         g[n + 1] = e,
         \A c \in 1 .. n : g[c] = f[c]
  PROVE  g = Append(f, e)
<1>1. f \in Seq(S) /\ Len(f) = n
  BY SeqDef, LenProperties
<1>2. /\ Append(f, e) \in Seq(S)
      /\ Len(Append(f, e)) = n + 1
      /\ Append(f, e)[n + 1] = e
      /\ \A c \in 1 .. n : Append(f, e)[c] = f[c]
  BY <1>1, AppendProperties
<1>3. Append(f, e) \in [1 .. n + 1 -> S]
  BY <1>2, LenProperties
<1>4. \A c \in 1 .. n + 1 : c \in 1 .. n \/ c = n + 1
  OBVIOUS
<1>5. \A c \in 1 .. n + 1 : g[c] = Append(f, e)[c]
  BY <1>2, <1>4
<1>6. Append(f, e) = [c \in 1 .. n + 1 |-> Append(f, e)[c]]
  BY <1>3
<1> QED
  BY <1>5, <1>6

\* A row that is inserted is an open purchase; the rest buys nothing.
LEMMA PagesOpenPurchases ==
  ASSUME \A r, q \in Requests : r = q, PurchaseInv, CheckoutInv',
         NEW r \in Requests, OtherPage(r)
  PROVE  PurchaseKept
<1> DEFINE row == [lines |-> << >>, checkedOut |-> FALSE]
<1>0. UNCHANGED << charges, orders, pay >>
  BY DEF OtherPage, shopVars
<1>1. CASE carts' = carts
  BY <1>0, <1>1, GoesOnBuying
<1>2. ASSUME DOMAIN carts \subseteq DOMAIN carts',
             \A c \in DOMAIN carts : carts'[c].checkedOut = carts[c].checkedOut
      PROVE  OneChargePerCart' /\ ChargesClose' /\ PaidIsOk'
  BY <1>0, <1>2 DEF PurchaseInv, OneChargePerCart, ChargesClose, PaidIsOk
<1>3. \A c : (Ordered(c)' <=> Ordered(c)) /\ Bills(c)' = Bills(c)
  BY <1>0 DEF Ordered, Bills
<1>4. CASE Shop(r)
  <2>1. /\ DOMAIN carts' = DOMAIN carts
        /\ \A c \in DOMAIN carts : carts'[c].checkedOut = carts[c].checkedOut
    BY <1>4, ShopClosesNothing
  <2>2. PurchaseStep
    BY <1>0, <1>3, <2>1, NoPurchaseStep DEF PurchaseStep
  <2> QED
    BY <1>2, <2>1, <2>2 DEF PurchaseKept
<1>5. CASE carts' = Append(carts, row)
  <2> DEFINE n == Len(carts) + 1
  <2>1. row \in Row /\ row.checkedOut = FALSE
    BY EmptySeq DEF Row
  <2>2. carts \in Seq(Row) /\ charges \in Seq(Charge)
    BY DEF PurchaseInv, CheckoutInv, CartTypeOK, PayTypeOK
  <2> HIDE DEF row
  <2>3. /\ Len(carts) \in Nat
        /\ DOMAIN carts = 1 .. Len(carts)
        /\ DOMAIN carts' = 1 .. n
        /\ carts'[n] = row
        /\ \A c \in DOMAIN carts : carts'[c] = carts[c]
    BY <1>5, <2>1, <2>2, LenProperties, AppendProperties
  <2>4. /\ DOMAIN carts \subseteq DOMAIN carts' /\ n \notin DOMAIN carts
        /\ n \in DOMAIN carts'
        /\ \A c \in DOMAIN carts' : c \in DOMAIN carts \/ c = n
    BY <2>3
  <2> HIDE DEF n
  <2>5. OneChargePerCart' /\ ChargesClose' /\ PaidIsOk'
    BY <1>2, <2>3, <2>4
  <2>6. PICK k : k = n
    OBVIOUS
  <2>7. Bills(k) = 0
    <3>1. \A t \in DOMAIN charges : charges[t].cart # k
      BY <2>4, <2>6 DEF PurchaseInv, ChargesClose
    <3> QED
      BY <2>2, <3>1, BillsCount
  <2>8. ~Ordered(k)
    BY <2>4, <2>6
    DEF Ordered, PurchaseInv, ChargesClose, CheckoutInv, EveryOrderPaid
  <2>9. Progress(k)' = "open"
    BY <1>3, <2>1, <2>3, <2>6, <2>7, <2>8 DEF Progress
  <2>10. \A c \in DOMAIN carts : Progress(c)' = Progress(c)
    BY <1>3, <2>3 DEF Progress
  <2>11. Purchases' = Append(Purchases, "open")
    <3> DEFINE Words == {"open", "charged", "ordered", "closed"}
    <3>1. \A c : Progress(c) \in Words /\ Progress(c)' \in Words
      BY DEF Progress
    <3> HIDE DEF Words
    <3>2. PICK f : f = Purchases
      OBVIOUS
    <3>3. PICK g : g = Purchases'
      OBVIOUS
    <3>4. f \in [1 .. Len(carts) -> Words]
      BY <2>3, <3>1, <3>2 DEF Purchases
    <3>5. g \in [1 .. n -> Words] /\ \A c \in 1 .. n : g[c] = Progress(c)'
      BY <2>3, <3>1, <3>3 DEF Purchases
    <3>6. g[n] = "open" /\ \A c \in 1 .. Len(carts) : g[c] = f[c]
      <4>1. g[k] = Progress(k)'
        BY <2>3, <2>4, <2>6, <3>5
      <4>2. \A c \in 1 .. Len(carts) : f[c] = Progress(c)
        BY <2>3, <3>2 DEF Purchases
      <4> QED
        BY <2>3, <2>4, <2>6, <2>9, <2>10, <3>5, <4>1, <4>2
    <3>7. "open" \in Words
      BY DEF Words
    <3>8. PICK m : m = Len(carts)
      OBVIOUS
    <3>9. /\ m \in Nat
          /\ f \in [1 .. m -> Words]
          /\ g \in [1 .. m + 1 -> Words]
          /\ g[m + 1] = "open"
          /\ \A c \in 1 .. m : g[c] = f[c]
      BY <2>3, <3>4, <3>5, <3>6, <3>8 DEF n
    <3>10. g = Append(f, "open")
      BY <3>9, <3>7, AppendedFunction
    <3> QED
      BY <3>2, <3>3, <3>10
  <2>12. AllBills' = Append(AllBills, 0)
    <3>1. PICK f : f = AllBills
      OBVIOUS
    <3>2. PICK g : g = AllBills'
      OBVIOUS
    <3>3. f \in [1 .. Len(carts) -> Nat]
      BY <2>2, <2>3, <3>1, BillsCount DEF AllBills
    <3>4. g \in [1 .. n -> Nat] /\ \A c \in 1 .. n : g[c] = Bills(c)
      BY <1>3, <2>2, <2>3, <3>2, BillsCount DEF AllBills
    <3>5. g[n] = 0 /\ \A c \in 1 .. Len(carts) : g[c] = f[c]
      <4>1. \A c \in 1 .. Len(carts) : f[c] = Bills(c)
        BY <2>3, <3>1 DEF AllBills
      <4> QED
        BY <2>3, <2>4, <2>6, <2>7, <3>4, <4>1
    <3>6. PICK m : m = Len(carts)
      OBVIOUS
    <3>7. /\ m \in Nat
          /\ f \in [1 .. m -> Nat]
          /\ g \in [1 .. m + 1 -> Nat]
          /\ g[m + 1] = 0
          /\ \A c \in 1 .. m : g[c] = f[c]
      BY <2>3, <3>3, <3>4, <3>5, <3>6 DEF n
    <3>8. g = Append(f, 0)
      BY <3>7, AppendedFunction
    <3> QED
      BY <3>1, <3>2, <3>8
  <2>13. P!Open
    BY <2>11, <2>12 DEF P!Open, Purchases, AllBills
  <2> QED
    BY <2>5, <2>13 DEF PurchaseKept, PurchaseStep, P!Next
<1> QED
  BY <1>1, <1>4, <1>5
  DEF OtherPage, Construct, NewCart, NoNewCart, LoadCart, ShowPage, Reply, Idle

(***************************************************************************)
(* A page or a service that leaves the object a cart without an id leaves  *)
(* it without lines.                                                       *)
(***************************************************************************)
LEMMA NothingWithoutCartStep ==
  ASSUME CartTypeOK, NothingWithoutCart, [CartNext]_cartVars
  PROVE  NothingWithoutCart'
<1>0. cart \in [Requests -> CartObj]
  BY DEF CartTypeOK
<1>1. CASE UNCHANGED cart
  BY <1>1 DEF NothingWithoutCart
<1>2. ASSUME NEW r \in Requests, NEW obj, cart' = [cart EXCEPT ![r] = obj],
             obj.id = 0 => obj.lines = << >>
      PROVE  NothingWithoutCart'
  BY <1>0, <1>2 DEF NothingWithoutCart
<1>3. /\ NoCart.id = 0 /\ NoCart.lines = << >>
      /\ \A id : Stored(id).id = 0 => Stored(id).lines = << >>
  <2>1. 0 \notin DOMAIN carts
    BY LenProperties DEF CartTypeOK
  <2> QED
    BY <2>1 DEF NoCart, Stored
<1>4. ASSUME NEW r \in Requests, Construct(r)
      PROVE  NothingWithoutCart'
  <2>1. PICK b \in Browsers, prog \in Programs :
          \/ NewCart(r, b, prog)
          \/ NoNewCart(r, b, prog)
          \/ \E link \in links[b] \cup {Empty} : LoadCart(r, b, prog, link)
    BY <1>4 DEF Construct
  <2>2. [NoCart EXCEPT !.id = Len(carts')].lines = << >>
    BY DEF NoCart
  <2>3. \/ cart' = [cart EXCEPT ![r] = [NoCart EXCEPT !.id = Len(carts')]]
        \/ cart' = [cart EXCEPT ![r] = NoCart]
        \/ \E id : cart' = [cart EXCEPT ![r] = Stored(id)]
    BY <2>1 DEF NewCart, NoNewCart, LoadCart
  <2> QED
    BY <1>2, <1>3, <2>2, <2>3
<1>5. ASSUME NEW r \in Requests, cart[r].id # 0,
             NEW lines, NEW closed, Save(r, lines, closed)
      PROVE  NothingWithoutCart'
  <2> DEFINE new == [id |-> cart[r].id, lines |-> lines, checkedOut |-> closed]
  <2>1. new.id # 0
    BY <1>5
  <2>2. cart' = [cart EXCEPT ![r] = new] \/ cart' = [cart EXCEPT ![r] = Stored(cart[r].id)]
    BY <1>5 DEF Save
  <2> HIDE DEF new
  <2> QED
    BY <1>2, <1>3, <2>1, <2>2
<1>6. ASSUME NEW r \in Requests, Shop(r)
      PROVE  NothingWithoutCart'
  <2>1. cart[r].id # 0
    BY <1>6 DEF Shop, AlwaysAddProduct, AddProduct, UpdateProduct, RemoveProduct, Asks
  <2>2. cart' = cart \/ \E lines : Save(r, lines, cart[r].checkedOut)
    BY <1>6 DEF Shop, AlwaysAddProduct, AddProduct, UpdateProduct, RemoveProduct
  <2> QED
    BY <1>1, <1>5, <2>1, <2>2
<1>7. ASSUME NEW r \in Requests, CheckOut(r)
      PROVE  NothingWithoutCart'
  BY <1>5, <1>7 DEF CheckOut
<1>8. ASSUME NEW r \in Requests, Reply(r) \/ Die(r)
      PROVE  NothingWithoutCart'
  BY <1>2, <1>3, <1>8 DEF Reply, Die, Idle
<1> QED
  BY <1>1, <1>4, <1>6, <1>7, <1>8 DEF CartNext, cartVars, ShowPage

\* In the beginning there is nothing to buy.
LEMMA PurchaseInvInit == CheckoutInit => PurchaseInv
<1> SUFFICES ASSUME CheckoutInit PROVE PurchaseInv
  OBVIOUS
<1>1. charges = << >> /\ carts = << >> /\ \A r \in Requests : pay[r] = NoPay
  BY DEF CheckoutInit, CartInit
<1>2. ObjectIsRow /\ NothingWithoutCart
  BY DEF CheckoutInit, CartInit, ObjectIsRow, NothingWithoutCart, NoCart
<1>3. OneChargePerCart /\ ChargesClose /\ PaidIsOk
  BY <1>1, NoPayType DEF OneChargePerCart, ChargesClose, PaidIsOk
<1> QED
  BY <1>2, <1>3, CheckoutInvInit DEF PurchaseInv

\* Every step keeps the invariant and is a step of a purchase, or none.
LEMMA PurchaseInvStep ==
  ASSUME \A r, q \in Requests : r = q, PayFaults = {}, "update" \notin Faults,
         PurchaseInv, [CheckoutNext]_checkoutVars
  PROVE  PurchaseInv' /\ PurchaseStep
<1>1. CheckoutInv'
  BY CheckoutInvStep DEF PurchaseInv
<1>2. [CartNext]_cartVars /\ CartTypeOK
  BY CheckoutIsCartStep DEF PurchaseInv, CheckoutInv
<1>3. ObjectIsRow' /\ NothingWithoutCart'
  BY <1>2, ObjectIsRowStep, NothingWithoutCartStep DEF PurchaseInv, BasketInv
<1>4. CASE UNCHANGED checkoutVars
  <2>1. UNCHANGED << carts, charges, orders, pay >>
    BY <1>4 DEF checkoutVars, cartVars, shopVars
  <2>2. OneChargePerCart' /\ ChargesClose' /\ PaidIsOk'
    BY <2>1 DEF PurchaseInv, OneChargePerCart, ChargesClose, PaidIsOk
  <2>3. \A c : Ordered(c)' <=> Ordered(c)
    BY <2>1 DEF Ordered
  <2>4. PurchaseStep
    BY <2>1, <2>3, NoPurchaseStep DEF PurchaseStep
  <2> QED
    BY <1>1, <1>3, <2>2, <2>4 DEF PurchaseInv
<1>5. CASE CheckoutNext
  <2>1. PICK r \in Requests :
          \/ OtherPage(r)
          \/ Verify(r)
          \/ Confirm(r)
          \/ Continue(r)
          \/ ProcessDies(r)
    BY <1>5 DEF CheckoutNext
  <2>2. ~ProcessDies(r)
    BY DEF ProcessDies
  <2>3. PurchaseKept
    BY <1>1, <2>1, <2>2, PagesOpenPurchases, FormsBuyNothing, StatementsBuyNothing,
       SendIsCharge, InsertIsNoOrder, LastItemIsOrder, EndIsClose DEF Continue
  <2> QED
    BY <1>1, <1>3, <2>3 DEF PurchaseKept, PurchaseInv
<1> QED
  BY <1>4, <1>5

(***************************************************************************)
(* One request at a time and nothing failing, whatever the customers do    *)
(* and the gateway declines, the checkout keeps what Purchase promises of  *)
(* every cart, but for the promise that something happens in the end: it   *)
(* is charged for at most once, and only while it is open; it is closed    *)
(* only after there is an order for all that was charged for; and then it  *)
(* stays closed.                                                           *)
(***************************************************************************)
THEOREM CheckoutIsPurchase ==
  ASSUME \A r, q \in Requests : r = q, PayFaults = {}, "update" \notin Faults
  PROVE  CheckoutSpec => P!Safety
<1>1. CheckoutInit => P!Init
  BY DEF CheckoutInit, CartInit, P!Init
<1>2. PurchaseInv /\ [CheckoutNext]_checkoutVars => PurchaseInv' /\ PurchaseStep
  BY PurchaseInvStep
<1>3. PurchaseStep => [P!Next]_<< Purchases, AllBills >>
  BY DEF PurchaseStep
<1>4. CheckoutSpec => P!Init /\ [][P!Next]_<< Purchases, AllBills >>
  BY <1>1, <1>2, <1>3, PurchaseInvInit, PTL DEF CheckoutSpec
<1> QED
  BY <1>4, PTL DEF P!Safety, Purchases, AllBills

(***************************************************************************)
(* In particular no cart is charged for twice, as long as no requests      *)
(* overlap and nothing fails; with overlapping requests two charges are    *)
(* possible (the run checkout_twice).                                      *)
(***************************************************************************)
THEOREM OneChargeForOneCart ==
  ASSUME \A r, q \in Requests : r = q, PayFaults = {}, "update" \notin Faults
  PROVE  CheckoutSpec => []OneChargePerCart
<1>1. PurchaseInv /\ [CheckoutNext]_checkoutVars => PurchaseInv'
  BY PurchaseInvStep
<1>2. PurchaseInv => OneChargePerCart
  BY DEF PurchaseInv
<1> QED
  BY <1>1, <1>2, PurchaseInvInit, PTL DEF CheckoutSpec
==============================================================================
