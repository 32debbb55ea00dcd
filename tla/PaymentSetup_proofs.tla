------------------------- MODULE PaymentSetup_proofs -------------------------
(***************************************************************************)
(* Proofs about PaymentSetup, for any number of customers, cards, requests *)
(* and parameters: every variable keeps its type, and however submissions  *)
(* overlap, fail or die, the parameters kept for a customer's row are that *)
(* customer's own; and when a customer's own submissions do not overlap,   *)
(* no card data outlive their row, and a form that is filled in leaves the *)
(* whole card it was given.                                                *)
(***************************************************************************)
EXTENDS PaymentSetup, SequenceTheorems, TLAPS

Row == [cust : Customers, live : BOOLEAN]

-----------------------------------------------------------------------------
(* The invariant of SetupSpec.                                             *)

\* The loop over the parameters stays within those the service asks for.
PartsCounted ==
  \A r \in Requests : form[r].at # "done" => form[r].part \in 1 .. Parts

\* The row a form writes parameters for is one of its customer.
KeysOwned ==
  \A r \in Requests : form[r].key # 0 =>
    /\ form[r].key \in DOMAIN services
    /\ services[form[r].key].cust = form[r].card.holder

\* No parameters wait for a row that does not exist yet.
NoEarlyParameters ==
  \A id \in ServiceIds : (id # 0 /\ id \notin DOMAIN services) =>
    params[id] = {}

SetupInv ==
  /\ SetupTypeOK
  /\ PartsCounted
  /\ KeysOwned
  /\ NoEarlyParameters
  /\ CardsStayWithCustomer

-----------------------------------------------------------------------------
(* Forms and rows.                                                         *)

\* There is a card, so the form of an idle request is a form.
LEMMA NoFormType ==
  /\ NoForm \in Form
  /\ NoForm.at = "none"
  /\ NoForm.key = 0
  /\ NoForm.part = 1
<1>1. \E c \in Card : TRUE
  <2>1. PICK c \in Customers, n \in Numbers : TRUE
    BY PaymentAssumption
  <2>2. [holder |-> c, number |-> n] \in Card
    BY DEF Card
  <2> QED
    BY <2>2
<1>2. (CHOOSE c \in Card : TRUE) \in Card
  BY <1>1
<1>3. 0 \in ServiceIds
  BY PaymentAssumption DEF ServiceIds
<1> QED
  BY <1>2, <1>3 DEF NoForm, Form, Stages

\* The fields of a request's form.
LEMMA FormFields ==
  ASSUME SetupTypeOK, NEW r \in Requests
  PROVE  /\ form[r] \in Form
         /\ form[r].at \in Stages
         /\ form[r].card \in Card
         /\ form[r].card.holder \in Customers
         /\ form[r].key \in ServiceIds
         /\ form[r].old \subseteq ServiceIds
         /\ form[r].part \in Nat
  BY DEF SetupTypeOK, Form, Card

\* The rows are numbered from 1.
LEMMA RowsNumbered ==
  ASSUME SetupTypeOK
  PROVE  /\ Len(services) \in Nat
         /\ DOMAIN services = 1 .. Len(services)
         /\ DOMAIN services \subseteq ServiceIds
         /\ \A id \in DOMAIN services : services[id] \in Row
<1>1. services \in Seq(Row)
  BY DEF SetupTypeOK, Row
<1>2. /\ Len(services) \in Nat
      /\ DOMAIN services = 1 .. Len(services)
  BY <1>1, LenProperties
<1>3. \A id \in DOMAIN services : services[id] \in Row
  BY <1>1, <1>2, ElementOfSeq
<1> QED
  BY <1>2, <1>3, PaymentAssumption DEF SetupTypeOK, ServiceIds

(***************************************************************************)
(* A step that changes no more than the stage of one form keeps the        *)
(* invariant, if the form is not set back from "done".                     *)
(***************************************************************************)
LEMMA AdvanceKeeps ==
  ASSUME SetupInv, NEW r \in Requests, NEW stage \in Stages,
         form[r].at # "done", Advance(r, stage), UNCHANGED << services, params >>
  PROVE  SetupInv'
<1>1. form \in [Requests -> Form]
  BY DEF SetupInv, SetupTypeOK
<1>2. form' = [form EXCEPT ![r].at = stage]
  BY DEF Advance
<1>3. \A q \in Requests : /\ form'[q].card = form[q].card
                          /\ form'[q].key = form[q].key
                          /\ form'[q].part = form[q].part
                          /\ form'[q].at = IF q = r THEN stage ELSE form[q].at
  BY <1>1, <1>2 DEF Form
<1>4. form' \in [Requests -> Form]
  BY <1>1, <1>2 DEF Form
<1>5. SetupTypeOK'
  BY <1>4 DEF SetupInv, SetupTypeOK
<1>6. PartsCounted'
  BY <1>3 DEF SetupInv, PartsCounted
<1>7. KeysOwned'
  BY <1>3 DEF SetupInv, KeysOwned
<1>8. NoEarlyParameters' /\ CardsStayWithCustomer'
  BY DEF SetupInv, NoEarlyParameters, CardsStayWithCustomer
<1> QED
  BY <1>5, <1>6, <1>7, <1>8 DEF SetupInv

(***************************************************************************)
(* Taking the parameters of some rows away keeps the invariant.            *)
(***************************************************************************)
LEMMA ClearingKeeps ==
  ASSUME SetupInv, NEW r \in Requests, NEW stage \in Stages,
         form[r].at # "done", Advance(r, stage), UNCHANGED services,
         params' \in [ServiceIds -> SUBSET Datum],
         \A id \in ServiceIds : params'[id] \subseteq params[id]
  PROVE  SetupInv'
<1>1. form \in [Requests -> Form]
  BY DEF SetupInv, SetupTypeOK
<1>2. form' = [form EXCEPT ![r].at = stage]
  BY DEF Advance
<1>3. \A q \in Requests : /\ form'[q].card = form[q].card
                          /\ form'[q].key = form[q].key
                          /\ form'[q].part = form[q].part
                          /\ form'[q].at = IF q = r THEN stage ELSE form[q].at
  BY <1>1, <1>2 DEF Form
<1>4. form' \in [Requests -> Form]
  BY <1>1, <1>2 DEF Form
<1>5. SetupTypeOK'
  BY <1>4 DEF SetupInv, SetupTypeOK
<1>6. PartsCounted'
  BY <1>3 DEF SetupInv, PartsCounted
<1>7. KeysOwned'
  BY <1>3 DEF SetupInv, KeysOwned
<1>8. NoEarlyParameters'
  BY DEF SetupInv, NoEarlyParameters
<1>9. CardsStayWithCustomer'
  BY RowsNumbered DEF SetupInv, CardsStayWithCustomer
<1> QED
  BY <1>5, <1>6, <1>7, <1>8, <1>9 DEF SetupInv

-----------------------------------------------------------------------------
(* The steps.                                                              *)

\* The invariant holds of empty tables and idle requests.
LEMMA SetupInvInit == SetupInit => SetupInv
<1> SUFFICES ASSUME SetupInit PROVE SetupInv
  OBVIOUS
<1>1. \A r \in Requests : form[r] = NoForm
  BY DEF SetupInit
<1>2. services = << >> /\ services \in Seq(Row) /\ Len(services) = 0
  BY EmptySeq DEF SetupInit
<1>3. DOMAIN services = {}
  BY <1>2
<1>4. SetupTypeOK
  BY <1>2, NoFormType, PaymentAssumption DEF SetupInit, SetupTypeOK, Row
<1>5. PartsCounted /\ KeysOwned
  BY <1>1, NoFormType, PaymentAssumption DEF PartsCounted, KeysOwned
<1>6. NoEarlyParameters /\ CardsStayWithCustomer
  BY <1>3 DEF SetupInit, NoEarlyParameters, CardsStayWithCustomer
<1> QED
  BY <1>4, <1>5, <1>6 DEF SetupInv

\* A new form begins with no row or with one of the customer.
LEMMA SubmitKeeps ==
  ASSUME SetupInv, NEW r \in Requests, NEW card \in Card,
         NEW mode \in FormModes, Submit(r, card, mode)
  PROVE  SetupInv'
<1>1. PICK key \in IF ServicesOf(card.holder) = {} THEN {0}
                                            ELSE ServicesOf(card.holder) :
        form' = [form EXCEPT ![r] =
          [NoForm EXCEPT !.card = card, !.key = key,
             !.at = CASE mode = "i" -> "list"
                      [] mode = "u" -> "delete"
                      [] mode = "unchanged" -> "done"
                      [] OTHER -> IF key = 0 THEN "refused" ELSE "done"]]
  BY DEF Submit
<1> DEFINE stage == CASE mode = "i" -> "list"
                      [] mode = "u" -> "delete"
                      [] mode = "unchanged" -> "done"
                      [] OTHER -> IF key = 0 THEN "refused" ELSE "done"
           new   == [NoForm EXCEPT !.card = card, !.key = key, !.at = stage]
<1>2. stage \in Stages
  BY DEF Stages
<1>3. form' = [form EXCEPT ![r] = new]
  BY <1>1
<1>4. key = 0 \/ (key \in DOMAIN services /\ services[key].cust = card.holder)
  BY DEF ServicesOf
<1>5. key \in ServiceIds
  BY <1>4, RowsNumbered, PaymentAssumption DEF SetupInv, ServiceIds
<1> HIDE DEF stage
<1>6. /\ new \in Form
      /\ new.card = card
      /\ new.key = key
      /\ new.part = 1
  BY <1>2, <1>5, NoFormType DEF Form
<1> HIDE DEF new
<1>7. form \in [Requests -> Form]
  BY DEF SetupInv, SetupTypeOK
<1>8. \A q \in Requests : form'[q] = IF q = r THEN new ELSE form[q]
  BY <1>3, <1>7
<1>9. services' = services /\ params' = params
  BY DEF Submit
<1>10. SetupTypeOK'
  BY <1>3, <1>6, <1>7, <1>9 DEF SetupInv, SetupTypeOK
<1>11. PartsCounted'
  BY <1>6, <1>8, PaymentAssumption DEF SetupInv, PartsCounted
<1>12. KeysOwned'
  BY <1>4, <1>6, <1>8, <1>9 DEF SetupInv, KeysOwned
<1>13. NoEarlyParameters' /\ CardsStayWithCustomer'
  BY <1>9 DEF SetupInv, NoEarlyParameters, CardsStayWithCustomer
<1> QED
  BY <1>10, <1>11, <1>12, <1>13 DEF SetupInv

\* Listing the rows of a customer changes the form alone.
LEMMA ListKeeps ==
  ASSUME SetupInv, NEW r \in Requests, ListServices(r)
  PROVE  SetupInv'
<1> DEFINE old   == ServicesOf(form[r].card.holder)
           stage == IF old = {} THEN "insert" ELSE "clear"
<1>1. old \subseteq ServiceIds
  BY RowsNumbered DEF SetupInv, ServicesOf
<1>2. stage \in Stages
  BY DEF Stages
<1>3. /\ form' = [form EXCEPT ![r].old = old, ![r].at = stage]
      /\ services' = services
      /\ params' = params
      /\ form[r].at = "list"
  BY DEF ListServices
<1> HIDE DEF old, stage
<1>4. form \in [Requests -> Form]
  BY DEF SetupInv, SetupTypeOK
<1>5. form' \in [Requests -> Form]
  BY <1>1, <1>2, <1>3, <1>4 DEF Form
<1>6. \A q \in Requests : /\ form'[q].card = form[q].card
                          /\ form'[q].key = form[q].key
                          /\ form'[q].part = form[q].part
                          /\ form'[q].at = IF q = r THEN stage ELSE form[q].at
  BY <1>3, <1>4 DEF Form
<1>7. SetupTypeOK'
  BY <1>3, <1>5 DEF SetupInv, SetupTypeOK
<1>8. PartsCounted'
  BY <1>3, <1>6 DEF SetupInv, PartsCounted
<1>9. KeysOwned'
  BY <1>3, <1>6 DEF SetupInv, KeysOwned
<1>10. NoEarlyParameters' /\ CardsStayWithCustomer'
  BY <1>3 DEF SetupInv, NoEarlyParameters, CardsStayWithCustomer
<1> QED
  BY <1>7, <1>8, <1>9, <1>10 DEF SetupInv

\* Deleting the parameters of the listed rows takes parameters away.
LEMMA ClearKeeps ==
  ASSUME SetupInv, NEW r \in Requests, ClearListed(r)
  PROVE  SetupInv'
<1>1. params \in [ServiceIds -> SUBSET Datum]
  BY DEF SetupInv, SetupTypeOK
<1>2. params' = [id \in ServiceIds |->
                   IF id \in form[r].old THEN {} ELSE params[id]]
  BY DEF ClearListed
<1>3. /\ params' \in [ServiceIds -> SUBSET Datum]
      /\ \A id \in ServiceIds : params'[id] \subseteq params[id]
  BY <1>1, <1>2
<1>4. /\ Advance(r, "drop")
      /\ form[r].at # "done"
      /\ UNCHANGED services
      /\ "drop" \in Stages
  BY DEF ClearListed, Stages
<1> QED
  BY <1>3, <1>4, ClearingKeeps

\* deleteOldUserParameters takes parameters away, too.
LEMMA DeleteKeeps ==
  ASSUME SetupInv, NEW r \in Requests, DeleteOldParameters(r)
  PROVE  SetupInv'
<1>1. params \in [ServiceIds -> SUBSET Datum]
  BY DEF SetupInv, SetupTypeOK
<1>2. params' = [params EXCEPT ![form[r].key] = {}]
  BY DEF DeleteOldParameters
<1>3. /\ params' \in [ServiceIds -> SUBSET Datum]
      /\ \A id \in ServiceIds : params'[id] \subseteq params[id]
  BY <1>1, <1>2
<1>4. /\ Advance(r, "create")
      /\ form[r].at # "done"
      /\ UNCHANGED services
      /\ "create" \in Stages
  BY DEF DeleteOldParameters, Stages
<1> QED
  BY <1>3, <1>4, ClearingKeeps

(***************************************************************************)
(* Rows that are deleted stay in the table, as rows that are not live.     *)
(***************************************************************************)
LEMMA DropRows ==
  ASSUME SetupTypeOK, NEW r \in Requests, DropServices(r)
  PROVE  /\ services' \in Seq(Row)
         /\ Len(services') = Len(services)
         /\ DOMAIN services' = DOMAIN services
         /\ \A id \in DOMAIN services :
              /\ services'[id].cust = services[id].cust
              /\ services'[id].live =
                   (services[id].live
                      /\ services[id].cust # form[r].card.holder)
<1> DEFINE gone == ServicesOf(form[r].card.holder)
<1>1. services' = [id \in DOMAIN services |->
         IF id \in gone THEN [services[id] EXCEPT !.live = FALSE]
                        ELSE services[id]]
  BY DEF DropServices
<1>2. /\ Len(services) \in Nat
      /\ DOMAIN services = 1 .. Len(services)
      /\ \A id \in DOMAIN services : services[id] \in Row
  BY RowsNumbered
<1>3. /\ DOMAIN services' = DOMAIN services
      /\ \A id \in DOMAIN services : services'[id] \in Row
  BY <1>1, <1>2 DEF Row
<1>4. services' \in [1 .. Len(services) -> Row]
  BY <1>1, <1>2, <1>3
<1>5. services' \in Seq(Row)
  BY <1>2, <1>4, SeqDef
<1>6. Len(services') = Len(services)
  <2>1. DOMAIN services' = 1 .. Len(services') /\ Len(services') \in Nat
    BY <1>5, LenProperties
  <2>2. Len(services) \in Nat /\ 1 .. Len(services') = 1 .. Len(services)
    BY <2>1, <1>2, <1>3
  <2> QED
    BY <2>1, <2>2
<1>7. \A id \in DOMAIN services :
        /\ services'[id].cust = services[id].cust
        /\ services'[id].live = (services[id].live /\ id \notin gone)
  BY <1>1, <1>2 DEF Row
<1>8. \A id \in DOMAIN services :
        services[id].live =>
          (id \in gone <=> services[id].cust = form[r].card.holder)
  BY DEF ServicesOf
<1> QED
  BY <1>3, <1>5, <1>6, <1>7, <1>8

\* Deleting rows changes no owner.
LEMMA DropKeeps ==
  ASSUME SetupInv, NEW r \in Requests, DropServices(r)
  PROVE  SetupInv'
<1>1. form \in [Requests -> Form]
  BY DEF SetupInv, SetupTypeOK
<1>2. form' = [form EXCEPT ![r].at = "insert"] /\ params' = params
  BY DEF DropServices, Advance
<1>3. \A q \in Requests : /\ form'[q].card = form[q].card
                          /\ form'[q].key = form[q].key
                          /\ form'[q].part = form[q].part
                          /\ q # r => form'[q].at = form[q].at
  BY <1>1, <1>2 DEF Form
<1>4. form[r].at # "done"
  BY DEF DropServices
<1>5. /\ services' \in Seq(Row)
      /\ Len(services') = Len(services)
      /\ DOMAIN services' = DOMAIN services
      /\ \A id \in DOMAIN services : services'[id].cust = services[id].cust
  BY DropRows DEF SetupInv
<1>6. form' \in [Requests -> Form]
  BY <1>1, <1>2 DEF Form, Stages
<1>7. SetupTypeOK'
  BY <1>2, <1>5, <1>6 DEF SetupInv, SetupTypeOK, Row
<1>8. PartsCounted'
  BY <1>3, <1>4 DEF SetupInv, PartsCounted
<1>9. KeysOwned'
  BY <1>3, <1>5 DEF SetupInv, KeysOwned
<1>10. NoEarlyParameters' /\ CardsStayWithCustomer'
  BY <1>2, <1>5 DEF SetupInv, NoEarlyParameters, CardsStayWithCustomer
<1> QED
  BY <1>7, <1>8, <1>9, <1>10 DEF SetupInv

(***************************************************************************)
(* A successful insert adds a row of the customer under the next id.       *)
(***************************************************************************)
LEMMA InsertRow ==
  ASSUME SetupTypeOK, NEW r \in Requests, Len(services) < MaxServices,
         services' = Append(services,
                            [cust |-> form[r].card.holder, live |-> TRUE])
  PROVE  /\ services' \in Seq(Row)
         /\ Len(services') = Len(services) + 1
         /\ Len(services') \in ServiceIds
         /\ Len(services') # 0
         /\ DOMAIN services' = DOMAIN services \cup {Len(services')}
         /\ Len(services') \notin DOMAIN services
         /\ services'[Len(services')] =
              [cust |-> form[r].card.holder, live |-> TRUE]
         /\ \A id \in DOMAIN services : services'[id] = services[id]
<1> DEFINE row == [cust |-> form[r].card.holder, live |-> TRUE]
<1>1. row \in Row
  BY FormFields DEF Row
<1>2. services \in Seq(Row)
  BY DEF SetupTypeOK, Row
<1>3. /\ Len(services) \in Nat
      /\ DOMAIN services = 1 .. Len(services)
  BY RowsNumbered
<1> HIDE DEF row
<1>4. services' = Append(services, row)
  BY DEF row
<1>5. /\ services' \in Seq(Row)
      /\ Len(services') = Len(services) + 1
      /\ services'[Len(services) + 1] = row
      /\ \A id \in 1 .. Len(services) : services'[id] = services[id]
  BY <1>1, <1>2, <1>4
<1>6. DOMAIN services' = 1 .. Len(services')
  BY <1>5, LenProperties
<1>7. Len(services') \in ServiceIds
  BY <1>3, <1>5, PaymentAssumption DEF ServiceIds
<1> QED
  BY <1>3, <1>5, <1>6, <1>7 DEF row

\* An insert leaves the form with the new row, or refused.
LEMMA InsertKeeps ==
  ASSUME SetupInv, NEW r \in Requests, InsertService(r)
  PROVE  SetupInv'
<1>1. form[r].at = "insert" /\ params' = params
  BY DEF InsertService
<1>2. CASE Advance(r, "refused") /\ UNCHANGED services
  BY <1>1, <1>2, AdvanceKeeps DEF Stages
<1>3. CASE /\ Len(services) < MaxServices
           /\ services' = Append(services,
                [cust |-> form[r].card.holder, live |-> TRUE])
           /\ form' = [form EXCEPT ![r].key = Len(services'),
                                   ![r].at = "reread"]
  <2>1. form \in [Requests -> Form]
    BY DEF SetupInv, SetupTypeOK
  <2>2. /\ services' \in Seq(Row)
        /\ Len(services') = Len(services) + 1
        /\ Len(services') \in ServiceIds
        /\ Len(services') # 0
        /\ DOMAIN services' = DOMAIN services \cup {Len(services')}
        /\ Len(services') \notin DOMAIN services
        /\ services'[Len(services')].cust = form[r].card.holder
        /\ \A id \in DOMAIN services : services'[id] = services[id]
    <3>1. SetupTypeOK
      BY DEF SetupInv
    <3>2. /\ Len(services) < MaxServices
          /\ services' = Append(services,
               [cust |-> form[r].card.holder, live |-> TRUE])
      BY <1>3
    <3>3. /\ services' \in Seq(Row)
          /\ Len(services') = Len(services) + 1
          /\ Len(services') \in ServiceIds
          /\ Len(services') # 0
          /\ DOMAIN services' = DOMAIN services \cup {Len(services')}
          /\ Len(services') \notin DOMAIN services
          /\ services'[Len(services')] =
               [cust |-> form[r].card.holder, live |-> TRUE]
          /\ \A id \in DOMAIN services : services'[id] = services[id]
      BY <3>1, <3>2, InsertRow
    <3> QED
      BY <3>3
  <2> DEFINE id0 == Len(services')
  <2>3. form' = [form EXCEPT ![r].key = id0, ![r].at = "reread"]
    BY <1>3
  <2> HIDE DEF id0
  <2>4. \A q \in Requests :
          /\ form'[q].card = form[q].card
          /\ form'[q].key = IF q = r THEN id0 ELSE form[q].key
          /\ form'[q].part = form[q].part
          /\ q # r => form'[q].at = form[q].at
    BY <2>1, <2>3 DEF Form
  <2>5. form' \in [Requests -> Form]
    <3>1. id0 \in ServiceIds
      BY <2>2 DEF id0
    <3> QED
      BY ZenonT(40), <2>1, <2>3, <3>1 DEF Form, Stages
  <2>6. SetupTypeOK'
    BY <1>1, <1>3, <2>2, <2>5, RowsNumbered, PaymentAssumption
       DEF SetupInv, SetupTypeOK, Row
  <2>7. PartsCounted'
    BY <1>1, <2>4 DEF SetupInv, PartsCounted
  <2>8. KeysOwned'
    BY <2>2, <2>4 DEF SetupInv, KeysOwned, id0
  <2>9. NoEarlyParameters'
    BY <1>1, <2>2 DEF SetupInv, NoEarlyParameters
  <2>10. CardsStayWithCustomer'
    BY <1>1, <2>2 DEF SetupInv, NoEarlyParameters, CardsStayWithCustomer
  <2> QED
    BY <2>6, <2>7, <2>8, <2>9, <2>10 DEF SetupInv
<1> QED
  BY <1>2, <1>3 DEF InsertService

\* Reading the row back changes the stage alone.
LEMMA ReadBackKeeps ==
  ASSUME SetupInv, NEW r \in Requests, ReadBack(r)
  PROVE  SetupInv'
<1> DEFINE stage == IF services[form[r].key].live THEN "delete" ELSE "refused"
<1>1. stage \in Stages
  BY DEF Stages
<1>2. /\ Advance(r, stage)
      /\ form[r].at # "done"
      /\ UNCHANGED << services, params >>
  BY DEF ReadBack
<1> HIDE DEF stage
<1> QED
  BY <1>1, <1>2, AdvanceKeeps

(***************************************************************************)
(* A parameter is stored for the row of the form, which is the customer's  *)
(* own, or for the row 0, which no customer has.                           *)
(***************************************************************************)
LEMMA CreateKeeps ==
  ASSUME SetupInv, NEW r \in Requests, CreateParameter(r)
  PROVE  SetupInv'
<1> DEFINE f     == form[r]
           stage == IF f.part = Parts THEN "done" ELSE "create"
           datum == [card |-> f.card, part |-> f.part]
<1>1. /\ f.at = "create"
      /\ form' = [form EXCEPT ![r].part = f.part + 1, ![r].at = stage]
      /\ services' = services
      /\ \/ params' = [params EXCEPT ![f.key] = @ \cup {datum}]
         \/ params' = params
  BY DEF CreateParameter
<1>2. /\ f \in Form
      /\ f.card \in Card
      /\ f.key \in ServiceIds
  BY FormFields DEF SetupInv
<1>3. f.part \in 1 .. Parts /\ Parts \in Nat
  BY <1>1, PaymentAssumption DEF SetupInv, PartsCounted
<1>4. datum \in Datum /\ datum.card = f.card
  BY <1>2, <1>3 DEF Datum
<1>5. stage \in Stages
  BY DEF Stages
<1>6. stage # "done" => f.part + 1 \in 1 .. Parts
  BY <1>3
<1>7. f.part + 1 \in Nat
  BY <1>3
<1>8. f.key # 0 => services[f.key].cust = f.card.holder
  BY DEF SetupInv, KeysOwned
<1>9. form \in [Requests -> Form] /\ params \in [ServiceIds -> SUBSET Datum]
  BY DEF SetupInv, SetupTypeOK
<1> HIDE DEF stage, datum
<1>10. form' \in [Requests -> Form]
  BY <1>1, <1>2, <1>5, <1>7, <1>9 DEF Form
<1>11. \A q \in Requests :
         /\ form'[q].card = form[q].card
         /\ form'[q].key = form[q].key
         /\ form'[q].part = IF q = r THEN f.part + 1 ELSE form[q].part
         /\ form'[q].at = IF q = r THEN stage ELSE form[q].at
  BY <1>1, <1>9 DEF Form
<1> HIDE DEF f
<1>12. /\ params' \in [ServiceIds -> SUBSET Datum]
       /\ \A id \in ServiceIds : params'[id] \subseteq params[id] \cup {datum}
       /\ \A id \in ServiceIds : id # f.key => params'[id] = params[id]
  BY <1>1, <1>2, <1>4, <1>9
<1>13. SetupTypeOK'
  BY <1>1, <1>10, <1>12 DEF SetupInv, SetupTypeOK
<1>14. PartsCounted'
  BY <1>6, <1>11 DEF SetupInv, PartsCounted
<1>15. KeysOwned'
  BY <1>1, <1>11 DEF SetupInv, KeysOwned
<1>16. f.key # 0 => f.key \in DOMAIN services
  BY DEF SetupInv, KeysOwned, f
<1>17. NoEarlyParameters'
  BY <1>1, <1>12, <1>16 DEF SetupInv, NoEarlyParameters
<1>18. CardsStayWithCustomer'
  <2> SUFFICES ASSUME NEW id \in DOMAIN services, NEW d \in params'[id]
               PROVE  d.card.holder = services[id].cust
    BY <1>1 DEF CardsStayWithCustomer
  <2>1. id \in ServiceIds /\ id # 0
    BY RowsNumbered DEF SetupInv
  <2>2. CASE d \in params[id]
    BY <2>2 DEF SetupInv, CardsStayWithCustomer
  <2>3. CASE d = datum /\ id = f.key
    BY <1>4, <1>8, <2>1, <2>3 DEF f
  <2> QED
    BY <1>12, <2>1, <2>2, <2>3
<1> QED
  BY <1>13, <1>14, <1>15, <1>17, <1>18 DEF SetupInv

\* A form that is forgotten holds nothing.
LEMMA ForgetKeeps ==
  ASSUME SetupInv, NEW r \in Requests, ForgetForm(r)
  PROVE  SetupInv'
<1>1. /\ form' = [form EXCEPT ![r] = NoForm]
      /\ services' = services
      /\ params' = params
  BY DEF ForgetForm
<1>2. form \in [Requests -> Form]
  BY DEF SetupInv, SetupTypeOK
<1>3. \A q \in Requests : form'[q] = IF q = r THEN NoForm ELSE form[q]
  BY <1>1, <1>2
<1>4. SetupTypeOK'
  BY <1>1, <1>2, NoFormType DEF SetupInv, SetupTypeOK
<1>5. PartsCounted' /\ KeysOwned'
  BY <1>1, <1>3, NoFormType, PaymentAssumption
     DEF SetupInv, PartsCounted, KeysOwned
<1>6. NoEarlyParameters' /\ CardsStayWithCustomer'
  BY <1>1 DEF SetupInv, NoEarlyParameters, CardsStayWithCustomer
<1> QED
  BY <1>4, <1>5, <1>6 DEF SetupInv

\* Every step keeps the invariant.
LEMMA SetupInvStep == SetupInv /\ [SetupNext]_setupVars => SetupInv'
<1> SUFFICES ASSUME SetupInv, [SetupNext]_setupVars PROVE SetupInv'
  OBVIOUS
<1>1. CASE UNCHANGED setupVars
  BY <1>1 DEF setupVars, SetupInv, SetupTypeOK, PartsCounted, KeysOwned,
              NoEarlyParameters, CardsStayWithCustomer
<1>2. ASSUME NEW r \in Requests, NEW card \in Card, NEW mode \in FormModes,
             Submit(r, card, mode)
      PROVE  SetupInv'
  BY <1>2, SubmitKeeps
<1>3. ASSUME NEW r \in Requests, FillIn(r)
      PROVE  SetupInv'
  BY <1>3, ListKeeps, ClearKeeps, DropKeeps, InsertKeeps, ReadBackKeeps,
     DeleteKeeps, CreateKeeps DEF FillIn
<1>4. ASSUME NEW r \in Requests, ShowForm(r) \/ AbandonForm(r)
      PROVE  SetupInv'
  BY <1>4, ForgetKeeps DEF ShowForm, AbandonForm
<1> QED
  BY <1>1, <1>2, <1>3, <1>4 DEF SetupNext

(***************************************************************************)
(* Every variable keeps its type: rows are numbered without gaps, and the  *)
(* loop over the parameters never leaves those the service asks for.       *)
(***************************************************************************)
THEOREM SetupTypesHold == SetupSpec => []SetupTypeOK
<1>1. SetupInv => SetupTypeOK
  BY DEF SetupInv
<1> QED
  BY <1>1, SetupInvInit, SetupInvStep, PTL DEF SetupSpec

(***************************************************************************)
(* However submissions overlap, also those of one customer, the parameters *)
(* kept for a customer's row are that customer's own.                      *)
(***************************************************************************)
THEOREM CardsStay == SetupSpec => []CardsStayWithCustomer
<1>1. SetupInv => CardsStayWithCustomer
  BY DEF SetupInv
<1> QED
  BY <1>1, SetupInvInit, SetupInvStep, PTL DEF SetupSpec

-----------------------------------------------------------------------------
(* The invariant of OrderlySetupSpec.                                      *)

(***************************************************************************)
(* What a form has prepared is still so at its next step: all rows of the  *)
(* customer are listed, then all of them are without parameters, and the   *)
(* row that the parameters are stored for has not been deleted.            *)
(***************************************************************************)
Prepared(r) ==
  LET f == form[r]
  IN  /\ f.at = "clear" => f.old = ServicesOf(f.card.holder)
      /\ f.at = "drop" =>
           \A id \in ServicesOf(f.card.holder) : params[id] = {}
      /\ (f.at \in {"reread", "delete", "create"} /\ f.key # 0) =>
           services[f.key].live

OrderlyInv ==
  /\ SetupInv
  /\ Orderly
  /\ \A r \in Requests : Prepared(r)
  /\ NoCardWithoutService

\* The step touches no rows but those of customer c, and one form, r.
OnlyRowsOf(c, r) ==
  /\ \A q \in Requests : q # r => form'[q] = form[q]
  /\ DOMAIN services \subseteq DOMAIN services'
  /\ \A id \in DOMAIN services' :
       IF id \in DOMAIN services
         THEN /\ services'[id].cust = services[id].cust
              /\ services[id].cust # c =>
                   /\ services'[id].live = services[id].live
                   /\ params'[id] = params[id]
         ELSE services'[id].cust = c

(***************************************************************************)
(* A step for one customer disturbs no form of another.                    *)
(***************************************************************************)
LEMMA OthersStayPrepared ==
  ASSUME OrderlyInv, NEW r \in Requests, NEW c, OnlyRowsOf(c, r),
         NEW q \in Requests, q # r,
         form[q].at # "none" => form[q].card.holder # c
  PROVE  Prepared(q)'
<1>1. form'[q] = form[q]
  BY DEF OnlyRowsOf
<1>2. CASE form[q].at = "none"
  BY <1>1, <1>2 DEF Prepared
<1>3. CASE form[q].at # "none"
  <2> DEFINE own == form[q].card.holder
  <2>1. own # c
    BY <1>3
  <2>2. /\ DOMAIN services \subseteq DOMAIN services'
        /\ \A id \in DOMAIN services' :
             services'[id].cust = own =>
               /\ id \in DOMAIN services
               /\ services[id].cust = own
        /\ \A id \in DOMAIN services :
             services[id].cust = own =>
               /\ services'[id].cust = own
               /\ services'[id].live = services[id].live
               /\ params'[id] = params[id]
    BY <2>1 DEF OnlyRowsOf
  <2> HIDE DEF own
  <2>3. ServicesOf(own)' = {id \in DOMAIN services' :
                              services'[id].live /\ services'[id].cust = own}
    BY <1>1 DEF ServicesOf, own
  <2>4. {id \in DOMAIN services' :
           services'[id].live /\ services'[id].cust = own} = ServicesOf(own)
    BY <2>2 DEF ServicesOf
  <2>5. \A id \in ServicesOf(own) : params'[id] = params[id]
    BY <2>2 DEF ServicesOf
  <2>6. Prepared(q)
    BY DEF OrderlyInv
  <2>7. form[q].key # 0 => /\ form[q].key \in DOMAIN services
                           /\ services[form[q].key].cust = own
    BY DEF OrderlyInv, SetupInv, KeysOwned, own
  <2>8. form[q].key # 0 =>
          services'[form[q].key].live = services[form[q].key].live
    BY <2>2, <2>7
  <2>9. (ServicesOf(form[q].card.holder))' = ServicesOf(form[q].card.holder)
    BY <1>1, <2>3, <2>4 DEF own, ServicesOf
  <2> QED
    BY <1>1, <2>5, <2>6, <2>8, <2>9 DEF Prepared, own
<1> QED
  BY <1>2, <1>3

(***************************************************************************)
(* So it is enough to look at the form that takes the step.                *)
(***************************************************************************)
LEMMA OrderlyKeeps ==
  ASSUME OrderlyInv, SetupInv', Orderly',
         NEW r \in Requests, form[r].at # "none",
         OnlyRowsOf(form[r].card.holder, r),
         Prepared(r)', NoCardWithoutService'
  PROVE  OrderlyInv'
<1>1. ASSUME NEW q \in Requests, q # r
      PROVE  Prepared(q)'
  <2>1. form[q].at # "none" => form[q].card.holder # form[r].card.holder
    BY <1>1 DEF OrderlyInv, Orderly
  <2> QED
    BY <1>1, <2>1, OthersStayPrepared
<1> QED
  BY <1>1 DEF OrderlyInv

-----------------------------------------------------------------------------
(* The steps of OrderlySetupSpec.                                          *)

\* What moving a form to its next stage leaves alone.
LEMMA Advanced ==
  ASSUME SetupTypeOK, NEW r \in Requests, NEW stage, Advance(r, stage)
  PROVE  /\ form'[r].at = stage
         /\ form'[r].card = form[r].card
         /\ form'[r].key = form[r].key
         /\ form'[r].old = form[r].old
         /\ form'[r].part = form[r].part
         /\ \A q \in Requests : q # r => form'[q] = form[q]
  BY DEF SetupTypeOK, Form, Advance

\* A step that changes no table touches the rows of nobody.
LEMMA TablesUnchanged ==
  ASSUME NEW r \in Requests, NEW c, UNCHANGED << services, params >>,
         \A q \in Requests : q # r => form'[q] = form[q]
  PROVE  OnlyRowsOf(c, r)
  BY DEF OnlyRowsOf

\* With the tables unchanged, deleted rows stay without parameters.
LEMMA NoCardUnchanged ==
  ASSUME OrderlyInv, UNCHANGED << services, params >>
  PROVE  NoCardWithoutService'
  BY DEF OrderlyInv, NoCardWithoutService

\* A form that takes its row, or none, finds it there.
LEMMA SubmitOrderly ==
  ASSUME OrderlyInv, SetupInv', Orderly', NEW r \in Requests,
         NEW card \in Card, NEW mode \in FormModes, Submit(r, card, mode)
  PROVE  OrderlyInv' /\ OnlyRowsOf(card.holder, r)
<1>1. PICK key \in IF ServicesOf(card.holder) = {} THEN {0}
                                            ELSE ServicesOf(card.holder) :
        form' = [form EXCEPT ![r] =
          [NoForm EXCEPT !.card = card, !.key = key,
             !.at = CASE mode = "i" -> "list"
                      [] mode = "u" -> "delete"
                      [] mode = "unchanged" -> "done"
                      [] OTHER -> IF key = 0 THEN "refused" ELSE "done"]]
  BY DEF Submit
<1> DEFINE stage == CASE mode = "i" -> "list"
                      [] mode = "u" -> "delete"
                      [] mode = "unchanged" -> "done"
                      [] OTHER -> IF key = 0 THEN "refused" ELSE "done"
           new   == [NoForm EXCEPT !.card = card, !.key = key, !.at = stage]
<1>2. stage \in {"list", "delete", "done", "refused"}
  OBVIOUS
<1>3. form' = [form EXCEPT ![r] = new]
  BY <1>1
<1>4. key # 0 => services[key].live
  BY DEF ServicesOf
<1> HIDE DEF stage
<1>5. new.at = stage /\ new.card = card /\ new.key = key
  BY NoFormType DEF Form
<1> HIDE DEF new
<1>6. form \in [Requests -> Form]
  BY DEF OrderlyInv, SetupInv, SetupTypeOK
<1>7. form'[r] = new /\ \A q \in Requests : q # r => form'[q] = form[q]
  BY <1>3, <1>6
<1>8. services' = services /\ params' = params
  BY DEF Submit
<1>9. Prepared(r)'
  BY <1>2, <1>4, <1>5, <1>7, <1>8 DEF Prepared
<1>10. OnlyRowsOf(card.holder, r)
  BY <1>7, <1>8, TablesUnchanged
<1>11. ASSUME NEW q \in Requests, q # r
       PROVE  Prepared(q)'
  <2>1. form[q].at # "none" => form[q].card.holder # card.holder
    BY <1>2, <1>5, <1>7, <1>11 DEF Orderly
  <2> QED
    BY <1>10, <1>11, <2>1, OthersStayPrepared
<1>12. NoCardWithoutService'
  BY <1>8, NoCardUnchanged
<1> QED
  BY <1>9, <1>10, <1>11, <1>12 DEF OrderlyInv

\* The rows listed are all the rows of the customer.
LEMMA ListOrderly ==
  ASSUME OrderlyInv, SetupInv', Orderly', NEW r \in Requests, ListServices(r)
  PROVE  OrderlyInv' /\ OnlyRowsOf(form[r].card.holder, r)
<1> DEFINE old   == ServicesOf(form[r].card.holder)
           stage == IF old = {} THEN "insert" ELSE "clear"
<1>1. /\ form' = [form EXCEPT ![r].old = old, ![r].at = stage]
      /\ services' = services
      /\ params' = params
      /\ form[r].at = "list"
  BY DEF ListServices
<1>2. stage \in {"insert", "clear"}
  OBVIOUS
<1>3. (ServicesOf(form[r].card.holder))' = ServicesOf((form[r].card.holder)')
  BY <1>1 DEF ServicesOf
<1> HIDE DEF stage
<1>4. form \in [Requests -> Form]
  BY DEF OrderlyInv, SetupInv, SetupTypeOK
<1>5. /\ form'[r].at = stage
      /\ form'[r].card = form[r].card
      /\ form'[r].old = old
      /\ \A q \in Requests : q # r => form'[q] = form[q]
  BY <1>1, <1>4 DEF Form
<1>6. Prepared(r)'
  BY <1>2, <1>3, <1>5 DEF Prepared
<1>7. OnlyRowsOf(form[r].card.holder, r)
  BY <1>1, <1>5, TablesUnchanged
<1>8. NoCardWithoutService'
  BY <1>1, NoCardUnchanged
<1> QED
  BY <1>1, <1>6, <1>7, <1>8, OrderlyKeeps

\* Having cleared the listed rows, no row of the customer has parameters.
LEMMA ClearOrderly ==
  ASSUME OrderlyInv, SetupInv', Orderly', NEW r \in Requests, ClearListed(r)
  PROVE  OrderlyInv' /\ OnlyRowsOf(form[r].card.holder, r)
<1> DEFINE c == form[r].card.holder
<1>1. /\ form[r].at = "clear"
      /\ params' = [id \in ServiceIds |->
                      IF id \in form[r].old THEN {} ELSE params[id]]
      /\ Advance(r, "drop")
      /\ services' = services
  BY DEF ClearListed
<1>2. form[r].old = ServicesOf(c)
  BY <1>1 DEF OrderlyInv, Prepared
<1>3. DOMAIN services \subseteq ServiceIds
  BY RowsNumbered DEF OrderlyInv, SetupInv
<1>4. /\ form'[r].at = "drop"
      /\ form'[r].card = form[r].card
      /\ \A q \in Requests : q # r => form'[q] = form[q]
  BY <1>1, Advanced DEF OrderlyInv, SetupInv
<1>5. ServicesOf(c) \subseteq DOMAIN services
      /\ \A id \in ServicesOf(c) : services[id].cust = c
  BY DEF ServicesOf
<1>6. \A id \in DOMAIN services :
        params'[id] = IF id \in ServicesOf(c) THEN {} ELSE params[id]
  BY <1>1, <1>2, <1>3
<1> HIDE DEF c
<1>7. OnlyRowsOf(c, r)
  BY <1>1, <1>4, <1>5, <1>6 DEF OnlyRowsOf
<1>8. Prepared(r)'
  <2>1. (ServicesOf(form[r].card.holder))' = ServicesOf(c)
    BY <1>1, <1>4 DEF ServicesOf, c
  <2> QED
    BY <1>4, <1>5, <1>6, <2>1 DEF Prepared
<1>9. NoCardWithoutService'
  BY <1>1, <1>6 DEF OrderlyInv, NoCardWithoutService
<1> QED
  BY <1>1, <1>7, <1>8, <1>9, OrderlyKeeps DEF c

\* The rows that are deleted have no parameters any more.
LEMMA DropOrderly ==
  ASSUME OrderlyInv, SetupInv', Orderly', NEW r \in Requests, DropServices(r)
  PROVE  OrderlyInv' /\ OnlyRowsOf(form[r].card.holder, r)
<1> DEFINE c == form[r].card.holder
<1>1. /\ form[r].at = "drop"
      /\ Advance(r, "insert")
      /\ params' = params
  BY DEF DropServices
<1>2. /\ DOMAIN services' = DOMAIN services
      /\ \A id \in DOMAIN services :
           /\ services'[id].cust = services[id].cust
           /\ services'[id].live = (services[id].live /\ services[id].cust # c)
  BY DropRows DEF OrderlyInv, SetupInv
<1>3. \A id \in DOMAIN services :
        (services[id].live /\ services[id].cust = c) => params[id] = {}
  BY <1>1 DEF OrderlyInv, Prepared, ServicesOf
<1>4. /\ form'[r].at = "insert"
      /\ \A q \in Requests : q # r => form'[q] = form[q]
  BY <1>1, Advanced DEF OrderlyInv, SetupInv
<1> HIDE DEF c
<1>5. \A id \in DOMAIN services : services[id].live \in BOOLEAN
  BY RowsNumbered DEF OrderlyInv, SetupInv, Row
<1>6. OnlyRowsOf(c, r)
  BY <1>1, <1>2, <1>4, <1>5 DEF OnlyRowsOf
<1>7. Prepared(r)'
  BY <1>4 DEF Prepared
<1>8. NoCardWithoutService'
  BY <1>1, <1>2, <1>3 DEF OrderlyInv, NoCardWithoutService
<1> QED
  BY <1>1, <1>6, <1>7, <1>8, OrderlyKeeps DEF c

\* A row that is inserted is live.
LEMMA InsertOrderly ==
  ASSUME OrderlyInv, SetupInv', Orderly', NEW r \in Requests, InsertService(r)
  PROVE  OrderlyInv' /\ OnlyRowsOf(form[r].card.holder, r)
<1>1. form[r].at = "insert" /\ params' = params
  BY DEF InsertService
<1>2. SetupTypeOK
  BY DEF OrderlyInv, SetupInv
<1>3. CASE Advance(r, "refused") /\ UNCHANGED services
  <2>1. /\ form'[r].at = "refused"
        /\ \A q \in Requests : q # r => form'[q] = form[q]
    BY <1>2, <1>3, Advanced
  <2>2. Prepared(r)'
    BY <2>1 DEF Prepared
  <2>3. OnlyRowsOf(form[r].card.holder, r)
    BY <1>1, <1>3, <2>1, TablesUnchanged
  <2>4. NoCardWithoutService'
    BY <1>1, <1>3, NoCardUnchanged
  <2> QED
    BY <1>1, <2>2, <2>3, <2>4, OrderlyKeeps
<1>4. CASE /\ Len(services) < MaxServices
           /\ services' = Append(services,
                [cust |-> form[r].card.holder, live |-> TRUE])
           /\ form' = [form EXCEPT ![r].key = Len(services'),
                                   ![r].at = "reread"]
  <2> DEFINE id0 == Len(services')
  <2>1. /\ Len(services) < MaxServices
        /\ services' = Append(services,
             [cust |-> form[r].card.holder, live |-> TRUE])
        /\ form' = [form EXCEPT ![r].key = id0, ![r].at = "reread"]
    BY <1>4
  <2>2. /\ DOMAIN services' = DOMAIN services \cup {id0}
        /\ services'[id0] = [cust |-> form[r].card.holder, live |-> TRUE]
        /\ \A id \in DOMAIN services : services'[id] = services[id]
    BY <1>2, <2>1, InsertRow
  <2> HIDE DEF id0
  <2>3. services'[id0].live /\ services'[id0].cust = form[r].card.holder
    BY <2>2
  <2>4. /\ form'[r].at = "reread"
        /\ form'[r].key = id0
        /\ \A q \in Requests : q # r => form'[q] = form[q]
    BY <1>2, <2>1 DEF SetupTypeOK, Form
  <2>5. Prepared(r)'
    BY <2>3, <2>4 DEF Prepared
  <2>6. OnlyRowsOf(form[r].card.holder, r)
    BY <1>1, <2>2, <2>3, <2>4 DEF OnlyRowsOf
  <2>7. NoCardWithoutService'
    BY <1>1, <2>2, <2>3 DEF OrderlyInv, NoCardWithoutService
  <2> QED
    BY <1>1, <2>5, <2>6, <2>7, OrderlyKeeps
<1> QED
  BY <1>3, <1>4 DEF InsertService

\* The row that is read back is the one that was inserted.
LEMMA ReadBackOrderly ==
  ASSUME OrderlyInv, SetupInv', Orderly', NEW r \in Requests, ReadBack(r)
  PROVE  OrderlyInv' /\ OnlyRowsOf(form[r].card.holder, r)
<1> DEFINE stage == IF services[form[r].key].live THEN "delete" ELSE "refused"
<1>1. /\ form[r].at = "reread"
      /\ Advance(r, stage)
      /\ services' = services
      /\ params' = params
  BY DEF ReadBack
<1>2. \/ stage = "refused"
      \/ stage = "delete" /\ services[form[r].key].live
  OBVIOUS
<1> HIDE DEF stage
<1>3. /\ form'[r].at = stage
      /\ form'[r].key = form[r].key
      /\ \A q \in Requests : q # r => form'[q] = form[q]
  BY <1>1, Advanced DEF OrderlyInv, SetupInv
<1>4. Prepared(r)'
  BY <1>1, <1>2, <1>3 DEF Prepared
<1>5. OnlyRowsOf(form[r].card.holder, r)
  BY <1>1, <1>3, TablesUnchanged
<1>6. NoCardWithoutService'
  BY <1>1, NoCardUnchanged
<1> QED
  BY <1>1, <1>4, <1>5, <1>6, OrderlyKeeps

\* The key of a form that writes parameters: a row of its own, or none.
LEMMA KeyIsOwnRow ==
  ASSUME OrderlyInv, NEW r \in Requests
  PROVE  /\ form[r].key \in DOMAIN services =>
              services[form[r].key].cust = form[r].card.holder
         /\ DOMAIN services \subseteq ServiceIds
<1>1. /\ DOMAIN services = 1 .. Len(services)
      /\ Len(services) \in Nat
      /\ DOMAIN services \subseteq ServiceIds
  BY RowsNumbered DEF OrderlyInv, SetupInv
<1>2. 0 \notin DOMAIN services
  BY <1>1
<1> QED
  BY <1>1, <1>2 DEF OrderlyInv, SetupInv, KeysOwned

\* Deleting the old parameters of the row leaves the row as it is.
LEMMA DeleteOrderly ==
  ASSUME OrderlyInv, SetupInv', Orderly', NEW r \in Requests,
         DeleteOldParameters(r)
  PROVE  OrderlyInv' /\ OnlyRowsOf(form[r].card.holder, r)
<1>1. /\ form[r].at = "delete"
      /\ params' = [params EXCEPT ![form[r].key] = {}]
      /\ Advance(r, "create")
      /\ services' = services
  BY DEF DeleteOldParameters
<1>2. params \in [ServiceIds -> SUBSET Datum]
  BY DEF OrderlyInv, SetupInv, SetupTypeOK
<1>3. \A id \in DOMAIN services :
        params'[id] = IF id = form[r].key THEN {} ELSE params[id]
  BY <1>1, <1>2, KeyIsOwnRow
<1>4. /\ form'[r].at = "create"
      /\ form'[r].key = form[r].key
      /\ \A q \in Requests : q # r => form'[q] = form[q]
  BY <1>1, Advanced DEF OrderlyInv, SetupInv
<1>5. Prepared(r)'
  BY <1>1, <1>4 DEF OrderlyInv, Prepared
<1>6. OnlyRowsOf(form[r].card.holder, r)
  BY <1>1, <1>3, <1>4, KeyIsOwnRow DEF OnlyRowsOf
<1>7. NoCardWithoutService'
  BY <1>1, <1>3 DEF OrderlyInv, NoCardWithoutService
<1> QED
  BY <1>1, <1>5, <1>6, <1>7, OrderlyKeeps

\* A parameter is stored for a row that is live, or for the row 0.
LEMMA CreateOrderly ==
  ASSUME OrderlyInv, SetupInv', Orderly', NEW r \in Requests,
         CreateParameter(r)
  PROVE  OrderlyInv' /\ OnlyRowsOf(form[r].card.holder, r)
<1> DEFINE f     == form[r]
           stage == IF f.part = Parts THEN "done" ELSE "create"
           datum == [card |-> f.card, part |-> f.part]
<1>1. /\ f.at = "create"
      /\ form' = [form EXCEPT ![r].part = f.part + 1, ![r].at = stage]
      /\ services' = services
      /\ \/ params' = [params EXCEPT ![f.key] = @ \cup {datum}]
         \/ params' = params
  BY DEF CreateParameter
<1>2. stage \in {"create", "done"}
  OBVIOUS
<1> HIDE DEF stage, datum
<1>3. form \in [Requests -> Form] /\ params \in [ServiceIds -> SUBSET Datum]
  BY DEF OrderlyInv, SetupInv, SetupTypeOK
<1>4. /\ form'[r].at = stage
      /\ form'[r].key = f.key
      /\ \A q \in Requests : q # r => form'[q] = form[q]
  BY <1>1, <1>3 DEF Form
<1>5. f.key # 0 => services[f.key].live
  BY <1>1 DEF OrderlyInv, Prepared
<1>6. /\ f.key \in DOMAIN services => services[f.key].cust = f.card.holder
      /\ DOMAIN services \subseteq ServiceIds
      /\ 0 \notin DOMAIN services
  <2>1. DOMAIN services = 1 .. Len(services) /\ Len(services) \in Nat
    BY RowsNumbered DEF OrderlyInv, SetupInv
  <2>2. 0 \notin DOMAIN services
    BY <2>1
  <2> QED
    BY <2>2, KeyIsOwnRow
<1>7. \A id \in DOMAIN services : id # f.key => params'[id] = params[id]
  BY <1>1, <1>3, <1>6
<1>8. Prepared(r)'
  BY <1>1, <1>2, <1>4, <1>5 DEF Prepared
<1> HIDE DEF f
<1>9. OnlyRowsOf(f.card.holder, r)
  BY <1>1, <1>4, <1>6, <1>7 DEF OnlyRowsOf
<1>10. NoCardWithoutService'
  BY <1>1, <1>5, <1>6, <1>7 DEF OrderlyInv, NoCardWithoutService
<1> QED
  BY <1>1, <1>8, <1>9, <1>10, OrderlyKeeps DEF f

\* A form that is forgotten has prepared nothing.
LEMMA ForgetOrderly ==
  ASSUME OrderlyInv, SetupInv', Orderly', NEW r \in Requests,
         form[r].at # "none", ForgetForm(r)
  PROVE  OrderlyInv' /\ OnlyRowsOf(form[r].card.holder, r)
<1>1. /\ form' = [form EXCEPT ![r] = NoForm]
      /\ services' = services
      /\ params' = params
  BY DEF ForgetForm
<1>2. form'[r] = NoForm /\ \A q \in Requests : q # r => form'[q] = form[q]
  BY <1>1 DEF OrderlyInv, SetupInv, SetupTypeOK
<1>3. Prepared(r)'
  BY <1>2, NoFormType DEF Prepared
<1>4. OnlyRowsOf(form[r].card.holder, r)
  BY <1>1, <1>2, TablesUnchanged
<1>5. NoCardWithoutService'
  BY <1>1, NoCardUnchanged
<1> QED
  BY <1>3, <1>4, <1>5, OrderlyKeeps

\* The invariant holds of empty tables and idle requests.
LEMMA OrderlyInit == SetupInit => OrderlyInv
<1> SUFFICES ASSUME SetupInit PROVE OrderlyInv
  OBVIOUS
<1>1. \A r \in Requests : form[r].at = "none"
  BY NoFormType DEF SetupInit
<1>2. Orderly /\ \A r \in Requests : Prepared(r)
  BY <1>1 DEF Orderly, Prepared
<1>3. services = << >>
  BY DEF SetupInit
<1>4. NoCardWithoutService
  BY <1>3 DEF NoCardWithoutService
<1> QED
  BY <1>2, <1>4, SetupInvInit DEF OrderlyInv

\* Every step keeps the invariant, if customers wait for their answers.
LEMMA OrderlyStep ==
  OrderlyInv /\ [SetupNext /\ Orderly']_setupVars => OrderlyInv'
<1> SUFFICES ASSUME OrderlyInv, [SetupNext /\ Orderly']_setupVars
             PROVE  OrderlyInv'
  OBVIOUS
<1>1. SetupInv'
  BY SetupInvStep DEF OrderlyInv
<1>2. CASE UNCHANGED setupVars
  <2>1. services' = services /\ params' = params /\ form' = form
    BY <1>2 DEF setupVars
  <2>2. \A r \in Requests : Prepared(r)'
    BY <2>1 DEF OrderlyInv, Prepared, ServicesOf
  <2>3. Orderly'
    BY <2>1 DEF OrderlyInv, Orderly
  <2>4. NoCardWithoutService'
    BY <2>1, NoCardUnchanged
  <2> QED
    BY <1>1, <2>2, <2>3, <2>4 DEF OrderlyInv
<1>3. ASSUME Orderly', NEW r \in Requests, NEW card \in Card,
             NEW mode \in FormModes, Submit(r, card, mode)
      PROVE  OrderlyInv'
  BY <1>1, <1>3, SubmitOrderly
<1>4. ASSUME Orderly', NEW r \in Requests, FillIn(r)
      PROVE  OrderlyInv'
  BY <1>1, <1>4, ListOrderly, ClearOrderly, DropOrderly, InsertOrderly,
     ReadBackOrderly, DeleteOrderly, CreateOrderly DEF FillIn
<1>5. ASSUME Orderly', NEW r \in Requests, ShowForm(r) \/ AbandonForm(r)
      PROVE  OrderlyInv'
  <2>1. form[r].at # "none" /\ ForgetForm(r)
    BY <1>5 DEF ShowForm, AbandonForm
  <2> QED
    BY <1>1, <1>5, <2>1, ForgetOrderly
<1> QED
  BY <1>2, <1>3, <1>4, <1>5 DEF SetupNext

(***************************************************************************)
(* If a customer's own submissions do not overlap, a deleted row has no    *)
(* parameters left, however submissions of other customers overlap with    *)
(* them, whatever fails and wherever a process dies.                       *)
(***************************************************************************)
THEOREM NoCardOutlivesItsRow == OrderlySetupSpec => []NoCardWithoutService
<1>1. OrderlyInv => NoCardWithoutService
  BY DEF OrderlyInv
<1> QED
  BY <1>1, OrderlyInit, OrderlyStep, PTL DEF OrderlySetupSpec
-----------------------------------------------------------------------------
(* The form that is filled in: no insert of a parameter fails.             *)

\* A customer has one row at most.
OneRow(table, c) ==
  \A id, jd \in DOMAIN table :
    (/\ table[id].live /\ table[id].cust = c
     /\ table[jd].live /\ table[jd].cust = c) => id = jd

\* What the loop over the parameters has stored before parameter n.
FirstParts(card, n) == {[card |-> card, part |-> k] : k \in 1 .. n - 1}

\* The loop over the parameters has begun.
Storing(f) == f.at = "create" \/ (f.at = "done" /\ f.part > Parts)

(***************************************************************************)
(* A form inserts a row when the customer has none, starts with the first  *)
(* parameter and ends with its row in place, and what it has stored of the *)
(* card by then are the parameters it has gone over, and nothing else.     *)
(***************************************************************************)
Stored(r) ==
  LET f == form[r]
  IN  /\ f.at \notin {"create", "done"} => f.part = 1
      /\ f.at = "insert" => ServicesOf(f.card.holder) = {}
      /\ (f.at = "done" /\ f.key # 0) => services[f.key].live
      /\ (f.at = "done" /\ f.part > Parts) => f.part = Parts + 1
      /\ (Storing(f) /\ f.key # 0) => params[f.key] = FirstParts(f.card, f.part)

StoredInv ==
  /\ OrderlyInv
  /\ \A c \in Customers : OneRow(services, c)
  /\ \A r \in Requests : Stored(r)

(***************************************************************************)
(* A step for one customer takes nothing from what a form of another has   *)
(* stored.                                                                 *)
(***************************************************************************)
LEMMA OthersStayStored ==
  ASSUME StoredInv, NEW r \in Requests, NEW c, OnlyRowsOf(c, r),
         NEW q \in Requests, q # r,
         form[q].at # "none" => form[q].card.holder # c
  PROVE  Stored(q)'
<1>1. form'[q] = form[q]
  BY DEF OnlyRowsOf
<1>2. CASE form[q].at = "none"
  <2>1. form[q].part = 1
    BY <1>2 DEF StoredInv, Stored
  <2> QED
    BY <1>1, <1>2, <2>1 DEF Stored, Storing
<1>3. CASE form[q].at # "none"
  <2> DEFINE own == form[q].card.holder
  <2>1. own # c
    BY <1>3
  <2>2. /\ DOMAIN services \subseteq DOMAIN services'
        /\ \A id \in DOMAIN services' :
             services'[id].cust = own =>
               /\ id \in DOMAIN services
               /\ services[id].cust = own
        /\ \A id \in DOMAIN services :
             services[id].cust = own =>
               /\ services'[id].cust = own
               /\ services'[id].live = services[id].live
               /\ params'[id] = params[id]
    BY <2>1 DEF OnlyRowsOf
  <2> HIDE DEF own
  <2>3. {id \in DOMAIN services' :
           services'[id].live /\ services'[id].cust = own} = ServicesOf(own)
    BY <2>2 DEF ServicesOf
  <2>4. (ServicesOf(form[q].card.holder))' = ServicesOf(form[q].card.holder)
    BY <1>1, <2>3 DEF own, ServicesOf
  <2>5. form[q].key # 0 => /\ form[q].key \in DOMAIN services
                           /\ services[form[q].key].cust = own
    BY DEF StoredInv, OrderlyInv, SetupInv, KeysOwned, own
  <2>6. form[q].key # 0 =>
          /\ services'[form[q].key].live = services[form[q].key].live
          /\ params'[form[q].key] = params[form[q].key]
    BY <2>2, <2>5
  <2>7. Stored(q)
    BY DEF StoredInv
  <2>8. Storing(form[q])' <=> Storing(form[q])
    BY <1>1 DEF Storing
  <2>9. CASE form[q].key = 0
    BY <1>1, <2>4, <2>7, <2>9 DEF Stored
  <2>10. CASE form[q].key # 0
    <3>1. /\ services'[form[q].key].live = services[form[q].key].live
          /\ params'[form[q].key] = params[form[q].key]
      BY <2>6, <2>10
    <3> QED
      BY <1>1, <2>4, <2>7, <2>8, <2>10, <3>1 DEF Stored
  <2> QED
    BY <2>9, <2>10
<1> QED
  BY <1>2, <1>3

\* Nor does it give another customer a second row.
LEMMA OthersKeepOneRow ==
  ASSUME StoredInv, NEW r, NEW c, OnlyRowsOf(c, r), NEW d \in Customers, d # c
  PROVE  OneRow(services', d)
<1>1. OneRow(services, d)
  BY DEF StoredInv
<1>2. \A id \in DOMAIN services' :
        services'[id].cust = d =>
          /\ id \in DOMAIN services
          /\ services[id].cust = d
          /\ services'[id].live = services[id].live
  BY DEF OnlyRowsOf
<1> QED
  BY <1>1, <1>2 DEF OneRow

(***************************************************************************)
(* So here, too, it is enough to look at the form that takes the step and  *)
(* at the rows of its customer.                                            *)
(***************************************************************************)
LEMMA StoredKeeps ==
  ASSUME StoredInv, OrderlyInv',
         NEW r \in Requests, form[r].at # "none",
         OnlyRowsOf(form[r].card.holder, r),
         OneRow(services', form[r].card.holder), Stored(r)'
  PROVE  StoredInv'
<1>1. ASSUME NEW q \in Requests, q # r
      PROVE  Stored(q)'
  <2>1. form[q].at # "none" => form[q].card.holder # form[r].card.holder
    BY <1>1 DEF StoredInv, OrderlyInv, Orderly
  <2> QED
    BY <1>1, <2>1, OthersStayStored
<1>2. ASSUME NEW d \in Customers
      PROVE  OneRow(services', d)
  BY OthersKeepOneRow
<1> QED
  BY <1>1, <1>2 DEF StoredInv

\* Rows that stay, or are no longer live, are still one at most.
LEMMA NoNewRow ==
  ASSUME StoredInv, NEW r \in Requests,
         DOMAIN services' = DOMAIN services,
         \A id \in DOMAIN services :
           /\ services'[id].cust = services[id].cust
           /\ services'[id].live => services[id].live
  PROVE  OneRow(services', form[r].card.holder)
<1>1. form[r].card.holder \in Customers
  BY FormFields DEF StoredInv, OrderlyInv, SetupInv
<1> QED
  BY <1>1 DEF StoredInv, OneRow

-----------------------------------------------------------------------------
(* The steps, once more.                                                   *)

\* A new form has stored nothing.
LEMMA SubmitStores ==
  ASSUME StoredInv, OrderlyInv', NEW r \in Requests, NEW card \in Card,
         NEW mode \in FormModes, Submit(r, card, mode),
         OnlyRowsOf(card.holder, r)
  PROVE  StoredInv'
<1>1. PICK key \in IF ServicesOf(card.holder) = {} THEN {0}
                                            ELSE ServicesOf(card.holder) :
        form' = [form EXCEPT ![r] =
          [NoForm EXCEPT !.card = card, !.key = key,
             !.at = CASE mode = "i" -> "list"
                      [] mode = "u" -> "delete"
                      [] mode = "unchanged" -> "done"
                      [] OTHER -> IF key = 0 THEN "refused" ELSE "done"]]
  BY DEF Submit
<1> DEFINE stage == CASE mode = "i" -> "list"
                      [] mode = "u" -> "delete"
                      [] mode = "unchanged" -> "done"
                      [] OTHER -> IF key = 0 THEN "refused" ELSE "done"
           new   == [NoForm EXCEPT !.card = card, !.key = key, !.at = stage]
<1>2. stage \in {"list", "delete", "done", "refused"}
  OBVIOUS
<1>3. form' = [form EXCEPT ![r] = new]
  BY <1>1
<1>4. key # 0 => services[key].live
  BY DEF ServicesOf
<1> HIDE DEF stage
<1>5. new.at = stage /\ new.card = card /\ new.key = key /\ new.part = 1
  BY NoFormType DEF Form
<1> HIDE DEF new
<1>6. form \in [Requests -> Form]
  BY DEF StoredInv, OrderlyInv, SetupInv, SetupTypeOK
<1>7. form'[r] = new /\ \A q \in Requests : q # r => form'[q] = form[q]
  BY <1>3, <1>6
<1>8. services' = services /\ params' = params
  BY DEF Submit
<1>9. Stored(r)'
  <2>1. ~(1 > Parts)
    BY PaymentAssumption
  <2> QED
    BY <1>2, <1>4, <1>5, <1>7, <1>8, <2>1 DEF Stored, Storing
<1>10. ASSUME NEW q \in Requests, q # r
       PROVE  Stored(q)'
  <2>1. form[q].at # "none" => form[q].card.holder # card.holder
    BY <1>2, <1>5, <1>7, <1>10 DEF OrderlyInv, Orderly
  <2> QED
    BY <1>10, <2>1, OthersStayStored
<1>11. \A c \in Customers : OneRow(services', c)
  BY <1>8 DEF StoredInv
<1> QED
  BY <1>9, <1>10, <1>11 DEF StoredInv

\* A customer without rows gets one inserted.
LEMMA ListStores ==
  ASSUME StoredInv, OrderlyInv', NEW r \in Requests, ListServices(r),
         OnlyRowsOf(form[r].card.holder, r)
  PROVE  StoredInv'
<1> DEFINE old   == ServicesOf(form[r].card.holder)
           stage == IF old = {} THEN "insert" ELSE "clear"
<1>1. /\ form' = [form EXCEPT ![r].old = old, ![r].at = stage]
      /\ services' = services
      /\ form[r].at = "list"
  BY DEF ListServices
<1>2. (stage = "insert" /\ old = {}) \/ stage = "clear"
  OBVIOUS
<1> HIDE DEF stage
<1>3. form \in [Requests -> Form]
  BY DEF StoredInv, OrderlyInv, SetupInv, SetupTypeOK
<1>4. /\ form'[r].at = stage
      /\ form'[r].card = form[r].card
      /\ form'[r].part = 1
  BY <1>1, <1>3 DEF StoredInv, Stored, Form
<1>5. (ServicesOf(form[r].card.holder))' = old
  BY <1>1, <1>4 DEF ServicesOf
<1>6. Stored(r)'
  BY <1>2, <1>4, <1>5 DEF Stored, Storing
<1>7. OneRow(services', form[r].card.holder)
  BY <1>1, NoNewRow
<1> QED
  BY <1>1, <1>6, <1>7, StoredKeeps

\* The stages "drop" and "refused" say nothing of what is stored.
LEMMA ClearStores ==
  ASSUME StoredInv, OrderlyInv', NEW r \in Requests, ClearListed(r),
         OnlyRowsOf(form[r].card.holder, r)
  PROVE  StoredInv'
<1>1. form[r].at = "clear" /\ Advance(r, "drop") /\ services' = services
  BY DEF ClearListed
<1>2. form'[r].at = "drop" /\ form'[r].part = 1
  BY <1>1, Advanced DEF StoredInv, OrderlyInv, SetupInv, Stored
<1>3. Stored(r)'
  BY <1>2 DEF Stored, Storing
<1>4. OneRow(services', form[r].card.holder)
  BY <1>1, NoNewRow
<1> QED
  BY <1>1, <1>3, <1>4, StoredKeeps

\* With its rows deleted, a customer has none.
LEMMA DropStores ==
  ASSUME StoredInv, OrderlyInv', NEW r \in Requests, DropServices(r),
         OnlyRowsOf(form[r].card.holder, r)
  PROVE  StoredInv'
<1> DEFINE c == form[r].card.holder
<1>1. form[r].at = "drop" /\ Advance(r, "insert")
  BY DEF DropServices
<1>2. SetupTypeOK
  BY DEF StoredInv, OrderlyInv, SetupInv
<1>3. /\ DOMAIN services' = DOMAIN services
      /\ \A id \in DOMAIN services :
           /\ services'[id].cust = services[id].cust
           /\ services'[id].live = (services[id].live /\ services[id].cust # c)
  BY <1>2, DropRows
<1>4. /\ form'[r].at = "insert"
      /\ form'[r].card = form[r].card
      /\ form'[r].part = 1
  BY <1>1, <1>2, Advanced DEF StoredInv, Stored
<1>5. \A id \in DOMAIN services : services[id].live \in BOOLEAN
  BY <1>2, RowsNumbered DEF Row
<1>6. OneRow(services', c)
  BY <1>3, <1>5, NoNewRow
<1>7. (ServicesOf(form[r].card.holder))' = {}
  <2> HIDE DEF c
  <2>1. {id \in DOMAIN services' :
           services'[id].live /\ services'[id].cust = c} = {}
    BY <1>3
  <2> QED
    BY <1>4, <2>1 DEF ServicesOf, c
<1>8. Stored(r)'
  BY <1>4, <1>7 DEF Stored, Storing
<1> QED
  BY <1>1, <1>6, <1>8, StoredKeeps

\* The row that is inserted is the only one of the customer.
LEMMA InsertStores ==
  ASSUME StoredInv, OrderlyInv', NEW r \in Requests, InsertService(r),
         OnlyRowsOf(form[r].card.holder, r)
  PROVE  StoredInv'
<1>1. form[r].at = "insert" /\ params' = params
  BY DEF InsertService
<1>2. SetupTypeOK
  BY DEF StoredInv, OrderlyInv, SetupInv
<1>3. CASE Advance(r, "refused") /\ UNCHANGED services
  <2>1. form'[r].at = "refused" /\ form'[r].part = 1
    BY <1>1, <1>2, <1>3, Advanced DEF StoredInv, Stored
  <2>2. Stored(r)'
    BY <2>1 DEF Stored, Storing
  <2>3. OneRow(services', form[r].card.holder)
    BY <1>3, NoNewRow
  <2> QED
    BY <1>1, <2>2, <2>3, StoredKeeps
<1>4. CASE /\ Len(services) < MaxServices
           /\ services' = Append(services,
                [cust |-> form[r].card.holder, live |-> TRUE])
           /\ form' = [form EXCEPT ![r].key = Len(services'),
                                   ![r].at = "reread"]
  <2>1. /\ Len(services) < MaxServices
        /\ services' = Append(services,
             [cust |-> form[r].card.holder, live |-> TRUE])
    BY <1>4
  <2>2. /\ DOMAIN services' = DOMAIN services \cup {Len(services')}
        /\ \A id \in DOMAIN services : services'[id] = services[id]
    BY <1>2, <2>1, InsertRow
  <2>3. form'[r].at = "reread" /\ form'[r].part = 1
    BY <1>1, <1>2, <1>4 DEF StoredInv, Stored, SetupTypeOK, Form
  <2>4. Stored(r)'
    BY <2>3 DEF Stored, Storing
  <2>5. ServicesOf(form[r].card.holder) = {}
    BY <1>1 DEF StoredInv, Stored
  <2>6. \A id \in DOMAIN services' :
          (services'[id].live /\ services'[id].cust = form[r].card.holder) =>
            id = Len(services')
    BY <2>2, <2>5 DEF ServicesOf
  <2>7. OneRow(services', form[r].card.holder)
    BY <2>6 DEF OneRow
  <2> QED
    BY <1>1, <2>4, <2>7, StoredKeeps
<1> QED
  BY <1>3, <1>4 DEF InsertService

\* Having read the row back, the form has stored nothing yet.
LEMMA ReadBackStores ==
  ASSUME StoredInv, OrderlyInv', NEW r \in Requests, ReadBack(r),
         OnlyRowsOf(form[r].card.holder, r)
  PROVE  StoredInv'
<1> DEFINE stage == IF services[form[r].key].live THEN "delete" ELSE "refused"
<1>1. /\ form[r].at = "reread"
      /\ Advance(r, stage)
      /\ services' = services
  BY DEF ReadBack
<1>2. stage \in {"refused", "delete"}
  OBVIOUS
<1> HIDE DEF stage
<1>3. form'[r].at = stage /\ form'[r].part = 1
  BY <1>1, Advanced DEF StoredInv, OrderlyInv, SetupInv, Stored
<1>4. Stored(r)'
  BY <1>2, <1>3 DEF Stored, Storing
<1>5. OneRow(services', form[r].card.holder)
  BY <1>1, NoNewRow
<1> QED
  BY <1>1, <1>4, <1>5, StoredKeeps

\* The loop begins with the first parameter and with none stored.
LEMMA DeleteStores ==
  ASSUME StoredInv, OrderlyInv', NEW r \in Requests, DeleteOldParameters(r),
         OnlyRowsOf(form[r].card.holder, r)
  PROVE  StoredInv'
<1>1. /\ form[r].at = "delete"
      /\ params' = [params EXCEPT ![form[r].key] = {}]
      /\ form' = [form EXCEPT ![r].at = "create"]
      /\ services' = services
  BY DEF DeleteOldParameters, Advance
<1>2. /\ params \in [ServiceIds -> SUBSET Datum]
      /\ form \in [Requests -> Form]
  BY DEF StoredInv, OrderlyInv, SetupInv, SetupTypeOK
<1>3. /\ form'[r].at = "create"
      /\ form'[r].key = form[r].key
      /\ form'[r].card = form[r].card
      /\ form'[r].part = 1
      /\ form[r].key \in ServiceIds
  BY <1>1, <1>2 DEF StoredInv, Stored, Form
<1>4. params'[form[r].key] = {}
  BY <1>1, <1>2, <1>3
<1>5. FirstParts(form[r].card, 1) = {}
  BY DEF FirstParts
<1>6. Stored(r)'
  BY <1>3, <1>4, <1>5 DEF Stored, Storing
<1>7. OneRow(services', form[r].card.holder)
  BY <1>1, NoNewRow
<1> QED
  BY <1>1, <1>6, <1>7, StoredKeeps

\* One more parameter of the card is stored.
LEMMA CreateStores ==
  ASSUME StoredInv, OrderlyInv', NEW r \in Requests, CreateParameter(r),
         OnlyRowsOf(form[r].card.holder, r), "parameter" \notin SetupFaults
  PROVE  StoredInv'
<1> DEFINE f     == form[r]
           stage == IF f.part = Parts THEN "done" ELSE "create"
           datum == [card |-> f.card, part |-> f.part]
<1>1. /\ f.at = "create"
      /\ form' = [form EXCEPT ![r].part = f.part + 1, ![r].at = stage]
      /\ services' = services
      /\ params' = [params EXCEPT ![f.key] = @ \cup {datum}]
  BY DEF CreateParameter
<1>2. /\ stage \in {"create", "done"}
      /\ stage = "done" => f.part = Parts
  OBVIOUS
<1> HIDE DEF stage
<1>3. form \in [Requests -> Form] /\ params \in [ServiceIds -> SUBSET Datum]
  BY DEF StoredInv, OrderlyInv, SetupInv, SetupTypeOK
<1>4. /\ form'[r].at = stage
      /\ form'[r].key = f.key
      /\ form'[r].card = f.card
      /\ form'[r].part = f.part + 1
      /\ f.key \in ServiceIds
  BY <1>1, <1>3 DEF Form
<1>5. f.part \in 1 .. Parts
  BY <1>1 DEF StoredInv, OrderlyInv, SetupInv, PartsCounted
<1>6. FirstParts(f.card, f.part + 1) = FirstParts(f.card, f.part) \cup {datum}
  BY <1>5, PaymentAssumption DEF FirstParts
<1>7. params'[f.key] = params[f.key] \cup {datum}
  BY <1>1, <1>3, <1>4
<1>8. f.key # 0 => /\ params[f.key] = FirstParts(f.card, f.part)
                   /\ services[f.key].live
  BY <1>1 DEF StoredInv, OrderlyInv, Stored, Storing, Prepared
<1> HIDE DEF f, datum
<1>9. Stored(r)'
  BY <1>1, <1>2, <1>4, <1>6, <1>7, <1>8 DEF Stored, Storing
<1>10. OneRow(services', form[r].card.holder)
  BY <1>1, NoNewRow
<1> QED
  BY <1>1, <1>9, <1>10, StoredKeeps DEF f

\* A form that is forgotten has stored nothing to answer for.
LEMMA ForgetStores ==
  ASSUME StoredInv, OrderlyInv', NEW r \in Requests,
         form[r].at # "none", ForgetForm(r), OnlyRowsOf(form[r].card.holder, r)
  PROVE  StoredInv'
<1>1. form' = [form EXCEPT ![r] = NoForm] /\ services' = services
  BY DEF ForgetForm
<1>2. form'[r] = NoForm
  BY <1>1 DEF StoredInv, OrderlyInv, SetupInv, SetupTypeOK
<1>3. Stored(r)'
  BY <1>2, NoFormType DEF Stored, Storing
<1>4. OneRow(services', form[r].card.holder)
  BY <1>1, NoNewRow
<1> QED
  BY <1>3, <1>4, StoredKeeps

\* The invariant holds of empty tables and idle requests.
LEMMA StoredInit == SetupInit => StoredInv
<1> SUFFICES ASSUME SetupInit PROVE StoredInv
  OBVIOUS
<1>1. \A r \in Requests : form[r].at = "none" /\ form[r].part = 1
  BY NoFormType DEF SetupInit
<1>2. \A r \in Requests : Stored(r)
  BY <1>1 DEF Stored, Storing
<1>3. services = << >>
  BY DEF SetupInit
<1>4. \A c \in Customers : OneRow(services, c)
  BY <1>3 DEF OneRow
<1> QED
  BY <1>2, <1>4, OrderlyInit DEF StoredInv

\* Every step keeps the invariant, if every parameter can be inserted.
LEMMA StoredStep ==
  ASSUME "parameter" \notin SetupFaults
  PROVE  StoredInv /\ [SetupNext /\ Orderly']_setupVars => StoredInv'
<1> SUFFICES ASSUME StoredInv, [SetupNext /\ Orderly']_setupVars
             PROVE  StoredInv'
  OBVIOUS
<1>1. OrderlyInv /\ OrderlyInv'
  BY OrderlyStep DEF StoredInv
<1>2. SetupInv'
  BY <1>1 DEF OrderlyInv
<1>3. CASE UNCHANGED setupVars
  <2>1. services' = services /\ params' = params /\ form' = form
    BY <1>3 DEF setupVars
  <2>2. \A r \in Requests : Stored(r)'
    BY <2>1 DEF StoredInv, Stored, Storing, ServicesOf
  <2> QED
    BY <1>1, <2>1, <2>2 DEF StoredInv
<1>4. ASSUME Orderly', NEW r \in Requests, NEW card \in Card,
             NEW mode \in FormModes, Submit(r, card, mode)
      PROVE  StoredInv'
  <2>1. OnlyRowsOf(card.holder, r)
    BY <1>1, <1>2, <1>4, SubmitOrderly
  <2> QED
    BY <1>1, <1>4, <2>1, SubmitStores
<1>5. ASSUME Orderly', NEW r \in Requests, FillIn(r)
      PROVE  StoredInv'
  <2>1. OnlyRowsOf(form[r].card.holder, r)
    BY <1>1, <1>2, <1>5, ListOrderly, ClearOrderly, DropOrderly, InsertOrderly,
       ReadBackOrderly, DeleteOrderly, CreateOrderly DEF FillIn
  <2> QED
    BY <1>1, <1>5, <2>1, ListStores, ClearStores, DropStores, InsertStores,
       ReadBackStores, DeleteStores, CreateStores DEF FillIn
<1>6. ASSUME Orderly', NEW r \in Requests, ShowForm(r) \/ AbandonForm(r)
      PROVE  StoredInv'
  <2>1. form[r].at # "none" /\ ForgetForm(r)
    BY <1>6 DEF ShowForm, AbandonForm
  <2>2. OnlyRowsOf(form[r].card.holder, r)
    BY <1>1, <1>2, <1>6, <2>1, ForgetOrderly
  <2> QED
    BY <1>1, <2>1, <2>2, ForgetStores
<1> QED
  BY <1>3, <1>4, <1>5, <1>6 DEF SetupNext

\* The only row of a customer is the row of the form, with the whole card.
LEMMA StoredCard == StoredInv => SubmittedCardIsStored
<1> SUFFICES ASSUME StoredInv, NEW r \in Requests, form[r].at = "done",
                    form[r].part > Parts, form[r].key # 0
             PROVE  /\ ServicesOf(form[r].card.holder) = {form[r].key}
                    /\ params[form[r].key] = AllParts(form[r].card)
  BY DEF SubmittedCardIsStored
<1>1. /\ services[form[r].key].live
      /\ form[r].part = Parts + 1
      /\ params[form[r].key] = FirstParts(form[r].card, form[r].part)
  BY DEF StoredInv, Stored, Storing
<1>2. /\ form[r].key \in DOMAIN services
      /\ services[form[r].key].cust = form[r].card.holder
  BY DEF StoredInv, OrderlyInv, SetupInv, KeysOwned
<1>3. OneRow(services, form[r].card.holder)
  BY FormFields DEF StoredInv, OrderlyInv, SetupInv
<1>4. ServicesOf(form[r].card.holder) = {form[r].key}
  BY <1>1, <1>2, <1>3 DEF ServicesOf, OneRow
<1>5. FirstParts(form[r].card, Parts + 1) = AllParts(form[r].card)
  BY PaymentAssumption DEF FirstParts, AllParts
<1> QED
  BY <1>1, <1>4, <1>5

(***************************************************************************)
(* If a customer's own submissions do not overlap and no parameter's       *)
(* insert fails, a form that is filled in leaves the customer exactly one  *)
(* row, with all parts of the card just typed in and of no other card,     *)
(* however submissions of other customers overlap with it, and wherever an *)
(* earlier process has died.                                               *)
(***************************************************************************)
THEOREM WholeCardIsStored ==
  ASSUME "parameter" \notin SetupFaults
  PROVE  OrderlySetupSpec => []SubmittedCardIsStored
<1>1. StoredInv /\ [SetupNext /\ Orderly']_setupVars => StoredInv'
  BY StoredStep
<1> QED
  BY <1>1, StoredInit, StoredCard, PTL DEF OrderlySetupSpec
=============================================================================
