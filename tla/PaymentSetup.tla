---------------------------- MODULE PaymentSetup ----------------------------
(***************************************************************************)
(* The customer's payment setup: step=verify of the checkout stores what   *)
(* the customer typed into the payment form.                               *)
(*                                                                         *)
(* Customer_Payment_Service has a row for a customer and a payment         *)
(* service; Customer_Payment_Parameter holds the parameters of such a row  *)
(* (card number, expiry date, ...), one row for each.  One payment service *)
(* is enough here: a customer has one, and the form names it.              *)
(*                                                                         *)
(* One step is one SQL statement with the code around it.  The statement   *)
(* "update" of db_update is left out: the columns it may set are the ones  *)
(* the row was found by, so it writes what is there.                       *)
(***************************************************************************)
EXTENDS Integers, Sequences, FiniteSets

CONSTANTS
  Customers,
  Numbers,      \* what a customer may type in: numbers of cards
  Requests,     \* requests that may be under way at a time
  Parts,        \* parameters the payment service asks of a customer
  MaxServices,  \* bound: rows of Customer_Payment_Service
  FormModes,    \* modes of the submitted form: a subset of Modes
  SetupFaults   \* a subset of {"service", "parameter", "die"}

(***************************************************************************)
(* getInstructions: "i" and "u" when the form and the cookie agree on it,  *)
(* "u" with no change made, and "s" for everything else.                   *)
(***************************************************************************)
Modes == {"i", "u", "unchanged", "s"}

ASSUME PaymentAssumption ==
  /\ Customers # {}
  /\ Numbers # {}
  /\ Parts \in Nat \ {0}
  /\ MaxServices \in Nat
  /\ FormModes \subseteq Modes

VARIABLES
  services,   \* the table Customer_Payment_Service; the index is the Id
  params,     \* params[id]: the parameters stored for the service row id
  form        \* form[r]: the Payment_Form_Complete object of request r

setupVars == << services, params, form >>

Card  == [holder : Customers, number : Numbers]
Datum == [card : Card, part : 1 .. Parts]

ServiceIds == 0 .. MaxServices      \* 0: no row, yet parameters may have it

Stages == {"none", "list", "clear", "drop", "insert", "reread", "delete",
           "create", "done", "refused"}

Form == [at : Stages, card : Card, key : ServiceIds,
         old : SUBSET ServiceIds, part : Nat]

NoForm == [at |-> "none", card |-> CHOOSE c \in Card : TRUE, key |-> 0,
           old |-> {}, part |-> 1]

SetupTypeOK ==
  /\ services \in Seq([cust : Customers, live : BOOLEAN])
  /\ Len(services) <= MaxServices
  /\ params \in [ServiceIds -> SUBSET Datum]
  /\ form \in [Requests -> Form]

SetupInit ==
  /\ services = << >>
  /\ params = [id \in ServiceIds |-> {}]
  /\ form = [r \in Requests |-> NoForm]

-----------------------------------------------------------------------------

\* select Id from Customer_Payment_Service where Customer_Id = cust
ServicesOf(cust) ==
  {id \in DOMAIN services : services[id].live /\ services[id].cust = cust}

\* The parameters that a completed form leaves for a card.
AllParts(card) == {[card |-> card, part |-> n] : n \in 1 .. Parts}

Advance(r, stage) == form' = [form EXCEPT ![r].at = stage]

\* Mutant of Submit: looks for a row of any customer.
Submit_AnyCustomer(r, card, mode) ==
  /\ form[r].at = "none"
  /\ LET found == {id \in DOMAIN services : services[id].live}
     IN  \E key \in IF found = {} THEN {0} ELSE found :
           form' = [form EXCEPT ![r] =
             [NoForm EXCEPT !.card = card, !.key = key,
                !.at = CASE mode = "i" -> "list"
                         [] mode = "u" -> "delete"
                         [] mode = "unchanged" -> "done"
                         [] OTHER -> IF key = 0 THEN "refused" ELSE "done"]]
  /\ UNCHANGED << services, params >>

(***************************************************************************)
(* confirmOrderPanel looks for the row, and without one the key stays 0.   *)
(* Mode "i" goes on to db_insert and its ivalidate.  Mode "u" goes on to   *)
(* the parameters, because db_update with no row to update is no failure;  *)
(* with no change at all nothing is stored, and that is no failure either. *)
(* Any other mode only reads the row.                                      *)
(***************************************************************************)
Submit(r, card, mode) ==
  /\ form[r].at = "none"
  /\ LET found == ServicesOf(card.holder)
     IN  \E key \in IF found = {} THEN {0} ELSE found :
           form' = [form EXCEPT ![r] =
             [NoForm EXCEPT !.card = card, !.key = key,
                !.at = CASE mode = "i" -> "list"
                         [] mode = "u" -> "delete"
                         [] mode = "unchanged" -> "done"
                         [] OTHER -> IF key = 0 THEN "refused" ELSE "done"]]
  /\ UNCHANGED << services, params >>

\* ivalidate: list the rows the customer has.
ListServices(r) ==
  LET old == ServicesOf(form[r].card.holder)
  IN  /\ form[r].at = "list"
      /\ form' = [form EXCEPT ![r].old = old,
                    ![r].at = IF old = {} THEN "insert" ELSE "clear"]
      /\ UNCHANGED << services, params >>

\* Mutant of ClearListed: deletes the rows before their parameters.
ClearListed_RowsFirst(r) ==
  /\ form[r].at = "clear"
  /\ services' = [id \in DOMAIN services |->
       IF id \in form[r].old THEN [services[id] EXCEPT !.live = FALSE]
                             ELSE services[id]]
  /\ Advance(r, "drop")
  /\ UNCHANGED params

\* ivalidate: delete the parameters of the listed rows, ...
ClearListed(r) ==
  /\ form[r].at = "clear"
  /\ params' = [id \in ServiceIds |->
       IF id \in form[r].old THEN {} ELSE params[id]]
  /\ Advance(r, "drop")
  /\ UNCHANGED services

\* ... and then every row of the customer, listed or not.
DropServices(r) ==
  /\ form[r].at = "drop"
  /\ services' = [id \in DOMAIN services |->
       IF id \in ServicesOf(form[r].card.holder)
         THEN [services[id] EXCEPT !.live = FALSE] ELSE services[id]]
  /\ Advance(r, "insert")
  /\ UNCHANGED params

\* db_insert: a row with the next Id, or a failure that ends the form.
InsertService(r) ==
  /\ form[r].at = "insert"
  /\ \/ /\ Len(services) < MaxServices
        /\ services' = Append(services,
             [cust |-> form[r].card.holder, live |-> TRUE])
        /\ form' = [form EXCEPT ![r].key = Len(services'), ![r].at = "reread"]
     \/ /\ "service" \in SetupFaults \/ Len(services) = MaxServices
        /\ Advance(r, "refused")
        /\ UNCHANGED services
  /\ UNCHANGED params

\* db_action("i") reads back the row it inserted, if it is still there.
ReadBack(r) ==
  /\ form[r].at = "reread"
  /\ Advance(r, IF services[form[r].key].live THEN "delete" ELSE "refused")
  /\ UNCHANGED << services, params >>

\* Mutant of DeleteOldParameters: an update adds to what is there.
DeleteOldParameters_None(r) ==
  /\ form[r].at = "delete"
  /\ Advance(r, "create")
  /\ UNCHANGED << services, params >>

\* deleteOldUserParameters, by the Id of the object, whatever that is.
DeleteOldParameters(r) ==
  /\ form[r].at = "delete"
  /\ params' = [params EXCEPT ![form[r].key] = {}]
  /\ Advance(r, "create")
  /\ UNCHANGED services

\* Mutant of CreateParameter: goes on past the last parameter.
CreateParameter_OneMore(r) ==
  LET f == form[r]
  IN  /\ f.at = "create"
      /\ form' = [form EXCEPT ![r].part = f.part + 1,
                    ![r].at = IF f.part > Parts THEN "done" ELSE "create"]
      /\ params' = [params EXCEPT ![f.key] =
                      @ \cup {[card |-> f.card, part |-> f.part]}]
      /\ UNCHANGED services

(***************************************************************************)
(* addUserElement, for one parameter after another.  One that cannot be    *)
(* inserted is skipped, and createUserParameters returns true anyway.      *)
(***************************************************************************)
CreateParameter(r) ==
  LET f == form[r]
  IN  /\ f.at = "create"
      /\ form' = [form EXCEPT ![r].part = f.part + 1,
                    ![r].at = IF f.part = Parts THEN "done" ELSE "create"]
      /\ \/ params' = [params EXCEPT ![f.key] =
                         @ \cup {[card |-> f.card, part |-> f.part]}]
         \/ "parameter" \in SetupFaults /\ UNCHANGED params
      /\ UNCHANGED services

\* dbf_action and form_action of a form that was submitted.
FillIn(r) ==
  \/ ListServices(r)
  \/ ClearListed(r)
  \/ DropServices(r)
  \/ InsertService(r)
  \/ ReadBack(r)
  \/ DeleteOldParameters(r)
  \/ CreateParameter(r)

ForgetForm(r) ==
  /\ form' = [form EXCEPT ![r] = NoForm]
  /\ UNCHANGED << services, params >>

\* The page is shown.
ShowForm(r) == form[r].at \in {"done", "refused"} /\ ForgetForm(r)

\* The process is killed.
AbandonForm(r) ==
  "die" \in SetupFaults /\ form[r].at # "none" /\ ForgetForm(r)

SetupNext ==
  \E r \in Requests :
    \/ \E card \in Card, mode \in FormModes : Submit(r, card, mode)
    \/ FillIn(r)
    \/ ShowForm(r)
    \/ AbandonForm(r)

SetupSpec == SetupInit /\ [][SetupNext]_setupVars

(***************************************************************************)
(* Forms of different customers overlap as they like, but a customer waits *)
(* for the answer to one before sending another.                           *)
(***************************************************************************)
Orderly ==
  \A r, q \in Requests :
    (r # q /\ form[r].at # "none" /\ form[q].at # "none") =>
      form[r].card.holder # form[q].card.holder

OrderlySetupSpec == SetupInit /\ [][SetupNext /\ Orderly']_setupVars
-----------------------------------------------------------------------------
(* Properties.                                                             *)

(***************************************************************************)
(* However submissions of several customers overlap, the parameters kept   *)
(* for a customer's row are that customer's own.                           *)
(***************************************************************************)
CardsStayWithCustomer ==
  \A id \in DOMAIN services : \A d \in params[id] :
    d.card.holder = services[id].cust

(***************************************************************************)
(* One form of a customer at a time, no card data outlive the row they     *)
(* belong to: ivalidate deletes them before the row, so that not even a    *)
(* process that dies in between leaves any behind.                         *)
(***************************************************************************)
NoCardWithoutService ==
  \A id \in DOMAIN services : ~services[id].live => params[id] = {}

(***************************************************************************)
(* One form of a customer at a time and with no parameter's insert         *)
(* failing, a form that is filled in ends with exactly one row for the     *)
(* customer, and with all parts of the card just typed in, and of no       *)
(* other card, whatever other customers do meanwhile.                      *)
(***************************************************************************)
SubmittedCardIsStored ==
  \A r \in Requests :
    (form[r].at = "done" /\ form[r].part > Parts /\ form[r].key # 0) =>
      /\ ServicesOf(form[r].card.holder) = {form[r].key}
      /\ params[form[r].key] = AllParts(form[r].card)
=============================================================================
