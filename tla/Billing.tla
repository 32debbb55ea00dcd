------------------------------ MODULE Billing ------------------------------
(***************************************************************************)
(* Invoices and the work they bill (peopleAndProjects/source): the form of *)
(* an invoice (InvoiceUI.cpp over Invoice.hpp), which sets the status of   *)
(* its times, and the checkboxes of that form, each of which puts a time   *)
(* on the invoice through a service (XML_Time_svc.cpp).  All times belong  *)
(* to the project of the invoices.                                         *)
(***************************************************************************)
EXTENDS Naturals, FiniteSets

CONSTANTS
  Tabs,       \* pages in browsers of the staff
  Invoices,   \* rows of Invoice
  Times,      \* rows of Time
  NoInvoice   \* the invoice 0

ASSUME BillingAssumption == NoInvoice \notin Invoices

VARIABLES
  current,    \* nobody uses a page that shows what is no longer so, no
              \* statement fails and no two submissions overlap
  status,     \* status[i]: Invoice.Status
  invoice,    \* invoice[t]: Time.Invoice
  worked,     \* worked[t]: Time.Status
  page,       \* page[b]: what tab b shows, see Page
  stage,      \* stage[b]: how far the submission of tab b has come
  read        \* read[b]: the status that the submission has read

billingVars == << current, status, invoice, worked, page, stage, read >>

Statuses == {"pre", "invoiced", "paid"}

\* The invoice; the times with a checkbox; those whose checkbox is checked.
Page == [of : Invoices, boxes : SUBSET Times, checked : SUBSET Times]
NoPage == [of |-> NoInvoice, boxes |-> {}, checked |-> {}]

BillingTypeOK ==
  /\ current \in BOOLEAN
  /\ status \in [Invoices -> Statuses]
  /\ invoice \in [Times -> Invoices \cup {NoInvoice}]
  /\ worked \in [Times -> Statuses]
  /\ page \in [Tabs -> Page \cup {NoPage}]
  /\ stage \in [Tabs -> {"idle", "reread", "times"}]
  /\ read \in [Tabs -> Statuses]

BillingInit ==
  /\ current \in BOOLEAN
  /\ status = [i \in Invoices |-> "pre"]
  /\ invoice = [t \in Times |-> NoInvoice]
  /\ worked = [t \in Times |-> "pre"]
  /\ page = [b \in Tabs |-> NoPage]
  /\ stage = [b \in Tabs |-> "idle"]
  /\ read = [b \in Tabs |-> "pre"]

NoSubmission == \A b \in Tabs : stage[b] = "idle"

\* The query of Time_List, for a form that has read status s.
Listed(i, s, w) ==
  {t \in Times : invoice[t] = i \/ (s = "pre" /\ w[t] = "pre")}

(***************************************************************************)
(* form_display, for a form that has read status s, while the status of    *)
(* the times is w: "If true don't do checkboxes, and only show items that  *)
(* are part of this invoice".  A box is checked if the time is on an       *)
(* invoice, no matter which.                                               *)
(***************************************************************************)
Display(i, s, w) ==
  LET boxes == IF s = "pre" THEN Listed(i, s, w) ELSE {}
  IN  [of |-> i, boxes |-> boxes,
       checked |-> {t \in boxes : invoice[t] # NoInvoice}]

\* What may be done with tab b at all.
Usable(b) ==
  /\ stage[b] = "idle"
  /\ current => NoSubmission

\* The tab shows what it would show now.
Fresh(b) == page[b] = Display(page[b].of, status[page[b].of], worked)

ShowInvoice(b, i) ==
  /\ Usable(b)
  /\ page' = [page EXCEPT ![b] = Display(i, status[i], worked)]
  /\ UNCHANGED << current, status, invoice, worked, stage, read >>

(***************************************************************************)
(* A click on the checkbox of a time: the service updates the one column.  *)
(* (The script behind the checkbox is not in the repository: it is taken   *)
(* to send the invoice for a box that is checked now, and 0 for the other.)*)
(***************************************************************************)
Click(b, t) ==
  /\ Usable(b)
  /\ t \in page[b].boxes
  /\ current => Fresh(b)
  /\ invoice' = [invoice EXCEPT ![t] =
                   IF t \in page[b].checked THEN NoInvoice ELSE page[b].of]
  /\ page' = [page EXCEPT ![b].checked =
                IF t \in @ THEN @ \ {t} ELSE @ \cup {t}]
  /\ UNCHANGED << current, status, worked, stage, read >>

\* The form of the invoice is submitted with another status: db_update.
SubmitStatus(b, s) ==
  /\ Usable(b)
  /\ page[b] # NoPage
  /\ current => Fresh(b)
  /\ status' = [status EXCEPT ![page[b].of] = s]
  /\ stage' = [stage EXCEPT ![b] = "reread"]
  /\ read' = [read EXCEPT ![b] = s]
  /\ UNCHANGED << current, invoice, worked, page >>

\* db_action: "get data anyway", which may be what somebody else has stored.
RereadInvoice(b) ==
  /\ stage[b] = "reread"
  /\ stage' = [stage EXCEPT ![b] = "times"]
  /\ \/ read' = [read EXCEPT ![b] = status[page[b].of]]
     \/ ~current /\ UNCHANGED read
  /\ UNCHANGED << current, status, invoice, worked, page >>

\* Mutant of WithStatus: the times of other invoices, too.
WithStatus_All(i, s) == [t \in Times |-> s]

\* The statement of setTimeStatus.
WithStatus(i, s) == [t \in Times |-> IF invoice[t] = i THEN s ELSE worked[t]]

(***************************************************************************)
(* usupplemental, setTimeStatus, whose failure goes unnoticed, and the     *)
(* page that the submission ends with.                                     *)
(***************************************************************************)
SetTimeStatus(b) ==
  LET i == page[b].of
  IN  /\ stage[b] = "times"
      /\ \/ worked' = WithStatus(i, read[b])
         \/ ~current /\ UNCHANGED worked
      /\ stage' = [stage EXCEPT ![b] = "idle"]
      /\ page' = [page EXCEPT ![b] = Display(i, read[b], worked')]
      /\ read' = [read EXCEPT ![b] = "pre"]
      /\ UNCHANGED << current, status, invoice >>

\* The process is killed, and no page arrives.
SubmissionDies(b) ==
  /\ ~current
  /\ stage[b] # "idle"
  /\ stage' = [stage EXCEPT ![b] = "idle"]
  /\ read' = [read EXCEPT ![b] = "pre"]
  /\ UNCHANGED << current, status, invoice, worked, page >>

BillingNext ==
  \E b \in Tabs :
    \/ \E i \in Invoices : ShowInvoice(b, i)
    \/ \E t \in Times : Click(b, t)
    \/ \E s \in Statuses : SubmitStatus(b, s)
    \/ RereadInvoice(b)
    \/ SetTimeStatus(b)
    \/ SubmissionDies(b)

BillingSpec == BillingInit /\ [][BillingNext]_billingVars

-----------------------------------------------------------------------------
(* Properties.                                                             *)

(***************************************************************************)
(* As long as nobody uses an old page, the status of a time and that of    *)
(* its invoice agree, whatever the order in which times are put on         *)
(* invoices, invoices go back and forth, and times change invoices.        *)
(***************************************************************************)
TimeFollowsInvoice ==
  (current /\ NoSubmission) =>
    \A t \in Times :
      worked[t] = IF invoice[t] = NoInvoice THEN "pre" ELSE status[invoice[t]]
=============================================================================
