----------------------------- MODULE MCConsole -----------------------------
(***************************************************************************)
(* The back office on small instances: rebates, invoices, tasks, and the   *)
(* access of any of its pages to a table.  They have no table in common,   *)
(* so that a behaviour is one of a single part while the tables of the     *)
(* others stay as they are.                                                *)
(***************************************************************************)
EXTENDS Rebates, Billing, Tasks, TableAccess, TLC

CONSTANTS s1, s2, m1, m2, dm, i1, i2, t1, t2

VARIABLE part

\* The processes, tabs, people and objects of the parts: never of two at once, so that
\* one symmetry serves for all.
TwoOfStaff  == {s1, s2}
TwoMembers  == {m1, m2}
OneMember   == {m1}
TwoInvoices == {i1, i2}
TwoTimes    == {t1, t2}

\* Two purchases of the same amount, with and without an order number, which
\* only together are enough for a check; a return by a member without an
\* address; and a line that cannot be read.
Reported(m, a, n, c, o, g) ==
  [member |-> m, amount |-> a, order |-> n, credit |-> c, old |-> o, good |-> g]
Plain    == Reported(m1, 10, 0, 2, FALSE, TRUE)
Numbered == Reported(m1, 10, 1, 2, TRUE, TRUE)
Returned == Reported(m2, -5, 0, -1, TRUE, TRUE)
Unread   == Reported(m2, 7, 0, 1, TRUE, FALSE)

FourLines == {Plain, Numbered, Returned, Unread}
TwoFiles  == {<< Plain, Numbered >>, << Unread, Returned, Blank, Plain >>}

ConsoleInit ==
  /\ part \in {"rebates", "billing", "tasks", "access"}
  /\ RebatesInit /\ (part # "rebates" => careful)
  /\ BillingInit /\ (part # "billing" => current)
  /\ TasksInit
  /\ AccessInit /\ (part # "access" => provider = "MySQL")

ConsoleNext ==
  /\ UNCHANGED part
  /\ \/ /\ part = "rebates" /\ RebatesNext
        /\ UNCHANGED << billingVars, taskVars, accessVars >>
     \/ /\ part = "billing" /\ BillingNext
        /\ UNCHANGED << rebateVars, taskVars, accessVars >>
     \/ /\ part = "tasks" /\ TasksNext
        /\ UNCHANGED << rebateVars, billingVars, accessVars >>
     \/ /\ part = "access" /\ AccessNext
        /\ UNCHANGED << rebateVars, billingVars, taskVars >>

consoleVars == << part, rebateVars, billingVars, taskVars, accessVars >>

ConsoleSpec == ConsoleInit /\ [][ConsoleNext]_consoleVars

ConsoleSymmetry ==
  Permutations(TwoOfStaff) \cup Permutations(Invoices) \cup Permutations(Times)

\* The types of what the parts keep.
ConsoleTypeOK == RebatesTypeOK /\ BillingTypeOK /\ TaskTypeOK /\ AccessTypeOK
=============================================================================
