----------------------------- MODULE MCBrowser -----------------------------
(***************************************************************************)
(* What the pages of a browser share, on small instances: the two cookies  *)
(* of the forms, and the session of the lists and trees.  Neither reads    *)
(* what the other writes, so that a behaviour is one of a single part.     *)
(***************************************************************************)
EXTENDS FormPages, Sessions, TLC

CONSTANTS b1, b2, f1, f2

VARIABLE part

\* The tabs of a form or the frames of a list, never both.
TwoTabs   == {b1, b2}
TwoFields == {f1, f2}

\* Only the list of tasks has a session name of its own.
ThreeLists  == {"project", "company", "task"}
ListName    == [l \in ThreeLists |-> IF l = "task" THEN "Task" ELSE ""]
ListColumns == [l \in ThreeLists |-> {l}]

BrowserInit ==
  /\ part \in {"forms", "sessions"}
  /\ FormInit /\ (part # "forms" => patient)
  /\ SessionsInit /\ (part # "sessions" => neat)

BrowserNext ==
  /\ UNCHANGED part
  /\ \/ part = "forms" /\ FormNext /\ UNCHANGED sessionVars
     \/ part = "sessions" /\ SessionsNext /\ UNCHANGED formVars

BrowserSpec == BrowserInit /\ [][BrowserNext]_<< part, formVars, sessionVars >>

BrowserSymmetry ==
  Permutations(TwoTabs) \cup Permutations(Fields)

\* The types of what the parts keep.
BrowserTypeOK == FormTypeOK /\ SessionTypeOK
=============================================================================
