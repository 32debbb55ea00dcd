------------------------------- MODULE Tasks -------------------------------
(***************************************************************************)
(* The tasks of peopleAndProjects: what saving a task does beyond writing  *)
(* the columns of the page (Task.hpp), from the form of one task            *)
(* (Task_Popup.cpp) and from the list, which saves many tasks with one     *)
(* object (TaskUI.cpp).  One page at a time; time is entered in a form of  *)
(* its own, while the page is open too.                                    *)
(***************************************************************************)
EXTENDS Integers, FiniteSetsExt

CONSTANTS
  LastTask,      \* the tasks are 1 .. LastTask, in the order of the list
  Users,         \* people a task may be assigned to
  MaxHours,      \* bound on the hours of a task
  MaxSaves       \* bound on the number of times a page is submitted

ASSUME TaskAssumption ==
  LastTask \in Nat \ {0} /\ MaxHours \in Nat /\ MaxSaves \in Nat

Tasks == 1 .. LastTask

\* Prog_Enum of Status: planned, complete, paid.
Task_Planned  == 10
Task_Complete == 30
Task_Paid     == 50
TaskStatuses  == {Task_Planned, Task_Complete, Task_Paid}
Percentages   == {50, 100}

\* The columns that matter here; Task_Order in units of the 1000000 that
\* take a task "off the front of the list".
Columns == {"Status", "Percent_Complete", "Task_Order", "Actual_Time"}
TaskRow == [Status : TaskStatuses, Percent_Complete : Percentages,
            Task_Order : 0 .. MaxSaves, Actual_Time : 0 .. MaxHours]
NewObj == [Status |-> Task_Planned, Percent_Complete |-> 50, Task_Order |-> 0,
           Actual_Time |-> 0]

VARIABLES
  hours,         \* hours[k]: the sum of the times of task k
  task,          \* task[k]: its row
  assigned,      \* assigned[k]: its rows in Task_Assignment
  sheet,         \* the page: what is shown, or has been submitted
  at, row,       \* what the request does next, and for which task
  taskObj,       \* its Task_Obj
  changes,       \* the columns it is going to write
  saves,         \* how many submissions there have been
  asked          \* asked[k]: whom the last form of task k named

taskVars == << hours, task, assigned, sheet, at, row, taskObj, changes, saves, asked >>

\* A form shows one task and whom it is assigned to, a list all tasks; in
\* "changed", as on the page, what has been changed by hand.
Fields == {"Status", "Percent_Complete", "Actual_Time", "Task_Assignment"}
Sheet == [kind : {"none", "form", "list"}, rows : [Tasks -> TaskRow],
         named : SUBSET Users, changed : [Tasks -> SUBSET Fields]]
NoSheet == [kind |-> "none", rows |-> [k \in Tasks |-> NewObj], named |-> {},
           changed |-> [k \in Tasks |-> {}]]

TaskTypeOK ==
  /\ hours \in [Tasks -> 0 .. MaxHours]
  /\ task \in [Tasks -> TaskRow]
  /\ assigned \in [Tasks -> SUBSET Users]
  /\ sheet \in Sheet
  /\ at \in {"idle", "validate", "write", "delete", "insert"}
  /\ row \in Tasks
  /\ taskObj \in TaskRow
  /\ changes \in SUBSET (Fields \cup Columns)
  /\ saves \in 0 .. MaxSaves
  /\ asked \in [Tasks -> SUBSET Users]

TasksInit ==
  /\ hours = [k \in Tasks |-> 0]
  /\ task = [k \in Tasks |-> NewObj]
  /\ assigned = [k \in Tasks |-> {}]
  /\ sheet = NoSheet
  /\ at = "idle" /\ row = 1
  /\ taskObj = NewObj /\ changes = {}
  /\ saves = 0
  /\ asked = assigned

\* Time is entered, changed or deleted.
EnterTime(k) ==
  /\ at = "idle"
  /\ \E h \in (0 .. MaxHours) \ {hours[k]} : hours' = [hours EXCEPT ![k] = h]
  /\ UNCHANGED << task, assigned, sheet, at, row, taskObj, changes, saves, asked >>

-----------------------------------------------------------------------------
(* The pages.                                                              *)

OpenForm(k) ==
  /\ at = "idle"
  /\ sheet' = [NoSheet EXCEPT !.kind = "form", !.rows[k] = task[k],
                             !.named = assigned[k]]
  /\ row' = k
  /\ UNCHANGED << hours, task, assigned, at, taskObj, changes, saves, asked >>

OpenList ==
  /\ at = "idle"
  /\ sheet' = [NoSheet EXCEPT !.kind = "list", !.rows = task]
  /\ row' = 1
  /\ UNCHANGED << hours, task, assigned, at, taskObj, changes, saves, asked >>

Differ(r, s) == {c \in Columns : r[c] # s[c]}

\* The form is submitted; its Actual_Time is a text box like the others.
SaveForm ==
  /\ at = "idle" /\ sheet.kind = "form"
  /\ saves < MaxSaves /\ saves' = saves + 1
  /\ \E s \in TaskStatuses, p \in Percentages, h \in 0 .. MaxHours,
        who \in SUBSET Users :
       LET new == [sheet.rows[row] EXCEPT !.Status = s, !.Percent_Complete = p,
                                          !.Actual_Time = h]
       IN  /\ sheet' = [sheet EXCEPT
                !.rows[row] = new, !.named = who,
                !.changed[row] = Differ(sheet.rows[row], new) \cup
                  IF who = sheet.named THEN {} ELSE {"Task_Assignment"}]
           /\ asked' = [asked EXCEPT ![row] = who]
  /\ at' = "validate"
  /\ taskObj' = NewObj
  /\ UNCHANGED << hours, task, assigned, row, changes >>

\* The rows of a page that have been changed by hand: those that are saved.
ToSave(p) == {k \in Tasks : p.changed[k] # {}}

\* The list is submitted, with a change in some row.
SaveList ==
  /\ at = "idle" /\ sheet.kind = "list"
  /\ saves < MaxSaves /\ saves' = saves + 1
  /\ \E s \in [Tasks -> TaskStatuses], p \in [Tasks -> Percentages] :
       LET new == [k \in Tasks |-> [sheet.rows[k] EXCEPT
                     !.Status = s[k], !.Percent_Complete = p[k]]]
           posted == [sheet EXCEPT
             !.rows = new,
             !.changed = [k \in Tasks |-> Differ(sheet.rows[k], new[k])]]
       IN  /\ ToSave(posted) # {}
           /\ sheet' = posted
           /\ row' = Min(ToSave(posted))
  /\ at' = "validate"
  /\ taskObj' = NewObj
  /\ UNCHANGED << hours, task, assigned, changes, asked >>

-----------------------------------------------------------------------------
(* The server.                                                             *)

\* What the object of a request holds when it comes to row k of the page: a
\* list has no Actual_Time, so that of the row before stays where it is.
Transfer(o, p, k) ==
  IF p.kind = "form" THEN p.rows[k]
  ELSE [p.rows[k] EXCEPT !.Actual_Time = o.Actual_Time]

\* Task_Obj::uvalidate: the object afterwards, given the sum of the times.
Uvalidate(o, sum) ==
  LET timed == [o EXCEPT !.Actual_Time = sum]
  IN  IF o.Percent_Complete # 100 THEN timed
      ELSE [timed EXCEPT
              !.Status = IF @ < Task_Complete THEN Task_Complete ELSE @,
              !.Task_Order = @ + 1]

\* Mutant of Validate: what uvalidate sets is not among the changes.
Validate_AsPosted ==
  /\ at = "validate"
  /\ taskObj' = Uvalidate(Transfer(taskObj, sheet, row), hours[row])
  /\ changes' = sheet.changed[row]
  /\ at' = "write"
  /\ UNCHANGED << hours, task, assigned, sheet, row, saves, asked >>

Validate ==
  LET before == Transfer(taskObj, sheet, row)
      after  == Uvalidate(before, hours[row])
  IN  /\ at = "validate"
      /\ taskObj' = after
      /\ changes' = sheet.changed[row] \cup Differ(before, after)
      /\ at' = "write"
      /\ UNCHANGED << hours, task, assigned, sheet, row, saves, asked >>

\* db_update: the columns in changes.
Updated(k, o, cs) ==
  [task EXCEPT ![k] = [c \in Columns |-> IF c \in cs THEN o[c] ELSE @[c]]]

\* A row of the list, and on to the next; after the last the list is shown
\* as the table is now.
WriteRow ==
  LET rest == {k \in ToSave(sheet) : k > row}
  IN  /\ at = "write" /\ sheet.kind = "list"
      /\ task' = Updated(row, taskObj, changes)
      /\ at' = IF rest = {} THEN "idle" ELSE "validate"
      /\ row' = IF rest = {} THEN 1 ELSE Min(rest)
      /\ sheet' = IF rest = {}
                  THEN [NoSheet EXCEPT !.kind = "list", !.rows = task']
                  ELSE sheet
      /\ changes' = {}
      /\ UNCHANGED << hours, assigned, taskObj, saves, asked >>

\* The form: with nothing to change, db_update says it failed, and nothing
\* supplemental is done.  The form then shows the row as it is.
WriteForm ==
  /\ at = "write" /\ sheet.kind = "form"
  /\ task' = Updated(row, taskObj, changes)
  /\ at' = IF changes = {} THEN "idle" ELSE "delete"
  /\ sheet' = [sheet EXCEPT !.rows[row] = task'[row], !.changed[row] = {}]
  /\ changes' = {}
  /\ UNCHANGED << hours, assigned, row, taskObj, saves, asked >>

\* Mutant of DeleteAssignment: those before stay.
DeleteAssignment_Keep ==
  /\ at = "delete"
  /\ at' = "insert"
  /\ UNCHANGED << hours, task, assigned, sheet, row, taskObj, changes, saves, asked >>

\* usupplemental, with whom the page names: deleteTask_Assignment, then
\* setTask_Assignment.
DeleteAssignment ==
  /\ at = "delete"
  /\ assigned' = [assigned EXCEPT ![row] = {}]
  /\ at' = "insert"
  /\ UNCHANGED << hours, task, sheet, row, taskObj, changes, saves, asked >>

SetAssignment ==
  /\ at = "insert"
  /\ assigned' = [assigned EXCEPT ![row] = @ \cup sheet.named]
  /\ at' = "idle"
  /\ UNCHANGED << hours, task, sheet, row, taskObj, changes, saves, asked >>

TasksNext ==
  \/ \E k \in Tasks : EnterTime(k) \/ OpenForm(k)
  \/ OpenList \/ SaveForm \/ SaveList
  \/ Validate \/ WriteRow \/ WriteForm \/ DeleteAssignment \/ SetAssignment

TasksSpec == TasksInit /\ [][TasksNext]_taskVars

-----------------------------------------------------------------------------
(* What saving a task promises.                                            *)

\* What uvalidate sets reaches the row, though it is not what the user has
\* changed: a task saved as done to 100 % is complete, by the form or by the
\* list and whatever status came with it; and after the form its Actual_Time
\* is the sum of its times, whatever was typed into it and whatever time was
\* entered while it was open.  (The list compares the sum with that of the
\* row before, and leaves an old one where the two are the same.)
ValidatedIsWritten ==
  [][ at = "write" /\ at' # "write" =>
        /\ task'[row].Percent_Complete = 100 => task'[row].Status >= Task_Complete
        /\ sheet.kind = "form" => task'[row].Actual_Time = hours[row] ]_taskVars

\* A task is assigned to those its last form named: saving the list, or a
\* form in which something else was changed, keeps them, though the form
\* takes all off before it puts them back.
AssignedAsAsked ==
  at = "idle" => assigned = asked
=============================================================================
