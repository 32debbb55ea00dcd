--------------------------- MODULE Projects_proofs ---------------------------
(***************************************************************************)
(* Proofs about peopleAndProjects.  Tasks, for any number of tasks,        *)
(* people, hours and saves: between requests a task is assigned to those   *)
(* whom its last form named, and what uvalidate sets is written.  Billing, *)
(* for any number of tabs, invoices and times: the status of a time        *)
(* follows its invoice as long as nobody uses an old page.  And, with the  *)
(* theorems about rebates and table access, the types of all the console.  *)
(***************************************************************************)
EXTENDS MCConsole, Rebates_proofs, TableAccess_proofs,
        WellFoundedInduction, TLAPS

-----------------------------------------------------------------------------
(* Tasks: whom they are assigned to.                                       *)

\* The parts of the page that the assignments depend on.
Shape ==
  /\ sheet \in [kind : {"none", "form", "list"}, rows : {sheet.rows},
                named : SUBSET Users,
                changed : [Tasks -> SUBSET (Fields \cup Columns)]]
  /\ assigned \in [Tasks -> SUBSET Users] /\ asked \in [Tasks -> SUBSET Users]
  /\ sheet.kind = "form" => row \in Tasks

\* Whatever is under way, it is about the task of one form.
OthersAsAsked ==
  \A k \in Tasks :
    assigned[k] = asked[k] \/ (sheet.kind = "form" /\ k = row /\ at # "idle")

(***************************************************************************)
(* How far the form is: a page that names other people than the task has   *)
(* says that they have changed, so that the save comes to the delete; and  *)
(* what the delete takes off the insert puts back, for the page is kept.   *)
(***************************************************************************)
FormAsAsked ==
  sheet.kind = "form" =>
    /\ at = "idle" => sheet.named = assigned[row]
    /\ at # "idle" => asked[row] = sheet.named
    /\ at = "validate" /\ sheet.changed[row] = {} => assigned[row] = asked[row]
    /\ at = "write" /\ changes = {} => assigned[row] = asked[row]
    /\ at = "insert" => assigned[row] = {}

\* The statements after the row are those of a form.
OnlyForms ==
  /\ at \in {"idle", "validate", "write", "delete", "insert"}
  /\ at \in {"delete", "insert"} => sheet.kind = "form"
  /\ at # "idle" => sheet.kind # "none"

AssignInv == Shape /\ OthersAsAsked /\ FormAsAsked /\ OnlyForms

\* The sheet of nobody has the shape of a sheet.
LEMMA NoSheetShape ==
  /\ NoSheet.kind = "none" /\ NoSheet.named = {}
  /\ NoSheet \in [kind : {"none", "form", "list"}, rows : {NoSheet.rows},
                  named : SUBSET Users,
                  changed : [Tasks -> SUBSET (Fields \cup Columns)]]
  BY DEF NoSheet

\* The invariant holds before any sheet is shown.
LEMMA AssignInvInit == TasksInit => AssignInv
<1> SUFFICES ASSUME TasksInit PROVE AssignInv
  OBVIOUS
<1>1. Shape
  BY NoSheetShape DEF TasksInit, Shape
<1> QED
  BY <1>1, NoSheetShape
     DEF AssignInv, TasksInit, OthersAsAsked, FormAsAsked, OnlyForms

\* Every step keeps the invariant.
LEMMA AssignInvNext == AssignInv /\ [TasksNext]_taskVars => AssignInv'
<1> SUFFICES ASSUME AssignInv, [TasksNext]_taskVars PROVE AssignInv'
  OBVIOUS
<1> USE DEF AssignInv
<1> DEFINE Sheets(r) == [kind : {"none", "form", "list"}, rows : {r},
                         named : SUBSET Users,
                         changed : [Tasks -> SUBSET (Fields \cup Columns)]]
<1>0. /\ sheet \in Sheets(sheet.rows)
      /\ assigned \in [Tasks -> SUBSET Users]
      /\ asked \in [Tasks -> SUBSET Users]
  BY DEF Shape
<1> HIDE DEF Sheets
<1>1. ASSUME NEW k \in Tasks, EnterTime(k) PROVE AssignInv'
  BY <1>1 DEF EnterTime, Shape, OthersAsAsked, FormAsAsked, OnlyForms
<1>2. ASSUME NEW k \in Tasks, OpenForm(k) PROVE AssignInv'
  <2>1. /\ sheet'.kind = "form" /\ sheet'.named = assigned[k]
        /\ sheet' \in Sheets(sheet'.rows)
    BY <1>0, <1>2, NoSheetShape DEF OpenForm, Sheets
  <2> QED
    BY <1>2, <2>1
       DEF OpenForm, Shape, OthersAsAsked, FormAsAsked, OnlyForms, Sheets
<1>3. ASSUME OpenList PROVE AssignInv'
  <2>1. sheet'.kind = "list" /\ sheet' \in Sheets(sheet'.rows)
    BY <1>3, NoSheetShape DEF OpenList, Sheets
  <2> QED
    BY <1>3, <2>1
       DEF OpenList, Shape, OthersAsAsked, FormAsAsked, OnlyForms, Sheets
<1>4. ASSUME SaveForm PROVE AssignInv'
  <2>0. PICK s \in TaskStatuses, p \in Percentages, h \in 0 .. MaxHours,
             who \in SUBSET Users :
          LET new == [sheet.rows[row] EXCEPT !.Status = s,
                        !.Percent_Complete = p, !.Actual_Time = h]
          IN  /\ sheet' = [sheet EXCEPT
                   !.rows[row] = new, !.named = who,
                   !.changed[row] = Differ(sheet.rows[row], new) \cup
                     IF who = sheet.named THEN {} ELSE {"Task_Assignment"}]
              /\ asked' = [asked EXCEPT ![row] = who]
    BY <1>4 DEF SaveForm
  <2> DEFINE new == [sheet.rows[row] EXCEPT !.Status = s,
                       !.Percent_Complete = p, !.Actual_Time = h]
  <2>1. /\ sheet' = [sheet EXCEPT
             !.rows[row] = new, !.named = who,
             !.changed[row] = Differ(sheet.rows[row], new) \cup
               IF who = sheet.named THEN {} ELSE {"Task_Assignment"}]
        /\ asked' = [asked EXCEPT ![row] = who]
    BY <2>0
  <2> HIDE DEF new
  <2> DEFINE cs == Differ(sheet.rows[row], new) \cup
                     IF who = sheet.named THEN {} ELSE {"Task_Assignment"}
  <2>2. row \in Tasks /\ cs \in SUBSET (Fields \cup Columns)
    BY <1>4 DEF SaveForm, Shape, Differ, Fields
  <2>3. cs = {} => who = sheet.named
    OBVIOUS
  <2>4. sheet' = [sheet EXCEPT !.rows[row] = new, !.named = who,
                               !.changed[row] = cs]
    BY <2>1
  <2> HIDE DEF cs
  <2>5. /\ sheet'.kind = "form" /\ sheet'.named = who
        /\ sheet'.changed = [sheet.changed EXCEPT ![row] = cs]
        /\ sheet' \in Sheets(sheet'.rows)
    BY <1>0, <1>4, <2>2, <2>4 DEF SaveForm, Sheets
  <2>6. sheet'.changed[row] = cs
    BY <1>0, <2>2, <2>5 DEF Sheets
  <2>7. /\ asked' \in [Tasks -> SUBSET Users] /\ asked'[row] = who
        /\ \A k \in Tasks : k # row => asked'[k] = asked[k]
    BY <1>0, <2>1, <2>2
  <2>8. /\ UNCHANGED << assigned, row >> /\ at = "idle" /\ at' = "validate"
        /\ sheet.kind = "form"
    BY <1>4 DEF SaveForm
  <2>9. Shape'
    BY <1>0, <2>2, <2>5, <2>7, <2>8 DEF Shape, Sheets
  <2>10. OthersAsAsked' /\ OnlyForms'
    BY <2>5, <2>7, <2>8 DEF OthersAsAsked, OnlyForms
  <2>11. FormAsAsked'
    BY <2>2, <2>3, <2>5, <2>6, <2>7, <2>8 DEF FormAsAsked
  <2> QED
    BY <2>9, <2>10, <2>11
<1>5. ASSUME SaveList PROVE AssignInv'
  <2>0. PICK s \in [Tasks -> TaskStatuses], p \in [Tasks -> Percentages] :
          LET new == [k \in Tasks |-> [sheet.rows[k] EXCEPT
                        !.Status = s[k], !.Percent_Complete = p[k]]]
          IN  sheet' = [sheet EXCEPT !.rows = new,
                !.changed = [k \in Tasks |-> Differ(sheet.rows[k], new[k])]]
    BY <1>5 DEF SaveList
  <2> DEFINE new == [k \in Tasks |-> [sheet.rows[k] EXCEPT
                       !.Status = s[k], !.Percent_Complete = p[k]]]
             cs == [k \in Tasks |-> Differ(sheet.rows[k], new[k])]
  <2>1. sheet' = [sheet EXCEPT !.rows = new, !.changed = cs]
    BY <2>0
  <2>3. cs \in [Tasks -> SUBSET Columns]
    BY DEF Differ
  <2> HIDE DEF new, cs
  <2>2. sheet'.kind = "list" /\ sheet' \in Sheets(sheet'.rows)
    BY <1>0, <1>5, <2>1, <2>3 DEF SaveList, Sheets
  <2> QED
    BY <1>5, <2>2
       DEF SaveList, Shape, OthersAsAsked, FormAsAsked, OnlyForms, Sheets
<1>6. ASSUME Validate PROVE AssignInv'
  <2>1. changes' = {} => sheet.changed[row] = {}
    BY <1>6 DEF Validate
  <2> QED
    BY <1>6, <2>1 DEF Validate, Shape, OthersAsAsked, FormAsAsked, OnlyForms
<1>7. ASSUME WriteRow PROVE AssignInv'
  <2>1. sheet'.kind = "list" /\ sheet' \in Sheets(sheet'.rows)
    BY <1>0, <1>7, NoSheetShape DEF WriteRow, Sheets
  <2>2. at' \in {"idle", "validate"} /\ sheet.kind = "list"
        /\ UNCHANGED << assigned, asked >>
    BY <1>7 DEF WriteRow
  <2> QED
    BY <2>1, <2>2 DEF Shape, OthersAsAsked, FormAsAsked, OnlyForms, Sheets
<1>8. ASSUME WriteForm PROVE AssignInv'
  <2>1. /\ sheet'.kind = "form" /\ sheet'.named = sheet.named
        /\ sheet' \in Sheets(sheet'.rows)
    BY <1>0, <1>8 DEF WriteForm, Sheets
  <2>2. /\ at = "write" /\ sheet.kind = "form"
        /\ at' = IF changes = {} THEN "idle" ELSE "delete"
        /\ UNCHANGED << assigned, asked, row >>
    BY <1>8 DEF WriteForm
  <2>3. Shape'
    BY <2>1, <2>2 DEF Shape, Sheets
  <2> QED
    BY <2>1, <2>2, <2>3 DEF OthersAsAsked, FormAsAsked, OnlyForms, Shape
<1>9. ASSUME DeleteAssignment PROVE AssignInv'
  <2>1. /\ sheet.kind = "form" /\ row \in Tasks
        /\ at = "delete" /\ at' = "insert"
        /\ assigned' = [assigned EXCEPT ![row] = {}]
        /\ UNCHANGED << sheet, asked, row >>
    BY <1>9 DEF DeleteAssignment, OnlyForms, Shape
  <2>2. Shape'
    BY <2>1 DEF Shape
  <2> QED
    BY <1>0, <2>1, <2>2 DEF OthersAsAsked, FormAsAsked, OnlyForms
<1>10. ASSUME SetAssignment PROVE AssignInv'
  <2>1. /\ sheet.kind = "form" /\ row \in Tasks /\ at = "insert"
        /\ assigned[row] = {} /\ asked[row] = sheet.named
        /\ sheet.named \in SUBSET Users
    BY <1>10 DEF SetAssignment, OnlyForms, FormAsAsked, Shape
  <2>2. assigned' = [assigned EXCEPT ![row] = sheet.named]
    BY <1>10, <2>1 DEF SetAssignment
  <2>3. at' = "idle" /\ UNCHANGED << sheet, asked, row >>
    BY <1>10 DEF SetAssignment
  <2>4. Shape'
    BY <2>1, <2>2, <2>3 DEF Shape
  <2> QED
    BY <1>0, <2>1, <2>2, <2>3, <2>4 DEF OthersAsAsked, FormAsAsked, OnlyForms
<1>11. CASE UNCHANGED taskVars
  BY <1>11 DEF taskVars, Shape, OthersAsAsked, FormAsAsked, OnlyForms
<1> QED
  BY <1>1, <1>2, <1>3, <1>4, <1>5, <1>6, <1>7, <1>8, <1>9, <1>10, <1>11
     DEF TasksNext

(***************************************************************************)
(* Between requests every task is assigned to those whom its last form     *)
(* named: neither the list nor a save in which they are as before loses    *)
(* them to deleteTask_Assignment, and no save keeps any others.            *)
(***************************************************************************)
THEOREM AssignedAsNamed == TasksSpec => []AssignedAsAsked
<1>1. AssignInv => AssignedAsAsked
  <2> SUFFICES ASSUME AssignInv, at = "idle" PROVE assigned = asked
    BY DEF AssignedAsAsked
  <2>1. /\ assigned \in [Tasks -> SUBSET Users]
        /\ asked \in [Tasks -> SUBSET Users]
        /\ \A k \in Tasks : assigned[k] = asked[k]
    BY DEF AssignInv, Shape, OthersAsAsked
  <2> QED
    BY <2>1
<1> QED
  BY AssignInvInit, AssignInvNext, <1>1, PTL DEF TasksSpec

-----------------------------------------------------------------------------
(* Tasks: what they are written with.                                      *)

\* A submission leaves room in the order for what it may add to it.
Room == IF at \in {"validate", "write"} THEN saves - 1 ELSE saves

\* The types, with the bound on Task_Order that makes them inductive.
OrderInv ==
  /\ TaskTypeOK
  /\ Room \in 0 .. MaxSaves
  /\ \A k \in Tasks :
       task[k].Task_Order <= saves /\ sheet.rows[k].Task_Order <= Room
  /\ taskObj.Task_Order <= saves

\* The rows of the page that are still to be written.
ToCome == {k \in Tasks : \/ sheet.kind = "form" /\ k = row
                         \/ sheet.kind = "list" /\ k >= row}

(***************************************************************************)
(* The page shows the rows as they are, and a request knows of each column *)
(* in which a row still to be written differs from the table.              *)
(***************************************************************************)
PageKept ==
  /\ sheet.kind = "form" /\ at \in {"idle", "delete", "insert"} =>
       sheet.rows[row] = task[row]
  /\ sheet.kind = "list" /\ at = "idle" => sheet.rows = task
  /\ at \in {"validate", "write"} =>
       \A k \in ToCome : \A c \in Columns \ sheet.changed[k] :
         sheet.rows[k][c] = task[k][c]

(***************************************************************************)
(* The object that is about to be written is validated, and agrees with    *)
(* its row in the columns that are not written.                            *)
(***************************************************************************)
ObjectValidated ==
  at = "write" =>
    /\ taskObj.Percent_Complete = 100 => taskObj.Status >= Task_Complete
    /\ taskObj.Actual_Time = hours[row]
    /\ \A c \in Columns \ changes :
         (sheet.kind = "form" \/ c # "Actual_Time") => taskObj[c] = task[row][c]

TaskInv == AssignInv /\ OrderInv /\ PageKept /\ ObjectValidated

\* What is typed into a row, of a form or of a list.
IsTyped(r, s, p, h, new) ==
  \/ new = [r EXCEPT !.Status = s, !.Percent_Complete = p, !.Actual_Time = h]
  \/ new = [r EXCEPT !.Status = s, !.Percent_Complete = p]

\* It keeps its place there.
LEMMA Typed ==
  ASSUME NEW r \in TaskRow, NEW s \in TaskStatuses, NEW p \in Percentages,
         NEW h \in 0 .. MaxHours, NEW new, IsTyped(r, s, p, h, new)
  PROVE  /\ new \in TaskRow
         /\ new.Task_Order = r.Task_Order
         /\ Differ(r, new) \subseteq Fields
         /\ \A c \in Columns \ Differ(r, new) : new[c] = r[c]
<1>1. new \in TaskRow /\ new["Task_Order"] = r["Task_Order"]
  BY DEF TaskRow, IsTyped
<1>2. Differ(r, new) \subseteq Fields
  BY <1>1 DEF Differ, Columns, Fields
<1>3. \A c \in Columns \ Differ(r, new) : new[c] = r[c]
  BY DEF Differ
<1> QED
  BY <1>1, <1>2, <1>3

\* What uvalidate makes of an object.
LEMMA UvalidateSets ==
  ASSUME NEW o \in TaskRow, NEW h \in 0 .. MaxHours, o.Task_Order + 1 \in 0 .. MaxSaves
  PROVE  LET u == Uvalidate(o, h)
         IN  /\ u \in TaskRow
             /\ u.Task_Order <= o.Task_Order + 1
             /\ u.Actual_Time = h
             /\ u.Percent_Complete = 100 => u.Status >= Task_Complete
             /\ Differ(o, u) \subseteq Columns
             /\ \A c \in Columns \ Differ(o, u) : u[c] = o[c]
<1> DEFINE u == Uvalidate(o, h)
           timed == [o EXCEPT !.Actual_Time = h]
           newStatus == IF o.Status < Task_Complete THEN Task_Complete ELSE o.Status
<1>1. /\ o.Status \in TaskStatuses /\ o.Task_Order \in 0 .. MaxSaves
      /\ o.Percent_Complete \in Percentages
  BY DEF TaskRow
<1>2. newStatus \in TaskStatuses /\ newStatus >= Task_Complete
  BY <1>1 DEF TaskStatuses, Task_Planned, Task_Complete, Task_Paid
<1>3. CASE o.Percent_Complete # 100
  <2>1. u = timed
    BY <1>3 DEF Uvalidate
  <2>2. /\ u \in TaskRow /\ u.Task_Order = o.Task_Order
        /\ u.Actual_Time = h /\ u.Percent_Complete # 100
    BY <1>3, <2>1 DEF TaskRow
  <2> HIDE DEF u
  <2>3. Differ(o, u) \subseteq Columns /\ \A c \in Columns \ Differ(o, u) : u[c] = o[c]
    BY DEF Differ
  <2> QED
    BY <1>1, <2>2, <2>3 DEF u
<1>4. CASE o.Percent_Complete = 100
  <2>1. u = [timed EXCEPT !.Status = newStatus, !.Task_Order = o.Task_Order + 1]
    BY <1>4 DEF Uvalidate, TaskRow
  <2> HIDE DEF newStatus
  <2>2. /\ u \in TaskRow /\ u.Task_Order = o.Task_Order + 1
        /\ u.Actual_Time = h /\ u.Status = newStatus
    BY <1>2, <2>1 DEF TaskRow
  <2> HIDE DEF u
  <2>3. Differ(o, u) \subseteq Columns /\ \A c \in Columns \ Differ(o, u) : u[c] = o[c]
    BY DEF Differ
  <2> QED
    BY <1>1, <1>2, <2>2, <2>3 DEF u
<1> QED
  BY <1>3, <1>4

\* A row that is written is a row, with the columns of the object or its own.
LEMMA UpdatedRow ==
  ASSUME task \in [Tasks -> TaskRow], NEW o \in TaskRow, NEW cs, NEW k \in Tasks
  PROVE  /\ Updated(k, o, cs) \in [Tasks -> TaskRow]
         /\ \A c \in Columns :
              Updated(k, o, cs)[k][c] = IF c \in cs THEN o[c] ELSE task[k][c]
         /\ \A j \in Tasks : j # k => Updated(k, o, cs)[j] = task[j]
<1> DEFINE r == [c \in Columns |-> IF c \in cs THEN o[c] ELSE task[k][c]]
<1>1. r \in TaskRow
  BY DEF TaskRow, Columns
<1>2. \A c \in Columns : r[c] = IF c \in cs THEN o[c] ELSE task[k][c]
  OBVIOUS
<1>3. Updated(k, o, cs) = [task EXCEPT ![k] = r]
  BY DEF Updated
<1> HIDE DEF r
<1>4. /\ Updated(k, o, cs) \in [Tasks -> TaskRow]
      /\ Updated(k, o, cs)[k] = r
      /\ \A j \in Tasks : j # k => Updated(k, o, cs)[j] = task[j]
  BY <1>1, <1>3
<1> QED
  BY <1>2, <1>4

\* Some task comes first.
LEMMA MinOfTasks ==
  ASSUME NEW S \in SUBSET Tasks, S # {}
  PROVE  Min(S) \in S /\ \A k \in S : Min(S) <= k
<1>1. S \subseteq Nat
  BY DEF Tasks
<1> DEFINE less == OpToRel(<, Nat)
<1>2. less = {ss \in Nat \X Nat : ss[1] < ss[2]}
  BY DEF OpToRel
<1>3. IsWellFoundedOn(less, Nat)
  BY NatLessThanWellFounded
<1> HIDE DEF less
<1>4. PICK m \in S : \A j \in S : ~(<< j, m >> \in less)
  BY <1>1, <1>3, WFMin
<1>5. ASSUME NEW j \in S
      PROVE  m <= j
  <2>1. j \in Nat /\ m \in Nat
    BY <1>1
  <2>2. << j, m >> \in Nat \X Nat
    BY <2>1
  <2>3. j < m => << j, m >> \in less
    BY <1>2, <2>2
  <2> QED
    BY <1>4, <2>1, <2>3
<1> QED
  BY <1>5 DEF Min

\* The parts of the page, and what is known of its rows.
LEMMA SheetParts ==
  ASSUME OrderInv
  PROVE  /\ sheet \in Sheet
         /\ sheet.kind \in {"none", "form", "list"}
         /\ sheet.rows \in [Tasks -> TaskRow]
         /\ sheet.named \subseteq Users
         /\ sheet.changed \in [Tasks -> SUBSET Fields]
         /\ task \in [Tasks -> TaskRow]
         /\ row \in Tasks
         /\ taskObj \in TaskRow
         /\ saves \in 0 .. MaxSaves
         /\ hours \in [Tasks -> 0 .. MaxHours]
         /\ at \in {"idle", "validate", "write", "delete", "insert"}
  BY DEF OrderInv, TaskTypeOK, Sheet

\* The order of a row is a number.
LEMMA OrderOf ==
  ASSUME NEW r \in TaskRow
  PROVE  r.Task_Order \in 0 .. MaxSaves
  BY DEF TaskRow

\* The first sheets.
LEMMA FreshSheets ==
  ASSUME NEW rows \in [Tasks -> TaskRow]
  PROVE  /\ NoSheet \in Sheet
         /\ NewObj \in TaskRow
         /\ NewObj.Task_Order = 0
         /\ NoSheet.rows \in [Tasks -> TaskRow]
         /\ \A k \in Tasks : NoSheet.rows[k].Task_Order = 0
         /\ [NoSheet EXCEPT !.kind = "list", !.rows = rows] \in Sheet
         /\ [NoSheet EXCEPT !.kind = "list", !.rows = rows].kind = "list"
         /\ [NoSheet EXCEPT !.kind = "list", !.rows = rows].rows = rows
<1>1. NewObj \in TaskRow /\ NewObj.Task_Order = 0
  BY TaskAssumption DEF NewObj, TaskRow, TaskStatuses, Percentages
<1>2. NoSheet \in Sheet /\ NoSheet.rows = [k \in Tasks |-> NewObj]
  BY <1>1 DEF NoSheet, Sheet
<1> QED
  BY <1>1, <1>2 DEF Sheet

\* Before any sheet is shown.
LEMMA TaskInvInit == TasksInit => TaskInv
<1> SUFFICES ASSUME TasksInit PROVE TaskInv
  OBVIOUS
<1>1. AssignInv
  BY AssignInvInit
<1>2. 1 \in Tasks /\ 0 \in 0 .. MaxHours /\ 0 \in 0 .. MaxSaves
  BY TaskAssumption DEF Tasks
<1>3. NewObj \in TaskRow /\ NewObj.Task_Order = 0
  BY TaskAssumption DEF NewObj, TaskRow, TaskStatuses, Percentages
<1>4. task \in [Tasks -> TaskRow] /\ \A k \in Tasks : task[k].Task_Order = 0
  BY <1>3 DEF TasksInit
<1>5. NoSheet \in Sheet /\ \A k \in Tasks : NoSheet.rows[k].Task_Order = 0
  BY <1>4, FreshSheets
<1>6. TaskTypeOK
  BY <1>2, <1>3, <1>4, <1>5 DEF TasksInit, TaskTypeOK
<1>7. OrderInv
  BY <1>2, <1>3, <1>4, <1>5, <1>6 DEF TasksInit, OrderInv, Room
<1>8. PageKept /\ ObjectValidated
  BY NoSheetShape DEF TasksInit, PageKept, ObjectValidated
<1> QED
  BY <1>1, <1>7, <1>8 DEF TaskInv

\* Time is entered while nothing is being saved.
LEMMA EnterTimeKeeps ==
  ASSUME TaskInv, NEW k \in Tasks, EnterTime(k)
  PROVE  OrderInv' /\ PageKept' /\ ObjectValidated'
<1>1. /\ at = "idle"
      /\ UNCHANGED << task, assigned, sheet, at, row, taskObj, changes, saves, asked >>
      /\ hours' \in [Tasks -> 0 .. MaxHours]
  BY SheetParts DEF EnterTime, TaskInv
<1>2. OrderInv'
  BY <1>1 DEF TaskInv, OrderInv, TaskTypeOK, Room
<1> QED
  BY <1>1, <1>2 DEF TaskInv, PageKept, ObjectValidated

\* A form is opened.
LEMMA OpenFormKeeps ==
  ASSUME TaskInv, NEW k \in Tasks, OpenForm(k)
  PROVE  OrderInv' /\ PageKept' /\ ObjectValidated'
<1>1. /\ at = "idle" /\ row' = k
      /\ sheet' = [NoSheet EXCEPT !.kind = "form", !.rows[k] = task[k],
                                  !.named = assigned[k]]
      /\ UNCHANGED << hours, task, assigned, at, taskObj, changes, saves, asked >>
  BY DEF OpenForm
<1>2. /\ task[k] \in TaskRow /\ assigned[k] \in SUBSET Users
      /\ task \in [Tasks -> TaskRow]
      /\ saves \in 0 .. MaxSaves
      /\ task[k].Task_Order <= saves
      /\ at' = "idle"
  BY <1>1, SheetParts DEF TaskInv, OrderInv, TaskTypeOK
<1>3. NoSheet \in Sheet /\ \A j \in Tasks : NoSheet.rows[j].Task_Order = 0
  BY <1>2, FreshSheets
<1>4. /\ sheet' \in Sheet
      /\ sheet'.kind = "form"
      /\ sheet'.rows = [NoSheet.rows EXCEPT ![k] = task[k]]
      /\ NoSheet.rows \in [Tasks -> TaskRow]
  BY <1>1, <1>2, <1>3 DEF Sheet
<1>5. TaskTypeOK'
  BY <1>1, <1>4 DEF TaskInv, OrderInv, TaskTypeOK
<1>6. \A j \in Tasks : sheet'.rows[j].Task_Order <= saves
  BY <1>2, <1>3, <1>4
<1>7. OrderInv'
  BY <1>1, <1>5, <1>6 DEF TaskInv, OrderInv, Room
<1> QED
  BY <1>1, <1>2, <1>4, <1>7 DEF PageKept, ObjectValidated

\* The list is opened.
LEMMA OpenListKeeps ==
  ASSUME TaskInv, OpenList
  PROVE  OrderInv' /\ PageKept' /\ ObjectValidated'
<1>1. /\ at = "idle" /\ row' = 1
      /\ sheet' = [NoSheet EXCEPT !.kind = "list", !.rows = task]
      /\ UNCHANGED << hours, task, assigned, at, taskObj, changes, saves, asked >>
  BY DEF OpenList
<1>2. /\ task \in [Tasks -> TaskRow]
      /\ saves \in 0 .. MaxSaves
      /\ 1 \in Tasks
  BY SheetParts, TaskAssumption DEF TaskInv, Tasks
<1>3. sheet' \in Sheet /\ sheet'.kind = "list" /\ sheet'.rows = task
  BY <1>1, <1>2, FreshSheets
<1>4. TaskTypeOK'
  BY <1>1, <1>2, <1>3 DEF TaskInv, OrderInv, TaskTypeOK
<1>5. OrderInv'
  BY <1>1, <1>3, <1>4 DEF TaskInv, OrderInv, Room
<1> QED
  BY <1>1, <1>3, <1>5 DEF PageKept, ObjectValidated

(***************************************************************************)
(* A page is submitted with the rows new, cs being what has been changed   *)
(* in them by hand.                                                        *)
(***************************************************************************)
Submits(new, cs, who) ==
  /\ new \in [Tasks -> TaskRow]
  /\ cs \in [Tasks -> SUBSET Fields]
  /\ who \in SUBSET Users
  /\ at = "idle" /\ at' = "validate"
  /\ saves < MaxSaves /\ saves' = saves + 1
  /\ sheet.kind \in {"form", "list"}
  /\ row' \in Tasks
  /\ sheet.kind = "form" => row' = row
  /\ sheet' = [sheet EXCEPT !.rows = new, !.named = who, !.changed = cs]
  /\ \A k \in Tasks : new[k].Task_Order = sheet.rows[k].Task_Order
  /\ \A k \in Tasks : \A c \in Columns \ cs[k] : new[k][c] = sheet.rows[k][c]
  /\ taskObj' = NewObj
  /\ asked' \in [Tasks -> SUBSET Users]
  /\ UNCHANGED << hours, task, assigned, changes >>

\* A submission of a page that shows the rows as they are.
LEMMA SubmitKeeps ==
  ASSUME TaskInv, NEW new, NEW cs, NEW who, Submits(new, cs, who)
  PROVE  OrderInv' /\ PageKept' /\ ObjectValidated'
<1> USE DEF Submits
<1>0. OrderInv /\ PageKept
  BY DEF TaskInv
<1>1. /\ sheet' \in Sheet
      /\ sheet'.kind = sheet.kind
      /\ sheet'.rows = new
      /\ sheet'.changed = cs
  BY <1>0, SheetParts DEF Sheet
<1>2. /\ task \in [Tasks -> TaskRow]
      /\ saves \in 0 .. MaxSaves
      /\ NewObj \in TaskRow /\ NewObj.Task_Order = 0
  BY <1>0, SheetParts, FreshSheets
<1>3. MaxSaves \in Nat
  BY TaskAssumption
<1>4. TaskTypeOK'
  BY <1>0, <1>1, <1>2, <1>3 DEF OrderInv, TaskTypeOK
<1>5. /\ Room = saves
      /\ Room' = saves' - 1
      /\ \A k \in Tasks : task[k].Task_Order \in 0 .. MaxSaves
  BY <1>2, OrderOf DEF Room
<1>6. OrderInv'
  BY <1>0, <1>1, <1>2, <1>3, <1>4, <1>5 DEF OrderInv
<1>7. ASSUME NEW k \in ToCome'
      PROVE  sheet.rows[k] = task[k]
  BY <1>0, <1>1, <1>7 DEF ToCome, PageKept
<1>8. PageKept'
  BY <1>1, <1>7 DEF PageKept, ToCome
<1> QED
  BY <1>6, <1>8 DEF ObjectValidated

\* The form is submitted.
LEMMA SaveFormKeeps ==
  ASSUME TaskInv, SaveForm
  PROVE  OrderInv' /\ PageKept' /\ ObjectValidated'
<1>1. /\ at = "idle" /\ sheet.kind = "form"
      /\ saves < MaxSaves /\ saves' = saves + 1
      /\ at' = "validate" /\ taskObj' = NewObj
      /\ UNCHANGED << hours, task, assigned, row, changes >>
  BY DEF SaveForm
<1>2. PICK s \in TaskStatuses, p \in Percentages, h \in 0 .. MaxHours,
           who \in SUBSET Users :
        LET new == [sheet.rows[row] EXCEPT !.Status = s,
                      !.Percent_Complete = p, !.Actual_Time = h]
        IN  /\ sheet' = [sheet EXCEPT
                 !.rows[row] = new, !.named = who,
                 !.changed[row] = Differ(sheet.rows[row], new) \cup
                   IF who = sheet.named THEN {} ELSE {"Task_Assignment"}]
            /\ asked' = [asked EXCEPT ![row] = who]
  BY DEF SaveForm
<1> DEFINE old == sheet.rows[row]
           new == [old EXCEPT !.Status = s,
                     !.Percent_Complete = p, !.Actual_Time = h]
           by == Differ(old, new) \cup
                   IF who = sheet.named THEN {} ELSE {"Task_Assignment"}
           rows == [sheet.rows EXCEPT ![row] = new]
           cs == [sheet.changed EXCEPT ![row] = by]
<1>3. /\ sheet' = [sheet EXCEPT !.rows[row] = new, !.named = who, !.changed[row] = by]
      /\ asked' = [asked EXCEPT ![row] = who]
  BY <1>2
<1>4. /\ sheet.rows \in [Tasks -> TaskRow] /\ row \in Tasks
      /\ old \in TaskRow
      /\ sheet.changed \in [Tasks -> SUBSET Fields]
      /\ sheet \in Sheet
      /\ asked \in [Tasks -> SUBSET Users]
  BY SheetParts DEF TaskInv, OrderInv, TaskTypeOK
<1> HIDE DEF old
<1>4a. IsTyped(old, s, p, h, new)
  BY DEF IsTyped
<1> HIDE DEF new
<1>5. /\ new \in TaskRow
      /\ new.Task_Order = old.Task_Order
      /\ Differ(old, new) \subseteq Fields
      /\ \A c \in Columns \ Differ(old, new) : new[c] = old[c]
  BY <1>4, <1>4a, Typed
<1>6. by \in SUBSET Fields /\ \A c \in Columns \ by : new[c] = old[c]
  BY <1>5 DEF Fields
<1> HIDE DEF by
<1>7. rows \in [Tasks -> TaskRow] /\ cs \in [Tasks -> SUBSET Fields]
  BY <1>4, <1>5, <1>6
<1>8. sheet' = [sheet EXCEPT !.rows = rows, !.named = who, !.changed = cs]
  BY <1>3, <1>4 DEF Sheet
<1>9. \A k \in Tasks : k # row => rows[k] = sheet.rows[k]
  BY <1>4
<1>10. rows[row] = new /\ cs[row] = by
  BY <1>4
<1> HIDE DEF rows, cs
<1>11. \A k \in Tasks : rows[k].Task_Order = sheet.rows[k].Task_Order
  BY <1>5, <1>9, <1>10 DEF old
<1>12. \A k \in Tasks : \A c \in Columns \ cs[k] : rows[k][c] = sheet.rows[k][c]
  BY <1>6, <1>9, <1>10 DEF old
<1>13. asked' \in [Tasks -> SUBSET Users]
  BY <1>3, <1>4
<1>14. row' \in Tasks /\ row' = row /\ sheet.kind \in {"form", "list"}
  BY <1>1, <1>4
<1>15. Submits(rows, cs, who)
  BY <1>1, <1>7, <1>8, <1>11, <1>12, <1>13, <1>14 DEF Submits
<1> QED
  BY <1>15, SubmitKeeps

\* The list is submitted.
LEMMA SaveListKeeps ==
  ASSUME TaskInv, SaveList
  PROVE  OrderInv' /\ PageKept' /\ ObjectValidated'
<1>1. /\ at = "idle" /\ sheet.kind = "list"
      /\ saves < MaxSaves /\ saves' = saves + 1
      /\ at' = "validate" /\ taskObj' = NewObj
      /\ UNCHANGED << hours, task, assigned, changes, asked >>
  BY DEF SaveList
<1>2. PICK s \in [Tasks -> TaskStatuses], p \in [Tasks -> Percentages] :
        LET new == [k \in Tasks |-> [sheet.rows[k] EXCEPT
                      !.Status = s[k], !.Percent_Complete = p[k]]]
            posted == [sheet EXCEPT
              !.rows = new,
              !.changed = [k \in Tasks |-> Differ(sheet.rows[k], new[k])]]
        IN  /\ ToSave(posted) # {}
            /\ sheet' = posted
            /\ row' = Min(ToSave(posted))
  BY DEF SaveList
<1> DEFINE new == [k \in Tasks |-> [sheet.rows[k] EXCEPT
                     !.Status = s[k], !.Percent_Complete = p[k]]]
           cs == [k \in Tasks |-> Differ(sheet.rows[k], new[k])]
           posted == [sheet EXCEPT !.rows = new, !.changed = cs]
<1>3. ToSave(posted) # {} /\ sheet' = posted /\ row' = Min(ToSave(posted))
  BY <1>2
<1>4. /\ sheet.rows \in [Tasks -> TaskRow]
      /\ sheet.named \subseteq Users
      /\ sheet \in Sheet
      /\ asked \in [Tasks -> SUBSET Users]
  BY SheetParts DEF TaskInv, OrderInv, TaskTypeOK
<1>5. row' \in Tasks
  <2>1. ToSave(posted) \in SUBSET Tasks
    BY DEF ToSave
  <2> QED
    BY <1>3, <2>1, MinOfTasks
<1>6. ASSUME NEW k \in Tasks
      PROVE  /\ new[k] \in TaskRow
             /\ new[k].Task_Order = sheet.rows[k].Task_Order
             /\ Differ(sheet.rows[k], new[k]) \subseteq Fields
             /\ \A c \in Columns \ Differ(sheet.rows[k], new[k]) :
                  new[k][c] = sheet.rows[k][c]
  <2> DEFINE old == sheet.rows[k]
  <2>1. /\ old \in TaskRow /\ s[k] \in TaskStatuses /\ p[k] \in Percentages
        /\ 0 \in 0 .. MaxHours
    BY <1>4, TaskAssumption
  <2>2. IsTyped(old, s[k], p[k], 0, new[k])
    BY DEF IsTyped
  <2> HIDE DEF new, old
  <2>3. /\ new[k] \in TaskRow
        /\ new[k].Task_Order = old.Task_Order
        /\ Differ(old, new[k]) \subseteq Fields
        /\ \A c \in Columns \ Differ(old, new[k]) : new[k][c] = old[c]
    BY <2>1, <2>2, Typed
  <2> QED
    BY <2>3 DEF old
<1>7. new \in [Tasks -> TaskRow]
  BY <1>6
<1> HIDE DEF new
<1>8. cs \in [Tasks -> SUBSET Fields] /\ \A k \in Tasks : cs[k] = Differ(sheet.rows[k], new[k])
  BY <1>6
<1>9. sheet' = [sheet EXCEPT !.rows = new, !.named = sheet.named, !.changed = cs]
  BY <1>3, <1>4 DEF Sheet
<1>10. /\ \A k \in Tasks : new[k].Task_Order = sheet.rows[k].Task_Order
       /\ \A k \in Tasks : \A c \in Columns \ cs[k] : new[k][c] = sheet.rows[k][c]
  BY <1>6, <1>8
<1> HIDE DEF cs
<1>11. asked' \in [Tasks -> SUBSET Users] /\ sheet.kind \in {"form", "list"}
       /\ (sheet.kind = "form" => row' = row) /\ sheet.named \in SUBSET Users
  BY <1>1, <1>4
<1>12. Submits(new, cs, sheet.named)
  BY <1>1, <1>5, <1>7, <1>8, <1>9, <1>10, <1>11 DEF Submits
<1> QED
  BY <1>12, SubmitKeeps

\* What the object holds that comes to be validated.
LEMMA TransferGives ==
  ASSUME TaskInv, at = "validate"
  PROVE  LET o == Transfer(taskObj, sheet, row)
         IN  /\ o \in TaskRow
             /\ o.Task_Order + 1 \in 0 .. MaxSaves
             /\ o.Task_Order + 1 <= saves
             /\ sheet.kind \in {"form", "list"}
             /\ row \in ToCome
             /\ \A c \in Columns : (sheet.kind = "form" \/ c # "Actual_Time") =>
                  o[c] = sheet.rows[row][c]
<1> DEFINE o == Transfer(taskObj, sheet, row)
           r == sheet.rows[row]
<1>1. /\ r \in TaskRow /\ taskObj \in TaskRow /\ row \in Tasks
      /\ saves \in 0 .. MaxSaves
      /\ sheet.kind \in {"none", "form", "list"}
  BY SheetParts DEF TaskInv
<1>2. r.Task_Order <= saves - 1
  BY <1>1 DEF TaskInv, OrderInv, Room
<1>3. sheet.kind \in {"form", "list"}
  BY <1>1 DEF TaskInv, AssignInv, OnlyForms
<1>4. row \in ToCome
  BY <1>1, <1>3 DEF ToCome, Tasks
<1>5. o = IF sheet.kind = "form" THEN r
          ELSE [r EXCEPT !.Actual_Time = taskObj.Actual_Time]
  BY DEF Transfer
<1> HIDE DEF o, r
<1>6. o \in TaskRow /\ o.Task_Order = r.Task_Order
  BY <1>1, <1>5 DEF TaskRow
<1>7. \A c \in Columns : (sheet.kind = "form" \/ c # "Actual_Time") => o[c] = r[c]
  BY <1>1, <1>5 DEF TaskRow, Columns
<1>8. r.Task_Order \in 0 .. MaxSaves /\ MaxSaves \in Nat
  BY <1>1, OrderOf, TaskAssumption
<1>9. o.Task_Order + 1 \in 0 .. MaxSaves /\ o.Task_Order + 1 <= saves
  BY <1>1, <1>2, <1>6, <1>8
<1> QED
  BY <1>3, <1>4, <1>6, <1>7, <1>9 DEF o, r

\* The object is validated.
LEMMA ValidateKeeps ==
  ASSUME TaskInv, Validate
  PROVE  OrderInv' /\ PageKept' /\ ObjectValidated'
<1> DEFINE before == Transfer(taskObj, sheet, row)
           after == Uvalidate(before, hours[row])
<1>1. /\ at = "validate" /\ at' = "write"
      /\ taskObj' = after
      /\ changes' = sheet.changed[row] \cup Differ(before, after)
      /\ UNCHANGED << hours, task, assigned, sheet, row, saves, asked >>
  BY DEF Validate
<1>2. /\ before \in TaskRow
      /\ before.Task_Order + 1 \in 0 .. MaxSaves
      /\ before.Task_Order + 1 <= saves
      /\ sheet.kind \in {"form", "list"}
      /\ row \in ToCome
      /\ \A c \in Columns : (sheet.kind = "form" \/ c # "Actual_Time") =>
           before[c] = sheet.rows[row][c]
  BY <1>1, TransferGives
<1> HIDE DEF before
<1>3. /\ hours[row] \in 0 .. MaxHours /\ row \in Tasks
      /\ sheet.changed[row] \subseteq Fields
      /\ saves \in 0 .. MaxSaves
  BY SheetParts DEF TaskInv
<1>4. /\ after \in TaskRow
      /\ after.Task_Order <= before.Task_Order + 1
      /\ after.Actual_Time = hours[row]
      /\ after.Percent_Complete = 100 => after.Status >= Task_Complete
      /\ Differ(before, after) \subseteq Columns
      /\ \A c \in Columns \ Differ(before, after) : after[c] = before[c]
  BY <1>2, <1>3, UvalidateSets
<1> HIDE DEF after
<1>5. changes' \in SUBSET (Fields \cup Columns)
  BY <1>1, <1>3, <1>4
<1>6. TaskTypeOK'
  BY <1>1, <1>4, <1>5 DEF TaskInv, OrderInv, TaskTypeOK
<1>7. taskObj'.Task_Order <= saves
  <2>1. after.Task_Order \in 0 .. MaxSaves
    BY <1>4, OrderOf
  <2>2. before.Task_Order \in 0 .. MaxSaves
    BY <1>2, OrderOf
  <2> QED
    BY <1>1, <1>2, <1>3, <1>4, <2>1, <2>2
<1>8. OrderInv'
  BY <1>1, <1>6, <1>7 DEF TaskInv, OrderInv, Room
<1>9. PageKept'
  BY <1>1 DEF TaskInv, PageKept, ToCome
<1>10. \A c \in Columns \ sheet.changed[row] : sheet.rows[row][c] = task[row][c]
  BY <1>1, <1>2 DEF TaskInv, PageKept
<1>11. ASSUME NEW c \in Columns \ changes', sheet.kind = "form" \/ c # "Actual_Time"
       PROVE  after[c] = task[row][c]
  <2>1. after[c] = before[c]
    BY <1>1, <1>4, <1>11
  <2>2. before[c] = sheet.rows[row][c]
    BY <1>2, <1>11
  <2>3. sheet.rows[row][c] = task[row][c]
    BY <1>1, <1>10, <1>11
  <2> QED
    BY <2>1, <2>2, <2>3
<1>12. ObjectValidated'
  BY <1>1, <1>4, <1>11 DEF ObjectValidated
<1> QED
  BY <1>8, <1>9, <1>12

\* The order of no row exceeds the number of submissions after a write.
LEMMA WriteOrders ==
  ASSUME TaskInv, task' = Updated(row, taskObj, changes)
  PROVE  /\ task' \in [Tasks -> TaskRow]
         /\ \A k \in Tasks : task'[k].Task_Order <= saves
         /\ \A k \in Tasks : k # row => task'[k] = task[k]
         /\ \A c \in Columns :
              task'[row][c] = IF c \in changes THEN taskObj[c] ELSE task[row][c]
<1>1. /\ task \in [Tasks -> TaskRow] /\ taskObj \in TaskRow /\ row \in Tasks
      /\ taskObj.Task_Order <= saves
      /\ \A k \in Tasks : task[k].Task_Order <= saves
  BY SheetParts DEF TaskInv, OrderInv
<1>2. /\ task' \in [Tasks -> TaskRow]
      /\ \A k \in Tasks : k # row => task'[k] = task[k]
      /\ \A c \in Columns :
           task'[row][c] = IF c \in changes THEN taskObj[c] ELSE task[row][c]
  BY <1>1, UpdatedRow
<1>3. task'[row]["Task_Order"] \in {taskObj["Task_Order"], task[row]["Task_Order"]}
  BY <1>2 DEF Columns
<1> QED
  BY <1>1, <1>2, <1>3

\* A row of the list is written, and the next one comes.
LEMMA WriteRowKeeps ==
  ASSUME TaskInv, WriteRow
  PROVE  OrderInv' /\ PageKept' /\ ObjectValidated'
<1> DEFINE rest == {k \in ToSave(sheet) : k > row}
<1>1. /\ at = "write" /\ sheet.kind = "list"
      /\ task' = Updated(row, taskObj, changes)
      /\ at' = IF rest = {} THEN "idle" ELSE "validate"
      /\ row' = IF rest = {} THEN 1 ELSE Min(rest)
      /\ sheet' = IF rest = {}
                  THEN [NoSheet EXCEPT !.kind = "list", !.rows = task']
                  ELSE sheet
      /\ changes' = {}
      /\ UNCHANGED << hours, assigned, taskObj, saves, asked >>
  BY DEF WriteRow
<1>2. /\ task' \in [Tasks -> TaskRow]
      /\ \A k \in Tasks : task'[k].Task_Order <= saves
      /\ \A k \in Tasks : k # row => task'[k] = task[k]
  BY <1>1, WriteOrders
<1>3. rest \in SUBSET Tasks /\ 1 \in Tasks /\ \A k \in rest : k > row
  BY TaskAssumption DEF ToSave, Tasks
<1> HIDE DEF rest
<1>4. /\ row \in Tasks /\ saves \in 0 .. MaxSaves
      /\ sheet \in Sheet
  BY SheetParts DEF TaskInv
<1>5. CASE rest = {}
  <2>1. /\ at' = "idle" /\ row' = 1
        /\ sheet' = [NoSheet EXCEPT !.kind = "list", !.rows = task']
    BY <1>1, <1>5
  <2>2. sheet' \in Sheet /\ sheet'.kind = "list" /\ sheet'.rows = task'
    BY <1>2, <2>1, FreshSheets
  <2>3. TaskTypeOK'
    BY <1>1, <1>2, <1>3, <2>1, <2>2 DEF TaskInv, OrderInv, TaskTypeOK
  <2>4. OrderInv'
    BY <1>1, <1>2, <1>4, <2>1, <2>2, <2>3 DEF TaskInv, OrderInv, Room
  <2> QED
    BY <2>1, <2>2, <2>4 DEF PageKept, ObjectValidated
<1>6. CASE rest # {}
  <2>1. at' = "validate" /\ row' = Min(rest) /\ sheet' = sheet
    BY <1>1, <1>6
  <2>2. row' \in Tasks /\ row' > row
    BY <1>3, <1>6, <2>1, MinOfTasks
  <2>3. TaskTypeOK'
    BY <1>1, <1>2, <2>1, <2>2 DEF TaskInv, OrderInv, TaskTypeOK
  <2>4. OrderInv'
    BY <1>1, <1>2, <2>1, <2>3 DEF TaskInv, OrderInv, Room
  <2>5. ASSUME NEW k \in ToCome'
        PROVE  k \in ToCome /\ task'[k] = task[k]
    BY <1>1, <1>2, <1>4, <2>1, <2>2 DEF ToCome, Tasks
  <2>6. \A k \in ToCome : \A c \in Columns \ sheet.changed[k] :
          sheet.rows[k][c] = task[k][c]
    BY <1>1 DEF TaskInv, PageKept
  <2>7. PageKept'
    BY <2>1, <2>5, <2>6 DEF PageKept
  <2> QED
    BY <2>1, <2>4, <2>7 DEF ObjectValidated
<1> QED
  BY <1>5, <1>6

\* The row of the form is written.
LEMMA WriteFormKeeps ==
  ASSUME TaskInv, WriteForm
  PROVE  OrderInv' /\ PageKept' /\ ObjectValidated'
<1>1. /\ at = "write" /\ sheet.kind = "form"
      /\ task' = Updated(row, taskObj, changes)
      /\ at' = IF changes = {} THEN "idle" ELSE "delete"
      /\ sheet' = [sheet EXCEPT !.rows[row] = task'[row], !.changed[row] = {}]
      /\ changes' = {}
      /\ UNCHANGED << hours, assigned, row, taskObj, saves, asked >>
  BY DEF WriteForm
<1>2. /\ task' \in [Tasks -> TaskRow]
      /\ \A k \in Tasks : task'[k].Task_Order <= saves
  BY <1>1, WriteOrders
<1>3. /\ row \in Tasks /\ saves \in 0 .. MaxSaves
      /\ sheet \in Sheet
      /\ sheet.rows \in [Tasks -> TaskRow]
      /\ at' \in {"idle", "delete"}
  BY <1>1, SheetParts DEF TaskInv
<1>4. /\ sheet' \in Sheet
      /\ sheet'.kind = "form"
      /\ sheet'.rows = [sheet.rows EXCEPT ![row] = task'[row]]
  BY <1>1, <1>2, <1>3 DEF Sheet
<1>5. TaskTypeOK'
  BY <1>1, <1>2, <1>3, <1>4 DEF TaskInv, OrderInv, TaskTypeOK
<1>6. ASSUME NEW k \in Tasks
      PROVE  sheet'.rows[k].Task_Order <= saves
  <2>1. sheet.rows[k].Task_Order <= saves - 1
    BY <1>1 DEF TaskInv, OrderInv, Room
  <2>2. sheet.rows[k].Task_Order \in 0 .. MaxSaves
    BY <1>3, OrderOf
  <2>3. sheet.rows[k].Task_Order <= saves
    BY <1>3, <2>1, <2>2
  <2> QED
    BY <1>2, <1>3, <1>4, <2>3
<1>7. OrderInv'
  BY <1>1, <1>2, <1>3, <1>5, <1>6 DEF TaskInv, OrderInv, Room
<1>8. sheet'.rows[row'] = task'[row']
  BY <1>1, <1>3, <1>4
<1> QED
  BY <1>3, <1>4, <1>7, <1>8 DEF PageKept, ObjectValidated

\* The assignments are written.
LEMMA AssignmentKeeps ==
  ASSUME TaskInv, DeleteAssignment \/ SetAssignment
  PROVE  OrderInv' /\ PageKept' /\ ObjectValidated'
<1>1. /\ UNCHANGED << hours, task, sheet, row, taskObj, changes, saves, asked >>
      /\ at \in {"delete", "insert"} /\ at' \in {"insert", "idle"}
  BY DEF DeleteAssignment, SetAssignment
<1>2. sheet.kind = "form"
  BY <1>1 DEF TaskInv, AssignInv, OnlyForms
<1>3. assigned' \in [Tasks -> SUBSET Users]
  BY SheetParts DEF DeleteAssignment, SetAssignment, TaskInv, OrderInv, TaskTypeOK
<1>4. TaskTypeOK'
  BY <1>1, <1>3 DEF TaskInv, OrderInv, TaskTypeOK
<1>5. OrderInv'
  BY <1>1, <1>4 DEF TaskInv, OrderInv, Room
<1>6. PageKept' /\ ObjectValidated'
  BY <1>1, <1>2 DEF TaskInv, PageKept, ObjectValidated
<1> QED
  BY <1>5, <1>6

\* Every step keeps the invariant.
LEMMA TaskInvNext == TaskInv /\ [TasksNext]_taskVars => TaskInv'
<1> SUFFICES ASSUME TaskInv, [TasksNext]_taskVars PROVE TaskInv'
  OBVIOUS
<1>1. AssignInv'
  BY AssignInvNext DEF TaskInv
<1>2. CASE TasksNext
  <2>1. OrderInv' /\ PageKept' /\ ObjectValidated'
    BY <1>2, EnterTimeKeeps, OpenFormKeeps, OpenListKeeps, SaveFormKeeps,
       SaveListKeeps, ValidateKeeps, WriteRowKeeps, WriteFormKeeps,
       AssignmentKeeps DEF TasksNext
  <2> QED
    BY <1>1, <2>1 DEF TaskInv
<1>3. CASE UNCHANGED taskVars
  <2>1. OrderInv'
    BY <1>3 DEF taskVars, TaskInv, OrderInv, TaskTypeOK, Room
  <2>2. PageKept' /\ ObjectValidated'
    BY <1>3 DEF taskVars, TaskInv, PageKept, ObjectValidated, ToCome
  <2> QED
    BY <1>1, <2>1, <2>2 DEF TaskInv
<1> QED
  BY <1>2, <1>3

\* What a write puts into the row is what was validated.
LEMMA WritesValidated ==
  ASSUME TaskInv, [TasksNext]_taskVars, at = "write", at' # "write"
  PROVE  /\ task'[row].Percent_Complete = 100 =>
              task'[row].Status >= Task_Complete
         /\ sheet.kind = "form" => task'[row].Actual_Time = hours[row]
<1>1. task' = Updated(row, taskObj, changes)
  BY DEF TasksNext, taskVars, EnterTime, OpenForm, OpenList, SaveForm, SaveList,
     Validate, WriteRow, WriteForm, DeleteAssignment, SetAssignment
<1>2. /\ taskObj.Percent_Complete = 100 => taskObj.Status >= Task_Complete
      /\ taskObj.Actual_Time = hours[row]
      /\ \A c \in Columns \ changes :
           (sheet.kind = "form" \/ c # "Actual_Time") => taskObj[c] = task[row][c]
  BY DEF TaskInv, ObjectValidated
<1>3. \A c \in Columns :
        task'[row][c] = IF c \in changes THEN taskObj[c] ELSE task[row][c]
  BY <1>1, WriteOrders
<1>4. ASSUME NEW c \in Columns, sheet.kind = "form" \/ c # "Actual_Time"
      PROVE  task'[row][c] = taskObj[c]
  BY <1>2, <1>3, <1>4
<1>5. /\ task'[row]["Percent_Complete"] = taskObj["Percent_Complete"]
      /\ task'[row]["Status"] = taskObj["Status"]
      /\ sheet.kind = "form" => task'[row]["Actual_Time"] = taskObj["Actual_Time"]
  BY <1>4 DEF Columns
<1> QED
  BY <1>2, <1>5

(***************************************************************************)
(* What is stored of a task has the types of its columns, and its place in *)
(* the list grows by no more than one per submission.                      *)
(***************************************************************************)
THEOREM TaskTypesHold == TasksSpec => []TaskTypeOK
<1>1. TaskInv => TaskTypeOK
  BY DEF TaskInv, OrderInv
<1> QED
  BY TaskInvInit, TaskInvNext, <1>1, PTL DEF TasksSpec

(***************************************************************************)
(* Whatever was changed by hand, and in whatever order forms, lists and    *)
(* times are submitted: a row that is written as done to 100 % is          *)
(* complete, and after its form its Actual_Time is the sum of its times.   *)
(***************************************************************************)
THEOREM ValidatedReachesRow == TasksSpec => ValidatedIsWritten
<1>1. TaskInv /\ [TasksNext]_taskVars =>
        [ at = "write" /\ at' # "write" =>
            /\ task'[row].Percent_Complete = 100 =>
                 task'[row].Status >= Task_Complete
            /\ sheet.kind = "form" => task'[row].Actual_Time = hours[row] ]_taskVars
  BY WritesValidated
<1> QED
  BY TaskInvInit, TaskInvNext, <1>1, PTL DEF TasksSpec, ValidatedIsWritten

-----------------------------------------------------------------------------
(* Billing.                                                                *)

\* One submission at a time, as long as nobody uses an old page.
Alone ==
  current => \A b, c \in Tabs : (stage[b] # "idle" /\ stage[c] # "idle") => b = c

\* The page of a submission is one of an invoice.
OfInvoice ==
  \A b \in Tabs :
    /\ stage[b] # "idle" => page[b].of \in Invoices
    /\ (current /\ stage[b] = "times") => read[b] = status[page[b].of]

\* Time t and its invoice agree.
Agree(t) == worked[t] = IF invoice[t] = NoInvoice THEN "pre" ELSE status[invoice[t]]

\* The times that wait for setTimeStatus are those of the invoice submitted.
OthersAgree ==
  current => \A t \in Times :
    Agree(t) \/ \E b \in Tabs : stage[b] # "idle" /\ invoice[t] = page[b].of

BillingInv == BillingTypeOK /\ Alone /\ OfInvoice /\ OthersAgree

\* What a form of an invoice displays is a page.
LEMMA DisplayIsPage ==
  ASSUME NEW i \in Invoices, NEW s, NEW w
  PROVE  /\ Display(i, s, w) \in Page
         /\ Display(i, s, w).of = i
         /\ Display(i, s, w).boxes = IF s = "pre" THEN Listed(i, s, w) ELSE {}
         /\ Display(i, s, w).checked =
              {t \in Display(i, s, w).boxes : invoice[t] # NoInvoice}
  BY DEF Display, Listed, Page

\* A page that is not the empty one is one of an invoice.
LEMMA PageParts ==
  ASSUME BillingTypeOK, NEW b \in Tabs
  PROVE  /\ page[b] # NoPage => page[b] \in Page /\ page[b].of \in Invoices
         /\ page[b].boxes \subseteq Times /\ page[b].checked \subseteq Times
         /\ page[b].boxes # {} => page[b] # NoPage
<1>1. page[b] \in Page \cup {NoPage}
  BY DEF BillingTypeOK
<1>2. page[b] \in Page => /\ page[b].of \in Invoices
                          /\ page[b].boxes \in SUBSET Times
                          /\ page[b].checked \in SUBSET Times
  BY DEF Page
<1>3. NoPage.boxes = {} /\ NoPage.checked = {}
  BY DEF NoPage
<1>4. page[b].boxes # {} => page[b] # NoPage
  BY <1>3
<1>5. page[b].boxes \subseteq Times /\ page[b].checked \subseteq Times
  BY <1>1, <1>2, <1>3
<1> QED
  BY <1>1, <1>2, <1>4, <1>5

\* Billing begins with no times on an invoice.
LEMMA BillingInvInit == BillingInit => BillingInv
<1> SUFFICES ASSUME BillingInit PROVE BillingInv
  OBVIOUS
<1>1. BillingTypeOK
  BY DEF BillingInit, BillingTypeOK, Statuses
<1>2. Alone /\ OfInvoice
  BY DEF BillingInit, Alone, OfInvoice
<1>3. OthersAgree
  BY DEF BillingInit, OthersAgree, Agree
<1> QED
  BY <1>1, <1>2, <1>3 DEF BillingInv

(***************************************************************************)
(* A click on a checkbox of a fresh page concerns a time of that invoice,  *)
(* or of none, and an invoice that is not locked: the time has status      *)
(* "pre" before, and agrees with where it is put.                          *)
(***************************************************************************)
LEMMA ClickAgrees ==
  ASSUME BillingInv, NEW b \in Tabs, NEW t \in Times, Click(b, t), current
  PROVE  /\ status[page[b].of] = "pre"
         /\ worked[t] = "pre"
<1>1. t \in page[b].boxes /\ Fresh(b) /\ NoSubmission
  BY DEF Click, Usable
<1>2. page[b].of \in Invoices
  BY <1>1, PageParts DEF BillingInv
<1> DEFINE i == page[b].of
<1>3. page[b] = Display(i, status[i], worked)
  BY <1>1 DEF Fresh
<1> HIDE DEF i
<1>4. i \in Invoices /\ page[b].boxes = IF status[i] = "pre"
                                          THEN Listed(i, status[i], worked) ELSE {}
  BY <1>2, <1>3, DisplayIsPage DEF i
<1>5. status[i] = "pre" /\ t \in Listed(i, status[i], worked)
  BY <1>1, <1>4
<1>6. Agree(t)
  BY <1>1 DEF BillingInv, OthersAgree, NoSubmission
<1>7. worked[t] = "pre"
  BY <1>4, <1>5, <1>6, BillingAssumption DEF Listed, Agree
<1> QED
  BY <1>5, <1>7 DEF i

\* Every step keeps the invariant.
LEMMA BillingInvNext == BillingInv /\ [BillingNext]_billingVars => BillingInv'
<1> SUFFICES ASSUME BillingInv, [BillingNext]_billingVars PROVE BillingInv'
  OBVIOUS
<1>0. BillingTypeOK /\ Alone /\ OfInvoice /\ OthersAgree
  BY DEF BillingInv
<1>1. ASSUME NEW b \in Tabs, NEW i \in Invoices, ShowInvoice(b, i) PROVE BillingInv'
  <2> DEFINE shown == Display(i, status[i], worked)
  <2>1. shown \in Page
    BY DisplayIsPage
  <2> HIDE DEF shown
  <2>2. /\ page' = [page EXCEPT ![b] = shown]
        /\ UNCHANGED << current, status, invoice, worked, stage, read >>
        /\ stage[b] = "idle"
    BY <1>1 DEF ShowInvoice, Usable, shown
  <2>3. BillingTypeOK'
    BY <1>0, <2>1, <2>2 DEF BillingTypeOK
  <2>4. \A c \in Tabs : stage[c] # "idle" => page'[c] = page[c]
    BY <1>0, <2>2 DEF BillingTypeOK
  <2>5. Alone' /\ OfInvoice'
    BY <1>0, <2>2, <2>4 DEF Alone, OfInvoice
  <2>6. OthersAgree'
    BY <1>0, <2>2, <2>4 DEF OthersAgree, Agree
  <2> QED
    BY <2>3, <2>5, <2>6 DEF BillingInv
<1>2. ASSUME NEW b \in Tabs, NEW t \in Times, Click(b, t) PROVE BillingInv'
  <2> DEFINE to == IF t \in page[b].checked THEN NoInvoice ELSE page[b].of
             checked == IF t \in page[b].checked THEN page[b].checked \ {t}
                                                 ELSE page[b].checked \cup {t}
  <2>1. page[b] \in Page /\ page[b].of \in Invoices
    BY <1>0, <1>2, PageParts DEF Click
  <2>2. to \in Invoices \cup {NoInvoice} /\ checked \in SUBSET Times
    BY <2>1 DEF Page
  <2>3. /\ invoice' = [invoice EXCEPT ![t] = to]
        /\ page' = [page EXCEPT ![b].checked = checked]
        /\ UNCHANGED << current, status, worked, stage, read >>
    BY <1>0, <1>2 DEF Click, BillingTypeOK
  <2>4. to = NoInvoice \/ to = page[b].of
    OBVIOUS
  <2> HIDE DEF to, checked
  <2>5. /\ page' \in [Tabs -> Page \cup {NoPage}]
        /\ \A c \in Tabs : page'[c].of = page[c].of
    BY <1>0, <2>1, <2>2, <2>3 DEF BillingTypeOK, Page
  <2>6. /\ invoice' \in [Times -> Invoices \cup {NoInvoice}]
        /\ invoice'[t] = to
        /\ \A u \in Times : u # t => invoice'[u] = invoice[u]
    BY <1>0, <2>2, <2>3 DEF BillingTypeOK
  <2>7. BillingTypeOK'
    BY <1>0, <2>3, <2>5, <2>6 DEF BillingTypeOK
  <2>8. Alone' /\ OfInvoice'
    BY <1>0, <2>3, <2>5 DEF Alone, OfInvoice
  <2>9. ASSUME current
        PROVE  \A u \in Times : Agree(u)'
    <3>1. NoSubmission
      BY <1>2, <2>9 DEF Click, Usable
    <3>2. status[page[b].of] = "pre" /\ worked[t] = "pre"
      BY <1>2, <2>9, ClickAgrees
    <3>3. Agree(t)'
      BY <2>1, <2>3, <2>4, <2>6, <3>2, BillingAssumption DEF Agree
    <3>4. \A u \in Times : Agree(u)
      BY <1>0, <2>9, <3>1 DEF OthersAgree, NoSubmission
    <3>5. \A u \in Times : u # t => Agree(u)'
      BY <2>3, <2>6, <3>4 DEF Agree
    <3> QED
      BY <3>3, <3>5
  <2>10. OthersAgree'
    BY <2>3, <2>9 DEF OthersAgree
  <2> QED
    BY <2>7, <2>8, <2>10 DEF BillingInv
<1>3. ASSUME NEW b \in Tabs, NEW s \in Statuses, SubmitStatus(b, s) PROVE BillingInv'
  <2> DEFINE i == page[b].of
  <2>1. i \in Invoices
    BY <1>0, <1>3, PageParts DEF SubmitStatus
  <2>2. /\ status' = [status EXCEPT ![i] = s]
        /\ stage' = [stage EXCEPT ![b] = "reread"]
        /\ read' = [read EXCEPT ![b] = s]
        /\ UNCHANGED << current, invoice, worked, page >>
        /\ stage[b] = "idle" /\ (current => NoSubmission)
    BY <1>3 DEF SubmitStatus, Usable
  <2> HIDE DEF i
  <2>3. BillingTypeOK'
    BY <1>0, <2>2 DEF BillingTypeOK
  <2>4. /\ stage'[b] = "reread"
        /\ \A c \in Tabs : c # b => stage'[c] = stage[c]
        /\ \A j \in Invoices : j # i => status'[j] = status[j]
        /\ \A c \in Tabs : c # b => read'[c] = read[c]
    BY <1>0, <2>2 DEF BillingTypeOK
  <2>5. Alone'
    BY <2>2, <2>4 DEF Alone, NoSubmission
  <2>6. OfInvoice'
    BY <1>0, <2>1, <2>2, <2>4 DEF OfInvoice, NoSubmission, i
  <2>7. ASSUME current, NEW t \in Times, invoice[t] # i
        PROVE  Agree(t)'
    <3>1. Agree(t)
      BY <1>0, <2>2, <2>7 DEF OthersAgree, NoSubmission
    <3>2. invoice[t] \in Invoices \cup {NoInvoice}
      BY <1>0 DEF BillingTypeOK
    <3> QED
      BY <2>2, <2>4, <2>7, <3>1, <3>2 DEF Agree
  <2>8. OthersAgree'
    BY <2>2, <2>4, <2>7 DEF OthersAgree, i
  <2> QED
    BY <2>3, <2>5, <2>6, <2>8 DEF BillingInv
<1>4. ASSUME NEW b \in Tabs, RereadInvoice(b) PROVE BillingInv'
  <2>1. /\ stage[b] = "reread" /\ stage' = [stage EXCEPT ![b] = "times"]
        /\ \/ read' = [read EXCEPT ![b] = status[page[b].of]]
           \/ ~current /\ UNCHANGED read
        /\ UNCHANGED << current, status, invoice, worked, page >>
    BY <1>4 DEF RereadInvoice
  <2>2. page[b].of \in Invoices
    BY <1>0, <2>1 DEF OfInvoice
  <2>3. BillingTypeOK'
    BY <1>0, <2>1, <2>2 DEF BillingTypeOK
  <2>4. \A c \in Tabs : stage'[c] # "idle" <=> stage[c] # "idle"
    BY <1>0, <2>1 DEF BillingTypeOK
  <2>5. Alone'
    BY <1>0, <2>1, <2>4 DEF Alone
  <2>6. OfInvoice'
    BY <1>0, <2>1, <2>2, <2>4 DEF OfInvoice, BillingTypeOK
  <2>7. OthersAgree'
    BY <1>0, <2>1, <2>4 DEF OthersAgree, Agree
  <2> QED
    BY <2>3, <2>5, <2>6, <2>7 DEF BillingInv
<1>5. ASSUME NEW b \in Tabs, SetTimeStatus(b) PROVE BillingInv'
  <2> DEFINE i == page[b].of
             shown == Display(i, read[b], worked')
  <2>1. /\ stage[b] = "times" /\ stage' = [stage EXCEPT ![b] = "idle"]
        /\ \/ worked' = WithStatus(i, read[b])
           \/ ~current /\ UNCHANGED worked
        /\ page' = [page EXCEPT ![b] = shown]
        /\ read' = [read EXCEPT ![b] = "pre"]
        /\ UNCHANGED << current, status, invoice >>
    BY <1>5 DEF SetTimeStatus
  <2>2. i \in Invoices /\ (current => read[b] = status[i])
    BY <1>0, <2>1 DEF OfInvoice
  <2> HIDE DEF i
  <2>3. shown \in Page
    BY <2>2, DisplayIsPage
  <2> HIDE DEF shown
  <2>4. worked' \in [Times -> Statuses]
    BY <1>0, <2>1 DEF BillingTypeOK, WithStatus
  <2>5. BillingTypeOK'
    BY <1>0, <2>1, <2>3, <2>4 DEF BillingTypeOK, Statuses
  <2>6. /\ stage'[b] = "idle"
        /\ \A c \in Tabs : c # b => stage'[c] = stage[c] /\ page'[c] = page[c]
                                    /\ read'[c] = read[c]
    BY <1>0, <2>1 DEF BillingTypeOK
  <2>7. Alone' /\ OfInvoice'
    BY <1>0, <2>1, <2>6 DEF Alone, OfInvoice
  <2>8. ASSUME current, NEW t \in Times
        PROVE  Agree(t)'
    <3>1. \A c \in Tabs : c # b => stage[c] = "idle"
      BY <1>0, <2>1, <2>8 DEF Alone
    <3>2. Agree(t) \/ invoice[t] = i
      BY <1>0, <2>8, <3>1 DEF OthersAgree, i
    <3>3. worked'[t] = IF invoice[t] = i THEN status[i] ELSE worked[t]
      BY <2>1, <2>2, <2>8 DEF WithStatus
    <3> QED
      BY <2>1, <2>2, <3>2, <3>3, BillingAssumption DEF Agree
  <2>9. OthersAgree'
    BY <2>1, <2>8 DEF OthersAgree
  <2> QED
    BY <2>5, <2>7, <2>9 DEF BillingInv
<1>6. ASSUME NEW b \in Tabs, SubmissionDies(b) PROVE BillingInv'
  <2>1. /\ ~current /\ ~current'
        /\ stage' = [stage EXCEPT ![b] = "idle"]
        /\ read' = [read EXCEPT ![b] = "pre"]
        /\ UNCHANGED << status, invoice, worked, page >>
    BY <1>6 DEF SubmissionDies
  <2>2. BillingTypeOK'
    BY <1>0, <1>6, <2>1 DEF BillingTypeOK, Statuses, SubmissionDies
  <2>3. OfInvoice'
    BY <1>0, <2>1 DEF OfInvoice, BillingTypeOK
  <2> QED
    BY <2>1, <2>2, <2>3 DEF BillingInv, Alone, OthersAgree
<1>7. CASE UNCHANGED billingVars
  BY <1>0, <1>7 DEF billingVars, BillingInv, BillingTypeOK, Alone, OfInvoice,
     OthersAgree, Agree
<1> QED
  BY <1>1, <1>2, <1>3, <1>4, <1>5, <1>6, <1>7 DEF BillingNext

(***************************************************************************)
(* The status of every time is that of its invoice, whenever no submission *)
(* is under way: for any number of tabs, invoices and times, as long as    *)
(* nobody uses an old page, no statement fails and no submissions overlap. *)
(***************************************************************************)
THEOREM TimesFollow == BillingSpec => []TimeFollowsInvoice
<1>1. BillingInv => TimeFollowsInvoice
  BY DEF BillingInv, OthersAgree, Agree, NoSubmission, TimeFollowsInvoice
<1> QED
  BY BillingInvInit, BillingInvNext, <1>1, PTL DEF BillingSpec

(***************************************************************************)
(* Whoever uses an old page, and whatever overlaps or dies: an invoice, a  *)
(* time and a page have a status that the program knows, and a time is on  *)
(* an invoice that there is, or on none (InvoiceUI.cpp).                   *)
(***************************************************************************)
THEOREM BillingTypesHold == BillingSpec => []BillingTypeOK
<1>1. BillingInv => BillingTypeOK
  BY DEF BillingInv
<1> QED
  BY BillingInvInit, BillingInvNext, <1>1, PTL DEF BillingSpec

-----------------------------------------------------------------------------
(* Side by side.                                                           *)

\* What TLC checks of the console, whose parts stand beside each other, is
\* what the theorems are about: a behaviour of it is one of each part.
LEMMA ConsoleIsItsParts ==
  ConsoleSpec => RebatesSpec /\ BillingSpec /\ TasksSpec /\ AccessSpec
<1>1. ConsoleInit => RebatesInit /\ BillingInit /\ TasksInit /\ AccessInit
  BY DEF ConsoleInit
<1>2. [ConsoleNext]_consoleVars => /\ [RebatesNext]_rebateVars
                                   /\ [BillingNext]_billingVars
                                   /\ [TasksNext]_taskVars
                                   /\ [AccessNext]_accessVars
  BY DEF ConsoleNext, consoleVars
<1> QED
  BY <1>1, <1>2, PTL
     DEF ConsoleSpec, RebatesSpec, BillingSpec, TasksSpec, AccessSpec

\* ConsoleTypeOK holds for any pages, tables and objects.
THEOREM ConsoleTypesHold == ConsoleSpec => []ConsoleTypeOK
<1>1. RebatesTypeOK /\ BillingTypeOK /\ TaskTypeOK /\ AccessTypeOK => ConsoleTypeOK
  BY DEF ConsoleTypeOK
<1> QED
  BY <1>1, ConsoleIsItsParts, RebatesTypesHold, BillingTypesHold, TaskTypesHold,
     AccessTypesHold, PTL
=============================================================================
