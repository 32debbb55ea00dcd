--------------------------- MODULE Browser_proofs ---------------------------
(***************************************************************************)
(* Proofs about what the pages of a browser share: the two cookies of the  *)
(* forms (FormPages) and the session of the lists and trees (Sessions).    *)
(* They hold for any number of tabs, frames, fields, rows, lists, requests *)
(* and sessions.                                                           *)
(***************************************************************************)
EXTENDS MCBrowser, TLAPS

\* Pages, requests and cookies name no key that has not been given out.
KeysIssued ==
  /\ key <= issued
  /\ \A b \in Tabs : /\ form[b].id <= issued /\ posted[b].form.id <= issued
                     /\ cookies[b].key <= issued

\* A page that asks for a delete names the row, and the user wants it gone.
DeletesWanted ==
  \A b \in Tabs : posted[b].mode = "d" =>
    posted[b].form.id # 0 /\ wanted[posted[b].form.id] = NoRow

FormInv == FormTypeOK /\ KeysIssued /\ DeletesWanted /\ NothingGoneUnasked

\* The empty form and a page nobody has posted are of their types.
LEMMA EmptyFormType ==
  /\ EmptyForm \in Form /\ EmptyForm.id = 0 /\ EmptyForm.vals \in Row
  /\ NothingPosted \in Posted /\ NothingPosted.form.id = 0
  /\ NothingPosted.mode = "get"
<1>1. [f \in Fields |-> Blank] \in Row
  BY FormAssumption DEF Row
<1>2. EmptyForm \in Form /\ EmptyForm.id = 0 /\ EmptyForm.vals \in Row
  BY <1>1 DEF EmptyForm, Form
<1> QED
  BY <1>2 DEF NothingPosted, Posted

\* The invariant holds before any page is open.
LEMMA FormInvInit == FormInit => FormInv
<1> SUFFICES ASSUME FormInit PROVE FormInv
  OBVIOUS
<1>1. rows \in [Keys -> Row \cup {NoRow}]
  BY EmptyFormType DEF FormInit
<1>2. 1 \in 0 .. MaxRows /\ 0 \in 0 .. MaxPresses
  BY FormAssumption
<1>3. FormTypeOK
  BY <1>1, <1>2, EmptyFormType DEF FormInit, FormTypeOK
<1>4. KeysIssued /\ DeletesWanted
  BY EmptyFormType DEF FormInit, KeysIssued, DeletesWanted
<1> QED
  BY <1>3, <1>4 DEF FormInv, NothingGoneUnasked, FormInit

\* The page leaves, for a request that is as good as the last.
LEMMA LeaveKeeps ==
  ASSUME FormInv, NEW b \in Tabs, Leave(b),
         UNCHANGED << patient, rows, issued, cookies, key >>,
         mode' \in Modes \cup {"s", "none"}, presses' \in 0 .. MaxPresses,
         posted' \in [Tabs -> Posted],
         \A c \in Tabs : posted'[c].form.id <= issued,
         wanted' \in [Keys -> Row \cup {NoRow}],
         \A k \in 1 .. issued : wanted[k] = NoRow => wanted'[k] = NoRow,
         \A c \in Tabs : posted'[c].mode = "d" =>
           posted'[c].form.id # 0 /\ wanted'[posted'[c].form.id] = NoRow
  PROVE  FormInv'
<1> USE DEF FormInv, Leave, To
<1>1. FormTypeOK'
  BY EmptyFormType DEF FormTypeOK
<1>2. KeysIssued'
  BY EmptyFormType DEF FormTypeOK, KeysIssued
<1>3. DeletesWanted' /\ NothingGoneUnasked'
  BY DEF DeletesWanted, NothingGoneUnasked
<1> QED
  BY <1>1, <1>2, <1>3

\* The server answers, with a table in which only what was wanted is gone.
LEMMA AnswerKeeps ==
  ASSUME FormInv, NEW b \in Tabs, NEW f \in Form, f.id <= issued',
         form' = [form EXCEPT ![b] = f],
         cookies' = [cookies EXCEPT ![b] = [mode |-> "none", key |-> 0]],
         To(b, "arrived"),
         UNCHANGED << patient, mode, key, posted, presses, wanted >>,
         issued' \in issued .. MaxRows,
         rows' \in [Keys -> Row \cup {NoRow}], NothingGoneUnasked'
  PROVE  FormInv'
<1> USE DEF FormInv, To
<1>1. issued \in 0 .. MaxRows /\ issued' \in 0 .. MaxRows
  BY FormAssumption DEF FormTypeOK
<1>2. cookies' \in [Tabs -> [mode : Modes \cup {"s", "none"},
                             key : Keys \cup {0}]]
  BY DEF FormTypeOK
<1>3. FormTypeOK'
  BY <1>1, <1>2 DEF FormTypeOK
<1>4. KeysIssued'
  <2>0. key \in Keys \cup {0} /\ key <= issued
    BY DEF FormTypeOK, KeysIssued
  <2>1. key' <= issued'
    BY <1>1, <2>0 DEF Keys
  <2> SUFFICES ASSUME NEW c \in Tabs
               PROVE  /\ form'[c].id <= issued' /\ posted[c].form.id <= issued'
                      /\ cookies'[c].key <= issued'
    BY <2>1 DEF KeysIssued
  <2>2. /\ posted[c].form.id \in Keys \cup {0} /\ form[c].id \in Keys \cup {0}
        /\ cookies[c].key \in Keys \cup {0}
    BY DEF FormTypeOK, Form, Posted
  <2>3. /\ posted[c].form.id <= issued /\ form[c].id <= issued
        /\ cookies[c].key <= issued
    BY DEF KeysIssued
  <2>4. /\ form'[c] = IF c = b THEN f ELSE form[c]
        /\ cookies'[c].key = IF c = b THEN 0 ELSE cookies[c].key
    BY DEF FormTypeOK
  <2> QED
    BY <1>1, <2>2, <2>3, <2>4 DEF Keys
<1>5. DeletesWanted'
  BY DEF DeletesWanted
<1> QED
  BY <1>3, <1>4, <1>5

\* The page for a key that has been given out.
LEMMA ShownType ==
  ASSUME NEW t \in [Keys -> Row \cup {NoRow}], NEW k \in Keys \cup {0},
         NEW vals \in Row
  PROVE  Shown(k, t, vals) \in Form /\ Shown(k, t, vals).id = k
<1>1. k # 0 /\ t[k] # NoRow => t[k] \in Row
  OBVIOUS
<1> QED
  BY <1>1 DEF Shown, Form

\* An update gives a row another content, and no row comes or goes.
LEMMA UpdatedType ==
  ASSUME rows \in [Keys -> Row \cup {NoRow}], NEW k, NEW f \in Form
  PROVE  /\ Updated(k, f) \in [Keys -> Row \cup {NoRow}]
         /\ \A i \in Keys : Updated(k, f)[i] = NoRow <=> rows[i] = NoRow
<1>1. CASE rows[k] = NoRow \/ k \notin Keys
  BY <1>1 DEF Updated
<1>2. CASE rows[k] # NoRow /\ k \in Keys
  <2> DEFINE new == [x \in Fields |-> IF x \in f.changed THEN f.vals[x]
                                                       ELSE rows[k][x]]
  <2>1. rows[k] \in Row /\ f.vals \in Row
    BY <1>2 DEF Form
  <2>2. new \in Row /\ new # NoRow
    <3>1. new \in Row
      BY <2>1 DEF Row
    <3> QED
      BY <3>1, FormAssumption
  <2>3. Updated(k, f) = [rows EXCEPT ![k] = new]
    BY <1>2 DEF Updated
  <2> HIDE DEF new
  <2> QED
    BY <1>2, <2>2, <2>3
<1> QED
  BY <1>1, <1>2

\* Every step keeps the invariant.
LEMMA FormInvNext == FormInv /\ [FormNext]_formVars => FormInv'
<1> SUFFICES ASSUME FormInv, [FormNext]_formVars PROVE FormInv'
  OBVIOUS
<1>0. FormTypeOK /\ issued \in 0 .. MaxRows /\ MaxRows \in Nat
  BY FormAssumption DEF FormInv, FormTypeOK
<1>1. ASSUME NEW b \in Tabs, OpenPage(b) PROVE FormInv'
  <2>1. PICK k \in 0 .. issued : posted' = [posted EXCEPT ![b] =
          [mode |-> "get", form |-> [EmptyForm EXCEPT !.id = k]]]
    BY <1>1 DEF OpenPage
  <2>2. k \in Keys \cup {0}
    BY <1>0 DEF Keys
  <2> DEFINE p == [mode |-> "get", form |-> [EmptyForm EXCEPT !.id = k]]
  <2>3. p \in Posted /\ p.mode = "get" /\ p.form.id = k
    <3>1. [EmptyForm EXCEPT !.id = k] \in Form
          /\ [EmptyForm EXCEPT !.id = k].id = k
      BY <2>2, EmptyFormType DEF Form
    <3> QED
      BY <3>1 DEF Posted
  <2>4. posted' = [posted EXCEPT ![b] = p]
    BY <2>1
  <2> HIDE DEF p
  <2>5. /\ posted' \in [Tabs -> Posted]
        /\ \A c \in Tabs : posted'[c] = IF c = b THEN p ELSE posted[c]
    BY <1>0, <2>3, <2>4 DEF FormTypeOK
  <2>6. \A c \in Tabs : posted'[c].form.id <= issued
    BY <1>0, <2>3, <2>5 DEF FormInv, KeysIssued
  <2>7. \A c \in Tabs : posted'[c].mode = "d" =>
          posted'[c].form.id # 0 /\ wanted[posted'[c].form.id] = NoRow
    BY <2>3, <2>5 DEF FormInv, DeletesWanted
  <2>8. /\ Leave(b) /\ UNCHANGED << patient, rows, issued, cookies, key >>
        /\ wanted' = wanted /\ mode' \in Modes \cup {"s", "none"}
        /\ presses' \in 0 .. MaxPresses
        /\ wanted' \in [Keys -> Row \cup {NoRow}]
    BY <1>0, <1>1 DEF OpenPage, FormTypeOK
  <2> QED
    BY <2>5, <2>6, <2>7, <2>8, LeaveKeeps
<1>2. ASSUME NEW b \in Tabs, Reload(b) PROVE FormInv'
  <2>1. /\ Leave(b)
        /\ UNCHANGED << patient, rows, issued, cookies, key, wanted, posted >>
        /\ mode' \in Modes \cup {"s", "none"} /\ presses' \in 0 .. MaxPresses
        /\ posted' \in [Tabs -> Posted]
        /\ wanted' \in [Keys -> Row \cup {NoRow}]
    BY <1>0, <1>2 DEF Reload, FormTypeOK
  <2> QED
    BY <2>1, LeaveKeeps DEF FormInv, KeysIssued, DeletesWanted
<1>3. ASSUME NEW b \in Tabs, Change(b) PROVE FormInv'
  <2>1. PICK x \in Fields, v \in Values :
          form' = [form EXCEPT ![b].vals[x] = v, ![b].changed = @ \cup {x}]
    BY <1>3 DEF Change
  <2>2. form[b] \in Form /\ form[b].vals \in Row
    BY <1>0 DEF FormTypeOK, Form
  <2> DEFINE new == [form[b] EXCEPT !.vals[x] = v, !.changed = @ \cup {x}]
  <2>3. new \in Form /\ new.id = form[b].id
    <3>1. [form[b].vals EXCEPT ![x] = v] \in Row
      BY <2>2 DEF Row
    <3>2. new = [form[b] EXCEPT !.vals = [form[b].vals EXCEPT ![x] = v],
                                !.changed = form[b].changed \cup {x}]
      BY <2>2 DEF Form
    <3> QED
      BY <2>2, <3>1, <3>2 DEF Form
  <2>4. form' = [form EXCEPT ![b] = new]
    BY <1>0, <2>1, <2>2 DEF FormTypeOK, Form
  <2> HIDE DEF new
  <2>5. FormTypeOK'
    BY <1>0, <1>3, <2>3, <2>4 DEF Change, FormTypeOK
  <2>6. KeysIssued'
    BY <1>0, <1>3, <2>3, <2>4 DEF Change, FormInv, FormTypeOK, KeysIssued
  <2> QED
    BY <1>3, <2>5, <2>6
       DEF Change, FormInv, DeletesWanted, NothingGoneUnasked
<1>4. ASSUME NEW b \in Tabs, Send(b) PROVE FormInv'
  <2>1. [mode |-> mode, key |-> key] \in
          [mode : Modes \cup {"s", "none"}, key : Keys \cup {0}]
    BY <1>0 DEF FormTypeOK
  <2>2. FormTypeOK'
    BY <1>0, <1>4, <2>1 DEF Send, To, FormTypeOK
  <2> QED
    BY <1>4, <2>2
       DEF Send, FormInv, KeysIssued, DeletesWanted, NothingGoneUnasked
<1>5. ASSUME NEW b \in Tabs, Finalize(b) PROVE FormInv'
  <2>1. form[b].id \in Keys \cup {0}
    BY <1>0 DEF FormTypeOK, Form
  <2>2. FormTypeOK'
    BY <1>0, <1>5, <2>1 DEF Finalize, To, FormTypeOK
  <2> QED
    BY <1>5, <2>2
       DEF Finalize, FormInv, KeysIssued, DeletesWanted, NothingGoneUnasked
<1>6. ASSUME NEW b \in Tabs, Press(b) PROVE FormInv'
  <2>1. PICK m \in Buttons(form[b].id) :
          /\ m = "i" => issued < MaxRows
          /\ posted' = [posted EXCEPT ![b] = [mode |-> m, form |-> form[b]]]
          /\ mode' = m
          /\ wanted' = Asked(m, form[b])
    BY <1>6 DEF Press
  <2>2. /\ form[b] \in Form /\ form[b].id \in Keys \cup {0}
        /\ form[b].vals \in Row /\ form[b].id <= issued
    BY <1>0 DEF FormInv, FormTypeOK, KeysIssued, Form
  <2>3. m \in Modes /\ (m # "i" => form[b].id # 0)
    BY DEF Buttons, Modes
  <2> DEFINE p == [mode |-> m, form |-> form[b]]
  <2>4. p \in Posted /\ p.mode = m /\ p.form = form[b]
    BY <2>2, <2>3 DEF Posted
  <2>5. posted' = [posted EXCEPT ![b] = p]
    BY <2>1
  <2> HIDE DEF p
  <2>6. /\ posted' \in [Tabs -> Posted]
        /\ \A c \in Tabs : posted'[c] = IF c = b THEN p ELSE posted[c]
    BY <1>0, <2>4, <2>5 DEF FormTypeOK
  <2>7. \A c \in Tabs : posted'[c].form.id <= issued
    BY <1>0, <2>2, <2>4, <2>6 DEF FormInv, KeysIssued
  <2>8. /\ wanted' \in [Keys -> Row \cup {NoRow}]
        /\ \A k \in 1 .. issued : wanted[k] = NoRow => wanted'[k] = NoRow
        /\ m = "d" => wanted'[form[b].id] = NoRow
    <3>0. wanted \in [Keys -> Row \cup {NoRow}]
      BY <1>0 DEF FormTypeOK
    <3>1. CASE m = "i"
      <4>1. wanted' = [wanted EXCEPT ![issued + 1] = form[b].vals]
        BY <2>1, <3>1 DEF Asked
      <4>2. issued + 1 \in Keys /\ issued + 1 \notin 1 .. issued
        BY <1>0, <2>1, <3>1 DEF Keys
      <4>3. wanted' \in [Keys -> Row \cup {NoRow}]
        BY <2>2, <3>0, <4>1
      <4>4. \A k \in 1 .. issued : wanted'[k] = wanted[k]
        BY <1>0, <3>0, <4>1, <4>2 DEF Keys
      <4> QED
        BY <3>1, <4>3, <4>4
    <3>2. CASE m = "u" /\ wanted[form[b].id] # NoRow
      <4> DEFINE new == [x \in Fields |-> IF x \in form[b].changed
                           THEN form[b].vals[x] ELSE wanted[form[b].id][x]]
      <4>1. form[b].id \in Keys
        BY <2>2, <2>3, <3>2
      <4>2. new \in Row
        BY <2>2, <3>0, <3>2, <4>1 DEF Row
      <4>3. wanted' = [wanted EXCEPT ![form[b].id] = new]
        BY <2>1, <3>2 DEF Asked
      <4> HIDE DEF new
      <4> QED
        BY <3>0, <3>2, <4>1, <4>2, <4>3
    <3>3. CASE m = "d"
      <4>1. form[b].id \in Keys
        BY <2>2, <2>3, <3>3
      <4>2. wanted' = [wanted EXCEPT ![form[b].id] = NoRow]
        BY <2>1, <3>3 DEF Asked
      <4> QED
        BY <1>0, <3>0, <4>1, <4>2
    <3>4. CASE m \notin {"i", "d"} /\ ~ (m = "u" /\ wanted[form[b].id] # NoRow)
      <4>1. wanted' = wanted
        BY <2>1, <3>4 DEF Asked
      <4> QED
        BY <3>0, <3>4, <4>1
    <3>5. \/ m = "i"
          \/ m = "d"
          \/ m = "u" /\ wanted[form[b].id] # NoRow
          \/ m \notin {"i", "d"} /\ ~ (m = "u" /\ wanted[form[b].id] # NoRow)
      OBVIOUS
    <3> QED
      BY <3>1, <3>2, <3>3, <3>4, <3>5, Zenon
  <2>9. \A c \in Tabs : posted'[c].mode = "d" =>
          posted'[c].form.id # 0 /\ wanted'[posted'[c].form.id] = NoRow
    <3> SUFFICES ASSUME NEW c \in Tabs, posted'[c].mode = "d"
                 PROVE  /\ posted'[c].form.id # 0
                        /\ wanted'[posted'[c].form.id] = NoRow
      OBVIOUS
    <3>1. CASE c = b
      BY <2>2, <2>3, <2>4, <2>6, <2>8, <3>1
    <3>2. CASE c # b
      <4>1. /\ posted'[c] = posted[c] /\ posted[c].form.id # 0
            /\ wanted[posted[c].form.id] = NoRow
        BY <2>6, <3>2 DEF FormInv, DeletesWanted
      <4>2. posted[c].form.id \in Keys \cup {0} /\ posted[c].form.id <= issued
        BY <1>0 DEF FormInv, FormTypeOK, KeysIssued, Posted, Form
      <4>3. posted[c].form.id \in 1 .. issued
        BY <1>0, <4>1, <4>2 DEF Keys
      <4> QED
        BY <2>8, <4>1, <4>3
    <3> QED
      BY <3>1, <3>2
  <2>10. /\ Leave(b) /\ UNCHANGED << patient, rows, issued, cookies, key >>
         /\ mode' \in Modes \cup {"s", "none"} /\ presses' \in 0 .. MaxPresses
    BY <1>0, <1>6, <2>1, <2>3, FormAssumption DEF Press, FormTypeOK
  <2> QED
    BY <2>6, <2>7, <2>8, <2>9, <2>10, LeaveKeeps
<1>7. ASSUME NEW b \in Tabs, Serve(b) PROVE FormInv'
  <2> DEFINE f == posted[b].form
             k == RequestKey(b)
             m == Effective(b)
  <2>1. /\ f \in Form /\ f.vals \in Row
        /\ k \in Keys \cup {0} /\ k <= issued
    BY <1>0 DEF FormInv, FormTypeOK, KeysIssued, Posted, Form, RequestKey
  <2>2. /\ cookies' = [cookies EXCEPT ![b] = [mode |-> "none", key |-> 0]]
        /\ To(b, "arrived")
        /\ UNCHANGED << patient, mode, key, posted, presses, wanted >>
    BY <1>7 DEF Serve
  <2>3. /\ rows \in [Keys -> Row \cup {NoRow}]
        /\ \A i \in 1 .. issued : rows[i] = NoRow => wanted[i] = NoRow
    BY <1>0 DEF FormInv, FormTypeOK, NothingGoneUnasked
  <2> DEFINE Answer(g) ==
        /\ g \in Form /\ g.id <= issued'
        /\ form' = [form EXCEPT ![b] = g]
        /\ issued' \in issued .. MaxRows
        /\ rows' \in [Keys -> Row \cup {NoRow}] /\ NothingGoneUnasked'
  <2>4. ASSUME NEW g, Answer(g) PROVE FormInv'
    BY <2>2, <2>4, AnswerKeeps
  <2>5. CASE /\ m = "i" /\ issued < MaxRows
             /\ issued' = issued + 1
             /\ rows' = [rows EXCEPT ![issued + 1] = f.vals]
             /\ form' = [form EXCEPT ![b] = Shown(issued + 1, rows', f.vals)]
    <3>1. issued + 1 \in Keys /\ f.vals # NoRow
      <4>1. issued + 1 \in Keys
        BY <1>0, <2>5 DEF Keys
      <4> HIDE DEF f
      <4> QED
        BY <2>1, <4>1, FormAssumption
    <3>2. rows' \in [Keys -> Row \cup {NoRow}]
      BY <2>1, <2>3, <2>5
    <3>3. NothingGoneUnasked'
      BY <1>0, <2>2, <2>3, <2>5, <3>1 DEF NothingGoneUnasked, Keys
    <3>4. Shown(issued + 1, rows', f.vals) \in Form
          /\ Shown(issued + 1, rows', f.vals).id = issued + 1
      BY <2>1, <3>1, <3>2, ShownType
    <3>5. issued' \in issued .. MaxRows /\ issued + 1 <= issued'
      BY <1>0, <2>5
    <3>6. Answer(Shown(issued + 1, rows', f.vals))
      BY <2>5, <3>2, <3>3, <3>4, <3>5
    <3> QED
      BY <2>4, <3>6
  <2>6. ASSUME UNCHANGED issued, NEW j \in Keys \cup {0}, j <= issued,
               rows' \in [Keys -> Row \cup {NoRow}],
               NEW t \in [Keys -> Row \cup {NoRow}],
               form' = [form EXCEPT ![b] = Shown(j, t, f.vals)],
               \A i \in 1 .. issued : rows'[i] = NoRow => wanted[i] = NoRow
        PROVE  FormInv'
    <3>1. Shown(j, t, f.vals) \in Form /\ Shown(j, t, f.vals).id = j
      BY <2>1, <2>6, ShownType
    <3>2. issued' \in issued .. MaxRows
      BY <1>0, <2>6
    <3>3. NothingGoneUnasked'
      BY <2>2, <2>6 DEF NothingGoneUnasked
    <3>4. Answer(Shown(j, t, f.vals))
      BY <2>6, <3>1, <3>2, <3>3
    <3> QED
      BY <2>4, <3>4
  <2>7. 0 \in Keys \cup {0} /\ 0 <= issued
    BY <1>0
  <2>8. CASE /\ form' = [form EXCEPT ![b] = Shown(0, rows, f.vals)]
             /\ UNCHANGED << rows, issued >>
    BY <2>3, <2>6, <2>7, <2>8
  <2>9. CASE /\ rows' = Updated(k, f)
             /\ form' = [form EXCEPT ![b] = Shown(k, rows', f.vals)]
             /\ UNCHANGED issued
    <3>1. /\ rows' \in [Keys -> Row \cup {NoRow}]
          /\ \A i \in Keys : rows'[i] = NoRow <=> rows[i] = NoRow
      BY <2>1, <2>3, <2>9, UpdatedType
    <3>2. \A i \in 1 .. issued : rows'[i] = NoRow => wanted[i] = NoRow
      BY <1>0, <2>3, <3>1 DEF Keys
    <3> QED
      BY <2>1, <2>6, <2>9, <3>1, <3>2
  <2>10. CASE /\ m = "d"
              /\ rows' = [rows EXCEPT ![k] = NoRow]
              /\ form' = [form EXCEPT ![b] = Shown(0, rows, f.vals)]
              /\ UNCHANGED issued
    <3>1. posted[b].mode = "d"
      BY <2>10 DEF Effective
    <3>2. k # 0 /\ wanted[k] = NoRow
      BY <3>1 DEF FormInv, DeletesWanted, RequestKey
    <3>3. rows' \in [Keys -> Row \cup {NoRow}]
      BY <2>3, <2>10
    <3>4. \A i \in 1 .. issued : rows'[i] = NoRow => wanted[i] = NoRow
      BY <1>0, <2>3, <2>10, <3>2 DEF Keys
    <3> QED
      BY <2>3, <2>6, <2>7, <2>10, <3>3, <3>4
  <2>11. CASE /\ form' = [form EXCEPT ![b] = EmptyForm]
              /\ UNCHANGED << rows, issued >>
    <3>1. /\ EmptyForm \in Form /\ EmptyForm.id <= issued'
          /\ issued' \in issued .. MaxRows
      BY <1>0, <2>11, EmptyFormType
    <3>2. rows' \in [Keys -> Row \cup {NoRow}] /\ NothingGoneUnasked'
      BY <2>2, <2>3, <2>11 DEF NothingGoneUnasked
    <3>3. Answer(EmptyForm)
      BY <2>11, <3>1, <3>2
    <3> QED
      BY <2>4, <3>3
  <2>12. CASE /\ form' = [form EXCEPT ![b] = Shown(k, rows, f.vals)]
              /\ UNCHANGED << rows, issued >>
    BY <2>1, <2>3, <2>6, <2>12
  <2> HIDE DEF f, k, m, Answer
  <2> QED
    BY <1>7, <2>5, <2>8, <2>9, <2>10, <2>11, <2>12 DEF Serve, f, k, m
<1>8. CASE UNCHANGED formVars
  BY <1>8 DEF formVars, FormInv, FormTypeOK, KeysIssued, DeletesWanted,
              NothingGoneUnasked
<1> QED
  BY <1>1, <1>2, <1>3, <1>4, <1>5, <1>6, <1>7, <1>8 DEF FormNext

(***************************************************************************)
(* The table, the pages, the requests and the cookies keep their types.    *)
(***************************************************************************)
THEOREM FormTypes == FormSpec => []FormTypeOK
<1>1. FormInv => FormTypeOK
  BY DEF FormInv
<1> QED
  BY FormInvInit, FormInvNext, <1>1, PTL DEF FormSpec

(***************************************************************************)
(* However tabs, reloads and answers of the server overlap, a row that is  *)
(* gone is one on whose page the user has pressed delete: a page or a      *)
(* cookie of another tab never makes doDelete of forms_base remove it.     *)
(***************************************************************************)
THEOREM NothingGone == FormSpec => []NothingGoneUnasked
<1>1. FormInv => NothingGoneUnasked
  BY DEF FormInv
<1> QED
  BY FormInvInit, FormInvNext, <1>1, PTL DEF FormSpec

-----------------------------------------------------------------------------
(* Forms: a user who waits.                                                *)

\* What a request with this mode makes of the table: db_action, once.
Done(m, f) ==
  CASE m = "i" /\ issued < MaxRows -> [rows EXCEPT ![issued + 1] = f.vals]
    [] m = "u" /\ f.id # 0         -> Updated(f.id, f)
    [] m = "d" /\ f.id # 0         -> [rows EXCEPT ![f.id] = NoRow]
    [] OTHER                       -> rows

\* What the user wants is in the table, or the request on its way brings it:
\* c is the mode that the cookie has when that request leaves.
Brings(b, c) ==
  wanted = IF posted[b].mode = c THEN Done(c, posted[b].form) ELSE rows

\* What a request changes or removes, its form names.
Named == \A b \in Tabs : posted[b].mode \in {"u", "d"} => posted[b].form.id # 0

\* A button has done its work, unless its request is the one under way.
Waiting(b) == at[b] \notin {"blank", "loaded"}
Once ==
  patient =>
    /\ \A b, c \in Tabs : Waiting(b) /\ Waiting(c) => b = c
    /\ AllLoaded => mode \notin Modes /\ rows = wanted
    /\ \A b \in Tabs : /\ at[b] = "pressed" => Brings(b, mode)
                       /\ at[b] = "sent" => Brings(b, cookies[b].mode)
                       /\ at[b] = "arrived" => rows = wanted

OnceInv == FormInv /\ Named /\ Once

\* No page, and nothing posted.
LEMMA OnceInit == FormInit => Named /\ Once
BY EmptyFormType DEF FormInit, Named, Once, Waiting, AllLoaded, Modes

\* The page of one tab makes way, as all are loaded.
LEMMA LeaveOnce ==
  ASSUME FormInv, patient, patient', AllLoaded, NEW b \in Tabs, Leave(b),
         Brings(b, mode)'
  PROVE  Once'
<1>1. at \in [Tabs -> {"blank", "pressed", "sent", "arrived", "loaded"}]
  BY DEF FormInv, FormTypeOK
<1>2. at' = [at EXCEPT ![b] = "pressed"]
  BY DEF Leave, To
<1>3. at'[b] = "pressed" /\ \A c \in Tabs \ {b} : at'[c] \in {"blank", "loaded"}
  BY <1>1, <1>2 DEF AllLoaded
<1>4. \A c, d \in Tabs : Waiting(c)' /\ Waiting(d)' => c = d
  BY <1>3 DEF Waiting
<1>5. ~AllLoaded'
  BY <1>3 DEF AllLoaded
<1> HIDE DEF Brings
<1>6. \A c \in Tabs : /\ at'[c] = "pressed" => c = b
                      /\ at'[c] \notin {"sent", "arrived"}
  BY <1>3
<1> QED
  BY <1>4, <1>5, <1>6 DEF Once

\* The mode of a request that comes too late for its cookie is none.
LEMMA ModesOf ==
  ASSUME FormInv
  PROVE  /\ mode \in Modes \cup {"s", "none"}
         /\ rows \in [Keys -> Row \cup {NoRow}]
         /\ at \in [Tabs -> {"blank", "pressed", "sent", "arrived", "loaded"}]
         /\ \A b \in Tabs : /\ posted[b].mode \in Modes \cup {"get"}
                            /\ posted[b].form \in Form
                            /\ cookies[b].mode \in Modes \cup {"s", "none"}
                            /\ form[b] \in Form
BY DEF FormInv, FormTypeOK, Posted

\* What the user asks for with a button is what its request does.
LEMMA PressOnce ==
  ASSUME FormInv, Once, patient, NEW b \in Tabs, Press(b)
  PROVE  Once'
<1>1. AllLoaded /\ rows = wanted /\ patient'
  BY DEF Press, MayAct, Once
<1>2. PICK m \in Buttons(form[b].id) :
        /\ m = "i" => issued < MaxRows
        /\ posted' = [posted EXCEPT ![b] = [mode |-> m, form |-> form[b]]]
        /\ mode' = m
        /\ wanted' = Asked(m, form[b])
  BY DEF Press
<1>3. m \in Modes /\ (m # "i" => form[b].id # 0)
  BY DEF Buttons, Modes
<1>4. posted'[b].mode = m /\ posted'[b].form = form[b]
  BY <1>2 DEF FormInv, FormTypeOK
<1>5. rows' = rows /\ issued' = issued /\ Leave(b)
  BY DEF Press
<1>6. Asked(m, form[b]) = Done(m, form[b])
  <2>1. CASE m = "i"
    BY <1>1, <1>2, <2>1 DEF Asked, Done
  <2>2. CASE m = "u"
    BY <1>1, <1>3, <2>2 DEF Asked, Done, Updated
  <2>3. CASE m = "d"
    BY <1>1, <1>3, <2>3 DEF Asked, Done
  <2>4. CASE m \notin {"i", "u", "d"}
    BY <1>1, <2>4 DEF Asked, Done
  <2> QED
    BY <2>1, <2>2, <2>3, <2>4
<1>7. Brings(b, mode)'
  BY <1>2, <1>4, <1>5, <1>6 DEF Brings, Done, Updated
<1> QED
  BY <1>1, <1>5, <1>7, LeaveOnce

\* The request under way makes the table what the user wants.
LEMMA ServeOnce ==
  ASSUME OnceInv, patient, NEW b \in Tabs, Serve(b)
  PROVE  Once'
<1> DEFINE f == posted[b].form
           m == Effective(b)
           c == cookies[b].mode
<1>0. FormInv /\ Named /\ Once
  BY DEF OnceInv
<1>1. /\ at[b] = "sent" /\ at' = [at EXCEPT ![b] = "arrived"]
      /\ UNCHANGED << patient, mode, posted, wanted >>
  BY DEF Serve, To
<1>2. Brings(b, c)
  BY <1>0, <1>1 DEF Once
<1>3. posted[b].mode \in Modes \cup {"get"} /\ c \in Modes \cup {"s", "none"}
      /\ f \in Form
  BY <1>0, ModesOf
<1>4. /\ posted[b].mode = c => m = c /\ m \in Modes
      /\ posted[b].mode # c => m = "s"
  BY <1>3 DEF Effective, Modes
<1>5. m \in {"u", "d"} /\ f.id # 0 => RequestKey(b) = f.id
  BY DEF RequestKey
<1>6. m \in {"u", "d"} => f.id # 0 /\ RequestKey(b) = f.id
  BY <1>0, <1>3, <1>4, <1>5 DEF Named
<1>7. rows' = wanted
  <2>1. CASE m = "i"
    <3>1. \/ issued < MaxRows /\ rows' = [rows EXCEPT ![issued + 1] = f.vals]
          \/ issued = MaxRows /\ rows' = rows
      BY <2>1 DEF Serve
    <3>2. wanted = Done("i", f)
      BY <1>2, <1>4, <2>1 DEF Brings
    <3>3. issued \in Nat /\ MaxRows \in Nat
      BY <1>0, FormAssumption DEF FormInv, FormTypeOK
    <3> QED
      BY <3>1, <3>2, <3>3 DEF Done
  <2>2. CASE m = "u"
    <3>1. rows' = Updated(f.id, f)
      BY <1>6, <2>2 DEF Serve
    <3>2. wanted = Done("u", f)
      BY <1>2, <1>4, <2>2 DEF Brings
    <3> QED
      BY <1>6, <2>2, <3>1, <3>2 DEF Done
  <2>3. CASE m = "d"
    <3>1. rows' = [rows EXCEPT ![f.id] = NoRow]
      BY <1>6, <2>3 DEF Serve
    <3>2. wanted = Done("d", f)
      BY <1>2, <1>4, <2>3 DEF Brings
    <3> QED
      BY <1>6, <2>3, <3>1, <3>2 DEF Done
  <2>4. CASE m \notin {"i", "u", "d"}
    BY <1>2, <1>4, <2>4 DEF Serve, Brings, Done
  <2> QED
    BY <2>1, <2>2, <2>3, <2>4
<1>8. \A d \in Tabs \ {b} : ~Waiting(d) /\ at'[d] = at[d]
  BY <1>0, <1>1, ModesOf DEF Once, Waiting
<1>9. at'[b] = "arrived"
  BY <1>0, <1>1, ModesOf
<1> QED
  BY <1>1, <1>7, <1>8, <1>9 DEF Once, Waiting, AllLoaded

\* Every other step of a user who waits.
LEMMA OnceNext ==
  ASSUME OnceInv, FormNext
  PROVE  Named' /\ Once'
<1>0. FormInv /\ Named /\ Once /\ patient' = patient
  BY DEF OnceInv, FormNext, OpenPage, Change, Press, Reload, Send, Serve, Finalize
<1>1. Named'
  <2>1. ASSUME NEW b \in Tabs, NEW p,
               posted' = [posted EXCEPT ![b] = p],
               p.mode \in {"u", "d"} => p.form.id # 0
        PROVE  Named'
    BY <1>0, <2>1 DEF Named, FormInv, FormTypeOK
  <2>2. ASSUME NEW b \in Tabs, OpenPage(b) PROVE Named'
    <3>1. PICK k \in 0 .. issued : posted' = [posted EXCEPT ![b] =
            [mode |-> "get", form |-> [EmptyForm EXCEPT !.id = k]]]
      BY <2>2 DEF OpenPage
    <3> QED
      BY <2>1, <3>1
  <2>3. ASSUME NEW b \in Tabs, Press(b) PROVE Named'
    <3>1. PICK m \in Buttons(form[b].id) :
            posted' = [posted EXCEPT ![b] = [mode |-> m, form |-> form[b]]]
      BY <2>3 DEF Press
    <3>2. m \in {"u", "d"} => form[b].id # 0
      BY DEF Buttons
    <3> QED
      BY <2>1, <3>1, <3>2
  <2>4. posted' = posted => Named'
    BY <1>0 DEF Named
  <2>5. ASSUME NEW b \in Tabs,
               Change(b) \/ Reload(b) \/ Send(b) \/ Serve(b) \/ Finalize(b)
        PROVE  posted' = posted
    BY <2>5 DEF Change, Reload, Send, Serve, Finalize
  <2> QED
    BY <2>2, <2>3, <2>4, <2>5 DEF FormNext
<1>2. ASSUME ~patient PROVE Once'
  BY <1>0, <1>2 DEF Once
<1>3. ASSUME patient PROVE Once'
  <2>0. patient'
    BY <1>0, <1>3
  <2> DEFINE Ats == {"blank", "pressed", "sent", "arrived", "loaded"}
  <2>a. /\ mode \in Modes \cup {"s", "none"} /\ at \in [Tabs -> Ats]
        /\ \A b \in Tabs : posted[b].mode \in Modes \cup {"get"}
    BY <1>0, ModesOf
  <2>1. ASSUME NEW b \in Tabs, OpenPage(b) PROVE Once'
    <3>1. PICK k \in 0 .. issued : posted' = [posted EXCEPT ![b] =
            [mode |-> "get", form |-> [EmptyForm EXCEPT !.id = k]]]
      BY <2>1 DEF OpenPage
    <3>2. posted'[b].mode = "get"
      BY <1>0, <3>1 DEF FormInv, FormTypeOK
    <3>3. /\ AllLoaded /\ Leave(b)
          /\ UNCHANGED << mode, rows, issued, wanted >>
      BY <1>3, <2>1 DEF OpenPage, MayAct
    <3>4. rows = wanted
      BY <1>0, <1>3, <3>3 DEF Once
    <3>5. Brings(b, mode)'
      BY <2>a, <3>2, <3>3, <3>4 DEF Brings, Modes
    <3> QED
      BY <1>0, <1>3, <2>0, <3>3, <3>5, LeaveOnce
  <2>2. ASSUME NEW b \in Tabs, Reload(b) PROVE Once'
    <3>1. /\ AllLoaded /\ Leave(b)
          /\ UNCHANGED << mode, posted, rows, issued, wanted >>
      BY <1>3, <2>2 DEF Reload, MayAct
    <3>2. rows = wanted /\ mode \notin Modes
      BY <1>0, <1>3, <3>1 DEF Once
    <3>3. Brings(b, mode)'
      BY <2>a, <3>1, <3>2 DEF Brings, Modes
    <3> QED
      BY <1>0, <1>3, <2>0, <3>1, <3>3, LeaveOnce
  <2>3. ASSUME NEW b \in Tabs, Change(b) PROVE Once'
    <3>1. AllLoaded /\ UNCHANGED << mode, rows, wanted, at >>
      BY <1>3, <2>3 DEF Change, MayAct
    <3>2. \A c \in Tabs : at[c] \in {"blank", "loaded"}
      BY <3>1 DEF AllLoaded
    <3>3. rows = wanted /\ mode \notin Modes
      BY <1>0, <1>3, <3>1 DEF Once
    <3> QED
      BY <3>1, <3>2, <3>3 DEF Once, Waiting, AllLoaded
  <2>4. ASSUME NEW b \in Tabs, Press(b) PROVE Once'
    BY <1>0, <1>3, <2>4, PressOnce
  <2>5. ASSUME NEW b \in Tabs, Send(b) PROVE Once'
    <3>1. /\ at[b] = "pressed" /\ at' = [at EXCEPT ![b] = "sent"]
          /\ cookies' = [cookies EXCEPT ![b] = [mode |-> mode, key |-> key]]
          /\ UNCHANGED << mode, posted, rows, issued, wanted >>
      BY <2>5 DEF Send, To
    <3>2. /\ Brings(b, mode)
          /\ \A c \in Tabs \ {b} : at[c] \in {"blank", "loaded"}
      BY <1>0, <1>3, <2>a, <3>1 DEF Once, Waiting
    <3>3. /\ at'[b] = "sent" /\ cookies'[b].mode = mode
          /\ \A c \in Tabs \ {b} : at'[c] \in {"blank", "loaded"}
      BY <1>0, <2>a, <3>1, <3>2 DEF FormInv, FormTypeOK
    <3>4. \A c : Brings(b, c)' <=> Brings(b, c)
      BY <3>1 DEF Brings, Done, Updated
    <3>5. ~AllLoaded'
      BY <3>3 DEF AllLoaded
    <3>6. Brings(b, cookies[b].mode)'
      BY <3>1, <3>2, <3>3 DEF Brings, Done, Updated
    <3> HIDE DEF Brings
    <3>7. \A c \in Tabs : /\ at'[c] \notin {"pressed", "arrived"}
                          /\ at'[c] = "sent" => c = b
      BY <3>3
    <3> QED
      BY <3>3, <3>5, <3>6, <3>7 DEF Once, Waiting
  <2>6. ASSUME NEW b \in Tabs, Serve(b) PROVE Once'
    BY <1>3, <2>6, ServeOnce
  <2>7. ASSUME NEW b \in Tabs, Finalize(b) PROVE Once'
    <3>1. /\ at[b] = "arrived" /\ at' = [at EXCEPT ![b] = "loaded"]
          /\ mode' = "s" /\ UNCHANGED << rows, wanted >>
      BY <2>7 DEF Finalize, To
    <3>2. /\ rows = wanted
          /\ \A c \in Tabs \ {b} : at[c] \in {"blank", "loaded"}
      BY <1>0, <1>3, <2>a, <3>1 DEF Once, Waiting
    <3>3. \A c \in Tabs : at'[c] \in {"blank", "loaded"}
      BY <2>a, <3>1, <3>2
    <3> QED
      BY <3>1, <3>2, <3>3 DEF Once, Waiting, Modes
  <2> QED
    BY <2>1, <2>2, <2>3, <2>4, <2>5, <2>6, <2>7 DEF FormNext
<1> QED
  BY <1>1, <1>2, <1>3

(***************************************************************************)
(* getInstructions and finalize: for a user who waits for each page, every *)
(* button does its work once, and no reload, link or page that is out of   *)
(* date does any, for any number of tabs, fields, values and rows.         *)
(***************************************************************************)
THEOREM ButtonsWorkOnce == FormSpec => []EveryButtonOnce
<1>1. FormInit => OnceInv
  BY FormInvInit, OnceInit DEF OnceInv
<1>2. OnceInv /\ [FormNext]_formVars => OnceInv'
  <2> SUFFICES ASSUME OnceInv, [FormNext]_formVars PROVE OnceInv'
    OBVIOUS
  <2>1. FormInv'
    BY FormInvNext DEF OnceInv
  <2>2. CASE FormNext
    BY <2>1, <2>2, OnceNext DEF OnceInv
  <2>3. CASE UNCHANGED formVars
    <3>1. \A b \in Tabs : /\ Waiting(b)' <=> Waiting(b)
                          /\ Brings(b, mode)' <=> Brings(b, mode)
                          /\ Brings(b, cookies[b].mode)' <=> Brings(b, cookies[b].mode)
      BY <2>3 DEF formVars, Waiting, Brings, Done, Updated
    <3>2. Named' /\ (AllLoaded' <=> AllLoaded)
      BY <2>3 DEF formVars, OnceInv, Named, AllLoaded
    <3> HIDE DEF Waiting, Brings, AllLoaded
    <3>3. Once'
      BY <2>3, <3>1, <3>2 DEF formVars, OnceInv, Once
    <3> QED
      BY <2>1, <3>2, <3>3 DEF OnceInv
  <2> QED
    BY <2>2, <2>3
<1>3. OnceInv => EveryButtonOnce
  BY DEF OnceInv, Once, EveryButtonOnce
<1> QED
  BY <1>1, <1>2, <1>3, PTL DEF FormSpec

-----------------------------------------------------------------------------
(* Sessions.                                                               *)

\* The shapes of what is kept; live sessions and cookies are ones made.
Shapes ==
  /\ phase \in [Frames -> {"idle", "begun", "counted"}]
  /\ list \in [Frames -> Lists \cup {"none"}]
  /\ DOMAIN table = Uuids /\ \A u \in Uuids : DOMAIN table[u] = Vars
  /\ DOMAIN copy = Frames /\ DOMAIN shown = Frames
  /\ DOMAIN solid = {"keys", "vars"}
  /\ \A t \in Frames :
       /\ DOMAIN copy[t] = {"UUID", "inserted", "fresh", "vars", "listPg"}
       /\ DOMAIN copy[t].vars = Vars
       /\ copy[t].UUID \in 0 .. made
       /\ phase[t] # "idle" => copy[t].UUID \in Uuids
       /\ shown[t].list \in Lists \cup {"none"}
  /\ made \in 0 .. MaxSessions /\ live \subseteq 1 .. made /\ jar \in 0 .. made

(***************************************************************************)
(* As long as something is known to be set, the session of the cookie is   *)
(* there, every request under way writes that session, and its copy has    *)
(* what is set; whoever has yet to correct its page number is known to     *)
(* change it.                                                              *)
(***************************************************************************)
SolidInv ==
  /\ solid.keys \subseteq Vars
  /\ solid.keys # {} => jar \in live
  /\ SetDataLasts
  /\ \A t \in Frames :
       /\ phase[t] # "idle" /\ solid.keys # {} =>
            /\ copy[t].UUID = jar
            /\ ~copy[t].fresh
            /\ \A k \in solid.keys : copy[t].vars[k] = solid.vars[k]
       /\ phase[t] = "begun" /\ list[t] # "none" =>
            << Name[list[t]], "lPg" >> \notin solid.keys

\* The variables of list l, among the variables v, say a column of it.
OwnSort(v, l) == v[<< Name[l], "lSort" >>] \in Columns[l] \cup {""}

\* A tab with a page or a request.
Active(t) == phase[t] # "idle" \/ shown[t] # NothingShown

\* A session name of its own is only used for its own columns.
UnsharedSort ==
  \A l \in Lists : ~Shared(l) =>
    /\ \A u \in Uuids : OwnSort(table[u], l)
    /\ \A t \in Frames : OwnSort(copy[t].vars, l)

(***************************************************************************)
(* The one tab of a neat user has the variables of its list in the session *)
(* of the cookie, or has a request under way that brings them there.       *)
(***************************************************************************)
NeatSort ==
  neat =>
    /\ \A t, o \in Frames : Active(t) /\ Active(o) => t = o
    /\ \A t \in Frames :
         /\ phase[t] # "idle" /\ ~copy[t].fresh => copy[t].UUID = jar
         /\ phase[t] = "idle" /\ shown[t].list # "none" /\ jar \in live =>
              OwnSort(table[jar], shown[t].list)
         /\ phase[t] # "idle" /\ list[t] # "none" => OwnSort(copy[t].vars, list[t])
         /\ phase[t] # "idle" /\ list[t] = "none" /\ shown[t].list # "none" =>
              OwnSort(copy[t].vars, shown[t].list)

SessionInv == Shapes /\ SolidInv /\ UnsharedSort /\ NeatSort /\ SortedByOwnColumn

\* The variables of a list, and a session of nobody.
LEMMA VarsOfLists ==
  /\ \A l \in Lists : \A f \in {"lFilter", "lDir", "lSort", "lPg"} :
       << Name[l], f >> \in Vars
  /\ \A l \in Lists : \A n, f : << Name[l], f >> # << "tree", n >>
  /\ DOMAIN NoData = Vars
  /\ \A l \in Lists : OwnSort(NoData, l)
  /\ DOMAIN NoSession = {"UUID", "inserted", "fresh", "vars", "listPg"}
  /\ NoSession.UUID = 0 /\ NoSession.vars = NoData
  /\ NothingShown.list = "none"
<1>1. \A l \in Lists : \A f \in {"lFilter", "lDir", "lSort", "lPg"} :
        << Name[l], f >> \in Vars
  BY DEF Vars, Names
<1>2. \A l \in Lists : \A n, f : << Name[l], f >> # << "tree", n >>
  BY SessionAssumption
<1>3. DOMAIN NoData = Vars
  BY DEF NoData
<1>4. ASSUME NEW l \in Lists
      PROVE  OwnSort(NoData, l)
  <2>1. << Name[l], "lSort" >> \in Vars /\ Name[l] # "tree"
    BY <1>1, SessionAssumption
  <2> QED
    BY <2>1 DEF NoData, OwnSort
<1> QED
  BY <1>1, <1>2, <1>3, <1>4 DEF NoSession, NothingShown

\* Before the first request.
LEMMA SessionInvInit == SessionsInit => SessionInv
<1> SUFFICES ASSUME SessionsInit PROVE SessionInv
  OBVIOUS
<1>1. Shapes
  BY VarsOfLists, SessionAssumption DEF SessionsInit, Shapes
<1>2. SolidInv
  BY DEF SessionsInit, SolidInv, SetDataLasts
<1>3. UnsharedSort
  BY VarsOfLists DEF SessionsInit, UnsharedSort
<1>4. NeatSort
  BY DEF SessionsInit, NeatSort, Active
<1>5. SortedByOwnColumn
  BY VarsOfLists DEF SessionsInit, SortedByOwnColumn
<1> QED
  BY <1>1, <1>2, <1>3, <1>4, <1>5 DEF SessionInv

\* The session that a request has made its own, and what is there besides.
LEMMA ConstructSteps ==
  ASSUME Shapes, NEW t \in Frames, NEW vars, NEW pg, DOMAIN vars = Vars,
         Construct(t, vars, pg)
  PROVE  /\ copy' = [copy EXCEPT ![t] = copy'[t]]
         /\ DOMAIN copy'[t] = {"UUID", "inserted", "fresh", "vars", "listPg"}
         /\ copy'[t].vars = vars /\ copy'[t].UUID \in Uuids
         /\ copy'[t].UUID \in 0 .. made'
         /\ made' \in 0 .. MaxSessions /\ made <= made'
         /\ live' \subseteq 1 .. made' /\ (jar \in live' <=> jar \in live)
         /\ jar \in live => copy'[t].UUID = jar /\ ~copy'[t].fresh
         /\ jar \notin live => copy'[t].fresh
         /\ DOMAIN table' = Uuids
         /\ \A u \in Uuids : table'[u] = table[u] \/ table'[u] = NoData
         /\ jar \in live => table'[jar] = table[jar]
<1>1. made \in 0 .. MaxSessions /\ live \subseteq 1 .. made /\ jar \in 0 .. made
      /\ DOMAIN table = Uuids /\ DOMAIN copy = Frames
      /\ MaxSessions \in Nat /\ Uuids = 1 .. MaxSessions
  BY SessionAssumption DEF Shapes, Uuids
<1>2. CASE jar \in live
  <2>1. copy' = [copy EXCEPT ![t] =
                   [UUID |-> jar, inserted |-> TRUE, fresh |-> FALSE,
                    vars |-> vars, listPg |-> pg]]
        /\ UNCHANGED << live, table, made >>
    BY <1>2 DEF Construct
  <2>2. copy'[t] = [UUID |-> jar, inserted |-> TRUE, fresh |-> FALSE,
                    vars |-> vars, listPg |-> pg]
    BY <1>1, <2>1
  <2>3. jar \in Uuids
    BY <1>1, <1>2
  <2> QED
    BY <1>1, <1>2, <2>1, <2>2, <2>3
<1>3. CASE jar \notin live
  <2>1. PICK good \in BOOLEAN :
          /\ live' = live \cup (IF good THEN {made'} ELSE {})
          /\ copy' = [copy EXCEPT ![t] =
               [UUID |-> made', inserted |-> good, fresh |-> TRUE,
                vars |-> vars, listPg |-> pg]]
    BY <1>3 DEF Construct
  <2>2. made' = made + 1 /\ made < MaxSessions
        /\ table' = [table EXCEPT ![made'] = NoData]
    BY <1>3 DEF Construct
  <2>3. copy'[t] = [UUID |-> made', inserted |-> good, fresh |-> TRUE,
                    vars |-> vars, listPg |-> pg]
    BY <1>1, <2>1
  <2>4. made' \in Uuids /\ made' \in 0 .. made' /\ made' \in 0 .. MaxSessions
        /\ made <= made' /\ jar # made'
    BY <1>1, <2>2
  <2>5. live' \subseteq 1 .. made'
    BY <1>1, <2>1, <2>2
  <2>6. \A u \in Uuids : table'[u] = table[u] \/ table'[u] = NoData
    BY <1>1, <2>2
  <2>7. DOMAIN table' = Uuids
    BY <1>1, <2>2
  <2>8. copy'[t].vars = vars /\ copy'[t].UUID = made' /\ copy'[t].fresh
        /\ DOMAIN copy'[t] = {"UUID", "inserted", "fresh", "vars", "listPg"}
    BY <2>3
  <2> QED
    BY <1>3, <2>1, <2>3, <2>4, <2>5, <2>6, <2>7, <2>8
<1> QED
  BY <1>2, <1>3

\* What the session of the cookie holds.
LEMMA LoadedHolds ==
  ASSUME SessionInv
  PROVE  /\ DOMAIN Loaded = Vars
         /\ jar \in live => Loaded = table[jar]
         /\ \A o \in Lists : ~Shared(o) => OwnSort(Loaded, o)
         /\ \A t \in Frames :
              neat /\ phase[t] = "idle" /\ shown[t].list # "none" =>
                OwnSort(Loaded, shown[t].list)
<1>1. jar \in live => jar \in Uuids
  BY SessionAssumption DEF SessionInv, Shapes, Uuids
<1>2. DOMAIN Loaded = Vars
  BY <1>1, VarsOfLists DEF SessionInv, Shapes, Loaded
<1>3. \A o \in Lists : ~Shared(o) => OwnSort(Loaded, o)
  BY <1>1, VarsOfLists DEF SessionInv, UnsharedSort, Loaded
<1>4. \A t \in Frames :
        neat /\ phase[t] = "idle" /\ shown[t].list # "none" =>
          OwnSort(Loaded, shown[t].list)
  BY VarsOfLists DEF SessionInv, NeatSort, Shapes, Loaded
<1> QED
  BY <1>2, <1>3, <1>4 DEF Loaded

(***************************************************************************)
(* What the constructors of a list or the tree service may do with the     *)
(* variables they have read: only those of set are new, the page number of *)
(* the list among them, and a list is sorted by a column of its own.       *)
(***************************************************************************)
Proper(t, l, vars, set) ==
  /\ DOMAIN vars = Vars
  /\ \A k \in Vars \ set : vars[k] = Loaded[k]
  /\ l # "none" => << Name[l], "lPg" >> \in set
  /\ \A o \in Lists : ~Shared(o) => OwnSort(vars, o)
  /\ neat => /\ \A o \in Frames \ {t} : phase[o] = "idle" /\ shown[o] = NothingShown
             /\ l # "none" => OwnSort(vars, l)
             /\ l = "none" /\ shown[t].list # "none" => OwnSort(vars, shown[t].list)

\* A page is asked for.
LEMMA BeginKeeps ==
  ASSUME SessionInv, NEW t \in Frames, NEW l \in Lists \cup {"none"},
         NEW vars, NEW pg, NEW set, Proper(t, l, vars, set),
         Begin(t, l, vars, pg, set)
  PROVE  SessionInv'
<1>1. DOMAIN vars = Vars
  BY DEF Proper
<1>2. /\ phase[t] = "idle"
      /\ phase' = [phase EXCEPT ![t] = "begun"]
      /\ list' = [list EXCEPT ![t] = l]
      /\ solid' = [solid EXCEPT !.keys = @ \ set]
      /\ UNCHANGED << neat, jar, shown >>
  BY DEF Begin
<1>3. /\ copy' = [copy EXCEPT ![t] = copy'[t]]
      /\ DOMAIN copy'[t] = {"UUID", "inserted", "fresh", "vars", "listPg"}
      /\ copy'[t].vars = vars /\ copy'[t].UUID \in Uuids
      /\ copy'[t].UUID \in 0 .. made'
      /\ made' \in 0 .. MaxSessions /\ made <= made'
      /\ live' \subseteq 1 .. made' /\ (jar \in live' <=> jar \in live)
      /\ jar \in live => copy'[t].UUID = jar /\ ~copy'[t].fresh
      /\ jar \notin live => copy'[t].fresh
      /\ DOMAIN table' = Uuids
      /\ \A u \in Uuids : table'[u] = table[u] \/ table'[u] = NoData
      /\ jar \in live => table'[jar] = table[jar]
  BY <1>1, ConstructSteps DEF Begin, SessionInv
<1>4. Shapes
  BY DEF SessionInv
<1>5. /\ phase \in [Frames -> {"idle", "begun", "counted"}]
      /\ list \in [Frames -> Lists \cup {"none"}]
      /\ DOMAIN copy = Frames /\ DOMAIN shown = Frames
      /\ DOMAIN solid = {"keys", "vars"} /\ made \in Nat /\ jar \in 0 .. made
  BY <1>4, SessionAssumption DEF Shapes
<1>6. /\ phase'[t] = "begun" /\ list'[t] = l
      /\ \A o \in Frames \ {t} :
           /\ phase'[o] = phase[o] /\ list'[o] = list[o] /\ copy'[o] = copy[o]
  BY <1>2, <1>3, <1>5
<1>7. solid'.keys = solid.keys \ set /\ solid'.vars = solid.vars
      /\ DOMAIN solid' = {"keys", "vars"}
  BY <1>2, <1>5
<1>8. Shapes'
  <2>1. phase' \in [Frames -> {"idle", "begun", "counted"}]
        /\ list' \in [Frames -> Lists \cup {"none"}]
    BY <1>2, <1>5
  <2>2. \A u \in Uuids : DOMAIN table'[u] = Vars
    BY <1>3, <1>4, VarsOfLists DEF Shapes
  <2>3. DOMAIN copy' = Frames
    BY <1>3, <1>5
  <2>4. ASSUME NEW o \in Frames
        PROVE  /\ DOMAIN copy'[o] = {"UUID", "inserted", "fresh", "vars", "listPg"}
               /\ DOMAIN copy'[o].vars = Vars
               /\ copy'[o].UUID \in 0 .. made'
               /\ phase'[o] # "idle" => copy'[o].UUID \in Uuids
               /\ shown'[o].list \in Lists \cup {"none"}
    <3>1. CASE o = t
      BY <1>1, <1>2, <1>3, <1>4, <3>1 DEF Shapes
    <3>2. CASE o # t
      <4>1. copy[o].UUID \in 0 .. made'
        BY <1>3, <1>4, <1>5 DEF Shapes
      <4> QED
        BY <1>2, <1>4, <1>6, <3>2, <4>1 DEF Shapes
    <3> QED
      BY <3>1, <3>2
  <2>5. jar' \in 0 .. made'
    BY <1>2, <1>3, <1>5
  <2> QED
    BY <1>2, <1>3, <1>5, <1>7, <2>1, <2>2, <2>3, <2>4, <2>5 DEF Shapes
<1>9. SolidInv'
  <2>1. SolidInv
    BY DEF SessionInv
  <2>2. solid'.keys \subseteq Vars /\ solid'.keys \subseteq solid.keys
    BY <1>7, <2>1 DEF SolidInv
  <2>3. solid'.keys # {} => jar' \in live' /\ jar \in live
    BY <1>2, <1>3, <2>1, <2>2 DEF SolidInv
  <2>4. ASSUME NEW k \in solid'.keys
        PROVE  table'[jar'][k] = solid'.vars[k] /\ vars[k] = solid.vars[k]
    <3>1. jar' = jar /\ table'[jar] = table[jar] /\ table[jar][k] = solid.vars[k]
      BY <1>2, <1>3, <2>1, <2>2, <2>3 DEF SolidInv, SetDataLasts
    <3>2. vars[k] = table[jar][k]
      BY <1>7, <2>2, <2>3 DEF Proper, Loaded
    <3> QED
      BY <1>7, <3>1, <3>2
  <2>5. ASSUME NEW o \in Frames, phase'[o] # "idle", solid'.keys # {}
        PROVE  /\ copy'[o].UUID = jar' /\ ~copy'[o].fresh
               /\ \A k \in solid'.keys : copy'[o].vars[k] = solid'.vars[k]
    <3>1. CASE o = t
      <4>1. copy'[o].UUID = jar' /\ ~copy'[o].fresh /\ copy'[o].vars = vars
        BY <1>2, <1>3, <2>3, <2>5, <3>1
      <4>2. \A k \in solid'.keys : vars[k] = solid'.vars[k]
        BY <1>7, <2>4
      <4> QED
        BY <4>1, <4>2
    <3>2. CASE o # t
      <4>1. copy'[o] = copy[o] /\ phase[o] # "idle" /\ solid.keys # {}
        BY <1>6, <2>2, <2>5, <3>2
      <4>2. /\ copy[o].UUID = jar /\ ~copy[o].fresh
            /\ \A k \in solid.keys : copy[o].vars[k] = solid.vars[k]
        BY <2>1, <4>1 DEF SolidInv
      <4> QED
        BY <1>2, <1>7, <2>2, <4>1, <4>2
    <3> QED
      BY <3>1, <3>2
  <2>6. ASSUME NEW o \in Frames, phase'[o] = "begun", list'[o] # "none"
        PROVE  << Name[list'[o]], "lPg" >> \notin solid'.keys
    <3>1. CASE o = t
      BY <1>6, <1>7, <2>6, <3>1 DEF Proper
    <3>2. CASE o # t
      BY <1>6, <1>7, <2>1, <2>2, <2>6, <3>2 DEF SolidInv
    <3> QED
      BY <3>1, <3>2
  <2> QED
    BY <2>2, <2>3, <2>4, <2>5, <2>6 DEF SolidInv, SetDataLasts
<1>10. UnsharedSort'
  <2>1. ASSUME NEW o \in Lists, ~Shared(o)
        PROVE  /\ \A u \in Uuids : OwnSort(table'[u], o)
               /\ \A p \in Frames : OwnSort(copy'[p].vars, o)
    <3>1. \A u \in Uuids : OwnSort(table'[u], o)
      BY <1>3, <2>1, VarsOfLists DEF SessionInv, UnsharedSort
    <3>2. OwnSort(vars, o)
      BY <2>1 DEF Proper
    <3>3. \A p \in Frames : OwnSort(copy'[p].vars, o)
      BY <1>3, <1>6, <2>1, <3>2 DEF SessionInv, UnsharedSort
    <3> QED
      BY <3>1, <3>3
  <2> QED
    BY <2>1 DEF UnsharedSort, OwnSort
<1>11. NeatSort'
  <2> SUFFICES ASSUME neat' PROVE NeatSort'
    BY DEF NeatSort
  <2>1. neat /\ \A o \in Frames \ {t} :
                  phase'[o] = "idle" /\ shown'[o] = NothingShown
    BY <1>2, <1>6 DEF Proper
  <2>2. \A o, p \in Frames : Active(o)' /\ Active(p)' => o = p
    BY <2>1 DEF Active
  <2>3. ~copy'[t].fresh => copy'[t].UUID = jar'
    BY <1>2, <1>3
  <2>4. /\ list'[t] # "none" => OwnSort(copy'[t].vars, list'[t])
        /\ list'[t] = "none" /\ shown'[t].list # "none" =>
             OwnSort(copy'[t].vars, shown'[t].list)
    BY <1>2, <1>3, <1>6, <2>1 DEF Proper
  <2>5. ASSUME NEW o \in Frames
        PROVE  /\ phase'[o] # "idle" /\ ~copy'[o].fresh => copy'[o].UUID = jar'
               /\ phase'[o] = "idle" => shown'[o].list = "none"
               /\ phase'[o] # "idle" /\ list'[o] # "none" =>
                    OwnSort(copy'[o].vars, list'[o])
               /\ phase'[o] # "idle" /\ list'[o] = "none" /\ shown'[o].list # "none" =>
                    OwnSort(copy'[o].vars, shown'[o].list)
    BY <1>6, <2>1, <2>3, <2>4, VarsOfLists
  <2> QED
    BY <2>2, <2>5 DEF NeatSort, OwnSort
<1>12. SortedByOwnColumn'
  BY <1>2 DEF SessionInv, SortedByOwnColumn, Shared
<1> QED
  BY <1>8, <1>9, <1>10, <1>11, <1>12 DEF SessionInv

\* One variable put into a session.
LEMMA SetHolds ==
  ASSUME NEW v, NEW n, NEW field, NEW value, DOMAIN v = Vars,
         << n, field >> \in Vars
  PROVE  /\ DOMAIN Set(v, n, field, value) = Vars
         /\ Set(v, n, field, value)[<< n, field >>] = value
         /\ \A k \in Vars \ {<< n, field >>} : Set(v, n, field, value)[k] = v[k]
BY DEF Set

\* A variable that is no sort column changes no list's sort column.
LEMMA SetKeepsSort ==
  ASSUME NEW v, NEW n, NEW field, NEW value, DOMAIN v = Vars,
         << n, field >> \in Vars, n = "tree" \/ field # "lSort",
         NEW o \in Lists
  PROVE  OwnSort(Set(v, n, field, value), o) <=> OwnSort(v, o)
<1>1. << Name[o], "lSort" >> \in Vars /\ Name[o] # "tree"
  BY VarsOfLists, SessionAssumption
<1>2. << Name[o], "lSort" >> # << n, field >>
  BY <1>1
<1>3. Set(v, n, field, value)[<< Name[o], "lSort" >>] = v[<< Name[o], "lSort" >>]
  BY <1>1, <1>2 DEF Set
<1> QED
  BY <1>3 DEF OwnSort

\* The menu link.
LEMMA OpenFromMenuKeeps ==
  ASSUME SessionInv, NEW t \in Frames, NEW l \in Lists, OpenFromMenu(t, l)
  PROVE  SessionInv'
<1> DEFINE vars == Reset(l, Loaded)
<1>1. DOMAIN vars = Vars /\ \A k \in Vars \ AllOf(l) : vars[k] = Loaded[k]
  BY DEF Reset
<1>2. \A o \in Lists : OwnSort(Loaded, o) \/ Name[o] = Name[l] => OwnSort(vars, o)
  <2>1. ASSUME NEW o \in Lists, OwnSort(Loaded, o) \/ Name[o] = Name[l]
        PROVE  OwnSort(vars, o)
    <3>1. << Name[o], "lSort" >> \in Vars /\ OwnSort(NoData, o)
      BY VarsOfLists
    <3>2. CASE << Name[o], "lSort" >> \in AllOf(l)
      BY <3>1, <3>2 DEF Reset, OwnSort
    <3>3. CASE << Name[o], "lSort" >> \notin AllOf(l)
      BY <1>1, <2>1, <3>1, <3>3 DEF AllOf, OwnSort
    <3> QED
      BY <3>2, <3>3
  <2> QED
    BY <2>1
<1>3. l # "none" /\ << Name[l], "lPg" >> \in AllOf(l)
  BY SessionAssumption DEF AllOf
<1>4. neat => \A o \in Frames \ {t} : phase[o] = "idle" /\ shown[o] = NothingShown
  BY DEF OpenFromMenu
<1>5. Begin(t, l, vars, 0, AllOf(l))
  BY DEF OpenFromMenu
<1> HIDE DEF vars
<1>6. Proper(t, l, vars, AllOf(l))
  BY <1>1, <1>2, <1>3, <1>4, LoadedHolds DEF Proper
<1> QED
  BY <1>5, <1>6, BeginKeeps

\* The headings.
LEMMA SortByKeeps ==
  ASSUME SessionInv, NEW t \in Frames, NEW l \in Lists, NEW c \in Columns[l],
         SortBy(t, l, c)
  PROVE  SessionInv'
<1> DEFINE vars == SetSort(l, c, Loaded)
           turned == IF Loaded[<< Name[l], "lSort" >>] = c
                     THEN Set(Loaded, Name[l], "lDir",
                              IF Loaded[<< Name[l], "lDir" >>] = "desc"
                              THEN "asc" ELSE "desc")
                     ELSE Loaded
           set == {Name[l]} \X {"lSort", "lDir", "lPg"}
<1>1. /\ << Name[l], "lSort" >> \in Vars /\ << Name[l], "lDir" >> \in Vars
      /\ l # "none"
  BY VarsOfLists, SessionAssumption
<1>2. DOMAIN Loaded = Vars
  BY LoadedHolds
<1>3. /\ DOMAIN turned = Vars
      /\ \A k \in Vars \ {<< Name[l], "lDir" >>} : turned[k] = Loaded[k]
  BY <1>1, <1>2, SetHolds
<1>4. vars = Set(turned, Name[l], "lSort", c)
  BY DEF SetSort
<1>5. Begin(t, l, vars, Stored(l, Loaded), set) /\ May(t, l)
  BY DEF SortBy
<1>6. /\ << Name[l], "lPg" >> \in set /\ << Name[l], "lSort" >> \in set
      /\ << Name[l], "lDir" >> \in set
  OBVIOUS
<1> HIDE DEF vars, turned, set
<1>7. /\ DOMAIN vars = Vars /\ vars[<< Name[l], "lSort" >>] = c
      /\ \A k \in Vars \ {<< Name[l], "lSort" >>} : vars[k] = turned[k]
  BY <1>1, <1>3, <1>4, SetHolds
<1>8. \A k \in Vars \ set : vars[k] = Loaded[k]
  BY <1>3, <1>6, <1>7
<1>9. OwnSort(vars, l)
  BY <1>7 DEF OwnSort
<1>10. ASSUME NEW o \in Lists, ~Shared(o)
       PROVE  OwnSort(vars, o)
  <2>1. CASE o = l
    BY <1>9, <2>1
  <2>2. CASE o # l
    <3>1. Name[o] # Name[l] /\ << Name[o], "lSort" >> \in Vars
      BY <1>10, <2>2, VarsOfLists DEF Shared
    <3>2. vars[<< Name[o], "lSort" >>] = Loaded[<< Name[o], "lSort" >>]
      BY <1>3, <1>7, <3>1
    <3> QED
      BY <1>10, <3>2, LoadedHolds DEF OwnSort
  <2> QED
    BY <2>1, <2>2
<1>11. Proper(t, l, vars, set)
  BY <1>1, <1>5, <1>6, <1>7, <1>8, <1>9, <1>10 DEF Proper, May
<1> QED
  BY <1>5, <1>11, BeginKeeps

\* Changes that leave every sort column as it is.
LEMMA UnsortedKeeps ==
  ASSUME SessionInv, NEW t \in Frames, NEW l \in Lists \cup {"none"},
         NEW vars, NEW pg, NEW set,
         DOMAIN vars = Vars, \A k \in Vars \ set : vars[k] = Loaded[k],
         l # "none" => << Name[l], "lPg" >> \in set,
         \A o \in Lists : OwnSort(vars, o) <=> OwnSort(Loaded, o),
         May(t, l), Begin(t, l, vars, pg, set)
  PROVE  SessionInv'
<1>1. phase[t] = "idle" /\ shown[t].list \in Lists \cup {"none"}
  BY DEF Begin, SessionInv, Shapes
<1>2. Proper(t, l, vars, set)
  BY <1>1, LoadedHolds DEF Proper, May
<1> QED
  BY <1>2, BeginKeeps

\* The search box.
LEMMA FilterByKeeps ==
  ASSUME SessionInv, NEW t \in Frames, NEW l \in Lists, NEW f, FilterBy(t, l, f)
  PROVE  SessionInv'
<1> DEFINE vars == Set(Loaded, Name[l], "lFilter", f)
           set == {Name[l]} \X {"lFilter", "lPg"}
<1>1. << Name[l], "lFilter" >> \in Vars /\ DOMAIN Loaded = Vars
  BY VarsOfLists, LoadedHolds
<1>2. /\ << Name[l], "lPg" >> \in set /\ << Name[l], "lFilter" >> \in set
      /\ Begin(t, l, vars, Stored(l, Loaded), set) /\ May(t, l)
  BY DEF FilterBy
<1>3. DOMAIN vars = Vars /\ \A k \in Vars \ {<< Name[l], "lFilter" >>} :
                              vars[k] = Loaded[k]
  BY <1>1, SetHolds
<1>4. \A o \in Lists : OwnSort(vars, o) <=> OwnSort(Loaded, o)
  BY <1>1, SetKeepsSort
<1> HIDE DEF vars, set
<1>5. \A k \in Vars \ set : vars[k] = Loaded[k]
  BY <1>2, <1>3
<1> QED
  BY <1>2, <1>3, <1>4, <1>5, UnsortedKeeps

\* The navigation.
LEMMA TurnKeeps ==
  ASSUME SessionInv, NEW t \in Frames, NEW l \in Lists, NEW move, Turn(t, l, move)
  PROVE  SessionInv'
BY LoadedHolds, UnsortedKeeps DEF Turn

\* The tree service.
LEMMA SetNodeKeeps ==
  ASSUME SessionInv, NEW t \in Frames, NEW n \in Nodes, NEW open,
         SetNode(t, n, open)
  PROVE  SessionInv'
<1> DEFINE vars == Set(Loaded, "tree", n, open)
<1>1. << "tree", n >> \in Vars /\ DOMAIN Loaded = Vars
  BY LoadedHolds DEF Vars
<1>2. Begin(t, "none", vars, 0, {<< "tree", n >>}) /\ May(t, "none")
  BY DEF SetNode
<1>3. DOMAIN vars = Vars /\ \A k \in Vars \ {<< "tree", n >>} : vars[k] = Loaded[k]
  BY <1>1, SetHolds
<1>4. \A o \in Lists : OwnSort(vars, o) <=> OwnSort(Loaded, o)
  BY <1>1, SetKeepsSort
<1> HIDE DEF vars
<1> QED
  BY <1>2, <1>3, <1>4, UnsortedKeeps

\* The request goes on: its page number is corrected, or is not.
LEMMA CountedKeeps ==
  ASSUME SessionInv, NEW t \in Frames, phase[t] = "begun", list[t] # "none",
         phase' = [phase EXCEPT ![t] = "counted"],
         DOMAIN copy' = Frames, \A o \in Frames \ {t} : copy'[o] = copy[o],
         DOMAIN copy'[t] = DOMAIN copy[t],
         copy'[t].UUID = copy[t].UUID, copy'[t].fresh = copy[t].fresh,
         DOMAIN copy'[t].vars = Vars,
         \A k \in Vars \ {<< Name[list[t]], "lPg" >>} :
           copy'[t].vars[k] = copy[t].vars[k],
         UNCHANGED << neat, live, table, made, jar, list, shown, solid >>
  PROVE  SessionInv'
<1>1. Shapes /\ SolidInv /\ UnsharedSort /\ NeatSort /\ SortedByOwnColumn
  BY DEF SessionInv
<1>2. list[t] \in Lists /\ phase'[t] = "counted"
      /\ \A o \in Frames \ {t} : phase'[o] = phase[o] /\ copy'[o] = copy[o]
  BY <1>1 DEF Shapes
<1>3. ASSUME NEW o \in Lists
      PROVE  OwnSort(copy'[t].vars, o) <=> OwnSort(copy[t].vars, o)
  <2>1. << Name[o], "lSort" >> \in Vars
    BY VarsOfLists
  <2>2. copy'[t].vars[<< Name[o], "lSort" >>] = copy[t].vars[<< Name[o], "lSort" >>]
    BY <2>1
  <2> QED
    BY <2>2 DEF OwnSort
<1>4. Shapes'
  <2>1. phase' \in [Frames -> {"idle", "begun", "counted"}] /\ DOMAIN copy' = Frames
    BY <1>1 DEF Shapes
  <2>2. ASSUME NEW o \in Frames
        PROVE  /\ DOMAIN copy'[o] = {"UUID", "inserted", "fresh", "vars", "listPg"}
               /\ DOMAIN copy'[o].vars = Vars
               /\ copy'[o].UUID \in 0 .. made'
               /\ phase'[o] # "idle" => copy'[o].UUID \in Uuids
    BY <1>1, <1>2 DEF Shapes
  <2> QED
    BY <1>1, <2>1, <2>2 DEF Shapes
<1>5. SolidInv'
  <2>1. << Name[list[t]], "lPg" >> \notin solid.keys /\ solid.keys \subseteq Vars
    BY <1>1 DEF SolidInv
  <2>2. \A k \in solid.keys : copy'[t].vars[k] = copy[t].vars[k]
    BY <2>1
  <2>3. ASSUME NEW o \in Frames, phase'[o] # "idle", solid.keys # {}
        PROVE  /\ copy'[o].UUID = jar /\ ~copy'[o].fresh
               /\ \A k \in solid.keys : copy'[o].vars[k] = solid.vars[k]
    <3>1. phase[o] # "idle"
      BY <1>2, <2>3
    <3>2. /\ copy[o].UUID = jar /\ ~copy[o].fresh
          /\ \A k \in solid.keys : copy[o].vars[k] = solid.vars[k]
      BY <1>1, <2>3, <3>1 DEF SolidInv
    <3> QED
      BY <1>2, <2>2, <3>2
  <2>4. ASSUME NEW o \in Frames, phase'[o] = "begun", list[o] # "none"
        PROVE  << Name[list[o]], "lPg" >> \notin solid.keys
    BY <1>1, <1>2, <2>4 DEF SolidInv
  <2> QED
    BY <1>1, <2>3, <2>4 DEF SolidInv, SetDataLasts
<1>6. UnsharedSort'
  <2>1. ASSUME NEW o \in Lists, ~Shared(o)
        PROVE  \A p \in Frames : OwnSort(copy'[p].vars, o)
    BY <1>1, <1>2, <1>3, <2>1 DEF UnsharedSort
  <2> QED
    BY <1>1, <2>1 DEF UnsharedSort, OwnSort
<1>7. NeatSort'
  <2> SUFFICES ASSUME neat PROVE NeatSort'
    BY DEF NeatSort
  <2>1. \A o \in Frames : Active(o)' <=> Active(o)
    BY <1>2 DEF Active
  <2>2. ASSUME NEW o \in Frames
        PROVE  /\ phase'[o] # "idle" /\ ~copy'[o].fresh => copy'[o].UUID = jar
               /\ phase'[o] = "idle" => phase[o] = "idle"
               /\ phase'[o] # "idle" /\ list[o] # "none" =>
                    OwnSort(copy'[o].vars, list[o])
               /\ phase'[o] # "idle" /\ list[o] = "none" /\ shown[o].list # "none" =>
                    OwnSort(copy'[o].vars, shown[o].list)
    <3>1. list[o] \in Lists \cup {"none"} /\ shown[o].list \in Lists \cup {"none"}
      BY <1>1 DEF Shapes
    <3>2. \A p \in Lists : OwnSort(copy'[o].vars, p) <=> OwnSort(copy[o].vars, p)
      BY <1>2, <1>3
    <3> QED
      BY <1>1, <1>2, <3>1, <3>2 DEF NeatSort
  <2> QED
    BY <1>1, <2>1, <2>2 DEF NeatSort, OwnSort
<1>8. SortedByOwnColumn'
  BY <1>1 DEF SortedByOwnColumn, Shared
<1> QED
  BY <1>4, <1>5, <1>6, <1>7, <1>8 DEF SessionInv

\* A request counts what there is to lock or to delete.
LEMMA CountKeeps ==
  ASSUME SessionInv, NEW t \in Frames, Count(t) \/ CountFails(t)
  PROVE  SessionInv'
<1>1. /\ DOMAIN copy = Frames /\ list[t] \in Lists \cup {"none"}
      /\ DOMAIN copy[t] = {"UUID", "inserted", "fresh", "vars", "listPg"}
      /\ DOMAIN copy[t].vars = Vars
  BY DEF SessionInv, Shapes
<1>2. CASE Count(t)
  <2>1. PICK recCount \in 0 .. MaxCount :
          LET pg == MaxPageFixup(copy[t].listPg, recCount)
          IN  copy' = [copy EXCEPT ![t].listPg = pg,
                                   ![t].vars = Set(@, Name[list[t]], "lPg", pg)]
    BY <1>2 DEF Count
  <2> DEFINE pg == MaxPageFixup(copy[t].listPg, recCount)
             vars == Set(copy[t].vars, Name[list[t]], "lPg", pg)
  <2>2. list[t] \in Lists /\ << Name[list[t]], "lPg" >> \in Vars
    BY <1>1, <1>2, VarsOfLists DEF Count
  <2>3. DOMAIN vars = Vars
        /\ \A k \in Vars \ {<< Name[list[t]], "lPg" >>} : vars[k] = copy[t].vars[k]
    BY <1>1, <2>2, SetHolds
  <2> HIDE DEF pg
  <2>4. copy' = [copy EXCEPT ![t] = [copy[t] EXCEPT !.listPg = pg, !.vars = vars]]
    BY <1>1, <2>1 DEF pg
  <2> HIDE DEF vars
  <2>5. copy'[t] = [copy[t] EXCEPT !.listPg = pg, !.vars = vars]
    BY <1>1, <2>4
  <2>6. DOMAIN copy'[t] = DOMAIN copy[t] /\ copy'[t].vars = vars
        /\ copy'[t].UUID = copy[t].UUID /\ copy'[t].fresh = copy[t].fresh
    BY <1>1, <2>5
  <2> QED
    BY <1>1, <1>2, <2>3, <2>4, <2>6, CountedKeeps DEF Count
<1>3. CASE CountFails(t)
  <2>1. /\ phase[t] = "begun" /\ list[t] # "none"
        /\ phase' = [phase EXCEPT ![t] = "counted"]
        /\ UNCHANGED << neat, live, table, made, jar, list, copy, shown, solid >>
    BY <1>3 DEF CountFails
  <2> QED
    BY <1>1, <2>1, CountedKeeps
<1> QED
  BY <1>2, <1>3

\* The request ends, and its copy is written over the session.
LEMMA SynchSteps ==
  ASSUME SessionInv, NEW t \in Frames, NEW good, Synch(copy[t], good),
         phase[t] # "idle", UNCHANGED made
  PROVE  /\ copy[t].UUID \in Uuids
         /\ live \subseteq live' /\ live' \subseteq 1 .. made'
         /\ DOMAIN table' = Uuids
         /\ \A u \in Uuids : table'[u] = table[u] \/ table'[u] = copy[t].vars
         /\ copy[t].UUID \in live' => table'[copy[t].UUID] = copy[t].vars
         /\ \A u \in Uuids \ {copy[t].UUID} :
              table'[u] = table[u] /\ (u \in live' => u \in live)
<1>1. /\ copy[t].UUID \in Uuids /\ copy[t].UUID \in 0 .. made
      /\ DOMAIN table = Uuids /\ live \subseteq 1 .. made /\ made \in Nat
  BY SessionAssumption DEF SessionInv, Shapes
<1> DEFINE there == copy[t].UUID \in live \/ (~copy[t].inserted /\ good)
<1>2. /\ live' = live \cup (IF there THEN {copy[t].UUID} ELSE {})
      /\ table' = IF there THEN [table EXCEPT ![copy[t].UUID] = copy[t].vars]
                  ELSE table
  BY DEF Synch
<1>3. copy[t].UUID \in live => there
  OBVIOUS
<1> HIDE DEF there
<1>4. copy[t].UUID \in 1 .. made'
  BY <1>1, SessionAssumption DEF Uuids
<1>5. CASE there
  <2>1. table' = [table EXCEPT ![copy[t].UUID] = copy[t].vars]
        /\ live' = live \cup {copy[t].UUID}
    BY <1>2, <1>5
  <2> QED
    BY <1>1, <1>4, <2>1
<1>6. CASE ~there
  BY <1>1, <1>2, <1>3, <1>6
<1> QED
  BY <1>5, <1>6

\* A page arrives.
LEMMA FinishKeeps ==
  ASSUME SessionInv, NEW t \in Frames, Finish(t)
  PROVE  SessionInv'
<1>1. Shapes /\ SolidInv /\ UnsharedSort /\ NeatSort /\ SortedByOwnColumn
  BY DEF SessionInv
<1> DEFINE s == copy[t]
           alone == \A o \in Frames \ {t} : phase[o] = "idle"
<1>2. /\ phase' = [phase EXCEPT ![t] = "idle"] /\ phase[t] # "idle"
      /\ jar' = IF s.fresh THEN s.UUID ELSE jar
      /\ copy' = [copy EXCEPT ![t] = NoSession]
      /\ list' = [list EXCEPT ![t] = "none"]
      /\ UNCHANGED << neat, made >>
  BY DEF Finish
<1>3. /\ s.UUID \in Uuids /\ live \subseteq live' /\ live' \subseteq 1 .. made'
      /\ DOMAIN table' = Uuids
      /\ \A u \in Uuids : table'[u] = table[u] \/ table'[u] = s.vars
      /\ s.UUID \in live' => table'[s.UUID] = s.vars
      /\ \A u \in Uuids \ {s.UUID} :
           table'[u] = table[u] /\ (u \in live' => u \in live)
  <2>1. PICK good \in BOOLEAN : Synch(copy[t], good)
    BY DEF Finish
  <2> QED
    BY <1>2, <2>1, SynchSteps
<1>4. /\ phase \in [Frames -> {"idle", "begun", "counted"}]
      /\ list \in [Frames -> Lists \cup {"none"}]
      /\ DOMAIN copy = Frames /\ DOMAIN shown = Frames
      /\ made \in 0 .. MaxSessions /\ jar \in 0 .. made /\ s.UUID \in 0 .. made
      /\ DOMAIN s.vars = Vars /\ live \subseteq Uuids
  BY <1>1, SessionAssumption DEF Shapes, Uuids
<1>5. /\ phase'[t] = "idle" /\ copy'[t] = NoSession /\ list'[t] = "none"
      /\ \A o \in Frames \ {t} :
           phase'[o] = phase[o] /\ copy'[o] = copy[o] /\ list'[o] = list[o]
  BY <1>2, <1>4
<1>6. /\ \A o \in Frames \ {t} : shown'[o] = shown[o]
      /\ list[t] = "none" => shown'[t] = shown[t]
      /\ list[t] # "none" =>
           /\ shown'[t].list = list[t]
           /\ shown'[t].lSort = s.vars[<< Name[list[t]], "lSort" >>]
      /\ DOMAIN shown' = Frames
  BY <1>4 DEF Finish
<1>7. /\ alone => solid' = [keys |-> IF jar' \in live' THEN Vars ELSE {},
                            vars |-> IF jar' \in Uuids \ {s.UUID}
                                     THEN table'[jar'] ELSE s.vars]
      /\ ~alone => solid' = solid
  BY DEF Finish
<1> HIDE DEF s, alone
<1>8. Shapes'
  <2>1. phase' \in [Frames -> {"idle", "begun", "counted"}]
        /\ list' \in [Frames -> Lists \cup {"none"}] /\ DOMAIN copy' = Frames
    BY <1>2, <1>4
  <2>2. \A u \in Uuids : DOMAIN table'[u] = Vars
    BY <1>1, <1>3, <1>4 DEF Shapes
  <2>3. ASSUME NEW o \in Frames
        PROVE  /\ DOMAIN copy'[o] = {"UUID", "inserted", "fresh", "vars", "listPg"}
               /\ DOMAIN copy'[o].vars = Vars
               /\ copy'[o].UUID \in 0 .. made'
               /\ phase'[o] # "idle" => copy'[o].UUID \in Uuids
    <3>1. CASE o = t
      BY <1>2, <1>4, <1>5, <3>1, VarsOfLists, SessionAssumption
    <3>2. CASE o # t
      BY <1>1, <1>2, <1>5, <3>2 DEF Shapes
    <3> QED
      BY <3>1, <3>2
  <2>4. ASSUME NEW o \in Frames
        PROVE  shown'[o].list \in Lists \cup {"none"}
    BY <1>1, <1>4, <1>6 DEF Shapes
  <2>5. DOMAIN solid' = {"keys", "vars"}
    BY <1>1, <1>7 DEF Shapes
  <2>6. jar' \in 0 .. made'
    BY <1>2, <1>4
  <2> QED
    BY <1>2, <1>3, <1>4, <1>6, <2>1, <2>2, <2>3, <2>4, <2>5, <2>6 DEF Shapes
<1>9. SolidInv'
  <2>1. CASE alone
    <3>1. \A o \in Frames : phase'[o] = "idle"
      BY <1>5, <2>1 DEF alone
    <3>2. /\ solid'.keys = IF jar' \in live' THEN Vars ELSE {}
          /\ solid'.vars = IF jar' \in Uuids \ {s.UUID} THEN table'[jar'] ELSE s.vars
      BY <1>7, <2>1
    <3>3. jar' \in live' => table'[jar'] = solid'.vars
      <4>1. CASE jar' = s.UUID
        BY <1>3, <3>2, <4>1
      <4>2. CASE jar' # s.UUID
        <5>1. jar' \in live' => jar' \in Uuids
          BY <1>2, <1>3, <1>4, SessionAssumption DEF Uuids
        <5> QED
          BY <3>2, <4>2, <5>1
      <4> QED
        BY <4>1, <4>2
    <3> QED
      BY <3>1, <3>2, <3>3 DEF SolidInv, SetDataLasts
  <2>2. CASE ~alone
    <3>1. solid' = solid
      BY <1>7, <2>2
    <3>2. ASSUME solid.keys # {}
          PROVE  /\ jar' = jar /\ jar \in live' /\ s.UUID = jar
                 /\ \A k \in solid.keys : table'[jar][k] = solid.vars[k]
      <4>1. /\ s.UUID = jar /\ ~s.fresh /\ jar \in live
            /\ \A k \in solid.keys : s.vars[k] = solid.vars[k]
        BY <1>1, <1>2, <3>2 DEF SolidInv, s
      <4>2. jar \in live' /\ table'[jar] = s.vars
        BY <1>3, <4>1
      <4> QED
        BY <1>2, <4>1, <4>2
    <3>3. SetDataLasts' /\ (solid'.keys # {} => jar' \in live')
      BY <3>1, <3>2 DEF SetDataLasts
    <3>4. ASSUME NEW o \in Frames
          PROVE  /\ phase'[o] # "idle" /\ solid'.keys # {} =>
                      /\ copy'[o].UUID = jar'
                      /\ ~copy'[o].fresh
                      /\ \A k \in solid'.keys : copy'[o].vars[k] = solid'.vars[k]
                 /\ phase'[o] = "begun" /\ list'[o] # "none" =>
                      << Name[list'[o]], "lPg" >> \notin solid'.keys
      BY <1>1, <1>5, <3>1, <3>2 DEF SolidInv
    <3> QED
      BY <1>1, <3>1, <3>3, <3>4 DEF SolidInv
  <2> QED
    BY <2>1, <2>2
<1>10. UnsharedSort'
  <2>1. ASSUME NEW o \in Lists, ~Shared(o)
        PROVE  /\ \A u \in Uuids : OwnSort(table'[u], o)
               /\ \A p \in Frames : OwnSort(copy'[p].vars, o)
    <3>1. OwnSort(s.vars, o) /\ \A u \in Uuids : OwnSort(table[u], o)
      BY <1>1, <2>1 DEF UnsharedSort, s
    <3>2. \A p \in Frames : OwnSort(copy'[p].vars, o)
      BY <1>1, <1>5, <2>1, VarsOfLists DEF UnsharedSort
    <3> QED
      BY <1>3, <3>1, <3>2
  <2> QED
    BY <2>1 DEF UnsharedSort, OwnSort
<1>11. NeatSort'
  <2> SUFFICES ASSUME neat PROVE NeatSort'
    BY <1>2 DEF NeatSort
  <2>1. \A o \in Frames \ {t} : phase[o] = "idle" /\ shown[o] = NothingShown
    BY <1>1, <1>2 DEF NeatSort, Active
  <2>2. \A o \in Frames \ {t} : ~Active(o)'
    BY <1>5, <1>6, <2>1 DEF Active
  <2>3. jar' = s.UUID
    BY <1>1, <1>2 DEF NeatSort, s
  <2>4. ASSUME shown'[t].list # "none", jar' \in live'
        PROVE  OwnSort(table'[jar'], shown'[t].list)
    <3>1. table'[jar'] = s.vars
      BY <1>3, <2>3, <2>4
    <3>2. OwnSort(s.vars, shown'[t].list)
      BY <1>1, <1>2, <1>6, <2>4 DEF NeatSort, s
    <3> QED
      BY <3>1, <3>2
  <2>5. ASSUME NEW o \in Frames
        PROVE  phase'[o] = "idle"
               /\ (shown'[o].list # "none" /\ jar' \in live' =>
                     OwnSort(table'[jar'], shown'[o].list))
    BY <1>5, <1>6, <2>1, <2>4, VarsOfLists
  <2>6. \A o, p \in Frames : Active(o)' /\ Active(p)' => o = p
    BY <2>2
  <2> QED
    BY <2>5, <2>6 DEF NeatSort, OwnSort
<1>12. SortedByOwnColumn'
  <2>1. ASSUME NEW o \in Frames, shown'[o].list # "none",
               neat \/ ~Shared(shown'[o].list)
        PROVE  shown'[o].lSort \in Columns[shown'[o].list] \cup {""}
    <3>1. CASE o = t /\ list[t] # "none"
      <4>1. OwnSort(s.vars, list[t])
        BY <1>1, <1>2, <1>4, <1>6, <2>1, <3>1 DEF NeatSort, UnsharedSort, s
      <4> QED
        BY <1>6, <3>1, <4>1 DEF OwnSort
    <3>2. CASE ~(o = t /\ list[t] # "none")
      <4>1. shown'[o] = shown[o]
        BY <1>6, <3>2
      <4> QED
        BY <1>1, <2>1, <4>1 DEF SortedByOwnColumn
    <3> QED
      BY <3>1, <3>2
  <2> QED
    BY <1>2, <2>1 DEF SortedByOwnColumn, Shared
<1> QED
  BY <1>8, <1>9, <1>10, <1>11, <1>12 DEF SessionInv

\* A tab is closed.
LEMMA CloseKeeps ==
  ASSUME SessionInv, NEW t \in Frames, Close(t)
  PROVE  SessionInv'
<1>1. Shapes /\ SolidInv /\ UnsharedSort /\ NeatSort /\ SortedByOwnColumn
  BY DEF SessionInv
<1>2. /\ shown'[t] = NothingShown /\ DOMAIN shown' = Frames
      /\ \A o \in Frames \ {t} : shown'[o] = shown[o]
      /\ phase[t] = "idle"
      /\ UNCHANGED << neat, live, table, made, jar, phase, list, copy, solid >>
  BY <1>1 DEF Close, Shapes
<1>3. Shapes'
  BY <1>1, <1>2, VarsOfLists DEF Shapes
<1>4. SolidInv' /\ UnsharedSort'
  BY <1>1, <1>2 DEF SolidInv, SetDataLasts, UnsharedSort, OwnSort
<1>5. NeatSort'
  <2>1. \A o \in Frames : Active(o)' => Active(o)
    BY <1>2 DEF Active
  <2>2. shown'[t].list = "none"
    BY <1>2, VarsOfLists
  <2>3. ASSUME NEW o \in Frames
        PROVE  /\ phase[o] # "idle" => shown'[o] = shown[o]
               /\ shown'[o].list # "none" => shown'[o] = shown[o]
    BY <1>2, <2>2
  <2>4. \A o, p \in Frames : Active(o)' /\ Active(p)' /\ neat => o = p
    BY <1>1, <2>1 DEF NeatSort
  <2> QED
    BY ZenonT(40), <1>1, <1>2, <2>3, <2>4 DEF NeatSort, OwnSort
<1>6. SortedByOwnColumn'
  BY ZenonT(40), <1>1, <1>2, VarsOfLists DEF SortedByOwnColumn, Shared
<1> QED
  BY <1>3, <1>4, <1>5, <1>6 DEF SessionInv

\* A session is deleted.
LEMMA DeleteKeeps ==
  ASSUME SessionInv, NEW u \in live, Delete(u)
  PROVE  SessionInv'
<1>1. Shapes /\ SolidInv /\ UnsharedSort /\ NeatSort /\ SortedByOwnColumn
  BY DEF SessionInv
<1>2. /\ live' = live \ {u}
      /\ solid' = IF u = jar THEN [solid EXCEPT !.keys = {}] ELSE solid
      /\ UNCHANGED << neat, table, made, jar, phase, list, copy, shown >>
  BY DEF Delete
<1>3. /\ u = jar => solid'.keys = {}
      /\ u # jar => solid' = solid
      /\ DOMAIN solid' = {"keys", "vars"}
  BY <1>1, <1>2 DEF Shapes
<1>4. Shapes'
  BY <1>1, <1>2, <1>3 DEF Shapes
<1>5. SolidInv'
  <2>1. CASE u = jar
    BY <1>3, <2>1 DEF SolidInv, SetDataLasts
  <2>2. CASE u # jar
    BY <1>1, <1>2, <1>3, <2>2 DEF SolidInv, SetDataLasts
  <2> QED
    BY <2>1, <2>2
<1>6. UnsharedSort' /\ SortedByOwnColumn'
  BY <1>1, <1>2 DEF UnsharedSort, OwnSort, SortedByOwnColumn, Shared
<1>7. NeatSort'
  <2>1. \A o \in Frames : Active(o)' <=> Active(o)
    BY <1>2 DEF Active
  <2> QED
    BY <1>1, <1>2, <2>1 DEF NeatSort, OwnSort
<1> QED
  BY <1>4, <1>5, <1>6, <1>7 DEF SessionInv

\* Every step of the sessions keeps the invariant.
LEMMA SessionInvNext == SessionInv /\ [SessionsNext]_sessionVars => SessionInv'
<1> SUFFICES ASSUME SessionInv, [SessionsNext]_sessionVars PROVE SessionInv'
  OBVIOUS
<1>1. ASSUME NEW t \in Frames, NEW l \in Lists,
             \/ OpenFromMenu(t, l)
             \/ \E c \in Columns[l] : SortBy(t, l, c)
             \/ \E f \in Filters : FilterBy(t, l, f)
             \/ \E move \in {"prev", "next", "last", "here"} : Turn(t, l, move)
      PROVE  SessionInv'
  BY <1>1, OpenFromMenuKeeps, SortByKeeps, FilterByKeeps, TurnKeeps
<1>2. ASSUME NEW t \in Frames, NEW n \in Nodes, NEW open \in BOOLEAN,
             SetNode(t, n, open)
      PROVE  SessionInv'
  BY <1>2, SetNodeKeeps
<1>3. ASSUME NEW t \in Frames, Count(t) \/ CountFails(t) \/ Finish(t) \/ Close(t)
      PROVE  SessionInv'
  BY <1>3, CountKeeps, FinishKeeps, CloseKeeps
<1>4. ASSUME NEW u \in live, Delete(u)
      PROVE  SessionInv'
  BY <1>4, DeleteKeeps
<1>5. CASE UNCHANGED sessionVars
  <2>1. Shapes' /\ SolidInv'
    BY <1>5 DEF sessionVars, SessionInv, Shapes, SolidInv, SetDataLasts
  <2>2. UnsharedSort' /\ SortedByOwnColumn'
    BY <1>5 DEF sessionVars, SessionInv, UnsharedSort, OwnSort, Shared,
                SortedByOwnColumn
  <2>3. \A o \in Frames : Active(o)' <=> Active(o)
    BY <1>5 DEF sessionVars, Active
  <2>4. NeatSort'
    BY <1>5, <2>3 DEF sessionVars, SessionInv, NeatSort, OwnSort
  <2> QED
    BY <2>1, <2>2, <2>4 DEF SessionInv
<1> QED
  BY <1>1, <1>2, <1>3, <1>4, <1>5 DEF SessionsNext

(***************************************************************************)
(* Session_Obj: what the user set while no other request was under way is  *)
(* still set, however the requests overlap that each write back the whole  *)
(* of a copy, for any number of frames, lists and sessions.                *)
(***************************************************************************)
THEOREM SetStays == SessionsSpec => []SetDataLasts
<1>1. SessionInv => SetDataLasts
  BY DEF SessionInv, SolidInv
<1> QED
  BY <1>1, SessionInvInit, SessionInvNext, PTL DEF SessionsSpec

(***************************************************************************)
(* superlist_base: a list with a session name of its own is only sorted by *)
(* a column of its own, and so is any list for a user with one tab who     *)
(* enters each list by its menu link.                                      *)
(***************************************************************************)
THEOREM ListsSortByTheirOwn == SessionsSpec => []SortedByOwnColumn
<1>1. SessionInv => SortedByOwnColumn
  BY DEF SessionInv
<1> QED
  BY <1>1, SessionInvInit, SessionInvNext, PTL DEF SessionsSpec

-----------------------------------------------------------------------------
(* The types of a session.                                                 *)

\* What the variable k may be: a flag for a node, and of a list its filter,
\* direction, column, or a page that there may be.
MayBe(k) ==
  IF k[1] = "tree" THEN BOOLEAN
  ELSE IF k[2] = "lFilter" THEN Filters \cup {""}
  ELSE IF k[2] = "lDir" THEN {"", "asc", "desc"}
  ELSE IF k[2] = "lSort" THEN AllColumns \cup {""}
  ELSE 0 .. MaxCount \div ItemsPerPg

Variables(v) == DOMAIN v = Vars /\ \A k \in Vars : v[k] \in MayBe(k)

\* No list is called tree.
LEMMA TreeIsNoName == "tree" \notin Names
BY SessionAssumption DEF Names

\* IsVariables says of each variable what it may be.
LEMMA VariableByVariable ==
  ASSUME NEW v
  PROVE  IsVariables(v) <=> Variables(v)
<1>1. ASSUME IsVariables(v) PROVE Variables(v)
  <2> SUFFICES ASSUME NEW k \in Vars PROVE v[k] \in MayBe(k)
    BY <1>1 DEF IsVariables, Variables
  <2>1. CASE k \in {"tree"} \X Nodes
    <3>1. PICK n \in Nodes : k = << "tree", n >>
      BY <2>1
    <3> QED
      BY <1>1, <3>1 DEF IsVariables, MayBe
  <2>2. CASE k \in Names \X {"lFilter", "lDir", "lSort", "lPg"}
    <3>1. PICK n \in Names, f \in {"lFilter", "lDir", "lSort", "lPg"} : k = << n, f >>
      BY <2>2
    <3>2. k[1] = n /\ k[2] = f /\ n # "tree"
      BY <3>1, TreeIsNoName
    <3> QED
      BY <1>1, <3>1, <3>2 DEF IsVariables, MayBe
  <2> QED
    BY <2>1, <2>2 DEF Vars
<1>2. ASSUME Variables(v) PROVE IsVariables(v)
  <2>1. ASSUME NEW n \in Nodes PROVE v[<< "tree", n >>] \in BOOLEAN
    <3>1. << "tree", n >> \in Vars
      BY DEF Vars
    <3> QED
      BY <1>2, <3>1 DEF Variables, MayBe
  <2>2. ASSUME NEW n \in Names, NEW f \in {"lFilter", "lDir", "lSort", "lPg"}
        PROVE  v[<< n, f >>] \in MayBe(<< n, f >>) /\ n # "tree"
    <3>1. << n, f >> \in Vars
      BY DEF Vars
    <3> QED
      BY <1>2, <3>1, TreeIsNoName DEF Variables
  <2>3. ASSUME NEW n \in Names
        PROVE  /\ v[<< n, "lFilter" >>] \in Filters \cup {""}
               /\ v[<< n, "lDir" >>] \in {"", "asc", "desc"}
               /\ v[<< n, "lSort" >>] \in AllColumns \cup {""}
               /\ v[<< n, "lPg" >>] \in 0 .. MaxCount \div ItemsPerPg
    <3>1. v[<< n, "lFilter" >>] \in Filters \cup {""}
      BY <2>2 DEF MayBe
    <3>2. v[<< n, "lDir" >>] \in {"", "asc", "desc"}
      BY <2>2 DEF MayBe
    <3>3. v[<< n, "lSort" >>] \in AllColumns \cup {""}
      BY <2>2 DEF MayBe
    <3>4. v[<< n, "lPg" >>] \in 0 .. MaxCount \div ItemsPerPg
      BY <2>2 DEF MayBe
    <3> QED
      BY <3>1, <3>2, <3>3, <3>4
  <2> QED
    BY <1>2, <2>1, <2>3 DEF Variables, IsVariables
<1> QED
  BY <1>1, <1>2

\* The pages of fewer rows are fewer.
LEMMA PagesOfRows ==
  ASSUME NEW a \in Nat, NEW b \in Nat, a <= b
  PROVE  a \div ItemsPerPg \in 0 .. b \div ItemsPerPg
<1>1. ItemsPerPg \in Nat /\ ItemsPerPg > 0
  BY SessionAssumption
<1> DEFINE k == ItemsPerPg
           p == a \div k
           q == b \div k
<1>2. p \in Nat /\ q \in Nat /\ k * p <= a /\ b < k * (q + 1)
  BY <1>1
<1> HIDE DEF p, q, k
<1>3. ~(q + 1 <= p)
  <2> SUFFICES ASSUME q + 1 <= p PROVE FALSE
    OBVIOUS
  <2>1. k \in Nat /\ k * (q + 1) <= k * p
    BY <1>1, <1>2 DEF k
  <2>2. k * (q + 1) \in Nat /\ k * p \in Nat
    BY <1>2, <2>1
  <2> QED
    BY <1>2, <2>1, <2>2
<1>4. p \in 0 .. q
  BY <1>2, <1>3
<1> QED
  BY <1>4 DEF p, q, k

\* Nothing set, and one variable set, the name of which is of a list or tree.
LEMMA VariablesSet ==
  /\ Variables(NoData)
  /\ \A v : Variables(v) =>
       \A n, f, x : x \in MayBe(<< n, f >>) => Variables(Set(v, n, f, x))
<1>1. ASSUME NEW k \in Vars PROVE NoData[k] \in MayBe(k)
  <2>1. 0 \in 0 .. MaxCount \div ItemsPerPg
    <3>1. 0 \div ItemsPerPg \in 0 .. MaxCount \div ItemsPerPg
      BY PagesOfRows, SessionAssumption
    <3>2. 0 \div ItemsPerPg = 0
      BY SessionAssumption
    <3> QED
      BY <3>1, <3>2
  <2>2. k[1] # "tree" => k[2] \in {"lFilter", "lDir", "lSort", "lPg"}
    BY DEF Vars
  <2> QED
    BY <2>1, <2>2 DEF NoData, MayBe
<1>2. Variables(NoData)
  BY <1>1 DEF Variables, NoData
<1>3. ASSUME NEW v, Variables(v), NEW n, NEW f, NEW x, x \in MayBe(<< n, f >>)
      PROVE  Variables(Set(v, n, f, x))
  BY <1>3 DEF Variables, Set
<1> QED
  BY <1>2, <1>3

\* The variables of each session, row or copy, are what they may be, and a
\* request is on a page with a number.
SessionTypes ==
  /\ neat \in BOOLEAN /\ requests \in 0 .. MaxRequests
  /\ \A u \in Uuids : Variables(table[u])
  /\ \A t \in Frames : Variables(copy[t].vars) /\ copy[t].listPg \in Nat
  /\ Variables(solid.vars)

\* What a request finds in its session.
LEMMA LoadedTypes ==
  ASSUME SessionInv, SessionTypes
  PROVE  /\ Variables(Loaded)
         /\ \A l \in Lists : Stored(l, Loaded) \in 0 .. MaxCount \div ItemsPerPg
<1>1. jar \in live => jar \in Uuids
  BY SessionAssumption DEF SessionInv, Shapes, Uuids
<1>2. Variables(Loaded)
  BY <1>1, VariablesSet DEF SessionTypes, Loaded
<1>3. ASSUME NEW l \in Lists
      PROVE  Stored(l, Loaded) \in 0 .. MaxCount \div ItemsPerPg
  <2>1. << Name[l], "lPg" >> \in Vars /\ Name[l] # "tree"
    BY VarsOfLists, SessionAssumption
  <2>2. Loaded[<< Name[l], "lPg" >>] \in MayBe(<< Name[l], "lPg" >>)
    BY <1>2, <2>1 DEF Variables
  <2> QED
    BY <2>1, <2>2 DEF MayBe, Stored
<1> QED
  BY <1>2, <1>3

\* A request begins.
LEMMA BeginTypes ==
  ASSUME SessionInv, SessionTypes, NEW t \in Frames, NEW l, NEW vars, NEW pg \in Nat,
         NEW set, Variables(vars), Begin(t, l, vars, pg, set)
  PROVE  SessionTypes'
<1>1. /\ Construct(t, vars, pg) /\ requests' = requests + 1 /\ requests < MaxRequests
      /\ solid' = [solid EXCEPT !.keys = @ \ set] /\ neat' = neat
  BY DEF Begin
<1>2. Shapes /\ DOMAIN vars = Vars
  BY DEF SessionInv, Variables
<1>3. /\ copy' = [copy EXCEPT ![t] = copy'[t]] /\ copy'[t].vars = vars
      /\ \A u \in Uuids : table'[u] = table[u] \/ table'[u] = NoData
  BY <1>1, <1>2, ConstructSteps
<1>4. copy'[t].listPg = pg
  <2>1. DOMAIN copy = Frames
    BY <1>2 DEF Shapes
  <2> QED
    BY <1>1, <2>1 DEF Construct
<1>5. \A u \in Uuids : Variables(table'[u])
  BY <1>3, VariablesSet DEF SessionTypes
<1>6. \A o \in Frames : Variables(copy'[o].vars) /\ copy'[o].listPg \in Nat
  <2>1. \A o \in Frames \ {t} : copy'[o] = copy[o]
    BY <1>2, <1>3 DEF Shapes
  <2> QED
    BY <1>3, <1>4, <2>1 DEF SessionTypes
<1>7. Variables(solid'.vars)
  <2>1. solid'.vars = solid.vars
    BY <1>1, <1>2 DEF Shapes
  <2> QED
    BY <2>1 DEF SessionTypes
<1>8. requests' \in 0 .. MaxRequests
  BY <1>1, SessionAssumption DEF SessionTypes
<1> QED
  BY <1>1, <1>5, <1>6, <1>7, <1>8 DEF SessionTypes

\* What the pages do with the variables before they go on.
LEMMA BegunTypes ==
  ASSUME SessionInv, SessionTypes, NEW t \in Frames,
         \/ \E l \in Lists :
              \/ OpenFromMenu(t, l)
              \/ \E c \in Columns[l] : SortBy(t, l, c)
              \/ \E f \in Filters : FilterBy(t, l, f)
              \/ \E move \in {"prev", "next", "last", "here"} : Turn(t, l, move)
         \/ \E n \in Nodes, open \in BOOLEAN : SetNode(t, n, open)
  PROVE  SessionTypes'
<1>1. Variables(Loaded)
      /\ \A l \in Lists : Stored(l, Loaded) \in 0 .. MaxCount \div ItemsPerPg
  BY LoadedTypes
<1>2. \A l \in Lists : Stored(l, Loaded) \in Nat /\ Name[l] # "tree"
  <2>1. MaxCount \div ItemsPerPg \in Nat
    BY SessionAssumption
  <2> QED
    BY <1>1, <2>1, SessionAssumption
<1>3. ASSUME NEW l \in Lists, OpenFromMenu(t, l) PROVE SessionTypes'
  <2>1. Variables(Reset(l, Loaded))
    BY <1>1, VariablesSet DEF Variables, Reset
  <2> QED
    BY <1>3, <2>1, BeginTypes DEF OpenFromMenu
<1>4. ASSUME NEW l \in Lists, NEW c \in Columns[l], SortBy(t, l, c)
      PROVE  SessionTypes'
  <2>1. c \in MayBe(<< Name[l], "lSort" >>)
    BY <1>2 DEF MayBe, AllColumns
  <2>2. {"asc", "desc"} \subseteq MayBe(<< Name[l], "lDir" >>)
    BY <1>2 DEF MayBe
  <2>3. \A v, d : Variables(v) /\ d \in {"asc", "desc"} =>
          Variables(Set(v, Name[l], "lDir", d))
    BY <2>2, VariablesSet
  <2>4. \A v : Variables(v) => Variables(Set(v, Name[l], "lSort", c))
    BY <2>1, VariablesSet
  <2>5. Variables(SetSort(l, c, Loaded))
    BY <1>1, <2>3, <2>4 DEF SetSort
  <2> QED
    BY <1>2, <1>4, <2>5, BeginTypes DEF SortBy
<1>5. ASSUME NEW l \in Lists, NEW f \in Filters, FilterBy(t, l, f)
      PROVE  SessionTypes'
  <2>1. f \in MayBe(<< Name[l], "lFilter" >>)
    BY <1>2 DEF MayBe
  <2>2. Variables(Set(Loaded, Name[l], "lFilter", f))
    BY <1>1, <2>1, VariablesSet
  <2> QED
    BY <1>2, <1>5, <2>2, BeginTypes DEF FilterBy
<1>6. ASSUME NEW l \in Lists, NEW move \in {"prev", "next", "last", "here"},
             Turn(t, l, move)
      PROVE  SessionTypes'
  <2>1. Navigate(l, move, Loaded) \in Nat
    BY <1>2, SessionAssumption DEF Navigate
  <2> QED
    BY <1>1, <1>6, <2>1, BeginTypes DEF Turn
<1>7. ASSUME NEW n \in Nodes, NEW open \in BOOLEAN, SetNode(t, n, open)
      PROVE  SessionTypes'
  <2>1. open \in MayBe(<< "tree", n >>)
    BY DEF MayBe
  <2>2. Variables(Set(Loaded, "tree", n, open))
    BY <1>1, <2>1, VariablesSet
  <2>3. 0 \in Nat
    OBVIOUS
  <2> QED
    BY <1>7, <2>2, <2>3, BeginTypes DEF SetNode
<1> QED
  BY <1>3, <1>4, <1>5, <1>6, <1>7

\* maxPageFixup: a page that the list has, whatever was asked for.
LEMMA FixedPage ==
  ASSUME NEW pg \in Nat, NEW recCount \in 0 .. MaxCount
  PROVE  MaxPageFixup(pg, recCount) \in 0 .. MaxCount \div ItemsPerPg
         /\ MaxPageFixup(pg, recCount) \in Nat
<1> DEFINE last == recCount \div ItemsPerPg
           most == MaxCount \div ItemsPerPg
<1>1. last \in 0 .. most /\ most \in Nat
  <2>1. recCount \in Nat /\ MaxCount \in Nat /\ recCount <= MaxCount
    BY SessionAssumption
  <2>2. last \in 0 .. most
    BY <2>1, PagesOfRows
  <2>3. most \in Nat
    BY SessionAssumption
  <2> QED
    BY <2>2, <2>3
<1>2. MaxPageFixup(pg, recCount) = IF pg > last THEN last ELSE pg
  BY DEF MaxPageFixup
<1> HIDE DEF last, most
<1>3. MaxPageFixup(pg, recCount) \in 0 .. most /\ MaxPageFixup(pg, recCount) \in Nat
  BY <1>1, <1>2
<1> QED
  BY <1>3 DEF most

\* The rows of a list are counted, and a request ends.
LEMMA EndingTypes ==
  ASSUME SessionInv, SessionTypes, NEW t \in Frames,
         Count(t) \/ CountFails(t) \/ Finish(t) \/ Close(t)
  PROVE  SessionTypes'
<1>1. Shapes
  BY DEF SessionInv
<1>2. CASE Count(t)
  <2>1. PICK recCount \in 0 .. MaxCount :
          copy' = [copy EXCEPT
            ![t].listPg = MaxPageFixup(copy[t].listPg, recCount),
            ![t].vars = Set(@, Name[list[t]], "lPg",
                            MaxPageFixup(copy[t].listPg, recCount))]
    BY <1>2 DEF Count
  <2> DEFINE pg == MaxPageFixup(copy[t].listPg, recCount)
  <2>2. pg \in 0 .. MaxCount \div ItemsPerPg /\ pg \in Nat
    BY FixedPage DEF SessionTypes
  <2>3. list[t] \in Lists
    BY <1>1, <1>2 DEF Shapes, Count
  <2>4. pg \in MayBe(<< Name[list[t]], "lPg" >>)
    <3> HIDE DEF pg
    <3> QED
      BY <2>2, <2>3, SessionAssumption DEF MayBe
  <2> HIDE DEF pg
  <2>5. Variables(Set(copy[t].vars, Name[list[t]], "lPg", pg))
    BY <2>4, VariablesSet DEF SessionTypes
  <2>6. copy'[t].listPg = pg
        /\ copy'[t].vars = Set(copy[t].vars, Name[list[t]], "lPg", pg)
        /\ \A o \in Frames \ {t} : copy'[o] = copy[o]
    BY <1>1, <2>1 DEF Shapes, pg
  <2>7. UNCHANGED << neat, table, requests, solid >>
    BY <1>2 DEF Count
  <2> QED
    BY <2>2, <2>5, <2>6, <2>7 DEF SessionTypes
<1>3. CASE CountFails(t)
  BY <1>3 DEF CountFails, SessionTypes
<1>4. CASE Close(t)
  BY <1>4 DEF Close, SessionTypes
<1>5. CASE Finish(t)
  <2>1. PICK good \in BOOLEAN : Synch(copy[t], good)
    BY <1>5 DEF Finish
  <2>2. /\ UNCHANGED << neat, made, requests >>
        /\ copy' = [copy EXCEPT ![t] = NoSession]
        /\ phase[t] # "idle"
        /\ solid' = solid
           \/ solid'.vars = copy[t].vars
           \/ (\E u \in Uuids : solid'.vars = table'[u])
    BY <1>5 DEF Finish
  <2>3. \A u \in Uuids : table'[u] = table[u] \/ table'[u] = copy[t].vars
    BY <2>1, <2>2, SynchSteps
  <2>4. \A u \in Uuids : Variables(table'[u])
    BY <2>3 DEF SessionTypes
  <2>5. Variables(solid'.vars)
    BY <2>2, <2>4 DEF SessionTypes
  <2>6. \A o \in Frames : copy'[o] = copy[o] \/ copy'[o] = NoSession
    BY <1>1, <2>2 DEF Shapes
  <2>7. Variables(NoSession.vars) /\ NoSession.listPg \in Nat
    BY VariablesSet DEF NoSession
  <2> QED
    BY <2>2, <2>4, <2>5, <2>6, <2>7 DEF SessionTypes
<1> QED
  BY <1>2, <1>3, <1>4, <1>5

(***************************************************************************)
(* The variables of a session keep their types however requests overlap;   *)
(* in particular a page number that is stored is one the list can have,    *)
(* whatever number a page asked for (maxPageFixup).                        *)
(***************************************************************************)
THEOREM SessionTypesHold == SessionsSpec => []SessionTypeOK
<1>1. SessionsInit => SessionTypes
  <2> SUFFICES ASSUME SessionsInit PROVE SessionTypes
    OBVIOUS
  <2>1. NoSession.vars = NoData /\ NoSession.listPg \in Nat
    BY DEF NoSession
  <2> QED
    BY <2>1, VariablesSet, SessionAssumption DEF SessionsInit, SessionTypes
<1>2. SessionInv /\ SessionTypes /\ [SessionsNext]_sessionVars => SessionTypes'
  <2> SUFFICES ASSUME SessionInv, SessionTypes, [SessionsNext]_sessionVars
               PROVE  SessionTypes'
    OBVIOUS
  <2>1. ASSUME NEW u \in live, Delete(u) PROVE SessionTypes'
    <3>1. solid'.vars = solid.vars /\ UNCHANGED << neat, table, copy, requests >>
      BY <2>1 DEF Delete, SessionInv, Shapes
    <3> QED
      BY <3>1 DEF SessionTypes
  <2>2. CASE UNCHANGED sessionVars
    BY <2>2 DEF sessionVars, SessionTypes
  <2> QED
    BY <2>1, <2>2, BegunTypes, EndingTypes DEF SessionsNext
<1>3. SessionInv /\ SessionTypes => SessionTypeOK
  <2> SUFFICES ASSUME SessionInv, SessionTypes PROVE SessionTypeOK
    OBVIOUS
  <2>1. /\ \A u \in Uuids : IsVariables(table[u])
        /\ \A t \in Frames : IsVariables(copy[t].vars)
        /\ IsVariables(solid.vars)
    BY VariableByVariable DEF SessionTypes
  <2>2. Shapes /\ solid.keys \subseteq Vars
    BY DEF SessionInv, SolidInv
  <2> QED
    BY <2>1, <2>2 DEF Shapes, SessionTypes, SessionTypeOK
<1> QED
  BY <1>1, <1>2, <1>3, SessionInvInit, SessionInvNext, PTL DEF SessionsSpec

-----------------------------------------------------------------------------
(* Side by side.                                                           *)

\* What TLC checks of forms beside sessions is what the theorems are about: a
\* behaviour of the two is one of each.
LEMMA BrowserIsItsParts == BrowserSpec => FormSpec /\ SessionsSpec
<1>1. BrowserInit => FormInit /\ SessionsInit
  BY DEF BrowserInit
<1>2. [BrowserNext]_<< part, formVars, sessionVars >> =>
        [FormNext]_formVars /\ [SessionsNext]_sessionVars
  BY DEF BrowserNext
<1> QED
  BY <1>1, <1>2, PTL DEF BrowserSpec, FormSpec, SessionsSpec

\* BrowserTypeOK holds for any tabs, fields, frames and lists.
THEOREM BrowserTypesHold == BrowserSpec => []BrowserTypeOK
<1>1. FormTypeOK /\ SessionTypeOK => BrowserTypeOK
  BY DEF BrowserTypeOK
<1> QED
  BY <1>1, BrowserIsItsParts, FormTypes, SessionTypesHold, PTL
=============================================================================
