----------------------------- MODULE FormPages -----------------------------
(***************************************************************************)
(* The forms of openForms between a browser with several tabs and the      *)
(* table behind the form.  What a request asks for, its mode, travels      *)
(* twice: in the form (xmldirections) and in a cookie that all tabs share  *)
(* (openClientCode/formEvents.js).  The server acts if the two agree       *)
(* (forms_base.cpp); a page that has been loaded takes the cookie back     *)
(* (finalize in the templates of webconsole).                              *)
(***************************************************************************)
EXTENDS Naturals, FiniteSets

CONSTANTS
  Tabs,          \* tabs of one browser
  Fields,        \* columns of the table, the key apart
  Values,        \* what a column may hold
  Blank,         \* the value in an empty form
  MaxRows,       \* bound on the keys of the table
  MaxPresses     \* bound on the buttons pressed

Keys == 1 .. MaxRows
Row  == [Fields -> Values]
NoRow == [f \in Fields |-> "none"]

ASSUME FormAssumption ==
  /\ Blank \in Values /\ NoRow \notin Row
  /\ MaxRows \in Nat \ {0} /\ MaxPresses \in Nat

Modes == {"i", "u", "d", "r", "n"}

(***************************************************************************)
(* A form: its key (0 for none), its contents and the fields changed by    *)
(* hand since it was loaded, which is what updateList sends.               *)
(***************************************************************************)
Form == [id : Keys \cup {0}, vals : Row, changed : SUBSET Fields]
EmptyForm == [id |-> 0, vals |-> [f \in Fields |-> Blank], changed |-> {}]

VARIABLES
  patient,       \* the user waits for each page before going on
  rows, issued,  \* the table, and the last key given out
  mode, key,     \* the cookies
  form,          \* form[b]: the page that tab b shows
  posted,        \* posted[b]: what it was asked for with, see Posted
  at,            \* at[b]: where the request of tab b is
  cookies,       \* cookies[b]: the cookies that went with it
  presses,       \* how many buttons have been pressed
  wanted         \* the table that the user has asked for

formVars == << patient, rows, issued, mode, key, form, posted, at, cookies,
               presses, wanted >>

\* The request that a reload of the page repeats: a link or a form.
Posted == [mode : Modes \cup {"get"}, form : Form]
NothingPosted == [mode |-> "get", form |-> EmptyForm]

FormTypeOK ==
  /\ patient \in BOOLEAN
  /\ rows \in [Keys -> Row \cup {NoRow}]
  /\ issued \in 0 .. MaxRows
  /\ mode \in Modes \cup {"s", "none"}
  /\ key \in Keys \cup {0}
  /\ form \in [Tabs -> Form]
  /\ posted \in [Tabs -> Posted]
  /\ at \in [Tabs -> {"blank", "pressed", "sent", "arrived", "loaded"}]
  /\ cookies \in [Tabs -> [mode : Modes \cup {"s", "none"},
                           key : Keys \cup {0}]]
  /\ presses \in 0 .. MaxPresses
  /\ wanted \in [Keys -> Row \cup {NoRow}]

\* One row to begin with.
FormInit ==
  /\ patient \in BOOLEAN
  /\ rows = [k \in Keys |-> IF k = 1 THEN EmptyForm.vals ELSE NoRow]
  /\ issued = 1
  /\ mode = "none" /\ key = 0
  /\ form = [b \in Tabs |-> EmptyForm]
  /\ posted = [b \in Tabs |-> NothingPosted]
  /\ at = [b \in Tabs |-> "blank"]
  /\ cookies = [b \in Tabs |-> [mode |-> "none", key |-> 0]]
  /\ presses = 0
  /\ wanted = rows

AllLoaded == \A b \in Tabs : at[b] \in {"blank", "loaded"}

MayAct == patient => AllLoaded

To(b, where) == at' = [at EXCEPT ![b] = where]

\* The page makes way for the next one.
Leave(b) ==
  /\ form' = [form EXCEPT ![b] = EmptyForm]
  /\ To(b, "pressed")

-----------------------------------------------------------------------------
(* The browser.                                                            *)

\* A link to the page of a row, or to the empty form.
OpenPage(b) ==
  /\ MayAct
  /\ at[b] \in {"blank", "loaded", "arrived"}
  /\ \E k \in 0 .. issued :
       posted' = [posted EXCEPT ![b] =
                    [mode |-> "get", form |-> [EmptyForm EXCEPT !.id = k]]]
  /\ Leave(b)
  /\ UNCHANGED << patient, rows, issued, mode, key, cookies, presses, wanted >>

\* ctrlChanged.
Change(b) ==
  /\ MayAct
  /\ at[b] = "loaded"
  /\ presses < MaxPresses
  /\ \E f \in Fields \ form[b].changed : \E v \in Values \ {form[b].vals[f]} :
       form' = [form EXCEPT ![b].vals[f] = v,
                            ![b].changed = @ \cup {f}]
  /\ UNCHANGED << patient, rows, issued, mode, key, posted, at, cookies,
                  presses, wanted >>

\* The buttons that formButtons puts on a page.
Buttons(k) == IF k = 0 THEN {"i"} ELSE {"u", "d", "r", "n"}

Asked(m, f) ==
  CASE m = "i" /\ issued < MaxRows -> [wanted EXCEPT ![issued + 1] = f.vals]
    [] m = "u" /\ wanted[f.id] # NoRow ->
         [wanted EXCEPT ![f.id] = [x \in Fields |->
            IF x \in f.changed THEN f.vals[x] ELSE @[x]]]
    [] m = "d" -> [wanted EXCEPT ![f.id] = NoRow]
    [] OTHER -> wanted

\* doInsert, doUpdate, doDelete, doReset, doNew.
Press(b) ==
  /\ MayAct
  /\ at[b] = "loaded"
  /\ presses < MaxPresses
  /\ \E m \in Buttons(form[b].id) :
       /\ m = "i" => issued < MaxRows
       /\ posted' = [posted EXCEPT ![b] = [mode |-> m, form |-> form[b]]]
       /\ mode' = m
       /\ wanted' = Asked(m, form[b])
  /\ presses' = presses + 1
  /\ Leave(b)
  /\ UNCHANGED << patient, rows, issued, key, cookies >>

(***************************************************************************)
(* The user has the browser load the page again, possibly before it has    *)
(* come to finalize.                                                       *)
(***************************************************************************)
Reload(b) ==
  /\ MayAct
  /\ at[b] \in {"loaded", "arrived"}
  /\ Leave(b)
  /\ UNCHANGED << patient, rows, issued, mode, key, posted, cookies, presses,
                  wanted >>

\* The request leaves, with the cookies as they are now.
Send(b) ==
  /\ at[b] = "pressed"
  /\ cookies' = [cookies EXCEPT ![b] = [mode |-> mode, key |-> key]]
  /\ To(b, "sent")
  /\ UNCHANGED << patient, rows, issued, mode, key, form, posted, presses,
                  wanted >>

\* finalize: "Now we are in show mode".
Finalize(b) ==
  /\ at[b] = "arrived"
  /\ mode' = "s"
  /\ key' = form[b].id
  /\ To(b, "loaded")
  /\ UNCHANGED << patient, rows, issued, form, posted, cookies, presses,
                  wanted >>

-----------------------------------------------------------------------------
(* The server.                                                             *)

\* getInstructions: the mode of the form if the cookie agrees.
Effective(b) ==
  IF posted[b].mode = cookies[b].mode THEN posted[b].mode ELSE "s"

\* Mutant of RequestKey: the cookie goes before the form.
RequestKey_Cookie(b) ==
  IF cookies[b].key = 0 THEN posted[b].form.id ELSE cookies[b].key

\* setKey: the key of the form, or, for a posted form without, the cookie's.
RequestKey(b) ==
  IF posted[b].form.id = 0 /\ posted[b].mode # "get" THEN cookies[b].key
                                                     ELSE posted[b].form.id

\* The page for key k: get_data, or the values of the form without a row.
Shown(k, t, vals) ==
  [id |-> k, changed |-> {},
   vals |-> IF k # 0 /\ t[k] # NoRow THEN t[k] ELSE vals]

\* Mutant of Updated: every column of the form is written.
Updated_AllColumns(k, f) ==
  IF rows[k] = NoRow THEN rows ELSE [rows EXCEPT ![k] = f.vals]

\* db_update: only the columns that the user has changed.
Updated(k, f) ==
  IF rows[k] = NoRow THEN rows
  ELSE [rows EXCEPT ![k] =
          [x \in Fields |-> IF x \in f.changed THEN f.vals[x] ELSE @[x]]]

\* form_action, for each mode, and the page it ends with.
Serve(b) ==
  LET f == posted[b].form
      k == RequestKey(b)
      m == Effective(b)
  IN  /\ at[b] = "sent"
      /\ \/ /\ m = "i" /\ issued < MaxRows
            /\ issued' = issued + 1
            /\ rows' = [rows EXCEPT ![issued + 1] = f.vals]
            /\ form' = [form EXCEPT ![b] = Shown(issued + 1, rows', f.vals)]
         \/ /\ m = "i" /\ issued = MaxRows
            /\ form' = [form EXCEPT ![b] = Shown(0, rows, f.vals)]
            /\ UNCHANGED << rows, issued >>
         \/ /\ m = "u"
            /\ rows' = Updated(k, f)
            /\ form' = [form EXCEPT ![b] = Shown(k, rows', f.vals)]
            /\ UNCHANGED issued
         \/ /\ m = "d"
            /\ rows' = [rows EXCEPT ![k] = NoRow]
            /\ form' = [form EXCEPT ![b] = Shown(0, rows, f.vals)]
            /\ UNCHANGED issued
         \/ /\ m = "n"
            /\ form' = [form EXCEPT ![b] = Shown(0, rows, f.vals)]
            /\ UNCHANGED << rows, issued >>
         \/ /\ m = "r"
            /\ form' = [form EXCEPT ![b] = EmptyForm]
            /\ UNCHANGED << rows, issued >>
         \/ /\ m \in {"s", "get"}
            /\ form' = [form EXCEPT ![b] = Shown(k, rows, f.vals)]
            /\ UNCHANGED << rows, issued >>
      /\ cookies' = [cookies EXCEPT ![b] = [mode |-> "none", key |-> 0]]
      /\ To(b, "arrived")
      /\ UNCHANGED << patient, mode, key, posted, presses, wanted >>

FormNext ==
  \E b \in Tabs :
    \/ OpenPage(b) \/ Change(b) \/ Press(b) \/ Reload(b) \/ Send(b)
    \/ Serve(b) \/ Finalize(b)

FormSpec == FormInit /\ [][FormNext]_formVars

-----------------------------------------------------------------------------
(* Properties.                                                             *)

(***************************************************************************)
(* As long as the user waits for each page, every button does its work     *)
(* once and nothing else does any: reloads, links and pages that were      *)
(* loaded before another tab changed their row leave the table as the user *)
(* has asked for it, field by field.                                       *)
(***************************************************************************)
EveryButtonOnce == (patient /\ AllLoaded) => rows = wanted

(***************************************************************************)
(* However the tabs overlap: no row is ever gone, and no key in use,       *)
(* unless the user has pressed delete on that row.                         *)
(***************************************************************************)
NothingGoneUnasked ==
  \A k \in 1 .. issued : rows[k] = NoRow => wanted[k] = NoRow
=============================================================================
