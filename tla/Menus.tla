------------------------------- MODULE Menus -------------------------------
(***************************************************************************)
(* The order of what a site shows (webconsole/metasite_source): the items  *)
(* of one menu (menu_item.hpp, its form and the service that moves items)  *)
(* or the paragraphs of one page (paragraph.hpp); and the part of a menu   *)
(* that a page shows (metaSite/source/page_menu.hpp).                      *)
(*                                                                         *)
(* A page or a call of the service is a process.  A step is a statement    *)
(* with what the program does before the next one.                         *)
(***************************************************************************)
EXTENDS Integers, Sequences, FiniteSets, SequencesExt, FiniteSetsExt

CONSTANTS
  Writers,        \* processes
  MaxEntries,     \* bound on the entries ever made
  Orders,         \* what may be typed as an order
  Paragraphs,     \* paragraphs of the page that a menu item links to
  MaxLevel,       \* bound on the level of an item
  MaxWrites,      \* bound on the requests, one at a time
  MaxOverlaps     \* bound on the requests that may overlap

ASSUME MenuAssumption ==
  /\ {MaxEntries, MaxWrites, MaxOverlaps} \subseteq Nat
  /\ Orders \subseteq Int \ {0} /\ Paragraphs \in Nat
  /\ MaxLevel \in Nat \ {0}

Entries == 1 .. MaxEntries

VARIABLES
  kind,           \* a "menu" of items or a "page" of paragraphs
  orderly,        \* one request at a time, none dies, and what is added gets
                  \* a name and no order of its own
  entries,        \* the rows
  place,          \* place[e]: place_order and place_level
  given,          \* the last key given out
  todo,           \* todo[w]: what process w has left to do, see Job
  writes,         \* how many requests there have been
  asked           \* history: the request that began last, the entry it is
                  \* about and the list of the entries at that time

menuVars == << kind, orderly, entries, place, given, todo, writes, asked >>

(***************************************************************************)
(* step: the statement that comes next.  id, order, level: the object.     *)
(* old, oid: the locals of move.  left: the paragraphs still to be added,  *)
(* and old the program's count of the orders given to them.                *)
(***************************************************************************)
Steps == {"idle", "neighbour", "update", "reread", "shift", "other", "add"}
Moves == {"none", "up", "btm", "vabs"}
Idle == [step |-> "idle", move |-> "none", id |-> 0, order |-> 0, level |-> 1,
         old |-> 0, oid |-> 0, left |-> 0]

MenuTypeOK ==
  /\ kind \in {"menu", "page"} /\ orderly \in BOOLEAN
  /\ entries \subseteq 1 .. given /\ given \in 0 .. MaxEntries
  /\ \A e \in Entries : /\ place[e].order \in Int
                        /\ place[e].level \in 1 .. MaxLevel
  /\ \A w \in Writers : /\ todo[w].step \in Steps
                        /\ todo[w].move \in Moves
                        /\ todo[w].id \in 0 .. given
                        /\ todo[w].oid \in 0 .. given
                        /\ todo[w].left \in 0 .. Paragraphs
  /\ writes \in Nat

\* Rows with the same order may come in any: here, by their key.
Before(a, b, p) ==
  p[a].order < p[b].order \/ (p[a].order = p[b].order /\ a < b)

Position(e, S, p) == Cardinality({a \in S : a = e \/ Before(a, e, p)})

\* The rows S as "order by place_order" lists them.
Listed(S, p) ==
  [i \in 1 .. Cardinality(S) |-> CHOOSE e \in S : Position(e, S, p) = i]

\* Two entries to begin with.
MenusInit ==
  /\ kind \in {"menu", "page"} /\ orderly \in BOOLEAN
  /\ given = Min({2, MaxEntries})
  /\ entries = 1 .. given
  /\ place = [e \in Entries |-> [order |-> e, level |-> 1]]
  /\ todo = [w \in Writers |-> Idle]
  /\ writes = 0
  /\ asked = [what |-> "none", entry |-> 0, list |-> Listed(entries, place)]

Quiet == \A w \in Writers : todo[w].step = "idle"

Begin(w, what, e) ==
  /\ todo[w].step = "idle"
  /\ orderly => Quiet
  /\ writes < (IF orderly THEN MaxWrites ELSE MaxOverlaps)
  /\ writes' = writes + 1
  /\ asked' = [what |-> what, entry |-> e,
               list |-> IF orderly THEN Listed(entries, place) ELSE << >>]

Does(w, job) == todo' = [todo EXCEPT ![w] = job]

-----------------------------------------------------------------------------
(* Adding, changing and removing one entry.                                *)

\* "select max(place_order)", 0 when there is none.
Largest(S, p) == IF S = {} THEN 0 ELSE Max({p[e].order : e \in S})

\* ivalidate: an entry without an order goes to the end; but a paragraph
\* without a name only gets a name.
Validated(order, named) ==
  IF order = 0 /\ (kind = "menu" \/ named) THEN Largest(entries, place) + 1
                                           ELSE order

\* db_insert; insert and the query before it as one statement.
Insert(w) ==
  /\ Begin(w, "insert", 0)
  /\ given < MaxEntries
  /\ \E order \in Orders \cup {0}, named \in BOOLEAN :
       /\ orderly => order = 0 /\ named
       /\ place' = [place EXCEPT ![given + 1] =
                      [order |-> Validated(order, named), level |-> 1]]
  /\ given' = given + 1
  /\ entries' = entries \cup {given'}
  /\ UNCHANGED << kind, orderly, todo >>

\* A submitted form with another order: db_action("u").
ChangeOrder(w, e) ==
  /\ Begin(w, "change", e)
  /\ e \in entries
  /\ \E order \in Orders \ {place[e].order} :
       Does(w, [Idle EXCEPT !.step = "update", !.id = e, !.order = order])
  /\ UNCHANGED << kind, orderly, entries, place, given >>

Delete(w, e) ==
  /\ Begin(w, "delete", e)
  /\ entries' = entries \ {e}
  /\ e \in entries
  /\ UNCHANGED << kind, orderly, place, given, todo >>

-----------------------------------------------------------------------------
(* move                                                                    *)

\* lft "can only go to 1"; rgt stops nowhere.
Beside(level) == {level - 1, level + 1} \ {0}

\* lft and rgt: load, and an update of the level.
MoveAside(w, e) ==
  /\ Begin(w, "aside", e)
  /\ kind = "menu" /\ e \in entries
  /\ \E level \in Beside(place[e].level) :
       /\ level <= MaxLevel
       /\ place' = [place EXCEPT ![e].level = level]
  /\ UNCHANGED << kind, orderly, entries, given, todo >>

\* up, btm and vabs: load; of vabs, order is where to.
Move(w, e) ==
  /\ kind = "menu" /\ e \in entries
  /\ \E m \in Moves \ {"none"}, pos \in Orders :
       /\ Begin(w, m, e)
       /\ Does(w, [Idle EXCEPT !.step = "neighbour", !.move = m, !.id = e,
                    !.order = IF m = "vabs" THEN pos ELSE place[e].order,
                    !.old = place[e].order])
  /\ UNCHANGED << kind, orderly, entries, place, given >>

\* Whose place the item takes.
Neighbours(j) ==
  LET above == {e \in entries : place[e].order < j.old}
      below == {e \in entries : place[e].order > j.old}
      there == {e \in entries : place[e].order = j.order}
  IN  CASE j.move = "up"  -> {e \in above : place[e].order = Largest(above, place)}
        [] j.move = "btm" -> {e \in below : \A b \in below :
                                place[e].order <= place[b].order}
        [] OTHER -> there

\* Without a neighbour, the order still changes by one, or to the position.
Neighbour(w) ==
  LET j == todo[w]
  IN  /\ j.step = "neighbour"
      /\ IF Neighbours(j) = {}
         THEN Does(w, [j EXCEPT !.step = "update",
                         !.order = CASE j.move = "up"  -> @ - 1
                                     [] j.move = "btm" -> @ + 1
                                     [] OTHER -> @])
         ELSE \E o \in Neighbours(j) :
                Does(w, [j EXCEPT !.step = "update", !.oid = o,
                                  !.order = place[o].order])
      /\ UNCHANGED << kind, orderly, entries, place, given, writes, asked >>

\* The second half of move: the neighbour is loaded, to get the old order.
Other(w) ==
  LET j == todo[w]
  IN  /\ j.step = "other"
      /\ Does(w, [j EXCEPT !.step = "update", !.id = j.oid, !.order = j.old,
                           !.oid = 0])
      /\ UNCHANGED << kind, orderly, entries, place, given, writes, asked >>

-----------------------------------------------------------------------------
(* db_action("u") with a new order, statement by statement.                *)

Update(w) ==
  LET j == todo[w]
  IN  /\ j.step = "update"
      /\ place' = IF j.id \in entries THEN [place EXCEPT ![j.id].order = j.order]
                                      ELSE place
      /\ Does(w, [j EXCEPT !.step = "reread"])
      /\ UNCHANGED << kind, orderly, entries, given, writes, asked >>

\* "get data anyway"
Reread(w) ==
  LET j == todo[w]
  IN  /\ j.step = "reread"
      /\ Does(w, [j EXCEPT !.step = "shift",
                    !.order = IF j.id \in entries THEN place[j.id].order ELSE @])
      /\ UNCHANGED << kind, orderly, entries, place, given, writes, asked >>

\* Mutants of Shifted: only what is behind, only what is in the way, all.
Shifted_Behind(id, order) ==
  [e \in Entries |-> IF e \in entries \ {id} /\ place[e].order > order
                     THEN [place[e] EXCEPT !.order = @ + 1] ELSE place[e]]
Shifted_InTheWay(id, order) ==
  [e \in Entries |-> IF e \in entries \ {id} /\ place[e].order = order
                     THEN [place[e] EXCEPT !.order = @ + 1] ELSE place[e]]
Shifted_Itself(id, order) ==
  [e \in Entries |-> IF e \in entries /\ place[e].order >= order
                     THEN [place[e] EXCEPT !.order = @ + 1] ELSE place[e]]

\* The statement of usupplemental: the others from there on move by one.
Shifted(id, order) ==
  [e \in Entries |-> IF e \in entries \ {id} /\ place[e].order >= order
                     THEN [place[e] EXCEPT !.order = @ + 1] ELSE place[e]]

\* "make sure that there is no positioning ambiguity": paragraphs move only
\* if there is one.
Needed(id, order) ==
  kind = "menu" \/ \E e \in entries \ {id} : place[e].order = order

Shift(w) ==
  LET j == todo[w]
  IN  /\ j.step = "shift"
      /\ place' = IF Needed(j.id, j.order) THEN Shifted(j.id, j.order) ELSE place
      /\ Does(w, IF j.left > 0 THEN [j EXCEPT !.step = "add"]
                 ELSE IF j.oid # 0 THEN [j EXCEPT !.step = "other"]
                 ELSE Idle)
      /\ UNCHANGED << kind, orderly, entries, given, writes, asked >>

-----------------------------------------------------------------------------
(* "Add Page Paragraph Items": an item for each paragraph of the page that *)
(* an item links to, one level below it, each with a usupplemental.        *)

AddPageItems(w, e) ==
  /\ Begin(w, "items", e)
  /\ kind = "menu" /\ e \in entries /\ Paragraphs > 0
  /\ place[e].level < MaxLevel
  /\ Does(w, [Idle EXCEPT !.step = "add", !.old = place[e].order,
                !.level = place[e].level + 1, !.left = Paragraphs])
  /\ UNCHANGED << kind, orderly, entries, place, given >>

\* The object gets the count, or another order if that is 0 (ivalidate).
AddItem(w) ==
  LET j == todo[w]
      order == Validated(j.old + 1, TRUE)
  IN  /\ j.step = "add"
      /\ given < MaxEntries
      /\ given' = given + 1
      /\ entries' = entries \cup {given'}
      /\ place' = [place EXCEPT ![given'] = [order |-> order, level |-> j.level]]
      /\ Does(w, [j EXCEPT !.step = "shift", !.id = given', !.order = order,
                           !.old = @ + 1, !.left = @ - 1])
      /\ UNCHANGED << kind, orderly, writes, asked >>

\* A process is killed, or there is no room for a link or an item.
Dies(w) ==
  /\ todo[w].step # "idle"
  /\ \/ ~orderly
     \/ todo[w].step = "add" /\ given = MaxEntries
  /\ Does(w, Idle)
  /\ UNCHANGED << kind, orderly, entries, place, given, writes, asked >>

MenusNext ==
  \E w \in Writers :
    \/ Insert(w) \/ Neighbour(w) \/ Other(w) \/ Update(w) \/ Reread(w)
    \/ Shift(w) \/ AddItem(w) \/ Dies(w)
    \/ \E e \in Entries : \/ ChangeOrder(w, e) \/ Delete(w, e) \/ Move(w, e)
                          \/ MoveAside(w, e) \/ AddPageItems(w, e)

MenusSpec == MenusInit /\ [][MenusNext]_menuVars

-----------------------------------------------------------------------------
(* What a page shows of a collapsible menu in which an item is selected:   *)
(* findNodesToWalk and emitRecursor.  The orders are distinct.             *)

\* Mutant of Walk: only what comes before the selected item.
Walk_Before(sel) ==
  {e \in entries :
     /\ place[e].level <= place[sel].level
     /\ place[e].order = Largest({a \in entries :
          /\ place[a].level = place[e].level
          /\ place[a].order < place[sel].order}, place)}

\* linkQ2: of each level up to that of the selected item, the last item that
\* does not come after it.
Walk(sel) ==
  {e \in entries :
     /\ place[e].level <= place[sel].level
     /\ place[e].order = Largest({a \in entries :
          /\ place[a].level = place[e].level
          /\ place[a].order <= place[sel].order}, place)}

\* One row, at the call of emitRecursor that is last in calls.  An item of a
\* higher level starts another call if the item before it is walked; one of a
\* lower level is emitted and ends the call.
EmitItem(out, e, walk) ==
  LET n == Len(out.calls)
      at == out.calls[n]
      level == place[e].level
      seen == [level |-> level, see |-> e \in walk, saw |-> at.saw]
  IN  CASE level = at.level ->
             [shown |-> out.shown \cup {e},
              calls |-> [out.calls EXCEPT ![n] = seen]]
        [] level > at.level /\ at.see /\ ~at.saw ->
             [shown |-> out.shown \cup {e},
              calls |-> Append([out.calls EXCEPT ![n].saw = TRUE],
                               [seen EXCEPT !.saw = FALSE])]
        [] level > at.level /\ ~(at.see /\ ~at.saw) -> out
        [] level < at.level ->
             [shown |-> out.shown \cup {e}, calls |-> Front(out.calls)]

\* The rows one after the other, out[n] after the first n.
ShownWith(sel) ==
  LET list == Listed(entries, place)
      none == [shown |-> {},
               calls |-> << [level |-> 1, see |-> FALSE, saw |-> FALSE] >>]
      out[n \in 0 .. Len(list)] ==
        IF n = 0 THEN none ELSE EmitItem(out[n - 1], list[n], Walk(sel))
  IN  out[Len(list)].shown

-----------------------------------------------------------------------------
(* Properties                                                              *)

\* After each request no two items of a menu, or paragraphs of a page, have
\* the same place, whatever was added, moved and changed before: that is what
\* the statement of usupplemental is for.
NoAmbiguity ==
  orderly /\ Quiet =>
    \A a, b \in entries : place[a].order = place[b].order => a = b

\* The list s with a and b exchanged.
Exchanged(s, a, b) ==
  [i \in DOMAIN s |-> CASE s[i] = a -> b [] s[i] = b -> a [] OTHER -> s[i]]

\* An item moved up or down has changed places with the one next to it, and
\* the rest of the list is as it was; at the end of the list nothing happens.
\* (move takes two db_action calls, each of which moves the others.)
MoveSwaps ==
  orderly /\ Quiet /\ asked.what \in {"up", "btm"} =>
    LET n == Len(asked.list)
        i == CHOOSE k \in 1 .. n : asked.list[k] = asked.entry
        with == IF asked.what = "up" THEN Max({1, i - 1}) ELSE Min({n, i + 1})
    IN  Listed(entries, place) =
          Exchanged(asked.list, asked.entry, asked.list[with])

\* No step of a request puts in another order two entries that no request
\* under way is about, not even when requests overlap or die.
Subjects == {todo[w].id : w \in Writers}
UntouchedKeepOrder ==
  [][\A a, b \in entries \cap entries' :
       /\ place[a].order < place[b].order
       /\ {a, b} \cap (Subjects \cup Subjects' \cup {asked'.entry}) = {}
       => place'[a].order < place'[b].order]_menuVars

\* In a menu where no level is left out, the page shows the selected item,
\* the items above it, all that are beside one of these, and what is directly
\* below the selected one.
SelectedIsShown ==
  LET list  == Listed(entries, place)
      Level(i) == place[list[i]].level
      Parent(i) == Max({k \in 1 .. (i - 1) : Level(k) < Level(i)} \cup {0})
      Open(i, s) == \/ i \in {0, s}
                    \/ i < s /\ (\A k \in (i + 1) .. s : Level(k) > Level(i))
      wellFormed == \A i \in DOMAIN list :
                      Level(i) <= IF i = 1 THEN 1 ELSE Level(i - 1) + 1
  IN  kind = "menu" /\ orderly /\ Quiet /\ wellFormed =>
        \A s \in DOMAIN list : \A i \in DOMAIN list :
          Open(Parent(i), s) => list[i] \in ShownWith(list[s])
=============================================================================
