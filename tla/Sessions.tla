------------------------------ MODULE Sessions ------------------------------
(***************************************************************************)
(* The session of a browser (sessions/Session.hpp) and the pages that keep *)
(* state in it: the lists of openForms/superlist_base.hpp, their filter,   *)
(* direction, sort column and page, and the tree service of                *)
(* openForms/XMLTreeStates.cpp, the nodes that are expanded.  A request    *)
(* reads the whole session when it begins, changes its copy, and writes    *)
(* the whole copy back when it ends.                                       *)
(***************************************************************************)
EXTENDS Naturals, FiniteSets

CONSTANTS
  Frames,        \* tabs and frames of one browser
  Lists,         \* list pages
  Name,          \* Name[l]: the session name of list l
  Columns,       \* Columns[l]: the columns list l can be sorted by
  Filters,       \* what is put in the search box
  Nodes,         \* nodes of a tree
  ItemsPerPg,    \* rows on one page of a list
  MaxCount,      \* bound on the rows a list may find
  MaxSessions,   \* bound on the sessions ever made
  MaxRequests    \* bound on the requests

ASSUME SessionAssumption ==
  /\ DOMAIN Name = Lists /\ DOMAIN Columns = Lists
  /\ \A l \in Lists : l # "none" /\ Name[l] # "tree"
  /\ ItemsPerPg \in Nat \ {0} /\ MaxCount \in Nat
  /\ MaxSessions \in Nat /\ MaxRequests \in Nat

\* The variables of a session: four of each list name, one of each node.
Names == {Name[l] : l \in Lists}
Vars  == (Names \X {"lFilter", "lDir", "lSort", "lPg"})
           \cup ({"tree"} \X Nodes)

Uuids == 1 .. MaxSessions

AllColumns == UNION {Columns[l] : l \in Lists}

IsVariables(v) ==
  /\ DOMAIN v = Vars
  /\ \A n \in Nodes : v[<< "tree", n >>] \in BOOLEAN
  /\ \A n \in Names :
       /\ v[<< n, "lFilter" >>] \in Filters \cup {""}
       /\ v[<< n, "lDir" >>] \in {"", "asc", "desc"}
       /\ v[<< n, "lSort" >>] \in AllColumns \cup {""}
       /\ v[<< n, "lPg" >>] \in 0 .. MaxCount \div ItemsPerPg

\* A variable that was never set reads as empty, as a number as 0.
NoData == [k \in Vars |-> IF k[1] = "tree" THEN FALSE
                          ELSE IF k[2] = "lPg" THEN 0 ELSE ""]

VARIABLES
  neat,          \* one tab at a time, and each list entered by its menu link
  live, table,   \* the sessions in the database, and their XML_Variables
  made,          \* how many UUIDs have been made
  jar,           \* the cookie SessionId, 0 for none
  phase,         \* phase[t]: where the request of tab t is
  list,          \* list[t]: the list it is for, "none" for the tree service
  copy,          \* copy[t]: its Session_Obj
  shown,         \* shown[t]: the list on the page of the tab, and how
  requests,      \* how many requests there have been
  solid          \* what the user has set, with no other request under way

sessionVars == << neat, live, table, made, jar, phase, list, copy, shown,
                  requests, solid >>

NoSession == [UUID |-> 0, inserted |-> FALSE, fresh |-> FALSE, vars |-> NoData,
              listPg |-> 0]
NothingShown == [list |-> "none", lFilter |-> "", lDir |-> "", lSort |-> "", lPg |-> 0]

SessionTypeOK ==
  /\ neat \in BOOLEAN
  /\ live \subseteq 1 .. made /\ made \in 0 .. MaxSessions
  /\ DOMAIN table = Uuids /\ \A u \in Uuids : IsVariables(table[u])
  /\ jar \in 0 .. made
  /\ phase \in [Frames -> {"idle", "begun", "counted"}]
  /\ list \in [Frames -> Lists \cup {"none"}]
  /\ \A t \in Frames : /\ copy[t].UUID \in 0 .. made
                       /\ IsVariables(copy[t].vars)
                       /\ copy[t].listPg \in Nat
                       /\ shown[t].list \in Lists \cup {"none"}
  /\ requests \in 0 .. MaxRequests
  /\ solid.keys \subseteq Vars /\ IsVariables(solid.vars)

SessionsInit ==
  /\ neat \in BOOLEAN
  /\ live = {} /\ made = 0 /\ jar = 0
  /\ table = [u \in Uuids |-> NoData]
  /\ phase = [t \in Frames |-> "idle"]
  /\ list = [t \in Frames |-> "none"]
  /\ copy = [t \in Frames |-> NoSession]
  /\ shown = [t \in Frames |-> NothingShown]
  /\ requests = 0
  /\ solid = [keys |-> {}, vars |-> NoData]

Set(v, n, field, value) == [v EXCEPT ![<< n, field >>] = value]

-----------------------------------------------------------------------------
(* A request begins: the constructor of Session_Obj, then the constructor  *)
(* of the list, or the changes of the tree service.                        *)

\* What the request finds in its session.
Loaded == IF jar \in live THEN table[jar] ELSE NoData

\* The session of the cookie, changed to vars; without one, a new one, whose
\* insert may fail.
Construct(t, vars, pg) ==
  IF jar \in live
  THEN /\ copy' = [copy EXCEPT ![t] =
                     [UUID |-> jar, inserted |-> TRUE, fresh |-> FALSE,
                      vars |-> vars, listPg |-> pg]]
       /\ UNCHANGED << live, table, made >>
  ELSE /\ made < MaxSessions
       /\ made' = made + 1
       /\ \E good \in BOOLEAN :
            /\ live' = live \cup (IF good THEN {made'} ELSE {})
            /\ copy' = [copy EXCEPT ![t] =
                 [UUID |-> made', inserted |-> good, fresh |-> TRUE,
                  vars |-> vars, listPg |-> pg]]
       /\ table' = [table EXCEPT ![made'] = NoData]

\* set: the variables that the user sets with this request.
Begin(t, l, vars, pg, set) ==
  /\ phase[t] = "idle" /\ requests < MaxRequests
  /\ Construct(t, vars, pg)
  /\ phase' = [phase EXCEPT ![t] = "begun"]
  /\ list' = [list EXCEPT ![t] = l]
  /\ requests' = requests + 1
  /\ solid' = [solid EXCEPT !.keys = @ \ set]
  /\ UNCHANGED << neat, jar, shown >>

\* The user is neat: no other tab has a page, and this page is of list l.
May(t, l) ==
  neat => /\ \A o \in Frames \ {t} : phase[o] = "idle" /\ shown[o] = NothingShown
          /\ l # "none" => shown[t].list = l

Stored(l, v) == v[<< Name[l], "lPg" >>]
AllOf(l) == {Name[l]} \X {"lFilter", "lDir", "lSort", "lPg"}

\* Mutants of Reset: the lists of every name; all but the sort column.
Reset_AllLists(l, v) == [k \in Vars |-> IF k[1] = "tree" THEN v[k] ELSE NoData[k]]
Reset_KeepSort(l, v) ==
  [k \in Vars |-> IF k \in AllOf(l) /\ k[2] # "lSort" THEN NoData[k] ELSE v[k]]

\* The menu link, ?init=1: reset.
Reset(l, v) == [k \in Vars |-> IF k \in AllOf(l) THEN NoData[k] ELSE v[k]]

OpenFromMenu(t, l) ==
  /\ neat => \A o \in Frames \ {t} : phase[o] = "idle" /\ shown[o] = NothingShown
  /\ Begin(t, l, Reset(l, Loaded), 0, AllOf(l))

\* The headings, ?sort=: the same column again reverses the direction.
SetSort(l, c, v) ==
  Set(IF v[<< Name[l], "lSort" >>] = c
      THEN Set(v, Name[l], "lDir",
               IF v[<< Name[l], "lDir" >>] = "desc" THEN "asc" ELSE "desc")
      ELSE v,
      Name[l], "lSort", c)

SortBy(t, l, c) ==
  /\ May(t, l)
  /\ Begin(t, l, SetSort(l, c, Loaded), Stored(l, Loaded),
           {Name[l]} \X {"lSort", "lDir", "lPg"})

\* The search box, ?filter=.
FilterBy(t, l, f) ==
  /\ May(t, l)
  /\ Begin(t, l, Set(Loaded, Name[l], "lFilter", f), Stored(l, Loaded),
           {Name[l]} \X {"lFilter", "lPg"})

\* The navigation: ?navigate=prev, ?navigate=next, ?Pg= (setPage).
Navigate(l, move, v) ==
  CASE move = "prev" -> IF Stored(l, v) = 0 THEN 0 ELSE Stored(l, v) - 1
    [] move = "next" -> Stored(l, v) + 1
    [] move = "last" -> MaxCount     \* a number past the end
    [] move = "here" -> Stored(l, v)

Turn(t, l, move) ==
  /\ May(t, l)
  /\ Begin(t, l, Loaded, Navigate(l, move, Loaded),
           {<< Name[l], "lPg" >>})

\* The tree service: ?expand= and ?contract=.
SetNode(t, n, open) ==
  /\ May(t, "none")
  /\ Begin(t, "none", Set(Loaded, "tree", n, open), 0,
           {<< "tree", n >>})

-----------------------------------------------------------------------------
(* The request goes on.                                                    *)

\* Mutant of MaxPageFixup: one page too many.
MaxPageFixup_OneMore(pg, recCount) ==
  IF pg > recCount \div ItemsPerPg THEN (recCount \div ItemsPerPg) + 1 ELSE pg

\* getFilteredData counts the rows, and maxPageFixup brings the page back
\* among those there are; when the count fails, it is left alone.
MaxPageFixup(pg, recCount) ==
  IF pg > recCount \div ItemsPerPg THEN recCount \div ItemsPerPg ELSE pg

Count(t) ==
  /\ phase[t] = "begun" /\ list[t] # "none"
  /\ phase' = [phase EXCEPT ![t] = "counted"]
  /\ \E recCount \in 0 .. MaxCount :
       LET pg == MaxPageFixup(copy[t].listPg, recCount)
       IN  copy' = [copy EXCEPT ![t].listPg = pg,
                                ![t].vars = Set(@, Name[list[t]], "lPg", pg)]
  /\ UNCHANGED << neat, live, table, made, jar, list, shown, requests, solid >>

CountFails(t) ==
  /\ phase[t] = "begun" /\ list[t] # "none"
  /\ phase' = [phase EXCEPT ![t] = "counted"]
  /\ UNCHANGED << neat, live, table, made, jar, list, copy, shown, requests,
                  solid >>

\* Synch: the whole copy over the row, or a new row if there was none; an
\* update of a session that is gone changes nothing, and says it did.
Synch(s, good) ==
  LET there == s.UUID \in live \/ (~s.inserted /\ good)
  IN  /\ live' = live \cup (IF there THEN {s.UUID} ELSE {})
      /\ table' = IF there THEN [table EXCEPT ![s.UUID] = s.vars] ELSE table

\* The page is sent, and the destructor of the list, or the tree service,
\* writes the session.
Finish(t) ==
  /\ phase[t] = IF list[t] = "none" THEN "begun" ELSE "counted"
  /\ phase' = [phase EXCEPT ![t] = "idle"]
  /\ \E good \in BOOLEAN : Synch(copy[t], good)
  /\ jar' = IF copy[t].fresh THEN copy[t].UUID ELSE jar
  /\ shown' = IF list[t] = "none" THEN shown
              ELSE [shown EXCEPT ![t] =
                LET n == Name[list[t]] v == copy[t].vars
                IN  [list |-> list[t], lFilter |-> v[<< n, "lFilter" >>],
                     lDir |-> v[<< n, "lDir" >>], lSort |-> v[<< n, "lSort" >>],
                     lPg |-> copy[t].listPg]]
  /\ solid' = IF \A o \in Frames \ {t} : phase[o] = "idle"
              THEN [keys |-> IF jar' \in live' THEN Vars ELSE {},
                    vars |-> IF jar' \in Uuids \ {copy[t].UUID}
                             THEN table'[jar'] ELSE copy[t].vars]
              ELSE solid
  /\ copy' = [copy EXCEPT ![t] = NoSession]
  /\ list' = [list EXCEPT ![t] = "none"]
  /\ UNCHANGED << neat, made, requests >>

\* The tab is closed; only to a neat user does it matter.
Close(t) ==
  /\ neat
  /\ phase[t] = "idle" /\ shown[t] # NothingShown
  /\ shown' = [shown EXCEPT ![t] = NothingShown]
  /\ UNCHANGED << neat, live, table, made, jar, phase, list, copy, requests,
                  solid >>

\* "Even though you had a session, it may have gotten deleted."
Delete(u) ==
  /\ u \in live
  /\ live' = live \ {u}
  /\ solid' = IF u = jar THEN [solid EXCEPT !.keys = {}] ELSE solid
  /\ UNCHANGED << neat, table, made, jar, phase, list, copy, shown, requests >>

SessionsNext ==
  \/ \E t \in Frames :
       \/ \E l \in Lists :
            \/ OpenFromMenu(t, l)
            \/ \E c \in Columns[l] : SortBy(t, l, c)
            \/ \E f \in Filters : FilterBy(t, l, f)
            \/ \E move \in {"prev", "next", "last", "here"} : Turn(t, l, move)
       \/ \E n \in Nodes, open \in BOOLEAN : SetNode(t, n, open)
       \/ Count(t) \/ CountFails(t) \/ Finish(t) \/ Close(t)
  \/ \E u \in live : Delete(u)

SessionsSpec == SessionsInit /\ [][SessionsNext]_sessionVars

-----------------------------------------------------------------------------
(* What a session promises.                                                *)

\* What was set while no other request was under way stays set, until it is
\* set again or the session is deleted, however the requests that follow
\* overlap: each of them writes all variables back, from a copy it read.
SetDataLasts ==
  \A k \in solid.keys : table[jar][k] = solid.vars[k]

\* A user who enters each list by its menu link, one tab at a time, never has a
\* list sorted by a column of another; lists without a session name of
\* their own all use the same variables.  A list that has one needs no care.
Shared(l) == \E o \in Lists \ {l} : Name[o] = Name[l]

SortedByOwnColumn ==
  \A t \in Frames :
    LET l == shown[t].list
    IN  l # "none" /\ (neat \/ ~Shared(l)) =>
          shown[t].lSort \in Columns[l] \cup {""}
=============================================================================
