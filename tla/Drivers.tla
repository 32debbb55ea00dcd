------------------------------ MODULE Drivers ------------------------------
(***************************************************************************)
(* The database drivers of openData, as far as their users can tell them   *)
(* apart: a command and a recordset on one connection, over PostgreSQL     *)
(* (openDBPG.cpp, which brackets statements with transactions of its own)  *)
(* and over MySQL (openMyDB.cpp, which fetches a result whole).  The third *)
(* one, openODBC.cpp, lacks the resultKey that openDB.h asks for, and so   *)
(* cannot be built.                                                        *)
(*                                                                         *)
(* A call of a driver is an operator that yields the set of its outcomes:  *)
(* whether it returned true, the connection it leaves, and the table as    *)
(* everybody else sees it.  The servers are external.                      *)
(***************************************************************************)
EXTENDS Integers

CONSTANTS
  Ids,          \* keys of the rows of the table
  Values,       \* what a row may hold
  Faults        \* a subset of {"statement", "commit", "gone"}

ASSUME DriversAssumption ==
  Ids \subseteq Nat \ {0} /\ Values \subseteq Nat

Absent == -1            \* no row under this key
Keep   == -2            \* not written by this transaction

Table == [Ids -> Values \cup {Absent}]
Write == [Ids -> Values \cup {Absent, Keep}]
Row   == [key : Ids, val : Values]
NoRow == [key |-> 0, val |-> Absent]

(***************************************************************************)
(* flag: isTransactioning of the postgresDB.  open, outer: m_bOpen and     *)
(* m_bTransactioning of the recordset.  rest: the rows not fetched yet.    *)
(* bound: ordinals holds fields; field: the row that the first of them     *)
(* show.                                                                   *)
(* server, pending, live belong to the server: the state of its            *)
(* transaction, what it has written, whether the cursor exists.            *)
(***************************************************************************)
Connection ==
  [flag : BOOLEAN, open : BOOLEAN, outer : BOOLEAN, rest : SUBSET Row,
   bound : BOOLEAN, field : Row \cup {NoRow},
   server : {"idle", "open", "aborted", "gone"}, pending : Write,
   live : BOOLEAN]

NothingPending == [k \in Ids |-> Keep]

NewConnection ==
  [flag |-> FALSE, open |-> FALSE, outer |-> FALSE, rest |-> {},
   bound |-> FALSE, field |-> NoRow,
   server |-> "idle", pending |-> NothingPending, live |-> FALSE]

Outcome(ok, c, t) == [ok |-> ok, conn |-> c, table |-> t]

Over(w, t) == [k \in Ids |-> IF w[k] = Keep THEN t[k] ELSE w[k]]

Put(k, v) == [NothingPending EXCEPT ![k] = v]

\* What a connection sees of the table.
Seen(c, t) == Over(c.pending, t)

\* The rows of a query for the keys ks, ...
Rows(c, t, ks) ==
  {[key |-> k, val |-> Seen(c, t)[k]] :
     k \in {j \in ks \cap Ids : Seen(c, t)[j] # Absent}}

\* ... which come in the order of their keys.
First(rows) == CHOOSE r \in rows : \A s \in rows : r.key <= s.key
Later(rows) == rows \ {First(rows)}

-----------------------------------------------------------------------------
(* The server (external).                                                  *)

Refused(c) ==
  [c EXCEPT !.server = IF @ = "open" THEN "aborted" ELSE @]

Lost(c) == [c EXCEPT !.server = "gone", !.pending = NothingPending,
                     !.live = FALSE]

\* A statement fails, or the connection breaks while it runs.
Failures(c, t) ==
  (IF "statement" \in Faults \/ c.server \in {"aborted", "gone"}
     THEN {Outcome(FALSE, Refused(c), t)} ELSE {})
  \cup (IF "gone" \in Faults THEN {Outcome(FALSE, Lost(c), t)} ELSE {})

\* A statement that writes w: part of the transaction, or one of its own.
Run(c, t, w) ==
  Failures(c, t) \cup
  CASE c.server = "open" ->
         {Outcome(TRUE, [c EXCEPT !.pending = Over(w, @)], t)}
    [] c.server = "idle" -> {Outcome(TRUE, c, Over(w, t))}
    [] OTHER -> {}

\* The transaction is over, and the cursors with it.
Ended(c) == [c EXCEPT !.server = "idle", !.pending = NothingPending,
                      !.live = FALSE]

\* COMMIT, which the server answers in an aborted transaction, too.
CommitAtServer(c, t) ==
  CASE c.server = "gone" -> {Outcome(FALSE, c, t)}
    [] c.server = "open" ->
         {Outcome(TRUE, Ended(c), Over(c.pending, t))}
         \cup (IF "commit" \in Faults
                 THEN {Outcome(FALSE, Ended(c), t)} ELSE {})
    [] OTHER -> {Outcome(TRUE, Ended(c), t)}

\* BEGIN, sent by a driver that knows of no transaction.
BeginAtServer(c) ==
  IF c.server = "gone" THEN c ELSE [c EXCEPT !.server = "open", !.flag = TRUE]

-----------------------------------------------------------------------------
(* openDBPG.cpp.                                                           *)

\* postgresCMD::commit: nothing to do unless a transaction is known of.
PgCmdCommit(c, t) ==
  IF ~c.flag THEN {Outcome(TRUE, c, t)}
  ELSE {IF e.ok THEN [e EXCEPT !.conn.flag = FALSE] ELSE e :
          e \in CommitAtServer(c, t)}

(***************************************************************************)
(* postgresCMD::execute.  A statement that fails leaves the transaction it *)
(* ran in as it is, its own as well; a commit that fails goes unnoticed.   *)
(***************************************************************************)
PgCommand(c, t, w) ==
  LET begun == IF c.flag THEN c ELSE BeginAtServer(c)
  IN  UNION {IF r.ok /\ ~c.flag
               THEN {Outcome(TRUE, e.conn, e.table) :
                       e \in PgCmdCommit(r.conn, r.table)}
               ELSE {r} : r \in Run(begun, t, w)}

\* Mutant of PgRsCommit: forgets a transaction that it leaves alone.
PgRsCommit_Forgets(c, t) ==
  IF c.outer \/ ~c.flag THEN {Outcome(TRUE, [c EXCEPT !.flag = FALSE], t)}
  ELSE {[e EXCEPT !.conn.flag = FALSE] : e \in CommitAtServer(c, t)}

\* postgresRS::commit: ends the transaction if this recordset began it.
PgRsCommit(c, t) ==
  IF c.outer \/ ~c.flag THEN {Outcome(TRUE, c, t)}
  ELSE {[e EXCEPT !.conn.flag = FALSE] : e \in CommitAtServer(c, t)}

\* postgresRS::close.
PgClose(c, t) ==
  IF ~c.open THEN {Outcome(TRUE, c, t)}
  ELSE {[e EXCEPT !.conn.open = FALSE, !.conn.bound = FALSE,
                  !.conn.rest = {}, !.conn.field = NoRow] :
          e \in PgRsCommit(c, t)}

\* postgresRS::beginTransaction, which "maintains state of some other".
PgRsBegin(c) ==
  [IF c.flag THEN c ELSE BeginAtServer(c) EXCEPT !.outer = c.flag]

(***************************************************************************)
(* Declare the cursor and fetch one row.  A declaration that fails (as it  *)
(* does outside of a transaction) returns at once; a fetch that fails or   *)
(* that finds no row ends the transaction first.                           *)
(***************************************************************************)
PgDeclare(c, t, ks) ==
  LET rows  == Rows(c, t, ks)
      empty == IF rows = {} THEN {Outcome(FALSE, c, t)} ELSE {}
      found == [c EXCEPT !.open = TRUE, !.bound = TRUE, !.live = TRUE,
                         !.field = First(rows), !.rest = Later(rows)]
  IN  Failures(c, t) \cup
      IF c.server # "open" THEN {Outcome(FALSE, c, t)}
      ELSE {[e EXCEPT !.ok = FALSE] : e \in UNION {
              PgRsCommit(f.conn, f.table) : f \in Failures(c, t) \cup empty}}
           \cup IF rows = {} THEN {} ELSE {Outcome(TRUE, found, t)}

\* postgresRS::open for the keys ks: close, begin and declare.
PgOpen(c, t, ks) ==
  UNION {PgDeclare(PgRsBegin(d.conn), d.table, ks) : d \in PgClose(c, t)}

(***************************************************************************)
(* postgresRS::next: fetch forward.  The end of the rows and a cursor that *)
(* is gone look the same: close, and no row.                               *)
(***************************************************************************)
PgNext(c, t) ==
  LET found == c.live /\ c.rest # {}
      ended == Failures(c, t) \cup
               CASE ~c.live -> {Outcome(FALSE, Refused(c), t)}
                 [] c.rest = {} -> {Outcome(FALSE, c, t)}
                 [] OTHER -> {}
  IN  {[d EXCEPT !.ok = FALSE] :
         d \in UNION {PgClose(f.conn, f.table) : f \in ended}}
      \cup IF found /\ c.server = "open"
             THEN {Outcome(TRUE, [c EXCEPT !.field = First(c.rest),
                                           !.rest = Later(c.rest)], t)}
             ELSE {}

(***************************************************************************)
(* postgresCMD::resultKey: another recordset looks the new row up, in the  *)
(* transaction that is known of or in one of its own.  ok tells whether it *)
(* found the key.                                                          *)
(***************************************************************************)
PgResultKey(c, t, k) ==
  LET other == [c EXCEPT !.open = FALSE, !.outer = FALSE, !.rest = {},
                         !.bound = FALSE, !.field = NoRow]
      back(d) == [d EXCEPT !.open = c.open, !.outer = c.outer,
                    !.rest = c.rest, !.bound = c.bound, !.field = c.field,
                    !.live = c.live /\ d.server = "open"]
  IN  UNION {{Outcome(o.ok, back(e.conn), e.table) :
                e \in PgClose(o.conn, o.table)} :
             o \in PgOpen(other, t, {k})}

-----------------------------------------------------------------------------
(* openMyDB.cpp: every statement for itself, the result held by the client.*)

MyClosed(c) == [c EXCEPT !.open = FALSE, !.bound = FALSE, !.rest = {},
                         !.field = NoRow]

\* Mutant of MyOpen: keeps the fields it has.
MyOpen_KeepFields(c, t, ks) ==
  LET rows == Rows(c, t, ks)
  IN  Failures([c EXCEPT !.open = FALSE], t) \cup
      IF c.server = "gone" THEN {}
      ELSE IF rows = {} THEN {Outcome(FALSE, MyClosed(c), t)}
      ELSE {Outcome(TRUE, [c EXCEPT !.open = TRUE, !.bound = TRUE,
                !.field = IF c.bound THEN @ ELSE First(rows),
                !.rest = Later(rows)], t)}

\* mySqlRS::open: close, query, store the result, fetch its first row.
MyOpen(c, t, ks) ==
  LET rows == Rows(c, t, ks)
  IN  Failures(MyClosed(c), t) \cup
      IF c.server = "gone" THEN {}
      ELSE IF rows = {} THEN {Outcome(FALSE, MyClosed(c), t)}
      ELSE {Outcome(TRUE, [c EXCEPT !.open = TRUE, !.bound = TRUE,
                !.field = First(rows), !.rest = Later(rows)], t)}

\* mySqlRS::next: the stored result has another row, or is freed.
MyNext(c, t) ==
  IF c.rest = {} THEN {Outcome(FALSE, MyClosed(c), t)}
  ELSE {Outcome(TRUE, [c EXCEPT !.field = First(c.rest), !.rest = Later(c.rest)],
                t)}

=============================================================================
