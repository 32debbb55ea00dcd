------------------------- MODULE TableAccess_proofs -------------------------
(***************************************************************************)
(* Proofs about TableAccess and the drivers below it, for any number of    *)
(* objects, rows and values: every variable keeps its type, no transaction *)
(* is left open that the driver has lost sight of, the row a page shows is *)
(* the row its key names, and, where a commit does not fail, what an       *)
(* object reports as saved has been in the table.                          *)
(***************************************************************************)
EXTENDS TableAccess, WellFoundedInduction, TLAPS

-----------------------------------------------------------------------------
(* Connections and outcomes.                                               *)

Outcomes == [ok : BOOLEAN, conn : Connection, table : Table]

\* The recordset of two states of a connection is the same.
SameCursor(c, d) ==
  /\ d.open = c.open
  /\ d.outer = c.outer
  /\ d.rest = c.rest
  /\ d.bound = c.bound
  /\ d.field = c.field

(***************************************************************************)
(* The driver knows of a transaction that the server has, and outside of a *)
(* transaction nothing is pending.                                         *)
(***************************************************************************)
Settled(c) ==
  /\ c.server \in {"open", "aborted"} => c.flag
  /\ c.server \in {"idle", "gone"} => c.pending = NothingPending

\* A recordset never leaves a transaction that goes on to somebody else.
EndsIt(c) == c.server = "open" => ~c.outer

\* A transaction that goes on is the one of the recordset that is open.
OwnTransaction(c) == c.server = "open" => c.open /\ ~c.outer

\* There is no server to be lost twice.
StaysGone(c, d) == c.server = "gone" => d.server = "gone"

\* The fields of a connection.
LEMMA ConnectionFields ==
  ASSUME NEW c \in Connection
  PROVE  /\ c.flag \in BOOLEAN /\ c.open \in BOOLEAN /\ c.outer \in BOOLEAN
         /\ c.bound \in BOOLEAN /\ c.live \in BOOLEAN
         /\ c.rest \subseteq Row
         /\ c.field \in Row \cup {NoRow}
         /\ c.server \in {"idle", "open", "aborted", "gone"}
         /\ c.pending \in Write
  BY DEF Connection

\* An outcome is made of what it is made of.
LEMMA OutcomeMade ==
  ASSUME NEW ok \in BOOLEAN, NEW c \in Connection, NEW t \in Table
  PROVE  /\ Outcome(ok, c, t) \in Outcomes
         /\ Outcome(ok, c, t).ok = ok
         /\ Outcome(ok, c, t).conn = c
         /\ Outcome(ok, c, t).table = t
  BY DEF Outcome, Outcomes

\* The marks for no row and no write are no values.
LEMMA Marks ==
  /\ Absent \notin Values /\ Keep \notin Values /\ Absent # Keep
  /\ 0 \notin Ids
  BY DriversAssumption DEF Absent, Keep

\* Writing nothing at all.
LEMMA NothingIsWritten ==
  /\ NothingPending \in Write
  /\ \A k \in Ids : NothingPending[k] = Keep
  BY DEF NothingPending, Write

\* What is written over a table, or over what is pending, is of its type.
LEMMA OverType ==
  ASSUME NEW w \in Write
  PROVE  /\ \A t \in Table : Over(w, t) \in Table
         /\ \A p \in Write : Over(w, p) \in Write
         /\ \A t \in Table, k \in Ids :
              Over(w, t)[k] = IF w[k] = Keep THEN t[k] ELSE w[k]
         /\ \A p \in Write, k \in Ids :
              Over(w, p)[k] = IF w[k] = Keep THEN p[k] ELSE w[k]
  BY Marks DEF Over, Write, Table

\* Nothing changes by writing nothing, before or after.
LEMMA OverNothing ==
  /\ \A t \in Table : Over(NothingPending, t) = t
  /\ \A w \in Write : Over(w, NothingPending) = w
<1>1. ASSUME NEW t \in Table
      PROVE  Over(NothingPending, t) = t
  <2>1. Over(NothingPending, t) \in Table
        /\ \A k \in Ids : Over(NothingPending, t)[k] = t[k]
    BY NothingIsWritten, OverType
  <2> QED
    BY <2>1 DEF Table
<1>2. ASSUME NEW w \in Write
      PROVE  Over(w, NothingPending) = w
  <2>1. Over(w, NothingPending) \in Write
        /\ \A k \in Ids : Over(w, NothingPending)[k] = w[k]
    BY NothingIsWritten, OverType
  <2> QED
    BY <2>1 DEF Write
<1> QED
  BY <1>1, <1>2

-----------------------------------------------------------------------------
(* The server.                                                             *)

\* What a failure of a statement leaves.
Failed(c, t, e) ==
  /\ e \in Outcomes
  /\ ~e.ok
  /\ e.table = t
  /\ SameCursor(c, e.conn)
  /\ e.conn.flag = c.flag
  /\ e.conn.server # "open"
  /\ e.conn.server = "aborted" => c.server \in {"open", "aborted"}
  /\ e.conn.server = "idle" => c.server = "idle"
  /\ e.conn.pending \in {c.pending, NothingPending}
  /\ e.conn.server = "gone" => c.server = "gone" \/ e.conn.pending = NothingPending
  /\ StaysGone(c, e.conn)

\* A statement is refused, and the transaction aborted.
LEMMA RefusedFails ==
  ASSUME NEW c \in Connection, NEW t \in Table
  PROVE  Failed(c, t, Outcome(FALSE, Refused(c), t))
<1>1. /\ Refused(c) \in Connection
      /\ SameCursor(c, Refused(c))
      /\ Refused(c).flag = c.flag
      /\ Refused(c).pending = c.pending
      /\ Refused(c).server = IF c.server = "open" THEN "aborted" ELSE c.server
  BY DEF Refused, Connection, SameCursor
<1> QED
  BY <1>1, OutcomeMade, ConnectionFields DEF Failed, StaysGone

\* The connection breaks.
LEMMA LostFails ==
  ASSUME NEW c \in Connection, NEW t \in Table
  PROVE  Failed(c, t, Outcome(FALSE, Lost(c), t))
<1>1. /\ Lost(c) \in Connection
      /\ SameCursor(c, Lost(c))
      /\ Lost(c).flag = c.flag
      /\ Lost(c).pending = NothingPending
      /\ Lost(c).server = "gone"
  BY NothingIsWritten DEF Lost, Connection, SameCursor
<1>2. LET e == Outcome(FALSE, Lost(c), t)
      IN  e \in Outcomes /\ ~e.ok /\ e.conn = Lost(c) /\ e.table = t
  BY <1>1 DEF Outcome, Outcomes
<1> QED
  BY <1>1, <1>2 DEF Failed, StaysGone

\* Every failure is one of the two.
LEMMA FailuresFail ==
  ASSUME NEW c \in Connection, NEW t \in Table, NEW e \in Failures(c, t)
  PROVE  Failed(c, t, e)
<1>1. e = Outcome(FALSE, Refused(c), t) \/ e = Outcome(FALSE, Lost(c), t)
  BY DEF Failures
<1> QED
  BY <1>1, RefusedFails, LostFails

\* What is pending and settled stays so when a statement fails.
LEMMA FailedSettled ==
  ASSUME NEW c \in Connection, NEW t \in Table, NEW e, Failed(c, t, e), Settled(c)
  PROVE  Settled(e.conn)
<1>1. e.conn \in Connection
  BY DEF Failed, Outcomes
<1>2. e.conn.server \in {"idle", "aborted", "gone"}
  BY <1>1, ConnectionFields DEF Failed
<1> QED
  BY <1>2 DEF Failed, Settled

\* What a commit leaves at the server, with the table t2.
LEMMA CommitEnds ==
  ASSUME NEW c \in Connection, NEW t \in Table, NEW e \in CommitAtServer(c, t),
         Settled(c)
  PROVE  /\ e \in Outcomes
         /\ SameCursor(c, e.conn)
         /\ e.conn.flag = c.flag
         /\ e.conn.server \in {"idle", "gone"}
         /\ e.conn.pending = NothingPending
         /\ StaysGone(c, e.conn)
         /\ e.table = t \/ (c.server = "open" /\ e.table = Over(c.pending, t))
         /\ (c.server = "open" /\ "commit" \notin Faults) =>
              e.ok /\ e.table = Over(c.pending, t)
<1>1. /\ Ended(c) \in Connection
      /\ SameCursor(c, Ended(c))
      /\ Ended(c).flag = c.flag
      /\ Ended(c).server = "idle"
      /\ Ended(c).pending = NothingPending
  BY NothingIsWritten DEF Ended, Connection, SameCursor
<1>2. Over(c.pending, t) \in Table
  BY ConnectionFields, OverType
<1>3. CASE c.server = "gone"
  <2>1. e = Outcome(FALSE, c, t)
    BY <1>3 DEF CommitAtServer
  <2> QED
    BY ZenonT(40), <2>1, <1>3, OutcomeMade DEF SameCursor, Settled, StaysGone
<1>4. CASE c.server = "open"
  <2>1. \/ e = Outcome(TRUE, Ended(c), Over(c.pending, t))
        \/ "commit" \in Faults /\ e = Outcome(FALSE, Ended(c), t)
    BY <1>4 DEF CommitAtServer
  <2>2. CASE e = Outcome(TRUE, Ended(c), Over(c.pending, t))
    <3>1. /\ e \in Outcomes
          /\ e.ok
          /\ e.conn = Ended(c)
          /\ e.table = Over(c.pending, t)
      BY <2>2, <1>1, <1>2 DEF Outcome, Outcomes
    <3> QED
      BY <3>1, <1>1, <1>4 DEF SameCursor, StaysGone
  <2>3. CASE "commit" \in Faults /\ e = Outcome(FALSE, Ended(c), t)
    <3>1. /\ e \in Outcomes
          /\ e.conn = Ended(c)
          /\ e.table = t
      BY <2>3, <1>1 DEF Outcome, Outcomes
    <3> QED
      BY <2>3, <3>1, <1>1, <1>4 DEF SameCursor, StaysGone
  <2> QED
    BY <2>1, <2>2, <2>3
<1>5. CASE c.server \notin {"gone", "open"}
  <2>1. e = Outcome(TRUE, Ended(c), t)
    BY <1>5 DEF CommitAtServer
  <2>2. /\ e \in Outcomes
        /\ e.conn = Ended(c)
        /\ e.table = t
    BY <2>1, <1>1 DEF Outcome, Outcomes
  <2> QED
    BY <2>2, <1>1, <1>5 DEF SameCursor, StaysGone
<1> QED
  BY <1>3, <1>4, <1>5

\* A driver that knows of no transaction begins one, if the server is there.
LEMMA BeginOpens ==
  ASSUME NEW c \in Connection, ~c.flag, Settled(c)
  PROVE  LET b == BeginAtServer(c)
         IN  /\ b \in Connection
             /\ SameCursor(c, b)
             /\ b.pending = NothingPending
             /\ \/ b = c /\ c.server = "gone"
                \/ b.server = "open" /\ b.flag /\ c.server = "idle"
<1>1. c.server \in {"idle", "gone"}
  BY ConnectionFields DEF Settled
<1>2. CASE c.server = "gone"
  BY <1>2 DEF BeginAtServer, SameCursor, Settled
<1>3. CASE c.server = "idle"
  BY <1>3 DEF BeginAtServer, SameCursor, Settled, Connection
<1> QED
  BY <1>1, <1>2, <1>3

-----------------------------------------------------------------------------
(* openDBPG.cpp.                                                           *)

\* The table after what was pending has been committed, or has not.
Written(c, t, e) ==
  /\ e.table = t \/ (c.server = "open" /\ e.table = Over(c.pending, t))
  /\ e.conn.pending \in {c.pending, NothingPending}

\* Unless commits fail, what was pending is in the table.
AllWritten(c, t, e) ==
  (c.server = "open" /\ "commit" \notin Faults) => e.table = Over(c.pending, t)

\* Setting the flag back in an outcome.
LEMMA Unflagged ==
  ASSUME NEW e \in Outcomes
  PROVE  LET u == [e EXCEPT !.conn.flag = FALSE]
         IN  /\ u \in Outcomes
             /\ SameCursor(e.conn, u.conn)
             /\ ~u.conn.flag
             /\ u.conn.server = e.conn.server
             /\ u.conn.pending = e.conn.pending
             /\ u.table = e.table
             /\ u.ok = e.ok
  BY DEF Outcomes, Connection, SameCursor

\* The recordset's commit leaves no transaction that goes on.
LEMMA RsCommitEnds ==
  ASSUME NEW c \in Connection, NEW t \in Table, NEW e \in PgRsCommit(c, t),
         Settled(c), EndsIt(c)
  PROVE  /\ e \in Outcomes
         /\ Settled(e.conn)
         /\ SameCursor(c, e.conn)
         /\ e.conn.server # "open"
         /\ StaysGone(c, e.conn)
         /\ Written(c, t, e)
         /\ AllWritten(c, t, e)
<1>1. CASE c.outer \/ ~c.flag
  <2>1. e = Outcome(TRUE, c, t)
    BY <1>1 DEF PgRsCommit
  <2>2. e \in Outcomes /\ e.conn = c /\ e.table = t
    BY <2>1 DEF Outcome, Outcomes
  <2>3. c.server # "open"
    BY <1>1 DEF Settled, EndsIt
  <2> QED
    BY <2>2, <2>3 DEF SameCursor, StaysGone, Written, AllWritten
<1>2. CASE ~(c.outer \/ ~c.flag)
  <2>1. PICK d \in CommitAtServer(c, t) : e = [d EXCEPT !.conn.flag = FALSE]
    BY <1>2 DEF PgRsCommit
  <2>2. /\ d \in Outcomes
        /\ SameCursor(c, d.conn)
        /\ d.conn.server \in {"idle", "gone"}
        /\ d.conn.pending = NothingPending
        /\ StaysGone(c, d.conn)
        /\ d.table = t \/ (c.server = "open" /\ d.table = Over(c.pending, t))
        /\ (c.server = "open" /\ "commit" \notin Faults) =>
             d.table = Over(c.pending, t)
    BY CommitEnds
  <2>3. /\ e \in Outcomes
        /\ SameCursor(d.conn, e.conn)
        /\ e.conn.server = d.conn.server
        /\ e.conn.pending = d.conn.pending
        /\ e.table = d.table
    BY <2>1, <2>2, Unflagged
  <2> QED
    BY <2>2, <2>3 DEF Settled, SameCursor, StaysGone, Written, AllWritten
<1> QED
  BY <1>1, <1>2

\* After close there is no recordset, and no transaction of it.
LEMMA CloseEnds ==
  ASSUME NEW c \in Connection, NEW t \in Table, NEW e \in PgClose(c, t),
         Settled(c), OwnTransaction(c)
  PROVE  /\ e \in Outcomes
         /\ Settled(e.conn)
         /\ ~e.conn.open
         /\ e.conn.rest \subseteq c.rest
         /\ e.conn.server # "open"
         /\ StaysGone(c, e.conn)
         /\ Written(c, t, e)
         /\ AllWritten(c, t, e)
<1>1. CASE ~c.open
  <2>1. e = Outcome(TRUE, c, t)
    BY <1>1 DEF PgClose
  <2>2. e \in Outcomes /\ e.conn = c /\ e.table = t
    BY <2>1 DEF Outcome, Outcomes
  <2>3. c.server # "open"
    BY <1>1 DEF OwnTransaction
  <2> QED
    BY <1>1, <2>2, <2>3 DEF StaysGone, Written, AllWritten
<1>2. CASE c.open
  <2>1. PICK d \in PgRsCommit(c, t) :
          e = [d EXCEPT !.conn.open = FALSE, !.conn.bound = FALSE,
                        !.conn.rest = {}, !.conn.field = NoRow]
    BY <1>2 DEF PgClose
  <2>2. /\ d \in Outcomes
        /\ Settled(d.conn)
        /\ d.conn.server # "open"
        /\ StaysGone(c, d.conn)
        /\ Written(c, t, d)
        /\ AllWritten(c, t, d)
    BY RsCommitEnds DEF OwnTransaction, EndsIt
  <2>3. /\ e \in Outcomes
        /\ ~e.conn.open
        /\ e.conn.rest = {}
        /\ e.conn.server = d.conn.server
        /\ e.conn.flag = d.conn.flag
        /\ e.conn.outer = d.conn.outer
        /\ e.conn.pending = d.conn.pending
        /\ e.table = d.table
    BY ZenonT(40), <2>1, <2>2 DEF Outcomes, Connection
  <2> QED
    BY <2>2, <2>3 DEF Settled, StaysGone, Written, AllWritten
<1> QED
  BY <1>1, <1>2

(***************************************************************************)
(* The command's commit, of a transaction that is known of.  It may leave  *)
(* the flag standing, but no transaction.                                  *)
(***************************************************************************)
LEMMA CmdCommitEnds ==
  ASSUME NEW c \in Connection, NEW t \in Table, NEW e \in PgCmdCommit(c, t),
         Settled(c)
  PROVE  /\ e \in Outcomes
         /\ Settled(e.conn)
         /\ SameCursor(c, e.conn)
         /\ e.conn.server \in {"idle", "gone"}
         /\ StaysGone(c, e.conn)
         /\ Written(c, t, e)
         /\ AllWritten(c, t, e)
<1>1. CASE ~c.flag
  <2>1. e = Outcome(TRUE, c, t)
    BY <1>1 DEF PgCmdCommit
  <2>2. e \in Outcomes /\ e.conn = c /\ e.table = t
    BY <2>1 DEF Outcome, Outcomes
  <2>3. c.server \in {"idle", "gone"}
    BY <1>1, ConnectionFields DEF Settled
  <2> QED
    BY <2>2, <2>3 DEF SameCursor, StaysGone, Written, AllWritten
<1>2. CASE c.flag
  <2>1. PICK d \in CommitAtServer(c, t) :
          e = IF d.ok THEN [d EXCEPT !.conn.flag = FALSE] ELSE d
    BY <1>2 DEF PgCmdCommit
  <2>2. /\ d \in Outcomes
        /\ SameCursor(c, d.conn)
        /\ d.conn.server \in {"idle", "gone"}
        /\ d.conn.pending = NothingPending
        /\ StaysGone(c, d.conn)
        /\ d.table = t \/ (c.server = "open" /\ d.table = Over(c.pending, t))
        /\ (c.server = "open" /\ "commit" \notin Faults) =>
             d.table = Over(c.pending, t)
    BY CommitEnds
  <2>3. /\ e \in Outcomes
        /\ SameCursor(d.conn, e.conn)
        /\ e.conn.server = d.conn.server
        /\ e.conn.pending = d.conn.pending
        /\ e.table = d.table
    BY <2>1, <2>2, Unflagged DEF SameCursor
  <2> QED
    BY <2>2, <2>3 DEF Settled, SameCursor, StaysGone, Written, AllWritten
<1> QED
  BY <1>1, <1>2

-----------------------------------------------------------------------------
(* Rows.                                                                   *)

\* The rows found by a query are rows of what the connection sees.
LEMMA RowsFound ==
  ASSUME NEW c \in Connection, NEW t \in Table, NEW ks
  PROVE  /\ Rows(c, t, ks) \subseteq Row
         /\ \A r \in Rows(c, t, ks) :
              /\ r.key \in Ids
              /\ r.key \in ks
              /\ Seen(c, t)[r.key] # Absent
<1>1. Seen(c, t) \in Table
  BY ConnectionFields, OverType DEF Seen
<1> QED
  BY <1>1 DEF Rows, Row, Table

\* Among some rows there is a first.
LEMMA FirstIsThere ==
  ASSUME NEW rows \in SUBSET Row, rows # {}
  PROVE  /\ First(rows) \in rows
         /\ Later(rows) \subseteq rows
<1> DEFINE keys == {r.key : r \in rows}
<1>1. keys \subseteq Nat /\ keys # {}
  BY DriversAssumption DEF Row
<1> DEFINE less == OpToRel(<, Nat)
<1>2. less = {ss \in Nat \X Nat : ss[1] < ss[2]}
  BY DEF OpToRel
<1>3. IsWellFoundedOn(less, Nat)
  BY NatLessThanWellFounded
<1> HIDE DEF less
<1>4. PICK k \in keys : \A j \in keys : ~(<< j, k >> \in less)
  BY <1>1, <1>3, WFMin
<1>5. ASSUME NEW j \in keys
      PROVE  k <= j
  <2>1. j \in Nat /\ k \in Nat
    BY <1>1
  <2>2. << j, k >> \in Nat \X Nat
    BY <2>1
  <2>3. j < k => << j, k >> \in less
    BY <1>2, <2>2
  <2> QED
    BY <1>4, <2>1, <2>3
<1>6. \E r \in rows : \A s \in rows : r.key <= s.key
  BY <1>4, <1>5
<1> QED
  BY <1>6 DEF First, Later

-----------------------------------------------------------------------------
(* Recordsets of PostgreSQL.                                               *)

\* A recordset that is opened outside of a transaction begins its own.
LEMMA RsBegins ==
  ASSUME NEW c \in Connection, Settled(c), c.server # "open", ~c.open
  PROVE  LET b == PgRsBegin(c)
         IN  /\ b \in Connection
             /\ Settled(b)
             /\ EndsIt(b)
             /\ ~b.open
             /\ b.rest = c.rest
             /\ StaysGone(c, b)
             /\ b.pending \in {c.pending, NothingPending}
             /\ b.server = "open" => b.pending = NothingPending /\ b.flag
<1> DEFINE b0 == IF c.flag THEN c ELSE BeginAtServer(c)
           b  == PgRsBegin(c)
<1>1. /\ b0 \in Connection
      /\ SameCursor(c, b0)
      /\ b0.pending \in {c.pending, NothingPending}
      /\ b0.server = "open" => /\ b0.pending = NothingPending
                               /\ b0.flag
                               /\ ~c.flag
      /\ b0.server # "open" => b0 = c
      /\ StaysGone(c, b0)
  <2>1. CASE c.flag
    BY <2>1 DEF SameCursor, StaysGone
  <2>2. CASE ~c.flag
    BY <2>2, BeginOpens DEF StaysGone
  <2> QED
    BY <2>1, <2>2
<1>2. b = [b0 EXCEPT !.outer = c.flag]
  BY DEF PgRsBegin
<1>3. c.flag \in BOOLEAN
  BY ConnectionFields
<1> HIDE DEF b0, b
<1>4. /\ b \in Connection
      /\ b.outer = c.flag
      /\ b.open = b0.open
      /\ b.rest = b0.rest
      /\ b.flag = b0.flag
      /\ b.server = b0.server
      /\ b.pending = b0.pending
  BY <1>1, <1>2, <1>3 DEF Connection
<1>5. Settled(b) /\ EndsIt(b)
  <2>1. CASE b0.server = "open"
    BY <1>1, <1>4, <2>1 DEF Settled, EndsIt
  <2>2. CASE b0.server # "open"
    BY <1>1, <1>4, <2>2 DEF Settled, EndsIt
  <2> QED
    BY <2>1, <2>2
<1>6. ~b.open /\ b.rest = c.rest /\ StaysGone(c, b)
  BY <1>1, <1>4 DEF SameCursor, StaysGone
<1> QED
  BY <1>1, <1>4, <1>5, <1>6 DEF b

\* The row that is shown, and the rows that are left, are rows found.
Found(c, t, ks) ==
  /\ c.field \in Row
  /\ c.field.key \in ks
  /\ t[c.field.key] # Absent
  /\ \A r \in c.rest : t[r.key] # Absent

(***************************************************************************)
(* The outcomes of opening a recordset that began a transaction, or could  *)
(* not: with a row it is open in its own transaction, and without one      *)
(* there is neither a recordset nor a transaction that goes on.            *)
(***************************************************************************)
Opened(t, ks, e) ==
  /\ e \in Outcomes
  /\ Settled(e.conn)
  /\ e.table = t
  /\ e.ok => /\ e.conn.open
             /\ ~e.conn.outer
             /\ e.conn.server = "open"
             /\ e.conn.pending = NothingPending
             /\ Found(e.conn, t, ks)
  /\ ~e.ok => ~e.conn.open /\ e.conn.server # "open"

\* The connection with the rows that a cursor has found.
Showing(c, rows) ==
  [c EXCEPT !.open = TRUE, !.bound = TRUE, !.live = TRUE,
            !.field = First(rows), !.rest = Later(rows)]

\* The declaration fails, is unfit, or fails to fetch a row, or shows it.
LEMMA DeclareKinds ==
  ASSUME NEW c, NEW t, NEW ks, NEW e \in PgDeclare(c, t, ks)
  PROVE  \/ e \in Failures(c, t)
         \/ c.server # "open" /\ e = Outcome(FALSE, c, t)
         \/ /\ c.server = "open"
            /\ \E f \in Failures(c, t) \cup {Outcome(FALSE, c, t)} :
                 \E d \in PgRsCommit(f.conn, f.table) : e = [d EXCEPT !.ok = FALSE]
         \/ /\ c.server = "open"
            /\ Rows(c, t, ks) # {}
            /\ e = Outcome(TRUE, Showing(c, Rows(c, t, ks)), t)
<1> DEFINE rows  == Rows(c, t, ks)
           plain == Outcome(FALSE, c, t)
           found == [c EXCEPT !.open = TRUE, !.bound = TRUE, !.live = TRUE,
                              !.field = First(rows), !.rest = Later(rows)]
<1>1. found = Showing(c, rows)
  BY DEF Showing
<1>2. \/ e \in Failures(c, t)
      \/ c.server # "open" /\ e = plain
      \/ /\ c.server = "open"
         /\ \E f \in Failures(c, t) \cup {plain} :
              \E d \in PgRsCommit(f.conn, f.table) : e = [d EXCEPT !.ok = FALSE]
      \/ c.server = "open" /\ rows # {} /\ e = Outcome(TRUE, found, t)
  <2> DEFINE empty == IF rows = {} THEN {plain} ELSE {}
             ends  == UNION {PgRsCommit(f.conn, f.table) :
                               f \in Failures(c, t) \cup empty}
  <2>1. CASE c.server # "open"
    <3>1. e \in Failures(c, t) \cup {plain}
      BY <2>1 DEF PgDeclare
    <3> QED
      BY <2>1, <3>1
  <2>2. CASE c.server = "open"
    <3>1. e \in Failures(c, t) \cup
                ({[d EXCEPT !.ok = FALSE] : d \in ends}
                   \cup IF rows = {} THEN {} ELSE {Outcome(TRUE, found, t)})
      BY <2>2 DEF PgDeclare
    <3> HIDE DEF ends, found, rows, plain
    <3>2. CASE e \in {[d EXCEPT !.ok = FALSE] : d \in ends}
      <4>1. PICK d \in ends : e = [d EXCEPT !.ok = FALSE]
        BY <3>2
      <4>2. PICK f \in Failures(c, t) \cup empty : d \in PgRsCommit(f.conn, f.table)
        BY DEF ends
      <4> QED
        BY <2>2, <4>1, <4>2
    <3> QED
      BY <2>2, <3>1, <3>2
  <2> QED
    BY <2>1, <2>2
<1> QED
  BY <1>1, <1>2

\* Showing rows changes nothing at the server.
LEMMA ShowingRows ==
  ASSUME NEW c \in Connection, NEW rows \in SUBSET Row, rows # {}
  PROVE  LET d == Showing(c, rows)
         IN  /\ d \in Connection
             /\ d.open
             /\ d.field \in rows
             /\ d.rest \subseteq rows
             /\ d.server = c.server
             /\ d.flag = c.flag
             /\ d.outer = c.outer
             /\ d.pending = c.pending
<1>1. First(rows) \in rows /\ Later(rows) \subseteq rows
  BY FirstIsThere
<1>2. First(rows) \in Row /\ Later(rows) \subseteq Row
  BY <1>1
<1> QED
  BY <1>1, <1>2 DEF Showing, Connection

\* Declaring the cursor and fetching the first row.
LEMMA DeclareOpens ==
  ASSUME NEW c \in Connection, NEW t \in Table, NEW ks, Settled(c), EndsIt(c),
         ~c.open, c.server = "open" => c.pending = NothingPending,
         NEW e \in PgDeclare(c, t, ks)
  PROVE  /\ Opened(t, ks, e)
         /\ StaysGone(c, e.conn)
         /\ e.conn.pending \in {c.pending, NothingPending}
         /\ ~e.ok => e.conn.rest = c.rest
<1> DEFINE rows  == Rows(c, t, ks)
           found == Showing(c, rows)
           plain == Outcome(FALSE, c, t)
<1>1. \/ e \in Failures(c, t)
      \/ c.server # "open" /\ e = plain
      \/ /\ c.server = "open"
         /\ \E f \in Failures(c, t) \cup {plain} :
              \E d \in PgRsCommit(f.conn, f.table) : e = [d EXCEPT !.ok = FALSE]
      \/ c.server = "open" /\ rows # {} /\ e = Outcome(TRUE, found, t)
  BY DeclareKinds
<1>2. plain \in Outcomes /\ ~plain.ok /\ plain.conn = c /\ plain.table = t
  BY DEF Outcome, Outcomes
<1>3. rows \subseteq Row /\ \A r \in rows : /\ r.key \in ks
                                            /\ r.key \in Ids
                                            /\ Seen(c, t)[r.key] # Absent
  BY RowsFound
<1> HIDE DEF plain, rows
<1>4. CASE e \in Failures(c, t)
  <2>1. Failed(c, t, e) /\ Settled(e.conn)
    BY <1>4, FailuresFail, FailedSettled
  <2> QED
    BY <2>1 DEF Failed, Opened, SameCursor
<1>5. CASE c.server # "open" /\ e = plain
  BY <1>2, <1>5 DEF Opened, StaysGone
<1>6. ASSUME NEW f \in Failures(c, t) \cup {plain},
             NEW d \in PgRsCommit(f.conn, f.table),
             e = [d EXCEPT !.ok = FALSE], c.server = "open"
      PROVE  /\ Opened(t, ks, e)
             /\ StaysGone(c, e.conn)
             /\ e.conn.pending \in {c.pending, NothingPending}
             /\ e.conn.rest = c.rest
  <2>1. /\ f.conn \in Connection
        /\ f.table = t
        /\ Settled(f.conn)
        /\ EndsIt(f.conn)
        /\ SameCursor(c, f.conn)
        /\ f.conn.pending = NothingPending
        /\ StaysGone(c, f.conn)
    <3>1. CASE f = plain
      BY <1>2, <1>6, <3>1 DEF SameCursor, StaysGone
    <3>2. CASE f \in Failures(c, t)
      <4>1. Failed(c, t, f) /\ Settled(f.conn)
        BY <3>2, FailuresFail, FailedSettled
      <4> QED
        BY <1>6, <4>1 DEF Failed, Outcomes, EndsIt
    <3> QED
      BY <3>1, <3>2
  <2>2. /\ d \in Outcomes
        /\ Settled(d.conn)
        /\ SameCursor(f.conn, d.conn)
        /\ d.conn.server # "open"
        /\ StaysGone(f.conn, d.conn)
        /\ Written(f.conn, f.table, d)
    BY <2>1, RsCommitEnds
  <2>3. d.table = t /\ d.conn.pending = NothingPending
    BY <2>1, <2>2, OverNothing DEF Written
  <2>4. /\ e \in Outcomes
        /\ ~e.ok
        /\ e.conn = d.conn
        /\ e.table = d.table
    BY <1>6, <2>2 DEF Outcomes
  <2> QED
    BY <2>1, <2>2, <2>3, <2>4 DEF Opened, SameCursor, StaysGone
<1>7. CASE c.server = "open" /\ rows # {} /\ e = Outcome(TRUE, found, t)
  <2>1. Seen(c, t) = t
    BY <1>7, OverNothing DEF Seen
  <2>2. /\ found \in Connection
        /\ found.open
        /\ found.field \in rows
        /\ found.rest \subseteq rows
        /\ found.server = c.server
        /\ found.flag = c.flag
        /\ found.outer = c.outer
        /\ found.pending = c.pending
    BY <1>3, <1>7, ShowingRows
  <2> HIDE DEF found
  <2>3. e \in Outcomes /\ e.ok /\ e.conn = found /\ e.table = t
    BY <1>7, <2>2 DEF Outcome, Outcomes
  <2>4. Settled(found) /\ Found(found, t, ks) /\ ~found.outer
    BY <1>3, <1>7, <2>1, <2>2 DEF Settled, Found, EndsIt
  <2> QED
    BY <1>7, <2>2, <2>3, <2>4 DEF Opened, StaysGone
<1> QED
  BY <1>1, <1>4, <1>5, <1>6, <1>7

(***************************************************************************)
(* Opening a recordset ends the transaction of the one before it, and what *)
(* was pending in that is in the table then.                               *)
(***************************************************************************)
LEMMA PgOpenOpens ==
  ASSUME NEW c \in Connection, NEW t \in Table, NEW ks,
         Settled(c), OwnTransaction(c), NEW e \in PgOpen(c, t, ks)
  PROVE  /\ Opened(e.table, ks, e)
         /\ StaysGone(c, e.conn)
         /\ Written(c, t, e)
         /\ AllWritten(c, t, e)
         /\ e.conn.rest \subseteq c.rest \/ e.ok
<1>1. PICK d \in PgClose(c, t) : e \in PgDeclare(PgRsBegin(d.conn), d.table, ks)
  BY DEF PgOpen
<1>2. /\ d \in Outcomes
      /\ Settled(d.conn)
      /\ ~d.conn.open
      /\ d.conn.rest \subseteq c.rest
      /\ d.conn.server # "open"
      /\ StaysGone(c, d.conn)
      /\ Written(c, t, d)
      /\ AllWritten(c, t, d)
  BY CloseEnds
<1>3. d.conn \in Connection /\ d.table \in Table
  BY <1>2 DEF Outcomes
<1> DEFINE b == PgRsBegin(d.conn)
<1>4. /\ b \in Connection
      /\ Settled(b)
      /\ EndsIt(b)
      /\ ~b.open
      /\ b.rest = d.conn.rest
      /\ StaysGone(d.conn, b)
      /\ b.pending \in {d.conn.pending, NothingPending}
      /\ b.server = "open" => b.pending = NothingPending /\ b.flag
  BY <1>2, <1>3, RsBegins
<1>5. e \in PgDeclare(b, d.table, ks)
  BY <1>1
<1> HIDE DEF b
<1>6. /\ Opened(d.table, ks, e)
      /\ StaysGone(b, e.conn)
      /\ e.conn.pending \in {b.pending, NothingPending}
      /\ ~e.ok => e.conn.rest = b.rest
  BY <1>3, <1>4, <1>5, DeclareOpens
<1>7. e.table = d.table
  BY <1>6 DEF Opened
<1> QED
  BY <1>2, <1>4, <1>6, <1>7 DEF StaysGone, Written, AllWritten

(***************************************************************************)
(* The next row of an open recordset is one of those left; with none the   *)
(* recordset and its transaction are over.                                 *)
(***************************************************************************)
LEMMA PgNextFetches ==
  ASSUME NEW c \in Connection, NEW t \in Table, Settled(c), OwnTransaction(c),
         c.open, NEW e \in PgNext(c, t)
  PROVE  /\ e \in Outcomes
         /\ Settled(e.conn)
         /\ OwnTransaction(e.conn)
         /\ StaysGone(c, e.conn)
         /\ Written(c, t, e)
         /\ e.conn.rest \subseteq c.rest
         /\ e.ok => e.conn.field \in c.rest
         /\ ~e.ok => ~e.conn.open /\ e.conn.server # "open"
<1> DEFINE plain == Outcome(FALSE, c, t)
           dead  == Outcome(FALSE, Refused(c), t)
           later == [c EXCEPT !.field = First(c.rest), !.rest = Later(c.rest)]
<1>1. \/ \E f \in Failures(c, t) \cup {plain, dead} :
           \E d \in PgClose(f.conn, f.table) : e = [d EXCEPT !.ok = FALSE]
      \/ c.rest # {} /\ e = Outcome(TRUE, later, t)
  <2> DEFINE ended == Failures(c, t) \cup
               CASE ~c.live -> {dead}
                 [] c.rest = {} -> {plain}
                 [] OTHER -> {}
             ends  == UNION {PgClose(f.conn, f.table) : f \in ended}
  <2>1. \/ e \in {[d EXCEPT !.ok = FALSE] : d \in ends}
        \/ c.rest # {} /\ e = Outcome(TRUE, later, t)
    BY DEF PgNext
  <2> HIDE DEF ends, later
  <2>2. CASE e \in {[d EXCEPT !.ok = FALSE] : d \in ends}
    <3>1. PICK d \in ends : e = [d EXCEPT !.ok = FALSE]
      BY <2>2
    <3>2. PICK f \in ended : d \in PgClose(f.conn, f.table)
      BY DEF ends
    <3> HIDE DEF dead, plain
    <3>3. f \in Failures(c, t) \cup {plain, dead}
      OBVIOUS
    <3> QED
      BY <3>1, <3>2, <3>3
  <2> QED
    BY <2>1, <2>2
<1>2. plain \in Outcomes /\ plain.conn = c /\ plain.table = t
  BY DEF Outcome, Outcomes
<1>3. Failed(c, t, dead)
  BY RefusedFails
<1> HIDE DEF plain, dead
<1>4. ASSUME NEW f \in Failures(c, t) \cup {plain, dead},
             NEW d \in PgClose(f.conn, f.table), e = [d EXCEPT !.ok = FALSE]
      PROVE  /\ e \in Outcomes
             /\ ~e.ok
             /\ Settled(e.conn)
             /\ ~e.conn.open
             /\ e.conn.server # "open"
             /\ StaysGone(c, e.conn)
             /\ Written(c, t, e)
             /\ e.conn.rest \subseteq c.rest
  <2>1. /\ f.conn \in Connection
        /\ f.table = t
        /\ Settled(f.conn)
        /\ SameCursor(c, f.conn)
        /\ f.conn.server = "open" => f.conn = c
        /\ f.conn.pending \in {c.pending, NothingPending}
        /\ StaysGone(c, f.conn)
    <3>1. CASE f = plain
      BY <1>2, <3>1 DEF SameCursor, StaysGone
    <3>2. CASE f # plain
      <4>1. Failed(c, t, f) /\ Settled(f.conn)
        BY <1>3, <3>2, FailuresFail, FailedSettled
      <4> QED
        BY <4>1 DEF Failed, Outcomes
    <3> QED
      BY <3>1, <3>2
  <2>2. OwnTransaction(f.conn)
    BY <2>1 DEF OwnTransaction
  <2>3. /\ d \in Outcomes
        /\ Settled(d.conn)
        /\ ~d.conn.open
        /\ d.conn.rest \subseteq f.conn.rest
        /\ d.conn.server # "open"
        /\ StaysGone(f.conn, d.conn)
        /\ Written(f.conn, f.table, d)
    BY <2>1, <2>2, CloseEnds
  <2>4. /\ e \in Outcomes
        /\ ~e.ok
        /\ e.conn = d.conn
        /\ e.table = d.table
    BY <1>4, <2>3 DEF Outcomes
  <2>5. Written(c, t, d)
    BY <2>1, <2>3 DEF Written
  <2> QED
    BY <2>1, <2>3, <2>4, <2>5 DEF SameCursor, StaysGone, Written
<1>5. CASE c.rest # {} /\ e = Outcome(TRUE, later, t)
  <2>1. c.rest \subseteq Row
    BY ConnectionFields
  <2>2. /\ First(c.rest) \in c.rest
        /\ Later(c.rest) \subseteq c.rest
    BY <1>5, <2>1, FirstIsThere
  <2>3. /\ later \in Connection
        /\ later.field = First(c.rest)
        /\ later.rest = Later(c.rest)
        /\ later.open = c.open
        /\ later.server = c.server
        /\ later.flag = c.flag
        /\ later.outer = c.outer
        /\ later.pending = c.pending
    BY <2>1, <2>2 DEF Connection
  <2> HIDE DEF later
  <2>4. e \in Outcomes /\ e.ok /\ e.conn = later /\ e.table = t
    BY <1>5, <2>3 DEF Outcome, Outcomes
  <2> QED
    BY <2>2, <2>3, <2>4 DEF Settled, OwnTransaction, StaysGone, Written
<1> QED
  BY <1>1, <1>4, <1>5 DEF OwnTransaction

-----------------------------------------------------------------------------
(* Statements.                                                             *)

\* What a statement that writes w leaves, in a transaction or on its own.
Ran(c, t, w, e) ==
  /\ e \in Outcomes
  /\ Settled(e.conn)
  /\ SameCursor(c, e.conn)
  /\ StaysGone(c, e.conn)
  /\ e.conn.server = "open" => c.server = "open"
  /\ \/ e.table = t
     \/ c.server = "idle" /\ e.table = Over(w, t)
  /\ \/ e.conn.pending \in {c.pending, NothingPending}
     \/ c.server = "open" /\ e.conn.pending = Over(w, c.pending)
  /\ (e.ok /\ "commit" \notin Faults) =>
       \/ e.table = Over(w, t)
       \/ e.conn.server = "open" /\ e.conn.pending = Over(w, c.pending)

\* The server runs a statement, in a transaction if there is one.
LEMMA RunRuns ==
  ASSUME NEW c \in Connection, NEW t \in Table, NEW w \in Write, Settled(c),
         NEW e \in Run(c, t, w)
  PROVE  /\ Ran(c, t, w, e)
         /\ e.conn.flag = c.flag
         /\ ~e.ok => /\ e.conn.server # "open"
                     /\ e.table = t
                     /\ e.conn.pending \in {c.pending, NothingPending}
         /\ e.ok => /\ e.conn.server = c.server
                    /\ c.server \in {"open", "idle"}
         /\ (e.ok /\ c.server = "open") =>
              e.table = t /\ e.conn.pending = Over(w, c.pending)
<1>1. CASE e \in Failures(c, t)
  <2>1. Failed(c, t, e) /\ Settled(e.conn)
    BY <1>1, FailuresFail, FailedSettled
  <2> QED
    BY <2>1 DEF Failed, Ran
<1>2. CASE c.server = "open" /\ e \notin Failures(c, t)
  <2> DEFINE d == [c EXCEPT !.pending = Over(w, @)]
  <2>1. e = Outcome(TRUE, d, t)
    BY <1>2 DEF Run
  <2>2. Over(w, c.pending) \in Write
    BY ConnectionFields, OverType
  <2>3. /\ d \in Connection
        /\ SameCursor(c, d)
        /\ d.flag = c.flag
        /\ d.server = c.server
        /\ d.pending = Over(w, c.pending)
    BY <2>2 DEF Connection, SameCursor
  <2> HIDE DEF d
  <2>4. e \in Outcomes /\ e.ok /\ e.conn = d /\ e.table = t
    BY <2>1, <2>3 DEF Outcome, Outcomes
  <2>5. Settled(d)
    BY <1>2, <2>3 DEF Settled, SameCursor
  <2> QED
    BY <1>2, <2>3, <2>4, <2>5 DEF Ran, StaysGone
<1>3. CASE c.server = "idle" /\ e \notin Failures(c, t)
  <2>1. e = Outcome(TRUE, c, Over(w, t))
    BY <1>3 DEF Run
  <2>2. Over(w, t) \in Table
    BY OverType
  <2>3. e \in Outcomes /\ e.ok /\ e.conn = c /\ e.table = Over(w, t)
    BY <2>1, <2>2 DEF Outcome, Outcomes
  <2> QED
    BY <1>3, <2>3 DEF Ran, StaysGone, SameCursor
<1>4. CASE c.server \notin {"open", "idle"} /\ e \notin Failures(c, t)
  BY <1>4 DEF Run
<1> QED
  BY <1>1, <1>2, <1>3, <1>4

\* A command of PostgreSQL: begin and commit around the statement, if needed.
LEMMA PgCommandRuns ==
  ASSUME NEW c \in Connection, NEW t \in Table, NEW w \in Write, Settled(c),
         NEW e \in PgCommand(c, t, w)
  PROVE  Ran(c, t, w, e)
<1> DEFINE b == IF c.flag THEN c ELSE BeginAtServer(c)
<1>1. PICK r \in Run(b, t, w) :
        e \in IF r.ok /\ ~c.flag
                THEN {Outcome(TRUE, x.conn, x.table) :
                        x \in PgCmdCommit(r.conn, r.table)}
                ELSE {r}
  BY DEF PgCommand
<1>2. CASE c.flag
  <2>1. e = r /\ b = c
    BY <1>1, <1>2
  <2> QED
    BY <2>1, RunRuns
<1>3. CASE ~c.flag
  <2>1. /\ b \in Connection
        /\ SameCursor(c, b)
        /\ b.pending = NothingPending
        /\ \/ b = c /\ c.server = "gone"
           \/ b.server = "open" /\ b.flag /\ c.server = "idle"
    BY <1>3, BeginOpens
  <2>2. c.server # "open" /\ c.pending = NothingPending
    BY <2>1 DEF Settled
  <2>3. r \in Run(b, t, w)
    OBVIOUS
  <2> HIDE DEF b
  <2>4. CASE b = c /\ c.server = "gone"
    <3>1. /\ Ran(c, t, w, r)
          /\ ~r.ok
      BY <2>3, <2>4, RunRuns DEF Ran, Settled
    <3> QED
      BY <1>1, <3>1
  <2>5. CASE b.server = "open" /\ b.flag /\ c.server = "idle"
    <3>1. Settled(b)
      BY <2>1, <2>5 DEF Settled
    <3>2. /\ Ran(b, t, w, r)
          /\ ~r.ok => /\ r.conn.server # "open"
                      /\ r.conn.pending = NothingPending
          /\ r.ok => /\ r.conn.server = "open"
                     /\ r.table = t
                     /\ r.conn.pending = Over(w, b.pending)
      <4>1. /\ Ran(b, t, w, r)
            /\ ~r.ok => /\ r.conn.server # "open"
                        /\ r.conn.pending \in {b.pending, NothingPending}
            /\ r.ok => r.conn.server = b.server
            /\ (r.ok /\ b.server = "open") =>
                 r.table = t /\ r.conn.pending = Over(w, b.pending)
        BY <2>1, <2>3, <3>1, RunRuns
      <4> QED
        BY <2>1, <2>5, <4>1
    <3>3. CASE ~r.ok
      <4>1. e = r
        BY <1>1, <3>3
      <4>2. r.table = t
        BY <2>5, <3>2 DEF Ran
      <4> QED
        BY <2>1, <2>2, <2>5, <3>2, <3>3, <4>1, <4>2
           DEF Ran, SameCursor, StaysGone
    <3>4. CASE r.ok
      <4>1. PICK x \in PgCmdCommit(r.conn, r.table) :
              e = Outcome(TRUE, x.conn, x.table)
        BY <1>1, <1>3, <3>4
      <4>2. Over(w, b.pending) = w
        BY <2>1, OverNothing
      <4>3. r.conn \in Connection /\ r.table \in Table /\ Settled(r.conn)
        BY <3>2 DEF Ran, Outcomes
      <4>4. /\ x \in Outcomes
            /\ Settled(x.conn)
            /\ SameCursor(r.conn, x.conn)
            /\ x.conn.server \in {"idle", "gone"}
            /\ Written(r.conn, r.table, x)
            /\ AllWritten(r.conn, r.table, x)
        BY <4>3, CmdCommitEnds
      <4>5. e \in Outcomes /\ e.conn = x.conn /\ e.table = x.table
        BY <4>1, <4>4 DEF Outcome, Outcomes
      <4>6. /\ e.table = t \/ e.table = Over(w, t)
            /\ "commit" \notin Faults => e.table = Over(w, t)
        BY <3>2, <3>4, <4>2, <4>4, <4>5 DEF Written, AllWritten
      <4>7. e.conn.pending = NothingPending
        BY <4>4, <4>5 DEF Settled
      <4> QED
        BY <2>1, <2>5, <3>2, <4>4, <4>5, <4>6, <4>7
           DEF Ran, SameCursor, StaysGone
    <3> QED
      BY <3>3, <3>4
  <2> QED
    BY <2>1, <2>4, <2>5
<1> QED
  BY <1>2, <1>3

-----------------------------------------------------------------------------
(* The key of a row just inserted.                                         *)

\* A cursor declared in a transaction of somebody else leaves it alone.
LEMMA DeclareInside ==
  ASSUME NEW c \in Connection, NEW t \in Table, NEW ks,
         c.server = "open", c.flag, c.outer, NEW e \in PgDeclare(c, t, ks)
  PROVE  /\ e \in Outcomes
         /\ e.table = t
         /\ e.conn.flag /\ e.conn.outer
         /\ e.conn.server \in {"open", "aborted", "gone"}
         /\ e.conn.server = "gone" => e.conn.pending = NothingPending
         /\ e.conn.pending \in {c.pending, NothingPending}
<1> DEFINE rows  == Rows(c, t, ks)
           found == Showing(c, rows)
           plain == Outcome(FALSE, c, t)
<1>1. \/ e \in Failures(c, t)
      \/ c.server # "open" /\ e = plain
      \/ /\ c.server = "open"
         /\ \E f \in Failures(c, t) \cup {plain} :
              \E d \in PgRsCommit(f.conn, f.table) : e = [d EXCEPT !.ok = FALSE]
      \/ c.server = "open" /\ rows # {} /\ e = Outcome(TRUE, found, t)
  BY DeclareKinds
<1>2. plain \in Outcomes /\ plain.conn = c /\ plain.table = t
  BY DEF Outcome, Outcomes
<1>3. rows \subseteq Row
  BY RowsFound
<1> HIDE DEF plain, rows
<1>4. ASSUME NEW f \in Failures(c, t)
      PROVE  /\ f \in Outcomes
             /\ f.table = t
             /\ f.conn.flag /\ f.conn.outer
             /\ f.conn.server \in {"aborted", "gone"}
             /\ f.conn.server = "gone" => f.conn.pending = NothingPending
             /\ f.conn.pending \in {c.pending, NothingPending}
  <2>1. Failed(c, t, f)
    BY FailuresFail
  <2>2. f.conn \in Connection
    BY <2>1 DEF Failed, Outcomes
  <2>3. f.conn.server \in {"idle", "open", "aborted", "gone"}
    BY <2>2, ConnectionFields
  <2> QED
    BY <2>1, <2>3 DEF Failed, SameCursor
<1>5. ASSUME NEW f \in Failures(c, t) \cup {plain},
             NEW d \in PgRsCommit(f.conn, f.table), e = [d EXCEPT !.ok = FALSE]
      PROVE  e \in Outcomes /\ e.conn = f.conn /\ e.table = t
  <2>1. f \in Outcomes /\ f.conn.outer /\ f.table = t
    BY <1>2, <1>4
  <2>2. d = Outcome(TRUE, f.conn, t)
    BY <2>1 DEF PgRsCommit
  <2> QED
    BY <1>5, <2>1, <2>2 DEF Outcome, Outcomes
<1>6. CASE e \in Failures(c, t)
  BY <1>4, <1>6
<1>7. CASE \E f \in Failures(c, t) \cup {plain} :
             \E d \in PgRsCommit(f.conn, f.table) : e = [d EXCEPT !.ok = FALSE]
  <2>1. PICK f \in Failures(c, t) \cup {plain} :
          e \in Outcomes /\ e.conn = f.conn /\ e.table = t
    BY <1>5, <1>7
  <2>2. CASE f = plain
    BY <1>2, <2>1, <2>2
  <2>3. CASE f \in Failures(c, t)
    BY <1>4, <2>1, <2>3
  <2> QED
    BY <2>2, <2>3
<1>8. CASE rows # {} /\ e = Outcome(TRUE, found, t)
  <2>1. rows \in SUBSET Row /\ rows # {}
    BY <1>3, <1>8
  <2>2. /\ found \in Connection
        /\ found.open
        /\ found.field \in rows
        /\ found.rest \subseteq rows
        /\ found.server = c.server
        /\ found.flag = c.flag
        /\ found.outer = c.outer
        /\ found.pending = c.pending
    BY <2>1, ShowingRows
  <2> HIDE DEF found
  <2>3. e \in Outcomes /\ e.conn = found /\ e.table = t
    BY <1>8, <2>2 DEF Outcome, Outcomes
  <2> QED
    BY <2>2, <2>3
<1> QED
  BY <1>1, <1>6, <1>7, <1>8

\* A recordset that is closed in a transaction of somebody else leaves it, too.
LEMMA CloseInside ==
  ASSUME NEW c \in Connection, NEW t \in Table, c.outer, NEW e \in PgClose(c, t)
  PROVE  /\ e \in Outcomes
         /\ e.table = t
         /\ e.conn.flag = c.flag
         /\ e.conn.server = c.server
         /\ e.conn.pending = c.pending
<1> DEFINE plain == Outcome(TRUE, c, t)
<1>1. PgRsCommit(c, t) = {plain}
  BY DEF PgRsCommit
<1>2. plain \in Outcomes /\ plain.conn = c /\ plain.table = t
  BY DEF Outcome, Outcomes
<1>3. \/ e = plain
      \/ e = [plain EXCEPT !.conn.open = FALSE, !.conn.bound = FALSE,
                           !.conn.rest = {}, !.conn.field = NoRow]
  BY <1>1 DEF PgClose
<1> HIDE DEF plain
<1>4. CASE e = plain
  BY <1>2, <1>4
<1>5. CASE e = [plain EXCEPT !.conn.open = FALSE, !.conn.bound = FALSE,
                             !.conn.rest = {}, !.conn.field = NoRow]
  BY <1>2, <1>5 DEF Outcomes, Connection
<1> QED
  BY <1>3, <1>4, <1>5

\* Looking the key up changes no table, and leaves the recordset as it is.
LEMMA ResultKeyLooks ==
  ASSUME NEW c \in Connection, NEW t \in Table, NEW k,
         Settled(c), OwnTransaction(c), NEW e \in PgResultKey(c, t, k)
  PROVE  /\ e \in Outcomes
         /\ e.table = t
         /\ Settled(e.conn)
         /\ OwnTransaction(e.conn)
         /\ SameCursor(c, e.conn)
         /\ StaysGone(c, e.conn)
         /\ e.conn.pending \in {c.pending, NothingPending}
<1> DEFINE other == [c EXCEPT !.open = FALSE, !.outer = FALSE, !.rest = {},
                              !.bound = FALSE, !.field = NoRow]
           back(d) == [d EXCEPT !.open = c.open, !.outer = c.outer,
                         !.rest = c.rest, !.bound = c.bound, !.field = c.field,
                         !.live = c.live /\ d.server = "open"]
<1>1. PICK o \in PgOpen(other, t, {k}) :
        \E x \in PgClose(o.conn, o.table) :
          e = Outcome(o.ok, back(x.conn), x.table)
  BY DEF PgResultKey
<1>2. PICK x \in PgClose(o.conn, o.table) :
        e = Outcome(o.ok, back(x.conn), x.table)
  BY <1>1
<1>3. /\ other \in Connection
      /\ ~other.open /\ ~other.outer
      /\ other.flag = c.flag
      /\ other.server = c.server
      /\ other.pending = c.pending
  BY DEF Connection
<1>4. o \in PgOpen(other, t, {k})
  OBVIOUS
<1> HIDE DEF other
<1>5. Settled(other)
  BY <1>3 DEF Settled
<1>6. /\ o.ok \in BOOLEAN
      /\ x \in Outcomes
      /\ x.table = t
      /\ Settled(x.conn)
      /\ x.conn.server = "open" => c.server = "open"
      /\ StaysGone(c, x.conn)
      /\ x.conn.pending \in {c.pending, NothingPending}
  <2>1. CASE c.server # "open"
    <3>1. OwnTransaction(other)
      BY <1>3, <2>1 DEF OwnTransaction
    <3>2. /\ Opened(o.table, {k}, o)
          /\ StaysGone(other, o.conn)
          /\ Written(other, t, o)
      BY <1>3, <1>4, <1>5, <3>1, PgOpenOpens
    <3>3. o.table = t
      BY <1>3, <2>1, <3>2 DEF Written
    <3>4. /\ o.conn \in Connection
          /\ o.ok \in BOOLEAN
          /\ Settled(o.conn)
          /\ OwnTransaction(o.conn)
          /\ o.conn.server = "open" => o.conn.pending = NothingPending
      BY <3>2 DEF Opened, Outcomes, OwnTransaction
    <3>5. /\ x \in Outcomes
          /\ Settled(x.conn)
          /\ x.conn.server # "open"
          /\ StaysGone(o.conn, x.conn)
          /\ Written(o.conn, t, x)
      BY <3>3, <3>4, CloseEnds
    <3>6. x.table = t
      BY <3>4, <3>5, OverNothing DEF Written
    <3> QED
      BY <1>3, <3>2, <3>4, <3>5, <3>6 DEF StaysGone, Written
  <2>2. CASE c.server = "open"
    <3>1. PICK d \in PgClose(other, t) :
            o \in PgDeclare(PgRsBegin(d.conn), d.table, {k})
      BY <1>4 DEF PgOpen
    <3>2. d.conn = other /\ d.table = t
      <4>1. PgClose(other, t) = {Outcome(TRUE, other, t)}
        BY <1>3 DEF PgClose
      <4>2. d = Outcome(TRUE, other, t)
        BY <4>1
      <4> QED
        BY <4>2 DEF Outcome
    <3> DEFINE b == PgRsBegin(other)
    <3>3. c.flag
      BY <2>2 DEF Settled
    <3>4. b = [other EXCEPT !.outer = TRUE]
      BY <1>3, <3>3 DEF PgRsBegin
    <3>5. /\ b \in Connection
          /\ b.server = "open"
          /\ b.flag /\ b.outer
          /\ b.pending = c.pending
      BY <1>3, <2>2, <3>3, <3>4 DEF Connection
    <3>6. o \in PgDeclare(b, t, {k})
      BY <3>1, <3>2
    <3> HIDE DEF b
    <3>7. /\ o \in Outcomes
          /\ o.table = t
          /\ o.conn.flag /\ o.conn.outer
          /\ o.conn.server \in {"open", "aborted", "gone"}
          /\ o.conn.server = "gone" => o.conn.pending = NothingPending
          /\ o.conn.pending \in {b.pending, NothingPending}
      BY <3>5, <3>6, DeclareInside
    <3>8. o.conn \in Connection /\ o.ok \in BOOLEAN
      BY <3>7 DEF Outcomes
    <3>9. /\ x \in Outcomes
          /\ x.table = t
          /\ x.conn.flag = o.conn.flag
          /\ x.conn.server = o.conn.server
          /\ x.conn.pending = o.conn.pending
      BY ZenonT(40), <3>7, <3>8, CloseInside
    <3> QED
      BY <2>2, <3>5, <3>7, <3>8, <3>9 DEF Settled, StaysGone
  <2> QED
    BY <2>1, <2>2
<1>7. x.conn \in Connection
  BY <1>6 DEF Outcomes
<1> DEFINE d     == back(x.conn)
           alive == c.live /\ x.conn.server = "open"
<1>8. /\ d \in Connection
      /\ SameCursor(c, d)
      /\ d.flag = x.conn.flag
      /\ d.server = x.conn.server
      /\ d.pending = x.conn.pending
  <2>1. alive \in BOOLEAN
    OBVIOUS
  <2>2. d = [x.conn EXCEPT !.open = c.open, !.outer = c.outer, !.rest = c.rest,
                           !.bound = c.bound, !.field = c.field, !.live = alive]
    OBVIOUS
  <2> HIDE DEF alive, d
  <2> QED
    BY <1>7, <2>1, <2>2, ConnectionFields DEF Connection, SameCursor
<1>9. e = Outcome(o.ok, d, t)
  BY <1>2, <1>6
<1> HIDE DEF d, back
<1>10. e \in Outcomes /\ e.conn = d /\ e.table = t
  BY <1>6, <1>8, <1>9 DEF Outcome, Outcomes
<1> QED
  BY <1>6, <1>8, <1>10 DEF Settled, OwnTransaction, SameCursor, StaysGone

-----------------------------------------------------------------------------
(* openMyDB.cpp.                                                           *)

\* Outside of transactions there is nothing but the server, or not even that.
NoTransaction(c) ==
  c.server \in {"idle", "gone"} /\ c.pending = NothingPending

\* A result freed changes nothing at the server.
LEMMA MyCloses ==
  ASSUME NEW c \in Connection
  PROVE  LET d == MyClosed(c)
         IN  /\ d \in Connection
             /\ ~d.open
             /\ d.rest = {}
             /\ d.flag = c.flag
             /\ d.server = c.server
             /\ d.pending = c.pending
  BY DEF MyClosed, Connection

\* Failures without a transaction.
LEMMA FailsAlone ==
  ASSUME NEW c \in Connection, NEW t \in Table, NoTransaction(c),
         NEW e, Failed(c, t, e)
  PROVE  NoTransaction(e.conn)
<1>1. e.conn \in Connection
  BY DEF Failed, Outcomes
<1>2. e.conn.server \in {"idle", "open", "aborted", "gone"}
  BY <1>1, ConnectionFields
<1> QED
  BY <1>2 DEF Failed, NoTransaction

\* The outcomes of a query: a row, or no recordset.
LEMMA MyOpenOpens ==
  ASSUME NEW c \in Connection, NEW t \in Table, NEW ks, NoTransaction(c),
         NEW e \in MyOpen(c, t, ks)
  PROVE  /\ e \in Outcomes
         /\ e.table = t
         /\ NoTransaction(e.conn)
         /\ StaysGone(c, e.conn)
         /\ e.ok => e.conn.open /\ Found(e.conn, t, ks)
         /\ ~e.ok => ~e.conn.open /\ e.conn.rest = {}
<1> DEFINE rows  == Rows(c, t, ks)
           found == [c EXCEPT !.open = TRUE, !.bound = TRUE,
                              !.field = First(rows), !.rest = Later(rows)]
           none  == MyClosed(c)
<1>1. /\ none \in Connection
      /\ ~none.open
      /\ none.rest = {}
      /\ none.server = c.server
      /\ none.pending = c.pending
  BY MyCloses
<1>2. \/ e \in Failures(none, t)
      \/ e = Outcome(FALSE, none, t)
      \/ rows # {} /\ e = Outcome(TRUE, found, t)
  BY DEF MyOpen
<1>3. rows \subseteq Row /\ \A r \in rows : /\ r.key \in ks
                                            /\ r.key \in Ids
                                            /\ Seen(c, t)[r.key] # Absent
  BY RowsFound
<1>4. Seen(c, t) = t
  BY OverNothing DEF Seen, NoTransaction
<1> HIDE DEF rows, none
<1>5. NoTransaction(none)
  BY <1>1 DEF NoTransaction
<1>6. CASE e \in Failures(none, t)
  <2>1. Failed(none, t, e)
    BY <1>1, <1>6, FailuresFail
  <2>2. NoTransaction(e.conn)
    BY <1>1, <1>5, <2>1, FailsAlone
  <2> QED
    BY <1>1, <2>1, <2>2 DEF Failed, SameCursor, StaysGone
<1>7. CASE e = Outcome(FALSE, none, t)
  <2>1. e \in Outcomes /\ ~e.ok /\ e.conn = none /\ e.table = t
    BY <1>1, <1>7 DEF Outcome, Outcomes
  <2> QED
    BY <1>1, <1>5, <2>1 DEF StaysGone
<1>8. CASE rows # {} /\ e = Outcome(TRUE, found, t)
  <2>1. First(rows) \in rows /\ Later(rows) \subseteq rows
    BY <1>3, <1>8, FirstIsThere
  <2>2. First(rows) \in Row /\ Later(rows) \subseteq Row
    BY <1>3, <2>1
  <2>3. /\ found \in Connection
        /\ found.open
        /\ found.field = First(rows)
        /\ found.rest = Later(rows)
        /\ found.server = c.server
        /\ found.pending = c.pending
    BY <2>2 DEF Connection
  <2> HIDE DEF found
  <2>4. e \in Outcomes /\ e.ok /\ e.conn = found /\ e.table = t
    BY <1>8, <2>3 DEF Outcome, Outcomes
  <2>5. Found(found, t, ks)
    BY <1>3, <1>4, <2>1, <2>2, <2>3 DEF Found
  <2> QED
    BY <2>3, <2>4, <2>5 DEF NoTransaction, StaysGone
<1> QED
  BY <1>2, <1>6, <1>7, <1>8

\* The next row comes from the result that the client has.
LEMMA MyNextFetches ==
  ASSUME NEW c \in Connection, NEW t \in Table, NoTransaction(c),
         NEW e \in MyNext(c, t)
  PROVE  /\ e \in Outcomes
         /\ e.table = t
         /\ NoTransaction(e.conn)
         /\ StaysGone(c, e.conn)
         /\ e.conn.rest \subseteq c.rest
         /\ e.ok => e.conn.field \in c.rest
         /\ ~e.ok => ~e.conn.open
<1> DEFINE later == [c EXCEPT !.field = First(c.rest), !.rest = Later(c.rest)]
           none  == MyClosed(c)
<1>1. CASE c.rest = {}
  <2>1. e = Outcome(FALSE, none, t)
    BY <1>1 DEF MyNext
  <2>2. /\ none \in Connection
        /\ ~none.open
        /\ none.rest = {}
        /\ none.server = c.server
        /\ none.pending = c.pending
    BY MyCloses
  <2> HIDE DEF none
  <2>3. e \in Outcomes /\ ~e.ok /\ e.conn = none /\ e.table = t
    BY <2>1, <2>2 DEF Outcome, Outcomes
  <2> QED
    BY <2>2, <2>3 DEF NoTransaction, StaysGone
<1>2. CASE c.rest # {}
  <2>1. e = Outcome(TRUE, later, t)
    BY <1>2 DEF MyNext
  <2>2. c.rest \subseteq Row
    BY ConnectionFields
  <2>3. First(c.rest) \in c.rest /\ Later(c.rest) \subseteq c.rest
    BY <1>2, <2>2, FirstIsThere
  <2>4. /\ later \in Connection
        /\ later.field = First(c.rest)
        /\ later.rest = Later(c.rest)
        /\ later.server = c.server
        /\ later.pending = c.pending
    BY <2>2, <2>3 DEF Connection
  <2> HIDE DEF later
  <2>5. e \in Outcomes /\ e.ok /\ e.conn = later /\ e.table = t
    BY <2>1, <2>4 DEF Outcome, Outcomes
  <2> QED
    BY <2>3, <2>4, <2>5 DEF NoTransaction, StaysGone
<1> QED
  BY <1>1, <1>2

-----------------------------------------------------------------------------
(* The invariant of AccessSpec.                                            *)

\* What has been in the table, with what is in t.
Kept(K, t) == K \cup ({t[k] : k \in Ids} \ {Absent})

(***************************************************************************)
(* A row is inserted with its own key for a value, and only a row that has *)
(* been in the table gets another one.                                     *)
(***************************************************************************)
Lawful(w, K) ==
  \A k \in Ids : w[k] \notin {Keep, Absent} => k \in K \/ w[k] = k

\* What is in the table, and the first value of its row, are kept.
TableKept(t, K) == \A k \in Ids : t[k] # Absent => k \in K /\ t[k] \in K

\* A connection between two calls.
Sound(c, K) ==
  /\ Settled(c)
  /\ OwnTransaction(c)
  /\ Lawful(c.pending, K)
  /\ \A r \in c.rest : r.key \in K

(***************************************************************************)
(* An idle object shows the row of its key, and while it has a transaction *)
(* that row is one that has been in the table.                             *)
(***************************************************************************)
Shows(x, c, K) ==
  /\ x.at = "idle" =>
       /\ x.mode = "u"
       /\ (c.open /\ x.key # 0) => c.field.key = x.key
       /\ (c.server = "open" /\ x.key # 0) => x.key \in K
  /\ x.at = "resultKey" => x.saved = 0 /\ x.key # 0 /\ x.mode = "i"

AccessInv ==
  /\ AccessTypeOK
  /\ TableKept(table, kept)
  /\ \A o \in Objects : /\ Sound(conn[o], kept)
                        /\ provider = "MySQL" => NoTransaction(conn[o])
                        /\ Shows(obj[o], conn[o], kept)

\* An outcome that the invariant can go on with.
Good(e) ==
  /\ e \in Outcomes
  /\ Lawful(e.table, kept)
  /\ Sound(e.conn, Kept(kept, e.table))
  /\ provider = "MySQL" => NoTransaction(e.conn)

\* Between calls everything is of its type.
LEMMA AccessParts ==
  ASSUME AccessInv, NEW o \in Objects
  PROVE  /\ conn[o] \in Connection
         /\ obj[o] \in Object
         /\ table \in Table
         /\ kept \subseteq Values
         /\ Settled(conn[o])
         /\ OwnTransaction(conn[o])
         /\ Lawful(conn[o].pending, kept)
         /\ \A r \in conn[o].rest : r.key \in kept
         /\ provider = "MySQL" => NoTransaction(conn[o])
         /\ Shows(obj[o], conn[o], kept)
         /\ provider \in {"PostGresQL", "MySQL"}
  BY AccessAssumption DEF AccessInv, AccessTypeOK, Sound

\* The fields of an object.
LEMMA ObjectFields ==
  ASSUME NEW x \in Object
  PROVE  /\ x.key \in Ids \cup {0}
         /\ x.at \in {"idle", "resultKey", "reread"}
         /\ x.mode \in {"i", "u"}
         /\ x.saved \in Values \cup {0}
  BY DEF Object

\* A lawful table keeps what it has.
LEMMA LawfulKept ==
  ASSUME NEW t \in Table, NEW K, Lawful(t, K)
  PROVE  /\ TableKept(t, Kept(K, t))
         /\ K \subseteq Kept(K, t)
<1>1. ASSUME NEW k \in Ids, t[k] # Absent
      PROVE  k \in Kept(K, t) /\ t[k] \in Kept(K, t)
  <2>1. t[k] \in Kept(K, t)
    BY <1>1 DEF Kept
  <2>2. t[k] # Keep
    BY Marks DEF Table
  <2>3. k \in K \/ t[k] = k
    BY <1>1, <2>2 DEF Lawful
  <2> QED
    BY <2>1, <2>3 DEF Kept
<1> QED
  BY <1>1 DEF TableKept, Kept

\* A table that is kept is lawful, and keeps nothing new.
LEMMA KeptLawful ==
  ASSUME NEW t \in Table, NEW K, TableKept(t, K)
  PROVE  Lawful(t, K) /\ Kept(K, t) = K
<1>1. Lawful(t, K)
  BY DEF TableKept, Lawful
<1>2. \A k \in Ids : t[k] # Absent => t[k] \in K
  BY DEF TableKept
<1> QED
  BY <1>1, <1>2 DEF Kept

\* Lawful writes over lawful writes, or over a lawful table, are lawful.
LEMMA LawfulOver ==
  ASSUME NEW w \in Write, NEW K, Lawful(w, K)
  PROVE  /\ \A t \in Table : Lawful(t, K) => Lawful(Over(w, t), K)
         /\ \A p \in Write : Lawful(p, K) => Lawful(Over(w, p), K)
         /\ Lawful(NothingPending, K)
         /\ \A L : K \subseteq L => Lawful(w, L)
<1>1. ASSUME NEW t \in Table, Lawful(t, K)
      PROVE  Lawful(Over(w, t), K)
  BY ZenonT(40), <1>1, OverType DEF Lawful
<1>2. ASSUME NEW p \in Write, Lawful(p, K)
      PROVE  Lawful(Over(w, p), K)
  <2>1. \A k \in Ids : Over(w, p)[k] = IF w[k] = Keep THEN p[k] ELSE w[k]
    BY OverType
  <2> QED
    BY <1>2, <2>1 DEF Lawful
<1>3. Lawful(NothingPending, K)
  BY NothingIsWritten DEF Lawful
<1>4. \A L : K \subseteq L => Lawful(w, L)
  BY DEF Lawful
<1> QED
  BY <1>1, <1>2, <1>3, <1>4

\* Taking a good outcome keeps the invariant, if the object suits it.
LEMMA TakesKeeps ==
  ASSUME AccessInv, NEW o \in Objects, NEW e, Takes(o, e), Good(e),
         obj' \in [Objects -> Object], issued' \in {0} \cup Ids,
         \A p \in Objects : p # o => obj'[p] = obj[p],
         Shows(obj'[o], e.conn, Kept(kept, e.table))
  PROVE  /\ AccessInv'
         /\ conn'[o] = e.conn
         /\ \A p \in Objects : p # o => conn'[p] = conn[p]
         /\ kept' = Kept(kept, e.table)
         /\ kept \subseteq kept'
         /\ table' = e.table
         /\ provider' = provider
<1>1. e.conn \in Connection /\ e.table \in Table
  BY DEF Good, Outcomes
<1>2. /\ conn' = [conn EXCEPT ![o] = e.conn]
      /\ table' = e.table
      /\ kept' = Kept(kept, e.table)
      /\ provider' = provider
  BY DEF Takes, Kept
<1>3. conn \in [Objects -> Connection] /\ kept \subseteq Values /\ provider \in Providers
  BY DEF AccessInv, AccessTypeOK
<1>4. /\ conn' \in [Objects -> Connection]
      /\ conn'[o] = e.conn
      /\ \A p \in Objects : p # o => conn'[p] = conn[p]
  BY <1>1, <1>2, <1>3
<1>5. TableKept(table', kept') /\ kept \subseteq kept'
  BY <1>1, <1>2, LawfulKept DEF Good
<1>6. kept' \subseteq Values
  <2>1. \A k \in Ids : e.table[k] \in Values \cup {Absent}
    BY <1>1 DEF Table
  <2> QED
    BY <1>2, <1>3, <2>1 DEF Kept
<1>7. AccessTypeOK'
  BY <1>1, <1>2, <1>3, <1>4, <1>6 DEF AccessTypeOK
<1>8. ASSUME NEW p \in Objects
      PROVE  /\ Sound(conn'[p], kept')
             /\ provider' = "MySQL" => NoTransaction(conn'[p])
             /\ Shows(obj'[p], conn'[p], kept')
  <2>1. CASE p = o
    BY <1>2, <1>4, <2>1 DEF Good
  <2>2. CASE p # o
    <3>1. /\ Sound(conn[p], kept)
          /\ provider = "MySQL" => NoTransaction(conn[p])
          /\ Shows(obj[p], conn[p], kept)
      BY DEF AccessInv
    <3>2. Sound(conn[p], kept')
      BY <1>5, <3>1 DEF Sound, Lawful
    <3>3. Shows(obj[p], conn[p], kept')
      BY <1>5, <3>1 DEF Shows
    <3> QED
      BY <1>2, <1>4, <2>2, <3>1, <3>2, <3>3
  <2> QED
    BY <2>1, <2>2
<1> QED
  BY <1>2, <1>4, <1>5, <1>7, <1>8 DEF AccessInv

\* An object that leaves the driver alone takes the outcome that is there.
LEMMA UntouchedTakes ==
  ASSUME AccessInv, NEW o \in Objects, Untouched
  PROVE  LET e == Outcome(TRUE, conn[o], table)
         IN  /\ Takes(o, e)
             /\ Good(e)
             /\ e.conn = conn[o]
             /\ e.table = table
             /\ Kept(kept, e.table) = kept
<1> DEFINE e == Outcome(TRUE, conn[o], table)
<1>1. conn[o] \in Connection /\ table \in Table
  BY AccessParts
<1>2. e \in Outcomes /\ e.conn = conn[o] /\ e.table = table
  BY <1>1 DEF Outcome, Outcomes
<1>3. Lawful(table, kept) /\ Kept(kept, table) = kept
  BY <1>1, KeptLawful DEF AccessInv
<1> HIDE DEF e
<1>4. conn' = [conn EXCEPT ![o] = e.conn]
  BY <1>2 DEF AccessInv, AccessTypeOK, Untouched
<1>5. Takes(o, e)
  BY <1>2, <1>3, <1>4 DEF Takes, Kept, Untouched
<1>6. Good(e)
  BY <1>2, <1>3 DEF Good, AccessInv
<1> QED
  BY <1>2, <1>3, <1>5, <1>6 DEF e

-----------------------------------------------------------------------------
(* The calls.                                                              *)

\* What get_data leaves, for the keys ks.
LEMMA OpenForGood ==
  ASSUME AccessInv, NEW o \in Objects, NEW ks, NEW e \in OpenFor(o, ks)
  PROVE  /\ Good(e)
         /\ StaysGone(conn[o], e.conn)
         /\ AllWritten(conn[o], table, e)
         /\ e.ok => /\ e.conn.field \in Row
                    /\ e.conn.field.key \in ks
                    /\ e.conn.field.key \in Kept(kept, e.table)
         /\ ~e.ok => ~e.conn.open /\ e.conn.server # "open"
<1> DEFINE c == conn[o]
<1>1. /\ c \in Connection
      /\ table \in Table
      /\ Settled(c)
      /\ OwnTransaction(c)
      /\ Lawful(c.pending, kept)
      /\ \A r \in c.rest : r.key \in kept
      /\ provider = "MySQL" => NoTransaction(c)
      /\ c.pending \in Write
  BY AccessParts, ConnectionFields
<1>2. Lawful(table, kept)
  BY <1>1, KeptLawful DEF AccessInv
<1>3. /\ e \in Outcomes
      /\ Settled(e.conn)
      /\ OwnTransaction(e.conn)
      /\ StaysGone(c, e.conn)
      /\ Written(c, table, e)
      /\ AllWritten(c, table, e)
      /\ e.ok => Found(e.conn, e.table, ks)
      /\ ~e.ok => /\ ~e.conn.open
                  /\ e.conn.server # "open"
                  /\ e.conn.rest \subseteq c.rest
      /\ provider = "MySQL" => NoTransaction(e.conn)
  <2>1. CASE provider = "MySQL"
    <3>1. e \in MyOpen(c, table, ks)
      BY <2>1 DEF OpenFor
    <3>2. NoTransaction(c)
      BY <1>1, <2>1
    <3> HIDE DEF c
    <3>3. /\ e \in Outcomes
          /\ e.table = table
          /\ NoTransaction(e.conn)
          /\ StaysGone(c, e.conn)
          /\ e.ok => e.conn.open /\ Found(e.conn, table, ks)
          /\ ~e.ok => ~e.conn.open /\ e.conn.rest = {}
      BY <1>1, <3>1, <3>2, MyOpenOpens
    <3> QED
      BY <3>2, <3>3
         DEF NoTransaction, Settled, OwnTransaction, Written, AllWritten
  <2>2. CASE provider # "MySQL"
    <3>1. e \in PgOpen(c, table, ks)
      BY <2>2 DEF OpenFor
    <3> HIDE DEF c
    <3>2. /\ Opened(e.table, ks, e)
          /\ StaysGone(c, e.conn)
          /\ Written(c, table, e)
          /\ AllWritten(c, table, e)
          /\ e.conn.rest \subseteq c.rest \/ e.ok
      BY <1>1, <3>1, PgOpenOpens
    <3> QED
      BY <2>2, <3>2 DEF Opened, OwnTransaction
  <2> QED
    BY <2>1, <2>2
<1> HIDE DEF c
<1>4. e.conn \in Connection /\ e.table \in Table
  BY <1>3 DEF Outcomes
<1>5. /\ \A t \in Table : Lawful(t, kept) => Lawful(Over(c.pending, t), kept)
      /\ Lawful(NothingPending, kept)
  BY <1>1, LawfulOver
<1>6. Lawful(e.table, kept) /\ Lawful(e.conn.pending, kept)
  BY <1>1, <1>2, <1>3, <1>5 DEF Written
<1>7. kept \subseteq Kept(kept, e.table) /\ TableKept(e.table, Kept(kept, e.table))
  BY <1>4, <1>6, LawfulKept
<1>8. Lawful(e.conn.pending, Kept(kept, e.table))
  BY <1>6, <1>7 DEF Lawful
<1>9. e.conn.rest \subseteq Row
  BY <1>4, ConnectionFields
<1>10. e.ok => /\ e.conn.field \in Row
               /\ e.conn.field.key \in ks
               /\ e.conn.field.key \in Kept(kept, e.table)
  BY <1>3, <1>7 DEF Found, TableKept, Row
<1>11. \A r \in e.conn.rest : r.key \in Kept(kept, e.table)
  <2>1. CASE e.ok
    BY <1>3, <1>7, <1>9, <2>1 DEF Found, TableKept, Row
  <2>2. CASE ~e.ok
    BY <1>1, <1>3, <1>7, <2>2
  <2> QED
    BY <2>1, <2>2
<1>12. Good(e)
  BY <1>3, <1>6, <1>8, <1>11 DEF Good, Sound
<1> QED
  BY <1>3, <1>10, <1>12 DEF c

\* What next leaves.
LEMMA NextGood ==
  ASSUME AccessInv, NEW o \in Objects, conn[o].open,
         NEW e \in IF provider = "MySQL" THEN MyNext(conn[o], table)
                                         ELSE PgNext(conn[o], table)
  PROVE  /\ Good(e)
         /\ StaysGone(conn[o], e.conn)
         /\ e.ok => e.conn.field \in Row /\ e.conn.field.key \in Kept(kept, e.table)
         /\ ~e.ok => ~e.conn.open /\ e.conn.server # "open"
<1> DEFINE c == conn[o]
<1>1. /\ c \in Connection
      /\ table \in Table
      /\ Settled(c)
      /\ OwnTransaction(c)
      /\ Lawful(c.pending, kept)
      /\ \A r \in c.rest : r.key \in kept
      /\ provider = "MySQL" => NoTransaction(c)
      /\ c.pending \in Write
      /\ c.rest \subseteq Row
  BY AccessParts, ConnectionFields
<1>2. Lawful(table, kept)
  BY <1>1, KeptLawful DEF AccessInv
<1>3. /\ e \in Outcomes
      /\ Settled(e.conn)
      /\ OwnTransaction(e.conn)
      /\ StaysGone(c, e.conn)
      /\ Written(c, table, e)
      /\ e.conn.rest \subseteq c.rest
      /\ e.ok => e.conn.field \in c.rest
      /\ ~e.ok => ~e.conn.open /\ e.conn.server # "open"
      /\ provider = "MySQL" => NoTransaction(e.conn)
  <2>1. CASE provider = "MySQL"
    <3>1. e \in MyNext(c, table) /\ NoTransaction(c)
      BY <1>1, <2>1
    <3> HIDE DEF c
    <3>2. /\ e \in Outcomes
          /\ e.table = table
          /\ NoTransaction(e.conn)
          /\ StaysGone(c, e.conn)
          /\ e.conn.rest \subseteq c.rest
          /\ e.ok => e.conn.field \in c.rest
          /\ ~e.ok => ~e.conn.open
      BY <1>1, <3>1, MyNextFetches
    <3> QED
      BY <3>1, <3>2 DEF NoTransaction, Settled, OwnTransaction, Written
  <2>2. CASE provider # "MySQL"
    <3>1. e \in PgNext(c, table) /\ c.open
      BY <2>2
    <3> HIDE DEF c
    <3> QED
      BY <1>1, <2>2, <3>1, PgNextFetches
  <2> QED
    BY <2>1, <2>2
<1> HIDE DEF c
<1>4. e.conn \in Connection /\ e.table \in Table
  BY <1>3 DEF Outcomes
<1>5. /\ \A t \in Table : Lawful(t, kept) => Lawful(Over(c.pending, t), kept)
      /\ Lawful(NothingPending, kept)
  BY <1>1, LawfulOver
<1>6. Lawful(e.table, kept) /\ Lawful(e.conn.pending, kept)
  BY <1>1, <1>2, <1>3, <1>5 DEF Written
<1>7. kept \subseteq Kept(kept, e.table)
  BY <1>4, <1>6, LawfulKept
<1>8. Lawful(e.conn.pending, Kept(kept, e.table))
  BY <1>6, <1>7 DEF Lawful
<1>9. \A r \in e.conn.rest : r.key \in Kept(kept, e.table)
  BY <1>1, <1>3, <1>7
<1>10. Good(e)
  BY <1>3, <1>6, <1>8, <1>9 DEF Good, Sound
<1> QED
  BY <1>1, <1>3, <1>7, <1>10 DEF c

\* A statement of MySQL leaves no transaction.
LEMMA RunsAlone ==
  ASSUME NEW c \in Connection, NEW t \in Table, NEW w \in Write,
         NoTransaction(c), NEW e \in Run(c, t, w)
  PROVE  NoTransaction(e.conn)
<1>1. CASE e \in Failures(c, t)
  <2>1. Failed(c, t, e)
    BY <1>1, FailuresFail
  <2> QED
    BY <2>1, FailsAlone
<1>2. CASE e \notin Failures(c, t)
  <2>1. e = Outcome(TRUE, c, Over(w, t))
    BY <1>2 DEF Run, NoTransaction
  <2> QED
    BY <2>1 DEF Outcome
<1> QED
  BY <1>1, <1>2

\* What a statement leaves that writes w.
LEMMA ExecuteGood ==
  ASSUME AccessInv, NEW o \in Objects, NEW w \in Write, NEW e \in Execute(o, w),
         conn[o].server \in {"open", "idle"} => Lawful(w, kept)
  PROVE  Good(e) /\ Ran(conn[o], table, w, e)
<1> DEFINE c == conn[o]
<1>1. /\ c \in Connection
      /\ table \in Table
      /\ Settled(c)
      /\ OwnTransaction(c)
      /\ Lawful(c.pending, kept)
      /\ \A r \in c.rest : r.key \in kept
      /\ provider = "MySQL" => NoTransaction(c)
      /\ c.pending \in Write
  BY AccessParts, ConnectionFields
<1>2. Lawful(table, kept)
  BY <1>1, KeptLawful DEF AccessInv
<1>3. /\ Ran(c, table, w, e)
      /\ provider = "MySQL" => NoTransaction(e.conn)
  <2>1. CASE provider = "MySQL"
    <3>1. e \in Run(c, table, w) /\ NoTransaction(c)
      BY <1>1, <2>1 DEF Execute
    <3> HIDE DEF c
    <3> QED
      BY <1>1, <3>1, RunRuns, RunsAlone
  <2>2. CASE provider # "MySQL"
    <3>1. e \in PgCommand(c, table, w)
      BY <2>2 DEF Execute
    <3> HIDE DEF c
    <3> QED
      BY <1>1, <2>2, <3>1, PgCommandRuns
  <2> QED
    BY <2>1, <2>2
<1>4. c.server \in {"open", "idle"} => Lawful(w, kept)
  OBVIOUS
<1> HIDE DEF c
<1>5. e \in Outcomes /\ e.conn \in Connection /\ e.table \in Table
  BY <1>3 DEF Ran, Outcomes
<1>6. Lawful(NothingPending, kept)
  BY <1>1, LawfulOver
<1>7. Lawful(e.table, kept)
  <2>1. CASE e.table = table
    BY <1>2, <2>1
  <2>2. CASE c.server = "idle" /\ e.table = Over(w, table)
    BY <1>1, <1>2, <1>4, <2>2, LawfulOver
  <2> QED
    BY <1>3, <2>1, <2>2 DEF Ran
<1>8. Lawful(e.conn.pending, kept)
  <2>1. CASE e.conn.pending \in {c.pending, NothingPending}
    BY <1>1, <1>6, <2>1
  <2>2. CASE c.server = "open" /\ e.conn.pending = Over(w, c.pending)
    BY <1>1, <1>4, <2>2, LawfulOver
  <2> QED
    BY <1>3, <2>1, <2>2 DEF Ran
<1>9. kept \subseteq Kept(kept, e.table)
  BY <1>5, <1>7, LawfulKept
<1>10. Lawful(e.conn.pending, Kept(kept, e.table))
  BY <1>8, <1>9 DEF Lawful
<1>11. OwnTransaction(e.conn)
  BY <1>1, <1>3 DEF Ran, SameCursor, OwnTransaction
<1>12. \A r \in e.conn.rest : r.key \in Kept(kept, e.table)
  BY <1>1, <1>3, <1>9 DEF Ran, SameCursor
<1>13. Settled(e.conn)
  BY <1>3 DEF Ran
<1>14. Good(e)
  BY <1>3, <1>5, <1>7, <1>10, <1>11, <1>12, <1>13 DEF Good, Sound
<1> QED
  BY <1>3, <1>14 DEF c

\* What looking up the new key leaves, and what the command's commit leaves.
LEMMA LooksAndCommitsGood ==
  ASSUME AccessInv, NEW o \in Objects, provider # "MySQL", NEW k,
         NEW e \in PgResultKey(conn[o], table, k) \cup PgCmdCommit(conn[o], table)
  PROVE  /\ Good(e)
         /\ SameCursor(conn[o], e.conn)
         /\ StaysGone(conn[o], e.conn)
         /\ e.conn.server = "open" => e \in PgResultKey(conn[o], table, k)
<1> DEFINE c == conn[o]
<1>1. /\ c \in Connection
      /\ table \in Table
      /\ Settled(c)
      /\ OwnTransaction(c)
      /\ Lawful(c.pending, kept)
      /\ \A r \in c.rest : r.key \in kept
      /\ c.pending \in Write
  BY AccessParts, ConnectionFields
<1>2. Lawful(table, kept)
  BY <1>1, KeptLawful DEF AccessInv
<1>3. e \in PgResultKey(c, table, k) \cup PgCmdCommit(c, table)
  OBVIOUS
<1> HIDE DEF c
<1>4. /\ e \in Outcomes
      /\ Settled(e.conn)
      /\ OwnTransaction(e.conn)
      /\ SameCursor(c, e.conn)
      /\ StaysGone(c, e.conn)
      /\ Written(c, table, e)
      /\ e.conn.server = "open" => e \in PgResultKey(c, table, k)
  <2>1. CASE e \in PgResultKey(c, table, k)
    BY <1>1, <2>1, ResultKeyLooks DEF Written
  <2>2. CASE e \in PgCmdCommit(c, table)
    <3>1. /\ e \in Outcomes
          /\ Settled(e.conn)
          /\ SameCursor(c, e.conn)
          /\ e.conn.server \in {"idle", "gone"}
          /\ StaysGone(c, e.conn)
          /\ Written(c, table, e)
      BY <1>1, <2>2, CmdCommitEnds
    <3> QED
      BY <3>1 DEF OwnTransaction
  <2> QED
    BY <1>3, <2>1, <2>2
<1>5. e.table \in Table
  BY <1>4 DEF Outcomes
<1>6. /\ \A t \in Table : Lawful(t, kept) => Lawful(Over(c.pending, t), kept)
      /\ Lawful(NothingPending, kept)
  BY <1>1, LawfulOver
<1>7. Lawful(e.table, kept) /\ Lawful(e.conn.pending, kept)
  BY <1>1, <1>2, <1>4, <1>6 DEF Written
<1>8. kept \subseteq Kept(kept, e.table)
  BY <1>5, <1>7, LawfulKept
<1>9. Lawful(e.conn.pending, Kept(kept, e.table))
  BY <1>7, <1>8 DEF Lawful
<1>10. \A r \in e.conn.rest : r.key \in Kept(kept, e.table)
  BY <1>1, <1>4, <1>8 DEF SameCursor
<1>11. Good(e)
  BY <1>4, <1>7, <1>9, <1>10 DEF Good, Sound
<1> QED
  BY <1>4, <1>11 DEF c

-----------------------------------------------------------------------------
(* The steps.                                                              *)

(***************************************************************************)
(* What an idle object reports as saved has been in the table, and what an *)
(* object is about to report is in the table or in the transaction that    *)
(* its next read will end.                                                 *)
(***************************************************************************)
SavedSafe(x, c, K) ==
  /\ (x.at = "idle" /\ x.saved # 0) => x.saved \in K \/ c.server = "gone"
  /\ (x.at = "reread" /\ x.saved # 0) =>
       /\ x.mode = "u"
       /\ \/ x.saved \in K \/ c.server = "gone"
          \/ c.server = "open" /\ x.key \in Ids /\ c.pending[x.key] = x.saved

SavedInv == \A o \in Objects : SavedSafe(obj[o], conn[o], kept)

\* A step keeps both invariants, the second one where commits do not fail.
StepKeeps ==
  /\ AccessInv'
  /\ ("commit" \notin Faults /\ SavedInv) => SavedInv'

\* The step of an object that takes a good outcome, and suits it.
LEMMA TakesStep ==
  ASSUME AccessInv, NEW o \in Objects, NEW e, Takes(o, e), Good(e),
         NEW x \in Object, obj' = [obj EXCEPT ![o] = x],
         issued' \in {0} \cup Ids,
         Shows(x, e.conn, Kept(kept, e.table)),
         ("commit" \notin Faults /\ SavedSafe(obj[o], conn[o], kept)) =>
           SavedSafe(x, e.conn, Kept(kept, e.table))
  PROVE  StepKeeps
<1>1. obj \in [Objects -> Object]
  BY DEF AccessInv, AccessTypeOK
<1>2. /\ obj' \in [Objects -> Object]
      /\ obj'[o] = x
      /\ \A p \in Objects : p # o => obj'[p] = obj[p]
  BY <1>1
<1>3. Shows(obj'[o], e.conn, Kept(kept, e.table))
  BY <1>2
<1>4. /\ AccessInv'
      /\ conn'[o] = e.conn
      /\ \A p \in Objects : p # o => conn'[p] = conn[p]
      /\ kept' = Kept(kept, e.table)
      /\ kept \subseteq kept'
  BY <1>2, <1>3, TakesKeeps
<1>5. ASSUME "commit" \notin Faults, SavedInv
      PROVE  SavedInv'
  <2>1. ASSUME NEW p \in Objects
        PROVE  SavedSafe(obj'[p], conn'[p], kept')
    <3>1. SavedSafe(obj[p], conn[p], kept)
      BY <1>5 DEF SavedInv
    <3>2. CASE p = o
      BY <1>2, <1>4, <1>5, <3>1, <3>2
    <3>3. CASE p # o
      <4>1. SavedSafe(obj[p], conn[p], kept')
        BY <1>4, <3>1 DEF SavedSafe
      <4> QED
        BY <1>2, <1>4, <3>3, <4>1
    <3> QED
      BY <3>2, <3>3
  <2> QED
    BY <2>1 DEF SavedInv
<1> QED
  BY <1>4, <1>5 DEF StepKeeps

\* The step of an object that leaves the driver alone.
LEMMA UntouchedStep ==
  ASSUME AccessInv, NEW o \in Objects, Untouched,
         NEW x \in Object, obj' = [obj EXCEPT ![o] = x],
         UNCHANGED issued,
         Shows(x, conn[o], kept),
         SavedSafe(obj[o], conn[o], kept) => SavedSafe(x, conn[o], kept)
  PROVE  StepKeeps
<1> DEFINE e == Outcome(TRUE, conn[o], table)
<1>1. /\ Takes(o, e)
      /\ Good(e)
      /\ e.conn = conn[o]
      /\ Kept(kept, e.table) = kept
  BY UntouchedTakes
<1>2. issued' \in {0} \cup Ids
  BY DEF AccessInv, AccessTypeOK
<1> HIDE DEF e
<1>3. Shows(x, e.conn, Kept(kept, e.table))
  BY <1>1
<1>4. SavedSafe(obj[o], conn[o], kept) => SavedSafe(x, e.conn, Kept(kept, e.table))
  BY <1>1
<1> QED
  BY <1>1, <1>2, <1>3, <1>4, TakesStep

\* A new object with a new connection.
LEMMA NewSound ==
  ASSUME NEW K, NEW t \in Table
  PROVE  /\ NewConnection \in Connection
         /\ NewObject \in Object
         /\ Sound(NewConnection, K)
         /\ NoTransaction(NewConnection)
         /\ Shows(NewObject, NewConnection, K)
         /\ SavedSafe(NewObject, NewConnection, K)
<1>1. NewConnection \in Connection
  BY NothingIsWritten DEF NewConnection, Connection
<1>2. NewObject \in Object
  BY DEF NewObject, Object
<1>3. Lawful(NewConnection.pending, K)
  BY NothingIsWritten DEF NewConnection, Lawful
<1>4. Sound(NewConnection, K)
  BY <1>3 DEF Sound, Settled, OwnTransaction, NewConnection
<1>5. NoTransaction(NewConnection)
  BY DEF NoTransaction, NewConnection
<1>6. Shows(NewObject, NewConnection, K)
  BY DEF Shows, NewObject, NewConnection
<1>7. SavedSafe(NewObject, NewConnection, K)
  BY DEF SavedSafe, NewObject
<1> QED
  BY <1>1, <1>2, <1>4, <1>5, <1>6, <1>7

\* The row of its key, for an object that calls get_data.
LEMMA ShowKeeps ==
  ASSUME AccessInv, NEW o \in Objects, NEW k \in Ids, Show(o, k)
  PROVE  StepKeeps
<1>1. PICK e \in OpenFor(o, {k}) :
        Takes(o, e) /\ obj' = [obj EXCEPT ![o].key = k, ![o].saved = 0]
  BY DEF Show
<1>2. /\ Good(e)
      /\ e.ok => /\ e.conn.field \in Row
                 /\ e.conn.field.key \in {k}
                 /\ e.conn.field.key \in Kept(kept, e.table)
      /\ ~e.ok => ~e.conn.open /\ e.conn.server # "open"
  BY OpenForGood
<1> DEFINE x == [obj[o] EXCEPT !.key = k, !.saved = 0]
<1>3. obj' = [obj EXCEPT ![o] = x]
  BY <1>1 DEF AccessInv, AccessTypeOK
<1>4. obj[o] \in Object /\ obj[o].at = "idle" /\ obj[o].mode = "u"
  BY AccessParts DEF Show, Shows
<1>5. /\ x \in Object /\ x.key = k /\ x.saved = 0
      /\ x.at = "idle" /\ x.mode = "u"
  BY <1>4 DEF Object
<1>6. issued' \in {0} \cup Ids
  BY DEF AccessInv, AccessTypeOK, Show
<1> HIDE DEF x
<1>7. Shows(x, e.conn, Kept(kept, e.table))
  BY <1>2, <1>5 DEF Shows
<1>8. SavedSafe(x, e.conn, Kept(kept, e.table))
  BY <1>5 DEF SavedSafe
<1> QED
  BY <1>1, <1>2, <1>3, <1>5, <1>6, <1>7, <1>8, TakesStep

(***************************************************************************)
(* An object that has moved to the first row, or to the next one, of what  *)
(* it asked for.                                                           *)
(***************************************************************************)
LEMMA MoveKeeps ==
  ASSUME AccessInv, NEW o \in Objects, obj[o].at = "idle", NEW e, Takes(o, e),
         Good(e), StaysGone(conn[o], e.conn),
         e.ok => e.conn.field \in Row /\ e.conn.field.key \in Kept(kept, e.table),
         ~e.ok => ~e.conn.open /\ e.conn.server # "open",
         obj' = [obj EXCEPT ![o].key = IF e.ok THEN e.conn.field.key ELSE @],
         UNCHANGED issued
  PROVE  StepKeeps
<1> DEFINE key == IF e.ok THEN e.conn.field.key ELSE obj[o].key
           x == [obj[o] EXCEPT !.key = key]
<1>1. obj' = [obj EXCEPT ![o] = x]
  BY DEF AccessInv, AccessTypeOK
<1>2. obj[o] \in Object /\ obj[o].mode = "u"
  BY AccessParts DEF Shows
<1>3. key \in Ids \cup {0}
  BY <1>2, ObjectFields DEF Row
<1>4. e.ok => key = e.conn.field.key
  OBVIOUS
<1> HIDE DEF key
<1>5. /\ x \in Object /\ x.key = key /\ x.saved = obj[o].saved
      /\ x.at = "idle" /\ x.mode = "u"
  BY <1>2, <1>3 DEF Object
<1>6. issued' \in {0} \cup Ids
  BY DEF AccessInv, AccessTypeOK
<1> HIDE DEF x
<1>7. Shows(x, e.conn, Kept(kept, e.table))
  BY <1>4, <1>5 DEF Shows
<1>8. kept \subseteq Kept(kept, e.table)
  BY DEF Kept
<1>9. SavedSafe(obj[o], conn[o], kept) => SavedSafe(x, e.conn, Kept(kept, e.table))
  BY <1>5, <1>8 DEF SavedSafe, StaysGone
<1> QED
  BY <1>1, <1>5, <1>6, <1>7, <1>9, TakesStep

\* The first row of a list.
LEMMA ShowWhereKeeps ==
  ASSUME AccessInv, NEW o \in Objects, ShowWhere(o)
  PROVE  StepKeeps
<1>1. PICK e \in OpenFor(o, Ids) :
        /\ Takes(o, e)
        /\ obj' = [obj EXCEPT ![o].key = IF e.ok THEN e.conn.field.key ELSE @]
  BY DEF ShowWhere
<1>2. obj[o].at = "idle" /\ UNCHANGED issued
  BY DEF ShowWhere
<1>3. /\ Good(e)
      /\ StaysGone(conn[o], e.conn)
      /\ e.ok => e.conn.field \in Row /\ e.conn.field.key \in Kept(kept, e.table)
      /\ ~e.ok => ~e.conn.open /\ e.conn.server # "open"
  BY OpenForGood
<1> QED
  BY <1>1, <1>2, <1>3, MoveKeeps

\* The next row of a list.
LEMMA NextRowKeeps ==
  ASSUME AccessInv, NEW o \in Objects, NextRow(o)
  PROVE  StepKeeps
<1>1. PICK e \in IF provider = "MySQL" THEN MyNext(conn[o], table)
                                       ELSE PgNext(conn[o], table) :
        /\ Takes(o, e)
        /\ obj' = [obj EXCEPT ![o].key = IF e.ok THEN e.conn.field.key ELSE @]
  BY DEF NextRow
<1>2. obj[o].at = "idle" /\ conn[o].open /\ UNCHANGED issued
  BY DEF NextRow
<1>3. /\ Good(e)
      /\ StaysGone(conn[o], e.conn)
      /\ e.ok => e.conn.field \in Row /\ e.conn.field.key \in Kept(kept, e.table)
      /\ ~e.ok => ~e.conn.open /\ e.conn.server # "open"
  BY <1>2, NextGood
<1> QED
  BY <1>1, <1>2, <1>3, MoveKeeps

\* An object that validates to no.
LEMMA RejectedKeeps ==
  ASSUME AccessInv, NEW o \in Objects, NEW mode \in {"i", "u"}, Rejected(o, mode)
  PROVE  StepKeeps
<1> DEFINE at == IF mode = "i" THEN "idle" ELSE "reread"
           key == IF mode = "i" THEN 0 ELSE obj[o].key
           x == [obj[o] EXCEPT !.saved = 0, !.key = key, !.at = at]
<1>1. obj' = [obj EXCEPT ![o] = x]
  BY DEF AccessInv, AccessTypeOK, Rejected
<1>2. obj[o] \in Object /\ obj[o].mode = "u"
  BY AccessParts DEF Shows, Rejected
<1>3. key \in Ids \cup {0} /\ at \in {"idle", "reread"} /\ (at = "idle" => key = 0)
  BY <1>2, ObjectFields
<1> HIDE DEF key, at
<1>4. /\ x \in Object /\ x.key = key /\ x.saved = 0
      /\ x.at = at /\ x.mode = "u"
  BY <1>2, <1>3 DEF Object
<1>5. Untouched /\ UNCHANGED issued
  BY DEF Rejected
<1> HIDE DEF x
<1>6. Shows(x, conn[o], kept)
  BY <1>3, <1>4 DEF Shows
<1>7. SavedSafe(x, conn[o], kept)
  BY <1>4 DEF SavedSafe
<1> QED
  BY <1>1, <1>4, <1>5, <1>6, <1>7, UntouchedStep

\* An object that forgets its key.
LEMMA ResetKeeps ==
  ASSUME AccessInv, NEW o \in Objects, Reset(o)
  PROVE  StepKeeps
<1> DEFINE x == [obj[o] EXCEPT !.key = 0, !.saved = 0]
<1>1. obj' = [obj EXCEPT ![o] = x]
  BY DEF AccessInv, AccessTypeOK, Reset
<1>2. obj[o] \in Object /\ obj[o].mode = "u" /\ obj[o].at = "idle"
  BY AccessParts DEF Shows, Reset
<1>3. /\ x \in Object /\ x.key = 0 /\ x.saved = 0
      /\ x.at = "idle" /\ x.mode = "u"
  BY <1>2 DEF Object
<1>4. Untouched /\ UNCHANGED issued
  BY DEF Reset
<1> HIDE DEF x
<1>5. Shows(x, conn[o], kept)
  BY <1>3 DEF Shows
<1>6. SavedSafe(x, conn[o], kept)
  BY <1>3 DEF SavedSafe
<1> QED
  BY <1>1, <1>3, <1>4, <1>5, <1>6, UntouchedStep

\* A row that is put into the writes of a statement.
LEMMA PutWrites ==
  ASSUME NEW k \in Ids, NEW v \in Values \cup {Absent}
  PROVE  /\ Put(k, v) \in Write
         /\ Put(k, v)[k] = v
         /\ \A j \in Ids : j # k => Put(k, v)[j] = Keep
         /\ Put(k, v) # NothingPending
<1>1. /\ Put(k, v) \in Write
      /\ Put(k, v)[k] = v
      /\ \A j \in Ids : j # k => Put(k, v)[j] = Keep
  BY NothingIsWritten DEF Put, NothingPending, Write
<1>2. v # Keep
  BY Marks
<1> QED
  BY <1>1, <1>2, NothingIsWritten

\* A row is inserted with its key for a value.
LEMMA InsertKeeps ==
  ASSUME AccessInv, NEW o \in Objects, Insert(o)
  PROVE  StepKeeps
<1> DEFINE k == issued + 1
<1>1. PICK e \in Execute(o, Put(k, k)) :
        /\ Takes(o, e)
        /\ obj' = [obj EXCEPT ![o] =
                     IF e.ok THEN [key |-> k, at |-> "resultKey",
                                   mode |-> "i", saved |-> 0]
                             ELSE NewObject]
  BY DEF Insert
<1>2. k \in Ids /\ issued' = k
  BY DEF Insert
<1> HIDE DEF k
<1>3. k \in Values /\ k # 0
  BY <1>2, AccessAssumption, Marks
<1>4. /\ Put(k, k) \in Write
      /\ Put(k, k)[k] = k
      /\ \A j \in Ids : j # k => Put(k, k)[j] = Keep
  BY <1>2, <1>3, PutWrites
<1>5. Lawful(Put(k, k), kept)
  BY <1>4 DEF Lawful
<1>6. Good(e)
  BY <1>1, <1>4, <1>5, ExecuteGood
<1> DEFINE x == IF e.ok THEN [key |-> k, at |-> "resultKey",
                              mode |-> "i", saved |-> 0]
                        ELSE NewObject
<1>7. obj' = [obj EXCEPT ![o] = x]
  BY <1>1
<1>8. x \in Object /\ x.saved = 0
  BY <1>2 DEF Object, NewObject
<1>9. \/ x.at = "resultKey" /\ x.key = k /\ x.mode = "i"
      \/ x.at = "idle" /\ x.key = 0 /\ x.mode = "u"
  BY DEF NewObject
<1> HIDE DEF x
<1>10. Shows(x, e.conn, Kept(kept, e.table))
  BY <1>3, <1>8, <1>9 DEF Shows
<1>11. SavedSafe(x, e.conn, Kept(kept, e.table))
  BY <1>8 DEF SavedSafe
<1>12. issued' \in {0} \cup Ids
  BY <1>2
<1> QED
  BY <1>1, <1>6, <1>7, <1>8, <1>10, <1>11, <1>12, TakesStep

\* The driver is asked for the key of the row just inserted.
LEMMA ResultKeyKeeps ==
  ASSUME AccessInv, NEW o \in Objects, ResultKey(o)
  PROVE  StepKeeps
<1>1. /\ obj[o] \in Object
      /\ obj[o].at = "resultKey"
      /\ obj[o].saved = 0
  BY AccessParts DEF Shows, ResultKey
<1>2. /\ obj \in [Objects -> Object]
      /\ issued' \in {0} \cup Ids
      /\ UNCHANGED issued
  BY DEF AccessInv, AccessTypeOK, ResultKey
<1>3. ASSUME NEW key \in Ids \cup {0}
      PROVE  LET x == [obj[o] EXCEPT !.key = key, !.at = "reread"]
             IN  /\ x \in Object
                 /\ x.saved = 0
                 /\ \A c, K : Shows(x, c, K) /\ SavedSafe(x, c, K)
  <2> DEFINE x == [obj[o] EXCEPT !.key = key, !.at = "reread"]
  <2>1. x \in Object /\ x.saved = 0 /\ x.at = "reread"
    BY <1>1 DEF Object
  <2> HIDE DEF x
  <2>2. \A c, K : Shows(x, c, K) /\ SavedSafe(x, c, K)
    BY <2>1 DEF Shows, SavedSafe
  <2> QED
    BY <2>1, <2>2 DEF x
<1>4. obj[o].key \in Ids \cup {0}
  BY <1>1, ObjectFields
<1>5. CASE provider = "MySQL"
  <2> DEFINE x == [obj[o] EXCEPT !.key = obj[o].key, !.at = "reread"]
  <2>1. Untouched /\ obj' = [obj EXCEPT ![o].at = "reread"]
    BY <1>5 DEF ResultKey
  <2>2. obj' = [obj EXCEPT ![o] = x]
    BY <1>1, <1>2, <2>1 DEF Object
  <2>3. x \in Object /\ \A c, K : Shows(x, c, K) /\ SavedSafe(x, c, K)
    BY <1>3, <1>4
  <2> HIDE DEF x
  <2>4. Shows(x, conn[o], kept) /\ SavedSafe(x, conn[o], kept)
    BY <2>3
  <2> QED
    BY <1>2, <2>1, <2>2, <2>3, <2>4, UntouchedStep
<1>6. CASE provider # "MySQL"
  <2>1. PICK e \in PgResultKey(conn[o], table, obj[o].key) :
          /\ Takes(o, e)
          /\ obj' = [obj EXCEPT ![o].key = IF e.ok THEN @ ELSE 0,
                                ![o].at = "reread"]
    BY <1>6 DEF ResultKey
  <2>2. Good(e)
    BY <1>6, LooksAndCommitsGood
  <2> DEFINE key == IF e.ok THEN obj[o].key ELSE 0
             x == [obj[o] EXCEPT !.key = key, !.at = "reread"]
  <2>3. obj' = [obj EXCEPT ![o] = x]
    BY <1>2, <2>1
  <2>4. key \in Ids \cup {0}
    BY <1>4
  <2> HIDE DEF key
  <2>5. x \in Object /\ \A c, K : Shows(x, c, K) /\ SavedSafe(x, c, K)
    BY <1>3, <2>4
  <2> HIDE DEF x
  <2>6. /\ Shows(x, e.conn, Kept(kept, e.table))
        /\ SavedSafe(x, e.conn, Kept(kept, e.table))
    BY <2>5
  <2> QED
    BY <1>2, <2>1, <2>2, <2>3, <2>5, <2>6, TakesStep
<1> QED
  BY <1>5, <1>6

(***************************************************************************)
(* A statement for the row of an idle object writes a value there only if  *)
(* the row has been in the table.                                          *)
(***************************************************************************)
LEMMA ToRowLawful ==
  ASSUME AccessInv, NEW o \in Objects, obj[o].at = "idle",
         NEW v \in Values \cup {Absent}
  PROVE  LET k == obj[o].key
             w == ToRow(o, k, v)
         IN  /\ w \in Write
             /\ conn[o].server \in {"open", "idle"} => Lawful(w, kept)
             /\ w # NothingPending => k \in Ids /\ w[k] = v
<1> DEFINE k == obj[o].key
           w == ToRow(o, k, v)
           c == conn[o]
<1>1. /\ k \in Ids \cup {0}
      /\ c \in Connection /\ table \in Table
      /\ c.server = "idle" => c.pending = NothingPending
      /\ (c.server = "open" /\ k # 0) => k \in kept
      /\ TableKept(table, kept)
  BY AccessParts, ObjectFields DEF Settled, Shows, AccessInv
<1>2. \/ w = NothingPending
      \/ w = Put(k, v) /\ k # 0 /\ Seen(c, table)[k] # Absent
  BY DEF ToRow
<1> HIDE DEF k, w, c
<1>3. CASE w = NothingPending
  <2>1. Lawful(w, kept)
    BY <1>3, NothingIsWritten DEF Lawful
  <2> QED
    BY <1>3, <2>1, NothingIsWritten DEF k, w, c
<1>4. CASE w = Put(k, v) /\ k # 0 /\ Seen(c, table)[k] # Absent
  <2>1. k \in Ids
    BY <1>1, <1>4
  <2>2. /\ w \in Write
        /\ w[k] = v
        /\ \A j \in Ids : j # k => w[j] = Keep
    BY <1>4, <2>1, PutWrites
  <2>3. ASSUME c.server = "idle"
        PROVE  k \in kept
    <3>1. Seen(c, table) = table
      BY <1>1, <2>3, OverNothing DEF Seen
    <3> QED
      BY <1>1, <1>4, <2>1, <3>1 DEF TableKept
  <2>4. c.server \in {"open", "idle"} => Lawful(w, kept)
    BY <1>1, <1>4, <2>2, <2>3 DEF Lawful
  <2> QED
    BY <2>1, <2>2, <2>4 DEF k, w, c
<1> QED
  BY <1>2, <1>3, <1>4

\* An update writes a new value to the row of its object.
LEMMA UpdateKeeps ==
  ASSUME AccessInv, NEW o \in Objects, Update(o)
  PROVE  StepKeeps
<1> DEFINE v == issued + 1
           k == obj[o].key
           w == ToRow(o, k, v)
<1>1. PICK e \in Execute(o, w) :
        /\ Takes(o, e)
        /\ obj' = [obj EXCEPT ![o].at = "reread",
                     ![o].saved = IF e.ok /\ w # NothingPending THEN v ELSE 0]
  BY DEF Update
<1>2. v \in Ids /\ issued' = v /\ obj[o].at = "idle"
  BY DEF Update
<1>3. /\ obj[o] \in Object /\ obj[o].mode = "u"
      /\ conn[o] \in Connection /\ table \in Table
  BY <1>2, AccessParts DEF Shows
<1> HIDE DEF v
<1>4. v \in Values /\ v # 0 /\ v # Absent /\ v # Keep
  BY <1>2, AccessAssumption, Marks
<1>5. /\ w \in Write
      /\ conn[o].server \in {"open", "idle"} => Lawful(w, kept)
      /\ w # NothingPending => k \in Ids /\ w[k] = v
  BY <1>2, <1>4, ToRowLawful
<1> DEFINE saved == IF e.ok /\ w # NothingPending THEN v ELSE 0
           x == [obj[o] EXCEPT !.at = "reread", !.saved = saved]
<1>6. obj' = [obj EXCEPT ![o] = x]
  BY <1>1 DEF AccessInv, AccessTypeOK
<1> HIDE DEF w
<1>7. Good(e) /\ Ran(conn[o], table, w, e)
  BY <1>1, <1>5, ExecuteGood
<1>8. saved \in Values \cup {0} /\ (saved # 0 => saved = v /\ e.ok /\ w # NothingPending)
  BY <1>4
<1> HIDE DEF saved
<1>9. /\ x \in Object /\ x.at = "reread" /\ x.mode = "u"
      /\ x.key = k /\ x.saved = saved
  BY <1>3, <1>8 DEF Object
<1> HIDE DEF x, k
<1>10. Shows(x, e.conn, Kept(kept, e.table))
  BY <1>9 DEF Shows
<1>11. ASSUME "commit" \notin Faults
       PROVE  SavedSafe(x, e.conn, Kept(kept, e.table))
  <2>1. SUFFICES ASSUME saved # 0
                 PROVE  \/ v \in Kept(kept, e.table)
                        \/ /\ e.conn.server = "open"
                           /\ k \in Ids
                           /\ e.conn.pending[k] = v
    BY <1>8, <1>9 DEF SavedSafe
  <2>2. e.ok /\ k \in Ids /\ w[k] = v
    BY <1>5, <1>8, <2>1
  <2>3. \/ e.table = Over(w, table)
        \/ e.conn.server = "open" /\ e.conn.pending = Over(w, conn[o].pending)
    BY <1>7, <1>11, <2>2 DEF Ran
  <2>4. CASE e.table = Over(w, table)
    <3>1. \A j \in Ids :
            Over(w, table)[j] = IF w[j] = Keep THEN table[j] ELSE w[j]
      BY <1>3, <1>5, OverType
    <3>2. e.table[k] = v
      BY <1>4, <2>2, <2>4, <3>1
    <3> QED
      BY <1>4, <2>2, <3>2 DEF Kept
  <2>5. CASE e.conn.server = "open" /\ e.conn.pending = Over(w, conn[o].pending)
    <3>1. conn[o].pending \in Write
      BY <1>3, ConnectionFields
    <3> DEFINE p == conn[o].pending
    <3>2. \A j \in Ids : Over(w, p)[j] = IF w[j] = Keep THEN p[j] ELSE w[j]
      BY <1>5, <3>1, OverType
    <3>3. e.conn.pending[k] = v
      BY <1>4, <2>2, <2>5, <3>2
    <3> QED
      BY <2>2, <2>5, <3>3
  <2> QED
    BY <2>3, <2>4, <2>5
<1>12. issued' \in {0} \cup Ids
  BY <1>2
<1> QED
  BY <1>1, <1>6, <1>7, <1>9, <1>10, <1>11, <1>12, TakesStep

\* A deletion writes that there is no row.
LEMMA DeleteKeeps ==
  ASSUME AccessInv, NEW o \in Objects, Delete(o)
  PROVE  StepKeeps
<1> DEFINE k == obj[o].key
           w == ToRow(o, k, Absent)
<1>1. PICK e \in Execute(o, w) : Takes(o, e)
  BY DEF Delete
<1>2. /\ obj' = [obj EXCEPT ![o].key = 0, ![o].saved = 0]
      /\ obj[o].at = "idle" /\ UNCHANGED issued
  BY DEF Delete
<1>3. obj[o] \in Object /\ obj[o].mode = "u"
  BY <1>2, AccessParts DEF Shows
<1>4. /\ w \in Write
      /\ conn[o].server \in {"open", "idle"} => Lawful(w, kept)
  BY <1>2, ToRowLawful
<1> HIDE DEF w
<1>5. Good(e)
  BY <1>1, <1>4, ExecuteGood
<1> DEFINE x == [obj[o] EXCEPT !.key = 0, !.saved = 0]
<1>6. obj' = [obj EXCEPT ![o] = x]
  BY <1>2 DEF AccessInv, AccessTypeOK
<1>7. /\ x \in Object /\ x.key = 0 /\ x.saved = 0
      /\ x.at = "idle" /\ x.mode = "u"
  BY <1>2, <1>3 DEF Object
<1> HIDE DEF x
<1>8. Shows(x, e.conn, Kept(kept, e.table)) /\ SavedSafe(x, e.conn, Kept(kept, e.table))
  BY <1>7 DEF Shows, SavedSafe
<1>9. issued' \in {0} \cup Ids
  BY <1>2 DEF AccessInv, AccessTypeOK
<1> QED
  BY <1>1, <1>5, <1>6, <1>7, <1>8, <1>9, TakesStep

(***************************************************************************)
(* The read at the end of an insert or an update ends the transaction that *)
(* the statement ran in.                                                   *)
(***************************************************************************)
LEMMA RereadKeeps ==
  ASSUME AccessInv, NEW o \in Objects, Reread(o)
  PROVE  StepKeeps
<1>1. /\ obj[o] \in Object /\ obj[o].at = "reread"
      /\ UNCHANGED issued
      /\ conn[o] \in Connection /\ table \in Table
  BY AccessParts DEF Reread
<1>2. obj \in [Objects -> Object] /\ issued' \in {0} \cup Ids
  BY <1>1 DEF AccessInv, AccessTypeOK
<1>3. CASE obj[o].key = 0
  <2> DEFINE x == [obj[o] EXCEPT !.at = "idle", !.mode = "u"]
  <2>1. Untouched /\ obj' = [obj EXCEPT ![o].at = "idle", ![o].mode = "u"]
    BY <1>3 DEF Reread
  <2>2. obj' = [obj EXCEPT ![o] = x]
    BY <1>2, <2>1
  <2>3. /\ x \in Object /\ x.at = "idle" /\ x.mode = "u"
        /\ x.key = 0 /\ x.saved = obj[o].saved
    BY <1>1, <1>3 DEF Object
  <2> HIDE DEF x
  <2>4. Shows(x, conn[o], kept)
    BY <2>3 DEF Shows
  <2>5. SavedSafe(obj[o], conn[o], kept) => SavedSafe(x, conn[o], kept)
    BY <1>1, <1>3, <2>3, Marks DEF SavedSafe
  <2> QED
    BY <1>1, <2>1, <2>2, <2>3, <2>4, <2>5, UntouchedStep
<1>4. CASE obj[o].key # 0
  <2> DEFINE k == obj[o].key
  <2>1. PICK e \in OpenFor(o, {k}) :
          /\ Takes(o, e)
          /\ obj' = [obj EXCEPT ![o].at = "idle", ![o].mode = "u",
                       ![o].saved = IF obj[o].mode = "u" THEN @
                                    ELSE IF e.ok THEN k ELSE 0]
    BY <1>4 DEF Reread
  <2>2. /\ Good(e)
        /\ StaysGone(conn[o], e.conn)
        /\ AllWritten(conn[o], table, e)
        /\ e.ok => /\ e.conn.field \in Row
                   /\ e.conn.field.key \in {k}
                   /\ e.conn.field.key \in Kept(kept, e.table)
        /\ ~e.ok => ~e.conn.open /\ e.conn.server # "open"
    BY OpenForGood
  <2>3. k \in Ids
    BY <1>1, <1>4, ObjectFields
  <2> DEFINE saved == IF obj[o].mode = "u" THEN obj[o].saved
                      ELSE IF e.ok THEN k ELSE 0
             x == [obj[o] EXCEPT !.at = "idle", !.mode = "u", !.saved = saved]
  <2>4. obj' = [obj EXCEPT ![o] = x]
    BY <1>2, <2>1
  <2>5. saved \in Values \cup {0}
    BY <1>1, <2>3, ObjectFields, AccessAssumption
  <2>6. saved # 0 => \/ obj[o].mode = "u" /\ saved = obj[o].saved
                     \/ e.ok /\ saved = k
    OBVIOUS
  <2> HIDE DEF saved
  <2>7. /\ x \in Object /\ x.at = "idle" /\ x.mode = "u"
        /\ x.key = k /\ x.saved = saved
    BY <1>1, <2>5 DEF Object
  <2> HIDE DEF x, k
  <2>8. Shows(x, e.conn, Kept(kept, e.table))
    BY <2>2, <2>7 DEF Shows
  <2>9. ASSUME "commit" \notin Faults, SavedSafe(obj[o], conn[o], kept)
        PROVE  SavedSafe(x, e.conn, Kept(kept, e.table))
    <3>1. SUFFICES ASSUME saved # 0
                   PROVE  saved \in Kept(kept, e.table) \/ e.conn.server = "gone"
      BY <2>7 DEF SavedSafe
    <3>2. CASE e.ok /\ saved = k
      BY <2>2, <3>2
    <3>3. CASE obj[o].mode = "u" /\ saved = obj[o].saved
      <4>1. \/ saved \in kept
            \/ conn[o].server = "gone"
            \/ conn[o].server = "open" /\ conn[o].pending[k] = saved
        BY <1>1, <2>9, <3>1, <3>3 DEF SavedSafe, k
      <4>2. CASE saved \in kept
        BY <4>2 DEF Kept
      <4>3. CASE conn[o].server = "gone"
        BY <2>2, <4>3 DEF StaysGone
      <4>4. CASE conn[o].server = "open" /\ conn[o].pending[k] = saved
        <5>1. e.table = Over(conn[o].pending, table)
          BY <2>2, <2>9, <4>4 DEF AllWritten
        <5>2. saved # Keep /\ saved # Absent
          BY <2>5, <3>1, Marks
        <5>3. conn[o].pending \in Write
          BY <1>1, ConnectionFields
        <5> DEFINE p == conn[o].pending
        <5>4. \A j \in Ids :
                Over(p, table)[j] = IF p[j] = Keep THEN table[j] ELSE p[j]
          BY <1>1, <5>3, OverType
        <5>5. e.table[k] = saved
          BY <2>3, <4>4, <5>1, <5>2, <5>4 DEF k
        <5> QED
          BY <2>3, <5>2, <5>5 DEF Kept, k
      <4> QED
        BY <4>1, <4>2, <4>3, <4>4
    <3> QED
      BY <2>6, <3>1, <3>2, <3>3
  <2> QED
    BY <1>2, <2>1, <2>2, <2>4, <2>7, <2>8, <2>9, TakesStep
<1> QED
  BY <1>3, <1>4

\* A commit between two calls.
LEMMA CommitKeeps ==
  ASSUME AccessInv, NEW o \in Objects, Commit(o)
  PROVE  StepKeeps
<1>1. PICK e \in PgCmdCommit(conn[o], table) : Takes(o, e)
  BY DEF Commit
<1>2. /\ provider # "MySQL" /\ obj[o].at = "idle"
      /\ UNCHANGED << obj, issued >>
  BY DEF Commit
<1>3. /\ conn[o] \in Connection /\ table \in Table /\ Settled(conn[o])
      /\ obj[o] \in Object /\ Shows(obj[o], conn[o], kept)
  BY AccessParts
<1>4. /\ Good(e)
      /\ SameCursor(conn[o], e.conn)
      /\ StaysGone(conn[o], e.conn)
  BY <1>1, <1>2, LooksAndCommitsGood
<1>5. e.conn.server \in {"idle", "gone"}
  BY <1>1, <1>3, CmdCommitEnds
<1>6. obj' = [obj EXCEPT ![o] = obj[o]] /\ issued' \in {0} \cup Ids
  BY <1>2 DEF AccessInv, AccessTypeOK
<1>7. Shows(obj[o], e.conn, Kept(kept, e.table))
  BY <1>2, <1>3, <1>4, <1>5 DEF Shows, SameCursor
<1>8. kept \subseteq Kept(kept, e.table)
  BY DEF Kept
<1>9. SavedSafe(obj[o], conn[o], kept) => SavedSafe(obj[o], e.conn, Kept(kept, e.table))
  BY <1>2, <1>4, <1>8 DEF SavedSafe, StaysGone
<1> QED
  BY <1>1, <1>3, <1>4, <1>6, <1>7, <1>9, TakesStep

\* The next page, on a new connection.
LEMMA NextPageKeeps ==
  ASSUME AccessInv, NEW o \in Objects, NextPage(o)
  PROVE  StepKeeps
<1> DEFINE e == Outcome(TRUE, NewConnection, table)
<1>1. table \in Table /\ conn[o] \in Connection
  BY AccessParts
<1>2. /\ NewConnection \in Connection
      /\ NewObject \in Object
      /\ Sound(NewConnection, kept)
      /\ NoTransaction(NewConnection)
      /\ Shows(NewObject, NewConnection, kept)
      /\ SavedSafe(NewObject, NewConnection, kept)
  BY <1>1, NewSound
<1>3. e \in Outcomes /\ e.conn = NewConnection /\ e.table = table
  BY ZenonT(40), <1>1, <1>2, OutcomeMade
<1>4. Lawful(table, kept) /\ Kept(kept, table) = kept
  BY <1>1, KeptLawful DEF AccessInv
<1> HIDE DEF e
<1>5. Takes(o, e)
  BY <1>3, <1>4 DEF NextPage, Takes, Kept
<1>6. Good(e)
  BY <1>2, <1>3, <1>4 DEF Good
<1>7. obj' = [obj EXCEPT ![o] = NewObject] /\ issued' \in {0} \cup Ids
  BY DEF NextPage, AccessInv, AccessTypeOK
<1>8. /\ Shows(NewObject, e.conn, Kept(kept, e.table))
      /\ SavedSafe(NewObject, e.conn, Kept(kept, e.table))
  BY <1>2, <1>3, <1>4
<1> QED
  BY <1>2, <1>5, <1>6, <1>7, <1>8, TakesStep

\* Every step keeps the invariants.
LEMMA AccessStep ==
  ASSUME AccessInv, [AccessNext]_accessVars
  PROVE  StepKeeps
<1>1. CASE AccessNext
  <2>1. PICK o \in Objects :
          \/ \E k \in Ids : Show(o, k)
          \/ ShowWhere(o)
          \/ NextRow(o)
          \/ \E mode \in {"i", "u"} : Rejected(o, mode)
          \/ Insert(o)
          \/ ResultKey(o)
          \/ Update(o)
          \/ Reread(o)
          \/ Delete(o)
          \/ Reset(o)
          \/ Commit(o)
          \/ NextPage(o)
    BY <1>1 DEF AccessNext
  <2> QED
    BY <2>1, ShowKeeps, ShowWhereKeeps, NextRowKeeps, RejectedKeeps, InsertKeeps,
       ResultKeyKeeps, UpdateKeeps, RereadKeeps, DeleteKeeps, ResetKeeps,
       CommitKeeps, NextPageKeeps
<1>2. CASE UNCHANGED accessVars
  BY <1>2 DEF accessVars, StepKeeps, AccessInv, AccessTypeOK, SavedInv
<1> QED
  BY <1>1, <1>2

\* The pages begin with an empty table.
LEMMA AccessStarts ==
  ASSUME AccessInit
  PROVE  AccessInv /\ SavedInv
<1>1. table \in Table /\ \A k \in Ids : table[k] = Absent
  BY DEF AccessInit, Table
<1>2. /\ NewConnection \in Connection
      /\ NewObject \in Object
      /\ Sound(NewConnection, kept)
      /\ NoTransaction(NewConnection)
      /\ Shows(NewObject, NewConnection, kept)
      /\ SavedSafe(NewObject, NewConnection, kept)
  BY <1>1, NewSound
<1>3. \A o \in Objects : conn[o] = NewConnection /\ obj[o] = NewObject
  BY DEF AccessInit
<1>4. AccessTypeOK
  BY <1>1, <1>2 DEF AccessInit, AccessTypeOK
<1>5. TableKept(table, kept)
  BY <1>1 DEF TableKept
<1> QED
  BY <1>2, <1>3, <1>4, <1>5 DEF AccessInv, SavedInv

-----------------------------------------------------------------------------
(* Theorems.                                                               *)

\* The invariant of every behaviour.
LEMMA AccessInvariant == AccessSpec => []AccessInv
<1>1. AccessInit => AccessInv
  BY AccessStarts
<1>2. AccessInv /\ [AccessNext]_accessVars => AccessInv'
  BY AccessStep DEF StepKeeps
<1> QED
  BY <1>1, <1>2, PTL DEF AccessSpec

(***************************************************************************)
(* Every variable keeps its type, through every call of both drivers and   *)
(* every failure: in particular what a transaction has pending are writes, *)
(* and the rows of a recordset are rows.                                   *)
(***************************************************************************)
THEOREM AccessTypesHold == AccessSpec => []AccessTypeOK
<1>1. AccessInv => AccessTypeOK
  BY DEF AccessInv
<1> QED
  BY <1>1, AccessInvariant, PTL

(***************************************************************************)
(* Whatever is called in whatever order, and whichever statement fails,    *)
(* the driver knows of every transaction that the server has open or has   *)
(* aborted: the isTransactioning flag of postgresDB covers it.             *)
(***************************************************************************)
THEOREM FlagCovers == AccessSpec => []FlagCoversTransaction
<1>1. AccessInv => FlagCoversTransaction
  BY DEF AccessInv, Sound, Settled, FlagCoversTransaction
<1> QED
  BY <1>1, AccessInvariant, PTL

(***************************************************************************)
(* The row an object shows is the row its key names, for every sequence of *)
(* get_data, next, insert, update and delete over either driver.           *)
(***************************************************************************)
THEOREM ShownIsKeyed == AccessSpec => []ShownRowIsKeyedRow
<1>1. AccessInv => ShownRowIsKeyedRow
  BY DEF AccessInv, Shows, ShownRowIsKeyedRow
<1> QED
  BY <1>1, AccessInvariant, PTL

(***************************************************************************)
(* Where a COMMIT that is sent does not fail, what db_action reports as    *)
(* saved has been in the table, unless the connection broke: also when the *)
(* statement ran inside the transaction of an open recordset.              *)
(***************************************************************************)
THEOREM SavedWasStored ==
  ASSUME "commit" \notin Faults
  PROVE  AccessSpec => []SavedIsStored
<1>1. AccessInit => AccessInv /\ SavedInv
  BY AccessStarts
<1>2. AccessInv /\ SavedInv /\ [AccessNext]_accessVars => (AccessInv /\ SavedInv)'
  BY AccessStep DEF StepKeeps
<1>3. SavedInv => SavedIsStored
  BY DEF SavedInv, SavedSafe, SavedIsStored
<1> QED
  BY <1>1, <1>2, <1>3, PTL DEF AccessSpec
=============================================================================
