---------------------------- MODULE TableAccess ----------------------------
(***************************************************************************)
(* The glue between the objects of a page and their table: the class       *)
(* read_write_base of openForms, over the drivers of module Drivers.       *)
(*                                                                         *)
(* An object has a connection, a command and a recordset of its own, and   *)
(* works for one page.  Objects of several pages use the table at a time,  *)
(* one call of a driver after another.  Each value written is another      *)
(* number, so that a value tells which write it comes from.                *)
(***************************************************************************)
EXTENDS Drivers

CONSTANTS
  Objects,      \* objects that may be there at a time
  Providers     \* a subset of {"PostGresQL", "MySQL"}

ASSUME AccessAssumption ==
  /\ Ids \subseteq Values      \* keys and values are counted together
  /\ Providers \subseteq {"PostGresQL", "MySQL"}

VARIABLES
  provider,     \* the driver the pages are built with
  table,        \* the table, as everybody sees it
  conn,         \* conn[o]: the connection of object o
  obj,          \* obj[o]: the rest of it, see Object
  issued,       \* the last value written, and the last key given out
  kept          \* every value that has been in the table

accessVars == << provider, table, conn, obj, issued, kept >>

(***************************************************************************)
(* key: m_key.  at, mode: the call that db_action makes next, and for      *)
(* what.  saved: the value that m_result reports as saved, or 0.           *)
(***************************************************************************)
Object == [key : Ids \cup {0}, at : {"idle", "resultKey", "reread"},
           mode : {"i", "u"}, saved : Values \cup {0}]

NewObject == [key |-> 0, at |-> "idle", mode |-> "u", saved |-> 0]

AccessTypeOK ==
  /\ provider \in Providers
  /\ table \in Table
  /\ conn \in [Objects -> Connection]
  /\ obj \in [Objects -> Object]
  /\ issued \in {0} \cup Ids
  /\ kept \subseteq Values

AccessInit ==
  /\ provider \in Providers
  /\ table = [k \in Ids |-> Absent]
  /\ conn = [o \in Objects |-> NewConnection]
  /\ obj = [o \in Objects |-> NewObject]
  /\ issued = 0
  /\ kept = {}

-----------------------------------------------------------------------------
(* The calls of the driver.                                                *)

Execute(o, w) ==
  IF provider = "MySQL" THEN Run(conn[o], table, w)
                        ELSE PgCommand(conn[o], table, w)

OpenFor(o, ks) ==
  IF provider = "MySQL" THEN MyOpen(conn[o], table, ks)
                        ELSE PgOpen(conn[o], table, ks)

\* The other connections wait for a row that a transaction has written.
Unlocked(o, k) ==
  k \notin {j \in Ids : \E p \in Objects \ {o} : conn[p].pending[j] # Keep}

\* A statement for the row k: nothing is written if there is no such row.
ToRow(o, k, v) ==
  IF k # 0 /\ Seen(conn[o], table)[k] # Absent THEN Put(k, v)
                                               ELSE NothingPending

\* The driver's call has the outcome e.
Takes(o, e) ==
  /\ conn' = [conn EXCEPT ![o] = e.conn]
  /\ table' = e.table
  /\ kept' = kept \cup ({e.table[k] : k \in Ids} \ {Absent})
  /\ UNCHANGED provider

Untouched == UNCHANGED << provider, table, conn, kept >>

-----------------------------------------------------------------------------
(* read_write_base.                                                        *)

(***************************************************************************)
(* db_action("s"), also for a key without a row: get_data by the key.      *)
(***************************************************************************)
Show(o, k) ==
  /\ obj[o].at = "idle"
  /\ \E e \in OpenFor(o, {k}) :
       /\ Takes(o, e)
       /\ obj' = [obj EXCEPT ![o].key = k, ![o].saved = 0]
  /\ UNCHANGED issued

\* get_data(where, order): the key comes from the first row found.
ShowWhere(o) ==
  /\ obj[o].at = "idle"
  /\ \E e \in OpenFor(o, Ids) :
       /\ Takes(o, e)
       /\ obj' = [obj EXCEPT ![o].key = IF e.ok THEN e.conn.field.key ELSE @]
  /\ UNCHANGED issued

\* next, as a loop calls it after get_data has found a row.
NextRow(o) ==
  /\ obj[o].at = "idle"
  /\ conn[o].open
  /\ \E e \in IF provider = "MySQL" THEN MyNext(conn[o], table)
                                    ELSE PgNext(conn[o], table) :
       /\ Takes(o, e)
       /\ obj' = [obj EXCEPT ![o].key = IF e.ok THEN e.conn.field.key ELSE @]
  /\ UNCHANGED issued

\* ivalidate or uvalidate says no: an update still goes on to get_data.
Rejected(o, mode) ==
  /\ obj[o].at = "idle"
  /\ obj' = [obj EXCEPT ![o].saved = 0,
               ![o].key = IF mode = "i" THEN 0 ELSE @,
               ![o].at = IF mode = "i" THEN "idle" ELSE "reread"]
  /\ Untouched
  /\ UNCHANGED issued

\* db_insert, up to the statement.  The key is reset in any case.
Insert(o) ==
  LET k == issued + 1
  IN  /\ obj[o].at = "idle"
      /\ k \in Ids
      /\ \E e \in Execute(o, Put(k, k)) :
           /\ Takes(o, e)
           /\ obj' = [obj EXCEPT ![o] =
                        IF e.ok THEN [key |-> k, at |-> "resultKey",
                                      mode |-> "i", saved |-> 0]
                                ELSE NewObject]
      /\ issued' = k

\* resultKey: the driver finds the key of the row just inserted, or 0.
ResultKey(o) ==
  /\ obj[o].at = "resultKey"
  /\ \/ /\ provider = "MySQL"
        /\ Untouched
        /\ obj' = [obj EXCEPT ![o].at = "reread"]
     \/ /\ provider # "MySQL"
        /\ \E e \in PgResultKey(conn[o], table, obj[o].key) :
             /\ Takes(o, e)
             /\ obj' = [obj EXCEPT ![o].key = IF e.ok THEN @ ELSE 0,
                                   ![o].at = "reread"]
  /\ UNCHANGED issued

(***************************************************************************)
(* db_update, up to the end of its statement.                              *)
(***************************************************************************)
Update(o) ==
  LET v == issued + 1
      k == obj[o].key
  IN  /\ obj[o].at = "idle"
      /\ v \in Ids
      /\ Unlocked(o, k)
      /\ \E e \in Execute(o, ToRow(o, k, v)) :
           /\ Takes(o, e)
           /\ obj' = [obj EXCEPT ![o].at = "reread",
                        ![o].saved = IF e.ok /\ ToRow(o, k, v) # NothingPending
                                       THEN v ELSE 0]
      /\ issued' = v

\* Mutant of Reread: an update does not read its row again.
Reread_InsertOnly(o) ==
  LET x == obj[o]
  IN  /\ x.at = "reread"
      /\ \/ /\ x.key = 0 \/ x.mode = "u"
            /\ Untouched
            /\ obj' = [obj EXCEPT ![o].at = "idle", ![o].mode = "u"]
         \/ /\ x.key # 0 /\ x.mode = "i"
            /\ \E e \in OpenFor(o, {x.key}) :
                 /\ Takes(o, e)
                 /\ obj' = [obj EXCEPT ![o].at = "idle", ![o].mode = "u",
                              ![o].saved = IF e.ok THEN x.key ELSE 0]
      /\ UNCHANGED issued

(***************************************************************************)
(* The get_data at the end of an insert or update.  An insert is reported  *)
(* as successful if its row is found again, an update if its statement     *)
(* was, "don't modify return status".                                      *)
(***************************************************************************)
Reread(o) ==
  LET x == obj[o]
  IN  /\ x.at = "reread"
      /\ \/ /\ x.key = 0
            /\ Untouched
            /\ obj' = [obj EXCEPT ![o].at = "idle", ![o].mode = "u"]
         \/ /\ x.key # 0
            /\ \E e \in OpenFor(o, {x.key}) :
                 /\ Takes(o, e)
                 /\ obj' = [obj EXCEPT ![o].at = "idle", ![o].mode = "u",
                              ![o].saved = IF x.mode = "u" THEN @
                                           ELSE IF e.ok THEN x.key ELSE 0]
      /\ UNCHANGED issued

(***************************************************************************)
(* db_action("d"): db_delete, and on to the case of a reset, which forgets *)
(* the key.                                                                *)
(***************************************************************************)
Delete(o) ==
  LET k == obj[o].key
  IN  /\ obj[o].at = "idle"
      /\ Unlocked(o, k)
      /\ \E e \in Execute(o, ToRow(o, k, Absent)) :
           /\ Takes(o, e)
      /\ obj' = [obj EXCEPT ![o].key = 0, ![o].saved = 0]
      /\ UNCHANGED issued

\* db_action("r") and ("n").
Reset(o) ==
  /\ obj[o].at = "idle"
  /\ obj' = [obj EXCEPT ![o].key = 0, ![o].saved = 0]
  /\ Untouched
  /\ UNCHANGED issued

\* commit, "for transaction capable dbs".
Commit(o) ==
  /\ obj[o].at = "idle"
  /\ provider # "MySQL"
  /\ \E e \in PgCmdCommit(conn[o], table) : Takes(o, e)
  /\ UNCHANGED << obj, issued >>

\* The page is done: the connection is closed, and what is pending with it.
NextPage(o) ==
  /\ obj[o].at = "idle"
  /\ obj' = [obj EXCEPT ![o] = NewObject]
  /\ conn' = [conn EXCEPT ![o] = NewConnection]
  /\ UNCHANGED << provider, table, kept, issued >>

AccessNext ==
  \E o \in Objects :
    \/ \E k \in Ids : Show(o, k)
    \/ ShowWhere(o)
    \/ NextRow(o)
    \/ \E mode \in {"i", "u"} : Rejected(o, mode)
    \/ Insert(o)
    \/ ResultKey(o)
    \/ Update(o)
    \/ Reread(o)
    \/ Delete(o)
    \/ Reset(o)
    \/ Commit(o)
    \/ NextPage(o)

AccessSpec == AccessInit /\ [][AccessNext]_accessVars

-----------------------------------------------------------------------------
(* Properties.                                                             *)

(***************************************************************************)
(* A transaction that the server has open, or that it has aborted, is one  *)
(* the driver knows of: otherwise nobody would ever end it.                *)
(***************************************************************************)
FlagCoversTransaction ==
  \A o \in Objects :
    conn[o].server \in {"open", "aborted"} => conn[o].flag

(***************************************************************************)
(* When db_action reports an insert or an update as successful, the value  *)
(* has reached the table, also when the statement ran in the transaction   *)
(* of an open recordset: the read that follows ends it.  (A connection     *)
(* that breaks between the two is the exception.)                          *)
(***************************************************************************)
SavedIsStored ==
  \A o \in Objects :
    (obj[o].at = "idle" /\ obj[o].saved # 0) =>
      obj[o].saved \in kept \/ conn[o].server = "gone"

(***************************************************************************)
(* The row whose fields an object has read is the row its key names, so    *)
(* that a page never saves the values of one row under another's key.      *)
(***************************************************************************)
ShownRowIsKeyedRow ==
  \A o \in Objects :
    (obj[o].at = "idle" /\ conn[o].open /\ obj[o].key # 0) =>
      conn[o].field.key = obj[o].key
=============================================================================
