------------------------------ MODULE Rebates ------------------------------
(***************************************************************************)
(* The rebates of paydrop (webconsole/paydrop_source): the import of the   *)
(* purchases that a marketer reports (member_purchase.cpp, with            *)
(* Purchase_Import_Results.hpp) and the run that writes a check to every   *)
(* member with enough credit (member_check.cpp).                           *)
(*                                                                         *)
(* Both are pages: a process each, one SQL statement after another, on     *)
(* tables without transactions.  A step is a statement with what the       *)
(* program does before the next one.                                       *)
(***************************************************************************)
EXTENDS Integers, Sequences

CONSTANTS
  Pages,          \* processes
  Members,        \* members, those with a complete address and others
  Complete,       \* the members with an address and a postal code
  DefaultMember,  \* 'Default Login Id' of the Config table
  Lines,          \* lines of the reported files, see Line
  Files,          \* sequences of lines, Blank among them
  Blank,          \* a line without text
  MinCredit,      \* 'Minimum Credit Amount'
  MaxPurchases,   \* bound on the rows of MemberPurchase
  MaxChecks,      \* bound on the rows of MemberCheck
  Failing         \* a subset of {"insert", "update", "delete"}: statements
                  \* that may fail

(***************************************************************************)
(* good: the member and the store are known, the date and the amount can   *)
(* be read.  order: the order number, 0 for none.  credit: the discount of *)
(* the store on the amount, negative for what was returned.  old: the      *)
(* purchase is 'Minimum Credit Days' back when it is reported.             *)
(***************************************************************************)
Line == [member : Members, amount : Int, order : Nat, credit : Int,
         old : BOOLEAN, good : BOOLEAN]

ASSUME RebatesAssumption ==
  /\ Complete \subseteq Members
  /\ Lines \subseteq Line /\ Blank \notin Lines
  /\ Files \subseteq Seq(Lines \cup {Blank})
  /\ \A f \in Files : f # << >> /\ f[1] # Blank
  /\ MaxPurchases \in Nat /\ MaxChecks \in Nat /\ MinCredit \in Int

VARIABLES
  careful,        \* pages are used one at a time, none dies
  purchases,      \* MemberPurchase, in the order of the keys
  checks,         \* MemberCheck, in the order of the keys
  pc,             \* pc[p]: the statement page p is at
  file,           \* file[p]: what it imports
  line,           \* line[p]: the line of it
  clean,          \* clean[p]: no statement of this import has failed
  todo,           \* todo[p]: the members that rs has not gone past
  totals,         \* totals[p]: the totals that rs holds for them
  mcheck,         \* mcheck[p]: the key of the check object
  imported        \* files imported without a failing statement

rebateVars == << careful, purchases, checks, pc, file, line, clean,
                 todo, totals, mcheck, imported >>

importVars == << file, line, clean, imported >>
runVars    == << todo, totals, mcheck >>

Purchase == [line : Lines, old : BOOLEAN, check : 0 .. MaxChecks]
Check    == [member : Members, amount : Int, void : BOOLEAN]

RebatesTypeOK ==
  /\ careful \in BOOLEAN
  /\ purchases \in Seq(Purchase) /\ Len(purchases) <= MaxPurchases
  /\ checks \in Seq(Check) /\ Len(checks) <= MaxChecks
  /\ pc \in [Pages -> {"idle", "look", "insert", "members", "update", "undo"}]
  /\ file \in [Pages -> Files \cup {<< >>}]
  /\ line \in [Pages -> Nat]
  /\ clean \in [Pages -> BOOLEAN]
  /\ todo \in [Pages -> SUBSET Members]
  /\ totals \in [Pages -> [Members -> Int]]
  /\ mcheck \in [Pages -> 0 .. MaxChecks]
  /\ imported \subseteq Files

RebatesInit ==
  /\ careful \in BOOLEAN
  /\ purchases = << >> /\ checks = << >>
  /\ pc = [p \in Pages |-> "idle"]
  /\ file = [p \in Pages |-> << >>]
  /\ line = [p \in Pages |-> 0]
  /\ clean = [p \in Pages |-> FALSE]
  /\ todo = [p \in Pages |-> {}]
  /\ totals = [p \in Pages |-> [m \in Members |-> 0]]
  /\ mcheck = [p \in Pages |-> 0]
  /\ imported = {}

AtRest == \A p \in Pages : pc[p] = "idle"

MayBegin(p) == pc[p] = "idle" /\ (careful => AtRest)

To(p, step) == pc' = [pc EXCEPT ![p] = step]

-----------------------------------------------------------------------------
(* The import.                                                             *)

\* form_action, for a file that is there.
BeginImport(p) ==
  /\ MayBegin(p)
  /\ \E f \in Files : file' = [file EXCEPT ![p] = f]
  /\ line' = [line EXCEPT ![p] = 1]
  /\ clean' = [clean EXCEPT ![p] = TRUE]
  /\ To(p, "look")
  /\ UNCHANGED << careful, purchases, checks, runVars, imported >>

Current(p) == file[p][line[p]]

\* Mutant of SameTransaction: an order number never matches.
SameTransaction_NoOrder(l, row) ==
  /\ row.member = l.member
  /\ row.amount = l.amount
  /\ l.order = 0

(***************************************************************************)
(* The clause of checkTransaction, on one day and in one store: an order   *)
(* number counts only if the new line has one.                             *)
(***************************************************************************)
SameTransaction(l, row) ==
  /\ row.member = l.member
  /\ row.amount = l.amount
  /\ l.order \in {0, row.order}

Known(l) == \E i \in DOMAIN purchases : SameTransaction(l, purchases[i].line)

\* A line without text ends the import as the end of the file does.
AtEnd(p) == Append(file[p], Blank)[line[p] + 1] = Blank

(***************************************************************************)
(* The rest of the loop: pir.db_insert, into a table that only the page    *)
(* itself reads, and getLine.  ok: the statements of this line went well.  *)
(***************************************************************************)
NextLine(p, ok) ==
  \/ /\ AtEnd(p)
     /\ imported' = IF clean[p] /\ ok THEN imported \cup {file[p]}
                                      ELSE imported
     /\ file' = [file EXCEPT ![p] = << >>]
     /\ line' = [line EXCEPT ![p] = 0]
     /\ clean' = [clean EXCEPT ![p] = FALSE]
     /\ To(p, "idle")
  \/ /\ ~AtEnd(p)
     /\ line' = [line EXCEPT ![p] = @ + 1]
     /\ clean' = [clean EXCEPT ![p] = @ /\ ok]
     /\ To(p, "look")
     /\ UNCHANGED << file, imported >>

\* Map, and the search of checkTransaction.
CheckTransaction(p) ==
  /\ pc[p] = "look"
  /\ IF Current(p).good /\ ~Known(Current(p))
       THEN /\ To(p, "insert")
            /\ UNCHANGED importVars
       ELSE NextLine(p, TRUE)
  /\ UNCHANGED << careful, purchases, checks, runVars >>

\* Mutant of NewPurchase: the check is left as it was in memory.
NewPurchase_NoCheckId(l) == [line |-> l, old |-> l.old, check |-> -1]

NewPurchase(l) == [line |-> l, old |-> l.old, check |-> 0]

\* The insert of checkTransaction.  A failure does not change pir.Status.
InsertPurchase(p) ==
  /\ pc[p] = "insert"
  /\ \/ /\ Len(purchases) < MaxPurchases
        /\ purchases' = Append(purchases, NewPurchase(Current(p)))
        /\ NextLine(p, TRUE)
     \/ /\ "insert" \in Failing \/ Len(purchases) = MaxPurchases
        /\ NextLine(p, FALSE)
        /\ UNCHANGED purchases
  /\ UNCHANGED << careful, checks, runVars >>

-----------------------------------------------------------------------------
(* The run of the checks.                                                  *)

\* Mutant of Unpaid: paid purchases count again.
Unpaid_Again(m) ==
  {i \in DOMAIN purchases : purchases[i].line.member = m /\ purchases[i].old}

\* The purchases of m that are old enough and not on a check.
Unpaid(m) ==
  {i \in DOMAIN purchases : /\ purchases[i].line.member = m
                            /\ purchases[i].old
                            /\ purchases[i].check = 0}

\* What SUM adds up: the credits by the key of the row.
SumOf(credits) ==
  LET sum[n \in 0 .. MaxPurchases] ==
        IF n = 0 THEN 0 ELSE sum[n - 1] + credits[n]
  IN  sum[MaxPurchases]

\* The sum over the given rows of a table.
CreditOf(table, rows) ==
  SumOf([n \in 1 .. MaxPurchases |->
           IF n \in rows THEN table[n].line.credit ELSE 0])

Credit(rows) == CreditOf(purchases, rows)

(***************************************************************************)
(* sqlQualPurchases: the members with unpaid purchases and their totals,   *)
(* all of the result in the memory of the process.                         *)
(***************************************************************************)
BeginRun(p) ==
  LET ms == {m \in Members \ {DefaultMember} : Unpaid(m) # {}}
  IN  /\ MayBegin(p)
      /\ ms # {}
      /\ todo' = [todo EXCEPT ![p] = ms]
      /\ totals' = [totals EXCEPT ![p] =
                      [m \in Members |-> IF m \in ms THEN Credit(Unpaid(m))
                                                     ELSE 0]]
      /\ To(p, "members")
      /\ UNCHANGED << careful, purchases, checks, importVars, mcheck >>

\* rs.next, from the members of todo to those left.
Forget(p, m) ==
  /\ todo' = [todo EXCEPT ![p] = @ \ {m}]
  /\ totals' = [totals EXCEPT ![p][m] = 0]
  /\ mcheck' = [mcheck EXCEPT ![p] = 0]
  /\ To(p, IF todo[p] = {m} THEN "idle" ELSE "members")

\* A member without an address, or with too little credit.
SkipMember(p) ==
  /\ pc[p] = "members"
  /\ \E m \in todo[p] :
       /\ m \notin Complete \/ totals[p][m] < MinCredit
       /\ Forget(p, m)
  /\ UNCHANGED << careful, purchases, checks, importVars >>

(***************************************************************************)
(* mcheck.db_insert.  The run goes on if it fails, with the key 0.  The    *)
(* member is the first of todo from here to the end of the update.         *)
(***************************************************************************)
InsertCheck(p) ==
  /\ pc[p] = "members"
  /\ \E m \in todo[p] :
       /\ m \in Complete /\ totals[p][m] >= MinCredit
       /\ \/ /\ Len(checks) < MaxChecks
             /\ checks' = Append(checks, [member |-> m,
                            amount |-> totals[p][m], void |-> FALSE])
             /\ mcheck' = [mcheck EXCEPT ![p] = Len(checks) + 1]
             /\ To(p, "update")
             /\ UNCHANGED << todo, totals >>
          \/ /\ "insert" \in Failing \/ Len(checks) = MaxChecks
             /\ Forget(p, m)
             /\ UNCHANGED checks
  /\ UNCHANGED << careful, purchases, importVars >>

(***************************************************************************)
(* updatePaymentRecords: what is unpaid now is put on the check.           *)
(***************************************************************************)
UpdatePurchases(p) ==
  LET m == checks[mcheck[p]].member
  IN  /\ pc[p] = "update"
      /\ \/ /\ purchases' = [i \in DOMAIN purchases |->
                 IF i \in Unpaid(m)
                   THEN [purchases[i] EXCEPT !.check = mcheck[p]]
                   ELSE purchases[i]]
            /\ Forget(p, m)
         \/ /\ "update" \in Failing
            /\ To(p, "undo")
            /\ UNCHANGED << purchases, runVars >>
      /\ UNCHANGED << careful, checks, importVars >>

\* Mutant of UndoCheck: the check stays.
UndoCheck_Keep(p) ==
  /\ pc[p] = "undo"
  /\ Forget(p, checks[mcheck[p]].member)
  /\ UNCHANGED << careful, purchases, checks, importVars >>

\* "Error! Roll back the check record!"
UndoCheck(p) ==
  /\ pc[p] = "undo"
  /\ \/ checks' = [checks EXCEPT ![mcheck[p]].void = TRUE]
     \/ "delete" \in Failing /\ UNCHANGED checks
  /\ Forget(p, checks[mcheck[p]].member)
  /\ UNCHANGED << careful, purchases, importVars >>

-----------------------------------------------------------------------------
(* What happens to the pages.                                              *)

\* Purchases come of age, at midnight.
DayPasses ==
  /\ careful => AtRest
  /\ \E i \in DOMAIN purchases : ~purchases[i].old
  /\ purchases' = [i \in DOMAIN purchases |->
                     [purchases[i] EXCEPT !.old = TRUE]]
  /\ UNCHANGED << careful, checks, pc, importVars, runVars >>

\* A process is killed.
PageDies(p) ==
  /\ ~careful
  /\ pc[p] # "idle"
  /\ To(p, "idle")
  /\ file' = [file EXCEPT ![p] = << >>]
  /\ line' = [line EXCEPT ![p] = 0]
  /\ clean' = [clean EXCEPT ![p] = FALSE]
  /\ todo' = [todo EXCEPT ![p] = {}]
  /\ totals' = [totals EXCEPT ![p] = [m \in Members |-> 0]]
  /\ mcheck' = [mcheck EXCEPT ![p] = 0]
  /\ UNCHANGED << careful, purchases, checks, imported >>

RebatesNext ==
  \/ DayPasses
  \/ \E p \in Pages :
       \/ BeginImport(p) \/ CheckTransaction(p) \/ InsertPurchase(p)
       \/ BeginRun(p) \/ SkipMember(p) \/ InsertCheck(p)
       \/ UpdatePurchases(p) \/ UndoCheck(p)
       \/ PageDies(p)

RebatesSpec == RebatesInit /\ [][RebatesNext]_rebateVars

-----------------------------------------------------------------------------
(* Properties.                                                             *)

(***************************************************************************)
(* The books balance when nothing is under way, if the pages are used one  *)
(* at a time and a check that could not be used can be deleted: the amount *)
(* of a check is the credit of the purchases that name it, also after      *)
(* statements that failed.                                                 *)
(***************************************************************************)
BooksBalance ==
  (careful /\ AtRest) =>
    \A c \in DOMAIN checks :
      LET rows == {i \in DOMAIN purchases : purchases[i].check = c}
      IN  IF checks[c].void THEN rows = {}
                            ELSE checks[c].amount = Credit(rows)

(***************************************************************************)
(* A purchase that is on a check stays on that check, whatever overlaps or *)
(* dies, so that no later run pays it again.                               *)
(***************************************************************************)
PaidIsPaid ==
  \A i \in DOMAIN purchases :
    purchases[i].check # 0 => purchases'[i].check = purchases[i].check

PaidStaysPaid == [][PaidIsPaid]_purchases

(***************************************************************************)
(* Importing a file again, after a failure or by mistake, neither loses a  *)
(* transaction nor adds one a second time: no two rows stand for the same  *)
(* transaction, and what was imported without a failure is there, up to    *)
(* the first line without text.                                            *)
(***************************************************************************)
EachTransactionOnce ==
  careful =>
    /\ \A i, j \in DOMAIN purchases :
         i < j => ~SameTransaction(purchases[j].line, purchases[i].line)
    /\ \A f \in imported : \A i \in DOMAIN f :
         (\A j \in 1 .. i : f[j] # Blank) =>
           (f[i].good => Known(f[i]))
=============================================================================
