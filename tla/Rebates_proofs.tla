--------------------------- MODULE Rebates_proofs ---------------------------
(***************************************************************************)
(* Proofs about Rebates, for any number of pages, members, lines, files    *)
(* and bounds and any failing statements: what is on a check stays on that *)
(* check, however pages overlap and die; and if they are used one at a     *)
(* time, importing neither loses a transaction nor adds one twice, and the *)
(* amount of a check is the credit of the purchases on it.                 *)
(***************************************************************************)
EXTENDS Rebates, SequenceTheorems, WellFoundedInduction, TLAPS

Stages == {"idle", "look", "insert", "members", "update", "undo"}

Importing(p) == pc[p] \in {"look", "insert"}

\* An import is at a line of its file, and has met no line without text.
AtALine ==
  \A p \in Pages : Importing(p) =>
    /\ file[p] \in Files
    /\ line[p] \in 1 .. Len(file[p])
    /\ \A j \in 1 .. line[p] : file[p][j] # Blank

\* A run that updates or undoes does so for a check that it has inserted.
HasCheck ==
  \A p \in Pages : pc[p] \in {"update", "undo"} => mcheck[p] \in DOMAIN checks

RunInv == RebatesTypeOK /\ AtALine /\ HasCheck

\* One at a time, as the pages are used.
OneAtATime ==
  careful => \A p, q \in Pages : pc[p] # "idle" /\ pc[q] # "idle" => p = q

\* What is about to be inserted is not there.
InsertsNews ==
  careful => \A p \in Pages :
    pc[p] = "insert" => Current(p).good /\ ~Known(Current(p))

\* The lines that an import without failures has gone past are there.
PastIsKnown ==
  careful => \A p \in Pages : (Importing(p) /\ clean[p]) =>
    \A i \in 1 .. (line[p] - 1) : file[p][i].good => Known(file[p][i])

ImportInv ==
  RunInv /\ OneAtATime /\ InsertsNews /\ PastIsKnown /\ EachTransactionOnce

-----------------------------------------------------------------------------
(* Lines and rows.                                                         *)

\* The line an import is at is a line.
LEMMA CurrentIsLine ==
  ASSUME AtALine, NEW p \in Pages, Importing(p), line[p] \in Nat
  PROVE  Current(p) \in Lines
<1>1. /\ file[p] \in Files /\ line[p] \in 1 .. Len(file[p])
      /\ \A j \in 1 .. line[p] : file[p][j] # Blank
  BY DEF AtALine
<1>2. file[p] \in Seq(Lines \cup {Blank})
  BY <1>1, RebatesAssumption
<1>3. line[p] \in 1 .. line[p]
  BY <1>1
<1>4. file[p][line[p]] \in Lines \cup {Blank}
  BY <1>1, <1>2
<1> QED
  BY <1>1, <1>3, <1>4 DEF Current

(***************************************************************************)
(* Induction over the numbers up to n, for a set of numbers in place of a  *)
(* predicate: a number that is missing has a least one before it.          *)
(***************************************************************************)
LEMMA UpTo ==
  ASSUME NEW n \in Nat, NEW S, 0 \in S,
         \A k \in 0 .. n - 1 : k \in S => k + 1 \in S
  PROVE  \A k \in 0 .. n : k \in S
<1> DEFINE Bad  == {k \in Nat : k <= n /\ k \notin S}
           less == OpToRel(<, Nat)
<1>1. less = {ss \in Nat \X Nat : ss[1] < ss[2]} /\ IsWellFoundedOn(less, Nat)
  BY NatLessThanWellFounded DEF OpToRel
<1> HIDE DEF less
<1>2. ASSUME Bad # {} PROVE FALSE
  <2>1. Bad \subseteq Nat
    OBVIOUS
  <2> HIDE DEF Bad
  <2>2. PICK k \in Bad : \A j \in Bad : ~(<< j, k >> \in less)
    BY <1>1, <1>2, <2>1, WFMin
  <2>3. k \in Nat /\ k <= n /\ k \notin S /\ k # 0
    BY <2>2 DEF Bad
  <2>4. k - 1 \in Nat /\ k - 1 < k /\ k - 1 \in 0 .. n - 1 /\ (k - 1) + 1 = k
    BY <2>3
  <2>5. << k - 1, k >> \in less
    BY <1>1, <2>3, <2>4
  <2>6. k - 1 \in S
    BY <2>2, <2>4, <2>5 DEF Bad
  <2> QED
    BY <2>3, <2>4, <2>6
<1> QED
  BY <1>2

\* What is added up so far, for the first k credits.
UpToSum(f, c, k) ==
  /\ f \in [0 .. k -> Int] /\ f[0] = 0
  /\ \A n \in 1 .. k : f[n] = f[n - 1] + c[n]

\* Numbers can be added up.
LEMMA SumExists ==
  ASSUME NEW c \in [1 .. MaxPurchases -> Int]
  PROVE  \E f : UpToSum(f, c, MaxPurchases)
<1> DEFINE N == MaxPurchases
           S == {k \in 0 .. N : \E f : UpToSum(f, c, k)}
<1>1. N \in Nat /\ \A n \in 1 .. N : c[n] \in Int
  BY RebatesAssumption
<1> HIDE DEF N
<1>2. 0 \in S
  <2>1. UpToSum([n \in 0 .. 0 |-> 0], c, 0)
    BY DEF UpToSum
  <2> QED
    BY <1>1, <2>1
<1>3. ASSUME NEW k \in 0 .. N - 1, k \in S
      PROVE  k + 1 \in S
  <2>1. PICK f : UpToSum(f, c, k)
    BY <1>3
  <2> DEFINE g == [n \in 0 .. k + 1 |->
                     IF n = k + 1 THEN f[k] + c[k + 1] ELSE f[n]]
  <2>2. k \in Nat /\ k + 1 \in 1 .. N /\ c[k + 1] \in Int /\ f[k] \in Int
    BY <1>1, <1>3, <2>1 DEF UpToSum
  <2>3. g \in [0 .. k + 1 -> Int] /\ g[0] = 0
    BY <2>1, <2>2 DEF UpToSum
  <2>4. ASSUME NEW n \in 1 .. k + 1 PROVE g[n] = g[n - 1] + c[n]
    <3>1. CASE n = k + 1
      BY <2>2, <3>1
    <3>2. CASE n # k + 1
      <4>1. n \in 1 .. k /\ n - 1 \in 0 .. k
        BY <2>2, <3>2
      <4> QED
        BY <2>1, <2>2, <4>1 DEF UpToSum
    <3> QED
      BY <3>1, <3>2
  <2>5. UpToSum(g, c, k + 1)
    <3> HIDE DEF g
    <3> QED
      BY <2>3, <2>4 DEF UpToSum
  <2> HIDE DEF g
  <2>6. k + 1 \in 0 .. N
    BY <1>1, <2>2
  <2> QED
    BY <2>5, <2>6
<1> HIDE DEF S
<1>4. \A k \in 0 .. N : k \in S
  BY <1>1, <1>2, <1>3, UpTo
<1>5. N \in S
  BY <1>1, <1>4
<1> QED
  BY <1>5 DEF S, N

\* Then SumOf, which is defined by recursion, is a number.
LEMMA SumIsNumber ==
  ASSUME NEW c \in [1 .. MaxPurchases -> Int]
  PROVE  SumOf(c) \in Int
<1> DEFINE N == MaxPurchases
           Rec(g) == g = [n \in 0 .. N |-> IF n = 0 THEN 0 ELSE g[n - 1] + c[n]]
           sum    == CHOOSE g : Rec(g)
<1>1. N \in Nat /\ \A n \in 1 .. N : c[n] \in Int
  BY RebatesAssumption
<1>2. SumOf(c) = sum[N]
  BY DEF SumOf
<1> HIDE DEF N
<1>3. PICK f : UpToSum(f, c, N)
  BY SumExists DEF N
<1>4. Rec(f)
  <2>1. \A n \in 0 .. N : f[n] = IF n = 0 THEN 0 ELSE f[n - 1] + c[n]
    BY <1>1, <1>3 DEF UpToSum
  <2>2. f = [n \in 0 .. N |-> f[n]]
    BY <1>3 DEF UpToSum
  <2> QED
    BY <2>1, <2>2
<1> HIDE DEF Rec
<1>5. Rec(sum)
  BY <1>4
<1> HIDE DEF sum
<1>6. \A n \in 0 .. N : sum[n] = IF n = 0 THEN 0 ELSE sum[n - 1] + c[n]
  BY <1>5 DEF Rec
<1> DEFINE S == {k \in 0 .. N : sum[k] \in Int}
<1>7. 0 \in S
  BY <1>1, <1>6
<1>8. ASSUME NEW k \in 0 .. N - 1, k \in S
      PROVE  k + 1 \in S
  <2>1. k + 1 \in 1 .. N /\ k + 1 # 0 /\ (k + 1) - 1 = k /\ k + 1 \in 0 .. N
    BY <1>1
  <2>2. sum[k + 1] = sum[k] + c[k + 1]
    BY <1>6, <2>1
  <2> QED
    BY <1>1, <1>8, <2>1, <2>2
<1> HIDE DEF S
<1>9. \A k \in 0 .. N : k \in S
  BY <1>1, <1>7, <1>8, UpTo
<1>10. N \in S
  BY <1>1, <1>9
<1> QED
  BY <1>2, <1>10 DEF S

\* What a query adds up is a number.
LEMMA CreditIsNumber ==
  ASSUME purchases \in Seq(Purchase), NEW m \in Members
  PROVE  Credit(Unpaid(m)) \in Int
<1>1. \A n \in Unpaid(m) : purchases[n].line.credit \in Int
  <2> SUFFICES ASSUME NEW n \in Unpaid(m) PROVE purchases[n].line.credit \in Int
    OBVIOUS
  <2>1. n \in 1 .. Len(purchases)
    BY DEF Unpaid
  <2>2. purchases[n] \in Purchase
    BY <2>1, ElementOfSeq
  <2>3. purchases[n].line \in Line
    BY <2>2, RebatesAssumption DEF Purchase
  <2> QED
    BY <2>3 DEF Line
<1> DEFINE c == [n \in 1 .. MaxPurchases |->
                   IF n \in Unpaid(m) THEN purchases[n].line.credit ELSE 0]
<1>2. c \in [1 .. MaxPurchases -> Int]
  BY <1>1
<1>3. Credit(Unpaid(m)) = SumOf(c)
  BY DEF Credit, CreditOf
<1> HIDE DEF c
<1> QED
  BY <1>2, <1>3, SumIsNumber

-----------------------------------------------------------------------------
(* RunInv.                                                                 *)

\* RunInv holds of empty tables.
LEMMA RunInvInit == RebatesInit => RunInv
<1> SUFFICES ASSUME RebatesInit PROVE RunInv
  OBVIOUS
<1>1. << >> \in Seq(Purchase) /\ Len(<< >>) = 0 /\ << >> \in Seq(Check)
  OBVIOUS
<1>2. 0 \in Int
  OBVIOUS
<1>3. RebatesTypeOK
  BY <1>1, <1>2, RebatesAssumption DEF RebatesInit, RebatesTypeOK, Stages
<1> QED
  BY <1>3 DEF RunInv, AtALine, HasCheck, Importing, RebatesInit

\* A line is behind it; clean only matters to PastIsKnown.
LEMMA NextLineKeeps ==
  ASSUME RunInv, NEW p \in Pages, Importing(p), NEW ok \in BOOLEAN,
         NextLine(p, ok), UNCHANGED << careful, runVars >>,
         purchases' \in Seq(Purchase), Len(purchases') <= MaxPurchases,
         UNCHANGED checks
  PROVE  RunInv'
<1> USE DEF RunInv, NextLine, To, runVars, Stages
<1>1. /\ file[p] \in Files /\ line[p] \in 1 .. Len(file[p])
      /\ \A j \in 1 .. line[p] : file[p][j] # Blank
  BY DEF AtALine
<1>2. file[p] \in Seq(Lines \cup {Blank})
  BY <1>1, RebatesAssumption
<1>3. RebatesTypeOK'
  <2>1. pc' \in [Pages -> Stages]
    BY DEF RebatesTypeOK
  <2>2. file' \in [Pages -> Files \cup {<< >>}] /\ imported' \subseteq Files
    BY <1>1 DEF RebatesTypeOK
  <2>3. line' \in [Pages -> Nat]
    <3>1. line \in [Pages -> Nat] /\ line[p] + 1 \in Nat
      BY DEF RebatesTypeOK
    <3>2. \/ line' = [line EXCEPT ![p] = 0]
          \/ line' = [line EXCEPT ![p] = line[p] + 1]
      OBVIOUS
    <3> QED
      BY <3>1, <3>2
  <2>4. clean' \in [Pages -> BOOLEAN]
    <3> DEFINE still == clean[p] /\ ok
    <3>1. still \in BOOLEAN
      OBVIOUS
    <3>2. clean \in [Pages -> BOOLEAN]
      BY DEF RebatesTypeOK
    <3>3. \/ clean' = [clean EXCEPT ![p] = FALSE]
          \/ clean' = [clean EXCEPT ![p] = still]
      OBVIOUS
    <3> HIDE DEF still
    <3> QED
      BY <3>1, <3>2, <3>3
  <2> QED
    BY <2>1, <2>2, <2>3, <2>4 DEF RebatesTypeOK
<1>4. ASSUME NEW q \in Pages, Importing(q)'
      PROVE  /\ file[q]' \in Files
             /\ line[q]' \in 1 .. Len(file[q]')
             /\ \A j \in 1 .. line[q]' : file[q]'[j] # Blank
  <2>1. CASE q # p
    <3>1. Importing(q) /\ file'[q] = file[q] /\ line'[q] = line[q]
      BY <1>4, <2>1 DEF Importing, RebatesTypeOK
    <3> QED
      BY <3>1 DEF AtALine
  <2>2. CASE q = p
    <3>1. ~AtEnd(p) /\ line' = [line EXCEPT ![p] = @ + 1] /\ file' = file
      BY <1>4, <2>2 DEF Importing, RebatesTypeOK
    <3>2. line'[p] = line[p] + 1
      BY <3>1 DEF RebatesTypeOK
    <3>3. Append(file[p], Blank)[line[p] + 1] # Blank
      BY <3>1 DEF AtEnd
    <3>4. line[p] # Len(file[p])
      BY <3>3, <1>1, <1>2
    <3>5. file[p][line[p] + 1] # Blank /\ line[p] + 1 \in 1 .. Len(file[p])
      BY <3>3, <3>4, <1>1, <1>2
    <3> QED
      BY <3>1, <3>2, <3>5, <1>1, <2>2
  <2> QED
    BY <2>1, <2>2
<1>5. HasCheck'
  BY DEF HasCheck, RebatesTypeOK, Importing
<1> QED
  BY <1>3, <1>4, <1>5 DEF AtALine

\* What page p forgets when it is done with member m.
LEMMA ForgetKeeps ==
  ASSUME RunInv, NEW p \in Pages, ~Importing(p), NEW m \in Members, Forget(p, m),
         UNCHANGED << careful, importVars >>,
         purchases' \in Seq(Purchase), Len(purchases') <= MaxPurchases,
         checks' \in Seq(Check), Len(checks') <= MaxChecks,
         DOMAIN checks \subseteq DOMAIN checks'
  PROVE  RunInv'
<1> USE DEF RunInv, Forget, To, importVars, Stages
<1>1. RebatesTypeOK'
  <2>1. 0 \in Int /\ 0 \in 0 .. MaxChecks
    BY RebatesAssumption
  <2>2. /\ pc' \in [Pages -> Stages]
        /\ todo' \in [Pages -> SUBSET Members]
        /\ mcheck' \in [Pages -> 0 .. MaxChecks]
    BY <2>1 DEF RebatesTypeOK
  <2>3. totals' \in [Pages -> [Members -> Int]]
    BY <2>1 DEF RebatesTypeOK
  <2> QED
    BY <2>2, <2>3 DEF RebatesTypeOK
<1>2. AtALine'
  BY DEF AtALine, Importing, RebatesTypeOK
<1>3. HasCheck'
  BY DEF HasCheck, RebatesTypeOK
<1> QED
  BY <1>1, <1>2, <1>3

\* Every step keeps RunInv.
LEMMA RunInvNext == RunInv /\ [RebatesNext]_rebateVars => RunInv'
<1> SUFFICES ASSUME RunInv, [RebatesNext]_rebateVars PROVE RunInv'
  OBVIOUS
<1>1. ASSUME NEW p \in Pages, BeginImport(p) PROVE RunInv'
  <2> USE <1>1 DEF RunInv, BeginImport, MayBegin, To, runVars
  <2>1. PICK f \in Files : file' = [file EXCEPT ![p] = f]
    OBVIOUS
  <2>2. f \in Seq(Lines \cup {Blank}) /\ f # << >> /\ f[1] # Blank
    BY <2>1, RebatesAssumption
  <2>3. Len(f) \in Nat /\ 1 \in 1 .. Len(f)
    BY <2>2
  <2>4. RebatesTypeOK'
    BY <2>1 DEF RebatesTypeOK, Stages
  <2>5. AtALine'
    <3> SUFFICES ASSUME NEW q \in Pages, Importing(q)'
                 PROVE  /\ file'[q] \in Files
                        /\ line'[q] \in 1 .. Len(file'[q])
                        /\ \A j \in 1 .. line'[q] : file'[q][j] # Blank
      BY DEF AtALine
    <3>1. CASE q = p
      <4>1. file'[q] = f /\ line'[q] = 1
        BY <3>1, <2>1 DEF RebatesTypeOK
      <4>2. \A j \in 1 .. 1 : j = 1
        OBVIOUS
      <4> QED
        BY <4>1, <4>2, <2>2, <2>3
    <3>2. CASE q # p
      <4>1. Importing(q) /\ file'[q] = file[q] /\ line'[q] = line[q]
        BY <3>2, <2>1 DEF Importing, RebatesTypeOK
      <4> QED
        BY <4>1 DEF AtALine
    <3> QED
      BY <3>1, <3>2
  <2>6. HasCheck'
    BY DEF HasCheck, RebatesTypeOK
  <2> QED
    BY <2>4, <2>5, <2>6
<1>2. ASSUME NEW p \in Pages, CheckTransaction(p) PROVE RunInv'
  <2> USE <1>2 DEF RunInv, CheckTransaction
  <2>1. CASE To(p, "insert") /\ UNCHANGED importVars
    <3>1. RebatesTypeOK'
      BY <2>1 DEF RebatesTypeOK, To, importVars, runVars, Stages
    <3>2. AtALine'
      BY <2>1 DEF AtALine, Importing, RebatesTypeOK, To, importVars
    <3>3. HasCheck'
      BY <2>1 DEF HasCheck, RebatesTypeOK, To, runVars
    <3> QED
      BY <3>1, <3>2, <3>3
  <2>2. CASE NextLine(p, TRUE)
    <3>1. Importing(p)
      BY DEF Importing
    <3>2. /\ purchases' \in Seq(Purchase) /\ Len(purchases') <= MaxPurchases
          /\ UNCHANGED << careful, runVars >> /\ UNCHANGED checks
      BY DEF RebatesTypeOK
    <3> QED
      BY <2>2, <3>1, <3>2, NextLineKeeps
  <2> QED
    BY <2>1, <2>2
<1>3. ASSUME NEW p \in Pages, InsertPurchase(p) PROVE RunInv'
  <2> USE <1>3 DEF RunInv, InsertPurchase
  <2>1. Importing(p) /\ UNCHANGED << careful, runVars >> /\ UNCHANGED checks
    BY DEF Importing
  <2>2. CASE /\ Len(purchases) < MaxPurchases
             /\ purchases' = Append(purchases, NewPurchase(Current(p)))
             /\ NextLine(p, TRUE)
    <3>1. Current(p) \in Lines
      <4>1. line[p] \in Nat
        BY DEF RebatesTypeOK
      <4> QED
        BY <4>1, <2>1, CurrentIsLine
    <3>2. NewPurchase(Current(p)) \in Purchase
      <4>1. Current(p).old \in BOOLEAN
        BY <3>1, RebatesAssumption DEF Line
      <4> HIDE DEF RunInv, InsertPurchase
      <4> QED
        BY <3>1, <4>1, RebatesAssumption DEF NewPurchase, Purchase
    <3>3. purchases' \in Seq(Purchase) /\ Len(purchases') <= MaxPurchases
      BY <2>2, <3>2, RebatesAssumption DEF RebatesTypeOK
    <3> QED
      BY <2>1, <2>2, <3>3, NextLineKeeps
  <2>3. CASE NextLine(p, FALSE) /\ UNCHANGED purchases
    <3>1. purchases' \in Seq(Purchase) /\ Len(purchases') <= MaxPurchases
      BY <2>3 DEF RebatesTypeOK
    <3> QED
      BY <2>1, <2>3, <3>1, NextLineKeeps
  <2> QED
    BY <2>2, <2>3
<1>4. ASSUME NEW p \in Pages, BeginRun(p) PROVE RunInv'
  <2> DEFINE ms == {m \in Members \ {DefaultMember} : Unpaid(m) # {}}
             sums == [m \in Members |-> IF m \in ms THEN Credit(Unpaid(m))
                                                    ELSE 0]
  <2>1. /\ todo' = [todo EXCEPT ![p] = ms]
        /\ totals' = [totals EXCEPT ![p] = sums]
        /\ To(p, "members")
        /\ UNCHANGED << careful, purchases, checks, importVars, mcheck >>
    BY <1>4 DEF BeginRun
  <2>2. sums \in [Members -> Int] /\ ms \in SUBSET Members
    <3>1. \A m \in Members : Credit(Unpaid(m)) \in Int
      BY CreditIsNumber DEF RunInv, RebatesTypeOK
    <3>2. 0 \in Int
      OBVIOUS
    <3> QED
      BY <3>1, <3>2
  <2> HIDE DEF ms, sums
  <2>3. RebatesTypeOK'
    BY <2>1, <2>2 DEF RunInv, RebatesTypeOK, To, importVars, Stages
  <2>4. AtALine'
    BY <2>1 DEF RunInv, AtALine, Importing, RebatesTypeOK, To, importVars
  <2>5. HasCheck'
    BY <2>1 DEF RunInv, HasCheck, RebatesTypeOK, To
  <2> QED
    BY <2>3, <2>4, <2>5 DEF RunInv
<1>5. ASSUME NEW p \in Pages, SkipMember(p) PROVE RunInv'
  <2>1. PICK m \in todo[p] : Forget(p, m)
    BY <1>5 DEF SkipMember
  <2>2. m \in Members /\ ~Importing(p)
    BY <1>5 DEF SkipMember, RunInv, RebatesTypeOK, Importing
  <2>3. /\ UNCHANGED << careful, importVars >>
        /\ purchases' \in Seq(Purchase) /\ Len(purchases') <= MaxPurchases
        /\ checks' \in Seq(Check) /\ Len(checks') <= MaxChecks
        /\ DOMAIN checks \subseteq DOMAIN checks'
    BY <1>5 DEF SkipMember, RunInv, RebatesTypeOK
  <2> QED
    BY <2>1, <2>2, <2>3, ForgetKeeps
<1>6. ASSUME NEW p \in Pages, InsertCheck(p) PROVE RunInv'
  <2>1. PICK m \in todo[p] :
          \/ /\ Len(checks) < MaxChecks
             /\ checks' = Append(checks, [member |-> m,
                            amount |-> totals[p][m], void |-> FALSE])
             /\ mcheck' = [mcheck EXCEPT ![p] = Len(checks) + 1]
             /\ To(p, "update")
             /\ UNCHANGED << todo, totals >>
          \/ Forget(p, m) /\ UNCHANGED checks
    BY <1>6 DEF InsertCheck
  <2>2. m \in Members /\ ~Importing(p)
    BY <1>6 DEF InsertCheck, RunInv, RebatesTypeOK, Importing
  <2>3. UNCHANGED << careful, purchases, importVars >>
    BY <1>6 DEF InsertCheck
  <2>4. CASE Forget(p, m) /\ UNCHANGED checks
    <3>1. /\ purchases' \in Seq(Purchase) /\ Len(purchases') <= MaxPurchases
          /\ checks' \in Seq(Check) /\ Len(checks') <= MaxChecks
          /\ DOMAIN checks \subseteq DOMAIN checks'
      BY <2>3, <2>4 DEF RunInv, RebatesTypeOK
    <3> QED
      BY <2>2, <2>3, <2>4, <3>1, ForgetKeeps
  <2>5. CASE /\ Len(checks) < MaxChecks
             /\ checks' = Append(checks, [member |-> m,
                            amount |-> totals[p][m], void |-> FALSE])
             /\ mcheck' = [mcheck EXCEPT ![p] = Len(checks) + 1]
             /\ To(p, "update")
             /\ UNCHANGED << todo, totals >>
    <3> DEFINE check == [member |-> m, amount |-> totals[p][m], void |-> FALSE]
    <3>1. check \in Check
      <4>1. totals[p][m] \in Int
        BY <2>2 DEF RunInv, RebatesTypeOK
      <4> QED
        BY <2>2, <4>1 DEF Check
    <3>2. checks' = Append(checks, check)
      BY <2>5
    <3> HIDE DEF check
    <3>3. /\ checks' \in Seq(Check)
          /\ Len(checks') = Len(checks) + 1 /\ Len(checks) \in Nat
          /\ DOMAIN checks = 1 .. Len(checks)
          /\ DOMAIN checks' = 1 .. Len(checks')
      BY <3>1, <3>2 DEF RunInv, RebatesTypeOK
    <3>4. Len(checks) + 1 \in 0 .. MaxChecks /\ Len(checks') <= MaxChecks
      BY <2>5, <3>3, RebatesAssumption
    <3>5. RebatesTypeOK'
      BY <2>3, <2>5, <3>3, <3>4 DEF RunInv, RebatesTypeOK, To, importVars, Stages
    <3>6. AtALine'
      BY <2>3, <2>5 DEF RunInv, AtALine, Importing, RebatesTypeOK, To, importVars
    <3>7. HasCheck'
      <4> SUFFICES ASSUME NEW q \in Pages, pc'[q] \in {"update", "undo"}
                   PROVE  mcheck'[q] \in DOMAIN checks'
        BY DEF HasCheck
      <4>1. CASE q = p
        BY <4>1, <2>5, <3>3 DEF RunInv, RebatesTypeOK
      <4>2. CASE q # p
        <5>1. pc[q] \in {"update", "undo"} /\ mcheck'[q] = mcheck[q]
          BY <4>2, <2>5 DEF RunInv, RebatesTypeOK, To
        <5>2. mcheck[q] \in DOMAIN checks
          BY <5>1 DEF RunInv, HasCheck
        <5> QED
          BY <5>1, <5>2, <3>3
      <4> QED
        BY <4>1, <4>2
    <3> QED
      BY <3>5, <3>6, <3>7 DEF RunInv
  <2> QED
    BY <2>1, <2>4, <2>5
<1>7. ASSUME NEW p \in Pages, UpdatePurchases(p) PROVE RunInv'
  <2> DEFINE m == checks[mcheck[p]].member
             put == [i \in DOMAIN purchases |->
                       IF i \in Unpaid(m)
                         THEN [purchases[i] EXCEPT !.check = mcheck[p]]
                         ELSE purchases[i]]
  <2>1. /\ pc[p] = "update"
        /\ \/ purchases' = put /\ Forget(p, m)
           \/ To(p, "undo") /\ UNCHANGED << purchases, runVars >>
        /\ UNCHANGED << careful, checks, importVars >>
    BY <1>7 DEF UpdatePurchases
  <2>2. m \in Members /\ ~Importing(p) /\ mcheck[p] \in 0 .. MaxChecks
    <3>1. /\ mcheck[p] \in DOMAIN checks /\ checks \in Seq(Check)
          /\ mcheck[p] \in 0 .. MaxChecks
      BY <2>1 DEF RunInv, RebatesTypeOK, HasCheck
    <3>2. checks[mcheck[p]] \in Check
      BY <3>1
    <3> QED
      BY <2>1, <3>1, <3>2 DEF Check, Importing
  <2>3. CASE purchases' = put /\ Forget(p, m)
    <3> HIDE DEF m
    <3>1. put \in Seq(Purchase) /\ Len(put) = Len(purchases)
      <4>1. purchases \in Seq(Purchase)
        BY DEF RunInv, RebatesTypeOK
      <4>2. \A i \in DOMAIN purchases : put[i] \in Purchase
        <5> SUFFICES ASSUME NEW i \in DOMAIN purchases
                     PROVE  put[i] \in Purchase
          OBVIOUS
        <5>1. purchases[i] \in Purchase
          BY <4>1
        <5>2. [purchases[i] EXCEPT !.check = mcheck[p]] \in Purchase
          BY <5>1, <2>2 DEF Purchase
        <5> QED
          BY <5>1, <5>2
      <4> QED
        BY <4>1, <4>2
    <3>2. /\ purchases' \in Seq(Purchase) /\ Len(purchases') <= MaxPurchases
          /\ checks' \in Seq(Check) /\ Len(checks') <= MaxChecks
          /\ DOMAIN checks \subseteq DOMAIN checks'
      BY <2>1, <2>3, <3>1 DEF RunInv, RebatesTypeOK
    <3> QED
      BY <2>1, <2>2, <2>3, <3>2, ForgetKeeps
  <2>4. CASE To(p, "undo") /\ UNCHANGED << purchases, runVars >>
    <3> HIDE DEF put, m
    <3>1. RebatesTypeOK'
      BY <2>1, <2>4 DEF RunInv, RebatesTypeOK, To, importVars, runVars, Stages
    <3>2. AtALine'
      BY <2>1, <2>4 DEF RunInv, AtALine, Importing, RebatesTypeOK, To, importVars
    <3>3. HasCheck'
      BY <2>1, <2>4 DEF RunInv, HasCheck, RebatesTypeOK, To, runVars
    <3> QED
      BY <3>1, <3>2, <3>3 DEF RunInv
  <2> QED
    BY <2>1, <2>3, <2>4
<1>8. ASSUME NEW p \in Pages, UndoCheck(p) PROVE RunInv'
  <2>1. mcheck[p] \in DOMAIN checks /\ checks \in Seq(Check) /\ ~Importing(p)
    BY <1>8 DEF UndoCheck, RunInv, RebatesTypeOK, HasCheck, Importing
  <2>2. checks[mcheck[p]] \in Check /\ checks[mcheck[p]].member \in Members
    <3>1. checks[mcheck[p]] \in Check
      BY <2>1
    <3> QED
      BY <3>1 DEF Check
  <2>3. /\ checks' \in Seq(Check) /\ Len(checks') = Len(checks)
        /\ DOMAIN checks \subseteq DOMAIN checks'
    <3>1. CASE checks' = [checks EXCEPT ![mcheck[p]].void = TRUE]
      <4>1. [checks[mcheck[p]] EXCEPT !.void = TRUE] \in Check
        BY <2>2 DEF Check
      <4> QED
        BY <2>1, <3>1, <4>1
    <3>2. CASE UNCHANGED checks
      BY <2>1, <3>2
    <3> QED
      BY <1>8, <3>1, <3>2 DEF UndoCheck
  <2>4. /\ UNCHANGED << careful, importVars >>
        /\ purchases' \in Seq(Purchase) /\ Len(purchases') <= MaxPurchases
        /\ Len(checks') <= MaxChecks
    BY <1>8, <2>3 DEF UndoCheck, RunInv, RebatesTypeOK
  <2> QED
    BY <1>8, <2>1, <2>2, <2>3, <2>4, ForgetKeeps DEF UndoCheck
<1>9. CASE DayPasses
  <2>1. purchases' \in Seq(Purchase) /\ Len(purchases') = Len(purchases)
    <3>1. purchases \in Seq(Purchase)
      BY DEF RunInv, RebatesTypeOK
    <3>2. \A i \in DOMAIN purchases :
            [purchases[i] EXCEPT !.old = TRUE] \in Purchase
      <4> SUFFICES ASSUME NEW i \in DOMAIN purchases
                   PROVE  [purchases[i] EXCEPT !.old = TRUE] \in Purchase
        OBVIOUS
      <4>1. purchases[i] \in Purchase
        BY <3>1
      <4> QED
        BY <4>1 DEF Purchase
    <3>3. purchases' = [i \in 1 .. Len(purchases) |->
                          [purchases[i] EXCEPT !.old = TRUE]]
      BY <3>1, <1>9 DEF DayPasses
    <3>4. Len(purchases) \in Nat /\ DOMAIN purchases = 1 .. Len(purchases)
      BY <3>1
    <3>5. purchases' \in [1 .. Len(purchases) -> Purchase]
      BY <3>2, <3>3, <3>4
    <3> QED
      BY <3>4, <3>5
  <2>2. RebatesTypeOK'
    BY <1>9, <2>1 DEF DayPasses, RunInv, RebatesTypeOK, importVars, runVars
  <2> QED
    BY <1>9, <2>2 DEF DayPasses, RunInv, AtALine, HasCheck, Importing,
                      importVars, runVars
<1>10. ASSUME NEW p \in Pages, PageDies(p) PROVE RunInv'
  <2> USE <1>10 DEF PageDies, RunInv, To
  <2>1. 0 \in Int /\ 0 \in 0 .. MaxChecks
    BY RebatesAssumption
  <2>2. RebatesTypeOK'
    <3>1. totals' \in [Pages -> [Members -> Int]]
      BY <2>1 DEF RebatesTypeOK
    <3> QED
      BY <2>1, <3>1 DEF RebatesTypeOK, Stages
  <2>3. AtALine'
    BY DEF AtALine, Importing, RebatesTypeOK
  <2>4. HasCheck'
    BY DEF HasCheck, RebatesTypeOK
  <2> QED
    BY <2>2, <2>3, <2>4
<1>11. CASE UNCHANGED rebateVars
  BY <1>11 DEF rebateVars, RunInv, RebatesTypeOK, AtALine, HasCheck, Importing
<1> QED
  BY <1>1, <1>2, <1>3, <1>4, <1>5, <1>6, <1>7, <1>8, <1>9, <1>10, <1>11
     DEF RebatesNext

-----------------------------------------------------------------------------
(* What is on a check stays there.                                         *)

\* A step appends to the purchases, or it changes the check only of what was
\* unpaid.
LEMMA PaidStep == RunInv /\ [RebatesNext]_rebateVars => [PaidIsPaid]_purchases
<1> SUFFICES ASSUME RunInv, [RebatesNext]_rebateVars, purchases' # purchases,
                    NEW i \in DOMAIN purchases, purchases[i].check # 0
             PROVE  purchases'[i].check = purchases[i].check
  BY DEF PaidIsPaid
<1>1. purchases \in Seq(Purchase) /\ purchases[i] \in Purchase
  BY DEF RunInv, RebatesTypeOK
<1>2. ASSUME NEW p \in Pages, InsertPurchase(p)
      PROVE  purchases'[i].check = purchases[i].check
  <2>1. purchases' = Append(purchases, NewPurchase(Current(p)))
    BY <1>2 DEF InsertPurchase
  <2>2. purchases'[i] = purchases[i]
    BY <2>1, <1>1
  <2> QED
    BY <2>2
<1>3. ASSUME NEW p \in Pages, UpdatePurchases(p)
      PROVE  purchases'[i].check = purchases[i].check
  BY <1>3 DEF UpdatePurchases, Unpaid
<1>4. CASE DayPasses
  <2>1. purchases'[i] = [purchases[i] EXCEPT !.old = TRUE]
    BY <1>4 DEF DayPasses
  <2> QED
    BY <2>1, <1>1 DEF Purchase
<1>5. CASE UNCHANGED rebateVars
  BY <1>5 DEF rebateVars
<1> QED
  BY <1>2, <1>3, <1>4, <1>5
     DEF RebatesNext, BeginImport, CheckTransaction, BeginRun, SkipMember,
         InsertCheck, UndoCheck, PageDies

(***************************************************************************)
(* The types, the amounts of checks among them: what a query adds up over  *)
(* the credits of any number of purchases is a number.                     *)
(***************************************************************************)
THEOREM RebatesTypesHold == RebatesSpec => []RebatesTypeOK
<1>1. RunInv => RebatesTypeOK
  BY DEF RunInv
<1> QED
  BY <1>1, RunInvInit, RunInvNext, PTL DEF RebatesSpec

(***************************************************************************)
(* A purchase that updatePaymentRecords has put on a check stays on that   *)
(* check, for any pages that overlap, fail or die.                         *)
(***************************************************************************)
THEOREM PaidForGood == RebatesSpec => PaidStaysPaid
<1>1. RebatesSpec => []RunInv
  BY RunInvInit, RunInvNext, PTL DEF RebatesSpec
<1> QED
  BY <1>1, PaidStep, PTL DEF RebatesSpec, PaidStaysPaid

-----------------------------------------------------------------------------
(* Each transaction once.                                                  *)

\* The purchases only grow, and their lines stay.
LEMMA LinesStay ==
  ASSUME RunInv, [RebatesNext]_rebateVars
  PROVE  \/ /\ DOMAIN purchases' = DOMAIN purchases
            /\ \A i \in DOMAIN purchases :
                 purchases'[i].line = purchases[i].line
         \/ \E p \in Pages :
              /\ InsertPurchase(p)
              /\ purchases' = Append(purchases, NewPurchase(Current(p)))
<1>1. purchases \in Seq(Purchase)
  BY DEF RunInv, RebatesTypeOK
<1>2. \A i \in DOMAIN purchases : purchases[i] \in Purchase
  BY <1>1
<1>3. ASSUME NEW p \in Pages, UpdatePurchases(p)
      PROVE  /\ DOMAIN purchases' = DOMAIN purchases
             /\ \A i \in DOMAIN purchases :
                  purchases'[i].line = purchases[i].line
  BY <1>2, <1>3 DEF UpdatePurchases, Purchase
<1>4. CASE DayPasses
  BY <1>2, <1>4 DEF DayPasses, Purchase
<1>5. ASSUME NEW p \in Pages, InsertPurchase(p), purchases' # purchases
      PROVE  purchases' = Append(purchases, NewPurchase(Current(p)))
  BY <1>5 DEF InsertPurchase
<1>6. CASE UNCHANGED purchases
  BY <1>6
<1> QED
  BY <1>3, <1>4, <1>5, <1>6
     DEF RebatesNext, rebateVars, BeginImport, CheckTransaction, BeginRun,
         SkipMember, InsertCheck, UndoCheck, PageDies

KnownIn(l, table) ==
  \E i \in DOMAIN table : SameTransaction(l, table[i].line)

\* A transaction that is known stays known.
LEMMA KnownStays ==
  ASSUME RunInv, [RebatesNext]_rebateVars, NEW l, Known(l)
  PROVE  KnownIn(l, purchases')
<1>1. PICK i \in DOMAIN purchases : SameTransaction(l, purchases[i].line)
  BY DEF Known
<1>2. CASE /\ DOMAIN purchases' = DOMAIN purchases
           /\ \A j \in DOMAIN purchases :
                purchases'[j].line = purchases[j].line
  BY <1>1, <1>2 DEF KnownIn
<1>3. ASSUME NEW p \in Pages,
             purchases' = Append(purchases, NewPurchase(Current(p)))
      PROVE  KnownIn(l, purchases')
  <2>1. purchases \in Seq(Purchase)
    BY DEF RunInv, RebatesTypeOK
  <2>2. i \in DOMAIN purchases' /\ purchases'[i] = purchases[i]
    BY <1>1, <1>3, <2>1
  <2> QED
    BY <1>1, <2>2 DEF KnownIn
<1> QED
  BY <1>2, <1>3, LinesStay

\* No two rows stand for the same transaction.
NoneTwice ==
  \A i, j \in DOMAIN purchases :
    i < j => ~SameTransaction(purchases[j].line, purchases[i].line)

\* ImportInv holds of empty tables.
LEMMA ImportInvInit == RebatesInit => ImportInv
<1> SUFFICES ASSUME RebatesInit PROVE ImportInv
  OBVIOUS
<1>1. RunInv
  BY RunInvInit
<1>2. DOMAIN purchases = {} /\ imported = {} /\ \A p \in Pages : pc[p] = "idle"
  BY DEF RebatesInit
<1> QED
  BY <1>1, <1>2 DEF ImportInv, OneAtATime, InsertsNews, PastIsKnown, Importing,
                    EachTransactionOnce

\* A line is behind the page: what it stood for is known now.
LEMMA NextLineIsKnown ==
  ASSUME ImportInv, careful, NEW p \in Pages, Importing(p), NEW ok \in BOOLEAN,
         NextLine(p, ok), careful' = careful, NoneTwice',
         \A l : Known(l) => KnownIn(l, purchases'),
         ok /\ Current(p).good => KnownIn(Current(p), purchases')
  PROVE  OneAtATime' /\ InsertsNews' /\ PastIsKnown' /\ EachTransactionOnce'
<1>1. /\ file[p] \in Files /\ line[p] \in 1 .. Len(file[p])
      /\ file[p] \in Seq(Lines \cup {Blank})
  BY RebatesAssumption DEF ImportInv, RunInv, AtALine
<1>2. \A q \in Pages : pc[q] # "idle" => q = p
  BY DEF ImportInv, OneAtATime, Importing
<1>3. \A q \in Pages : pc'[q] # "idle" => q = p /\ ~AtEnd(p) /\ pc'[p] = "look"
  BY <1>2 DEF NextLine, To, ImportInv, RunInv, RebatesTypeOK
<1>4. OneAtATime' /\ InsertsNews'
  BY <1>3 DEF OneAtATime, InsertsNews
<1>5. PastIsKnown'
  <2> SUFFICES ASSUME NEW q \in Pages, Importing(q)', clean'[q],
                      NEW i \in 1 .. (line'[q] - 1), file'[q][i].good
               PROVE  KnownIn(file'[q][i], purchases')
    BY DEF PastIsKnown, Known, KnownIn
  <2>1. q = p /\ ~AtEnd(p)
    BY <1>3 DEF Importing
  <2>2. file' = file /\ line'[p] = line[p] + 1 /\ clean[p] /\ ok
    BY <2>1 DEF NextLine, ImportInv, RunInv, RebatesTypeOK
  <2>3. CASE i = line[p]
    BY <2>1, <2>2, <2>3 DEF Current
  <2>4. CASE i # line[p]
    <3>1. i \in 1 .. (line[p] - 1)
      BY <1>1, <2>1, <2>2, <2>4
    <3>2. Known(file[p][i])
      BY <2>1, <2>2, <3>1 DEF ImportInv, PastIsKnown
    <3> QED
      BY <2>1, <2>2, <3>2
  <2> QED
    BY <2>3, <2>4
<1>6. ASSUME NEW f \in imported',
             NEW i \in DOMAIN f, \A j \in 1 .. i : f[j] # Blank, f[i].good
      PROVE  KnownIn(f[i], purchases')
  <2>1. CASE f \in imported
    <3>1. Known(f[i])
      BY <1>6, <2>1 DEF ImportInv, EachTransactionOnce
    <3> QED
      BY <3>1
  <2>2. CASE f \notin imported
    <3>1. f = file[p] /\ AtEnd(p) /\ clean[p] /\ ok
      BY <1>6, <2>2 DEF NextLine
    <3>2. i <= line[p]
      <4> SUFFICES ASSUME line[p] < i PROVE FALSE
        BY <1>1, <1>6, <3>1
      <4>1. line[p] + 1 \in 1 .. i /\ i \in 1 .. Len(f) /\ line[p] + 1 <= Len(f)
        BY <1>1, <1>6, <3>1
      <4>2. Append(f, Blank)[line[p] + 1] = f[line[p] + 1]
        BY <1>1, <3>1, <4>1
      <4> QED
        BY <1>6, <3>1, <4>1, <4>2 DEF AtEnd
    <3>3. CASE i = line[p]
      BY <1>6, <3>1, <3>3 DEF Current
    <3>4. CASE i # line[p]
      <4>1. i \in 1 .. (line[p] - 1)
        BY <1>1, <1>6, <3>1, <3>2, <3>4
      <4>2. Known(file[p][i])
        BY <1>6, <3>1, <4>1 DEF ImportInv, PastIsKnown
      <4> QED
        BY <3>1, <4>2
    <3> QED
      BY <3>3, <3>4
  <2> QED
    BY <2>1, <2>2
<1>7. EachTransactionOnce'
  BY <1>6 DEF EachTransactionOnce, NoneTwice, Known, KnownIn
<1> QED
  BY <1>4, <1>5, <1>7

\* A step that is no import: lines and files stay, no page gets to a line.
LEMMA OthersKeep ==
  ASSUME ImportInv, careful, careful' = careful, UNCHANGED importVars,
         DOMAIN purchases' = DOMAIN purchases,
         \A i \in DOMAIN purchases : purchases'[i].line = purchases[i].line,
         \A q \in Pages : pc'[q] = pc[q] \/ ~Importing(q)',
         OneAtATime'
  PROVE  InsertsNews' /\ PastIsKnown' /\ EachTransactionOnce'
<1>1. \A l : Known(l)' <=> Known(l)
  BY DEF Known
<1>2. InsertsNews'
  BY <1>1 DEF ImportInv, InsertsNews, Importing, Current, importVars
<1>3. PastIsKnown'
  BY <1>1 DEF ImportInv, PastIsKnown, Importing, importVars
<1>4. EachTransactionOnce'
  BY <1>1 DEF ImportInv, EachTransactionOnce, importVars
<1> QED
  BY <1>2, <1>3, <1>4

\* Every step keeps ImportInv.
LEMMA ImportInvNext == ImportInv /\ [RebatesNext]_rebateVars => ImportInv'
<1> SUFFICES ASSUME ImportInv, [RebatesNext]_rebateVars PROVE ImportInv'
  OBVIOUS
<1>1. RunInv /\ RunInv'
  BY RunInvNext DEF ImportInv
<1>2. careful' = careful
  BY DEF RebatesNext, BeginImport, CheckTransaction, InsertPurchase, BeginRun,
         SkipMember, InsertCheck, UpdatePurchases, UndoCheck, DayPasses,
         PageDies, rebateVars
<1>3. CASE ~careful
  BY <1>1, <1>2, <1>3 DEF ImportInv, OneAtATime, InsertsNews, PastIsKnown,
                          EachTransactionOnce
<1>4. CASE careful
  <2>1. \A l : Known(l) => KnownIn(l, purchases')
    BY <1>1, KnownStays
  <2>2. NoneTwice
    BY <1>4 DEF ImportInv, EachTransactionOnce, NoneTwice
  <2>3. ASSUME NEW p \in Pages, BeginImport(p) PROVE ImportInv'
    <3>1. /\ \A q \in Pages : pc[q] = "idle"
          /\ \A q \in Pages : pc'[q] # "idle" => q = p /\ pc'[q] = "look"
      BY <1>1, <1>4, <2>3 DEF BeginImport, MayBegin, AtRest, To, RunInv, RebatesTypeOK
    <3>2. line'[p] = 1 /\ UNCHANGED << purchases, imported >>
      BY <1>1, <2>3 DEF BeginImport, RunInv, RebatesTypeOK
    <3>3. OneAtATime' /\ InsertsNews'
      BY <3>1 DEF OneAtATime, InsertsNews
    <3>4. PastIsKnown'
      <4> SUFFICES ASSUME NEW q \in Pages, Importing(q)',
                          NEW i \in 1 .. (line'[q] - 1)
                   PROVE  FALSE
        BY DEF PastIsKnown
      <4>1. q = p
        BY <3>1 DEF Importing
      <4> QED
        BY <4>1, <3>2
    <3>5. EachTransactionOnce'
      BY <1>4, <3>2 DEF ImportInv, EachTransactionOnce, Known
    <3> QED
      BY <1>1, <3>3, <3>4, <3>5 DEF ImportInv
  <2>4. ASSUME NEW p \in Pages, CheckTransaction(p) PROVE ImportInv'
    <3>1. Importing(p) /\ UNCHANGED << purchases, checks, runVars >>
      BY <2>4 DEF CheckTransaction, Importing
    <3>2. NoneTwice'
      BY <2>2, <3>1 DEF NoneTwice
    <3>3. CASE /\ Current(p).good /\ ~Known(Current(p))
               /\ To(p, "insert") /\ UNCHANGED importVars
      <4>1. \A q \in Pages : pc[q] # "idle" => q = p
        BY <1>4, <3>1 DEF ImportInv, OneAtATime, Importing
      <4>2. \A q \in Pages : pc'[q] # "idle" => q = p
        BY <1>1, <3>3, <4>1 DEF To, RunInv, RebatesTypeOK
      <4>3. OneAtATime'
        BY <4>2 DEF OneAtATime
      <4>4. InsertsNews'
        BY <3>1, <3>3, <4>2 DEF InsertsNews, Current, Known, importVars
      <4>5. PastIsKnown'
        BY <1>4, <3>1, <3>3, <4>2
           DEF ImportInv, PastIsKnown, Importing, Known, importVars
      <4>6. EachTransactionOnce'
        BY <1>4, <3>1, <3>3
           DEF ImportInv, EachTransactionOnce, Known, importVars
      <4> QED
        BY <1>1, <4>3, <4>4, <4>5, <4>6 DEF ImportInv
    <3>4. CASE /\ ~(Current(p).good /\ ~Known(Current(p)))
               /\ NextLine(p, TRUE)
      <4>1. Current(p).good => KnownIn(Current(p), purchases')
        BY <2>1, <3>4
      <4> QED
        BY <1>1, <1>2, <1>4, <2>1, <3>1, <3>2, <3>4, <4>1, NextLineIsKnown
           DEF ImportInv
    <3> QED
      BY <2>4, <3>3, <3>4 DEF CheckTransaction
  <2>5. ASSUME NEW p \in Pages, InsertPurchase(p) PROVE ImportInv'
    <3>1. Importing(p) /\ pc[p] = "insert"
      BY <2>5 DEF InsertPurchase, Importing
    <3>2. CASE /\ purchases' = Append(purchases, NewPurchase(Current(p)))
               /\ NextLine(p, TRUE)
      <4>1. purchases \in Seq(Purchase) /\ Len(purchases) \in Nat
        BY <1>1 DEF RunInv, RebatesTypeOK
      <4>2. Current(p) \in Lines
        <5>1. AtALine /\ line[p] \in Nat
          BY <1>1 DEF RunInv, RebatesTypeOK
        <5> QED
          BY <5>1, <3>1, CurrentIsLine
      <4>3. SameTransaction(Current(p), Current(p))
        BY <4>2, RebatesAssumption DEF SameTransaction, Line
      <4> DEFINE n == Len(purchases) + 1
      <4>4. /\ DOMAIN purchases' = 1 .. n /\ purchases'[n].line = Current(p)
            /\ \A i \in DOMAIN purchases :
                 purchases'[i].line = purchases[i].line
            /\ DOMAIN purchases = 1 .. (n - 1)
        BY <3>2, <4>1 DEF NewPurchase
      <4>5. KnownIn(Current(p), purchases')
        BY <4>1, <4>3, <4>4 DEF KnownIn
      <4>6. ~Known(Current(p))
        BY <1>4, <3>1 DEF ImportInv, InsertsNews
      <4>7. NoneTwice'
        <5> SUFFICES ASSUME NEW i \in 1 .. n, NEW j \in 1 .. n, i < j
                     PROVE  ~SameTransaction(purchases'[j].line,
                                             purchases'[i].line)
          BY <4>4 DEF NoneTwice
        <5>1. i \in DOMAIN purchases
          BY <4>1, <4>4
        <5>2. CASE j = n
          BY <5>1, <5>2, <4>4, <4>6 DEF Known
        <5>3. CASE j # n
          <6>1. j \in DOMAIN purchases
            BY <5>3, <4>1, <4>4
          <6> QED
            BY <5>1, <6>1, <2>2, <4>4 DEF NoneTwice
        <5> QED
          BY <5>2, <5>3
      <4> QED
        BY <1>1, <1>2, <1>4, <2>1, <3>1, <3>2, <4>5, <4>7, NextLineIsKnown
           DEF ImportInv
    <3>3. CASE NextLine(p, FALSE) /\ UNCHANGED purchases
      <4>1. NoneTwice'
        BY <2>2, <3>3 DEF NoneTwice
      <4> QED
        BY <1>1, <1>2, <1>4, <2>1, <3>1, <3>3, <4>1, NextLineIsKnown
           DEF ImportInv
    <3> QED
      BY <2>5, <3>2, <3>3 DEF InsertPurchase
  <2>6. ASSUME UNCHANGED importVars,
               ~(\E p \in Pages : InsertPurchase(p)),
               \A q \in Pages : pc'[q] = pc[q] \/ ~Importing(q)',
               OneAtATime'
        PROVE  ImportInv'
    <3>1. /\ DOMAIN purchases' = DOMAIN purchases
          /\ \A i \in DOMAIN purchases :
               purchases'[i].line = purchases[i].line
      BY <1>1, <2>6, LinesStay
    <3> QED
      BY <1>1, <1>2, <1>4, <2>6, <3>1, OthersKeep DEF ImportInv
  <2>7. ASSUME NEW p \in Pages,
               BeginRun(p) \/ SkipMember(p) \/ InsertCheck(p)
                 \/ UpdatePurchases(p) \/ UndoCheck(p)
        PROVE  ImportInv'
    <3>1. UNCHANGED importVars
      BY <2>7 DEF BeginRun, SkipMember, InsertCheck, UpdatePurchases, UndoCheck
    <3>2. \E step \in {"idle", "members", "update", "undo"} : To(p, step)
      BY <2>7 DEF BeginRun, SkipMember, InsertCheck, UpdatePurchases, UndoCheck,
                  Forget
    <3>3. /\ \A q \in Pages : q # p => pc'[q] = pc[q]
          /\ ~Importing(p)'
      BY <1>1, <3>2 DEF To, RunInv, RebatesTypeOK, Importing
    <3>4. \A q \in Pages : pc[q] # "idle" => q = p
      BY <1>4, <2>7
         DEF ImportInv, OneAtATime, BeginRun, MayBegin, AtRest, SkipMember,
             InsertCheck, UpdatePurchases, UndoCheck
    <3>5. OneAtATime'
      BY <3>3, <3>4 DEF OneAtATime
    <3>6. ~(\E q \in Pages : InsertPurchase(q))
      BY <2>7, <3>4
         DEF BeginRun, MayBegin, AtRest, SkipMember, InsertCheck,
             UpdatePurchases, UndoCheck, InsertPurchase
    <3>7. \A q \in Pages : pc'[q] = pc[q] \/ ~Importing(q)'
      BY <3>3
    <3> QED
      BY <2>6, <3>1, <3>5, <3>6, <3>7
  <2>8. CASE DayPasses
    <3>1. \A q \in Pages : pc[q] = "idle" /\ pc'[q] = "idle"
      BY <1>4, <2>8 DEF DayPasses, AtRest
    <3> QED
      BY <2>6, <2>8, <3>1 DEF DayPasses, OneAtATime, InsertPurchase
  <2>9. ASSUME NEW p \in Pages, PageDies(p) PROVE ImportInv'
    BY <1>4, <2>9 DEF PageDies
  <2>10. CASE UNCHANGED rebateVars
    BY <1>1, <2>10
       DEF rebateVars, ImportInv, OneAtATime, InsertsNews, PastIsKnown,
           EachTransactionOnce, Importing, Current, Known
  <2> QED
    BY <2>3, <2>4, <2>5, <2>7, <2>8, <2>9, <2>10 DEF RebatesNext
<1> QED
  BY <1>3, <1>4

(***************************************************************************)
(* If the pages of paydrop are used one at a time, then whatever           *)
(* statements fail and however often a file is imported, no two purchases  *)
(* stand for the same transaction, and what was imported without a failure *)
(* is there (importRecords with checkTransaction).                         *)
(***************************************************************************)
THEOREM ImportedOnce == RebatesSpec => []EachTransactionOnce
<1>1. RebatesSpec => []ImportInv
  BY ImportInvInit, ImportInvNext, PTL DEF RebatesSpec
<1>2. ImportInv => EachTransactionOnce
  BY DEF ImportInv
<1> QED
  BY <1>1, <1>2, PTL


-----------------------------------------------------------------------------
(* The books.                                                              *)

\* A run of the checks that has members left, or is at a check.
Working(p) == pc[p] \in {"members", "update", "undo"}
Holding(p) == pc[p] \in {"update", "undo"}

OnCheck(c) == {i \in DOMAIN purchases : purchases[i].check = c}

(***************************************************************************)
(* The books in the middle of a run: nothing is yet on the check that it   *)
(* holds, which is for the total that the member had; and the totals still *)
(* are those of the table, for nobody else is at work.                     *)
(***************************************************************************)
Books ==
  careful =>
    /\ \A i \in DOMAIN purchases : purchases[i].check \in 0 .. Len(checks)
    /\ \A c \in DOMAIN checks :
         IF checks[c].void \/ \E p \in Pages : Holding(p) /\ mcheck[p] = c
           THEN OnCheck(c) = {}
           ELSE checks[c].amount = Credit(OnCheck(c))
    /\ \A p \in Pages : Working(p) =>
         \A m \in todo[p] : totals[p][m] = Credit(Unpaid(m))
    /\ \A p \in Pages : Holding(p) =>
         LET check == checks[mcheck[p]]
         IN  /\ ~check.void /\ check.member \in todo[p]
             /\ check.amount = totals[p][check.member]

BooksInv == ImportInv /\ Books

\* The sum over some rows does not depend on what else is in the table.
LEMMA SameCredit ==
  ASSUME NEW rows, \A i \in rows : purchases'[i].line = purchases[i].line
  PROVE  CreditOf(purchases', rows) = CreditOf(purchases, rows)
<1>1. [n \in 1 .. MaxPurchases |->
         IF n \in rows THEN purchases'[n].line.credit ELSE 0]
        = [n \in 1 .. MaxPurchases |->
             IF n \in rows THEN purchases[n].line.credit ELSE 0]
  OBVIOUS
<1> QED
  BY <1>1 DEF CreditOf

\* What the types say, and who is at work.
LEMMA BooksSay ==
  ASSUME BooksInv
  PROVE  /\ purchases \in Seq(Purchase) /\ checks \in Seq(Check)
         /\ \A i \in DOMAIN purchases :
              purchases[i] \in Purchase /\ purchases[i].check \in Nat
         /\ pc \in [Pages -> Stages] /\ todo \in [Pages -> SUBSET Members]
         /\ totals \in [Pages -> [Members -> Int]]
         /\ mcheck \in [Pages -> 0 .. MaxChecks]
         /\ DOMAIN checks = 1 .. Len(checks) /\ Len(checks) \in Nat
         /\ \A p \in Pages : Holding(p) => mcheck[p] \in DOMAIN checks
         /\ careful => \A p, q \in Pages : Working(p) /\ pc[q] # "idle" => p = q
<1>1. RunInv /\ OneAtATime
  BY DEF BooksInv, ImportInv
<1>2. purchases \in Seq(Purchase) /\ checks \in Seq(Check)
  BY <1>1 DEF RunInv, RebatesTypeOK
<1>3. \A i \in DOMAIN purchases :
        purchases[i] \in Purchase /\ purchases[i].check \in Nat
  <2>1. \A r \in Purchase : r.check \in 0 .. MaxChecks
    BY DEF Purchase
  <2>2. \A i \in DOMAIN purchases : purchases[i] \in Purchase
    BY <1>2
  <2> QED
    BY <2>1, <2>2, RebatesAssumption
<1> QED
  BY <1>1, <1>2, <1>3
     DEF RunInv, RebatesTypeOK, HasCheck, OneAtATime, Working, Holding, Stages

\* Without a run under way, purchases come and age, and no check changes.
LEMMA NoRunKeepsBooks ==
  ASSUME BooksInv, careful, checks' = checks,
         DOMAIN purchases \subseteq DOMAIN purchases',
         \A i \in DOMAIN purchases :
           /\ purchases'[i].line = purchases[i].line
           /\ purchases'[i].check = purchases[i].check,
         \A i \in DOMAIN purchases' \ DOMAIN purchases : purchases'[i].check = 0,
         \A p \in Pages : ~Working(p) /\ ~Working(p)'
  PROVE  Books'
<1>1. \A i \in DOMAIN purchases' : purchases'[i].check \in 0 .. Len(checks')
  BY BooksSay DEF BooksInv, Books
<1>2. ASSUME NEW c \in DOMAIN checks
      PROVE  OnCheck(c)' = OnCheck(c) /\ Credit(OnCheck(c))' = Credit(OnCheck(c))
  <2>1. c # 0
    BY BooksSay
  <2>2. OnCheck(c)' = OnCheck(c)
    BY <2>1 DEF OnCheck
  <2>3. CreditOf(purchases', OnCheck(c)) = CreditOf(purchases, OnCheck(c))
    BY SameCredit DEF OnCheck
  <2> QED
    BY <2>2, <2>3 DEF Credit
<1>3. \A p \in Pages : ~Holding(p) /\ ~Holding(p)'
  BY DEF Holding, Working
<1> QED
  BY <1>1, <1>2, <1>3 DEF BooksInv, Books

\* The import, and midnight.
LEMMA ImportKeepsBooks ==
  ASSUME BooksInv, careful, careful' = careful,
         NEW p \in Pages,
         BeginImport(p) \/ CheckTransaction(p) \/ InsertPurchase(p)
  PROVE  Books'
<1>1. pc[p] \in {"idle", "look", "insert"} /\ checks' = checks
      /\ (pc[p] = "idle" => AtRest)
  BY DEF BeginImport, CheckTransaction, InsertPurchase, MayBegin
<1>2. \E s \in {"idle", "look", "insert"} : pc' = [pc EXCEPT ![p] = s]
  BY DEF BeginImport, CheckTransaction, InsertPurchase, NextLine, To
<1>3. \A q \in Pages : ~Working(q) /\ ~Working(q)'
  <2>1. \A q \in Pages : ~Working(q)
    BY <1>1, BooksSay DEF AtRest, Working
  <2> QED
    BY <1>2, <2>1, BooksSay DEF Working
<1>4. CASE purchases' = purchases
  BY <1>1, <1>3, <1>4, NoRunKeepsBooks
<1>5. CASE purchases' # purchases
  <2>1. purchases' = Append(purchases, NewPurchase(Current(p)))
    BY <1>5 DEF BeginImport, CheckTransaction, InsertPurchase
  <2>2. /\ DOMAIN purchases' = DOMAIN purchases \cup {Len(purchases) + 1}
        /\ \A i \in DOMAIN purchases : purchases'[i] = purchases[i]
        /\ purchases'[Len(purchases) + 1] = NewPurchase(Current(p))
    BY <2>1, BooksSay
  <2>3. NewPurchase(Current(p)).check = 0
    BY DEF NewPurchase
  <2> QED
    BY <1>1, <1>3, <2>2, <2>3, NoRunKeepsBooks
<1> QED
  BY <1>4, <1>5

\* Purchases come of age.
LEMMA MidnightKeepsBooks ==
  ASSUME BooksInv, careful, careful' = careful, DayPasses
  PROVE  Books'
<1>1. \A q \in Pages : ~Working(q) /\ ~Working(q)'
  BY DEF DayPasses, AtRest, Working
<1>2. checks' = checks /\ DOMAIN purchases' = DOMAIN purchases
  BY DEF DayPasses
<1>3. ASSUME NEW i \in DOMAIN purchases
      PROVE  /\ purchases'[i].line = purchases[i].line
             /\ purchases'[i].check = purchases[i].check
  <2>1. purchases'[i] = [purchases[i] EXCEPT !.old = TRUE]
    BY DEF DayPasses
  <2>2. purchases[i] \in Purchase
    BY BooksSay
  <2> QED
    BY <2>1, <2>2 DEF Purchase
<1> QED
  BY <1>1, <1>2, <1>3, NoRunKeepsBooks

\* The rest of the run is about the other members.
LEMMA Forgotten ==
  ASSUME BooksInv, careful, NEW p \in Pages, NEW m \in Members, Forget(p, m),
         Working(p)
  PROVE  /\ \A q \in Pages : ~Holding(q)'
         /\ \A q \in Pages : Working(q)' => q = p
         /\ todo'[p] = todo[p] \ {m}
         /\ \A o \in todo'[p] : totals'[p][o] = totals[p][o]
<1>1. /\ todo' = [todo EXCEPT ![p] = @ \ {m}]
      /\ totals' = [totals EXCEPT ![p] = [totals[p] EXCEPT ![m] = 0]]
  BY BooksSay DEF Forget
<1>2. \E s \in {"idle", "members"} : pc' = [pc EXCEPT ![p] = s]
  BY DEF Forget, To
<1>3. \A q \in Pages : pc[q] # "idle" => q = p
  BY BooksSay
<1>4. \A q \in Pages : pc'[q] \in {"idle", "members"}
                       /\ (pc'[q] # "idle" => q = p)
  BY <1>2, <1>3, BooksSay
<1>5. totals[p] \in [Members -> Int] /\ todo[p] \in SUBSET Members
  BY BooksSay
<1>6. totals'[p] = [totals[p] EXCEPT ![m] = 0] /\ todo'[p] = todo[p] \ {m}
  BY <1>1, BooksSay
<1> QED
  BY <1>4, <1>5, <1>6 DEF Holding, Working

\* As long as nothing is written, the totals stay those of the table.
LEMMA SameTables ==
  ASSUME purchases' = purchases
  PROVE  /\ \A m : Unpaid(m)' = Unpaid(m) /\ Credit(Unpaid(m))' = Credit(Unpaid(m))
         /\ \A c : OnCheck(c)' = OnCheck(c) /\ Credit(OnCheck(c))' = Credit(OnCheck(c))
<1>1. \A m : Unpaid(m)' = Unpaid(m)
  BY DEF Unpaid
<1>2. \A c : OnCheck(c)' = OnCheck(c)
  BY DEF OnCheck
<1>3. \A rows : CreditOf(purchases', rows) = CreditOf(purchases, rows)
  OBVIOUS
<1> QED
  BY <1>1, <1>2, <1>3 DEF Credit

\* The query: the totals are those of the table.
LEMMA BeginRunKeepsBooks ==
  ASSUME BooksInv, careful, careful' = careful, NEW p \in Pages, BeginRun(p)
  PROVE  Books'
<1> DEFINE ms == {m \in Members \ {DefaultMember} : Unpaid(m) # {}}
           sums == [m \in Members |-> IF m \in ms THEN Credit(Unpaid(m)) ELSE 0]
<1>1. /\ AtRest /\ purchases' = purchases /\ checks' = checks
      /\ todo' = [todo EXCEPT ![p] = ms]
      /\ totals' = [totals EXCEPT ![p] = sums]
      /\ pc' = [pc EXCEPT ![p] = "members"]
  BY DEF BeginRun, MayBegin, To
<1>2. \A m \in ms : m \in Members /\ sums[m] = Credit(Unpaid(m))
  OBVIOUS
<1> HIDE DEF ms, sums
<1>3. todo'[p] = ms /\ totals'[p] = sums
  BY <1>1, BooksSay
<1>4. \A q \in Pages : ~Holding(q) /\ ~Holding(q)' /\ (Working(q)' => q = p)
  BY <1>1, BooksSay DEF AtRest, Holding, Working
<1>5. \A m \in todo'[p] : totals'[p][m] = Credit(Unpaid(m))'
  BY <1>1, <1>2, <1>3, SameTables
<1> QED
  BY <1>1, <1>4, <1>5, SameTables DEF BooksInv, Books

\* A member that gets no check.
LEMMA SkipKeepsBooks ==
  ASSUME BooksInv, careful, careful' = careful, NEW p \in Pages, Working(p),
         NEW m \in Members, Forget(p, m), ~Holding(p),
         purchases' = purchases, checks' = checks
  PROVE  Books'
<1>1. /\ \A q \in Pages : ~Holding(q)'
      /\ \A q \in Pages : Working(q)' => q = p
      /\ todo'[p] = todo[p] \ {m}
      /\ \A o \in todo'[p] : totals'[p][o] = totals[p][o]
  BY Forgotten
<1>2. \A q \in Pages : ~Holding(q)
  BY BooksSay DEF Holding
<1>3. \A o \in todo'[p] : totals'[p][o] = Credit(Unpaid(o))'
  BY <1>1, SameTables DEF BooksInv, Books
<1> QED
  BY <1>1, <1>2, <1>3, SameTables DEF BooksInv, Books

\* A new check, with nothing on it yet.
LEMMA CheckKeepsBooks ==
  ASSUME BooksInv, careful, careful' = careful, NEW p \in Pages, InsertCheck(p)
  PROVE  Books'
<1>1. PICK m \in todo[p] :
        \/ /\ checks' = Append(checks, [member |-> m,
                          amount |-> totals[p][m], void |-> FALSE])
           /\ mcheck' = [mcheck EXCEPT ![p] = Len(checks) + 1]
           /\ To(p, "update")
           /\ UNCHANGED << todo, totals >>
        \/ Forget(p, m) /\ UNCHANGED checks
  BY DEF InsertCheck
<1>2. purchases' = purchases /\ pc[p] = "members" /\ Working(p) /\ m \in Members
      /\ ~Holding(p)
  BY BooksSay DEF InsertCheck, Working, Holding
<1>3. CASE Forget(p, m) /\ UNCHANGED checks
  BY <1>2, <1>3, SkipKeepsBooks
<1>4. CASE /\ checks' = Append(checks, [member |-> m,
                          amount |-> totals[p][m], void |-> FALSE])
           /\ mcheck' = [mcheck EXCEPT ![p] = Len(checks) + 1]
           /\ To(p, "update")
           /\ UNCHANGED << todo, totals >>
  <2> DEFINE n == Len(checks) + 1
             new == [member |-> m, amount |-> totals[p][m], void |-> FALSE]
  <2>1. new.member = m /\ new.amount = totals[p][m] /\ ~new.void
    OBVIOUS
  <2> HIDE DEF new
  <2>2. /\ DOMAIN checks' = DOMAIN checks \cup {n} /\ n \notin DOMAIN checks
        /\ checks'[n] = new /\ Len(checks') = n
        /\ \A c \in DOMAIN checks : checks'[c] = checks[c]
    BY <1>4, BooksSay DEF new
  <2>3. \A q \in Pages : ~Holding(q)
    BY <1>2, BooksSay DEF Holding
  <2>4. \A q \in Pages : Working(q)' => q = p
    BY <1>2, <1>4, BooksSay DEF To, Working
  <2>5. Holding(p)' /\ mcheck'[p] = n
    BY <1>4, BooksSay DEF To, Holding
  <2>6. \A q \in Pages : Holding(q)' => q = p
    BY <2>4 DEF Holding, Working
  <2>7. OnCheck(n) = {} /\ \A i \in DOMAIN purchases' :
                             purchases'[i].check \in 0 .. Len(checks')
    <3>1. \A i \in DOMAIN purchases : purchases[i].check \in 0 .. Len(checks)
      BY DEF BooksInv, Books
    <3> QED
      BY <1>2, <2>2, <3>1, BooksSay DEF OnCheck
  <2>8. \A c \in DOMAIN checks' :
          IF checks'[c].void \/ \E q \in Pages : Holding(q)' /\ mcheck'[q] = c
            THEN OnCheck(c)' = {}
            ELSE checks'[c].amount = Credit(OnCheck(c))'
    <3> SUFFICES ASSUME NEW c \in DOMAIN checks'
                 PROVE  IF checks'[c].void
                             \/ \E q \in Pages : Holding(q)' /\ mcheck'[q] = c
                          THEN OnCheck(c)' = {}
                          ELSE checks'[c].amount = Credit(OnCheck(c))'
      OBVIOUS
    <3>1. CASE c = n
      BY <1>2, <2>5, <2>7, <3>1, SameTables
    <3>2. CASE c # n
      BY <1>2, <2>2, <2>3, <2>5, <2>6, <3>2, SameTables DEF BooksInv, Books
    <3> QED
      BY <3>1, <3>2
  <2>9. \A o \in todo'[p] : totals'[p][o] = Credit(Unpaid(o))'
    BY <1>2, <1>4, SameTables DEF BooksInv, Books
  <2>10. LET check == checks'[mcheck'[p]]
         IN  /\ ~check.void /\ check.member \in todo'[p]
             /\ check.amount = totals'[p][check.member]
    BY <1>4, <2>1, <2>2, <2>5
  <2> QED
    BY <2>4, <2>6, <2>7, <2>8, <2>9, <2>10 DEF Books
<1> QED
  BY <1>1, <1>3, <1>4

\* Who holds a check is alone, and the check is still empty.
LEMMA HoldingSays ==
  ASSUME BooksInv, careful, NEW p \in Pages, Holding(p)
  PROVE  LET c == mcheck[p]
             m == checks[c].member
         IN  /\ c \in DOMAIN checks /\ c # 0 /\ m \in Members /\ m \in todo[p]
             /\ ~checks[c].void /\ OnCheck(c) = {}
             /\ checks[c].amount = Credit(Unpaid(m))
             /\ Working(p) /\ \A q \in Pages : Holding(q) => q = p
             /\ \A d \in DOMAIN checks : d # c =>
                  IF checks[d].void THEN OnCheck(d) = {}
                                    ELSE checks[d].amount = Credit(OnCheck(d))
<1> DEFINE c == mcheck[p]
           m == checks[c].member
<1>1. c \in DOMAIN checks /\ c # 0
  BY BooksSay
<1>2. Working(p) /\ \A q \in Pages : Holding(q) => q = p
  BY BooksSay DEF Working, Holding
<1>3. ~checks[c].void /\ m \in todo[p] /\ checks[c].amount = totals[p][m]
  BY DEF BooksInv, Books
<1>4. m \in Members
  BY <1>3, BooksSay
<1>5. totals[p][m] = Credit(Unpaid(m))
  BY <1>2, <1>3 DEF BooksInv, Books
<1>6. OnCheck(c) = {}
  BY <1>1 DEF BooksInv, Books
<1>7. \A d \in DOMAIN checks : d # c =>
        IF checks[d].void THEN OnCheck(d) = {}
                          ELSE checks[d].amount = Credit(OnCheck(d))
  BY <1>2 DEF BooksInv, Books
<1> QED
  BY <1>1, <1>2, <1>3, <1>4, <1>5, <1>6, <1>7

\* What is put on the check is what its amount was the sum of.
LEMMA UpdateKeepsBooks ==
  ASSUME BooksInv, careful, careful' = careful, NEW p \in Pages,
         UpdatePurchases(p)
  PROVE  Books'
<1> DEFINE c == mcheck[p]
           m == checks[c].member
<1>1. Holding(p) /\ checks' = checks
  BY DEF UpdatePurchases, Holding
<1>2. /\ c \in DOMAIN checks /\ c # 0 /\ m \in Members /\ m \in todo[p]
      /\ ~checks[c].void /\ OnCheck(c) = {}
      /\ checks[c].amount = Credit(Unpaid(m))
      /\ Working(p) /\ \A q \in Pages : Holding(q) => q = p
      /\ \A d \in DOMAIN checks : d # c =>
           IF checks[d].void THEN OnCheck(d) = {}
                             ELSE checks[d].amount = Credit(OnCheck(d))
  BY <1>1, HoldingSays
<1>3. /\ \A i \in DOMAIN purchases : purchases[i].check \in 0 .. Len(checks)
      /\ \A o \in todo[p] : totals[p][o] = Credit(Unpaid(o))
  BY <1>2 DEF BooksInv, Books
<1>4. CASE To(p, "undo") /\ UNCHANGED << purchases, runVars >>
  <2>1. UNCHANGED << purchases, todo, totals, mcheck >>
    BY <1>4 DEF runVars
  <2>2. \A q \in Pages : Holding(q)' <=> Holding(q)
    BY <1>1, <1>4, BooksSay DEF To, Holding
  <2>3. \A q \in Pages : Working(q)' => Working(q)
    BY <1>2, <1>4, BooksSay DEF To, Working
  <2> QED
    BY <1>1, <2>1, <2>2, <2>3, SameTables DEF BooksInv, Books
<1>5. ASSUME Forget(p, m),
             purchases' = [i \in DOMAIN purchases |->
                 IF i \in Unpaid(m)
                   THEN [purchases[i] EXCEPT !.check = c]
                   ELSE purchases[i]]
      PROVE  Books'
  <2>1. /\ \A q \in Pages : ~Holding(q)'
        /\ \A q \in Pages : Working(q)' => q = p
        /\ todo'[p] = todo[p] \ {m}
        /\ \A o \in todo'[p] : totals'[p][o] = totals[p][o]
    BY <1>2, <1>5, Forgotten
  <2>2. DOMAIN purchases' = DOMAIN purchases
    BY <1>5
  <2>3. ASSUME NEW i \in DOMAIN purchases
        PROVE  /\ purchases'[i].line = purchases[i].line
               /\ purchases'[i].old = purchases[i].old
               /\ purchases'[i].check = IF i \in Unpaid(m) THEN c
                                        ELSE purchases[i].check
    <3>1. purchases[i] \in Purchase
      BY BooksSay
    <3>2. purchases'[i] = IF i \in Unpaid(m)
                            THEN [purchases[i] EXCEPT !.check = c]
                            ELSE purchases[i]
      BY <1>5
    <3> QED
      BY <3>1, <3>2 DEF Purchase
  <2> HIDE DEF c, m
  <2>4. \A o \in Members \ {m} : Unpaid(o)' = Unpaid(o)
    BY <2>2, <2>3 DEF Unpaid
  <2>5. \A d : d = c => OnCheck(d)' = Unpaid(m)
    BY <1>2, <2>2, <2>3 DEF OnCheck, Unpaid
  <2>6. \A d \in DOMAIN checks \ {c} : OnCheck(d)' = OnCheck(d)
    <3>1. \A i \in Unpaid(m) : purchases[i].check = 0
      BY DEF Unpaid
    <3>2. \A d \in DOMAIN checks : d # 0
      BY BooksSay
    <3> QED
      BY <2>2, <2>3, <3>1, <3>2 DEF OnCheck
  <2>7. ASSUME NEW rows \in SUBSET DOMAIN purchases
        PROVE  CreditOf(purchases', rows) = CreditOf(purchases, rows)
    BY <2>3, SameCredit
  <2>8. \A d \in DOMAIN checks' :
          IF checks'[d].void THEN OnCheck(d)' = {}
                             ELSE checks'[d].amount = Credit(OnCheck(d))'
    <3> SUFFICES ASSUME NEW d \in DOMAIN checks'
                 PROVE  IF checks'[d].void THEN OnCheck(d)' = {}
                        ELSE checks'[d].amount = Credit(OnCheck(d))'
      OBVIOUS
    <3>1. CASE d = c
      <4>1. CreditOf(purchases', Unpaid(m)) = CreditOf(purchases, Unpaid(m))
        BY <2>7 DEF Unpaid
      <4>2. Credit(OnCheck(d))' = Credit(Unpaid(m))
        BY <2>5, <3>1, <4>1 DEF Credit
      <4> QED
        BY <1>1, <1>2, <3>1, <4>2
    <3>2. CASE d # c
      <4>1. CreditOf(purchases', OnCheck(d)) = CreditOf(purchases, OnCheck(d))
        BY <2>7 DEF OnCheck
      <4>2. Credit(OnCheck(d))' = Credit(OnCheck(d))
        BY <1>1, <2>6, <3>2, <4>1 DEF Credit
      <4> QED
        BY <1>1, <1>2, <2>6, <3>2, <4>2
    <3> QED
      BY <3>1, <3>2
  <2>9. \A o \in todo'[p] : totals'[p][o] = Credit(Unpaid(o))'
    <3> SUFFICES ASSUME NEW o \in todo'[p]
                 PROVE  totals'[p][o] = Credit(Unpaid(o))'
      OBVIOUS
    <3>1. o \in todo[p] /\ o \in Members \ {m}
      BY <2>1, BooksSay
    <3>2. CreditOf(purchases', Unpaid(o)) = CreditOf(purchases, Unpaid(o))
      BY <2>7 DEF Unpaid
    <3>3. Credit(Unpaid(o))' = Credit(Unpaid(o))
      BY <2>4, <3>1, <3>2 DEF Credit
    <3> QED
      BY <1>3, <2>1, <3>1, <3>3
  <2>10. \A i \in DOMAIN purchases' : purchases'[i].check \in 0 .. Len(checks')
    <3>1. c \in 0 .. Len(checks)
      BY <1>2, BooksSay
    <3> QED
      BY <1>1, <1>3, <2>2, <2>3, <3>1
  <2> QED
    BY <2>1, <2>8, <2>9, <2>10 DEF Books
<1> QED
  BY <1>4, <1>5 DEF UpdatePurchases

\* The check that could not be used is deleted.
LEMMA UndoKeepsBooks ==
  ASSUME BooksInv, careful, careful' = careful, NEW p \in Pages,
         "delete" \notin Failing, UndoCheck(p)
  PROVE  Books'
<1> DEFINE c == mcheck[p]
           m == checks[c].member
<1>1. /\ Holding(p) /\ purchases' = purchases /\ Forget(p, m)
      /\ checks' = [checks EXCEPT ![c].void = TRUE]
  BY DEF UndoCheck, Holding
<1>2. /\ c \in DOMAIN checks /\ m \in Members /\ OnCheck(c) = {} /\ Working(p)
      /\ \A d \in DOMAIN checks : d # c =>
           IF checks[d].void THEN OnCheck(d) = {}
                             ELSE checks[d].amount = Credit(OnCheck(d))
  BY <1>1, HoldingSays
<1>3. /\ \A i \in DOMAIN purchases : purchases[i].check \in 0 .. Len(checks)
      /\ \A o \in todo[p] : totals[p][o] = Credit(Unpaid(o))
  BY <1>2 DEF BooksInv, Books
<1>4. /\ \A q \in Pages : ~Holding(q)'
      /\ \A q \in Pages : Working(q)' => q = p
      /\ todo'[p] = todo[p] \ {m}
      /\ \A o \in todo'[p] : totals'[p][o] = totals[p][o]
  BY <1>1, <1>2, Forgotten
<1> HIDE DEF c, m
<1>5. checks \in Seq(Check)
  BY BooksSay
<1>6. /\ DOMAIN checks' = DOMAIN checks /\ Len(checks') = Len(checks)
      /\ checks'[c].void /\ \A d \in DOMAIN checks : d # c => checks'[d] = checks[d]
  <2>1. checks[c] \in Check
    BY <1>2, <1>5
  <2>2. checks' = [checks EXCEPT ![c] = [checks[c] EXCEPT !.void = TRUE]]
    BY <1>1
  <2> DEFINE voided == [checks[c] EXCEPT !.void = TRUE]
  <2>3. voided \in Check /\ voided.void
    BY <2>1 DEF Check
  <2>4. c \in 1 .. Len(checks) /\ checks' = [checks EXCEPT ![c] = voided]
    BY <1>2, <2>2, BooksSay
  <2> HIDE DEF voided
  <2>5. Len(checks') = Len(checks)
        /\ \A d \in 1 .. Len(checks) : checks'[d] = IF d = c THEN voided ELSE checks[d]
    BY <1>5, <2>3, <2>4, ExceptSeq
  <2>6. DOMAIN checks' = DOMAIN checks /\ DOMAIN checks = 1 .. Len(checks)
    BY <2>4, BooksSay
  <2> QED
    BY <2>3, <2>4, <2>5, <2>6
<1>7. \A d \in DOMAIN checks' :
        IF checks'[d].void THEN OnCheck(d)' = {}
                           ELSE checks'[d].amount = Credit(OnCheck(d))'
  BY <1>1, <1>2, <1>6, SameTables
<1>8. \A o \in todo'[p] : totals'[p][o] = Credit(Unpaid(o))'
  BY <1>1, <1>3, <1>4, SameTables
<1> QED
  BY <1>1, <1>3, <1>4, <1>6, <1>7, <1>8 DEF Books

\* Every step keeps BooksInv.
LEMMA BooksInvNext ==
  ASSUME "delete" \notin Failing, BooksInv, [RebatesNext]_rebateVars
  PROVE  BooksInv'
<1>1. ImportInv'
  BY ImportInvNext DEF BooksInv
<1>2. careful' = careful
  BY DEF RebatesNext, BeginImport, CheckTransaction, InsertPurchase, BeginRun,
         SkipMember, InsertCheck, UpdatePurchases, UndoCheck, DayPasses,
         PageDies, rebateVars
<1>3. CASE ~careful
  BY <1>1, <1>2, <1>3 DEF BooksInv, Books
<1>4. CASE careful
  <2>1. CASE UNCHANGED rebateVars
    <3>1. UNCHANGED << purchases, checks, pc, todo, totals, mcheck >>
      BY <2>1 DEF rebateVars
    <3>2. Books'
      BY <1>2, <3>1, SameTables DEF BooksInv, Books, Holding, Working
    <3> QED
      BY <1>1, <3>2 DEF BooksInv
  <2>2. ASSUME NEW p \in Pages, SkipMember(p) PROVE Books'
    <3>1. PICK m \in todo[p] : Forget(p, m)
      BY <2>2 DEF SkipMember
    <3>2. Working(p) /\ ~Holding(p) /\ m \in Members
          /\ purchases' = purchases /\ checks' = checks
      BY <2>2, BooksSay DEF SkipMember, Working, Holding
    <3> QED
      BY <1>2, <1>4, <3>1, <3>2, SkipKeepsBooks
  <2>3. CASE RebatesNext
    <3>1. Books'
      BY <1>2, <1>4, <2>2, <2>3, MidnightKeepsBooks, ImportKeepsBooks,
         BeginRunKeepsBooks, CheckKeepsBooks, UpdateKeepsBooks, UndoKeepsBooks
         DEF RebatesNext, PageDies
    <3> QED
      BY <1>1, <3>1 DEF BooksInv
  <2> QED
    BY <2>1, <2>3
<1> QED
  BY <1>3, <1>4

(***************************************************************************)
(* For any members, lines, files and minimum credit, with inserts and      *)
(* updates that fail: if pages are used one at a time and none is killed,  *)
(* and a check that could not be used can be deleted, then between pages   *)
(* the amount of a check is the credit of the purchases that are on it,    *)
(* and nothing is on a deleted one (member_check.cpp).                     *)
(***************************************************************************)
THEOREM ChecksAreCovered ==
  ASSUME "delete" \notin Failing
  PROVE  RebatesSpec => []BooksBalance
<1>1. RebatesInit => BooksInv
  BY ImportInvInit DEF BooksInv, Books, RebatesInit, Working, Holding
<1>2. BooksInv => BooksBalance
  <2> SUFFICES ASSUME BooksInv, careful, AtRest, NEW c \in DOMAIN checks
               PROVE  IF checks[c].void THEN OnCheck(c) = {}
                      ELSE checks[c].amount = Credit(OnCheck(c))
    BY DEF BooksBalance, OnCheck
  <2>1. \A p \in Pages : ~Holding(p)
    BY DEF AtRest, Holding
  <2> QED
    BY <2>1 DEF BooksInv, Books
<1>3. BooksInv /\ [RebatesNext]_rebateVars => BooksInv'
  BY BooksInvNext
<1> QED
  BY <1>1, <1>2, <1>3, PTL DEF RebatesSpec
=============================================================================
