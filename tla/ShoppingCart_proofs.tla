------------------------- MODULE ShoppingCart_proofs -------------------------
(***************************************************************************)
(* Proofs about ShoppingCart, for any number of browsers, requests, carts  *)
(* and lines, and any mix of overlapping and failing requests: every       *)
(* variable keeps its type, no two browsers ever share a cart, and what    *)
(* the operations keep of a cart's contents holds of every row.  With one  *)
(* request at a time, the store implements Basket; for that the module has *)
(* the facts about sums of sequences that its definition in pieces needs.  *)
(***************************************************************************)
EXTENDS ShoppingCart, SequenceTheorems, FiniteSetTheorems,
        WellFoundedInduction, TLAPS

-----------------------------------------------------------------------------
(* The contents of a cart: each operation makes a cart of a cart.          *)

Contents == Seq(Line)
Opts     == Options \cup {NoOptions}

(***************************************************************************)
(* The positions that the search for a product yields are lines of it.     *)
(***************************************************************************)
LEMMA NthLineIsLine ==
  ASSUME NEW lines, NEW p, NEW n
  PROVE  NthLine(lines, p, n) \subseteq DOMAIN lines
  BY DEF NthLine, LinesOf

\* Every element of a cart's contents is a line.
LEMMA LineType ==
  ASSUME NEW lines \in Contents, NEW i \in DOMAIN lines
  PROVE  i \in 1 .. Len(lines) /\ lines[i] \in Line
<1>1. DOMAIN lines = 1 .. Len(lines)
  BY LenProperties DEF Contents
<1> QED
  BY <1>1, ElementOfSeq DEF Contents

\* The count of a line is an integer.
LEMMA CountIsInt ==
  ASSUME NEW line \in Line
  PROVE  line.count \in Int
  BY DEF Line

\* A line with another integer for its count is a line.
LEMMA CountType ==
  ASSUME NEW line \in Line, NEW n \in Int
  PROVE  [line EXCEPT !.count = n] \in Line
  BY DEF Line

(***************************************************************************)
(* Replacing one line by a line gives the contents of a cart.              *)
(***************************************************************************)
LEMMA ReplaceType ==
  ASSUME NEW lines \in Contents, NEW i \in DOMAIN lines, NEW line \in Line
  PROVE  [lines EXCEPT ![i] = line] \in Contents
  BY LineType, ExceptSeq DEF Contents

(***************************************************************************)
(* Removing one line, the first or the last too, leaves a cart's contents. *)
(***************************************************************************)
LEMMA RemoveType ==
  ASSUME NEW lines \in Contents, NEW i \in DOMAIN lines
  PROVE  RemoveAt(lines, i) \in Contents
<1>1. i \in 1 .. Len(lines)
  BY DEF Contents
<1>2. SubSeq(lines, 1, i - 1) \in Seq(Line)
  BY <1>1, SubSeqProperties DEF Contents
<1>3. SubSeq(lines, i + 1, Len(lines)) \in Seq(Line)
  BY <1>1, SubSeqProperties DEF Contents
<1> QED
  BY <1>2, <1>3, ConcatProperties DEF RemoveAt, Contents

\* What is left of a cart's contents without the last line are contents.
LEMMA FrontType ==
  ASSUME NEW lines \in Contents
  PROVE  Front(lines) \in Contents
  BY SubSeqProperties DEF Front, Contents

\* A line the customer has customized is a line.
LEMMA CustomizeType ==
  ASSUME NEW line \in Line, NEW opts \in Opts
  PROVE  Customize(line, opts) \in Line
  BY DEF Customize, Line, Opts

\* AlwaysAddProduct turns contents of a cart into contents of a cart.
LEMMA AlwaysAddType ==
  ASSUME NEW lines \in Contents, NEW p \in Products, NEW count \in Int,
         NEW opts \in Opts, NEW stock \in Int
  PROVE  AlwaysAddLine(lines, p, count, opts, stock) \in Contents
<1> DEFINE iCan == AtMost(count, stock)
<1>1. iCan \in Int
  BY DEF AtMost
<1>2. [id |-> p, count |-> iCan, options |-> opts] \in Line
  BY <1>1 DEF Line, Opts
<1> HIDE DEF iCan
<1>3. Append(lines, [id |-> p, count |-> iCan, options |-> opts]) \in Contents
  BY <1>2, AppendProperties DEF Contents
<1> QED
  BY <1>3 DEF AlwaysAddLine, iCan

\* When the search for a product finds something, it is a line.
LEMMA FirstLineIsLine ==
  ASSUME NEW lines, NEW p, HasLine(lines, p)
  PROVE  FirstLine(lines, p) \in DOMAIN lines
  BY NthLineIsLine DEF HasLine, FirstLine

\* AddProduct turns contents of a cart into contents of a cart.
LEMMA AddType ==
  ASSUME NEW lines \in Contents, NEW p \in Products, NEW count \in Int,
         NEW opts \in Opts, NEW stock \in Int
  PROVE  AddLine(lines, p, count, opts, stock) \in Contents
<1>1. CASE ~HasLine(lines, p)
  BY <1>1, AlwaysAddType DEF AddLine
<1>2. CASE HasLine(lines, p)
  <2> DEFINE i    == FirstLine(lines, p)
             n    == AtMost(lines[i].count + count, stock)
             more == [lines[i] EXCEPT !.count = n]
  <2>1. i \in DOMAIN lines
    BY <1>2, FirstLineIsLine
  <2>2. lines[i] \in Line
    BY <2>1, LineType
  <2>3. n \in Int
    <3>1. lines[i].count \in Int
      BY <2>2, CountIsInt
    <3> QED
      BY <3>1 DEF AtMost
  <2>4. more \in Line
    BY <2>2, <2>3, CountType
  <2>5. [lines EXCEPT ![i] = Customize(more, opts)] \in Contents
    BY <2>1, <2>4, CustomizeType, ReplaceType
  <2> QED
    BY <1>2, <2>5 DEF AddLine
<1> QED
  BY <1>1, <1>2

\* RemoveProduct turns contents of a cart into contents of a cart.
LEMMA RemovePieceType ==
  ASSUME NEW lines \in Contents, NEW p
  PROVE  RemovePiece(lines, p) \in Contents
<1>1. CASE ~HasLine(lines, p)
  BY <1>1 DEF RemovePiece
<1>2. CASE HasLine(lines, p)
  <2> DEFINE i == FirstLine(lines, p)
             less == [lines[i] EXCEPT !.count = lines[i].count - 1]
  <2>1. i \in DOMAIN lines
    BY <1>2, FirstLineIsLine
  <2>2. lines[i] \in Line
    BY <2>1, LineType
  <2>3. less \in Line
    <3>1. lines[i].count \in Int
      BY <2>2, CountIsInt
    <3>2. lines[i].count - 1 \in Int
      BY <3>1
    <3> QED
      BY <2>2, <3>2, CountType
  <2>4. [lines EXCEPT ![i] = less] \in Contents
    BY <2>1, <2>3, ReplaceType
  <2>5. RemoveAt(lines, i) \in Contents
    BY <2>1, RemoveType
  <2> QED
    BY <1>2, <2>4, <2>5 DEF RemovePiece
<1> QED
  BY <1>1, <1>2

\* Whatever UpdateProduct makes of contents, they are contents of a cart.
LEMMA UpdateType ==
  ASSUME NEW lines \in Contents, NEW p, NEW count \in Int, NEW opts \in Opts,
         NEW node \in Int
  PROVE  UpdateOutcomes(lines, p, count, opts, node) \subseteq Contents
<1> DEFINE nth    == NthLine(lines, p, IF node > 0 THEN node + 1 ELSE 1)
           new(i) == Customize([lines[i] EXCEPT !.count = count], opts)
<1>1. nth \subseteq DOMAIN lines
  BY NthLineIsLine
<1>2. \A i \in nth : RemoveAt(lines, i) \in Contents
  BY <1>1, RemoveType
<1>3. ASSUME NEW i \in nth
      PROVE  [lines EXCEPT ![i] = new(i)] \in Contents
  <2>1. [lines[i] EXCEPT !.count = count] \in Line
    BY <1>1, <1>3, LineType, CountType
  <2>2. new(i) \in Line
    BY <2>1, CustomizeType
  <2> QED
    BY <2>2, ReplaceType, <1>1
<1>4. Front(lines) \in Contents
  BY FrontType
<1> QED
  BY <1>2, <1>3, <1>4 DEF UpdateOutcomes

-----------------------------------------------------------------------------
(* Types.                                                                  *)

\* A row that exists is a row.
LEMMA RowType ==
  ASSUME CartTypeOK, NEW c \in DOMAIN carts
  PROVE  c \in 1 .. Len(carts) /\ carts[c] \in Row
<1>1. carts \in Seq(Row)
  BY DEF CartTypeOK
<1>2. DOMAIN carts = 1 .. Len(carts)
  BY <1>1, LenProperties
<1> QED
  BY <1>1, <1>2, ElementOfSeq

\* get_data() makes a cart object of any id, whether it has a row or not.
LEMMA StoredType ==
  ASSUME CartTypeOK, NEW id
  PROVE  Stored(id) \in CartObj
<1>1. NoCart \in CartObj
  BY EmptySeq DEF NoCart, CartObj
<1>2. ASSUME id \in DOMAIN carts
      PROVE  /\ id \in Nat
             /\ carts[id].lines \in Seq(Line)
             /\ carts[id].checkedOut \in BOOLEAN
  BY <1>2, RowType DEF Row
<1> QED
  BY <1>1, <1>2 DEF Stored, CartObj

\* The tables and the processes have their types in the beginning.
LEMMA CartInitType == CartInit => CartTypeOK
<1> SUFFICES ASSUME CartInit PROVE CartTypeOK
  OBVIOUS
<1>1. AnyBrowser \in Browsers
  BY CartAssumption DEF AnyBrowser
<1>2. carts \in Seq(Row)
  BY EmptySeq DEF CartInit
<1>3. NoCart \in CartObj
  BY EmptySeq DEF NoCart, CartObj
<1> QED
  BY <1>1, <1>2, <1>3 DEF CartInit, CartTypeOK, CartRef, Empty, Keep

\* The id a request asks for is a number, or there is none.
LEMMA RequestedType ==
  ASSUME CartTypeOK, NEW b \in Browsers, NEW prog,
         NEW link \in links[b] \cup {Empty}
  PROVE  link \in CartRef /\ RequestedCart(prog, b, link) \in CartRef
  BY DEF CartTypeOK, RequestedCart, CartRef

\* The constructor of uiShoppingCart keeps all types.
LEMMA ConstructType ==
  ASSUME CartTypeOK, NEW r \in Requests, Construct(r)
  PROVE  CartTypeOK'
<1>0. PICK b \in Browsers, prog \in Programs :
        \/ NewCart(r, b, prog)
        \/ NoNewCart(r, b, prog)
        \/ \E link \in links[b] \cup {Empty} : LoadCart(r, b, prog, link)
  BY DEF Construct
<1>1. [lines |-> << >>, checkedOut |-> FALSE] \in Row /\ NoCart \in CartObj
  BY EmptySeq DEF Row, NoCart, CartObj
<1>2. CASE NewCart(r, b, prog)
  <2> DEFINE row == [lines |-> << >>, checkedOut |-> FALSE]
  <2>1. carts' = Append(carts, row)
    BY <1>2 DEF NewCart
  <2>2. carts' \in Seq(Row) /\ Len(carts') \in Nat
    BY <1>1, <2>1, AppendProperties, LenProperties DEF CartTypeOK
  <2>3. [NoCart EXCEPT !.id = Len(carts')] \in CartObj
    BY <1>1, <2>2 DEF CartObj
  <2> QED
    BY <1>2, <2>2, <2>3 DEF NewCart, Begin, CartTypeOK, CartRef
<1>3. CASE NoNewCart(r, b, prog)
  BY <1>1, <1>3 DEF NoNewCart, Begin, CartTypeOK
<1>4. ASSUME NEW link \in links[b] \cup {Empty}, LoadCart(r, b, prog, link)
      PROVE  CartTypeOK'
  <2> DEFINE id == RequestedCart(prog, b, link)
  <2>1. Stored(id) \in CartObj
    BY StoredType
  <2>2. link \in CartRef
    BY RequestedType
  <2> QED
    BY <1>4, <2>1, <2>2 DEF LoadCart, Begin, CartTypeOK, CartRef
<1> QED
  BY <1>0, <1>2, <1>3, <1>4

(***************************************************************************)
(* Saving a cart's contents and going on to the page keeps all types.      *)
(***************************************************************************)
LEMMA SaveType ==
  ASSUME CartTypeOK, NEW r \in Requests, NEW lines \in Contents,
         NEW checkedOut \in BOOLEAN,
         pc[r] \in Programs, Save(r, lines, checkedOut), Finish(r)
  PROVE  CartTypeOK'
<1> DEFINE id  == cart[r].id
           row == [lines |-> lines, checkedOut |-> checkedOut]
<1>1. id \in Nat
  BY DEF CartTypeOK, CartObj
<1>2. row \in Row
  BY DEF Row, Contents
<1>3. [carts EXCEPT ![id] = row] \in Seq(Row)
  <2>1. CASE id \in DOMAIN carts
    BY <1>2, <2>1, LenProperties, ExceptSeq DEF CartTypeOK
  <2>2. CASE id \notin DOMAIN carts
    <3>1. carts \in [1 .. Len(carts) -> Row] /\ DOMAIN carts = 1 .. Len(carts)
      BY LenProperties DEF CartTypeOK
    <3>2. [carts EXCEPT ![id] = row] = carts
      BY <2>2, <3>1
    <3> QED
      BY <3>2 DEF CartTypeOK
  <2> QED
    BY <2>1, <2>2
<1>4. [id |-> id, lines |-> lines, checkedOut |-> checkedOut] \in CartObj
  BY <1>1 DEF CartObj, Contents
<1>5. Stored(id) \in CartObj
  BY StoredType
<1>6. carts' \in Seq(Row) /\ cart' \in [Requests -> CartObj]
  BY <1>3, <1>4, <1>5 DEF Save, CartTypeOK
<1>7. Page[pc[r]] \in {"cartPage", "checkOutPage"}
  BY DEF Page, Programs
<1> QED
  BY <1>6, <1>7 DEF Finish, CartTypeOK

\* The operations of openCart.cgi keep all types.
LEMMA ShopType ==
  ASSUME CartTypeOK, NEW r \in Requests, Shop(r)
  PROVE  CartTypeOK'
<1> DEFINE lines == cart[r].lines
<1>1. lines \in Contents /\ cart[r].checkedOut \in BOOLEAN
  BY DEF CartTypeOK, CartObj, Contents
<1>2. ASSUME NEW op, Asks(r, op)
      PROVE  pc[r] \in Programs
  BY <1>2 DEF Asks, Programs
<1>3. PICK p \in Products :
        \/ \E count \in AddCounts, opts \in Opts, stock \in Stocks :
             \/ AlwaysAddProduct(r, p, count, opts, stock)
             \/ AddProduct(r, p, count, NoOptions, stock)
        \/ \E count \in NewCounts, node \in Nodes :
             UpdateProduct(r, p, count, NoOptions, node)
        \/ RemoveProduct(r, p)
  BY DEF Shop, Opts
<1>4. NoOptions \in Opts
  BY DEF Opts
<1>5. ASSUME NEW count \in AddCounts, NEW opts \in Opts, NEW stock \in Stocks,
             AlwaysAddProduct(r, p, count, opts, stock)
      PROVE  CartTypeOK'
  <2>1. count \in Int /\ stock \in Int
    BY CartAssumption
  <2>2. AlwaysAddLine(lines, p, count, opts, stock) \in Contents
    BY <1>1, <2>1, AlwaysAddType
  <2> QED
    BY <1>1, <1>2, <1>5, <2>2, SaveType DEF AlwaysAddProduct
<1>6. ASSUME NEW count \in AddCounts, NEW stock \in Stocks,
             AddProduct(r, p, count, NoOptions, stock)
      PROVE  CartTypeOK'
  <2>1. count \in Int /\ stock \in Int
    BY CartAssumption
  <2>2. AddLine(lines, p, count, NoOptions, stock) \in Contents
    BY <1>1, <1>4, <2>1, AddType
  <2>3. (LinesOf(lines, p) # {}) \in BOOLEAN
    OBVIOUS
  <2> QED
    BY <1>1, <1>2, <1>6, <2>2, <2>3, SaveType DEF AddProduct
<1>7. ASSUME NEW count \in NewCounts, NEW node \in Nodes,
             UpdateProduct(r, p, count, NoOptions, node)
      PROVE  CartTypeOK'
  <2> DEFINE outcomes == UpdateOutcomes(lines, p, count, NoOptions, node)
  <2>1. outcomes \subseteq Contents
    BY <1>1, <1>4, UpdateType, CartAssumption
  <2> HIDE DEF outcomes
  <2>2. pc[r] \in Programs /\ Finish(r)
    BY <1>2, <1>7 DEF UpdateProduct
  <2>3. CASE \E new \in outcomes : Save(r, new, cart[r].checkedOut)
    BY <1>1, <2>1, <2>2, <2>3, SaveType
  <2>4. CASE UNCHANGED << carts, cart >>
    <3>1. Page[pc[r]] \in {"cartPage", "checkOutPage"}
      BY <2>2 DEF Page, Programs
    <3> QED
      BY <2>2, <2>4, <3>1 DEF Finish, CartTypeOK
  <2> QED
    BY <1>7, <2>3, <2>4 DEF UpdateProduct, outcomes
<1>8. CASE RemoveProduct(r, p)
  <2>1. RemovePiece(lines, p) \in Contents
    BY <1>1, RemovePieceType
  <2> QED
    BY <1>1, <1>2, <1>8, <2>1, SaveType DEF RemoveProduct
<1> QED
  BY <1>3, <1>5, <1>6, <1>7, <1>8

\* Writing a page keeps all types.
LEMMA ShowPageType ==
  ASSUME CartTypeOK, NEW r \in Requests, ShowPage(r)
  PROVE  CartTypeOK'
<1>1. Page[pc[r]] \in {"cartPage", "checkOutPage"}
  BY DEF ShowPage, Page, Programs
<1> QED
  BY <1>1 DEF ShowPage, Finish, CartTypeOK

\* CheckOut() keeps all types.
LEMMA CheckOutType ==
  ASSUME CartTypeOK, NEW r \in Requests, CheckOut(r)
  PROVE  CartTypeOK'
<1>1. cart[r].lines \in Contents
  BY DEF CartTypeOK, CartObj, Contents
<1> QED
  BY <1>1, SaveType DEF CheckOut, Programs

\* A request that is over keeps the types of all that belongs to it.
LEMMA IdleType ==
  ASSUME CartTypeOK, NEW r \in Requests, Idle(r)
  PROVE  /\ carts' \in Seq(Row)
         /\ pc' \in [Requests -> Programs \cup {"idle", "cartPage", "checkOutPage"}]
         /\ who' \in [Requests -> Browsers]
         /\ cart' \in [Requests -> CartObj]
         /\ setCookie' \in [Requests -> CartRef \cup {Keep}]
<1>1. AnyBrowser \in Browsers
  BY CartAssumption DEF AnyBrowser
<1>2. NoCart \in CartObj
  BY EmptySeq DEF NoCart, CartObj
<1> QED
  BY <1>1, <1>2 DEF Idle, CartTypeOK

\* A response that arrives keeps all types.
LEMMA ReplyType ==
  ASSUME CartTypeOK, NEW r \in Requests, Reply(r)
  PROVE  CartTypeOK'
<1>1. crtid' \in [Browsers -> CartRef]
  BY DEF Reply, CartTypeOK
<1>2. links' \in [Browsers -> SUBSET Nat]
  BY DEF Reply, CartTypeOK, CartObj
<1> QED
  BY <1>1, <1>2, IdleType DEF Reply, CartTypeOK

\* A process that is killed keeps all types.
LEMMA DieType ==
  ASSUME CartTypeOK, NEW r \in Requests, Die(r)
  PROVE  CartTypeOK'
  BY IdleType DEF Die, CartTypeOK

\* Every step keeps all types.
LEMMA CartStepType ==
  ASSUME CartTypeOK, [CartNext]_cartVars
  PROVE  CartTypeOK'
<1>1. CASE UNCHANGED cartVars
  BY <1>1 DEF cartVars, CartTypeOK
<1>2. CASE CartNext
  BY <1>2, ConstructType, ShopType, ShowPageType, CheckOutType, ReplyType,
     DieType DEF CartNext
<1> QED
  BY <1>1, <1>2

(***************************************************************************)
(* Whatever requests do, in whatever order, all variables keep their types *)
(* and with them every row the shape of a cart: the indices that the       *)
(* searches of uiShoppingCart find are lines that exist, and no operation  *)
(* leaves anything but lines in a row.                                     *)
(***************************************************************************)
THEOREM CartTypesHold == CartSpec => []CartTypeOK
  BY CartInitType, CartStepType, PTL DEF CartSpec

-----------------------------------------------------------------------------
(* Privacy.  The invariant is inductive together with two facts: an id     *)
(* that a browser knows names a row that exists, so that the id of the     *)
(* next insert is known to nobody; and an idle request sets no cookie.     *)

KnownCartsExist == \A b \in Browsers : Known(b) \subseteq DOMAIN carts

IdleIsClean == \A r \in Requests : pc[r] = "idle" => setCookie[r] = Keep

PrivacyInv ==
  /\ CartTypeOK
  /\ KnownCartsExist
  /\ IdleIsClean
  /\ CartsArePrivate

\* Known, as a condition on an id.
Reaches(b, c) ==
  /\ c \notin {0, Empty, Keep}
  /\ \/ c = crtid[b]
     \/ c \in links[b]
     \/ \E q \in Requests :
          /\ pc[q] # "idle"
          /\ who[q] = b
          /\ c = cart[q].id \/ c = setCookie[q]

\* The carts a browser knows are those it reaches.
LEMMA KnownIsReached ==
  ASSUME NEW b, NEW c
  PROVE  c \in Known(b) <=> Reaches(b, c)
  BY DEF Known, Reaches

\* The same, after a step.
LEMMA KnownIsReachedNext ==
  ASSUME NEW b, NEW c
  PROVE  c \in Known(b)' <=> Reaches(b, c)'
  BY DEF Known, Reaches

(***************************************************************************)
(* A step after which no browser knows more than before, and no row is     *)
(* gone, keeps the carts private.                                          *)
(***************************************************************************)
LEMMA LearningNothing ==
  ASSUME KnownCartsExist, CartsArePrivate,
         DOMAIN carts \subseteq DOMAIN carts',
         \A b \in Browsers : \A c : Reaches(b, c)' => Reaches(b, c)
  PROVE  KnownCartsExist' /\ CartsArePrivate'
<1>1. \A b \in Browsers : Known(b)' \subseteq Known(b)
  BY KnownIsReached, KnownIsReachedNext
<1> QED
  BY <1>1 DEF KnownCartsExist, CartsArePrivate

\* The object read for an id has that id, or none.
LEMMA StoredId ==
  ASSUME NEW id
  PROVE  Stored(id).id \in {id, 0}
  BY DEF Stored, NoCart

(***************************************************************************)
(* Constructing the object: only the insert gives a browser a new id, and  *)
(* that id is of a row nobody could know.                                  *)
(***************************************************************************)
LEMMA ConstructPrivate ==
  ASSUME PrivacyInv, NEW r \in Requests, Construct(r)
  PROVE  (KnownCartsExist /\ IdleIsClean /\ CartsArePrivate)'
<1>0. PICK b \in Browsers, prog \in Programs :
        \/ NewCart(r, b, prog)
        \/ NoNewCart(r, b, prog)
        \/ \E link \in links[b] \cup {Empty} : LoadCart(r, b, prog, link)
  BY DEF Construct
<1> USE DEF PrivacyInv
<1>1. pc' = [pc EXCEPT ![r] = prog] /\ who' = [who EXCEPT ![r] = b]
        /\ UNCHANGED << crtid, links >> /\ pc[r] = "idle"
  BY <1>0 DEF NewCart, NoNewCart, LoadCart, Begin
<1>2. prog # "idle"
  BY DEF Programs
<1>3. IdleIsClean'
  BY <1>0, <1>1, <1>2
  DEF IdleIsClean, CartTypeOK, NewCart, NoNewCart, LoadCart
<1>4. CASE NewCart(r, b, prog)
  <2> DEFINE new == Len(carts')
             row == [lines |-> << >>, checkedOut |-> FALSE]
  <2>1. carts' = Append(carts, row)
    BY <1>4 DEF NewCart
  <2>2. /\ new \in Nat
        /\ new \notin DOMAIN carts
        /\ DOMAIN carts' = DOMAIN carts \cup {new}
    <3>1. carts \in Seq(Row) /\ row \in Row
      BY EmptySeq DEF CartTypeOK, Row
    <3>2. new = Len(carts) + 1 /\ carts' \in Seq(Row)
      BY <2>1, <3>1, AppendProperties
    <3>3. Len(carts) \in Nat /\ DOMAIN carts = 1 .. Len(carts)
            /\ DOMAIN carts' = 1 .. new
      BY <3>1, <3>2, LenProperties
    <3> HIDE DEF new
    <3> QED
      BY <3>2, <3>3
  <2>3. cart' = [cart EXCEPT ![r] = [NoCart EXCEPT !.id = new]]
          /\ setCookie' = [setCookie EXCEPT ![r] = new]
    BY <1>4 DEF NewCart
  <2> HIDE DEF new
  <2>4. cart'[r].id = new /\ setCookie'[r] = new
    BY <2>3 DEF CartTypeOK, NoCart
  <2>5. ASSUME NEW b1 \in Browsers, NEW c, Reaches(b1, c)'
        PROVE  Reaches(b1, c) \/ (b1 = b /\ c = new)
    BY <1>1, <2>3, <2>4, <2>5 DEF Reaches, CartTypeOK
  <2>6. \A b1 \in Browsers :
          /\ Known(b1)' \subseteq Known(b1) \cup {new}
          /\ b1 # b => Known(b1)' \subseteq Known(b1)
    BY <2>5, KnownIsReached, KnownIsReachedNext
  <2>7. \A b1 \in Browsers : new \notin Known(b1)
    BY <2>2 DEF KnownCartsExist
  <2>8. KnownCartsExist'
    BY <2>2, <2>6 DEF KnownCartsExist
  <2>9. CartsArePrivate'
    BY <2>6, <2>7 DEF CartsArePrivate
  <2> QED
    BY <1>3, <2>8, <2>9
<1>5. CASE NoNewCart(r, b, prog)
  <2>1. cart' = [cart EXCEPT ![r] = NoCart] /\ UNCHANGED << carts, setCookie >>
    BY <1>5 DEF NoNewCart
  <2>2. NoCart.id = 0 /\ setCookie[r] = Keep
    BY <1>1 DEF NoCart, IdleIsClean
  <2>3. \A b1 \in Browsers : \A c : Reaches(b1, c)' => Reaches(b1, c)
    BY <1>1, <2>1, <2>2 DEF Reaches, CartTypeOK
  <2> QED
    BY <1>3, <2>1, <2>3, LearningNothing
<1>6. ASSUME NEW link \in links[b] \cup {Empty}, LoadCart(r, b, prog, link)
      PROVE  (KnownCartsExist /\ IdleIsClean /\ CartsArePrivate)'
  <2> DEFINE id == RequestedCart(prog, b, link)
  <2>1. id \in {crtid[b], link}
    BY DEF RequestedCart
  <2>2. cart'[r].id \in {crtid[b], link, 0}
          /\ \A q \in Requests : q # r => cart'[q] = cart[q]
    BY <1>6, <2>1, StoredId DEF LoadCart, CartTypeOK
  <2>3. setCookie'[r] \in {Empty, link, Keep}
          /\ \A q \in Requests : q # r => setCookie'[q] = setCookie[q]
    BY <1>6 DEF LoadCart, CartTypeOK
  <2>4. link = Empty \/ link \in links[b]
    OBVIOUS
  <2>5. \A b1 \in Browsers : \A c : Reaches(b1, c)' => Reaches(b1, c)
    BY <1>1, <2>2, <2>3, <2>4 DEF Reaches, CartTypeOK
  <2> QED
    BY <1>3, <1>6, <2>5, LearningNothing DEF LoadCart
<1> QED
  BY <1>0, <1>4, <1>5, <1>6

(***************************************************************************)
(* Going on to the page with the same cart, or with none, teaches nobody.  *)
(***************************************************************************)
LEMMA FinishPrivate ==
  ASSUME PrivacyInv, NEW r \in Requests, Finish(r), pc[r] \in Programs,
         DOMAIN carts' = DOMAIN carts,
         cart'[r].id \in {cart[r].id, 0},
         \A q \in Requests : q # r => cart'[q] = cart[q]
  PROVE  (KnownCartsExist /\ IdleIsClean /\ CartsArePrivate)'
<1> USE DEF PrivacyInv
<1>1. pc[r] # "idle" /\ Page[pc[r]] # "idle"
  BY DEF Programs, Page
<1>2. pc' = [pc EXCEPT ![r] = Page[pc[r]]]
        /\ UNCHANGED << crtid, links, who, setCookie >>
  BY DEF Finish
<1>3. IdleIsClean'
  BY <1>1, <1>2 DEF IdleIsClean, CartTypeOK
<1>4. \A b \in Browsers : \A c : Reaches(b, c)' => Reaches(b, c)
  BY <1>1, <1>2 DEF Reaches, CartTypeOK
<1> QED
  BY <1>3, <1>4, LearningNothing

\* An update of a row, by the request that holds the object, tells nobody anything.
LEMMA SavePrivate ==
  ASSUME PrivacyInv, NEW r \in Requests, NEW lines, NEW checkedOut,
         pc[r] \in Programs, Save(r, lines, checkedOut), Finish(r)
  PROVE  (KnownCartsExist /\ IdleIsClean /\ CartsArePrivate)'
<1>1. DOMAIN carts' = DOMAIN carts
  BY DEF Save
<1>2. cart'[r].id \in {cart[r].id, 0}
        /\ \A q \in Requests : q # r => cart'[q] = cart[q]
  BY StoredId DEF Save, PrivacyInv, CartTypeOK
<1> QED
  BY <1>1, <1>2, FinishPrivate

\* No operation of openCart.cgi tells a browser of another's cart.
LEMMA ShopPrivate ==
  ASSUME PrivacyInv, NEW r \in Requests, Shop(r)
  PROVE  (KnownCartsExist /\ IdleIsClean /\ CartsArePrivate)'
<1>1. pc[r] \in Programs /\ Finish(r)
  BY DEF Shop, AlwaysAddProduct, AddProduct, UpdateProduct, RemoveProduct,
         Asks, Programs
<1>2. \/ \E lines, checkedOut : Save(r, lines, checkedOut)
      \/ UNCHANGED << carts, cart >>
  BY DEF Shop, AlwaysAddProduct, AddProduct, UpdateProduct, RemoveProduct
<1>3. CASE UNCHANGED << carts, cart >>
  BY <1>1, <1>3, FinishPrivate
<1> QED
  BY <1>1, <1>2, <1>3, SavePrivate

(***************************************************************************)
(* The response: the browser learns what its own request knew.             *)
(***************************************************************************)
LEMMA IdlePrivate ==
  ASSUME PrivacyInv, NEW r \in Requests, Idle(r), pc[r] # "idle",
         \A b \in Browsers :
           /\ crtid'[b] # crtid[b] => b = who[r] /\ crtid'[b] = setCookie[r]
           /\ links'[b] # links[b] =>
                b = who[r] /\ links'[b] = links[b] \cup {cart[r].id}
  PROVE  (KnownCartsExist /\ IdleIsClean /\ CartsArePrivate)'
<1> USE DEF PrivacyInv
<1>1. /\ pc' = [pc EXCEPT ![r] = "idle"]
      /\ cart' = [cart EXCEPT ![r] = NoCart]
      /\ setCookie' = [setCookie EXCEPT ![r] = Keep]
      /\ who' = [who EXCEPT ![r] = AnyBrowser]
      /\ carts' = carts
  BY DEF Idle
<1>2. IdleIsClean'
  BY <1>1 DEF IdleIsClean, CartTypeOK
<1>3. ASSUME NEW b \in Browsers, NEW c, Reaches(b, c)'
      PROVE  Reaches(b, c)
  <2>1. CASE c = crtid'[b] \/ c \in links'[b]
    BY <1>3, <2>1 DEF Reaches
  <2>2. ASSUME NEW q \in Requests, pc'[q] # "idle", who'[q] = b,
               c = cart'[q].id \/ c = setCookie'[q]
        PROVE  Reaches(b, c)
    <3>1. q # r
      BY <1>1, <2>2 DEF CartTypeOK
    <3>2. pc[q] # "idle" /\ who[q] = b /\ (c = cart[q].id \/ c = setCookie[q])
      BY <1>1, <2>2, <3>1 DEF CartTypeOK
    <3> QED
      BY <1>3, <3>2 DEF Reaches
  <2> QED
    BY <1>3, <2>1, <2>2 DEF Reaches
<1> QED
  BY <1>1, <1>2, <1>3, LearningNothing

\* A response tells its own browser what its own request knew.
LEMMA ReplyPrivate ==
  ASSUME PrivacyInv, NEW r \in Requests, Reply(r)
  PROVE  (KnownCartsExist /\ IdleIsClean /\ CartsArePrivate)'
<1>1. pc[r] # "idle" /\ Idle(r)
  BY DEF Reply
<1>2. \A b \in Browsers :
        /\ crtid'[b] # crtid[b] => b = who[r] /\ crtid'[b] = setCookie[r]
        /\ links'[b] # links[b] =>
             b = who[r] /\ links'[b] = links[b] \cup {cart[r].id}
  BY DEF Reply, PrivacyInv, CartTypeOK
<1> QED
  BY <1>1, <1>2, IdlePrivate

\* A process that is killed takes what it knew with it.
LEMMA DiePrivate ==
  ASSUME PrivacyInv, NEW r \in Requests, Die(r)
  PROVE  (KnownCartsExist /\ IdleIsClean /\ CartsArePrivate)'
<1>1. pc[r] # "idle" /\ Idle(r) /\ crtid' = crtid /\ links' = links
  BY DEF Die
<1> QED
  BY <1>1, IdlePrivate

\* The strengthened invariant holds in the beginning, ...
LEMMA PrivacyInit == CartInit => PrivacyInv
<1> SUFFICES ASSUME CartInit PROVE PrivacyInv
  OBVIOUS
<1>1. \A b \in Browsers : \A c : ~Reaches(b, c)
  BY DEF CartInit, Reaches
<1>2. \A b \in Browsers : Known(b) = {}
  BY <1>1, KnownIsReached
<1>3. IdleIsClean
  BY DEF CartInit, IdleIsClean
<1> QED
  BY <1>2, <1>3, CartInitType DEF PrivacyInv, KnownCartsExist, CartsArePrivate

\* ... and every step preserves it.
LEMMA PrivacyStep ==
  ASSUME PrivacyInv, [CartNext]_cartVars
  PROVE  PrivacyInv'
<1>1. CartTypeOK'
  BY CartStepType DEF PrivacyInv
<1>2. CASE UNCHANGED cartVars
  <2>1. \A b \in Browsers : Known(b)' = Known(b)
    BY <1>2 DEF cartVars, Known
  <2> QED
    BY <1>1, <1>2, <2>1
    DEF cartVars, PrivacyInv, KnownCartsExist, IdleIsClean, CartsArePrivate
<1>3. ASSUME NEW r \in Requests,
             \/ Construct(r) \/ Shop(r) \/ ShowPage(r)
             \/ MayCheckOut(r) /\ CheckOut(r)
             \/ Reply(r) \/ Die(r)
      PROVE  (KnownCartsExist /\ IdleIsClean /\ CartsArePrivate)'
  <2>1. CASE ShowPage(r)
    <3>1. pc[r] \in Programs /\ Finish(r) /\ carts' = carts /\ cart' = cart
      BY <2>1 DEF ShowPage
    <3>2. DOMAIN carts' = DOMAIN carts /\ cart'[r].id = cart[r].id
      BY <3>1
    <3>3. \A q \in Requests : q # r => cart'[q] = cart[q]
      BY <3>1
    <3> QED
      BY <3>1, <3>2, <3>3, FinishPrivate
  <2>2. CASE CheckOut(r)
    <3>1. pc[r] \in Programs /\ Finish(r)
            /\ Save(r, cart[r].lines, TRUE)
      BY <2>2 DEF CheckOut, Programs
    <3> QED
      BY <3>1, SavePrivate
  <2> QED
    BY <1>3, <2>1, <2>2, ConstructPrivate, ShopPrivate, ReplyPrivate, DiePrivate
<1> QED
  BY <1>1, <1>2, <1>3 DEF CartNext, PrivacyInv

(***************************************************************************)
(* Two browsers never share a cart, for any number of both, and whatever   *)
(* links, cookies, failing inserts and dying processes there are.          *)
(***************************************************************************)
THEOREM CartsStayPrivate == CartSpec => []CartsArePrivate
<1>1. PrivacyInv => CartsArePrivate
  BY DEF PrivacyInv
<1> QED
  BY <1>1, PrivacyInit, PrivacyStep, PTL DEF CartSpec
-----------------------------------------------------------------------------
(* What a step does to the rows.                                           *)

(***************************************************************************)
(* The only row a step changes is the one its own request's object was     *)
(* read from; an insert leaves the rows there are alone.                   *)
(***************************************************************************)
LEMMA RowChangesByItsHolder ==
  ASSUME CartTypeOK, CartNext, NEW c \in DOMAIN carts, carts'[c] # carts[c]
  PROVE  \E r \in Requests :
           pc[r] \in Programs /\ cart[r].id = c /\ pc'[r] # pc[r]
<1>1. PICK r \in Requests :
        \/ Construct(r)
        \/ Shop(r)
        \/ ShowPage(r)
        \/ MayCheckOut(r) /\ CheckOut(r)
        \/ Reply(r)
        \/ Die(r)
  BY DEF CartNext
<1>2. ~Construct(r)
  <2>1. SUFFICES ASSUME Construct(r) PROVE FALSE
    OBVIOUS
  <2>2. carts' # carts
    OBVIOUS
  <2>3. carts' = Append(carts, [lines |-> << >>, checkedOut |-> FALSE])
    BY <2>1, <2>2 DEF Construct, NewCart, NoNewCart, LoadCart
  <2>4. carts \in Seq(Row) /\ [lines |-> << >>, checkedOut |-> FALSE] \in Row
    BY EmptySeq DEF CartTypeOK, Row
  <2>5. c \in 1 .. Len(carts)
    BY RowType
  <2>6. carts'[c] = carts[c]
    BY <2>3, <2>4, <2>5, AppendProperties
  <2> QED
    BY <2>6
<1>3. carts' # carts
  OBVIOUS
<1>4. /\ pc[r] \in Programs
      /\ Finish(r)
      /\ \E lines, checkedOut : Save(r, lines, checkedOut)
  BY <1>1, <1>2, <1>3
  DEF Shop, AlwaysAddProduct, AddProduct, UpdateProduct, RemoveProduct, Asks,
      Programs, ShowPage, CheckOut, Reply, Die, Idle
<1>5. cart[r].id = c
  BY <1>3, <1>4 DEF Save
<1>6. pc'[r] = Page[pc[r]]
  BY <1>4 DEF Finish, CartTypeOK
<1>7. Page[pc[r]] # pc[r]
  BY <1>4 DEF Page, Programs
<1> QED
  BY <1>4, <1>5, <1>6, <1>7

(***************************************************************************)
(* However requests overlap, the row of the cart in a browser's cookie     *)
(* changes only by a step of a request of that browser: the carts are      *)
(* private, and a row changes only by a request that holds its id.         *)
(***************************************************************************)
THEOREM MyCartIsMine == CartSpec => OthersNeverTouchMyCart
<1>1. ASSUME PrivacyInv, [CartNext]_cartVars, NEW b \in Browsers,
             crtid[b] \in DOMAIN carts, carts'[crtid[b]] # carts[crtid[b]]
      PROVE  \E r \in Requests : who[r] = b /\ pc[r] # "idle" /\ pc'[r] # pc[r]
  <2> DEFINE c == crtid[b]
  <2>1. CartNext
    BY <1>1 DEF cartVars
  <2>2. PICK r \in Requests :
          pc[r] \in Programs /\ cart[r].id = c /\ pc'[r] # pc[r]
    BY <1>1, <2>1, RowChangesByItsHolder DEF PrivacyInv
  <2>3. pc[r] # "idle" /\ who[r] \in Browsers
    BY <1>1, <2>2 DEF Programs, PrivacyInv, CartTypeOK
  <2>4. c \in 1 .. Len(carts)
    BY <1>1, RowType DEF PrivacyInv
  <2>5. c \notin {0, Empty, Keep}
    BY <2>4 DEF Empty, Keep
  <2>6. Reaches(b, c) /\ Reaches(who[r], c)
    BY <2>2, <2>3, <2>5 DEF Reaches
  <2>7. c \in Known(b) /\ c \in Known(who[r])
    BY <2>6, KnownIsReached
  <2>8. who[r] = b
    BY <1>1, <2>3, <2>7 DEF PrivacyInv, CartsArePrivate
  <2> QED
    BY <2>2, <2>3, <2>8
<1>2. PrivacyInv /\ [CartNext]_cartVars =>
        [\A b \in Browsers :
           LET c == crtid[b]
           IN  (c \in DOMAIN carts /\ carts'[c] # carts[c]) =>
                 \E r \in Requests : who[r] = b /\ pc[r] # "idle" /\ pc'[r] # pc[r]
        ]_cartVars
  BY <1>1
<1> QED
  BY <1>2, PrivacyInit, PrivacyStep, PTL DEF CartSpec, OthersNeverTouchMyCart

-----------------------------------------------------------------------------
(* One line of a product.                                                  *)

\* No two lines are of the same product.
NoProductTwice(lines) ==
  \A i, j \in DOMAIN lines : lines[i].id = lines[j].id => i = j

(***************************************************************************)
(* The first line of a product is found if and only if there is a line.    *)
(***************************************************************************)
LEMMA SearchFindsLine ==
  ASSUME NEW lines \in Contents, NEW p, NoProductTwice(lines)
  PROVE  /\ HasLine(lines, p) <=> LinesOf(lines, p) # {}
         /\ \A i \in LinesOf(lines, p) : LinesOf(lines, p) = {i}
<1>1. \A i \in LinesOf(lines, p) : LinesOf(lines, p) = {i}
  BY DEF NoProductTwice, LinesOf
<1>2. ASSUME NEW i \in LinesOf(lines, p)
      PROVE  i \in NthLine(lines, p, 1)
  <2>1. i \in Int
    BY LineType DEF LinesOf
  <2>2. {j \in LinesOf(lines, p) : j <= i} = {i}
    BY <1>1, <2>1
  <2>3. Cardinality({i}) = 1
    BY FS_Singleton
  <2> QED
    BY <2>2, <2>3 DEF NthLine
<1>3. NthLine(lines, p, 1) \subseteq LinesOf(lines, p)
  BY DEF NthLine
<1> QED
  BY <1>1, <1>2, <1>3 DEF HasLine

(***************************************************************************)
(* The lines that are left when one is removed: those before it, and those *)
(* behind it, one place further to the front.                              *)
(***************************************************************************)
LEMMA RemainingLines ==
  ASSUME NEW lines \in Contents, NEW i \in DOMAIN lines
  PROVE  /\ Len(RemoveAt(lines, i)) = Len(lines) - 1
         /\ \A j \in DOMAIN RemoveAt(lines, i) :
              LET from == IF j < i THEN j ELSE j + 1
              IN  from \in DOMAIN lines /\ RemoveAt(lines, i)[j] = lines[from]
<1> DEFINE n    == Len(lines)
           head == SubSeq(lines, 1, i - 1)
           tail == SubSeq(lines, i + 1, n)
<1>1. /\ n \in Nat
      /\ DOMAIN lines = 1 .. n
      /\ i \in 1 .. n
      /\ \A k \in 1 .. n : lines[k] \in Line
  BY LenProperties, LineType DEF Contents
<1>2. /\ head \in Seq(Line)
      /\ Len(head) = i - 1
      /\ \A k \in 1 .. i - 1 : head[k] = lines[k]
  <2>1. /\ SubSeq(lines, 1, i - 1) \in Seq(Line)
        /\ Len(SubSeq(lines, 1, i - 1)) =
             IF 1 <= i - 1 THEN i - 1 - 1 + 1 ELSE 0
        /\ \A k \in 1 .. i - 1 - 1 + 1 :
             SubSeq(lines, 1, i - 1)[k] = lines[1 + k - 1]
    BY <1>1, SubSeqProperties
  <2> QED
    BY <1>1, <2>1
<1>3. /\ tail \in Seq(Line)
      /\ Len(tail) = n - i
      /\ \A k \in 1 .. n - i : tail[k] = lines[i + k]
  <2>1. /\ SubSeq(lines, i + 1, n) \in Seq(Line)
        /\ Len(SubSeq(lines, i + 1, n)) =
             IF i + 1 <= n THEN n - (i + 1) + 1 ELSE 0
        /\ \A k \in 1 .. n - (i + 1) + 1 :
             SubSeq(lines, i + 1, n)[k] = lines[i + 1 + k - 1]
    BY <1>1, SubSeqProperties
  <2> QED
    BY <1>1, <2>1
<1> HIDE DEF n, head, tail
<1>4. /\ head \o tail \in Seq(Line)
      /\ Len(head \o tail) = n - 1
      /\ \A k \in 1 .. n - 1 :
           (head \o tail)[k] = IF k <= i - 1 THEN head[k] ELSE tail[k - (i - 1)]
  <2>1. /\ head \o tail \in Seq(Line)
        /\ Len(head \o tail) = Len(head) + Len(tail)
        /\ \A k \in 1 .. Len(head) + Len(tail) :
             (head \o tail)[k] =
               IF k <= Len(head) THEN head[k] ELSE tail[k - Len(head)]
    BY <1>2, <1>3, ConcatProperties
  <2> QED
    BY SMTT(20), <1>1, <1>2, <1>3, <2>1
<1>5. DOMAIN (head \o tail) = 1 .. n - 1
  BY <1>4, LenProperties
<1>6. RemoveAt(lines, i) = head \o tail
  BY DEF RemoveAt, head, tail, n
<1>7. ASSUME NEW j \in 1 .. n - 1
      PROVE  LET from == IF j < i THEN j ELSE j + 1
             IN  from \in DOMAIN lines /\ (head \o tail)[j] = lines[from]
  <2>1. CASE j < i
    BY <1>1, <1>2, <1>4, <2>1
  <2>2. CASE ~(j < i)
    <3>1. j - (i - 1) \in 1 .. n - i /\ ~(j <= i - 1)
      BY <1>1, <2>2
    <3>2. (head \o tail)[j] = lines[i + (j - (i - 1))]
      BY <1>3, <1>4, <3>1
    <3>3. i + (j - (i - 1)) = j + 1
      BY <1>1
    <3> QED
      BY <1>1, <2>2, <3>2, <3>3
  <2> QED
    BY <2>1, <2>2
<1>8. Len(RemoveAt(lines, i)) = n - 1
  BY <1>4, <1>6
<1> QED
  BY <1>5, <1>6, <1>7, <1>8 DEF n

(***************************************************************************)
(* What the undefined update may leave: the lines without the last one.    *)
(***************************************************************************)
LEMMA FrontLines ==
  ASSUME NEW lines \in Contents
  PROVE  /\ lines # << >> => Len(Front(lines)) = Len(lines) - 1
         /\ \A j \in DOMAIN Front(lines) :
              j \in DOMAIN lines /\ Front(lines)[j] = lines[j]
<1>1. /\ Len(lines) \in Nat
      /\ DOMAIN lines = 1 .. Len(lines)
      /\ \A k \in 1 .. Len(lines) : lines[k] \in Line
  BY LenProperties, LineType DEF Contents
<1>2. /\ SubSeq(lines, 1, Len(lines) - 1) \in Seq(Line)
      /\ Len(SubSeq(lines, 1, Len(lines) - 1)) =
           IF 1 <= Len(lines) - 1 THEN Len(lines) - 1 - 1 + 1 ELSE 0
      /\ \A k \in 1 .. Len(lines) - 1 - 1 + 1 :
           SubSeq(lines, 1, Len(lines) - 1)[k] = lines[1 + k - 1]
  BY <1>1, SubSeqProperties
<1>3. DOMAIN SubSeq(lines, 1, Len(lines) - 1) =
        1 .. Len(SubSeq(lines, 1, Len(lines) - 1))
  BY <1>2, LenProperties
<1>4. lines # << >> => Len(lines) > 0
  BY <1>1, EmptySeq DEF Contents
<1> QED
  BY <1>1, <1>2, <1>3, <1>4 DEF Front

(***************************************************************************)
(* Removing lines leaves no product twice, nor does replacing one by a     *)
(* line of the same product.                                               *)
(***************************************************************************)
LEMMA FewerLinesNoneTwice ==
  ASSUME NEW lines \in Contents, NoProductTwice(lines)
  PROVE  /\ \A i \in DOMAIN lines : NoProductTwice(RemoveAt(lines, i))
         /\ NoProductTwice(Front(lines))
         /\ \A i \in DOMAIN lines : \A line :
              line.id = lines[i].id => NoProductTwice([lines EXCEPT ![i] = line])
<1>1. ASSUME NEW i \in DOMAIN lines
      PROVE  NoProductTwice(RemoveAt(lines, i))
  <2>1. SUFFICES ASSUME NEW j \in DOMAIN RemoveAt(lines, i),
                        NEW k \in DOMAIN RemoveAt(lines, i),
                        RemoveAt(lines, i)[j].id = RemoveAt(lines, i)[k].id
                 PROVE  j = k
    BY DEF NoProductTwice
  <2> DEFINE old(x) == IF x < i THEN x ELSE x + 1
  <2>2. /\ old(j) \in DOMAIN lines
        /\ old(k) \in DOMAIN lines
        /\ RemoveAt(lines, i)[j] = lines[old(j)]
        /\ RemoveAt(lines, i)[k] = lines[old(k)]
    BY <2>1, RemainingLines
  <2>3. old(j) = old(k)
    BY <2>1, <2>2 DEF NoProductTwice
  <2>4. j \in Int /\ k \in Int /\ i \in Int
    <3>1. RemoveAt(lines, i) \in Contents
      BY RemoveType
    <3> QED
      BY <3>1, LineType, <2>1
  <2> QED
    BY <2>3, <2>4
<1>2. NoProductTwice(Front(lines))
  BY FrontLines DEF NoProductTwice
<1>3. ASSUME NEW i \in DOMAIN lines, NEW line, line.id = lines[i].id
      PROVE  NoProductTwice([lines EXCEPT ![i] = line])
  <2>1. /\ DOMAIN [lines EXCEPT ![i] = line] = DOMAIN lines
        /\ \A j \in DOMAIN lines :
             [lines EXCEPT ![i] = line][j].id = lines[j].id
    BY <1>3
  <2> QED
    BY <2>1 DEF NoProductTwice
<1> QED
  BY <1>1, <1>2, <1>3

\* A line with another count, or with other options, is of the same product.
LEMMA SameProduct ==
  ASSUME NEW line \in Line, NEW n, NEW opts
  PROVE  /\ [line EXCEPT !.count = n].id = line.id
         /\ Customize([line EXCEPT !.count = n], opts).id = line.id
  BY DEF Line, Customize

\* AddProduct adds a line only of a product that has none.
LEMMA AddNoneTwice ==
  ASSUME NEW lines \in Contents, NEW p \in Products, NEW count \in Int,
         NEW opts \in Opts, NEW stock \in Int, NoProductTwice(lines)
  PROVE  NoProductTwice(AddLine(lines, p, count, opts, stock))
<1>1. CASE HasLine(lines, p)
  <2> DEFINE i == FirstLine(lines, p)
             n == AtMost(lines[i].count + count, stock)
             more == Customize([lines[i] EXCEPT !.count = n], opts)
  <2>1. i \in DOMAIN lines
    BY <1>1, FirstLineIsLine
  <2>2. lines[i] \in Line
    BY <2>1, LineType
  <2>3. more.id = lines[i].id
    BY <2>2, SameProduct
  <2>4. AddLine(lines, p, count, opts, stock) = [lines EXCEPT ![i] = more]
    BY <1>1 DEF AddLine
  <2> HIDE DEF more, i
  <2>5. NoProductTwice([lines EXCEPT ![i] = more])
    BY <2>1, <2>3, FewerLinesNoneTwice
  <2> QED
    BY <2>4, <2>5
<1>2. CASE ~HasLine(lines, p)
  <2> DEFINE iCan == AtMost(count, stock)
             line == [id |-> p, count |-> iCan, options |-> opts]
  <2>1. AddLine(lines, p, count, opts, stock) =
          IF iCan > 0 THEN Append(lines, line) ELSE lines
    BY <1>2 DEF AddLine, AlwaysAddLine
  <2>2. line \in Line /\ line.id = p
    BY DEF AtMost, Line, Opts
  <2>3. \A i \in DOMAIN lines : lines[i].id # p
    BY <1>2, SearchFindsLine DEF LinesOf
  <2> HIDE DEF line, iCan
  <2>4. /\ Len(lines) \in Nat
        /\ DOMAIN lines = 1 .. Len(lines)
        /\ Append(lines, line) \in Seq(Line)
        /\ Len(Append(lines, line)) = Len(lines) + 1
        /\ Append(lines, line)[Len(lines) + 1] = line
        /\ \A i \in 1 .. Len(lines) : Append(lines, line)[i] = lines[i]
    BY <2>2, LenProperties, AppendProperties DEF Contents
  <2>5. DOMAIN Append(lines, line) = 1 .. Len(lines) + 1
    BY <2>4, LenProperties
  <2>6. NoProductTwice(Append(lines, line))
    BY <2>2, <2>3, <2>4, <2>5 DEF NoProductTwice
  <2> QED
    BY <2>1, <2>6
<1> QED
  BY <1>1, <1>2

\* RemoveProduct leaves no product twice.
LEMMA RemovePieceNoneTwice ==
  ASSUME NEW lines \in Contents, NEW p, NoProductTwice(lines)
  PROVE  NoProductTwice(RemovePiece(lines, p))
<1>1. CASE ~HasLine(lines, p)
  BY <1>1 DEF RemovePiece
<1>2. CASE HasLine(lines, p)
  <2> DEFINE i    == FirstLine(lines, p)
             less == [lines[i] EXCEPT !.count = lines[i].count - 1]
  <2>1. i \in DOMAIN lines
    BY <1>2, FirstLineIsLine
  <2>2. lines[i] \in Line
    BY <2>1, LineType
  <2>3. less.id = lines[i].id
    BY <2>2, SameProduct
  <2>4. RemovePiece(lines, p) \in {[lines EXCEPT ![i] = less], RemoveAt(lines, i)}
    BY <1>2 DEF RemovePiece
  <2> HIDE DEF less
  <2> QED
    BY <2>1, <2>3, <2>4, FewerLinesNoneTwice
<1> QED
  BY <1>1, <1>2

\* UpdateProduct leaves no product twice.
LEMMA UpdateNoneTwice ==
  ASSUME NEW lines \in Contents, NEW p, NEW count \in Int, NEW opts,
         NEW node \in Int, NoProductTwice(lines)
  PROVE  \A new \in UpdateOutcomes(lines, p, count, opts, node) :
           NoProductTwice(new)
<1> DEFINE nth     == NthLine(lines, p, IF node > 0 THEN node + 1 ELSE 1)
           line(i) == Customize([lines[i] EXCEPT !.count = count], opts)
<1>1. nth \subseteq DOMAIN lines
  BY NthLineIsLine
<1>2. \A i \in nth : line(i).id = lines[i].id
  BY ZenonT(40), <1>1, LineType, SameProduct
<1>3. \A i \in nth : NoProductTwice([lines EXCEPT ![i] = line(i)])
  BY <1>1, <1>2, FewerLinesNoneTwice
<1>4. \A i \in nth : NoProductTwice(RemoveAt(lines, i))
  BY <1>1, FewerLinesNoneTwice
<1>5. NoProductTwice(Front(lines))
  BY FewerLinesNoneTwice
<1> QED
  BY <1>3, <1>4, <1>5 DEF UpdateOutcomes

-----------------------------------------------------------------------------
(* Every line has pieces.                                                  *)

\* Every line is of at least one piece.
AllHavePieces(lines) == \A i \in DOMAIN lines : lines[i].count > 0

\* Removing lines, or giving one a positive count, leaves pieces on every line.
LEMMA FewerLinesHavePieces ==
  ASSUME NEW lines \in Contents, AllHavePieces(lines)
  PROVE  /\ \A i \in DOMAIN lines : AllHavePieces(RemoveAt(lines, i))
         /\ AllHavePieces(Front(lines))
         /\ \A i \in DOMAIN lines : \A line :
              line.count > 0 => AllHavePieces([lines EXCEPT ![i] = line])
<1>1. \A i \in DOMAIN lines : AllHavePieces(RemoveAt(lines, i))
  BY RemainingLines DEF AllHavePieces
<1>2. AllHavePieces(Front(lines))
  BY FrontLines DEF AllHavePieces
<1>3. ASSUME NEW i \in DOMAIN lines, NEW line, line.count > 0
      PROVE  AllHavePieces([lines EXCEPT ![i] = line])
  BY <1>3 DEF AllHavePieces
<1> QED
  BY <1>1, <1>2, <1>3

\* Customizing a line leaves its count alone.
LEMMA SameCount ==
  ASSUME NEW line \in Line, NEW n, NEW opts
  PROVE  /\ [line EXCEPT !.count = n].count = n
         /\ Customize([line EXCEPT !.count = n], opts).count = n
  BY DEF Line, Customize

\* A line of its own is only added with pieces.
LEMMA AlwaysAddPieces ==
  ASSUME NEW lines \in Contents, NEW p \in Products, NEW count \in Int,
         NEW opts \in Opts, NEW stock \in Int, AllHavePieces(lines)
  PROVE  AllHavePieces(AlwaysAddLine(lines, p, count, opts, stock))
<1> DEFINE iCan == AtMost(count, stock)
           line == [id |-> p, count |-> iCan, options |-> opts]
<1>1. AlwaysAddLine(lines, p, count, opts, stock) =
        IF iCan > 0 THEN Append(lines, line) ELSE lines
  BY DEF AlwaysAddLine
<1>2. line \in Line /\ line.count = iCan
  BY DEF AtMost, Line, Opts
<1> HIDE DEF line, iCan
<1>3. /\ Len(lines) \in Nat
      /\ DOMAIN lines = 1 .. Len(lines)
      /\ Append(lines, line) \in Seq(Line)
      /\ Len(Append(lines, line)) = Len(lines) + 1
      /\ Append(lines, line)[Len(lines) + 1] = line
      /\ \A i \in 1 .. Len(lines) : Append(lines, line)[i] = lines[i]
  BY <1>2, LenProperties, AppendProperties DEF Contents
<1>4. DOMAIN Append(lines, line) = 1 .. Len(lines) + 1
  BY <1>3, LenProperties
<1>5. iCan > 0 => AllHavePieces(Append(lines, line))
  BY <1>2, <1>3, <1>4 DEF AllHavePieces
<1> QED
  BY <1>1, <1>5

(***************************************************************************)
(* AddProduct of at least one piece of what is in stock.                   *)
(***************************************************************************)
LEMMA AddPieces ==
  ASSUME NEW lines \in Contents, NEW p \in Products, NEW count \in Nat \ {0},
         NEW opts \in Opts, NEW stock \in Nat \ {0}, AllHavePieces(lines)
  PROVE  AllHavePieces(AddLine(lines, p, count, opts, stock))
<1>1. CASE ~HasLine(lines, p)
  BY <1>1, AlwaysAddPieces DEF AddLine
<1>2. CASE HasLine(lines, p)
  <2> DEFINE i    == FirstLine(lines, p)
             n    == AtMost(lines[i].count + count, stock)
             more == Customize([lines[i] EXCEPT !.count = n], opts)
  <2>1. i \in DOMAIN lines
    BY <1>2, FirstLineIsLine
  <2>2. lines[i] \in Line
    BY <2>1, LineType
  <2>3. lines[i].count \in Int /\ lines[i].count > 0
    BY <2>1, <2>2, CountIsInt DEF AllHavePieces
  <2>4. n > 0
    BY <2>3 DEF AtMost
  <2>5. more.count = n
    BY <2>2, SameCount
  <2>6. AddLine(lines, p, count, opts, stock) = [lines EXCEPT ![i] = more]
    BY <1>2 DEF AddLine
  <2> HIDE DEF more, n, i
  <2>7. AllHavePieces([lines EXCEPT ![i] = more])
    BY <2>1, <2>4, <2>5, FewerLinesHavePieces
  <2> QED
    BY <2>6, <2>7
<1> QED
  BY <1>1, <1>2

\* RemoveProduct takes the line away with its last piece.
LEMMA RemovePiecePieces ==
  ASSUME NEW lines \in Contents, NEW p, AllHavePieces(lines)
  PROVE  AllHavePieces(RemovePiece(lines, p))
<1>1. CASE ~HasLine(lines, p)
  BY <1>1 DEF RemovePiece
<1>2. CASE HasLine(lines, p)
  <2> DEFINE i    == FirstLine(lines, p)
             n    == lines[i].count - 1
             less == [lines[i] EXCEPT !.count = n]
  <2>1. i \in DOMAIN lines
    BY <1>2, FirstLineIsLine
  <2>2. lines[i] \in Line
    BY <2>1, LineType
  <2>3. lines[i].count \in Int
    BY <2>2, CountIsInt
  <2>4. less.count = n
    BY <2>2, SameCount
  <2>5. lines[i].count > 1 => n > 0
    BY <2>3
  <2>6. RemovePiece(lines, p) =
          IF lines[i].count > 1 THEN [lines EXCEPT ![i] = less]
                                ELSE RemoveAt(lines, i)
    BY <1>2 DEF RemovePiece
  <2> HIDE DEF less, n, i
  <2>7. lines[i].count > 1 => AllHavePieces([lines EXCEPT ![i] = less])
    BY <2>1, <2>4, <2>5, FewerLinesHavePieces
  <2>8. AllHavePieces(RemoveAt(lines, i))
    BY <2>1, FewerLinesHavePieces
  <2> QED
    BY <2>6, <2>7, <2>8
<1> QED
  BY <1>1, <1>2

\* UpdateProduct with a count that is not negative.
LEMMA UpdatePieces ==
  ASSUME NEW lines \in Contents, NEW p, NEW count \in Nat, NEW opts,
         NEW node \in Int, AllHavePieces(lines)
  PROVE  \A new \in UpdateOutcomes(lines, p, count, opts, node) :
           AllHavePieces(new)
<1> DEFINE nth     == NthLine(lines, p, IF node > 0 THEN node + 1 ELSE 1)
           line(i) == Customize([lines[i] EXCEPT !.count = count], opts)
<1>1. nth \subseteq DOMAIN lines
  BY NthLineIsLine
<1>2. \A i \in nth : line(i).count = count
  BY ZenonT(40), <1>1, LineType, SameCount
<1>3. count # 0 => \A i \in nth : AllHavePieces([lines EXCEPT ![i] = line(i)])
  BY <1>1, <1>2, FewerLinesHavePieces
<1>4. \A i \in nth : AllHavePieces(RemoveAt(lines, i))
  BY <1>1, FewerLinesHavePieces
<1>5. AllHavePieces(Front(lines))
  BY FewerLinesHavePieces
<1> QED
  BY <1>3, <1>4, <1>5 DEF UpdateOutcomes

-----------------------------------------------------------------------------
(* What the operations keep of the contents, all rows and objects keep.    *)

(***************************************************************************)
(* The operations that the customers of this store use make members of S   *)
(* of members of S, and so does inserting an empty cart.                   *)
(***************************************************************************)
ClosedUnderOperations(S) ==
  /\ S \subseteq Contents
  /\ << >> \in S
  /\ \A lines \in S, p \in Products :
       /\ \A count \in AddCounts, opts \in Opts, stock \in Stocks :
            /\ "always" \in Operations =>
                 AlwaysAddLine(lines, p, count, opts, stock) \in S
            /\ AddLine(lines, p, count, opts, stock) \in S
       /\ \A count \in NewCounts, node \in Nodes :
            UpdateOutcomes(lines, p, count, NoOptions, node) \subseteq S
       /\ RemovePiece(lines, p) \in S

\* Every row and every object of a request has contents in S.
AllIn(S) ==
  /\ \A c \in DOMAIN carts : carts[c].lines \in S
  /\ \A r \in Requests : cart[r].lines \in S

\* Saving contents in S, or reading back what is stored.
LEMMA SaveIn ==
  ASSUME NEW S, << >> \in S, CartTypeOK, AllIn(S), NEW r \in Requests,
         NEW lines \in S, NEW checkedOut, Save(r, lines, checkedOut)
  PROVE  AllIn(S)'
<1>1. \A id : Stored(id).lines \in S
  BY DEF AllIn, Stored, NoCart
<1>2. cart \in [Requests -> CartObj]
  BY DEF CartTypeOK
<1>3. cart'[r].lines \in S /\ \A q \in Requests : q # r => cart'[q] = cart[q]
  BY <1>1, <1>2 DEF Save
<1>4. \A c \in DOMAIN carts' : carts'[c].lines \in S
  BY DEF Save, AllIn
<1> QED
  BY <1>3, <1>4 DEF AllIn

\* The constructor reads what is stored, or begins with nothing.
LEMMA ConstructIn ==
  ASSUME NEW S, << >> \in S, CartTypeOK, AllIn(S), NEW r \in Requests,
         Construct(r)
  PROVE  AllIn(S)'
<1>1. \A id : Stored(id).lines \in S
  BY DEF AllIn, Stored, NoCart
<1>2. cart \in [Requests -> CartObj]
  BY DEF CartTypeOK
<1>3. NoCart.lines \in S /\ \A id : [NoCart EXCEPT !.id = id].lines \in S
  BY DEF NoCart
<1>4. cart'[r].lines \in S /\ \A q \in Requests : q # r => cart'[q] = cart[q]
  BY <1>1, <1>2, <1>3 DEF Construct, NewCart, NoNewCart, LoadCart
<1>5. \A c \in DOMAIN carts' : carts'[c].lines \in S
  <2> DEFINE row == [lines |-> << >>, checkedOut |-> FALSE]
  <2>1. carts' = carts \/ carts' = Append(carts, row)
    BY DEF Construct, NewCart, NoNewCart, LoadCart
  <2>2. carts \in Seq(Row) /\ row \in Row /\ row.lines \in S
    BY EmptySeq DEF CartTypeOK, Row
  <2> HIDE DEF row
  <2>3. CASE carts' = Append(carts, row)
    <3>1. /\ Len(carts) \in Nat
          /\ DOMAIN carts = 1 .. Len(carts)
          /\ carts' \in Seq(Row)
          /\ Len(carts') = Len(carts) + 1
          /\ carts'[Len(carts) + 1] = row
          /\ \A i \in 1 .. Len(carts) : carts'[i] = carts[i]
      BY <2>2, <2>3, LenProperties, AppendProperties
    <3>2. DOMAIN carts' = 1 .. Len(carts) + 1
      BY <3>1, LenProperties
    <3> QED
      BY <2>2, <3>1, <3>2 DEF AllIn
  <2> QED
    BY <2>1, <2>3 DEF AllIn
<1> QED
  BY <1>4, <1>5 DEF AllIn

(***************************************************************************)
(* A step of any request keeps all contents in such a set.                 *)
(***************************************************************************)
LEMMA StepStaysIn ==
  ASSUME NEW S, ClosedUnderOperations(S), CartTypeOK, AllIn(S),
         [CartNext]_cartVars
  PROVE  AllIn(S)'
<1>1. << >> \in S
  BY DEF ClosedUnderOperations
<1>2. CASE UNCHANGED << carts, cart >>
  BY <1>2 DEF AllIn
<1>3. ASSUME NEW r \in Requests, Shop(r)
      PROVE  AllIn(S)'
  <2>1. PICK p \in Products :
          \/ \E count \in AddCounts, opts \in Opts, stock \in Stocks :
               \/ AlwaysAddProduct(r, p, count, opts, stock)
               \/ AddProduct(r, p, count, NoOptions, stock)
          \/ \E count \in NewCounts, node \in Nodes :
               UpdateProduct(r, p, count, NoOptions, node)
          \/ RemoveProduct(r, p)
    BY <1>3 DEF Shop, Opts
  <2>2. cart[r].lines \in S /\ NoOptions \in Opts
    BY DEF AllIn, Opts
  <2>3. ASSUME NEW count \in AddCounts, NEW opts \in Opts, NEW stock \in Stocks,
               AlwaysAddProduct(r, p, count, opts, stock)
        PROVE  AllIn(S)'
    <3>1. AlwaysAddLine(cart[r].lines, p, count, opts, stock) \in S
      BY <2>2, <2>3 DEF AlwaysAddProduct, Asks, ClosedUnderOperations
    <3> QED
      BY <1>1, <2>3, <3>1, SaveIn DEF AlwaysAddProduct
  <2>4. ASSUME NEW count \in AddCounts, NEW stock \in Stocks,
               AddProduct(r, p, count, NoOptions, stock)
        PROVE  AllIn(S)'
    <3>1. AddLine(cart[r].lines, p, count, NoOptions, stock) \in S
      BY <2>2 DEF ClosedUnderOperations
    <3>2. Save(r, AddLine(cart[r].lines, p, count, NoOptions, stock),
               cart[r].checkedOut)
      BY <2>4 DEF AddProduct
    <3> QED
      BY <1>1, <3>1, <3>2, SaveIn
  <2>5. ASSUME NEW count \in NewCounts, NEW node \in Nodes,
               UpdateProduct(r, p, count, NoOptions, node)
        PROVE  AllIn(S)'
    <3>1. \/ \E lines \in
               UpdateOutcomes(cart[r].lines, p, count, NoOptions, node) :
               Save(r, lines, cart[r].checkedOut)
          \/ UNCHANGED << carts, cart >>
      BY <2>5 DEF UpdateProduct
    <3>2. UpdateOutcomes(cart[r].lines, p, count, NoOptions, node) \subseteq S
      BY <2>2 DEF ClosedUnderOperations
    <3> QED
      BY <1>1, <1>2, <3>1, <3>2, SaveIn
  <2>6. ASSUME RemoveProduct(r, p)
        PROVE  AllIn(S)'
    <3>1. RemovePiece(cart[r].lines, p) \in S
      BY <2>2 DEF ClosedUnderOperations
    <3>2. Save(r, RemovePiece(cart[r].lines, p), cart[r].checkedOut)
      BY <2>6 DEF RemoveProduct
    <3> QED
      BY <1>1, <3>1, <3>2, SaveIn
  <2> QED
    BY <2>1, <2>3, <2>4, <2>5, <2>6
<1>4. ASSUME NEW r \in Requests, CheckOut(r)
      PROVE  AllIn(S)'
  <2>1. cart[r].lines \in S /\ Save(r, cart[r].lines, TRUE)
    BY <1>4 DEF AllIn, CheckOut
  <2> QED
    BY <1>1, <2>1, SaveIn
<1>5. ASSUME NEW r \in Requests, Idle(r)
      PROVE  AllIn(S)'
  <2>1. carts' = carts /\ cart' = [cart EXCEPT ![r] = NoCart]
    BY <1>5 DEF Idle
  <2>2. NoCart.lines \in S
    BY <1>1 DEF NoCart
  <2> QED
    BY <2>1, <2>2 DEF AllIn, CartTypeOK
<1> QED
  BY <1>1, <1>2, <1>3, <1>4, <1>5, ConstructIn
  DEF CartNext, cartVars, ShowPage, Reply, Die

\* In the beginning there is no row, and no object has a line.
LEMMA BeginsIn ==
  ASSUME NEW S, << >> \in S, CartInit
  PROVE  AllIn(S)
  BY DEF CartInit, AllIn, NoCart

(***************************************************************************)
(* In a store that does not use the operation "always", no cart ever has   *)
(* two lines of a product, for any number of overlapping requests that     *)
(* overwrite each other, and whatever counts they ask for.                 *)
(***************************************************************************)
THEOREM NoProductIsThereTwice ==
  ASSUME "always" \notin Operations
  PROVE  CartSpec => []OneLinePerProduct
<1> DEFINE S == {lines \in Contents : NoProductTwice(lines)}
<1>1. ClosedUnderOperations(S)
  <2>1. << >> \in S
    BY EmptySeq DEF NoProductTwice, Contents
  <2>2. ASSUME NEW lines \in S, NEW p \in Products, NEW count \in AddCounts,
               NEW opts \in Opts, NEW stock \in Stocks
        PROVE  AddLine(lines, p, count, opts, stock) \in S
    <3>1. count \in Int /\ stock \in Int
      BY CartAssumption
    <3> QED
      BY <3>1, AddType, AddNoneTwice
  <2>3. ASSUME NEW lines \in S, NEW p \in Products, NEW count \in NewCounts,
               NEW node \in Nodes
        PROVE  UpdateOutcomes(lines, p, count, NoOptions, node) \subseteq S
    <3>1. count \in Int /\ node \in Int /\ NoOptions \in Opts
      BY CartAssumption DEF Opts
    <3>2. UpdateOutcomes(lines, p, count, NoOptions, node) \subseteq Contents
      BY <3>1, UpdateType
    <3>3. \A new \in UpdateOutcomes(lines, p, count, NoOptions, node) :
            NoProductTwice(new)
      BY <3>1, UpdateNoneTwice
    <3> QED
      BY <3>2, <3>3
  <2>4. ASSUME NEW lines \in S, NEW p \in Products
        PROVE  RemovePiece(lines, p) \in S
    BY RemovePieceType, RemovePieceNoneTwice
  <2> HIDE DEF S
  <2>5. S \subseteq Contents
    BY DEF S
  <2> QED
    BY <2>1, <2>2, <2>3, <2>4, <2>5 DEF ClosedUnderOperations
<1>2. AllIn(S) => OneLinePerProduct
  <2>1. ASSUME NEW lines \in S, NEW p
        PROVE  Cardinality(LinesOf(lines, p)) <= 1
    <3>1. LinesOf(lines, p) = {} \/ \E i : LinesOf(lines, p) = {i}
      BY SearchFindsLine
    <3>2. Cardinality(LinesOf(lines, p)) \in {0, 1}
      BY <3>1, FS_EmptySet, FS_Singleton, Zenon
    <3> QED
      BY <3>2
  <2> QED
    BY <2>1 DEF AllIn, OneLinePerProduct
<1>3. << >> \in S
  BY <1>1 DEF ClosedUnderOperations
<1> HIDE DEF S
<1>4. CartInit => CartTypeOK /\ AllIn(S)
  BY <1>3, CartInitType, BeginsIn
<1>5. CartTypeOK /\ AllIn(S) /\ [CartNext]_cartVars => (CartTypeOK /\ AllIn(S))'
  BY <1>1, CartStepType, StepStaysIn
<1> QED
  BY <1>2, <1>4, <1>5, PTL DEF CartSpec

\* The contents without a line of no pieces.
WithPieces == {lines \in Contents : AllHavePieces(lines)}

(***************************************************************************)
(* When customers add at least one piece of something in stock, and update *)
(* with no negative count, the operations keep pieces on every line.       *)
(***************************************************************************)
LEMMA PiecesStay ==
  ASSUME AddCounts \subseteq Nat \ {0},
         Stocks \subseteq Nat \ {0},
         NewCounts \subseteq Nat
  PROVE  ClosedUnderOperations(WithPieces)
<1>1. << >> \in WithPieces
  BY EmptySeq DEF WithPieces, AllHavePieces, Contents
<1>2. ASSUME NEW lines \in WithPieces, NEW p \in Products, NEW count \in AddCounts,
             NEW opts \in Opts, NEW stock \in Stocks
      PROVE  /\ AlwaysAddLine(lines, p, count, opts, stock) \in WithPieces
             /\ AddLine(lines, p, count, opts, stock) \in WithPieces
  <2>1. count \in Nat \ {0} /\ stock \in Nat \ {0}
    OBVIOUS
  <2>2. count \in Int /\ stock \in Int
    BY <2>1
  <2>3. /\ AlwaysAddLine(lines, p, count, opts, stock) \in Contents
        /\ AddLine(lines, p, count, opts, stock) \in Contents
    BY <2>2, AlwaysAddType, AddType DEF WithPieces
  <2>4. AllHavePieces(AlwaysAddLine(lines, p, count, opts, stock))
    BY <2>2, AlwaysAddPieces DEF WithPieces
  <2>5. AllHavePieces(AddLine(lines, p, count, opts, stock))
    BY <2>1, AddPieces DEF WithPieces
  <2> QED
    BY <2>3, <2>4, <2>5 DEF WithPieces
<1>3. ASSUME NEW lines \in WithPieces, NEW p \in Products, NEW count \in NewCounts,
             NEW node \in Nodes
      PROVE  UpdateOutcomes(lines, p, count, NoOptions, node) \subseteq WithPieces
  <2>1. count \in Nat /\ node \in Int /\ NoOptions \in Opts
    BY CartAssumption DEF Opts
  <2>2. UpdateOutcomes(lines, p, count, NoOptions, node) \subseteq Contents
    BY <2>1, UpdateType DEF WithPieces
  <2>3. \A new \in UpdateOutcomes(lines, p, count, NoOptions, node) :
          AllHavePieces(new)
    BY <2>1, UpdatePieces DEF WithPieces
  <2> QED
    BY <2>2, <2>3 DEF WithPieces
<1>4. ASSUME NEW lines \in WithPieces, NEW p \in Products
      PROVE  RemovePiece(lines, p) \in WithPieces
  BY RemovePieceType, RemovePiecePieces DEF WithPieces
<1>5. WithPieces \subseteq Contents
  BY DEF WithPieces
<1> QED
  BY <1>1, <1>2, <1>3, <1>4, <1>5 DEF ClosedUnderOperations

(***************************************************************************)
(* When customers add at least one piece of something in stock, and update *)
(* with no negative count, no line of no pieces ever gets into a cart,     *)
(* also by an update of a line that is not there any more.                 *)
(***************************************************************************)
THEOREM EveryLineHasPieces ==
  ASSUME AddCounts \subseteq Nat \ {0},
         Stocks \subseteq Nat \ {0},
         NewCounts \subseteq Nat
  PROVE  CartSpec => []LinesHavePieces
<1> DEFINE S == WithPieces
<1>1. ClosedUnderOperations(S)
  BY PiecesStay
<1>2. AllIn(S) => LinesHavePieces
  BY DEF AllIn, LinesHavePieces, WithPieces, AllHavePieces
<1>3. << >> \in S
  BY <1>1 DEF ClosedUnderOperations
<1> HIDE DEF S
<1>4. CartInit => CartTypeOK /\ AllIn(S)
  BY <1>3, CartInitType, BeginsIn
<1>5. CartTypeOK /\ AllIn(S) /\ [CartNext]_cartVars => (CartTypeOK /\ AllIn(S))'
  BY <1>1, CartStepType, StepStaysIn
<1> QED
  BY <1>2, <1>4, <1>5, PTL DEF CartSpec

-----------------------------------------------------------------------------
(* Sums of sequences.                                                      *)

(***************************************************************************)
(* Induction over the numbers up to n, for a set of numbers in place of a  *)
(* predicate: a number that is missing has a least one before it.          *)
(***************************************************************************)
LEMMA UpTo ==
  ASSUME NEW n \in Nat, NEW S, 0 \in S,
         \A k \in 0 .. n - 1 : k \in S => k + 1 \in S
  PROVE  \A k \in 0 .. n : k \in S
<1> DEFINE Bad  == {k \in Nat : k <= n /\ k \notin S}
           less == OpToRel(<, Nat)
<1>1. less = {ss \in Nat \X Nat : ss[1] < ss[2]} /\ IsWellFoundedOn(less, Nat)
  BY NatLessThanWellFounded DEF OpToRel
<1> HIDE DEF less
<1>2. ASSUME Bad # {} PROVE FALSE
  <2>1. Bad \subseteq Nat
    OBVIOUS
  <2> HIDE DEF Bad
  <2>2. PICK k \in Bad : \A j \in Bad : ~(<< j, k >> \in less)
    BY <1>1, <1>2, <2>1, WFMin
  <2>3. k \in Nat /\ k <= n /\ k \notin S /\ k # 0
    BY <2>2 DEF Bad
  <2>4. k - 1 \in Nat /\ k - 1 < k /\ k - 1 \in 0 .. n - 1 /\ (k - 1) + 1 = k
    BY <2>3
  <2>5. << k - 1, k >> \in less
    BY <1>1, <2>3, <2>4
  <2>6. k - 1 \in S
    BY <2>2, <2>4, <2>5 DEF Bad
  <2> QED
    BY <2>3, <2>4, <2>6
<1> QED
  BY <1>2

\* f adds up s: f[n] is the sum of the first n numbers of s.
IsSum(f, s) ==
  /\ f \in [0 .. Len(s) -> Int]
  /\ f[0] = 0
  /\ \A n \in 1 .. Len(s) : f[n] = f[n - 1] + s[n]

\* Every sequence of numbers can be added up.
LEMMA SumExists ==
  ASSUME NEW s \in Seq(Int)
  PROVE  \E f : IsSum(f, s)
<1> DEFINE Upto(k, f) == /\ f \in [0 .. k -> Int]
                         /\ f[0] = 0
                         /\ \A n \in 1 .. k : f[n] = f[n - 1] + s[n]
           S == {k \in 0 .. Len(s) : \E f : Upto(k, f)}
<1>1. Len(s) \in Nat /\ DOMAIN s = 1 .. Len(s)
      /\ \A n \in 1 .. Len(s) : s[n] \in Int
  BY LenProperties, ElementOfSeq
<1>2. 0 \in S
  <2>1. Upto(0, [n \in 0 .. 0 |-> 0])
    OBVIOUS
  <2> HIDE DEF Upto
  <2> QED
    BY <1>1, <2>1
<1>3. ASSUME NEW k \in 0 .. Len(s) - 1, k \in S
      PROVE  k + 1 \in S
  <2>1. PICK f : Upto(k, f)
    BY <1>3
  <2> DEFINE g == [n \in 0 .. k + 1 |->
                     IF n = k + 1 THEN f[k] + s[k + 1] ELSE f[n]]
  <2>2. k \in Nat /\ k + 1 \in 1 .. Len(s) /\ s[k + 1] \in Int /\ f[k] \in Int
    BY <1>1, <1>3, <2>1
  <2>3. g \in [0 .. k + 1 -> Int] /\ g[0] = 0
    BY <2>1, <2>2
  <2>4. ASSUME NEW n \in 1 .. k + 1 PROVE g[n] = g[n - 1] + s[n]
    <3>1. CASE n = k + 1
      BY <2>2, <3>1
    <3>2. CASE n # k + 1
      <4>1. n \in 1 .. k /\ n - 1 \in 0 .. k
        BY <2>2, <3>2
      <4> QED
        BY <2>1, <2>2, <4>1
    <3> QED
      BY <3>1, <3>2
  <2>5. Upto(k + 1, g)
    BY <2>3, <2>4
  <2> HIDE DEF Upto, g
  <2> QED
    BY <2>2, <2>5
<1> HIDE DEF S
<1>4. \A k \in 0 .. Len(s) : k \in S
  BY <1>1, <1>2, <1>3, UpTo
<1>5. Len(s) \in S
  BY <1>1, <1>4
<1> QED
  BY <1>5 DEF S, IsSum

\* The numbers that a sequence of numbers adds up to on the way.
Sums(s) == CHOOSE f : IsSum(f, s)

(***************************************************************************)
(* Total, which is defined by recursion, is the last of the sums, and      *)
(* there is one way to add a sequence up.                                  *)
(***************************************************************************)
LEMMA TotalIsLastSum ==
  ASSUME NEW s \in Seq(Int)
  PROVE  /\ IsSum(Sums(s), s)
         /\ Total(s) = Sums(s)[Len(s)]
         /\ Total(s) \in Int
         /\ \A f : IsSum(f, s) => Total(s) = f[Len(s)]
<1>1. IsSum(Sums(s), s)
  BY SumExists DEF Sums
<1>2. Len(s) \in Nat
  BY LenProperties
<1> DEFINE Rec(g) == g = [n \in 0 .. Len(s) |->
                            IF n = 0 THEN 0 ELSE g[n - 1] + s[n]]
           sum    == CHOOSE g : Rec(g)
<1>3. Total(s) = sum[Len(s)]
  BY DEF Total
<1>4. ASSUME NEW f, IsSum(f, s)
      PROVE  Total(s) = f[Len(s)]
  <2>1. f \in [0 .. Len(s) -> Int] /\ f[0] = 0
        /\ \A n \in 1 .. Len(s) : f[n] = f[n - 1] + s[n]
    BY <1>4 DEF IsSum
  <2>2. Rec(f)
    <3>1. \A n \in 0 .. Len(s) :
            f[n] = IF n = 0 THEN 0 ELSE f[n - 1] + s[n]
      BY <1>2, <2>1
    <3>2. f = [n \in 0 .. Len(s) |-> f[n]]
      BY <2>1
    <3> QED
      BY <3>1, <3>2
  <2> HIDE DEF Rec
  <2>3. Rec(sum)
    BY <2>2
  <2> HIDE DEF sum
  <2>4. \A n \in 0 .. Len(s) :
          sum[n] = IF n = 0 THEN 0 ELSE sum[n - 1] + s[n]
    BY <2>3 DEF Rec
  <2> DEFINE S == {k \in 0 .. Len(s) : sum[k] = f[k]}
  <2>5. 0 \in S
    BY <1>2, <2>1, <2>4
  <2>6. ASSUME NEW k \in 0 .. Len(s) - 1, k \in S
        PROVE  k + 1 \in S
    <3>1. k + 1 \in 1 .. Len(s) /\ k + 1 # 0 /\ (k + 1) - 1 = k
      BY <1>2
    <3>2. sum[k + 1] = sum[k] + s[k + 1] /\ f[k + 1] = f[k] + s[k + 1]
      BY <1>2, <2>1, <2>4, <3>1
    <3> QED
      BY <2>6, <3>1, <3>2
  <2> HIDE DEF S
  <2>7. \A k \in 0 .. Len(s) : k \in S
    BY <1>2, <2>5, <2>6, UpTo
  <2>8. Len(s) \in S
    BY <1>2, <2>7
  <2> QED
    BY <1>3, <2>8 DEF S
<1> HIDE DEF sum
<1>5. Total(s) = Sums(s)[Len(s)]
  BY <1>1, <1>4
<1>6. Sums(s)[Len(s)] \in Int
  BY <1>1, <1>2 DEF IsSum
<1> QED
  BY <1>1, <1>4, <1>5, <1>6

\* Nothing adds up to nothing.
LEMMA TotalEmpty == Total(<< >>) = 0
<1>1. IsSum([n \in 0 .. 0 |-> 0], << >>)
  BY DEF IsSum
<1>2. << >> \in Seq(Int) /\ Len(<< >>) = 0
  BY EmptySeq
<1> QED
  BY <1>1, <1>2, TotalIsLastSum

\* One number more.
LEMMA TotalAppend ==
  ASSUME NEW s \in Seq(Int), NEW d \in Int
  PROVE  Append(s, d) \in Seq(Int) /\ Total(Append(s, d)) = Total(s) + d
<1> DEFINE f == Sums(s)
           t == Append(s, d)
           g == [n \in 0 .. Len(s) + 1 |->
                   IF n = Len(s) + 1 THEN f[Len(s)] + d ELSE f[n]]
<1>1. /\ Len(s) \in Nat
      /\ t \in Seq(Int)
      /\ Len(t) = Len(s) + 1
      /\ t[Len(s) + 1] = d
      /\ \A i \in 1 .. Len(s) : t[i] = s[i]
  BY AppendProperties, LenProperties
<1>2. IsSum(f, s) /\ Total(s) = f[Len(s)]
  BY TotalIsLastSum
<1> HIDE DEF f, t
<1>3. g \in [0 .. Len(t) -> Int] /\ g[0] = 0 /\ g[Len(t)] = f[Len(s)] + d
  <2>1. /\ \A n \in 0 .. Len(s) : f[n] \in Int
        /\ f[0] = 0
        /\ Len(s) \in 0 .. Len(s)
    BY <1>1, <1>2 DEF IsSum
  <2>2. \A n \in 0 .. Len(s) + 1 : n # Len(s) + 1 => n \in 0 .. Len(s)
    BY <1>1
  <2>3. g \in [0 .. Len(s) + 1 -> Int]
    BY <1>1, <2>1, <2>2
  <2>4. g[0] = 0 /\ g[Len(s) + 1] = f[Len(s)] + d
    BY <1>1, <2>1
  <2> HIDE DEF g
  <2> QED
    BY <1>1, <2>3, <2>4
<1>4. ASSUME NEW n \in 1 .. Len(t) PROVE g[n] = g[n - 1] + t[n]
  <2>1. CASE n = Len(s) + 1
    BY <1>1, <2>1
  <2>2. CASE n # Len(s) + 1
    <3>1. n \in 1 .. Len(s) /\ n - 1 \in 0 .. Len(s) + 1 /\ n - 1 # Len(s) + 1
      BY <1>1, <2>2
    <3> QED
      BY <1>1, <1>2, <3>1 DEF IsSum
  <2> QED
    BY <2>1, <2>2
<1>5. IsSum(g, t)
  BY <1>3, <1>4 DEF IsSum
<1> HIDE DEF g
<1>6. Total(t) = g[Len(t)]
  BY <1>1, <1>5, TotalIsLastSum
<1> QED
  BY <1>1, <1>2, <1>3, <1>6 DEF t

\* One number replaced.
LEMMA TotalExcept ==
  ASSUME NEW s \in Seq(Int), NEW i \in 1 .. Len(s), NEW x \in Int
  PROVE  /\ [s EXCEPT ![i] = x] \in Seq(Int)
         /\ Len([s EXCEPT ![i] = x]) = Len(s)
         /\ Total([s EXCEPT ![i] = x]) = Total(s) - s[i] + x
<1> DEFINE f == Sums(s)
           t == [s EXCEPT ![i] = x]
           g == [n \in 0 .. Len(s) |-> IF n < i THEN f[n] ELSE f[n] - s[i] + x]
<1>1. /\ Len(s) \in Nat
      /\ DOMAIN s = 1 .. Len(s)
      /\ \A n \in 1 .. Len(s) : s[n] \in Int
  BY LenProperties, ElementOfSeq
<1>2. /\ t \in Seq(Int)
      /\ Len(t) = Len(s)
      /\ t[i] = x
      /\ \A n \in 1 .. Len(s) : n # i => t[n] = s[n]
  BY <1>1, ExceptSeq
<1>3. IsSum(f, s) /\ Total(s) = f[Len(s)]
  BY TotalIsLastSum
<1> HIDE DEF f, t
<1>4. /\ g \in [0 .. Len(s) -> Int]
      /\ g[0] = 0
      /\ g[Len(s)] = f[Len(s)] - s[i] + x
  BY <1>1, <1>3 DEF IsSum
<1>5. ASSUME NEW n \in 1 .. Len(s) PROVE g[n] = g[n - 1] + t[n]
  <2>1. /\ f[n] = f[n - 1] + s[n]
        /\ f[n] \in Int
        /\ f[n - 1] \in Int
        /\ s[n] \in Int
        /\ s[i] \in Int
        /\ n - 1 \in 0 .. Len(s)
    BY <1>1, <1>3, SMTT(30) DEF IsSum
  <2>2. n \in 0 .. Len(s) /\ (n - 1 < i <=> n <= i)
    BY <1>1
  <2>3. /\ g[n] = IF n < i THEN f[n] ELSE f[n] - s[i] + x
        /\ g[n - 1] = IF n <= i THEN f[n - 1] ELSE f[n - 1] - s[i] + x
        /\ t[n] = IF n = i THEN x ELSE s[n]
    BY <1>2, <2>1, <2>2
  <2> HIDE DEF g
  <2>4. CASE n = i
    BY <2>1, <2>3, <2>4
  <2>5. CASE n # i
    BY <2>1, <2>3, <2>5, SMTT(30)
  <2> QED
    BY <2>4, <2>5
<1>6. IsSum(g, t)
  BY <1>2, <1>4, <1>5 DEF IsSum
<1> HIDE DEF g
<1>7. Total(t) = g[Len(t)]
  BY <1>2, <1>6, TotalIsLastSum
<1> QED
  BY <1>2, <1>3, <1>4, <1>7 DEF t

\* Smaller numbers add up to a smaller sum.
LEMMA TotalMonotone ==
  ASSUME NEW s \in Seq(Int), NEW t \in Seq(Int), Len(s) = Len(t),
         \A i \in 1 .. Len(s) : s[i] <= t[i]
  PROVE  Total(s) <= Total(t)
<1> DEFINE f == Sums(s)
           g == Sums(t)
           S == {k \in 0 .. Len(s) : f[k] <= g[k]}
<1>1. /\ IsSum(f, s) /\ Total(s) = f[Len(s)]
      /\ IsSum(g, t) /\ Total(t) = g[Len(t)]
  BY TotalIsLastSum
<1>2. /\ Len(s) \in Nat
      /\ \A n \in 1 .. Len(s) : s[n] \in Int /\ t[n] \in Int
  BY LenProperties, ElementOfSeq
<1> HIDE DEF f, g
<1>3. 0 \in S
  BY <1>1, <1>2 DEF IsSum
<1>4. ASSUME NEW k \in 0 .. Len(s) - 1, k \in S
      PROVE  k + 1 \in S
  <2>1. k + 1 \in 1 .. Len(s) /\ (k + 1) - 1 = k /\ k \in 0 .. Len(s)
    BY <1>2
  <2>2. f[k + 1] = f[k] + s[k + 1] /\ g[k + 1] = g[k] + t[k + 1]
    BY <1>1, <2>1 DEF IsSum
  <2>3. f[k] \in Int /\ g[k] \in Int /\ f[k] <= g[k]
    BY <1>1, <1>4, <2>1 DEF IsSum
  <2>4. s[k + 1] \in Int /\ t[k + 1] \in Int /\ s[k + 1] <= t[k + 1]
    BY <1>2, <2>1
  <2>5. f[k + 1] <= g[k + 1]
    BY <2>2, <2>3, <2>4
  <2> QED
    BY <1>2, <2>1, <2>5
<1> HIDE DEF S
<1>5. \A k \in 0 .. Len(s) : k \in S
  BY <1>2, <1>3, <1>4, UpTo
<1>6. Len(s) \in S
  BY <1>2, <1>5
<1> QED
  BY <1>1, <1>6 DEF S

\* Without negative numbers, no sum on the way is negative, or more than all.
LEMMA SumsGrow ==
  ASSUME NEW s \in Seq(Int), \A i \in 1 .. Len(s) : s[i] >= 0,
         NEW n \in 0 .. Len(s)
  PROVE  0 <= Sums(s)[n] /\ Sums(s)[n] <= Total(s)
<1> DEFINE f == Sums(s)
           S == {k \in 0 .. Len(s) : \A j \in 0 .. k : f[j] <= f[k]}
<1>1. IsSum(f, s) /\ Total(s) = f[Len(s)]
  BY TotalIsLastSum
<1>2. Len(s) \in Nat /\ \A k \in 1 .. Len(s) : s[k] \in Int
  BY LenProperties, ElementOfSeq
<1> HIDE DEF f
<1>0. \A k \in 0 .. Len(s) : f[k] \in Int
  BY <1>1 DEF IsSum
<1>3. 0 \in S
  BY <1>1, <1>2 DEF IsSum
<1>4. ASSUME NEW k \in 0 .. Len(s) - 1, k \in S
      PROVE  k + 1 \in S
  <2>1. /\ k + 1 \in 1 .. Len(s)
        /\ (k + 1) - 1 = k
        /\ k \in 0 .. Len(s)
        /\ k + 1 \in 0 .. Len(s)
        /\ 0 .. k + 1 \subseteq 0 .. Len(s)
    BY <1>2
  <2>2. f[k + 1] = f[k] + s[k + 1] /\ f[k] \in Int /\ f[k + 1] \in Int
    BY <1>0, <1>1, <2>1 DEF IsSum
  <2>3. s[k + 1] \in Int /\ s[k + 1] >= 0
    BY <1>2, <2>1
  <2>4. ASSUME NEW j \in 0 .. k + 1 PROVE f[j] <= f[k + 1]
    <3>1. f[j] \in Int
      BY <1>0, <1>2, <2>1
    <3>2. j \in 0 .. k \/ j = k + 1
      BY <2>1
    <3>3. j \in 0 .. k => f[j] <= f[k]
      BY <1>4
    <3> QED
      BY <2>2, <2>3, <3>1, <3>2, <3>3
  <2> QED
    BY <1>2, <2>1, <2>4
<1> HIDE DEF S
<1>5. \A k \in 0 .. Len(s) : k \in S
  BY <1>2, <1>3, <1>4, UpTo
<1>6. n \in S /\ Len(s) \in S
  BY <1>2, <1>5
<1>7. f[0] <= f[n] /\ f[n] <= f[Len(s)] /\ f[0] = 0
  BY <1>1, <1>2, <1>6 DEF S, IsSum
<1> QED
  BY <1>1, <1>7 DEF f

(***************************************************************************)
(* One number less, from anywhere: t is s without its i-th number.         *)
(***************************************************************************)
LEMMA TotalWithout ==
  ASSUME NEW s \in Seq(Int), NEW t \in Seq(Int), NEW i \in 1 .. Len(s),
         Len(t) = Len(s) - 1,
         \A j \in 1 .. Len(s) - 1 : t[j] = IF j < i THEN s[j] ELSE s[j + 1]
  PROVE  Total(t) = Total(s) - s[i]
<1> DEFINE f == Sums(s)
           g == [n \in 0 .. Len(s) - 1 |->
                   IF n < i THEN f[n] ELSE f[n + 1] - s[i]]
<1>1. /\ Len(s) \in Nat
      /\ \A n \in 1 .. Len(s) : s[n] \in Int
  BY LenProperties, ElementOfSeq
<1>2. IsSum(f, s) /\ Total(s) = f[Len(s)]
  BY TotalIsLastSum
<1> HIDE DEF f
<1>3. /\ \A n \in 0 .. Len(s) : f[n] \in Int
      /\ f[0] = 0
      /\ \A n \in 1 .. Len(s) : f[n] = f[n - 1] + s[n]
  BY <1>2 DEF IsSum
<1>4. /\ g \in [0 .. Len(t) -> Int]
      /\ g[0] = 0
      /\ g[Len(t)] = f[Len(s)] - s[i]
  <2>1. g \in [0 .. Len(s) - 1 -> Int]
    <3>1. s[i] \in Int
      BY <1>1
    <3>2. ASSUME NEW n \in 0 .. Len(s) - 1
          PROVE  (IF n < i THEN f[n] ELSE f[n + 1] - s[i]) \in Int
      <4>1. n \in 0 .. Len(s) /\ n + 1 \in 0 .. Len(s)
        BY <1>1
      <4>2. f[n] \in Int /\ f[n + 1] \in Int
        BY <1>3, <4>1
      <4> QED
        BY <3>1, <4>2, SMTT(30)
    <3> QED
      BY <3>2
  <2>2. 0 \in 0 .. Len(s) - 1 /\ 0 < i
    BY <1>1
  <2>3. g[0] = 0
    BY <1>3, <2>2
  <2>4. Len(s) - 1 \in 0 .. Len(s) - 1 /\ (Len(s) - 1) + 1 = Len(s)
    BY <1>1
  <2>5. g[Len(s) - 1] = IF Len(s) - 1 < i THEN f[Len(s) - 1] ELSE f[Len(s)] - s[i]
    BY <2>4
  <2>6. Len(s) - 1 < i => i = Len(s) /\ f[Len(s)] = f[Len(s) - 1] + s[i]
    BY <1>1, <1>3
  <2>7. f[Len(s) - 1] \in Int /\ s[i] \in Int /\ f[Len(s)] \in Int
    BY <1>1, <1>3
  <2>8. g[Len(s) - 1] = f[Len(s)] - s[i]
    BY <2>5, <2>6, <2>7
  <2> HIDE DEF g
  <2> QED
    BY <2>1, <2>3, <2>8
<1>5. ASSUME NEW n \in 1 .. Len(t) PROVE g[n] = g[n - 1] + t[n]
  <2>1. /\ n \in 1 .. Len(s)
        /\ n + 1 \in 1 .. Len(s)
        /\ n - 1 \in 0 .. Len(s)
        /\ n \in 0 .. Len(s)
        /\ n + 1 \in 0 .. Len(s)
        /\ n \in 0 .. Len(s) - 1
        /\ n - 1 \in 0 .. Len(s) - 1
        /\ (n + 1) - 1 = n
        /\ (n - 1) + 1 = n
    BY <1>1
  <2>2. n \in Int /\ i \in Int
    BY <1>1
  <2> DEFINE a == f[n - 1]
             b == s[n]
             c == s[n + 1]
             d == s[i]
  <2>3. a \in Int /\ b \in Int /\ c \in Int /\ d \in Int
    BY <1>1, <1>3, <2>1
  <2>4. f[n] = a + b
    BY <1>3, <2>1
  <2>5. f[n + 1] = f[n] + c
    <3>1. f[n + 1] = f[(n + 1) - 1] + s[n + 1]
      BY <1>3, <2>1
    <3> QED
      BY <2>1, <3>1
  <2>6. /\ g[n] = IF n < i THEN f[n] ELSE f[n + 1] - d
        /\ g[n - 1] = IF n - 1 < i THEN a ELSE f[n] - d
        /\ t[n] = IF n < i THEN b ELSE c
    BY <2>1
  <2>7. n = i => d = b
    OBVIOUS
  <2> HIDE DEF g, a, b, c, d
  <2>8. CASE n < i
    <3>1. g[n] = a + b /\ g[n - 1] = a /\ t[n] = b
      BY <2>2, <2>4, <2>6, <2>8
    <3> QED
      BY <3>1, Zenon
  <2>9. CASE ~(n < i)
    <3>1. /\ g[n] = ((a + b) + c) - d
          /\ g[n - 1] = IF n = i THEN a ELSE (a + b) - d
          /\ t[n] = c
      <4>1. n - 1 < i <=> n = i
        BY <2>2, <2>9
      <4>2. g[n] = f[n + 1] - d /\ t[n] = c
        BY <2>6, <2>9, Zenon
      <4>3. g[n - 1] = IF n = i THEN a ELSE f[n] - d
        BY <2>6, <4>1, Zenon
      <4> QED
        BY <2>4, <2>5, <4>2, <4>3, Zenon
    <3>2. ((a + b) + c) - d = (IF n = i THEN a ELSE (a + b) - d) + c
      BY <2>3, <2>7
    <3> QED
      BY <3>1, <3>2, Zenon
  <2> QED
    BY <2>8, <2>9
<1>6. IsSum(g, t)
  BY <1>4, <1>5 DEF IsSum
<1> HIDE DEF g
<1>7. Total(t) = g[Len(t)]
  BY <1>6, TotalIsLastSum
<1> QED
  BY <1>2, <1>4, <1>7
-----------------------------------------------------------------------------
(* The pieces of a product.                                                *)

\* What each line adds to the pieces of p.
Counts(lines, p) ==
  [i \in DOMAIN lines |-> IF lines[i].id = p THEN lines[i].count ELSE 0]

\* The pieces of a product are the sum of the counts of its lines.
LEMMA CountsAddUp ==
  ASSUME NEW lines \in Contents, NEW p
  PROVE  /\ Len(lines) \in Nat
         /\ Counts(lines, p) \in Seq(Int)
         /\ Len(Counts(lines, p)) = Len(lines)
         /\ \A i \in 1 .. Len(lines) : Counts(lines, p)[i] =
              IF lines[i].id = p THEN lines[i].count ELSE 0
         /\ PiecesOf(lines, p) = Total(Counts(lines, p))
         /\ PiecesOf(lines, p) \in Int
<1>1. Len(lines) \in Nat /\ DOMAIN lines = 1 .. Len(lines)
  BY LenProperties DEF Contents
<1>2. \A i \in 1 .. Len(lines) : lines[i].count \in Int
  BY <1>1, LineType, CountIsInt
<1>3. Counts(lines, p) \in [1 .. Len(lines) -> Int]
  BY <1>1, <1>2 DEF Counts
<1>4. Counts(lines, p) \in Seq(Int)
  BY <1>1, <1>3, SeqDef
<1>5. Len(Counts(lines, p)) = Len(lines)
  BY <1>1, <1>3, <1>4, LenProperties
<1>6. PiecesOf(lines, p) = Total(Counts(lines, p))
  BY DEF PiecesOf, Counts
<1> QED
  BY <1>1, <1>4, <1>5, <1>6, TotalIsLastSum DEF Counts

\* There are no pieces in an empty cart.
LEMMA NoPieces == \A p : PiecesOf(<< >>, p) = 0
<1> SUFFICES ASSUME NEW p PROVE PiecesOf(<< >>, p) = 0
  OBVIOUS
<1>1. Counts(<< >>, p) = << >>
  BY DEF Counts
<1>2. << >> \in Contents
  BY EmptySeq DEF Contents
<1> QED
  BY <1>1, <1>2, CountsAddUp, TotalEmpty

\* Of all products, new and old differ in the pieces of p at most.
DifferIn(p, old, new) ==
  \A q \in Products \ {p} : PiecesOf(new, q) = PiecesOf(old, q)

\* A line that is added changes the pieces of its product.
LEMMA AppendDiffers ==
  ASSUME NEW lines \in Contents, NEW line \in Line
  PROVE  DifferIn(line.id, lines, Append(lines, line))
<1> DEFINE new == Append(lines, line)
<1>1. /\ Len(lines) \in Nat
      /\ new \in Contents
      /\ Len(new) = Len(lines) + 1
      /\ new[Len(lines) + 1] = line
      /\ \A i \in 1 .. Len(lines) : new[i] = lines[i]
  BY LenProperties, AppendProperties DEF Contents
<1> HIDE DEF new
<1>2. ASSUME NEW q \in Products \ {line.id}
      PROVE  PiecesOf(new, q) = PiecesOf(lines, q)
  <2> DEFINE s == Counts(lines, q)
             t == Counts(new, q)
  <2>1. /\ s \in Seq(Int) /\ Len(s) = Len(lines)
        /\ t \in Seq(Int) /\ Len(t) = Len(lines) + 1
        /\ \A i \in 1 .. Len(lines) : t[i] = s[i]
        /\ t[Len(lines) + 1] = 0
        /\ PiecesOf(lines, q) = Total(s) /\ PiecesOf(new, q) = Total(t)
        /\ Total(s) \in Int /\ Total(t) \in Int
    <3>1. \A i \in 1 .. Len(lines) + 1 : Counts(new, q)[i] =
            IF new[i].id = q THEN new[i].count ELSE 0
      BY <1>1, CountsAddUp
    <3>2. \A i \in 1 .. Len(lines) : i \in 1 .. Len(lines) + 1
      BY <1>1
    <3>3. Len(lines) + 1 \in 1 .. Len(lines) + 1
      BY <1>1
    <3>4. t[Len(lines) + 1] = 0
      BY <1>1, <1>2, <3>1, <3>3
    <3>5. ASSUME NEW i \in 1 .. Len(lines)
          PROVE  t[i] = s[i]
      <4>1. /\ t[i] = IF new[i].id = q THEN new[i].count ELSE 0
            /\ s[i] = IF lines[i].id = q THEN lines[i].count ELSE 0
        BY <3>1, <3>2, CountsAddUp
      <4>2. new[i] = lines[i]
        BY <1>1
      <4> QED
        BY <4>1, <4>2
    <3>6. /\ s \in Seq(Int) /\ Len(s) = Len(lines)
          /\ PiecesOf(lines, q) = Total(s) /\ Total(s) \in Int
      BY CountsAddUp
    <3>7. /\ t \in Seq(Int) /\ Len(t) = Len(lines) + 1
          /\ PiecesOf(new, q) = Total(t) /\ Total(t) \in Int
      BY <1>1, CountsAddUp
    <3> QED
      BY <3>4, <3>5, <3>6, <3>7
  <2> HIDE DEF s, t
  <2>2. \A j \in 1 .. Len(t) - 1 :
          s[j] = IF j < Len(t) THEN t[j] ELSE t[j + 1]
    BY <1>1, <2>1
  <2>3. Len(t) \in 1 .. Len(t) /\ Len(s) = Len(t) - 1
    BY <1>1, <2>1
  <2>4. Total(s) = Total(t) - t[Len(t)]
    BY <2>1, <2>2, <2>3, TotalWithout
  <2> QED
    BY <2>1, <2>4
<1> QED
  BY <1>2 DEF DifferIn, new

\* A line that is replaced by one of the same product.
LEMMA ReplaceDiffers ==
  ASSUME NEW lines \in Contents, NEW i \in DOMAIN lines, NEW line \in Line,
         line.id = lines[i].id
  PROVE  DifferIn(line.id, lines, [lines EXCEPT ![i] = line])
<1> DEFINE new == [lines EXCEPT ![i] = line]
<1>1. new \in Contents /\ DOMAIN lines = 1 .. Len(lines)
  BY ReplaceType, LenProperties DEF Contents
<1>2. ASSUME NEW q \in Products \ {line.id}
      PROVE  Counts(new, q) = Counts(lines, q)
  BY <1>1 DEF Counts
<1> HIDE DEF new
<1>3. ASSUME NEW q \in Products \ {line.id}
      PROVE  PiecesOf(new, q) = PiecesOf(lines, q)
  <2>1. /\ PiecesOf(new, q) = Total(Counts(new, q))
        /\ PiecesOf(lines, q) = Total(Counts(lines, q))
    BY <1>1, CountsAddUp
  <2> QED
    BY <1>2, <2>1
<1> QED
  BY <1>3 DEF DifferIn, new

\* A line that is removed, or lost.
LEMMA RemoveDiffers ==
  ASSUME NEW lines \in Contents, NEW i \in DOMAIN lines, NEW new \in Contents,
         Len(new) = Len(lines) - 1,
         \A j \in DOMAIN new : new[j] = lines[IF j < i THEN j ELSE j + 1]
  PROVE  DifferIn(lines[i].id, lines, new)
<1>1. /\ Len(lines) \in Nat
      /\ i \in 1 .. Len(lines)
      /\ DOMAIN new = 1 .. Len(lines) - 1
  BY LenProperties DEF Contents
<1>2. ASSUME NEW q \in Products \ {lines[i].id}
      PROVE  PiecesOf(new, q) = PiecesOf(lines, q)
  <2> DEFINE s == Counts(lines, q)
             t == Counts(new, q)
  <2>1. /\ s \in Seq(Int) /\ Len(s) = Len(lines)
        /\ t \in Seq(Int) /\ Len(t) = Len(lines) - 1
        /\ PiecesOf(lines, q) = Total(s) /\ PiecesOf(new, q) = Total(t)
        /\ Total(s) \in Int /\ Total(t) \in Int
    BY CountsAddUp
  <2>2. ASSUME NEW j \in 1 .. Len(lines) - 1
        PROVE  t[j] = IF j < i THEN s[j] ELSE s[j + 1]
    <3>1. j \in DOMAIN new /\ j \in 1 .. Len(lines) /\ j + 1 \in 1 .. Len(lines)
      BY <1>1
    <3>2. t[j] = IF new[j].id = q THEN new[j].count ELSE 0
      BY <3>1 DEF Counts
    <3>3. new[j] = IF j < i THEN lines[j] ELSE lines[j + 1]
      BY <3>1
    <3>4. /\ s[j] = IF lines[j].id = q THEN lines[j].count ELSE 0
          /\ s[j + 1] = IF lines[j + 1].id = q THEN lines[j + 1].count ELSE 0
      BY <3>1, CountsAddUp, SMTT(30)
    <3> HIDE DEF s, t
    <3> QED
      BY <3>2, <3>3, <3>4
  <2>3. s[i] = 0
    BY <1>1, <1>2, CountsAddUp
  <2> HIDE DEF s, t
  <2>4. /\ Len(t) = Len(s) - 1
        /\ i \in 1 .. Len(s)
        /\ \A j \in 1 .. Len(s) - 1 : t[j] = IF j < i THEN s[j] ELSE s[j + 1]
    BY <1>1, <2>1, <2>2
  <2>5. Total(t) = Total(s) - s[i]
    BY <2>1, <2>4, TotalWithout
  <2> QED
    BY <2>1, <2>3, <2>5
<1> QED
  BY <1>2 DEF DifferIn

\* What the search for a product finds is a line of it.
LEMMA FirstLineOfProduct ==
  ASSUME NEW lines, NEW p, HasLine(lines, p)
  PROVE  FirstLine(lines, p) \in DOMAIN lines /\ lines[FirstLine(lines, p)].id = p
<1>1. FirstLine(lines, p) \in NthLine(lines, p, 1)
  BY DEF HasLine, FirstLine
<1> QED
  BY <1>1 DEF NthLine, LinesOf

\* A line that is removed changes the pieces of its product.
LEMMA RemoveAtDiffers ==
  ASSUME NEW lines \in Contents, NEW i \in DOMAIN lines
  PROVE  DifferIn(lines[i].id, lines, RemoveAt(lines, i))
<1>1. RemoveAt(lines, i) \in Contents
  BY RemoveType
<1>2. Len(RemoveAt(lines, i)) = Len(lines) - 1
  BY RemainingLines
<1>3. ASSUME NEW j \in DOMAIN RemoveAt(lines, i)
      PROVE  RemoveAt(lines, i)[j] = lines[IF j < i THEN j ELSE j + 1]
  BY RemainingLines
<1> QED
  BY <1>1, <1>2, <1>3, RemoveDiffers

\* The fields of a line.
LEMMA LineFields ==
  ASSUME NEW line \in Line
  PROVE  line.id \in Products /\ line.count \in Int
  BY DEF Line

\* AlwaysAddProduct changes the pieces of its product alone.
LEMMA AlwaysAddDiffers ==
  ASSUME NEW lines \in Contents, NEW p \in Products, NEW count \in Int,
         NEW opts \in Opts, NEW stock \in Int
  PROVE  DifferIn(p, lines, AlwaysAddLine(lines, p, count, opts, stock))
<1> DEFINE iCan == AtMost(count, stock)
           line == [id |-> p, count |-> iCan, options |-> opts]
<1>1. AlwaysAddLine(lines, p, count, opts, stock) =
        IF iCan > 0 THEN Append(lines, line) ELSE lines
  BY DEF AlwaysAddLine
<1>2. line \in Line /\ line.id = p
  BY DEF AtMost, Line, Opts
<1> HIDE DEF line, iCan
<1>3. DifferIn(p, lines, Append(lines, line))
  BY <1>2, AppendDiffers
<1>4. DifferIn(p, lines, lines)
  BY DEF DifferIn
<1> QED
  BY <1>1, <1>3, <1>4

\* AddProduct changes the pieces of its product alone.
LEMMA AddDiffers ==
  ASSUME NEW lines \in Contents, NEW p \in Products, NEW count \in Int,
         NEW opts \in Opts, NEW stock \in Int
  PROVE  DifferIn(p, lines, AddLine(lines, p, count, opts, stock))
<1>1. CASE ~HasLine(lines, p)
  BY <1>1, AlwaysAddDiffers DEF AddLine
<1>2. CASE HasLine(lines, p)
  <2> DEFINE i    == FirstLine(lines, p)
             n    == AtMost(lines[i].count + count, stock)
             line == [lines[i] EXCEPT !.count = n]
             more == Customize(line, opts)
  <2>1. i \in DOMAIN lines /\ lines[i].id = p
    BY <1>2, FirstLineOfProduct
  <2>2. lines[i] \in Line /\ lines[i].count \in Int
    BY <2>1, LineType, CountIsInt
  <2>3. n \in Int
    BY <2>2 DEF AtMost
  <2>4. more \in Line /\ more.id = lines[i].id
    <3> HIDE DEF n, i
    <3>1. line \in Line
      BY <2>2, <2>3, CountType
    <3>2. more.id = lines[i].id
      BY <2>2, SameProduct
    <3> HIDE DEF line
    <3>3. more \in Line
      BY <3>1, CustomizeType
    <3> QED
      BY <3>2, <3>3
  <2>5. AddLine(lines, p, count, opts, stock) = [lines EXCEPT ![i] = more]
    BY <1>2 DEF AddLine
  <2> HIDE DEF more, line, n, i
  <2> QED
    BY <2>1, <2>4, <2>5, ReplaceDiffers
<1> QED
  BY <1>1, <1>2

\* RemoveProduct changes the pieces of its product alone.
LEMMA RemovePieceDiffers ==
  ASSUME NEW lines \in Contents, NEW p
  PROVE  DifferIn(p, lines, RemovePiece(lines, p))
<1>1. CASE ~HasLine(lines, p)
  BY <1>1 DEF RemovePiece, DifferIn
<1>2. CASE HasLine(lines, p)
  <2> DEFINE i    == FirstLine(lines, p)
             n    == lines[i].count - 1
             less == [lines[i] EXCEPT !.count = n]
  <2>1. i \in DOMAIN lines /\ lines[i].id = p
    BY <1>2, FirstLineOfProduct
  <2>2. lines[i] \in Line /\ lines[i].count \in Int
    BY <2>1, LineType, CountIsInt
  <2>3. n \in Int
    BY <2>2
  <2>4. less \in Line /\ less.id = lines[i].id
    BY <2>2, <2>3, CountType, SameProduct
  <2>5. RemovePiece(lines, p) \in {[lines EXCEPT ![i] = less], RemoveAt(lines, i)}
    BY <1>2 DEF RemovePiece
  <2> HIDE DEF less, n, i
  <2>6. DifferIn(p, lines, [lines EXCEPT ![i] = less])
    BY <2>1, <2>4, ReplaceDiffers
  <2>7. DifferIn(p, lines, RemoveAt(lines, i))
    BY <2>1, RemoveAtDiffers
  <2> QED
    BY <2>5, <2>6, <2>7
<1> QED
  BY <1>1, <1>2

(***************************************************************************)
(* UpdateProduct changes the pieces of one product: its own, or that of    *)
(* the last line if that is the one it loses.                              *)
(***************************************************************************)
LEMMA UpdateDiffers ==
  ASSUME NEW lines \in Contents, NEW p \in Products, NEW count \in Int,
         NEW opts \in Opts, NEW node \in Int
  PROVE  \A new \in UpdateOutcomes(lines, p, count, opts, node) :
           \E q \in Products : DifferIn(q, lines, new)
<1> DEFINE nth     == NthLine(lines, p, IF node > 0 THEN node + 1 ELSE 1)
           line(i) == Customize([lines[i] EXCEPT !.count = count], opts)
<1>1. \A i \in nth : i \in DOMAIN lines /\ lines[i].id = p
  BY DEF NthLine, LinesOf
<1>2. ASSUME NEW i \in nth
      PROVE  DifferIn(p, lines, [lines EXCEPT ![i] = line(i)])
  <2>1. i \in DOMAIN lines /\ lines[i].id = p /\ lines[i] \in Line
    BY <1>1, LineType
  <2>2. line(i) \in Line /\ line(i).id = lines[i].id
    BY <2>1, CountType, CustomizeType, SameProduct
  <2> HIDE DEF line, nth
  <2> QED
    BY <2>1, <2>2, ReplaceDiffers
<1>3. ASSUME NEW i \in nth
      PROVE  DifferIn(p, lines, RemoveAt(lines, i))
  BY <1>1, RemoveAtDiffers
<1>4. DifferIn(p, lines, lines)
  BY DEF DifferIn
<1>5. LinesOf(lines, p) # {} => \E q \in Products : DifferIn(q, lines, Front(lines))
  <2>1. SUFFICES ASSUME lines # << >>
                 PROVE  \E q \in Products : DifferIn(q, lines, Front(lines))
    BY DEF LinesOf
  <2> DEFINE n == Len(lines)
  <2>2. n \in Nat /\ n > 0 /\ DOMAIN lines = 1 .. n
    BY <2>1, LenProperties, EmptySeq DEF Contents
  <2>3. n \in DOMAIN lines /\ lines[n].id \in Products
    <3>1. n \in DOMAIN lines
      BY <2>2
    <3> QED
      BY <3>1, LineType, LineFields
  <2>4. /\ Front(lines) \in Contents
        /\ Len(Front(lines)) = n - 1
        /\ \A j \in DOMAIN Front(lines) : Front(lines)[j] = lines[j]
    BY <2>1, FrontType, FrontLines
  <2>5. \A j \in DOMAIN Front(lines) : j < n
    BY <2>2, <2>4, LenProperties DEF Contents
  <2> HIDE DEF n
  <2>6. \A j \in DOMAIN Front(lines) :
          Front(lines)[j] = lines[IF j < n THEN j ELSE j + 1]
    BY <2>4, <2>5
  <2>7. DifferIn(lines[n].id, lines, Front(lines))
    BY <2>3, <2>4, <2>6, RemoveDiffers DEF n
  <2> QED
    BY <2>3, <2>7
<1> QED
  BY <1>2, <1>3, <1>4, <1>5 DEF UpdateOutcomes
-----------------------------------------------------------------------------
(* One request at a time: the store implements Basket.                     *)

\* The object of a request that is served is what its row holds.
ObjectIsRow ==
  \A r \in Requests :
    (pc[r] \in Programs /\ cart[r].id # 0) =>
      /\ cart[r].id \in DOMAIN carts
      /\ cart[r].lines = carts[cart[r].id].lines
      /\ cart[r].checkedOut = carts[cart[r].id].checkedOut

BasketInv == CartTypeOK /\ ObjectIsRow

\* The basket that a row stands for, and those of the table.
BasketOf(row) == [pieces |-> Pieces(row.lines), closed |-> row.checkedOut]
BasketsOf(rows) == [c \in DOMAIN rows |-> BasketOf(rows[c])]
Baskets == BasketsOf(carts)

\* No page has a program's name.
LEMMA PageIsNoProgram == \A prog : Page[prog] \notin Programs \/ prog \notin Programs
  BY DEF Page, Programs

\* With one request there is no other that could have changed the row.
LEMMA ObjectIsRowStep ==
  ASSUME \A r, q \in Requests : r = q, BasketInv, [CartNext]_cartVars
  PROVE  ObjectIsRow'
<1>1. CASE UNCHANGED cartVars
  BY <1>1 DEF cartVars, BasketInv, ObjectIsRow
<1>2. ASSUME NEW r \in Requests, pc'[r] \notin Programs
      PROVE  ObjectIsRow'
  BY <1>2 DEF ObjectIsRow
<1>3. ASSUME NEW r \in Requests, Finish(r), pc[r] \in Programs
      PROVE  pc'[r] \notin Programs
  BY <1>3, PageIsNoProgram DEF Finish, BasketInv, CartTypeOK
<1>4. ASSUME NEW r \in Requests, Idle(r)
      PROVE  pc'[r] \notin Programs
  BY <1>4 DEF Idle, Programs, BasketInv, CartTypeOK
<1>5. ASSUME NEW r \in Requests, Construct(r)
      PROVE  ObjectIsRow'
  <2>1. PICK b \in Browsers, prog \in Programs :
          \/ NewCart(r, b, prog)
          \/ NoNewCart(r, b, prog)
          \/ \E link \in links[b] \cup {Empty} : LoadCart(r, b, prog, link)
    BY <1>5 DEF Construct
  <2>2. cart \in [Requests -> CartObj] /\ carts \in Seq(Row)
    BY DEF BasketInv, CartTypeOK
  <2>3. CASE NewCart(r, b, prog)
    <3> DEFINE row == [lines |-> << >>, checkedOut |-> FALSE]
    <3>1. /\ carts' = Append(carts, row)
          /\ cart'[r] = [NoCart EXCEPT !.id = Len(carts')]
      BY <2>2, <2>3 DEF NewCart
    <3>2. row \in Row
      BY EmptySeq DEF Row
    <3> HIDE DEF row
    <3>3. /\ carts' \in Seq(Row)
          /\ Len(carts') = Len(carts) + 1
          /\ carts'[Len(carts')] = row
      BY <2>2, <3>1, <3>2, AppendProperties
    <3>4. Len(carts') \in DOMAIN carts'
      BY <2>2, <3>3, LenProperties
    <3>5. /\ cart'[r].id = Len(carts')
          /\ cart'[r].lines = row.lines
          /\ cart'[r].checkedOut = row.checkedOut
      BY <3>1 DEF NoCart, row
    <3> QED
      BY <3>3, <3>4, <3>5 DEF ObjectIsRow
  <2>4. CASE NoNewCart(r, b, prog)
    <3>1. cart'[r].id = 0
      BY <2>2, <2>4 DEF NoNewCart, NoCart
    <3> QED
      BY <3>1 DEF ObjectIsRow
  <2>5. ASSUME NEW link \in links[b] \cup {Empty}, LoadCart(r, b, prog, link)
        PROVE  ObjectIsRow'
    <3> DEFINE id == RequestedCart(prog, b, link)
    <3>1. cart'[r] = Stored(id) /\ carts' = carts
      BY <2>2, <2>5 DEF LoadCart
    <3> HIDE DEF id
    <3>2. Stored(id).id # 0 =>
            /\ id \in DOMAIN carts
            /\ Stored(id).id = id
            /\ Stored(id).lines = carts[id].lines
            /\ Stored(id).checkedOut = carts[id].checkedOut
      BY DEF Stored, NoCart
    <3> QED
      BY <3>1, <3>2 DEF ObjectIsRow
  <2> QED
    BY <2>1, <2>3, <2>4, <2>5
<1>6. ASSUME NEW r \in Requests, Shop(r) \/ ShowPage(r) \/ CheckOut(r)
      PROVE  ObjectIsRow'
  <2>1. Finish(r) /\ pc[r] \in Programs
    BY <1>6 DEF Shop, AlwaysAddProduct, AddProduct, UpdateProduct,
                RemoveProduct, Asks, ShowPage, CheckOut, Programs
  <2> QED
    BY <1>2, <1>3, <2>1
<1> QED
  BY <1>1, <1>2, <1>4, <1>5, <1>6 DEF CartNext, Reply, Die

\* The baskets of rows, one for each.
LEMMA BasketsOfRows ==
  ASSUME NEW rows \in Seq(Row)
  PROVE  /\ Len(rows) \in Nat
         /\ DOMAIN rows = 1 .. Len(rows)
         /\ DOMAIN BasketsOf(rows) = 1 .. Len(rows)
         /\ Len(BasketsOf(rows)) = Len(rows)
         /\ BasketsOf(rows) \in Seq({BasketOf(row) : row \in Row})
<1> DEFINE Some == {BasketOf(row) : row \in Row}
<1>1. Len(rows) \in Nat /\ DOMAIN rows = 1 .. Len(rows)
  BY LenProperties
<1>2. \A c \in 1 .. Len(rows) : BasketOf(rows[c]) \in Some
  BY <1>1, ElementOfSeq
<1> HIDE DEF Some
<1>3. BasketsOf(rows) \in [1 .. Len(rows) -> Some]
  BY <1>1, <1>2 DEF BasketsOf
<1>4. BasketsOf(rows) \in Seq(Some)
  BY <1>1, <1>3, SeqDef
<1>5. Len(BasketsOf(rows)) = Len(rows)
  BY <1>1, <1>3, <1>4, LenProperties
<1> QED
  BY <1>1, <1>3, <1>4, <1>5 DEF Some

(***************************************************************************)
(* An update of the row by a request whose object is the row changes one   *)
(* product in one basket, if the operation changes one product.            *)
(***************************************************************************)
LEMMA SaveIsChange ==
  ASSUME BasketInv, BasketInv', NEW r \in Requests,
         pc[r] \in Programs, cart[r].id # 0,
         NEW p \in Products, NEW lines \in Contents,
         DifferIn(p, cart[r].lines, lines),
         Save(r, lines, cart[r].checkedOut)
  PROVE  B!Next \/ UNCHANGED Baskets
<1> DEFINE id  == cart[r].id
           row == [lines |-> lines, checkedOut |-> cart[r].checkedOut]
<1>1. /\ id \in DOMAIN carts
      /\ cart[r].lines = carts[id].lines
      /\ cart[r].checkedOut = carts[id].checkedOut
  BY DEF BasketInv, ObjectIsRow
<1>2. CASE carts' = carts
  BY <1>2 DEF Baskets, BasketsOf
<1>3. CASE carts' = [carts EXCEPT ![id] = row]
  <2> DEFINE n == BasketOf(row).pieces[p]
  <2>1. /\ DOMAIN carts' = DOMAIN carts
        /\ carts'[id] = row
        /\ \A c \in DOMAIN carts : c # id => carts'[c] = carts[c]
    BY <1>1, <1>3
  <2>2. /\ DOMAIN Baskets = DOMAIN carts
        /\ DOMAIN Baskets' = DOMAIN carts
        /\ Len(Baskets') = Len(Baskets)
    <3>1. carts \in Seq(Row) /\ carts' \in Seq(Row)
      BY DEF BasketInv, CartTypeOK
    <3>2. Len(carts') = Len(carts)
      BY <2>1, <3>1, BasketsOfRows
    <3> QED
      BY <2>1, <3>1, <3>2, BasketsOfRows DEF Baskets
  <2>3. Baskets'[id] = [Baskets[id] EXCEPT !.pieces[p] = n]
    <3>1. BasketOf(row).pieces = [BasketOf(carts[id]).pieces EXCEPT ![p] = n]
      <4>1. /\ BasketOf(row).pieces = Pieces(lines)
            /\ BasketOf(carts[id]).pieces = Pieces(carts[id].lines)
        BY DEF BasketOf
      <4>2. \A q \in Products : q # p =>
              Pieces(lines)[q] = Pieces(carts[id].lines)[q]
        BY <1>1 DEF DifferIn, Pieces
      <4>3. n = Pieces(lines)[p]
        BY <4>1
      <4> HIDE DEF n
      <4> QED
        BY <4>1, <4>2, <4>3 DEF Pieces
    <3>2. BasketOf(row).closed = BasketOf(carts[id]).closed
      BY <1>1 DEF BasketOf
    <3>3. BasketOf(row) = [BasketOf(carts[id]) EXCEPT !.pieces[p] = n]
      <4> HIDE DEF n, row
      <4> QED
        BY <3>1, <3>2 DEF BasketOf
    <3>4. Baskets'[id] = BasketOf(row) /\ Baskets[id] = BasketOf(carts[id])
      BY <1>1, <2>1 DEF Baskets, BasketsOf
    <3> HIDE DEF n, row
    <3> QED
      BY <3>3, <3>4
  <2>4. \A c \in DOMAIN carts : c # id => Baskets'[c] = Baskets[c]
    BY <2>1 DEF Baskets, BasketsOf
  <2>5. n = Baskets'[id].pieces[p]
    BY <1>1, <2>1 DEF Baskets, BasketsOf
  <2>6. Baskets' = [Baskets EXCEPT ![id].pieces[p] = n]
    <3> HIDE DEF n
    <3>1. Baskets' = [c \in DOMAIN carts |-> Baskets'[c]]
      BY <2>1 DEF Baskets, BasketsOf
    <3>2. Baskets = [c \in DOMAIN carts |-> Baskets[c]]
      BY DEF Baskets, BasketsOf
    <3> QED
      BY <1>1, <2>3, <2>4, <3>1, <3>2
  <2>7. B!Change(id, p)
    BY <2>2, <2>5, <2>6 DEF B!Change, Baskets, BasketsOf, BasketOf
  <2> QED
    BY <1>1, <2>2, <2>7 DEF B!Next, Baskets, BasketsOf, BasketOf
<1> QED
  BY <1>2, <1>3 DEF Save

\* Checking out an object that is the row, and open, closes the basket.
LEMMA CheckOutIsClose ==
  ASSUME BasketInv, NEW r \in Requests, MayCheckOut(r), CheckOut(r)
  PROVE  B!Next \/ UNCHANGED Baskets
<1> DEFINE id  == cart[r].id
           row == [lines |-> cart[r].lines, checkedOut |-> TRUE]
<1>1. /\ id \in DOMAIN carts
      /\ cart[r].lines = carts[id].lines
      /\ ~carts[id].checkedOut
      /\ carts \in Seq(Row)
  BY DEF BasketInv, CartTypeOK, ObjectIsRow, CheckOut, Programs, MayCheckOut
<1>2. CASE carts' = carts
  BY <1>2 DEF Baskets
<1>3. CASE carts' = [carts EXCEPT ![id] = row]
  <2>1. /\ DOMAIN carts' = DOMAIN carts
        /\ carts'[id] = row
        /\ \A c \in DOMAIN carts : c # id => carts'[c] = carts[c]
    BY <1>1, <1>3
  <2>2. Baskets'[id] = [Baskets[id] EXCEPT !.closed = TRUE]
    <3>1. Baskets'[id] = BasketOf(row) /\ Baskets[id] = BasketOf(carts[id])
      BY <1>1, <2>1 DEF Baskets, BasketsOf
    <3>2. BasketOf(row) = [pieces |-> Pieces(carts[id].lines), closed |-> TRUE]
      BY <1>1 DEF BasketOf
    <3>3. [BasketOf(carts[id]) EXCEPT !.closed = TRUE] =
            [pieces |-> Pieces(carts[id].lines), closed |-> TRUE]
      <4>1. \A x, y, z : [[pieces |-> x, closed |-> y] EXCEPT !.closed = z] =
                           [pieces |-> x, closed |-> z]
        BY SMT
      <4>2. BasketOf(carts[id]) = [pieces |-> Pieces(carts[id].lines),
                                   closed |-> carts[id].checkedOut]
        BY DEF BasketOf
      <4>3. [[pieces |-> Pieces(carts[id].lines),
              closed |-> carts[id].checkedOut] EXCEPT !.closed = TRUE] =
              [pieces |-> Pieces(carts[id].lines), closed |-> TRUE]
        BY <4>1, Zenon
      <4> QED
        BY <4>2, <4>3
    <3> HIDE DEF row, id
    <3> QED
      BY <3>1, <3>2, <3>3
  <2>3. \A c \in DOMAIN carts : c # id => Baskets'[c] = Baskets[c]
    BY <2>1 DEF Baskets, BasketsOf
  <2>4. Baskets' = [c \in DOMAIN carts |-> Baskets'[c]]
    BY <2>1 DEF Baskets, BasketsOf
  <2>5. Baskets = [c \in DOMAIN carts |-> Baskets[c]]
    BY DEF Baskets, BasketsOf
  <2>6. Baskets' = [Baskets EXCEPT ![id].closed = TRUE]
    <3> HIDE DEF row, id
    <3> QED
      BY <1>1, <2>2, <2>3, <2>4, <2>5
  <2>7. ~Baskets[id].closed /\ id \in DOMAIN Baskets
    BY <1>1 DEF Baskets, BasketsOf, BasketOf
  <2>8. \E i \in DOMAIN Baskets : B!Close(i)
    BY <2>6, <2>7 DEF B!Close, Baskets, BasketsOf, BasketOf
  <2> QED
    BY <2>8 DEF B!Next, Baskets, BasketsOf, BasketOf
<1> QED
  BY <1>2, <1>3 DEF CheckOut, Save

\* A row that is inserted is an empty basket that is open.
LEMMA ConstructIsOpen ==
  ASSUME BasketInv, BasketInv', NEW r \in Requests, Construct(r)
  PROVE  B!Next \/ UNCHANGED Baskets
<1> DEFINE row == [lines |-> << >>, checkedOut |-> FALSE]
           new == [pieces |-> [p \in Products |-> 0], closed |-> FALSE]
<1>1. carts \in Seq(Row) /\ carts' \in Seq(Row)
  BY DEF BasketInv, CartTypeOK
<1>2. carts' = carts \/ carts' = Append(carts, row)
  BY DEF Construct, NewCart, NoNewCart, LoadCart
<1>3. CASE carts' = carts
  BY <1>3 DEF Baskets
<1>4. CASE carts' = Append(carts, row)
  <2>1. row \in Row /\ BasketOf(row) = new
    BY EmptySeq, NoPieces DEF Row, BasketOf, Pieces
  <2> HIDE DEF row, new
  <2>2. /\ Len(carts) \in Nat
        /\ DOMAIN carts = 1 .. Len(carts)
        /\ DOMAIN carts' = 1 .. Len(carts) + 1
        /\ carts'[Len(carts) + 1] = row
        /\ \A c \in 1 .. Len(carts) : carts'[c] = carts[c]
    BY <1>1, <1>4, <2>1, LenProperties, AppendProperties
  <2>3. Baskets' = Append(Baskets, new)
    <3> DEFINE Some == {BasketOf(any) : any \in Row}
    <3>1. Baskets \in Seq(Some) /\ Len(Baskets) = Len(carts)
          /\ DOMAIN Baskets = 1 .. Len(carts)
      BY <1>1, BasketsOfRows DEF Baskets
    <3>2. new \in Some
      BY <2>1
    <3> HIDE DEF Some
    <3>3. /\ Append(Baskets, new) \in Seq(Some)
          /\ Len(Append(Baskets, new)) = Len(carts) + 1
          /\ Append(Baskets, new)[Len(carts) + 1] = new
          /\ \A c \in 1 .. Len(carts) : Append(Baskets, new)[c] = Baskets[c]
      BY <3>1, <3>2, AppendProperties
    <3>4. DOMAIN Append(Baskets, new) = 1 .. Len(carts) + 1
      BY <3>3, LenProperties
    <3>5. Baskets' = [c \in 1 .. Len(carts) + 1 |-> BasketOf(carts'[c])]
      BY <2>2 DEF Baskets, BasketsOf
    <3>6. ASSUME NEW c \in 1 .. Len(carts) + 1
          PROVE  BasketOf(carts'[c]) = Append(Baskets, new)[c]
      <4>1. CASE c = Len(carts) + 1
        BY <2>1, <2>2, <3>3, <4>1
      <4>2. CASE c # Len(carts) + 1
        <5>1. c \in 1 .. Len(carts)
          BY <2>2, <4>2
        <5>2. Baskets[c] = BasketOf(carts[c])
          BY <2>2, <5>1 DEF Baskets, BasketsOf
        <5> QED
          BY <2>2, <3>3, <5>1, <5>2
      <4> QED
        BY <4>1, <4>2
    <3>7. Append(Baskets, new) = [c \in 1 .. Len(carts) + 1 |-> Append(Baskets, new)[c]]
      <4>1. Append(Baskets, new) \in [1 .. Len(carts) + 1 -> Some]
        BY <3>3, LenProperties
      <4> QED
        BY <4>1
    <3> QED
      BY <3>5, <3>6, <3>7
  <2>4. B!Open
    BY <2>3 DEF B!Open, Baskets, BasketsOf, BasketOf, new
  <2> QED
    BY <2>4 DEF B!Next
<1> QED
  BY <1>2, <1>3, <1>4

\* Every operation of openCart.cgi changes one product in one basket.
LEMMA ShopIsChange ==
  ASSUME BasketInv, BasketInv', NEW r \in Requests, Shop(r)
  PROVE  B!Next \/ UNCHANGED Baskets
<1> DEFINE lines == cart[r].lines
<1>1. lines \in Contents /\ NoOptions \in Opts
  BY DEF BasketInv, CartTypeOK, CartObj, Contents, Opts
<1>2. ASSUME NEW op, Asks(r, op)
      PROVE  pc[r] \in Programs /\ cart[r].id # 0
  BY <1>2 DEF Asks, Programs
<1>3. PICK p \in Products :
        \/ \E count \in AddCounts, opts \in Opts, stock \in Stocks :
             \/ AlwaysAddProduct(r, p, count, opts, stock)
             \/ AddProduct(r, p, count, NoOptions, stock)
        \/ \E count \in NewCounts, node \in Nodes :
             UpdateProduct(r, p, count, NoOptions, node)
        \/ RemoveProduct(r, p)
  BY DEF Shop, Opts
<1>4. ASSUME NEW count \in AddCounts, NEW opts \in Opts, NEW stock \in Stocks,
             AlwaysAddProduct(r, p, count, opts, stock)
      PROVE  B!Next \/ UNCHANGED Baskets
  <2> DEFINE new == AlwaysAddLine(lines, p, count, opts, stock)
  <2>1. count \in Int /\ stock \in Int
    BY CartAssumption
  <2>2. new \in Contents /\ DifferIn(p, lines, new)
    BY <1>1, <2>1, AlwaysAddType, AlwaysAddDiffers
  <2>3. /\ Save(r, new, cart[r].checkedOut)
        /\ pc[r] \in Programs
        /\ cart[r].id # 0
    BY <1>2, <1>4 DEF AlwaysAddProduct
  <2> HIDE DEF new
  <2> QED
    BY <2>2, <2>3, SaveIsChange
<1>5. ASSUME NEW count \in AddCounts, NEW stock \in Stocks,
             AddProduct(r, p, count, NoOptions, stock)
      PROVE  B!Next \/ UNCHANGED Baskets
  <2> DEFINE new == AddLine(lines, p, count, NoOptions, stock)
  <2>1. count \in Int /\ stock \in Int
    BY CartAssumption
  <2>2. new \in Contents /\ DifferIn(p, lines, new)
    BY <1>1, <2>1, AddType, AddDiffers
  <2>3. /\ Save(r, new, cart[r].checkedOut)
        /\ pc[r] \in Programs
        /\ cart[r].id # 0
    BY <1>2, <1>5 DEF AddProduct
  <2> HIDE DEF new
  <2> QED
    BY <2>2, <2>3, SaveIsChange
<1>6. ASSUME NEW count \in NewCounts, NEW node \in Nodes,
             UpdateProduct(r, p, count, NoOptions, node)
      PROVE  B!Next \/ UNCHANGED Baskets
  <2> DEFINE outcomes == UpdateOutcomes(lines, p, count, NoOptions, node)
  <2>1. count \in Int /\ node \in Int
    BY CartAssumption
  <2>2. outcomes \subseteq Contents
    BY <1>1, <2>1, UpdateType
  <2>3. \A new \in outcomes : \E q \in Products : DifferIn(q, lines, new)
    BY <1>1, <2>1, UpdateDiffers
  <2>4. /\ \/ \E new \in outcomes : Save(r, new, cart[r].checkedOut)
           \/ UNCHANGED << carts, cart >>
        /\ pc[r] \in Programs
        /\ cart[r].id # 0
    BY <1>2, <1>6 DEF UpdateProduct
  <2> HIDE DEF outcomes
  <2>5. CASE UNCHANGED << carts, cart >>
    BY <2>5 DEF Baskets
  <2>6. ASSUME NEW new \in outcomes, Save(r, new, cart[r].checkedOut)
        PROVE  B!Next \/ UNCHANGED Baskets
    <3>1. PICK q \in Products : DifferIn(q, lines, new)
      BY <2>3
    <3> QED
      BY <2>2, <2>4, <2>6, <3>1, SaveIsChange
  <2> QED
    BY <2>4, <2>5, <2>6
<1>7. CASE RemoveProduct(r, p)
  <2> DEFINE new == RemovePiece(lines, p)
  <2>1. new \in Contents /\ DifferIn(p, lines, new)
    BY <1>1, RemovePieceType, RemovePieceDiffers
  <2>2. /\ Save(r, new, cart[r].checkedOut)
        /\ pc[r] \in Programs
        /\ cart[r].id # 0
    BY <1>2, <1>7 DEF RemoveProduct
  <2> HIDE DEF new
  <2> QED
    BY <2>1, <2>2, SaveIsChange
<1> QED
  BY <1>3, <1>4, <1>5, <1>6, <1>7

(***************************************************************************)
(* One request at a time, the store implements Basket: although every      *)
(* operation writes the whole row, it changes the pieces of one product of *)
(* one cart, and checking out closes the cart as it is, for good; also     *)
(* with failing statements, negative counts, and updates of lines that are *)
(* not there any more.                                                     *)
(***************************************************************************)
THEOREM CartsAreBaskets ==
  ASSUME \A r, q \in Requests : r = q
  PROVE  CartSpec => BasketSpec
<1>1. CartInit => BasketInv /\ B!Init
  <2>1. CartInit => ObjectIsRow
    BY DEF CartInit, ObjectIsRow, NoCart
  <2>2. CartInit => Baskets = << >>
    BY DEF CartInit, Baskets, BasketsOf
  <2>3. CartInit => B!Init
    BY <2>2 DEF B!Init, Baskets, BasketsOf, BasketOf
  <2> QED
    BY <2>1, <2>3, CartInitType DEF BasketInv
<1>2. BasketInv /\ [CartNext]_cartVars => BasketInv'
  BY CartStepType, ObjectIsRowStep DEF BasketInv
<1>3. BasketInv /\ BasketInv' /\ [CartNext]_cartVars => [B!Next]_Baskets
  <2> SUFFICES ASSUME BasketInv, BasketInv', [CartNext]_cartVars
               PROVE  B!Next \/ UNCHANGED Baskets
    OBVIOUS
  <2>1. CASE UNCHANGED << carts >>
    BY <2>1 DEF Baskets
  <2> QED
    BY <2>1, ConstructIsOpen, ShopIsChange, CheckOutIsClose
    DEF CartNext, cartVars, ShowPage, Reply, Die, Idle
<1>4. CartSpec => B!Init /\ [][B!Next]_Baskets
  BY <1>1, <1>2, <1>3, PTL DEF CartSpec
<1> QED
  BY <1>4, PTL DEF BasketSpec, B!Spec, Baskets, BasketsOf, BasketOf
=============================================================================
