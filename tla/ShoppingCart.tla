---------------------------- MODULE ShoppingCart ----------------------------
(***************************************************************************)
(* The shopping cart: uiShoppingCart and the CGI programs that create one. *)
(*                                                                         *)
(* Every HTTP request is a process of its own.  Its uiShoppingCart object  *)
(* reads the row of the cart once, when it is constructed, works on that   *)
(* copy, and writes the copy back whole: chMap names XML and Checked_Out,  *)
(* so every update sets both.  The table is MyISAM: no transaction and no  *)
(* lock spans two statements, and requests of the same browser (the cart   *)
(* is an iframe beside the page) overlap.                                  *)
(*                                                                         *)
(* One step of a request is one SQL statement with the code around it.     *)
(* The get_data() with which db_action("u") re-reads the row after its     *)
(* update belongs to that step: nothing but the page shows what it read.   *)
(* Last_Access, set by every update and read by nothing here, is left out. *)
(***************************************************************************)
EXTENDS CartContents

CONSTANTS
  Browsers,     \* the customers' browsers, each with its cookie jar
  Requests,     \* requests that may be under way at a time
  MaxCarts,     \* bound: rows of the table ShoppingCart, no insert beyond it
  MaxLines,     \* bound: lines of a cart
  AddCounts,    \* counts an add asks for
  NewCounts,    \* counts an update sets
  Nodes,        \* values of the argument prodSeq
  Stocks,       \* values of the stock limit
  Operations,   \* the operations of the openCart.cgi at hand
  Faults        \* statements that may fail: a subset of {"insert", "update"}

ASSUME CartAssumption ==
  /\ Browsers # {}
  /\ MaxCarts \in Nat
  /\ MaxLines \in Nat
  /\ AddCounts \subseteq Int
  /\ NewCounts \subseteq Int
  /\ Nodes \subseteq Int
  /\ Stocks \subseteq Int

VARIABLES
  carts,      \* the table ShoppingCart; the Id (auto_increment) is the index
  crtid,      \* crtid[b]: the cookie of browser b
  links,      \* links[b]: ids in the "?crtid=" links of the pages b has seen
  pc,         \* pc[r]: the program that serves r, or the page it has written
  who,        \* who[r]: the browser that sent r
  cart,       \* cart[r]: the uiShoppingCart object of r
  setCookie   \* setCookie[r]: the last Set-Cookie of crtid in r's response

cartVars == << carts, crtid, links, pc, who, cart, setCookie >>

Row     == [lines : Seq(Line), checkedOut : BOOLEAN]
CartObj == [id : Nat, lines : Seq(Line), checkedOut : BOOLEAN]

Programs == {"openCart", "checkOut"}
Page     == [openCart |-> "cartPage", checkOut |-> "checkOutPage"]
Empty    == -1      \* the cookie or argument is missing, or the empty string
Keep     == -2      \* the response sets no cookie
CartRef  == Nat \cup {Empty}

AnyBrowser == CHOOSE b \in Browsers : TRUE     \* of a request that is idle

NoCart == [id |-> 0, lines |-> << >>, checkedOut |-> FALSE]

CartTypeOK ==
  /\ carts \in Seq(Row)
  /\ crtid \in [Browsers -> CartRef]
  /\ links \in [Browsers -> SUBSET Nat]
  /\ pc \in [Requests -> Programs \cup {"idle", "cartPage", "checkOutPage"}]
  /\ who \in [Requests -> Browsers]
  /\ cart \in [Requests -> CartObj]
  /\ setCookie \in [Requests -> CartRef \cup {Keep}]

CartInit ==
  /\ carts = << >>
  /\ crtid = [b \in Browsers |-> Empty]
  /\ links = [b \in Browsers |-> {}]
  /\ pc = [r \in Requests |-> "idle"]
  /\ who = [r \in Requests |-> AnyBrowser]
  /\ cart = [r \in Requests |-> NoCart]
  /\ setCookie = [r \in Requests |-> Keep]

-----------------------------------------------------------------------------
(* The constructor.                                                        *)

\* get_data(): the object as the row of this id makes it.
Stored(id) ==
  IF id \in DOMAIN carts
    THEN [id |-> id, lines |-> carts[id].lines,
          checkedOut |-> carts[id].checkedOut]
    ELSE NoCart

(***************************************************************************)
(* The cart a request is about.  The constructor prefers the cookie to the *)
(* crtid argument of the link; checkOut.cgi first copies the argument into *)
(* the cookies of the process (crtidFixup), so there the link wins.        *)
(***************************************************************************)
RequestedCart(prog, b, link) ==
  IF prog = "checkOut" /\ link # Empty THEN link
  ELSE IF crtid[b] # Empty THEN crtid[b] ELSE link

Begin(r, b, prog) ==
  /\ pc[r] = "idle"
  /\ pc' = [pc EXCEPT ![r] = prog]
  /\ who' = [who EXCEPT ![r] = b]
  /\ UNCHANGED << crtid, links >>

\* Mutant of NewCart: the key is the last one of the table before the insert.
NewCart_OldKey(r, b, prog) ==
  LET id == IF carts = << >> THEN 1 ELSE Len(carts)
  IN  /\ Begin(r, b, prog)
      /\ RequestedCart(prog, b, Empty) = Empty
      /\ Len(carts) < MaxCarts
      /\ carts' = Append(carts, [lines |-> << >>, checkedOut |-> FALSE])
      /\ cart' = [cart EXCEPT ![r] = [NoCart EXCEPT !.id = id]]
      /\ setCookie' = [setCookie EXCEPT ![r] = id]

\* No id anywhere: insert an empty cart and name it in the cookie.
NewCart(r, b, prog) ==
  /\ Begin(r, b, prog)
  /\ RequestedCart(prog, b, Empty) = Empty
  /\ Len(carts) < MaxCarts
  /\ carts' = Append(carts, [lines |-> << >>, checkedOut |-> FALSE])
  /\ cart' = [cart EXCEPT ![r] = [NoCart EXCEPT !.id = Len(carts')]]
  /\ setCookie' = [setCookie EXCEPT ![r] = Len(carts')]

\* The insert failed: the object stays without an id, and is of no use.
NoNewCart(r, b, prog) ==
  /\ "insert" \in Faults \/ Len(carts) = MaxCarts
  /\ Begin(r, b, prog)
  /\ RequestedCart(prog, b, Empty) = Empty
  /\ cart' = [cart EXCEPT ![r] = NoCart]
  /\ UNCHANGED << carts, setCookie >>

(***************************************************************************)
(* Read the row; there is none for the id 0, which a page without a cart   *)
(* puts into its link.  A cart that is checked out empties the cookie, for *)
(* the sake of the next request; this one goes on with the cart it read.   *)
(***************************************************************************)
LoadCart(r, b, prog, link) ==
  LET id == RequestedCart(prog, b, link)
  IN  /\ Begin(r, b, prog)
      /\ id # Empty
      /\ cart' = [cart EXCEPT ![r] = Stored(id)]
      /\ setCookie' = [setCookie EXCEPT ![r] =
           IF Stored(id).checkedOut THEN Empty
           ELSE IF prog = "checkOut" /\ link # Empty THEN link ELSE Keep]
      /\ UNCHANGED carts

-----------------------------------------------------------------------------
(* The operations.                                                         *)

Finish(r) ==
  /\ pc' = [pc EXCEPT ![r] = Page[pc[r]]]
  /\ UNCHANGED << crtid, links, who, setCookie >>

\* Mutant of Save: updates the newest row instead of the object's own.
Save_NewestRow(r, lines, checkedOut) ==
  /\ carts' = [carts EXCEPT ![Len(carts)] =
       [lines |-> lines, checkedOut |-> checkedOut]]
  /\ cart' = [cart EXCEPT ![r].lines = lines, ![r].checkedOut = checkedOut]

(***************************************************************************)
(* db_action("u", chMap): XML and Checked_Out of the object replace those  *)
(* of the row, whatever was written there since the row was read.          *)
(***************************************************************************)
Save(r, lines, checkedOut) ==
  LET id == cart[r].id
  IN  \/ /\ carts' = [carts EXCEPT ![id] =
              [lines |-> lines, checkedOut |-> checkedOut]]
         /\ cart' = [cart EXCEPT ![r] =
              [id |-> id, lines |-> lines, checkedOut |-> checkedOut]]
      \/ /\ "update" \in Faults
         /\ cart' = [cart EXCEPT ![r] = Stored(id)]
         /\ UNCHANGED carts

\* A request of openCart.cgi that asks for op and has a cart to do it on.
Asks(r, op) ==
  /\ pc[r] = "openCart"
  /\ op \in Operations
  /\ cart[r].id # 0

AlwaysAddProduct(r, p, count, opts, stock) ==
  /\ Asks(r, "always")
  /\ Len(cart[r].lines) < MaxLines
  /\ Save(r, AlwaysAddLine(cart[r].lines, p, count, opts, stock),
          cart[r].checkedOut)
  /\ Finish(r)

AddProduct(r, p, count, opts, stock) ==
  /\ Asks(r, "add")
  /\ LinesOf(cart[r].lines, p) = {} => Len(cart[r].lines) < MaxLines
  /\ Save(r, AddLine(cart[r].lines, p, count, opts, stock),
          cart[r].checkedOut)
  /\ Finish(r)

\* Nothing is written when the product is not in the cart.
UpdateProduct(r, p, count, opts, node) ==
  /\ Asks(r, "update")
  /\ LET outcomes == UpdateOutcomes(cart[r].lines, p, count, opts, node)
     IN  \/ \E lines \in outcomes : Save(r, lines, cart[r].checkedOut)
         \/ outcomes = {} /\ UNCHANGED << carts, cart >>
  /\ Finish(r)

RemoveProduct(r, p) ==
  /\ Asks(r, "remove")
  /\ Save(r, RemovePiece(cart[r].lines, p), cart[r].checkedOut)
  /\ Finish(r)

\* A request without an operation, or without a cart to do it on.
ShowPage(r) ==
  /\ pc[r] \in Programs
  /\ UNCHANGED << carts, cart >>
  /\ Finish(r)

\* Mutant of CheckOut: resets the contents as CancelOrder() does.
CheckOut_Cancels(r) ==
  /\ pc[r] = "checkOut"
  /\ cart[r].id # 0
  /\ Save(r, << >>, TRUE)
  /\ Finish(r)

\* CheckOut(): like every other update it writes the lines it has read.
CheckOut(r) ==
  /\ pc[r] = "checkOut"
  /\ cart[r].id # 0
  /\ Save(r, cart[r].lines, TRUE)
  /\ Finish(r)

-----------------------------------------------------------------------------
(* The response, or its loss.                                              *)

Idle(r) ==
  /\ pc' = [pc EXCEPT ![r] = "idle"]
  /\ cart' = [cart EXCEPT ![r] = NoCart]
  /\ setCookie' = [setCookie EXCEPT ![r] = Keep]
  /\ who' = [who EXCEPT ![r] = AnyBrowser]
  /\ UNCHANGED carts

\* Mutant of Reply: takes the cookie from every response, set or not.
Reply_EveryCookie(r) ==
  /\ pc[r] \in {"cartPage", "checkOutPage"}
  /\ crtid' = [crtid EXCEPT ![who[r]] = setCookie[r]]
  /\ UNCHANGED links
  /\ Idle(r)

(***************************************************************************)
(* The response reaches the browser: its cookie is stored, and a page of   *)
(* openCart.cgi has a link to check out the cart.                          *)
(***************************************************************************)
Reply(r) ==
  /\ pc[r] \in {"cartPage", "checkOutPage"}
  /\ crtid' = [crtid EXCEPT ![who[r]] =
       IF setCookie[r] = Keep THEN @ ELSE setCookie[r]]
  /\ links' = [links EXCEPT ![who[r]] =
       IF pc[r] = "cartPage" THEN @ \cup {cart[r].id} ELSE @]
  /\ Idle(r)

\* The process is killed, or the response never arrives.
Die(r) ==
  /\ pc[r] # "idle"
  /\ UNCHANGED << crtid, links >>
  /\ Idle(r)

-----------------------------------------------------------------------------
Construct(r) ==
  \E b \in Browsers, prog \in Programs :
    \/ NewCart(r, b, prog)
    \/ NoNewCart(r, b, prog)
    \/ \E link \in links[b] \cup {Empty} : LoadCart(r, b, prog, link)

Shop(r) ==
  \E p \in Products :
    \/ \E count \in AddCounts, opts \in Options \cup {NoOptions},
          stock \in Stocks :
         \/ AlwaysAddProduct(r, p, count, opts, stock)
         \/ AddProduct(r, p, count, NoOptions, stock)
    \/ \E count \in NewCounts, node \in Nodes :
         UpdateProduct(r, p, count, NoOptions, node)
    \/ RemoveProduct(r, p)

\* createOrderPanel and show: something is in the cart, and it is still open.
MayCheckOut(r) == cart[r].lines # << >> /\ ~cart[r].checkedOut

CartNext ==
  \E r \in Requests :
    \/ Construct(r)
    \/ Shop(r)
    \/ ShowPage(r)
    \/ MayCheckOut(r) /\ CheckOut(r)
    \/ Reply(r)
    \/ Die(r)

CartSpec == CartInit /\ [][CartNext]_cartVars
-----------------------------------------------------------------------------
(* Properties.                                                             *)

\* The carts a browser can get at: cookie, links, and requests under way.
Known(b) ==
  (({crtid[b]} \cup links[b] \cup
    UNION {{cart[r].id, setCookie[r]} : r \in
             {q \in Requests : pc[q] # "idle" /\ who[q] = b}})
   \ {0, Empty, Keep})

(***************************************************************************)
(* Two browsers never share a cart: the id that an insert returns reaches  *)
(* only the browser that caused the insert, by cookie or by link.          *)
(***************************************************************************)
CartsArePrivate ==
  \A b1, b2 \in Browsers : b1 # b2 => Known(b1) \cap Known(b2) = {}

(***************************************************************************)
(* The row of a cart that a browser has in its cookie changes only by a    *)
(* step of one of that browser's own requests, however requests overlap.   *)
(***************************************************************************)
OthersNeverTouchMyCart ==
  [][\A b \in Browsers :
       LET c == crtid[b]
       IN  (c \in DOMAIN carts /\ carts'[c] # carts[c]) =>
             \E r \in Requests : who[r] = b /\ pc[r] # "idle" /\ pc'[r] # pc[r]
    ]_cartVars

(***************************************************************************)
(* AddProduct keeps at most one line of a product in a cart, also when     *)
(* overlapping requests overwrite each other: in a store that only offers  *)
(* add, update and remove, RemoveProduct and UpdateProduct's default line  *)
(* therefore reach every piece.                                            *)
(***************************************************************************)
OneLinePerProduct ==
  \A c \in DOMAIN carts : \A p \in Products :
    Cardinality(LinesOf(carts[c].lines, p)) <= 1

(***************************************************************************)
(* No operation leaves a line of no pieces, or of a negative number, in a  *)
(* cart, when the arguments ask for at least one piece of something in     *)
(* stock (add) or for a count that is not negative (update).               *)
(***************************************************************************)
LinesHavePieces ==
  \A c \in DOMAIN carts : \A i \in DOMAIN carts[c].lines :
    carts[c].lines[i].count > 0

(***************************************************************************)
(* One request at a time, the read-modify-write of the whole row is as     *)
(* good as the operation done in place: the store implements Basket.       *)
(***************************************************************************)
Pieces(lines) == [p \in Products |-> PiecesOf(lines, p)]

B == INSTANCE Basket WITH
       baskets <- [c \in DOMAIN carts |->
                     [pieces |-> Pieces(carts[c].lines),
                      closed |-> carts[c].checkedOut]]

BasketSpec == B!Spec

(***************************************************************************)
(* "The cart persists, until at checkout, its spills it's guts ... It can  *)
(* then be considered Checked Out" (shoppingCart.hpp:65): a cart that is   *)
(* checked out stays so.  It does not: an update by a request that read    *)
(* the row before writes its stale Checked_Out.                            *)
(***************************************************************************)
CheckedOutIsFinal ==
  [][\A c \in DOMAIN carts : carts[c].checkedOut => carts'[c].checkedOut
    ]_cartVars
=============================================================================
