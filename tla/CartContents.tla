---------------------------- MODULE CartContents ----------------------------
(***************************************************************************)
(* What the operations of uiShoppingCart do to the contents of a cart.     *)
(*                                                                         *)
(* The column ShoppingCart.XML is a flat list of <product/> elements.  The *)
(* xmlParser reads it into a vector of nodes and emit() writes the vector  *)
(* back in the same order, so a cart is a sequence of lines here: product  *)
(* id, count and the customer's options.  The free text of a line (the     *)
(* node's data) is left out: it travels with the options.                  *)
(*                                                                         *)
(* Counts are the results of atol(): any integer, also zero and negative.  *)
(***************************************************************************)
EXTENDS Integers, Sequences, FiniteSets, SequencesExt

CONSTANTS
  Products,   \* ids of products
  Options,    \* customizations a customer may ask for
  NoOptions   \* the empty options string

Line == [id : Products, count : Int, options : Options \cup {NoOptions}]

LinesOf(lines, p) == {i \in DOMAIN lines : lines[i].id = p}

(***************************************************************************)
(* Where findFirstNodeByAttribute stops (n = 1), and where the calls of    *)
(* findNextNodeByAttribute after it do (n = 2, ...): the position of the   *)
(* n-th line of the product, in a set that is empty if there is none.      *)
(***************************************************************************)
NthLine(lines, p, n) ==
  LET found == LinesOf(lines, p)
  IN  {i \in found : Cardinality({j \in found : j <= i}) = n}

HasLine(lines, p)   == NthLine(lines, p, 1) # {}
FirstLine(lines, p) == CHOOSE i \in NthLine(lines, p, 1) : TRUE

\* The customer gets what is asked for, and no more than there is in stock.
AtMost(count, stock) == IF count < stock THEN count ELSE stock

\* An empty options argument keeps the options a line already has.
Customize(line, opts) ==
  IF opts = NoOptions THEN line ELSE [line EXCEPT !.options = opts]

(***************************************************************************)
(* AlwaysAddProduct: a line of its own, even if the product is there; no   *)
(* line when nothing can be given.                                         *)
(***************************************************************************)
AlwaysAddLine(lines, p, count, opts, stock) ==
  LET iCan == AtMost(count, stock)
  IN  IF iCan > 0
        THEN Append(lines, [id |-> p, count |-> iCan, options |-> opts])
        ELSE lines

\* Mutant of AddLine: does not look for the product.
AddLine_NoLookup(lines, p, count, opts, stock) ==
  AlwaysAddLine(lines, p, count, opts, stock)

(***************************************************************************)
(* AddProduct: the first line of the product absorbs the count, limited by *)
(* the stock; a product that is not there yet is added.                    *)
(***************************************************************************)
AddLine(lines, p, count, opts, stock) ==
  LET i    == FirstLine(lines, p)
      more == [lines[i] EXCEPT !.count = AtMost(@ + count, stock)]
  IN  IF HasLine(lines, p)
        THEN [lines EXCEPT ![i] = Customize(more, opts)]
        ELSE AlwaysAddLine(lines, p, count, opts, stock)

\* Mutant of RemovePiece: compares with 0 where the code compares with 1.
RemovePiece_LeavesNone(lines, p) ==
  IF HasLine(lines, p)
    THEN [lines EXCEPT ![FirstLine(lines, p)].count = @ - 1]
    ELSE lines

(***************************************************************************)
(* RemoveProduct: one piece less on the first line, and no line at all     *)
(* when one piece was left.                                                *)
(***************************************************************************)
RemovePiece(lines, p) ==
  LET i == FirstLine(lines, p)
  IN  CASE ~HasLine(lines, p) -> lines
        [] HasLine(lines, p) /\ lines[i].count > 1 ->
             [lines EXCEPT ![i].count = @ - 1]
        [] OTHER -> RemoveAt(lines, i)

(***************************************************************************)
(* UpdateProduct on the node-th line of the product, counted from 0 (every *)
(* node that is not positive means line 0): set the count, whatever it is, *)
(* and drop the line when it is 0.  The set of the contents the code may   *)
(* produce:                                                                *)
(*   - one outcome when the line exists;                                   *)
(*   - none when the product is not in the cart (nothing is written);      *)
(*   - when the product is there but has too few lines, xIt and xIt2 are   *)
(*     the same iterator of the parser, and it has reached end().  Erasing *)
(*     end() or writing through it is undefined: the builds at hand lose   *)
(*     the last line, write outside of the list (which leaves the lines as *)
(*     they are), or die, which is the request's own Die action.           *)
(***************************************************************************)
UpdateOutcomes(lines, p, count, opts, node) ==
  LET nth == NthLine(lines, p, IF node > 0 THEN node + 1 ELSE 1)
      new(i) == Customize([lines[i] EXCEPT !.count = count], opts)
  IN  CASE LinesOf(lines, p) = {} -> {}
        [] nth # {} /\ count = 0  -> {RemoveAt(lines, i) : i \in nth}
        [] nth # {} /\ count # 0  -> {[lines EXCEPT ![i] = new(i)] : i \in nth}
        [] OTHER -> {lines} \cup (IF count = 0 THEN {Front(lines)} ELSE {})

\* The sum of a sequence of integers.
Total(s) ==
  LET sum[n \in 0 .. Len(s)] == IF n = 0 THEN 0 ELSE sum[n - 1] + s[n]
  IN  sum[Len(s)]

\* The pieces of a product that are in a cart.
PiecesOf(lines, p) ==
  Total([i \in DOMAIN lines |-> IF lines[i].id = p THEN lines[i].count ELSE 0])
=============================================================================
