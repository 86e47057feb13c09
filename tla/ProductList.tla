----------------------------- MODULE ProductList -----------------------------
(***************************************************************************)
(* The list of the products (CommonDocumentsService.list_products), read   *)
(* from the documents in pages by offset while documents come and go.      *)
(* Products are numbers in the order of their names; the page size is that *)
(* of the range asked for, which the database is taken to grant.           *)
(***************************************************************************)
EXTENDS Naturals, FiniteSets, FiniteSetsExt

CONSTANTS
  Products,     \* positive numbers
  RangeSize,    \* rows of a page: 1000 in the code
  MaxRows       \* bound: documents of a product

ASSUME ProductListAssumption ==
  Products \subseteq Nat \ {0} /\ IsFiniteSet(Products) /\ RangeSize \in Nat \ {0} /\ MaxRows \in Nat

VARIABLES
  rows,     \* the table: documents per product
  listing,  \* [stage, offset, seen]
  steady    \* history: products with documents since the listing began, and
            \* no document removed from the table since then

listVars == <<rows, listing, steady>>

ListTypeOK ==
  /\ rows \in [Products -> 0..MaxRows]
  /\ listing.stage \in {"idle", "reading", "listed", "failed"}
  /\ listing.offset \in Nat /\ listing.seen \subseteq Products
  /\ steady \subseteq Products

ListInit ==
  /\ rows \in [Products -> 0..MaxRows]
  /\ listing = [stage |-> "idle", offset |-> 0, seen |-> {}]
  /\ steady = {}

Present == {p \in Products : rows[p] > 0}

AddDocument(p) ==
  /\ rows[p] < MaxRows
  /\ rows' = [rows EXCEPT ![p] = @ + 1]
  /\ UNCHANGED <<listing, steady>>

DeleteDocument(p) ==
  /\ rows[p] > 0
  /\ rows' = [rows EXCEPT ![p] = @ - 1]
  /\ steady' = {}
  /\ UNCHANGED listing

StartList ==
  /\ listing.stage # "reading"
  /\ listing' = [stage |-> "reading", offset |-> 0, seen |-> {}]
  /\ steady' = Present
  /\ UNCHANGED rows

(* Ordered by product, the documents of p follow those of smaller ones.    *)
RowsOf(products) == MapThenSumSet(LAMBDA p : rows[p], products)
FirstRow(p) == RowsOf({q \in Products : q < p})
ProductsAt(offset) ==
  {p \in Present : FirstRow(p) < offset + RangeSize /\ offset < FirstRow(p) + rows[p]}
RowsAfter(offset) == IF RowsOf(Products) > offset THEN RowsOf(Products) - offset ELSE 0

NextOffset_OffByOne(offset) == offset + RangeSize + 1
NextOffset(offset) == offset + RangeSize

(* A page that is not full is the last one.                                *)
ReadRange ==
  /\ listing.stage = "reading"
  /\ listing' = [seen   |-> listing.seen \union ProductsAt(listing.offset),
                 stage  |-> IF RowsAfter(listing.offset) < RangeSize THEN "listed" ELSE "reading",
                 offset |-> NextOffset(listing.offset)]
  /\ UNCHANGED <<rows, steady>>

ReadFails ==
  /\ listing.stage = "reading"
  /\ listing' = [listing EXCEPT !.stage = "failed"]
  /\ UNCHANGED <<rows, steady>>

ListNext ==
  \/ \E p \in Products : AddDocument(p) \/ DeleteDocument(p)
  \/ StartList \/ ReadRange \/ ReadFails

ListSpec == ListInit /\ [][ListNext]_listVars

-----------------------------------------------------------------------------
(* However documents are added between the pages, a product that had one   *)
(* when the listing began is listed, unless documents were removed         *)
(* meanwhile: then rows may slip through between two pages.                *)
SteadyAreListed == listing.stage = "listed" => steady \subseteq listing.seen

=============================================================================
