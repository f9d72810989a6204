----------------------------- MODULE Favourites -----------------------------
(***************************************************************************)
(* The Favourites screen: a collection view over the Realm table of        *)
(* FavouriteProduct.  A cell keeps the object it was filled with, and its  *)
(* closure the position at which it was filled; taking a favourite away    *)
(* removes a cell of the view first and the object of the table after.     *)
(*                                                                         *)
(* UIKit compares, when a cell is deleted, the number of cells with what   *)
(* the data source answers, and may end the process; both outcomes are in  *)
(* the model, as UIKit's source is not.                                    *)
(***************************************************************************)
EXTENDS RealmTable, FiniteSets, SequencesExt

CONSTANT
    Item        \* FavouriteProduct objects, one for each tap on a heart

VARIABLES
    table,      \* Realm: the FavouriteProduct table (durable)
    screen,     \* "hidden" or "shown"
    cells,      \* what each cell keeps: its product and its captured index
    trap,       \* why the process has ended: "none", "count", "index", "object"
    liked,      \* history: favourites ever added
    unliked,    \* history: favourites taken away
    shifted     \* history: a cell has been deleted since the last reload

vars == <<table, screen, cells, trap, liked, unliked, shifted>>

Init ==
    /\ table = <<>>
    /\ screen = "hidden"
    /\ cells = <<>>
    /\ trap = "none"
    /\ liked = {}
    /\ unliked = {}
    /\ shifted = FALSE

Ready == screen = "shown" /\ trap = "none"

\* likeTapped of a card, addFavouriteTapped of the details
Like(x) ==
    /\ screen = "hidden" /\ trap = "none"
    /\ x \notin liked
    /\ table' = Append(table, x)
    /\ liked' = liked \cup {x}
    /\ UNCHANGED <<screen, cells, trap, unliked, shifted>>

\* cellForItemAt: the object at index i, and i itself for the closure
\* Mutant: it counts from one.
CellForNext(i) == [product |-> table[i], index |-> i + 1]

CellFor(i) == [product |-> table[i], index |-> i]

\* viewWillAppear: reloadData.
\* Mutant: the cells are as they were.
AppearNoReload ==
    /\ screen = "hidden" /\ trap = "none"
    /\ screen' = "shown"
    /\ cells' = cells \o [i \in 1 .. Len(table) - Len(cells) |->
                             CellFor(Len(cells) + i)]
    /\ shifted' = FALSE
    /\ UNCHANGED <<table, trap, liked, unliked>>

Appear ==
    /\ screen = "hidden" /\ trap = "none"
    /\ screen' = "shown"
    /\ cells' = [i \in DOMAIN table |-> CellFor(i)]
    /\ shifted' = FALSE
    /\ UNCHANGED <<table, trap, liked, unliked>>

Leave ==
    /\ Ready
    /\ screen' = "hidden"
    /\ UNCHANGED <<table, cells, trap, liked, unliked, shifted>>

\* A cell scrolls into view; the guard of cellForItemAt never fails here.
CellForItem(i) ==
    /\ Ready
    /\ cells' = [cells EXCEPT ![i] = CellFor(i)]
    /\ UNCHANGED <<table, screen, trap, liked, unliked, shifted>>

\* The process ends in a handler: nothing else happens in it.
Ends(reason) ==
    /\ trap' = reason
    /\ UNCHANGED <<table, screen, cells, liked, unliked, shifted>>

(***************************************************************************)
(* deleteFromFavourite of the cell at position i: the closure deletes the  *)
(* cell at its captured index, then Realm deletes the cell's product.      *)
(***************************************************************************)
Gone(x) == \A k \in DOMAIN table : table[k] # x

\* deleteItems(at: [indexPath]) of an item the view does not have
UnlikeNoItem(i) ==
    /\ Ready
    /\ cells[i].index \notin DOMAIN cells
    /\ Ends("index")

\* deleteItems finds as many objects as before
UnlikeCounted(i) ==
    /\ Ready
    /\ cells[i].index \in DOMAIN cells
    /\ Ends("count")

\* realm.delete of an object that has been deleted
UnlikeDeleted(i) ==
    /\ Ready
    /\ cells[i].index \in DOMAIN cells
    /\ Gone(cells[i].product)
    /\ Ends("object")

\* Mutant: the object at the cell's position is deleted.
UnlikeByPosition(i) ==
    /\ Ready
    /\ cells[i].index \in DOMAIN cells
    /\ ~Gone(cells[i].product)
    /\ cells' = RemoveAt(cells, cells[i].index)
    /\ table' = MoveLastOver(table, i)
    /\ unliked' = unliked \cup {cells[i].product}
    /\ shifted' = TRUE
    /\ UNCHANGED <<screen, trap, liked>>

Unlike(i) ==
    /\ Ready
    /\ cells[i].index \in DOMAIN cells
    /\ ~Gone(cells[i].product)
    /\ cells' = RemoveAt(cells, cells[i].index)
    /\ table' = Erase(table, cells[i].product)
    /\ unliked' = unliked \cup {cells[i].product}
    /\ shifted' = TRUE
    /\ UNCHANGED <<screen, trap, liked>>

\* addOrderTapped copies the cell's product into the basket (see Checkout),
\* which fails for an object that has been deleted.
OrderDeleted(i) ==
    /\ Ready
    /\ Gone(cells[i].product)
    /\ Ends("object")

\* The process starts anew, after a trap or any other end.
Relaunch ==
    /\ screen' = "hidden"
    /\ cells' = <<>>
    /\ trap' = "none"
    /\ shifted' = FALSE
    /\ UNCHANGED <<table, liked, unliked>>

Next ==
    \/ \E x \in Item : Like(x)
    \/ Appear \/ Leave \/ Relaunch
    \/ \E i \in DOMAIN cells :
          \/ CellForItem(i) \/ OrderDeleted(i)
          \/ Unlike(i) \/ UnlikeNoItem(i) \/ UnlikeCounted(i) \/ UnlikeDeleted(i)

Spec == Init /\ [][Next]_vars

-----------------------------------------------------------------------------
\* a cell; there were never more rows than favourites
Cell == [product : Item, index : 1 .. Cardinality(liked)]

TypeOK ==
    /\ table \in Seq(Item)
    /\ screen \in {"hidden", "shown"}
    /\ cells \in Seq(Cell)
    /\ trap \in {"none", "count", "index", "object"}
    /\ liked \subseteq Item
    /\ unliked \subseteq liked
    /\ shifted \in BOOLEAN

\* Taking a favourite away takes away this one and no other, whatever cells
\* have gone before it and wherever its captured index points now.
OnlyUnlikedGo ==
    /\ ToSet(table) = liked \ unliked
    /\ Len(table) = Cardinality(ToSet(table))

\* while the screen is shown there are as many cells as favourites: the next
\* deletion, or a cell that scrolls into view, finds its index in the table
CellsMatchTable == screen = "shown" => Len(cells) = Len(table)

\* after a reload, the first favourite can be taken away, and any put into the
\* basket, without an index or an object that is gone
FirstUnlikeSafe == trap \in {"index", "object"} => shifted

\* The collection view and the table are changed one after the other, and cells
\* keep the index they were made with: the two agree in number, and the process
\* ends for an index or an object that is gone only once cells have moved up
\* after a deletion (deleteItems, realm.delete).
CellsAgree == CellsMatchTable /\ FirstUnlikeSafe
=============================================================================
