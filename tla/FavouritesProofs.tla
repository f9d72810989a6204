-------------------------- MODULE FavouritesProofs --------------------------
(***************************************************************************)
(* Proofs about Favourites, for any number of favourites, taps and ends of *)
(* the process.                                                            *)
(***************************************************************************)
EXTENDS Favourites, TableProofs

(***************************************************************************)
(* The invariant.  A table never holds an object twice, which Erase needs. *)
(* Until a cell has been deleted each cell holds the object and the index  *)
(* of its position, so that neither can be gone.                           *)
(***************************************************************************)
CellsAreFresh ==
    screen = "shown" /\ ~shifted => \A i \in DOMAIN cells : cells[i] = CellFor(i)

Inv ==
    /\ TypeOK
    /\ IsFiniteSet(liked)
    /\ IsInjective(table)
    /\ ToSet(table) = liked \ unliked
    /\ CellsAgree
    /\ CellsAreFresh

\* What the invariant says about the two sequences.
LEMMA InvFacts ==
  ASSUME Inv
  PROVE  /\ table \in Seq(Item) /\ Len(table) \in Nat
         /\ DOMAIN table = 1 .. Len(table)
         /\ Cardinality(liked) \in Nat /\ Len(table) <= Cardinality(liked)
         /\ cells \in Seq(Cell) /\ Len(cells) \in Nat
         /\ DOMAIN cells = 1 .. Len(cells)
  <1>1. table \in Seq(Item) /\ cells \in Seq(Cell)
    BY DEF Inv, TypeOK
  <1>2. Cardinality(ToSet(table)) = Len(table)
    BY <1>1, InjectiveLen DEF Inv
  <1>3. ToSet(table) \in SUBSET liked /\ IsFiniteSet(liked)
    BY DEF Inv
  <1>4. Cardinality(liked) \in Nat /\ Cardinality(ToSet(table)) <= Cardinality(liked)
    BY <1>3, FS_Subset, FS_CardinalityType
  <1> QED BY <1>1, <1>2, <1>4, LenProperties

\* A cell filled from the table has the type of a cell.
LEMMA CellForType ==
  ASSUME Inv, NEW i \in DOMAIN table
  PROVE  CellFor(i) \in Cell
  <1>1. table[i] \in Item /\ i \in 1 .. Cardinality(liked)
    BY InvFacts, ElementOfSeq
  <1> QED BY <1>1 DEF CellFor, Cell

LEMMA LikeInv ==
  ASSUME Inv, NEW x \in Item, Like(x) PROVE Inv'
  <1>1. /\ table' \in Seq(Item)
        /\ ToSet(table') = ToSet(table) \cup {x}
        /\ x \notin ToSet(table) => IsInjective(table')
    BY AppendFacts DEF Inv, TypeOK, Like
  <1>2. ToSet(table) = liked \ unliked /\ unliked \subseteq liked
    BY DEF Inv, TypeOK
  <1>3. IsInjective(table') /\ ToSet(table') = liked' \ unliked'
    BY <1>1, <1>2 DEF Like
  <1>4. IsFiniteSet(liked') /\ Cardinality(liked') = Cardinality(liked) + 1
    BY FS_AddElement DEF Inv, Like
  <1>5. cells' \in Seq(Cell')
    <2>1. Cell \subseteq Cell'
      BY <1>4, InvFacts DEF Cell
    <2> QED BY <2>1, SeqMonotonic, InvFacts DEF Like
  <1>6. TypeOK'
    BY <1>1, <1>5 DEF Inv, TypeOK, Like
  <1>7. CellsAgree' /\ CellsAreFresh'
    BY DEF Inv, Like, CellsAgree, CellsMatchTable, FirstUnlikeSafe, CellsAreFresh
  <1> QED BY <1>3, <1>4, <1>6, <1>7 DEF Inv

LEMMA AppearInv ==
  ASSUME Inv, Appear PROVE Inv'
  <1>1. cells' = [i \in 1 .. Len(table) |-> CellFor(i)]
    BY InvFacts DEF Appear
  <1>2. \A i \in 1 .. Len(table) : CellFor(i) \in Cell
    BY InvFacts, CellForType
  <1>3. cells' \in [1 .. Len(table) -> Cell]
    BY <1>1, <1>2
  <1>4. cells' \in Seq(Cell) /\ Len(cells') = Len(table)
    BY <1>3, InvFacts, SeqDef
  <1>5. TypeOK'
    BY <1>4 DEF Inv, TypeOK, Appear, Cell
  <1>6. CellsAgree' /\ CellsAreFresh'
    BY <1>1, <1>4 DEF Inv, Appear, CellsAgree, CellsMatchTable, FirstUnlikeSafe,
       CellsAreFresh, CellFor
  <1> QED BY <1>5, <1>6 DEF Inv, Appear

LEMMA CellForItemInv ==
  ASSUME Inv, NEW i \in DOMAIN cells, CellForItem(i) PROVE Inv'
  <1>1. i \in DOMAIN table
    BY InvFacts DEF Inv, CellsAgree, CellsMatchTable, CellForItem, Ready
  <1>2. CellFor(i) \in Cell
    BY <1>1, CellForType
  <1>3. /\ cells' \in Seq(Cell) /\ Len(cells') = Len(cells)
        /\ \A j \in 1 .. Len(cells) : cells'[j] = IF j = i THEN CellFor(i) ELSE cells[j]
        /\ DOMAIN cells' = DOMAIN cells
    BY <1>2, InvFacts, ExceptSeq DEF CellForItem
  <1>4. TypeOK'
    BY <1>3 DEF Inv, TypeOK, CellForItem, Cell
  <1>5. CellsAgree'
    BY <1>3 DEF Inv, CellsAgree, CellsMatchTable, FirstUnlikeSafe, CellForItem
  <1>6. CellsAreFresh'
    BY <1>3, InvFacts DEF Inv, CellsAreFresh, CellForItem, CellFor
  <1> QED BY <1>4, <1>5, <1>6 DEF Inv, CellForItem

LEMMA UnlikeInv ==
  ASSUME Inv, NEW i \in DOMAIN cells, Unlike(i) PROVE Inv'
  <1> DEFINE x == cells[i].product
  <1>1. x \in ToSet(table)
    BY DEF Unlike, Gone, ToSet
  <1>2. /\ table' \in Seq(Item)
        /\ Len(table') = Len(table) - 1
        /\ IsInjective(table')
        /\ ToSet(table') = ToSet(table) \ {x}
    BY <1>1, EraseFacts DEF Inv, TypeOK, Unlike
  <1>3. cells' \in Seq(Cell) /\ Len(cells') = Len(cells) - 1
    BY InvFacts, RemoveAtFacts DEF Unlike
  <1>4. TypeOK' /\ ToSet(table') = liked' \ unliked'
    BY <1>1, <1>2, <1>3 DEF Inv, TypeOK, Unlike, Cell
  <1>5. CellsAgree'
    BY <1>2, <1>3 DEF Inv, CellsAgree, CellsMatchTable, FirstUnlikeSafe, Unlike
  <1>6. CellsAreFresh'
    BY DEF CellsAreFresh, Unlike
  <1> QED BY <1>2, <1>4, <1>5, <1>6 DEF Inv, Unlike

\* A handler ends the process: for a count at any time, for an index or an
\* object only after a deletion.
LEMMA EndsInv ==
  ASSUME Inv, NEW i \in DOMAIN cells,
         \/ UnlikeNoItem(i) \/ UnlikeCounted(i) \/ UnlikeDeleted(i) \/ OrderDeleted(i)
  PROVE  Inv'
  <1>1. /\ screen = "shown"
        /\ trap' \in {"count", "index", "object"}
        /\ UNCHANGED <<table, screen, cells, liked, unliked, shifted>>
    BY DEF UnlikeNoItem, UnlikeCounted, UnlikeDeleted, OrderDeleted, Ends, Ready
  <1>2. ~shifted => cells[i].index = i /\ cells[i].product = table[i]
    BY <1>1 DEF Inv, CellsAreFresh, CellFor
  <1>3. i \in DOMAIN table
    BY <1>1, InvFacts DEF Inv, CellsAgree, CellsMatchTable
  <1>4. trap' # "count" => shifted
    BY <1>2, <1>3 DEF UnlikeNoItem, UnlikeCounted, UnlikeDeleted, OrderDeleted,
       Ends, Gone
  <1>5. TypeOK'
    BY <1>1 DEF Inv, TypeOK, Cell
  <1>6. CellsAgree' /\ CellsAreFresh'
    BY <1>1, <1>4 DEF Inv, CellsAgree, CellsMatchTable, FirstUnlikeSafe,
       CellsAreFresh, CellFor
  <1> QED BY <1>1, <1>5, <1>6 DEF Inv

LEMMA OtherInv ==
  ASSUME Inv, Leave \/ Relaunch \/ UNCHANGED vars PROVE Inv'
  <1>1. UNCHANGED <<table, liked, unliked>>
    BY DEF Leave, Relaunch, vars
  <1>2. TypeOK'
    <2>1. <<>> \in Seq(Cell)
      BY EmptySeq
    <2> QED BY <2>1 DEF Inv, TypeOK, Leave, Relaunch, vars, Cell
  <1>3. CellsAgree' /\ CellsAreFresh'
    BY DEF Inv, CellsAgree, CellsMatchTable, FirstUnlikeSafe, CellsAreFresh,
       CellFor, Leave, Relaunch, vars
  <1> QED BY <1>1, <1>2, <1>3 DEF Inv

\* The inductive invariant holds in every behaviour.
THEOREM FavouritesInvariant == Spec => []Inv
  <1>1. Init => Inv
    <2> SUFFICES ASSUME Init PROVE Inv
      OBVIOUS
    <2>1. table = <<>> /\ cells = <<>> /\ DOMAIN <<>> = {} /\ liked = {}
      BY DEF Init
    <2>2. ToSet(table) = {} /\ IsInjective(table)
      BY <2>1 DEF ToSet, IsInjective
    <2>3. TypeOK
      BY <2>1, EmptySeq DEF Init, TypeOK
    <2> QED BY <2>1, <2>2, <2>3, FS_EmptySet
            DEF Init, Inv, CellsAgree, CellsMatchTable, FirstUnlikeSafe, CellsAreFresh
  <1>2. Inv /\ [Next]_vars => Inv'
    BY LikeInv, AppearInv, CellForItemInv, UnlikeInv, EndsInv, OtherInv DEF Next
  <1> QED BY <1>1, <1>2, PTL DEF Spec

\* Each variable keeps its type, and a captured index never exceeds the number
\* of favourites there have been.
THEOREM FavouritesTypeCorrect == Spec => []TypeOK
  <1>1. Inv => TypeOK
    BY DEF Inv
  <1> QED BY <1>1, FavouritesInvariant, PTL

\* A tap on a heart takes away this favourite and no other, whatever cells have
\* gone before it (deleteFromFavourite, move_last_over).
THEOREM FavouritesSafe == Spec => []OnlyUnlikedGo
  <1>1. Inv => OnlyUnlikedGo
    BY InjectiveLen DEF Inv, TypeOK, OnlyUnlikedGo
  <1> QED BY <1>1, FavouritesInvariant, PTL

\* There are as many cells as favourites, and no index or object is gone before
\* the first deletion after a reload.
THEOREM CellsSafe == Spec => []CellsAgree
  <1>1. Inv => CellsAgree
    BY DEF Inv
  <1> QED BY <1>1, FavouritesInvariant, PTL
=============================================================================
