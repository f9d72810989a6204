-------------------------- MODULE ProductsManager --------------------------
(***************************************************************************)
(* The two laboratory programs of the repository: the console program      *)
(* (business-logic) and its graphical twin (gui-business-logic).  Both     *)
(* keep the products in a global array, show a second global array,        *)
(* filteredProducts, and work through a FilterService and a                *)
(* ProductsManager.  They differ in the guard of deleteProduct, in which   *)
(* list numbers the products, and in the filter by price, which only the   *)
(* console has.                                                            *)
(***************************************************************************)
EXTENDS Listing, FiniteSets

CONSTANT
    InitialProducts \* the literal array of ProductModel

\* Each element of the array is a product of its own.
ASSUME LabAssumption ==
    InitialProducts \in Seq(Product) /\ IsInjective(InitialProducts)

VARIABLES
    gui,                \* the program: gui-business-logic, or business-logic
    status,             \* "running", "ended" or "trapped"
    products            \* the global array of all products

labVars == <<gui, status, products, filteredProducts, filterService, choice>>

Running == status = "running"

NewLabService(list) == [products |-> list, filtered |-> list, last |-> "None"]

LabInit ==
    /\ gui \in BOOLEAN
    /\ status = "running"
    /\ products = InitialProducts
    /\ filteredProducts = InitialProducts
    /\ filterService = NewLabService(InitialProducts)
    /\ choice = All

(***************************************************************************)
(* FilterService.                                                          *)
(***************************************************************************)

\* What makeFilterByPrice(last) may leave of a list: "1" sorts upwards, "2"
\* downwards, any other input leaves the list and the last filter alone.
ByPrice(list, last) ==
    IF last \in {"1", "2"} THEN Sorted(list, last = "1") ELSE {list}

\* makeFilterByType applies the last price filter again.
\* Mutant: it does not.
makeFilterByTypeUnsorted(c) ==
    /\ Running
    /\ LET list == OfType(filterService.products, c)
       IN  /\ filterService' = [filterService EXCEPT !.filtered = list]
           /\ filteredProducts' = list
    /\ choice' = c
    /\ UNCHANGED <<gui, status, products>>

makeFilterByType(c) ==
    /\ Running
    /\ \E list \in ByPrice(OfType(filterService.products, c),
                           filterService.last) :
           /\ filterService' = [filterService EXCEPT !.filtered = list]
           /\ filteredProducts' = list
    /\ choice' = c
    /\ UNCHANGED <<gui, status, products>>

\* Mutant: any input is remembered as the last filter.
makeFilterByPriceAnyInput(input) ==
    /\ Running /\ ~gui
    /\ \E list \in ByPrice(filterService.filtered, input) :
           /\ filterService' = [filterService EXCEPT !.filtered = list,
                                                    !.last = input]
           /\ filteredProducts' = list
    /\ UNCHANGED <<gui, status, products, choice>>

makeFilterByPrice(input) ==
    /\ Running /\ ~gui
    /\ LET last == IF input \in {"1", "2"} THEN input ELSE filterService.last
       IN  \E list \in ByPrice(filterService.filtered, input) :
               /\ filterService' = [filterService EXCEPT !.filtered = list,
                                                        !.last = last]
               /\ filteredProducts' = list
    /\ UNCHANGED <<gui, status, products, choice>>

(***************************************************************************)
(* ProductsManager, and what both programs do after each call of it.       *)
(***************************************************************************)

ShowAll ==
    /\ filterService' = NewLabService(products')
    /\ filteredProducts' = products'
    /\ choice' = All

appendProduct(x) ==
    /\ Running
    /\ x \notin ToSet(products)
    /\ products' = Append(products, x)
    /\ ShowAll
    /\ UNCHANGED <<gui, status>>

\* The guard of deleteProduct(at: index), index counting from 0.
\* Mutant: one more index.
AcceptsOneMore(index) ==
    index >= 0 /\ (IF gui THEN index <= Len(filteredProducts)
                          ELSE index <= Len(filteredProducts) + 1)

Accepts(index) ==
    index >= 0 /\ (IF gui THEN index < Len(filteredProducts)
                          ELSE index <= Len(filteredProducts))

\* products.remove(at: index) traps beyond the last index; an index that the
\* guard refuses only shows all the products again.
deleteProduct(index) ==
    /\ Running
    /\ IF Accepts(index) /\ index >= Len(products)
       THEN /\ status' = "trapped"
            /\ UNCHANGED <<products, filteredProducts, filterService, choice>>
       ELSE /\ products' = IF Accepts(index)
                           THEN RemoveAt(products, index + 1) ELSE products
            /\ ShowAll
            /\ UNCHANGED status
    /\ UNCHANGED gui

\* "0" of the console's menu.
Quit ==
    /\ Running /\ ~gui
    /\ status' = "ended"
    /\ UNCHANGED <<gui, products, filteredProducts, filterService, choice>>

\* The program is started again, with the products of its source.
Start ==
    /\ ~Running
    /\ status' = "running"
    /\ products' = InitialProducts
    /\ ShowAll
    /\ UNCHANGED gui

Indices == -1 .. Cardinality(Product) + 1

LabNext ==
    \/ \E c \in Choice : makeFilterByType(c)
    \/ \E input \in {"1", "2", "other"} : makeFilterByPrice(input)
    \/ \E x \in Product : appendProduct(x)
    \/ \E index \in Indices : deleteProduct(index)
    \/ Quit
    \/ Start

LabSpec == LabInit /\ [][LabNext]_labVars

(***************************************************************************)
(* Properties of both programs.                                            *)
(***************************************************************************)

\* Every variable has its type.
LabTypeOK ==
    /\ gui \in BOOLEAN
    /\ status \in {"running", "ended", "trapped"}
    /\ products \in Seq(Product) /\ IsInjective(products)
    /\ filteredProducts \in Seq(Product)
    /\ filterService \in [products : Seq(Product), filtered : Seq(Product),
                          last : {"None", "1", "2"}]
    /\ choice \in Choice

\* a price filter stays in force when another type is chosen
SortSticks ==
    /\ filterService.last = "1" => IsOrdered(filteredProducts, TRUE)
    /\ filterService.last = "2" => IsOrdered(filteredProducts, FALSE)

\* The four copies of the products agree, whatever was added, deleted, sorted
\* or filtered: the service is never left with products that are gone, and the
\* list shown is what it filtered, all products of the type chosen, in the
\* order that was asked for last (ProductsManager, FilterProductsService).
ListsAgree ==
    /\ filterService.products = products
    /\ filterService.filtered = filteredProducts
    /\ SameProducts(filteredProducts, OfType(products, choice))
    /\ SortSticks

\* no number typed ends the graphical program, and one ends the console only
\* while the filtered list and the list of all products have one length
TrapNeedsFullList ==
    status = "trapped" => ~gui /\ Len(filteredProducts) = Len(products)

\* in the graphical program, which cannot sort, the number in front of a product
\* is its index as long as no type is chosen
NumbersAreIndices == gui /\ choice = All => filteredProducts = products

\* The guard of deleteProduct looks at the filtered list, the removal at the
\* list of all products: within these bounds the index is right, and the
\* removal does not end the program.
DeletesByNumber == TrapNeedsFullList /\ NumbersAreIndices
=============================================================================
