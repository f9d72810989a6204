------------------------------ MODULE Listing ------------------------------
(***************************************************************************)
(* Lists of products and the two things a FilterService does to them: keep *)
(* one type, and sort by price.  The catalogue of the shop and the two     *)
(* laboratory programs use the same operations.                            *)
(***************************************************************************)
EXTENDS Integers, Sequences, SequencesExt, Lists

CONSTANTS
    Product,    \* products, each with a type and a price
    Type,       \* "clothes", "shoes", "accessories": what the buttons offer
    Other,      \* any other text in the type of a product
    TypeOf,     \* the type of each product
    PriceOf,    \* the price of each product
    All         \* the choice "all"

ASSUME ListingAssumption ==
    /\ TypeOf \in [Product -> Type \cup {Other}]
    /\ PriceOf \in [Product -> Nat]
    /\ All \notin Type \cup {Other}

\* What each program shows its products with.  The services are records of the
\* module that shows them: the shop's remembers that it has sorted, the
\* laboratory's the last price filter.
VARIABLES
    filterService,      \* the FilterService behind the list
    filteredProducts,   \* the list shown
    choice              \* history: the type chosen since the service was made

Choice == Type \cup {All}

\* _products.filter { $0.type == c }, or all of them
OfType(list, c) ==
    Keep(list, {i \in DOMAIN list : c \in {All, TypeOf[list[i]]}})

Occurrences(list, p) == Cardinality({i \in DOMAIN list : list[i] = p})

SameProducts(s, t) ==
    /\ Len(s) = Len(t)
    /\ \A p \in ToSet(s) \cup ToSet(t) : Occurrences(s, p) = Occurrences(t, p)

IsOrdered(list, ascending) ==
    \A i, j \in DOMAIN list :
        i < j => IF ascending THEN PriceOf[list[i]] <= PriceOf[list[j]]
                              ELSE PriceOf[list[i]] >= PriceOf[list[j]]

(***************************************************************************)
(* What sort { $0.price < $1.price } and sort { $0.price >= $1.price } may *)
(* leave: the order of products of one price is not specified, and the     *)
(* second predicate is not even a strict order.                            *)
(***************************************************************************)
Sorted(list, ascending) ==
    LET shuffled == {[i \in DOMAIN list |-> list[f[i]]] :
                         f \in Bijection(DOMAIN list, DOMAIN list)}
    IN  {s \in shuffled : IsOrdered(s, ascending)}
=============================================================================
