------------------------------ MODULE Purchase ------------------------------
(***************************************************************************)
(* What the shop promises about a product the customer has put into the    *)
(* basket, without screens, tables, databases or crashes: it stays in the  *)
(* basket until the customer removes it or an order that contains it has   *)
(* been formed, and an order always takes the whole basket.  Checkout      *)
(* implements this specification.                                          *)
(***************************************************************************)
CONSTANT Item

VARIABLES
    inBasket,   \* objects in the basket
    ordered,    \* objects of all the orders formed so far
    removed     \* objects the customer has deleted

vars == <<inBasket, ordered, removed>>

Init ==
    /\ inBasket = {}
    /\ ordered = {}
    /\ removed = {}

\* A new object goes into the basket.
Put(x) ==
    /\ x \notin inBasket \cup ordered \cup removed
    /\ inBasket' = inBasket \cup {x}
    /\ UNCHANGED <<ordered, removed>>

\* An order for all that is in the basket; the basket is emptied afterwards.
Place ==
    /\ inBasket # {}
    /\ ordered' = ordered \cup inBasket
    /\ UNCHANGED <<inBasket, removed>>

\* An ordered object leaves the basket.
Clear(x) ==
    /\ x \in inBasket \cap ordered
    /\ inBasket' = inBasket \ {x}
    /\ UNCHANGED <<ordered, removed>>

\* The customer deletes an object of the basket.
Take(x) ==
    /\ x \in inBasket
    /\ inBasket' = inBasket \ {x}
    /\ removed' = removed \cup {x}
    /\ UNCHANGED ordered

Next ==
    \/ Place
    \/ \E x \in Item : Put(x) \/ Clear(x) \/ Take(x)

Spec == Init /\ [][Next]_vars
=============================================================================
