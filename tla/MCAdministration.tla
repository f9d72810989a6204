-------------------------- MODULE MCAdministration --------------------------
(***************************************************************************)
(* Small instances of Administration for TLC: an order with two products,  *)
(* one of them twice, and one with a product of the other database, which  *)
(* the administrators' catalogue does not have.                            *)
(***************************************************************************)
EXTENDS Administration

CONSTANTS first, second, shirt, shoe

MCIdOf == [p \in Product |-> IF p = shirt THEN 1 ELSE 2]

MCProductsID == [o \in Order |-> IF o = first THEN <<2, 1, 2>> ELSE <<1, 7>>]

MCDocOrder == SelectSeq(<<second, first>>, LAMBDA o : o \in Order)

MCCatalogue == SelectSeq(<<shirt, shoe>>, LAMBDA p : p \in Product)
=============================================================================
