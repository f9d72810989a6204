------------------------- MODULE MCProductsManager -------------------------
(***************************************************************************)
(* Small instances of the laboratory programs for TLC: two products at the *)
(* start, one to be added whose type no filter knows, and two of a price.  *)
(***************************************************************************)
EXTENDS ProductsManager

CONSTANTS haven, tee, cap, ball, shoes, clothes

MCTypeOf == [p \in Product |->
                IF p = haven THEN shoes ELSE IF p = cap THEN Other ELSE clothes]

MCPriceOf == [p \in Product |-> IF p = haven THEN 2 ELSE 1]

MCInitial == <<haven, tee>>
=============================================================================
