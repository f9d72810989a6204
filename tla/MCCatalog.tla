----------------------------- MODULE MCCatalog -----------------------------
(***************************************************************************)
(* Small instances of Catalog for TLC: two documents of different types in *)
(* Firestore, and a node with one subject, whose type no filter knows, or  *)
(* with two, one of them a product that Firestore has as well.             *)
(***************************************************************************)
EXTENDS Catalog

CONSTANTS shirt, shoe, cap, clothes, shoes

MCTypeOf == [p \in Product |-> IF p = shoe THEN shoes
                            ELSE IF p = shirt THEN clothes ELSE Other]

MCPriceOf == [p \in Product |-> IF p = shoe THEN 1 ELSE 2]

MCDocuments == <<shirt, shoe>>

MCNodes == {<<cap>>, <<cap, shoe>>}
=============================================================================
