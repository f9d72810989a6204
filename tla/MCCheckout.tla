----------------------------- MODULE MCCheckout -----------------------------
(***************************************************************************)
(* Small instances of Checkout for TLC.  Prices: one that a half-price code*)
(* does not divide evenly, one product whose document had no price field   *)
(* (price 0), and a code for 100%.                                         *)
(***************************************************************************)
EXTENDS Checkout

CONSTANTS i1, i2, i3, half, free

MCPrice == [x \in Item |-> IF x = i1 THEN 3 ELSE IF x = i2 THEN 0 ELSE 2]

MCDiscount == [c \in Code |-> IF c = half THEN 50 ELSE 100]
=============================================================================
