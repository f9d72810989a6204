---------------------------- MODULE MCFavourites ----------------------------
(***************************************************************************)
(* Small instances of Favourites for TLC.                                  *)
(***************************************************************************)
EXTENDS Favourites

CONSTANTS i1, i2, i3, i4
=============================================================================
