------------------------------- MODULE MCFetch -------------------------------
(***************************************************************************)
(* Small instances of Fetch for TLC.                                       *)
(***************************************************************************)
EXTENDS Fetch
=============================================================================
