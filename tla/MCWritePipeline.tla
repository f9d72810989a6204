--------------------------- MODULE MCWritePipeline ---------------------------
(***************************************************************************)
(* Small instances of WritePipeline for TLC.  Writes differ in nothing but *)
(* the order in which they are made.                                       *)
(***************************************************************************)
EXTENDS WritePipeline
=============================================================================
