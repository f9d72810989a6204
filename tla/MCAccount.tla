----------------------------- MODULE MCAccount -----------------------------
(***************************************************************************)
(* Small instances of Account for TLC: two customers on one phone, one of  *)
(* them an administrator.                                                  *)
(***************************************************************************)
EXTENDS Account

CONSTANTS ann, bob

MCAdmins == {ann}
=============================================================================
