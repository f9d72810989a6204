----------------------------- MODULE RealmTable -----------------------------
(***************************************************************************)
(* The tables of the Realm database.  A table is a sequence of object      *)
(* identities, in the order in which unsorted Results visit them; two taps *)
(* on the same product make two different objects (OrderProduct and        *)
(* FavouriteProduct have no primary key), so a table never holds an object *)
(* twice.  A new object is appended.                                       *)
(***************************************************************************)
EXTENDS Integers, Sequences

(***************************************************************************)
(* Realm deletes a row by moving the last row of the table into its place  *)
(* (row.move_last_over), so a deletion reorders the table unless the row   *)
(* was the last one.                                                       *)
(***************************************************************************)

\* Mutant: the last row is copied but not dropped.
MoveLastOverKeepsLast(t, i) ==
    [k \in 1 .. Len(t) |-> IF k = i THEN t[Len(t)] ELSE t[k]]

MoveLastOver(t, i) ==
    [k \in 1 .. Len(t) - 1 |-> IF k = i THEN t[Len(t)] ELSE t[k]]

RowOf(t, x) == CHOOSE i \in DOMAIN t : t[i] = x

\* realm.delete(x) for an object x of the table
Erase(t, x) == MoveLastOver(t, RowOf(t, x))
=============================================================================
