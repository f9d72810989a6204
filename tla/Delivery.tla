------------------------------ MODULE Delivery ------------------------------
(***************************************************************************)
(* What the shop relies on when it hands a document to Firestore: the      *)
(* write waits in memory, then on disk among the writes of its account,    *)
(* and the writes of one account are answered in the order in which they   *)
(* were made.  Only a crash loses a write, and only one that has not       *)
(* reached the disk.                                                       *)
(*                                                                         *)
(* It is the contract between the SDK, whose write path implements it      *)
(* (WritePipeline), and the shop, which uses it as its SDK (Checkout).     *)
(***************************************************************************)
EXTENDS Naturals, Sequences

CONSTANT User

VARIABLE
    writes   \* all writes in the order in which they were made: the account
             \* each was made for, and where it is or what has become of it

Outcome == {"accepted", "rejected"}

Init == writes = <<>>

\* a new write, in memory
Made(u) == [owner |-> u, place |-> "memory"]

Make(u) == writes' = Append(writes, Made(u))

\* the write is the first of those in S
First(S, w) == w \in S /\ \A v \in S : w <= v

\* The oldest write in memory reaches the disk.
Persist(w) ==
    /\ First({v \in DOMAIN writes : writes[v].place = "memory"}, w)
    /\ writes' = [writes EXCEPT ![w].place = "disk"]

\* The oldest write of an account on disk is answered.
Answer(w, outcome) ==
    /\ First({v \in DOMAIN writes : /\ writes[v].place = "disk"
                                    /\ writes[v].owner = writes[w].owner}, w)
    /\ writes' = [writes EXCEPT ![w].place = outcome]

\* The process ends, and what was in memory is lost.
Crash ==
    writes' = [w \in DOMAIN writes |->
                  IF writes[w].place = "memory"
                  THEN [writes[w] EXCEPT !.place = "lost"]
                  ELSE writes[w]]

Next ==
    \/ \E u \in User : Make(u)
    \/ \E w \in DOMAIN writes :
          \/ Persist(w)
          \/ \E outcome \in Outcome : Answer(w, outcome)
    \/ Crash

Spec == Init /\ [][Next]_writes

-----------------------------------------------------------------------------
Place == Outcome \cup {"memory", "disk", "lost"}

TypeOK == writes \in Seq([owner : User, place : Place])

\* The writes of one account are answered in the order in which they were made,
\* over crashes and changes of account: with an answer to a later write, no
\* earlier one is still waiting.
AnswersInOrder ==
    \A v, w \in DOMAIN writes :
        /\ v < w
        /\ writes[v].owner = writes[w].owner
        /\ writes[w].place \in Outcome
        => writes[v].place \notin {"memory", "disk"}
=============================================================================
