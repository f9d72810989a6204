------------------------ MODULE AdministrationProofs ------------------------
(***************************************************************************)
(* Proofs about Administration, for any number of administrators, orders,  *)
(* products and crashes.                                                   *)
(***************************************************************************)
EXTENDS Administration, TableProofs

USE DEF serverVars, sdkVars

(***************************************************************************)
(* The inductive invariant.                                                *)
(***************************************************************************)

\* A list has each order once.  It is empty until its fetch is answered, which
\* is why the answer can be appended.  Only a list on top has an open swipe.
ListInv ==
    \A a \in Admin :
        /\ IsInjective(orders[a])
        /\ ToSet(orders[a]) = toDo[a]
        /\ "orders" \in fetching[a] => orders[a] = <<>>
        /\ swipe[a] # NoSwipe => screen[a] = "list"

\* Where a completion is: in the queue of the phone, which lies over all that is
\* read, or on the server and out of the phone's cache, or lost, or undone by the
\* phone of the customer.
CompletionInv ==
    \A a \in Admin : \A o \in completed[a] :
        \/ o \in ToSet(updates[a])
        \/ o \in done /\ o \notin cache[a]
        \/ <<a, o>> \in failed
        \/ o \in reopened

\* The catalogue comes whole or not at all, and the detail screen has an order.
DetailInv ==
    \A a \in Admin :
        /\ products[a] \in {Catalogue, <<>>}
        /\ screen[a] = "detail" => detail[a].order \in Order

Inv ==
    /\ TypeOK /\ ListInv /\ SwipeIsItsRow
    /\ CompletionInv /\ NotShownAgain
    /\ DetailInv
    /\ UniqueIds => DetailIsOrder

(***************************************************************************)
(* Lists of orders.                                                        *)
(***************************************************************************)

LEMMA OrdersFinite ==
  /\ IsFiniteSet(Order) /\ Cardinality(Order) = Len(DocOrder)
  /\ Len(DocOrder) \in Nat
  <1>1. /\ DocOrder \in Seq(Order) /\ DOMAIN DocOrder = 1 .. Len(DocOrder)
        /\ Len(DocOrder) \in Nat
        /\ \A i \in 1 .. Len(DocOrder) : DocOrder[i] \in Order
    BY OrderAssumption, LenProperties
  <1>2. IsInjective(DocOrder)
    BY OrderAssumption DEF IsInjective
  <1>3. ToSet(DocOrder) = Order
    BY <1>1, OrderAssumption DEF ToSet
  <1> QED BY <1>1, <1>2, <1>3, InjectiveLen

\* The list of an answer has each of its orders once.
LEMMA InDocOrderFacts ==
  ASSUME NEW open \in SUBSET Order
  PROVE  /\ InDocOrder(open) \in Seq(open)
         /\ ToSet(InDocOrder(open)) = open
         /\ IsInjective(InDocOrder(open))
  <1> DEFINE P == {i \in DOMAIN DocOrder : DocOrder[i] \in open}
             list == InDocOrder(open)
  <1>1. DocOrder \in Seq(Order) /\ DOMAIN DocOrder = 1 .. Len(DocOrder)
    BY OrderAssumption, LenProperties
  <1>2. list = Keep(DocOrder, P)
    BY DEF InDocOrder
  <1>3. IsInjective(DocOrder)
    BY OrderAssumption DEF IsInjective
  <1>4. P \cap (1 .. Len(DocOrder)) = P
    BY <1>1
  <1>5. {DocOrder[i] : i \in P} = open
    BY <1>1, OrderAssumption
  <1> HIDE DEF P, list
  <1>6. /\ list \in Seq(Order) /\ IsInjective(list)
        /\ ToSet(list) = {DocOrder[i] : i \in P \cap (1 .. Len(DocOrder))}
    BY <1>1, <1>2, <1>3, KeepFacts
  <1>7. ToSet(list) = open
    BY <1>4, <1>5, <1>6
  <1>8. list \in Seq(open)
    BY <1>6, <1>7, SeqOfSubset
  <1> QED BY <1>6, <1>7, <1>8 DEF list

(***************************************************************************)
(* The products of an order.                                               *)
(***************************************************************************)

\* The parts that Join puts together.
Parts(ids, ps) ==
    [k \in DOMAIN ids |-> Keep(ps, {j \in DOMAIN ps : IdOf[ps[j]] = ids[k]})]

LEMMA PartsFacts ==
  ASSUME NEW ids \in Seq(Int), NEW ps \in Seq(Product)
  PROVE  /\ Parts(ids, ps) \in Seq(Seq(Product)) /\ Len(Parts(ids, ps)) = Len(ids)
         /\ Join(ids, ps) = FlattenSeq(Parts(ids, ps))
  <1>1. Len(ids) \in Nat /\ DOMAIN ids = 1 .. Len(ids)
    BY LenProperties
  <1>2. \A k \in DOMAIN ids :
            Keep(ps, {j \in DOMAIN ps : IdOf[ps[j]] = ids[k]}) \in Seq(Product)
    BY KeepFacts
  <1>3. Parts(ids, ps) \in [1 .. Len(ids) -> Seq(Product)]
    BY <1>1, <1>2 DEF Parts
  <1> QED BY <1>1, <1>3, IsASeq, LenProperties DEF Join, Parts

LEMMA JoinType ==
  ASSUME NEW ids \in Seq(Int), NEW ps \in Seq(Product)
  PROVE  Join(ids, ps) \in Seq(Product)
  <1>1. PICK s : s = Parts(ids, ps)
    OBVIOUS
  <1>2. s \in Seq(Seq(Product)) /\ Join(ids, ps) = FlattenSeq(s)
    BY <1>1, PartsFacts
  <1>3. PICK f \in [0 .. Len(s) -> Seq(Product)] : FlattenSeq(s) = f[Len(s)]
    BY <1>2, FlattenFacts
  <1>4. Len(s) \in 0 .. Len(s)
    BY <1>2, LenProperties
  <1> QED BY <1>2, <1>3, <1>4

\* Without a catalogue there is nothing to show.
LEMMA JoinNothing ==
  ASSUME NEW ids \in Seq(Int)
  PROVE  Join(ids, <<>>) = <<>>
  <1>1. PICK s : s = Parts(ids, <<>>)
    OBVIOUS
  <1>2. <<>> \in Seq(Product) /\ DOMAIN <<>> = {} /\ Len(<<>>) = 0
    BY EmptySeq
  <1>3. /\ s \in Seq(Seq(Product)) /\ Len(s) = Len(ids)
        /\ Join(ids, <<>>) = FlattenSeq(s)
    BY <1>1, <1>2, PartsFacts
  <1>4. Len(s) \in Nat /\ DOMAIN s = 1 .. Len(s)
    BY <1>3, LenProperties
  <1>5. \A k \in 1 .. Len(s) : s[k] = <<>>
    <2> TAKE k \in 1 .. Len(s)
    <2>1. k \in DOMAIN ids
      BY <1>3, LenProperties
    <2>2. s[k] = Keep(<<>>, {j \in DOMAIN <<>> : IdOf[<<>>[j]] = ids[k]})
      BY <1>1, <2>1 DEF Parts
    <2>3. PICK P : s[k] = Keep(<<>>, P)
      BY <2>2
    <2>e. PICK none : none = <<>>
      OBVIOUS
    <2>4. /\ s[k] \in Seq(Product)
          /\ ToSet(s[k]) = {none[i] : i \in P \cap (1 .. Len(none))}
      <3>1. none \in Seq(Product) /\ s[k] = Keep(none, P)
        BY <1>2, <2>3, <2>e
      <3> QED BY <3>1, KeepFacts
    <2>5. ToSet(s[k]) = {}
      <3>1. P \cap (1 .. Len(none)) = {}
        BY <1>2, <2>e
      <3> QED BY <2>4, <3>1
    <2>6. DOMAIN s[k] = {}
      BY <2>5 DEF ToSet
    <2>7. Len(s[k]) \in Nat /\ DOMAIN s[k] = 1 .. Len(s[k])
      BY <2>4, LenProperties
    <2>8. Len(s[k]) = 0
      <3>1. PICK n : n = Len(s[k])
        OBVIOUS
      <3>2. n \in Nat /\ 1 .. n = {}
        BY <2>6, <2>7, <3>1
      <3>3. n = 0
        BY <3>2
      <3> QED BY <3>1, <3>3
    <2> QED BY <2>4, <2>8, EmptySeq
  <1>6. PICK f \in [0 .. Len(s) -> Seq(Product)] :
            /\ f[0] = <<>>
            /\ \A i \in 1 .. Len(s) : f[i] = f[i - 1] \o s[i]
            /\ FlattenSeq(s) = f[Len(s)]
    BY <1>3, FlattenFacts
  <1> DEFINE T == {k \in Nat : k <= Len(s) => f[k] = <<>>}
  <1>7. T = Nat
    <2>1. 0 \in T
      BY <1>6
    <2>2. ASSUME NEW k \in T PROVE k + 1 \in T
      <3> SUFFICES ASSUME k + 1 <= Len(s) PROVE f[k + 1] = <<>>
        OBVIOUS
      <3>1. k + 1 \in 1 .. Len(s) /\ (k + 1) - 1 = k /\ k <= Len(s)
        BY <1>4
      <3>2. f[k + 1] = f[(k + 1) - 1] \o s[k + 1]
        BY <1>6, <3>1
      <3>3. f[k] = <<>> /\ s[k + 1] = <<>>
        BY <1>5, <3>1
      <3>4. <<>> \o <<>> = <<>>
        BY <1>2, ConcatEmptySeq
      <3> QED BY <3>1, <3>2, <3>3, <3>4
    <2> HIDE DEF T
    <2>3. T \subseteq Nat
      BY DEF T
    <2> QED BY <2>1, <2>2, <2>3, NatSetInduction
  <1>8. Len(s) \in T /\ Len(s) <= Len(s)
    <2> HIDE DEF T
    <2> QED BY <1>4, <1>7
  <1> QED BY <1>3, <1>6, <1>8

\* An id takes one product of the catalogue, or none.
LEMMA OneProduct ==
  ASSUME UniqueIds, NEW id
  PROVE  LET one == Keep(Catalogue, {j \in DOMAIN Catalogue : IdOf[Catalogue[j]] = id})
         IN  /\ (\E p \in Product : IdOf[p] = id) =>
                    \E p \in Product : IdOf[p] = id /\ one = <<p>>
             /\ (\A p \in Product : IdOf[p] # id) => one = <<>>
  <1> DEFINE P == {j \in DOMAIN Catalogue : IdOf[Catalogue[j]] = id}
             one == Keep(Catalogue, P)
  <1>1. /\ Catalogue \in Seq(Product) /\ DOMAIN Catalogue = 1 .. Len(Catalogue)
        /\ \A j \in 1 .. Len(Catalogue) : Catalogue[j] \in Product
    BY CatalogueAssumption, LenProperties
  <1>2. IsInjective(Catalogue)
    BY CatalogueAssumption DEF IsInjective
  <1>3. P \cap (1 .. Len(Catalogue)) = P
    BY <1>1
  <1>4. {Catalogue[j] : j \in P} = {p \in Product : IdOf[p] = id}
    BY <1>1, CatalogueAssumption
  <1> HIDE DEF P
  <1>5. /\ one \in Seq(Product) /\ IsInjective(one)
        /\ ToSet(one) = {p \in Product : IdOf[p] = id}
    <2>1. /\ one \in Seq(Product) /\ IsInjective(one)
          /\ ToSet(one) = {Catalogue[j] : j \in P \cap (1 .. Len(Catalogue))}
      BY <1>1, <1>2, KeepFacts
    <2> QED BY <1>3, <1>4, <2>1
  <1> HIDE DEF one
  <1>6. /\ Len(one) \in Nat /\ DOMAIN one = 1 .. Len(one)
        /\ Cardinality(ToSet(one)) = Len(one)
    BY <1>5, LenProperties, InjectiveLen
  <1>7. ASSUME NEW p \in Product, IdOf[p] = id PROVE one = <<p>>
    <2>1. ToSet(one) = {p}
      BY <1>5, <1>7 DEF UniqueIds
    <2>2. Len(one) = 1
      BY <1>6, <2>1, FS_Singleton
    <2>3. one[1] = p
      BY <1>6, <2>1, <2>2 DEF ToSet
    <2> QED BY <1>5, <2>2, <2>3
  <1>8. ASSUME \A p \in Product : IdOf[p] # id PROVE one = <<>>
    <2>1. ToSet(one) = {}
      BY <1>5, <1>8
    <2>2. Len(one) = 0
      BY <1>6, <2>1, FS_EmptySet
    <2> QED BY <1>5, <2>2, EmptySeq
  <1> QED BY <1>7, <1>8 DEF one, P

\* The ids of what the two loops collect are the ids of the order that the
\* catalogue has.
LEMMA JoinFacts ==
  ASSUME UniqueIds, NEW ids \in Seq(Int)
  PROVE  [k \in DOMAIN Join(ids, Catalogue) |-> IdOf[Join(ids, Catalogue)[k]]]
         = Keep(ids, {k \in DOMAIN ids : \E p \in Product : IdOf[p] = ids[k]})
  <1>1. PICK s : s = Parts(ids, Catalogue)
    OBVIOUS
  <1>2. PICK P : P = {k \in DOMAIN ids : \E p \in Product : IdOf[p] = ids[k]}
    OBVIOUS
  <1>3. /\ Catalogue \in Seq(Product) /\ Len(ids) \in Nat /\ DOMAIN ids = 1 .. Len(ids)
        /\ IdOf \in [Product -> Int] /\ \A k \in 1 .. Len(ids) : ids[k] \in Int
    BY CatalogueAssumption, LenProperties
  <1>4. /\ s \in Seq(Seq(Product)) /\ Len(s) = Len(ids)
        /\ Join(ids, Catalogue) = FlattenSeq(s)
    BY <1>1, <1>3, PartsFacts
  <1>5. ASSUME NEW k \in 1 .. Len(ids)
        PROVE  /\ k \in P => \E p \in Product : IdOf[p] = ids[k] /\ s[k] = <<p>>
               /\ k \notin P => s[k] = <<>>
    <2>1. s[k] = Keep(Catalogue, {j \in DOMAIN Catalogue : IdOf[Catalogue[j]] = ids[k]})
      BY <1>1, <1>3 DEF Parts
    <2>2. k \in P <=> \E p \in Product : IdOf[p] = ids[k]
      BY <1>2, <1>3
    <2> QED BY <2>1, <2>2, OneProduct
  <1>6. PICK f \in [0 .. Len(s) -> Seq(Product)] :
            /\ f[0] = <<>>
            /\ \A i \in 1 .. Len(s) : f[i] = f[i - 1] \o s[i]
            /\ FlattenSeq(s) = f[Len(s)]
    BY <1>4, FlattenFacts
  <1>7. PICK g : Kept(g, ids, P, Int)
    BY KeepSteps
  <1>8. /\ g \in [0 .. Len(ids) -> Seq(Int)] /\ g[0] = <<>>
        /\ \A i \in 1 .. Len(ids) :
               g[i] = IF i \in P THEN Append(g[i - 1], ids[i]) ELSE g[i - 1]
        /\ g[Len(ids)] = Keep(ids, P)
    BY <1>7 DEF Kept
  <1> DEFINE Same(k) == /\ Len(f[k]) = Len(g[k])
                        /\ \A i \in 1 .. Len(f[k]) : IdOf[f[k][i]] = g[k][i]
             T == {k \in Nat : k <= Len(ids) => Same(k)}
  <1>9. Same(0)
    BY <1>6, <1>8, EmptySeq
  <1>10. ASSUME NEW k \in Nat, k + 1 <= Len(ids), Same(k) PROVE Same(k + 1)
    <2>1. k + 1 \in 1 .. Len(ids) /\ (k + 1) - 1 = k /\ k \in 0 .. Len(ids)
      BY <1>3, <1>10
    <2>2. f[k] \in Seq(Product) /\ g[k] \in Seq(Int)
      BY <1>4, <1>6, <1>8, <2>1
    <2>3. f[k + 1] = f[(k + 1) - 1] \o s[k + 1]
      BY <1>4, <1>6, <2>1
    <2>4. g[k + 1] = IF k + 1 \in P THEN Append(g[(k + 1) - 1], ids[k + 1])
                                    ELSE g[(k + 1) - 1]
      BY <1>8, <2>1
    <2>5. CASE k + 1 \in P
      <3>1. PICK p \in Product : IdOf[p] = ids[k + 1] /\ s[k + 1] = <<p>>
        BY <1>5, <2>1, <2>5
      <3>2. f[k + 1] = Append(f[k], p)
        BY <2>1, <2>2, <2>3, <3>1, AppendIsConcat
      <3>3. g[k + 1] = Append(g[k], ids[k + 1])
        BY <2>1, <2>4, <2>5
      <3>4. /\ Len(f[k + 1]) = Len(f[k]) + 1 /\ f[k + 1][Len(f[k]) + 1] = p
            /\ \A i \in 1 .. Len(f[k]) : f[k + 1][i] = f[k][i]
        BY <2>2, <3>2, AppendProperties
      <3>5. /\ Len(g[k + 1]) = Len(g[k]) + 1 /\ g[k + 1][Len(g[k]) + 1] = ids[k + 1]
            /\ \A i \in 1 .. Len(g[k]) : g[k + 1][i] = g[k][i]
        <4>1. ids[k + 1] \in Int
          BY <1>3, <2>1
        <4> QED BY <2>2, <3>3, <4>1, AppendProperties
      <3>6. Len(f[k]) \in Nat /\ Len(f[k]) = Len(g[k])
        BY <1>10, <2>2, LenProperties
      <3>7. \A i \in 1 .. Len(f[k]) + 1 : i \in 1 .. Len(f[k]) \/ i = Len(f[k]) + 1
        BY <3>6
      <3> QED BY <1>10, <3>1, <3>4, <3>5, <3>6, <3>7
    <2>6. CASE k + 1 \notin P
      <3>1. f[k + 1] = f[k]
        BY <1>5, <2>1, <2>2, <2>3, <2>6, ConcatEmptySeq
      <3>2. g[k + 1] = g[k]
        BY <2>1, <2>4, <2>6
      <3> QED BY <1>10, <3>1, <3>2
    <2> QED BY <2>5, <2>6
  <1> HIDE DEF Same
  <1>11. T = Nat
    <2>1. 0 \in T
      BY <1>9
    <2>2. ASSUME NEW k \in T PROVE k + 1 \in T
      <3>1. k \in Nat /\ (k <= Len(ids) => Same(k))
        OBVIOUS
      <3>2. k + 1 <= Len(ids) => Same(k + 1)
        BY <1>3, <1>10, <3>1
      <3> QED BY <3>1, <3>2
    <2> HIDE DEF T
    <2>3. T \subseteq Nat
      BY DEF T
    <2> QED BY <2>1, <2>2, <2>3, NatSetInduction
  <1>12. Same(Len(ids))
    <2>1. Len(ids) \in T /\ Len(ids) <= Len(ids)
      <3> HIDE DEF T
      <3> QED BY <1>3, <1>11
    <2> QED BY <2>1
  <1>13. PICK j : j = Join(ids, Catalogue)
    OBVIOUS
  <1>14. PICK e : e = Keep(ids, P)
    OBVIOUS
  <1>15. /\ j = f[Len(ids)] /\ e = g[Len(ids)]
         /\ j \in Seq(Product) /\ e \in Seq(Int)
    <2>1. j = f[Len(s)] /\ Len(s) = Len(ids)
      BY <1>4, <1>6, <1>13
    <2>2. e = g[Len(ids)]
      BY <1>8, <1>14
    <2>3. Len(ids) \in 0 .. Len(ids)
      BY <1>3
    <2>4. f[Len(ids)] \in Seq(Product) /\ g[Len(ids)] \in Seq(Int)
      BY <1>4, <1>6, <1>8, <2>3
    <2> QED BY <2>1, <2>2, <2>4
  <1>16. Len(j) = Len(e) /\ \A i \in 1 .. Len(j) : IdOf[j[i]] = e[i]
    BY <1>12, <1>15 DEF Same
  <1>17. DOMAIN j = 1 .. Len(j) /\ e = [i \in 1 .. Len(e) |-> e[i]]
    BY <1>15, LenProperties
  <1>18. [k \in DOMAIN j |-> IdOf[j[k]]] = e
    BY <1>16, <1>17
  <1> QED BY <1>2, <1>13, <1>14, <1>18

\* A detail screen stays as it was filled.
LEMMA DetailStays ==
  ASSUME Inv, UNCHANGED detail,
         \A a \in Admin : screen'[a] = "detail" => screen[a] = "detail"
  PROVE  (UniqueIds => DetailIsOrder)'
  <1> SUFFICES ASSUME UniqueIds PROVE DetailIsOrder'
    BY DEF UniqueIds
  <1>1. PICK d : d = detail
    OBVIOUS
  <1>2. \A a \in Admin : screen[a] = "detail" => ShowsItsOrder(d[a])
    BY <1>1 DEF Inv, DetailIsOrder
  <1>3. detail' = d
    BY <1>1
  <1> QED BY <1>2, <1>3 DEF DetailIsOrder

\* A detail screen that is left takes nothing from the others.
LEMMA DetailLeft ==
  ASSUME Inv, \A a \in Admin : screen'[a] = "detail" => /\ screen[a] = "detail"
                                                        /\ detail'[a] = detail[a]
  PROVE  (UniqueIds => DetailIsOrder)'
  <1> SUFFICES ASSUME UniqueIds PROVE DetailIsOrder'
    BY DEF UniqueIds
  <1>1. PICK d : d = detail
    OBVIOUS
  <1>2. \A a \in Admin : screen[a] = "detail" => ShowsItsOrder(d[a])
    BY <1>1 DEF Inv, DetailIsOrder
  <1>3. PICK e : e = detail'
    OBVIOUS
  <1>4. \A a \in Admin : screen'[a] = "detail" => ShowsItsOrder(e[a])
    BY <1>1, <1>2, <1>3
  <1> QED BY <1>3, <1>4 DEF DetailIsOrder

(***************************************************************************)
(* The server.                                                             *)
(***************************************************************************)

\* An order that is written again is open again, which reopened remembers.
LEMMA PlaceOrderInv ==
  ASSUME Inv, NEW o \in Order, PlaceOrder(o)
  PROVE  Inv'
  <1>1. /\ placed' = placed \cup {o} /\ done' = done \ {o}
        /\ reopened' = reopened \cup ({o} \cap done)
        /\ UNCHANGED <<acknowledged, cache, updates, inUse, screen, orders, products,
                       fetching, swipe, detail, crashes, toDo, completed, failed>>
    BY DEF PlaceOrder, screenVars
  <1>2. Seq(placed) \subseteq Seq(placed')
    BY <1>1, SeqMonotonic
  <1>3. TypeOK'
    BY <1>1, <1>2 DEF Inv, TypeOK
  <1>4. CompletionInv'
    <2> SUFFICES ASSUME NEW b \in Admin, NEW p \in completed[b]
                 PROVE  \/ p \in ToSet(updates[b])
                        \/ p \in done' /\ p \notin cache[b]
                        \/ <<b, p>> \in failed \/ p \in reopened'
      BY <1>1 DEF CompletionInv
    <2> QED BY <1>1 DEF Inv, CompletionInv
  <1>5. ListInv' /\ SwipeIsItsRow' /\ NotShownAgain' /\ DetailInv'
    BY <1>1 DEF Inv, ListInv, SwipeIsItsRow, NotShownAgain, DetailInv
  <1>6. (UniqueIds => DetailIsOrder)'
    BY <1>1, DetailStays
  <1> QED BY <1>3, <1>4, <1>5, <1>6 DEF Inv

LEMMA OrderAcknowledgedInv ==
  ASSUME Inv, NEW o \in Order, OrderAcknowledged(o)
  PROVE  Inv'
  <1>1. /\ acknowledged' = acknowledged \cup {o} /\ o \in placed
        /\ UNCHANGED <<placed, done, reopened, cache, updates, inUse, screen, orders,
                       products, fetching, swipe, detail, crashes, toDo, completed,
                       failed>>
    BY DEF OrderAcknowledged, screenVars
  <1>2. TypeOK'
    BY <1>1 DEF Inv, TypeOK
  <1>3. (UniqueIds => DetailIsOrder)'
    BY <1>1, DetailStays
  <1> QED BY <1>1, <1>2, <1>3 DEF Inv, ListInv, SwipeIsItsRow, CompletionInv,
                                  NotShownAgain, DetailInv

\* What is in the queue, its head and the rest.
LEMMA QueueFacts ==
  ASSUME TypeOK, NEW a \in Admin, updates[a] # <<>>
  PROVE  /\ Head(updates[a]) \in placed /\ Tail(updates[a]) \in Seq(placed)
         /\ ToSet(updates[a]) = {Head(updates[a])} \cup ToSet(Tail(updates[a]))
  <1>1. updates[a] \in Seq(placed)
    BY DEF TypeOK
  <1> QED BY <1>1, HeadOrTail

\* A completion that the server makes leaves the cache with the queue.
LEMMA UpdateAcceptedInv ==
  ASSUME Inv, NEW a \in Admin, UpdateAccepted(a)
  PROVE  Inv'
  <1>1. PICK o : o = Head(updates[a])
    OBVIOUS
  <1>2. PICK rest : rest = Tail(updates[a])
    OBVIOUS
  <1>3. /\ o \in placed /\ rest \in Seq(placed)
        /\ ToSet(updates[a]) = {o} \cup ToSet(rest)
    BY <1>1, <1>2, QueueFacts DEF UpdateAccepted, Sends, Inv
  <1>4. /\ done' = done \cup {o}
        /\ cache' = [cache EXCEPT ![a] = @ \ {o}]
        /\ updates' = [updates EXCEPT ![a] = rest]
        /\ UNCHANGED <<placed, acknowledged, reopened, inUse, screen, orders, products,
                       fetching, swipe, detail, crashes, toDo, completed, failed>>
    BY <1>1, <1>2 DEF UpdateAccepted, screenVars
  <1>5. cache \in [Admin -> SUBSET placed] /\ updates \in [Admin -> Seq(placed)]
    BY DEF Inv, TypeOK
  <1>6. /\ cache' \in [Admin -> SUBSET placed] /\ updates' \in [Admin -> Seq(placed)]
        /\ \A b \in Admin : /\ cache'[b] = IF b = a THEN cache[b] \ {o} ELSE cache[b]
                            /\ updates'[b] = IF b = a THEN rest ELSE updates[b]
    BY <1>3, <1>4, <1>5
  <1>7. TypeOK'
    BY <1>3, <1>4, <1>6 DEF Inv, TypeOK
  <1>8. CompletionInv'
    <2> SUFFICES ASSUME NEW b \in Admin, NEW p \in completed[b]
                 PROVE  \/ p \in ToSet(updates'[b])
                        \/ p \in done' /\ p \notin cache'[b]
                        \/ <<b, p>> \in failed \/ p \in reopened
      BY <1>4 DEF CompletionInv
    <2>1. \/ p \in ToSet(updates[b])
          \/ p \in done /\ p \notin cache[b]
          \/ <<b, p>> \in failed \/ p \in reopened
      BY DEF Inv, CompletionInv
    <2> QED BY <1>3, <1>4, <1>6, <2>1
  <1>9. ListInv' /\ SwipeIsItsRow' /\ NotShownAgain' /\ DetailInv'
    BY <1>4 DEF Inv, ListInv, SwipeIsItsRow, NotShownAgain, DetailInv
  <1>10. (UniqueIds => DetailIsOrder)'
    BY <1>4, DetailStays
  <1> QED BY <1>7, <1>8, <1>9, <1>10 DEF Inv

\* A completion whose answer is lost is done and still in the queue.
LEMMA UpdateAppliedInv ==
  ASSUME Inv, NEW a \in Admin, UpdateApplied(a)
  PROVE  Inv'
  <1>1. PICK o : o = Head(updates[a])
    OBVIOUS
  <1>2. /\ o \in placed /\ done' = done \cup {o}
        /\ UNCHANGED <<placed, acknowledged, reopened, sdkVars, screen, orders,
                       products, fetching, swipe, detail, crashes, toDo, completed,
                       failed>>
    BY <1>1, QueueFacts DEF UpdateApplied, Sends, Inv, screenVars
  <1>3. TypeOK'
    BY <1>2 DEF Inv, TypeOK
  <1>4. (UniqueIds => DetailIsOrder)'
    BY <1>2, DetailStays
  <1> QED BY <1>2, <1>3, <1>4 DEF Inv, ListInv, SwipeIsItsRow, CompletionInv,
                                  NotShownAgain, DetailInv

LEMMA UpdateRejectedInv ==
  ASSUME Inv, NEW a \in Admin, UpdateRejected(a)
  PROVE  Inv'
  <1>1. PICK o : o = Head(updates[a])
    OBVIOUS
  <1>2. PICK rest : rest = Tail(updates[a])
    OBVIOUS
  <1>3. /\ o \in placed /\ rest \in Seq(placed)
        /\ ToSet(updates[a]) = {o} \cup ToSet(rest)
    BY <1>1, <1>2, QueueFacts DEF UpdateRejected, Sends, Inv
  <1>4. /\ failed' = failed \cup {<<a, o>>}
        /\ updates' = [updates EXCEPT ![a] = rest]
        /\ UNCHANGED <<serverVars, cache, inUse, screen, orders, products, fetching,
                       swipe, detail, crashes, toDo, completed>>
    BY <1>1, <1>2 DEF UpdateRejected, screenVars
  <1>5. updates \in [Admin -> Seq(placed)]
    BY DEF Inv, TypeOK
  <1>6. /\ updates' \in [Admin -> Seq(placed)]
        /\ \A b \in Admin : updates'[b] = IF b = a THEN rest ELSE updates[b]
    BY <1>3, <1>4, <1>5
  <1>7. TypeOK'
    BY <1>3, <1>4, <1>6 DEF Inv, TypeOK
  <1>8. CompletionInv'
    <2> SUFFICES ASSUME NEW b \in Admin, NEW p \in completed[b]
                 PROVE  \/ p \in ToSet(updates'[b])
                        \/ p \in done /\ p \notin cache[b]
                        \/ <<b, p>> \in failed' \/ p \in reopened
      BY <1>4 DEF CompletionInv
    <2>1. \/ p \in ToSet(updates[b])
          \/ p \in done /\ p \notin cache[b]
          \/ <<b, p>> \in failed \/ p \in reopened
      BY DEF Inv, CompletionInv
    <2> QED BY <1>3, <1>4, <1>6, <2>1
  <1>9. NotShownAgain'
    <2> SUFFICES ASSUME NEW b \in Admin, NEW p \in ToSet(orders[b]) \cap completed[b]
                 PROVE  <<b, p>> \in failed' \/ p \in reopened
      BY <1>4 DEF NotShownAgain
    <2> QED BY <1>4 DEF Inv, NotShownAgain
  <1>10. ListInv' /\ SwipeIsItsRow' /\ DetailInv'
    BY <1>4 DEF Inv, ListInv, SwipeIsItsRow, DetailInv
  <1>11. (UniqueIds => DetailIsOrder)'
    BY <1>4, DetailStays
  <1> QED BY <1>7, <1>8, <1>9, <1>10, <1>11 DEF Inv

(***************************************************************************)
(* The account, and a phone that is started.                               *)
(***************************************************************************)

LEMMA AccountInv ==
  ASSUME Inv, NEW a \in Admin, SignOut(a) \/ SignIn(a)
  PROVE  Inv'
  <1>1. PICK signedIn \in BOOLEAN : inUse' = [inUse EXCEPT ![a] = signedIn]
    BY DEF SignOut, SignIn
  <1>2. UNCHANGED <<serverVars, cache, updates, screen, orders, products, fetching,
                    swipe, detail, crashes, toDo, completed, failed>>
    BY DEF SignOut, SignIn, screenVars
  <1>3. TypeOK'
    BY <1>1, <1>2 DEF Inv, TypeOK
  <1>4. (UniqueIds => DetailIsOrder)'
    BY <1>2, DetailStays
  <1> QED BY <1>2, <1>3, <1>4 DEF Inv, ListInv, SwipeIsItsRow, CompletionInv,
                                  NotShownAgain, DetailInv

LEMMA LaunchInv ==
  ASSUME Inv, NEW a \in Admin, Launch(a)
  PROVE  Inv'
  <1>1. /\ screen[a] = "off" /\ screen' = [screen EXCEPT ![a] = "closed"]
        /\ UNCHANGED <<serverVars, sdkVars, orders, products, fetching, swipe,
                       detail, toDo, crashes, completed, failed>>
    BY DEF Launch
  <1>2. screen \in [Admin -> {"off", "closed", "list", "detail"}]
    BY DEF Inv, TypeOK
  <1>3. /\ screen' \in [Admin -> {"off", "closed", "list", "detail"}]
        /\ \A b \in Admin : screen'[b] = IF b = a THEN "closed" ELSE screen[b]
    BY <1>1, <1>2
  <1>4. TypeOK'
    BY <1>1, <1>3 DEF Inv, TypeOK
  <1>5. ListInv' /\ DetailInv'
    BY <1>1, <1>3 DEF Inv, ListInv, DetailInv
  <1>6. SwipeIsItsRow' /\ CompletionInv' /\ NotShownAgain'
    BY <1>1 DEF Inv, SwipeIsItsRow, CompletionInv, NotShownAgain
  <1>7. (UniqueIds => DetailIsOrder)'
    BY <1>1, <1>3, DetailStays
  <1> QED BY <1>4, <1>5, <1>6, <1>7 DEF Inv

(***************************************************************************)
(* The list.                                                               *)
(***************************************************************************)

LEMMA ViewDidLoadInv ==
  ASSUME Inv, NEW a \in Admin, viewDidLoad(a)
  PROVE  Inv'
  <1>1. /\ screen[a] = "closed" /\ screen' = [screen EXCEPT ![a] = "list"]
        /\ orders' = [orders EXCEPT ![a] = <<>>]
        /\ products' = [products EXCEPT ![a] = <<>>]
        /\ fetching' = [fetching EXCEPT ![a] = {"orders", "products"}]
        /\ toDo' = [toDo EXCEPT ![a] = {}]
        /\ UNCHANGED <<serverVars, sdkVars, swipe, detail, crashes, completed,
                       failed>>
    BY DEF viewDidLoad
  <1>2. /\ screen \in [Admin -> {"off", "closed", "list", "detail"}]
        /\ orders \in [Admin -> Seq(placed)] /\ products \in [Admin -> Seq(Product)]
        /\ fetching \in [Admin -> SUBSET {"orders", "products"}]
        /\ toDo \in [Admin -> SUBSET placed]
    BY DEF Inv, TypeOK
  <1>3. <<>> \in Seq(placed) /\ <<>> \in Seq(Product) /\ DOMAIN <<>> = {}
    BY EmptySeq
  <1>4. \A b \in Admin :
            /\ screen'[b] = IF b = a THEN "list" ELSE screen[b]
            /\ orders'[b] = IF b = a THEN <<>> ELSE orders[b]
            /\ products'[b] = IF b = a THEN <<>> ELSE products[b]
            /\ fetching'[b] = IF b = a THEN {"orders", "products"} ELSE fetching[b]
            /\ toDo'[b] = IF b = a THEN {} ELSE toDo[b]
    BY <1>1, <1>2
  <1>5. /\ screen' \in [Admin -> {"off", "closed", "list", "detail"}]
        /\ orders' \in [Admin -> Seq(placed)] /\ products' \in [Admin -> Seq(Product)]
        /\ fetching' \in [Admin -> SUBSET {"orders", "products"}]
        /\ toDo' \in [Admin -> SUBSET placed]
    BY <1>1, <1>2, <1>3
  <1>6. TypeOK'
    BY <1>1, <1>5 DEF Inv, TypeOK
  <1>7. ToSet(<<>>) = {} /\ IsInjective(<<>>)
    BY <1>3 DEF ToSet, IsInjective
  <1>8. swipe[a] = NoSwipe
    BY <1>1 DEF Inv, ListInv
  <1>9. ListInv'
    <2> SUFFICES ASSUME NEW b \in Admin
                 PROVE  /\ IsInjective(orders'[b]) /\ ToSet(orders'[b]) = toDo'[b]
                        /\ "orders" \in fetching'[b] => orders'[b] = <<>>
                        /\ swipe[b] # NoSwipe => screen'[b] = "list"
      BY <1>1 DEF ListInv
    <2>1. CASE b = a
      BY <1>4, <1>7, <2>1
    <2>2. CASE b # a
      BY <1>4, <2>2 DEF Inv, ListInv
    <2> QED BY <2>1, <2>2
  <1>10. SwipeIsItsRow' /\ CompletionInv'
    BY <1>1, <1>4, <1>8 DEF Inv, SwipeIsItsRow, CompletionInv
  <1>11. NotShownAgain' /\ DetailInv'
    BY <1>1, <1>4, <1>7 DEF Inv, NotShownAgain, DetailInv
  <1>12. (UniqueIds => DetailIsOrder)'
    BY <1>1, <1>4, DetailStays
  <1> QED BY <1>6, <1>9, <1>10, <1>11, <1>12 DEF Inv

\* An answer fills an empty list, with nothing that is completed and not lost.
LEMMA ShowOrdersInv ==
  ASSUME Inv, NEW a \in Admin, NEW open \in SUBSET placed, ShowOrders(a, open),
         UNCHANGED <<serverVars, updates, inUse, screen, products, detail, crashes,
                     completed, failed>>,
         cache' \in [Admin -> SUBSET placed],
         \A b \in Admin : \A o \in done : o \notin cache[b] => o \notin cache'[b],
         \A o \in open \cap completed[a] : <<a, o>> \in failed \/ o \in reopened
  PROVE  Inv'
  <1>1. PICK list : list = InDocOrder(open)
    OBVIOUS
  <1>2. /\ list \in Seq(placed) /\ ToSet(list) = open /\ IsInjective(list)
    <2>1. open \in SUBSET Order
      BY DEF Inv, TypeOK
    <2>2. list \in Seq(open) /\ ToSet(list) = open /\ IsInjective(list)
      BY <1>1, <2>1, InDocOrderFacts
    <2> QED BY <2>2, SeqOfSubset
  <1>3. /\ orders \in [Admin -> Seq(placed)]
        /\ fetching \in [Admin -> SUBSET {"orders", "products"}]
        /\ swipe \in [Admin -> Swipes] /\ toDo \in [Admin -> SUBSET placed]
        /\ orders[a] = <<>> /\ NoSwipe \in Swipes
    BY DEF Inv, TypeOK, ListInv, ShowOrders, Swipes
  <1>4. orders' = [orders EXCEPT ![a] = list]
    <2>1. <<>> \o list = list
      BY <1>2, ConcatEmptySeq
    <2>2. orders' = [orders EXCEPT ![a] = orders[a] \o list]
      BY <1>1, <1>3 DEF ShowOrders
    <2> QED BY <1>3, <2>1, <2>2
  <1>5. /\ fetching' = [fetching EXCEPT ![a] = @ \ {"orders"}]
        /\ swipe' = [swipe EXCEPT ![a] = NoSwipe]
        /\ toDo' = [toDo EXCEPT ![a] = open]
    BY DEF ShowOrders
  <1>6. \A b \in Admin :
            /\ orders'[b] = IF b = a THEN list ELSE orders[b]
            /\ fetching'[b] = IF b = a THEN fetching[b] \ {"orders"} ELSE fetching[b]
            /\ swipe'[b] = IF b = a THEN NoSwipe ELSE swipe[b]
            /\ toDo'[b] = IF b = a THEN open ELSE toDo[b]
    BY <1>3, <1>4, <1>5
  <1>7. /\ orders' \in [Admin -> Seq(placed)]
        /\ fetching' \in [Admin -> SUBSET {"orders", "products"}]
        /\ swipe' \in [Admin -> Swipes] /\ toDo' \in [Admin -> SUBSET placed]
    BY <1>2, <1>3, <1>4, <1>5
  <1>8. TypeOK'
    BY <1>7 DEF Inv, TypeOK
  <1>9. ListInv'
    <2> SUFFICES ASSUME NEW b \in Admin
                 PROVE  /\ IsInjective(orders'[b]) /\ ToSet(orders'[b]) = toDo'[b]
                        /\ "orders" \in fetching'[b] => orders'[b] = <<>>
                        /\ swipe'[b] # NoSwipe => screen'[b] = "list"
      BY DEF ListInv
    <2>1. CASE b = a
      BY <1>2, <1>6, <2>1
    <2>2. CASE b # a
      BY <1>6, <2>2 DEF Inv, ListInv
    <2> QED BY <2>1, <2>2
  <1>10. SwipeIsItsRow'
    BY <1>6 DEF Inv, SwipeIsItsRow
  <1>11. CompletionInv'
    BY DEF Inv, CompletionInv
  <1>12. NotShownAgain'
    <2> SUFFICES ASSUME NEW b \in Admin, NEW o \in ToSet(orders'[b]) \cap completed[b]
                 PROVE  <<b, o>> \in failed \/ o \in reopened
      BY DEF NotShownAgain
    <2>1. CASE b = a
      BY <1>2, <1>6, <2>1
    <2>2. CASE b # a
      BY <1>6, <2>2 DEF Inv, NotShownAgain
    <2> QED BY <2>1, <2>2
  <1>13. DetailInv'
    BY DEF Inv, DetailInv
  <1>14. (UniqueIds => DetailIsOrder)'
    BY DetailStays
  <1> QED BY <1>8, <1>9, <1>10, <1>11, <1>12, <1>13, <1>14 DEF Inv

LEMMA OrdersAnsweredInv ==
  ASSUME Inv, NEW a \in Admin, OrdersFetched(a) \/ OrdersFromCache(a) \/ OrdersFail(a)
  PROVE  Inv'
  <1>1. /\ cache \in [Admin -> SUBSET placed]
        /\ \A o \in completed[a] : \/ o \in ToSet(updates[a])
                                   \/ o \in done /\ o \notin cache[a]
                                   \/ <<a, o>> \in failed \/ o \in reopened
    BY DEF Inv, TypeOK, CompletionInv
  <1>2. CASE OrdersFetched(a)
    <2>1. PICK open : open = Overlay(a, placed \ done)
      OBVIOUS
    <2>2. /\ ShowOrders(a, open) /\ cache' = [cache EXCEPT ![a] = placed \ done]
          /\ UNCHANGED <<serverVars, updates, inUse, screen, products, detail, crashes,
                         completed, failed>>
      BY <1>2, <2>1 DEF OrdersFetched
    <2>3. open = (placed \ done) \ ToSet(updates[a])
      BY <2>1 DEF Overlay
    <2>4. /\ cache' \in [Admin -> SUBSET placed]
          /\ \A b \in Admin : cache'[b] = IF b = a THEN placed \ done ELSE cache[b]
      BY <1>1, <2>2
    <2>5. \A b \in Admin : \A o \in done : o \notin cache[b] => o \notin cache'[b]
      BY <2>4
    <2>6. \A o \in open \cap completed[a] : <<a, o>> \in failed \/ o \in reopened
      BY <1>1, <2>3
    <2>7. open \in SUBSET placed
      BY <2>3
    <2> QED BY <2>2, <2>4, <2>5, <2>6, <2>7, ShowOrdersInv
  <1>3. CASE OrdersFromCache(a)
    <2>1. PICK open : open = Overlay(a, cache[a])
      OBVIOUS
    <2>2. /\ ShowOrders(a, open)
          /\ UNCHANGED <<serverVars, updates, inUse, screen, products, detail, crashes,
                         completed, failed>>
          /\ cache' = cache
      BY <1>3, <2>1 DEF OrdersFromCache
    <2>3. open = cache[a] \ ToSet(updates[a])
      BY <2>1 DEF Overlay
    <2>4. open \in SUBSET placed
      BY <1>1, <2>3
    <2>5. \A o \in open \cap completed[a] : <<a, o>> \in failed \/ o \in reopened
      BY <1>1, <2>3
    <2> QED BY <1>1, <2>2, <2>4, <2>5, ShowOrdersInv
  <1>4. CASE OrdersFail(a)
    <2>1. /\ ShowOrders(a, {})
          /\ UNCHANGED <<serverVars, updates, inUse, screen, products, detail, crashes,
                         completed, failed>>
          /\ cache' = cache
      BY <1>4 DEF OrdersFail
    <2>2. {} \in SUBSET placed /\ {} \cap completed[a] = {}
      OBVIOUS
    <2> QED BY <1>1, <2>1, <2>2, ShowOrdersInv
  <1> QED BY <1>2, <1>3, <1>4

LEMMA ProductsFetchedInv ==
  ASSUME Inv, NEW a \in Admin, NEW answer \in {Catalogue, <<>>}, ProductsFetched(a, answer)
  PROVE  Inv'
  <1>1. /\ fetching' = [fetching EXCEPT ![a] = @ \ {"products"}]
        /\ products' = [products EXCEPT ![a] = answer]
        /\ UNCHANGED <<serverVars, sdkVars, screen, orders, swipe, detail, toDo,
                       crashes, completed, failed>>
    BY DEF ProductsFetched
  <1>2. /\ products \in [Admin -> Seq(Product)]
        /\ fetching \in [Admin -> SUBSET {"orders", "products"}]
        /\ answer \in Seq(Product)
    <2>1. Catalogue \in Seq(Product) /\ <<>> \in Seq(Product)
      BY CatalogueAssumption, EmptySeq
    <2> QED BY <2>1 DEF Inv, TypeOK
  <1>3. /\ products' \in [Admin -> Seq(Product)]
        /\ fetching' \in [Admin -> SUBSET {"orders", "products"}]
        /\ \A b \in Admin : /\ products'[b] = IF b = a THEN answer ELSE products[b]
                            /\ fetching'[b] \subseteq fetching[b]
    BY <1>1, <1>2
  <1>4. TypeOK'
    BY <1>1, <1>3 DEF Inv, TypeOK
  <1>5. ListInv' /\ DetailInv'
    BY <1>1, <1>3 DEF Inv, ListInv, DetailInv
  <1>6. SwipeIsItsRow' /\ CompletionInv' /\ NotShownAgain'
    BY <1>1 DEF Inv, SwipeIsItsRow, CompletionInv, NotShownAgain
  <1>7. (UniqueIds => DetailIsOrder)'
    BY <1>1, DetailStays
  <1> QED BY <1>4, <1>5, <1>6, <1>7 DEF Inv

\* A list is at most as long as there are orders, which bounds its rows.
LEMMA RowFacts ==
  ASSUME Inv, NEW a \in Admin, NEW i \in DOMAIN orders[a]
  PROVE  /\ i \in 1 .. Len(orders[a]) /\ i \in 1 .. Len(DocOrder)
         /\ orders[a][i] \in placed /\ orders[a][i] \in Order
  <1>1. /\ orders[a] \in Seq(placed) /\ placed \subseteq Order
        /\ IsInjective(orders[a]) /\ ToSet(orders[a]) = toDo[a] /\ toDo[a] \subseteq placed
    BY DEF Inv, TypeOK, ListInv
  <1>2. /\ Len(orders[a]) \in Nat /\ DOMAIN orders[a] = 1 .. Len(orders[a])
        /\ orders[a][i] \in placed
    BY <1>1, LenProperties
  <1>3. Cardinality(toDo[a]) = Len(orders[a])
    BY <1>1, InjectiveLen
  <1>4. Cardinality(toDo[a]) <= Cardinality(Order)
    <2>1. toDo[a] \subseteq Order
      BY <1>1
    <2> QED BY <2>1, OrdersFinite, FS_Subset
  <1>5. Len(orders[a]) <= Len(DocOrder) /\ Len(DocOrder) \in Nat
    BY <1>3, <1>4, OrdersFinite
  <1> QED BY <1>1, <1>2, <1>5

LEMMA SwipeInv ==
  ASSUME Inv, NEW a \in Admin, NEW i \in DOMAIN orders[a], Swipe(a, i)
  PROVE  Inv'
  <1>1. PICK w : w = [row |-> i, order |-> orders[a][i]]
    OBVIOUS
  <1>2. /\ screen[a] = "list" /\ swipe' = [swipe EXCEPT ![a] = w]
        /\ UNCHANGED <<serverVars, sdkVars, screen, orders, products, fetching,
                       detail, toDo, crashes, completed, failed>>
    BY <1>1 DEF Swipe
  <1>3. w \in Swipes /\ w.row = i /\ w.order = orders[a][i]
    BY <1>1, RowFacts DEF Swipes
  <1>4. swipe \in [Admin -> Swipes]
    BY DEF Inv, TypeOK
  <1>5. /\ swipe' \in [Admin -> Swipes]
        /\ \A b \in Admin : swipe'[b] = IF b = a THEN w ELSE swipe[b]
    BY <1>2, <1>3, <1>4
  <1>6. TypeOK'
    BY <1>2, <1>5 DEF Inv, TypeOK
  <1>7. ListInv' /\ SwipeIsItsRow'
    BY <1>2, <1>3, <1>5 DEF Inv, ListInv, SwipeIsItsRow
  <1>8. CompletionInv' /\ NotShownAgain' /\ DetailInv'
    BY <1>2 DEF Inv, CompletionInv, NotShownAgain, DetailInv
  <1>9. (UniqueIds => DetailIsOrder)'
    BY <1>2, DetailStays
  <1> QED BY <1>6, <1>7, <1>8, <1>9 DEF Inv

\* The row of the swipe is removed with the order of the swipe, because they
\* belong together and no other row has this order.
LEMMA CompleteInv ==
  ASSUME Inv, NEW a \in Admin, Complete(a)
  PROVE  Inv'
  <1>1. PICK w : w = swipe[a]
    OBVIOUS
  <1>2. PICK list : list = RemoveAt(orders[a], w.row)
    OBVIOUS
  <1>3. PICK queue : queue = Append(updates[a], w.order)
    OBVIOUS
  <1>4. /\ w # NoSwipe /\ w.row \in DOMAIN orders[a] /\ orders[a][w.row] = w.order
        /\ orders[a] \in Seq(placed) /\ IsInjective(orders[a])
        /\ ToSet(orders[a]) = toDo[a] /\ updates[a] \in Seq(placed)
    BY <1>1 DEF Inv, TypeOK, ListInv, SwipeIsItsRow, Complete
  <1>5. w.row \in 1 .. Len(orders[a]) /\ w.order \in placed
    BY <1>4, RowFacts
  <1>6. /\ list \in Seq(placed) /\ IsInjective(list)
        /\ ToSet(list) = toDo[a] \ {w.order}
    BY <1>2, <1>4, <1>5, RemoveRowFacts
  <1>7. queue \in Seq(placed) /\ ToSet(queue) = ToSet(updates[a]) \cup {w.order}
    BY <1>3, <1>4, <1>5, AppendFacts
  <1>8. /\ updates' = [updates EXCEPT ![a] = queue]
        /\ orders' = [orders EXCEPT ![a] = list]
        /\ swipe' = [swipe EXCEPT ![a] = NoSwipe]
        /\ toDo' = [toDo EXCEPT ![a] = @ \ {w.order}]
        /\ completed' = [completed EXCEPT ![a] = @ \cup {w.order}]
        /\ UNCHANGED <<serverVars, cache, inUse, screen, products, fetching, detail,
                       crashes, failed>>
    BY <1>1, <1>2, <1>3 DEF Complete
  <1>9. /\ updates \in [Admin -> Seq(placed)] /\ orders \in [Admin -> Seq(placed)]
        /\ swipe \in [Admin -> Swipes] /\ NoSwipe \in Swipes
        /\ toDo \in [Admin -> SUBSET placed] /\ completed \in [Admin -> SUBSET placed]
    BY DEF Inv, TypeOK, Swipes
  <1>10. \A b \in Admin :
            /\ updates'[b] = IF b = a THEN queue ELSE updates[b]
            /\ orders'[b] = IF b = a THEN list ELSE orders[b]
            /\ swipe'[b] = IF b = a THEN NoSwipe ELSE swipe[b]
            /\ toDo'[b] = IF b = a THEN toDo[b] \ {w.order} ELSE toDo[b]
            /\ completed'[b] = IF b = a THEN completed[b] \cup {w.order} ELSE completed[b]
    BY <1>8, <1>9
  <1>11. /\ updates' \in [Admin -> Seq(placed)] /\ orders' \in [Admin -> Seq(placed)]
         /\ swipe' \in [Admin -> Swipes]
    BY <1>6, <1>7, <1>8, <1>9
  <1>12. toDo' \in [Admin -> SUBSET placed] /\ completed' \in [Admin -> SUBSET placed]
    BY <1>5, <1>8, <1>9
  <1>13. TypeOK'
    BY <1>8, <1>11, <1>12 DEF Inv, TypeOK
  <1>14. ListInv'
    <2> SUFFICES ASSUME NEW b \in Admin
                 PROVE  /\ IsInjective(orders'[b]) /\ ToSet(orders'[b]) = toDo'[b]
                        /\ "orders" \in fetching[b] => orders'[b] = <<>>
                        /\ swipe'[b] # NoSwipe => screen[b] = "list"
      BY <1>8 DEF ListInv
    <2>1. CASE b = a
      <3>1. "orders" \notin fetching[a]
        <4>1. orders[a] # <<>>
          BY <1>4, EmptySeq
        <4> QED BY <4>1 DEF Inv, ListInv
      <3> QED BY <1>6, <1>10, <2>1, <3>1
    <2>2. CASE b # a
      BY <1>10, <2>2 DEF Inv, ListInv
    <2> QED BY <2>1, <2>2
  <1>15. SwipeIsItsRow'
    BY <1>10 DEF Inv, SwipeIsItsRow
  <1>16. CompletionInv'
    <2> SUFFICES ASSUME NEW b \in Admin, NEW p \in completed'[b]
                 PROVE  \/ p \in ToSet(updates'[b])
                        \/ p \in done /\ p \notin cache[b]
                        \/ <<b, p>> \in failed \/ p \in reopened
      BY <1>8 DEF CompletionInv
    <2>1. p \in completed[b] \/ (b = a /\ p = w.order)
      BY <1>10
    <2>2. p \in completed[b] => \/ p \in ToSet(updates[b])
                                \/ p \in done /\ p \notin cache[b]
                                \/ <<b, p>> \in failed \/ p \in reopened
      BY DEF Inv, CompletionInv
    <2> QED BY <1>7, <1>10, <2>1, <2>2
  <1>17. NotShownAgain'
    <2> SUFFICES ASSUME NEW b \in Admin, NEW p \in ToSet(orders'[b]) \cap completed'[b]
                 PROVE  <<b, p>> \in failed \/ p \in reopened
      BY <1>8 DEF NotShownAgain
    <2>1. CASE b = a
      <3>0. p \in ToSet(list)
        BY <1>10, <2>1
      <3>1. p \in ToSet(orders[b]) /\ p # w.order
        BY <1>4, <1>6, <2>1, <3>0
      <3>2. p \in completed[b]
        BY <1>10, <3>1
      <3> QED BY <3>1, <3>2 DEF Inv, NotShownAgain
    <2>2. CASE b # a
      BY <1>10, <2>2 DEF Inv, NotShownAgain
    <2> QED BY <2>1, <2>2
  <1>18. DetailInv'
    BY <1>8 DEF Inv, DetailInv
  <1>19. (UniqueIds => DetailIsOrder)'
    BY <1>8, DetailStays
  <1> QED BY <1>13, <1>14, <1>15, <1>16, <1>17, <1>18, <1>19 DEF Inv

(***************************************************************************)
(* The detail screen.                                                      *)
(***************************************************************************)

LEMMA DidSelectRowInv ==
  ASSUME Inv, NEW a \in Admin, NEW i \in DOMAIN orders[a], didSelectRow(a, i)
  PROVE  Inv'
  <1>1. PICK o : o = orders[a][i]
    OBVIOUS
  <1>2. PICK ps : ps = products[a]
    OBVIOUS
  <1>3. PICK d : d = [order |-> o, early |-> ps = <<>>,
                      products |-> Join(ProductsID[o], ps)]
    OBVIOUS
  <1>4. /\ screen[a] = "list" /\ screen' = [screen EXCEPT ![a] = "detail"]
        /\ detail' = [detail EXCEPT ![a] = d]
        /\ swipe' = [swipe EXCEPT ![a] = NoSwipe]
        /\ UNCHANGED <<serverVars, sdkVars, orders, products, fetching, toDo,
                       crashes, completed, failed>>
    BY <1>1, <1>2, <1>3 DEF didSelectRow
  <1>5. o \in Order
    BY <1>1, RowFacts
  <1>6. ProductsID[o] \in Seq(Int) /\ ps \in Seq(Product) /\ ps \in {Catalogue, <<>>}
    BY <1>2, <1>5, CatalogueAssumption DEF Inv, TypeOK, DetailInv
  <1>7. /\ d \in [order : Order \cup {NoOrder}, early : BOOLEAN, products : Seq(Product)]
        /\ d.order = o /\ d.early = (ps = <<>>) /\ d.products = Join(ProductsID[o], ps)
    <2>1. Join(ProductsID[o], ps) \in Seq(Product)
      BY <1>6, JoinType
    <2>2. (ps = <<>>) \in BOOLEAN
      OBVIOUS
    <2> QED BY <1>3, <1>5, <2>1, <2>2
  <1>8. /\ screen \in [Admin -> {"off", "closed", "list", "detail"}]
        /\ detail \in [Admin -> [order : Order \cup {NoOrder}, early : BOOLEAN,
                                 products : Seq(Product)]]
        /\ swipe \in [Admin -> Swipes] /\ NoSwipe \in Swipes
    BY DEF Inv, TypeOK, Swipes
  <1>9. /\ screen' \in [Admin -> {"off", "closed", "list", "detail"}]
        /\ detail' \in [Admin -> [order : Order \cup {NoOrder}, early : BOOLEAN,
                                  products : Seq(Product)]]
        /\ swipe' \in [Admin -> Swipes]
        /\ \A b \in Admin :
               /\ screen'[b] = IF b = a THEN "detail" ELSE screen[b]
               /\ detail'[b] = IF b = a THEN d ELSE detail[b]
               /\ swipe'[b] = IF b = a THEN NoSwipe ELSE swipe[b]
    <2> HIDE DEF Inv
    <2> QED BY <1>4, <1>7, <1>8
  <1>10. TypeOK'
    BY <1>4, <1>9 DEF Inv, TypeOK
  <1>11. ListInv' /\ SwipeIsItsRow'
    BY <1>4, <1>9 DEF Inv, ListInv, SwipeIsItsRow
  <1>12. CompletionInv' /\ NotShownAgain'
    BY <1>4 DEF Inv, CompletionInv, NotShownAgain
  <1>13. DetailInv'
    BY <1>4, <1>5, <1>7, <1>9 DEF Inv, DetailInv
  <1>14. (UniqueIds => DetailIsOrder)'
    <2> SUFFICES ASSUME UniqueIds PROVE DetailIsOrder'
      BY DEF UniqueIds
    <2>1. ShowsItsOrder(d)
      <3>1. PICK ids : ids = ProductsID[o]
        OBVIOUS
      <3>2. PICK shown : shown = [k \in DOMAIN d.products |-> IdOf[d.products[k]]]
        OBVIOUS
      <3>3. PICK kept : kept = Keep(ids, {k \in DOMAIN ids :
                                             \E p \in Product : IdOf[p] = ids[k]})
        OBVIOUS
      <3>4. CASE ps = <<>>
        <4>1. d.products = <<>> /\ d.early = TRUE
          BY <1>6, <1>7, <3>4, JoinNothing
        <4>2. shown = <<>>
          <5>1. DOMAIN d.products = {}
            BY <4>1, EmptySeq
          <5> QED BY <3>2, <5>1
        <4> QED BY <1>7, <3>2, <4>1, <4>2 DEF ShowsItsOrder
      <3>5. CASE ps # <<>>
        <4>1. d.products = Join(ids, Catalogue) /\ d.early = FALSE /\ ids \in Seq(Int)
          BY <1>6, <1>7, <3>1, <3>5
        <4>2. shown = kept
          BY <3>2, <3>3, <4>1, JoinFacts
        <4> QED BY <1>7, <3>1, <3>2, <3>3, <4>1, <4>2 DEF ShowsItsOrder
      <3> QED BY <3>4, <3>5
    <2>2. \A b \in Admin : screen'[b] = "detail" => ShowsItsOrder(detail'[b])
      <3>1. PICK e : e = detail
        OBVIOUS
      <3>2. \A b \in Admin : screen[b] = "detail" => ShowsItsOrder(e[b])
        BY <3>1 DEF Inv, DetailIsOrder
      <3>3. PICK f : f = detail'
        OBVIOUS
      <3>4. \A b \in Admin : screen'[b] = "detail" => ShowsItsOrder(f[b])
        BY <1>9, <2>1, <3>1, <3>2, <3>3
      <3> QED BY <3>3, <3>4
    <2> QED BY <2>2 DEF DetailIsOrder
  <1> QED BY <1>10, <1>11, <1>12, <1>13, <1>14 DEF Inv

LEMMA BackToListInv ==
  ASSUME Inv, NEW a \in Admin, BackToList(a)
  PROVE  Inv'
  <1>1. /\ screen[a] = "detail" /\ screen' = [screen EXCEPT ![a] = "list"]
        /\ detail' = [detail EXCEPT ![a] = NoDetail]
        /\ UNCHANGED <<serverVars, sdkVars, orders, products, fetching, swipe,
                       toDo, crashes, completed, failed>>
    BY DEF BackToList
  <1>2. NoDetail \in [order : Order \cup {NoOrder}, early : BOOLEAN,
                      products : Seq(Product)]
    BY EmptySeq DEF NoDetail
  <1>3. /\ screen \in [Admin -> {"off", "closed", "list", "detail"}]
        /\ detail \in [Admin -> [order : Order \cup {NoOrder}, early : BOOLEAN,
                                 products : Seq(Product)]]
    BY DEF Inv, TypeOK
  <1>4. /\ screen' \in [Admin -> {"off", "closed", "list", "detail"}]
        /\ detail' \in [Admin -> [order : Order \cup {NoOrder}, early : BOOLEAN,
                                  products : Seq(Product)]]
        /\ \A b \in Admin :
               /\ screen'[b] = IF b = a THEN "list" ELSE screen[b]
               /\ detail'[b] = IF b = a THEN NoDetail ELSE detail[b]
    BY <1>1, <1>2, <1>3
  <1>5. TypeOK'
    BY <1>1, <1>4 DEF Inv, TypeOK
  <1>6. ListInv' /\ SwipeIsItsRow' /\ DetailInv'
    BY <1>1, <1>4 DEF Inv, ListInv, SwipeIsItsRow, DetailInv
  <1>7. CompletionInv' /\ NotShownAgain'
    BY <1>1 DEF Inv, CompletionInv, NotShownAgain
  <1>8. (UniqueIds => DetailIsOrder)'
    BY <1>4, DetailLeft
  <1> QED BY <1>5, <1>6, <1>7, <1>8 DEF Inv

(***************************************************************************)
(* The end of a screen, and of a process.                                  *)
(***************************************************************************)

LEMMA NoScreenFacts ==
  ASSUME Inv, NEW a \in Admin, NEW state \in {"off", "closed"}, NoScreen(a, state)
  PROVE  /\ screen' \in [Admin -> {"off", "closed", "list", "detail"}]
         /\ orders' \in [Admin -> Seq(placed)]
         /\ products' \in [Admin -> Seq(Product)]
         /\ fetching' \in [Admin -> SUBSET {"orders", "products"}]
         /\ swipe' \in [Admin -> Swipes]
         /\ detail' \in [Admin -> [order : Order \cup {NoOrder}, early : BOOLEAN,
                                   products : Seq(Product)]]
         /\ toDo' \in [Admin -> SUBSET placed]
         /\ ListInv' /\ SwipeIsItsRow' /\ DetailInv'
         /\ (UniqueIds => DetailIsOrder)'
         /\ \A b \in Admin : ToSet(orders'[b]) \subseteq ToSet(orders[b])
  <1>1. /\ screen \in [Admin -> {"off", "closed", "list", "detail"}]
        /\ orders \in [Admin -> Seq(placed)] /\ products \in [Admin -> Seq(Product)]
        /\ fetching \in [Admin -> SUBSET {"orders", "products"}]
        /\ swipe \in [Admin -> Swipes]
        /\ detail \in [Admin -> [order : Order \cup {NoOrder}, early : BOOLEAN,
                                 products : Seq(Product)]]
        /\ toDo \in [Admin -> SUBSET placed]
    BY DEF Inv, TypeOK
  <1>2. /\ NoDetail \in [order : Order \cup {NoOrder}, early : BOOLEAN,
                         products : Seq(Product)]
        /\ <<>> \in Seq(placed) /\ <<>> \in Seq(Product) /\ DOMAIN <<>> = {}
        /\ NoSwipe \in Swipes
    BY EmptySeq DEF NoDetail, Swipes
  <1>3. \A b \in Admin :
            /\ screen'[b] = IF b = a THEN state ELSE screen[b]
            /\ orders'[b] = IF b = a THEN <<>> ELSE orders[b]
            /\ products'[b] = IF b = a THEN <<>> ELSE products[b]
            /\ fetching'[b] = IF b = a THEN {} ELSE fetching[b]
            /\ swipe'[b] = IF b = a THEN NoSwipe ELSE swipe[b]
            /\ detail'[b] = IF b = a THEN NoDetail ELSE detail[b]
            /\ toDo'[b] = IF b = a THEN {} ELSE toDo[b]
    BY <1>1 DEF NoScreen
  <1>4. /\ screen' \in [Admin -> {"off", "closed", "list", "detail"}]
        /\ orders' \in [Admin -> Seq(placed)] /\ products' \in [Admin -> Seq(Product)]
        /\ fetching' \in [Admin -> SUBSET {"orders", "products"}]
        /\ swipe' \in [Admin -> Swipes]
    BY <1>1, <1>2 DEF NoScreen
  <1>5. /\ detail' \in [Admin -> [order : Order \cup {NoOrder}, early : BOOLEAN,
                                  products : Seq(Product)]]
        /\ toDo' \in [Admin -> SUBSET placed]
    BY <1>1, <1>2 DEF NoScreen
  <1>6. ToSet(<<>>) = {} /\ IsInjective(<<>>)
    BY <1>2 DEF ToSet, IsInjective
  <1>7. ListInv'
    <2> SUFFICES ASSUME NEW b \in Admin
                 PROVE  /\ IsInjective(orders'[b]) /\ ToSet(orders'[b]) = toDo'[b]
                        /\ "orders" \in fetching'[b] => orders'[b] = <<>>
                        /\ swipe'[b] # NoSwipe => screen'[b] = "list"
      BY DEF ListInv
    <2>1. CASE b = a
      BY <1>3, <1>6, <2>1
    <2>2. CASE b # a
      BY <1>3, <2>2 DEF Inv, ListInv
    <2> QED BY <2>1, <2>2
  <1>8. SwipeIsItsRow' /\ DetailInv'
    BY <1>3 DEF Inv, SwipeIsItsRow, DetailInv
  <1>9. (UniqueIds => DetailIsOrder)'
    BY <1>3, DetailLeft
  <1>10. \A b \in Admin : ToSet(orders'[b]) \subseteq ToSet(orders[b])
    BY <1>3, <1>6
  <1> QED BY <1>4, <1>5, <1>7, <1>8, <1>9, <1>10

LEMMA CloseInv ==
  ASSUME Inv, NEW a \in Admin, Close(a)
  PROVE  Inv'
  <1>1. /\ NoScreen(a, "closed")
        /\ UNCHANGED <<serverVars, sdkVars, crashes, completed, failed>>
    BY DEF Close
  <1>2. TypeOK'
    BY <1>1, NoScreenFacts DEF Inv, TypeOK
  <1>3. /\ ListInv' /\ SwipeIsItsRow' /\ DetailInv' /\ (UniqueIds => DetailIsOrder)'
        /\ \A b \in Admin : ToSet(orders'[b]) \subseteq ToSet(orders[b])
    BY <1>1, NoScreenFacts
  <1>4. CompletionInv' /\ NotShownAgain'
    BY <1>1, <1>3 DEF Inv, CompletionInv, NotShownAgain
  <1> QED BY <1>2, <1>3, <1>4 DEF Inv

\* What a crash takes from the queue of the phone is lost.
LEMMA CrashInv ==
  ASSUME Inv, NEW a \in Admin, NEW n \in 0 .. Len(updates[a]), Crash(a, n)
  PROVE  Inv'
  <1>1. PICK queue : queue = SubSeq(updates[a], 1, n)
    OBVIOUS
  <1>2. PICK lost : lost = SubSeq(updates[a], n + 1, Len(updates[a]))
    OBVIOUS
  <1>3. /\ NoScreen(a, "off") /\ crashes < MaxCrashes /\ crashes' = crashes + 1
        /\ updates' = [updates EXCEPT ![a] = queue]
        /\ failed' = failed \cup {<<a, o>> : o \in ToSet(lost)}
        /\ UNCHANGED <<serverVars, cache, inUse, completed>>
    BY <1>1, <1>2 DEF Crash
  <1>4. updates \in [Admin -> Seq(placed)]
    BY DEF Inv, TypeOK
  <1>5. queue \in Seq(placed) /\ ToSet(updates[a]) = ToSet(queue) \cup ToSet(lost)
    BY <1>1, <1>2, <1>4, CutFacts
  <1>6. ToSet(lost) \subseteq placed
    <2>1. ToSet(updates[a]) \subseteq placed
      BY <1>4, LenProperties DEF ToSet
    <2> QED BY <1>5, <2>1
  <1>7. /\ updates' \in [Admin -> Seq(placed)]
        /\ \A b \in Admin : updates'[b] = IF b = a THEN queue ELSE updates[b]
    BY <1>3, <1>4, <1>5
  <1>8. failed \subseteq failed' /\ failed' \subseteq Admin \X placed
    BY <1>3, <1>6 DEF Inv, TypeOK
  <1>9. crashes' \in 0 .. MaxCrashes
    BY <1>3, BoundAssumption DEF Inv, TypeOK
  <1>10. TypeOK'
    BY <1>3, <1>7, <1>8, <1>9, NoScreenFacts DEF Inv, TypeOK
  <1>11. /\ ListInv' /\ SwipeIsItsRow' /\ DetailInv' /\ (UniqueIds => DetailIsOrder)'
         /\ \A b \in Admin : ToSet(orders'[b]) \subseteq ToSet(orders[b])
    BY <1>3, NoScreenFacts
  <1>12. CompletionInv'
    <2> SUFFICES ASSUME NEW b \in Admin, NEW p \in completed[b]
                 PROVE  \/ p \in ToSet(updates'[b])
                        \/ p \in done /\ p \notin cache[b]
                        \/ <<b, p>> \in failed' \/ p \in reopened
      BY <1>3 DEF CompletionInv
    <2>1. \/ p \in ToSet(updates[b])
          \/ p \in done /\ p \notin cache[b]
          \/ <<b, p>> \in failed \/ p \in reopened
      BY DEF Inv, CompletionInv
    <2>2. CASE b = a
      BY <1>3, <1>5, <1>7, <2>1, <2>2
    <2>3. CASE b # a
      BY <1>7, <1>8, <2>1, <2>3
    <2> QED BY <2>2, <2>3
  <1>13. NotShownAgain'
    <2> SUFFICES ASSUME NEW b \in Admin, NEW p \in ToSet(orders'[b]) \cap completed[b]
                 PROVE  <<b, p>> \in failed' \/ p \in reopened
      BY <1>3 DEF NotShownAgain
    <2> QED BY <1>8, <1>11 DEF Inv, NotShownAgain
  <1> QED BY <1>10, <1>11, <1>12, <1>13 DEF Inv

(***************************************************************************)
(* The invariant and what follows from it.                                 *)
(***************************************************************************)

LEMMA InvInit == Init => Inv
  <1> SUFFICES ASSUME Init PROVE Inv
    OBVIOUS
  <1>1. /\ <<>> \in Seq(placed) /\ <<>> \in Seq(Product) /\ DOMAIN <<>> = {}
        /\ NoDetail \in [order : Order \cup {NoOrder}, early : BOOLEAN,
                         products : Seq(Product)]
        /\ NoSwipe \in Swipes /\ 0 \in 0 .. MaxCrashes
    BY EmptySeq, BoundAssumption DEF NoDetail, Swipes
  <1>2. ToSet(<<>>) = {} /\ IsInjective(<<>>)
    BY <1>1 DEF ToSet, IsInjective
  <1>3. TypeOK
    BY <1>1 DEF Init, TypeOK
  <1>4. ListInv /\ SwipeIsItsRow /\ CompletionInv /\ NotShownAgain
    BY <1>2 DEF Init, ListInv, SwipeIsItsRow, CompletionInv, NotShownAgain
  <1>5. DetailInv /\ DetailIsOrder
    BY DEF Init, DetailInv, DetailIsOrder
  <1> QED BY <1>3, <1>4, <1>5 DEF Inv

LEMMA InvNext == Inv /\ [Next]_vars => Inv'
  <1> SUFFICES ASSUME Inv, [Next]_vars PROVE Inv'
    OBVIOUS
  <1>1. CASE UNCHANGED vars
    <2>1. UNCHANGED <<serverVars, sdkVars, screen, orders, products, fetching,
                      swipe, detail, crashes, toDo, completed, failed>>
      BY <1>1 DEF vars, screenVars
    <2>2. (UniqueIds => DetailIsOrder)'
      BY <2>1, DetailStays
    <2> QED BY <2>1, <2>2 DEF Inv, TypeOK, ListInv, SwipeIsItsRow, CompletionInv,
                              NotShownAgain, DetailInv
  <1>2. ASSUME NEW o \in Order, PlaceOrder(o) \/ OrderAcknowledged(o) PROVE Inv'
    BY <1>2, PlaceOrderInv, OrderAcknowledgedInv
  <1>3. ASSUME NEW a \in Admin, Administrator(a) PROVE Inv'
    BY <1>3, AccountInv, LaunchInv, ViewDidLoadInv, CompleteInv, BackToListInv,
       CloseInv, SwipeInv, DidSelectRowInv DEF Administrator
  <1>4. ASSUME NEW a \in Admin, Answer(a) PROVE Inv'
    BY <1>4, OrdersAnsweredInv, ProductsFetchedInv DEF Answer
  <1>5. ASSUME NEW a \in Admin, UpdateApplied(a) \/ Send(a) PROVE Inv'
    BY <1>5, UpdateAppliedInv, UpdateAcceptedInv, UpdateRejectedInv DEF Send
  <1>6. ASSUME NEW a \in Admin, NEW n \in 0 .. Len(updates[a]), Crash(a, n) PROVE Inv'
    BY <1>6, CrashInv
  <1> QED BY <1>1, <1>2, <1>3, <1>4, <1>5, <1>6 DEF Next

\* Whatever answers, swipes, rejections and crashes meet on the administrators'
\* phones, what the proof needs of the state stays true.
THEOREM AdministrationInvariant == Spec => []Inv
  BY InvInit, InvNext, PTL DEF Spec

\* Each variable keeps its type.
THEOREM AdministrationTypeCorrect == Spec => []TypeOK
  <1>1. Inv => TypeOK
    BY DEF Inv
  <1> QED BY <1>1, AdministrationInvariant, PTL

\* If no two products have one id, the button of a swipe removes the row of its
\* order, and the detail screen has the products of its order (trailing swipe,
\* didSelectRowAt).
THEOREM TakenSafe == UniqueIds => (Spec => []TakenIsRight)
  <1> SUFFICES ASSUME UniqueIds PROVE Spec => []TakenIsRight
    OBVIOUS
  <1>1. Inv => TakenIsRight
    BY DEF Inv, TakenIsRight
  <1> QED BY <1>1, AdministrationInvariant, PTL

\* The list is what was fetched without what its administrator has completed
\* since, each order once.
THEOREM ListSafe == Spec => []LeavesOnlyCompleted
  <1>1. ASSUME Inv PROVE LeavesOnlyCompleted
    <2> SUFFICES ASSUME NEW a \in Admin
                 PROVE  /\ ToSet(orders[a]) = toDo[a]
                        /\ Len(orders[a]) = Cardinality(toDo[a])
      BY DEF LeavesOnlyCompleted
    <2>1. /\ orders[a] \in Seq(placed) /\ IsInjective(orders[a])
          /\ ToSet(orders[a]) = toDo[a]
      BY <1>1 DEF Inv, TypeOK, ListInv
    <2> QED BY <2>1, InjectiveLen
  <1>2. Inv => LeavesOnlyCompleted
    BY <1>1
  <1> QED BY <1>2, AdministrationInvariant, PTL

\* What an administrator has completed comes back to his list only if the
\* completion was lost in a crash or rejected, or the phone of the customer wrote
\* the order again.
THEOREM CompletedSafe == Spec => []NotShownAgain
  <1>1. Inv => NotShownAgain
    BY DEF Inv
  <1> QED BY <1>1, AdministrationInvariant, PTL
=============================================================================
