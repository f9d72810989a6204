--------------------------- MODULE CheckoutProofs ---------------------------
(***************************************************************************)
(* Proofs about Checkout, for any number of products, accounts, promocodes *)
(* and crashes.                                                            *)
(***************************************************************************)
EXTENDS Checkout, TableProofs

(***************************************************************************)
(* Prices.                                                                 *)
(***************************************************************************)

\* The running totals of a table: they exist, by induction on the number of
\* products added up.
RunningTotals(t, n, f) ==
    /\ f \in [0 .. n -> Nat]
    /\ f[0] = 0
    /\ \A k \in 1 .. n : f[k] = f[k - 1] + Price[t[k]]

\* Every table has its running totals.
LEMMA RunningTotalsExist ==
  ASSUME NEW t \in Seq(Item)
  PROVE  \E f : RunningTotals(t, Len(t), f)
  <1> DEFINE T == {n \in Nat : n > Len(t) \/ \E f : RunningTotals(t, n, f)}
  <1>1. Len(t) \in Nat /\ \A k \in 1 .. Len(t) : t[k] \in Item
    BY LenProperties
  <1>2. 0 \in T
    <2>1. RunningTotals(t, 0, [k \in 0 .. 0 |-> 0])
      BY DEF RunningTotals
    <2> QED BY <2>1
  <1>3. ASSUME NEW n \in T PROVE n + 1 \in T
    <2>1. CASE n + 1 > Len(t)
      BY <2>1
    <2>2. CASE n + 1 <= Len(t)
      <3>1. n \in Nat /\ n <= Len(t) /\ n + 1 \in 1 .. Len(t)
        BY <1>1, <2>2
      <3>2. PICK f : RunningTotals(t, n, f)
        BY <1>1, <3>1
      <3>3. Price[t[n + 1]] \in Nat
        BY <1>1, <3>1, PriceAssumption
      <3> DEFINE g == [k \in 0 .. n + 1 |->
                         IF k = n + 1 THEN f[n] + Price[t[n + 1]] ELSE f[k]]
      <3>4. g \in [0 .. n + 1 -> Nat]
        BY <3>1, <3>2, <3>3 DEF RunningTotals
      <3>5. g[0] = 0
        BY <3>1, <3>2 DEF RunningTotals
      <3>6. ASSUME NEW k \in 1 .. n + 1 PROVE g[k] = g[k - 1] + Price[t[k]]
        <4>1. CASE k = n + 1
          BY <3>1, <4>1
        <4>2. CASE k # n + 1
          <5>1. k \in 1 .. n /\ k - 1 \in 0 .. n + 1 /\ k - 1 # n + 1
            BY <3>1, <4>2
          <5> QED BY <3>1, <3>2, <5>1 DEF RunningTotals
        <4> QED BY <4>1, <4>2
      <3>7. RunningTotals(t, n + 1, g)
        BY <3>4, <3>5, <3>6 DEF RunningTotals
      <3> QED BY <3>1, <3>7
    <2> QED BY <1>1, <2>1, <2>2
  <1>4. T = Nat
    <2> HIDE DEF T
    <2>1. T \subseteq Nat
      BY DEF T
    <2> QED BY <1>2, <1>3, <2>1, NatSetInduction
  <1> QED BY <1>1, <1>4

\* The total of a table is a natural number, and 0 for the empty table.
LEMMA TotalFacts ==
  ASSUME NEW t \in Seq(Item)
  PROVE  Total(t) \in Nat /\ (t = <<>> => Total(t) = 0)
  <1> DEFINE step(f) == [n \in 0 .. Len(t) |->
                           IF n = 0 THEN 0 ELSE f[n - 1] + Price[t[n]]]
             sum == CHOOSE f : f = step(f)
  <1>1. Len(t) \in Nat
    BY LenProperties
  <1>2. Total(t) = sum[Len(t)]
    BY DEF Total
  <1>3. \E f : f = step(f)
    <2>1. PICK f : RunningTotals(t, Len(t), f)
      BY RunningTotalsExist
    <2>2. f = step(f)
      BY <1>1, <2>1 DEF RunningTotals
    <2> QED BY <2>2
  <1>4. sum = step(sum)
    BY <1>3
  <1> HIDE DEF sum
  <1> DEFINE T == {n \in Nat : n <= Len(t) => sum[n] \in Nat}
  <1>5. 0 \in T
    BY <1>1, <1>4
  <1>6. ASSUME NEW n \in T PROVE n + 1 \in T
    <2>1. CASE n + 1 <= Len(t)
      <3>1. n + 1 \in 1 .. Len(t) /\ sum[n] \in Nat
        BY <1>1, <2>1
      <3>2. t[n + 1] \in Item
        BY <3>1, ElementOfSeq
      <3>3. sum[n + 1] = sum[n] + Price[t[n + 1]]
        BY <1>4, <3>1
      <3> QED BY <3>1, <3>2, <3>3, PriceAssumption
    <2> QED BY <2>1
  <1>7. T = Nat
    <2> HIDE DEF T
    <2>1. T \subseteq Nat
      BY DEF T
    <2> QED BY <1>5, <1>6, <2>1, NatSetInduction
  <1>8. Total(t) \in Nat
    BY <1>1, <1>2, <1>7
  <1>9. t = <<>> => Total(t) = 0
    BY <1>1, <1>2, <1>4
  <1> QED BY <1>8, <1>9

\* A discount never raises a price.
LEMMA DiscountedFacts ==
  ASSUME NEW total \in Nat, NEW percent \in Nat
  PROVE  /\ Discounted(total, percent) \in Int
         /\ Discounted(total, percent) <= total
         /\ Discounted(total, 0) = total
  <1>1. total * percent \in Nat
    OBVIOUS
  <1>2. \A n \in Nat : n \div 100 \in Nat
    OBVIOUS
  <1>3. (total * percent) \div 100 \in Nat
    BY <1>1, <1>2
  <1>4. (total * 0) \div 100 = 0
    OBVIOUS
  <1> QED BY <1>3, <1>4 DEF Discounted

(***************************************************************************)
(* What Delivery promises, proved from its actions, for any writes.        *)
(* Whatever implements Delivery keeps it, the SDK's write path first of all*)
(***************************************************************************)
\* Beside the order of the answers, the order in which writes reach the disk:
\* behind a write that is in memory there are only writes in memory.
PromiseInv ==
    /\ Firestore!TypeOK
    /\ Firestore!AnswersInOrder
    /\ \A v, w \in DOMAIN writes :
           v < w /\ writes[v].place = "memory" => writes[w].place = "memory"

\* A write that changes its place keeps its account, and the others stay.
LEMMA PromiseMove ==
  ASSUME Firestore!TypeOK, NEW w \in DOMAIN writes, NEW p \in Firestore!Place,
         writes' = [writes EXCEPT ![w].place = p]
  PROVE  /\ Firestore!TypeOK'
         /\ DOMAIN writes' = DOMAIN writes
         /\ \A v \in DOMAIN writes :
                /\ writes'[v].owner = writes[v].owner
                /\ writes'[v].place = IF v = w THEN p ELSE writes[v].place
  <1>1. writes[w] \in [owner : User, place : Firestore!Place]
    BY ElementOfSeq, LenProperties DEF Firestore!TypeOK
  <1>2. [writes[w] EXCEPT !.place = p] \in [owner : User, place : Firestore!Place]
    BY <1>1
  <1>3. writes' = [writes EXCEPT ![w] = [writes[w] EXCEPT !.place = p]]
    OBVIOUS
  <1>4. Firestore!TypeOK'
    BY <1>2, <1>3, ExceptSeq DEF Firestore!TypeOK
  <1> QED BY <1>1, <1>3, <1>4 DEF Firestore!TypeOK

LEMMA PromiseMake ==
  ASSUME PromiseInv, NEW u \in User, Firestore!Make(u) PROVE PromiseInv'
  <1> DEFINE k == Len(writes) + 1
  <1>1. /\ writes \in Seq([owner : User, place : Firestore!Place])
        /\ Firestore!Made(u) \in [owner : User, place : Firestore!Place]
        /\ Firestore!Made(u).place = "memory"
    BY DEF PromiseInv, Firestore!TypeOK, Firestore!Made, Firestore!Place
  <1>2. /\ Firestore!TypeOK'
        /\ Len(writes) \in Nat
        /\ DOMAIN writes = 1 .. Len(writes)
        /\ DOMAIN writes' = 1 .. k
        /\ \A v \in DOMAIN writes : writes'[v] = writes[v]
        /\ writes'[k].place = "memory"
    BY <1>1, AppendProperties, LenProperties DEF Firestore!Make, Firestore!TypeOK
  <1>3. \A v, w \in DOMAIN writes' : v < w => v \in DOMAIN writes
    BY <1>2
  <1>4. \A w \in DOMAIN writes' : w = k \/ w \in DOMAIN writes
    BY <1>2
  <1>5. Firestore!AnswersInOrder'
    BY <1>2, <1>3, <1>4 DEF PromiseInv, Firestore!AnswersInOrder,
       Firestore!Outcome
  <1>6. \A v, w \in DOMAIN writes' :
            v < w /\ writes'[v].place = "memory" => writes'[w].place = "memory"
    BY <1>2, <1>3, <1>4 DEF PromiseInv
  <1> QED BY <1>2, <1>5, <1>6 DEF PromiseInv

LEMMA PromisePersist ==
  ASSUME PromiseInv, NEW w \in DOMAIN writes, Firestore!Persist(w)
  PROVE  PromiseInv'
  <1>1. /\ Firestore!TypeOK'
        /\ DOMAIN writes' = DOMAIN writes
        /\ DOMAIN writes \subseteq Nat
        /\ \A v \in DOMAIN writes :
               /\ writes'[v].owner = writes[v].owner
               /\ writes'[v].place = IF v = w THEN "disk" ELSE writes[v].place
    <2>1. /\ Firestore!TypeOK /\ "disk" \in Firestore!Place
          /\ writes' = [writes EXCEPT ![w].place = "disk"]
      BY DEF PromiseInv, Firestore!Persist, Firestore!Place
    <2>2. DOMAIN writes \subseteq Nat
      BY <2>1, LenProperties DEF Firestore!TypeOK
    <2> QED BY <2>1, <2>2, PromiseMove
  <1>2. /\ writes[w].place = "memory"
        /\ \A v \in DOMAIN writes : writes[v].place = "memory" => w <= v
    BY DEF Firestore!Persist, Firestore!First
  <1>3. Firestore!AnswersInOrder'
    BY <1>1, <1>2 DEF PromiseInv, Firestore!AnswersInOrder, Firestore!Outcome
  <1>4. \A v, x \in DOMAIN writes' :
            v < x /\ writes'[v].place = "memory" => writes'[x].place = "memory"
    BY <1>1, <1>2 DEF PromiseInv
  <1> QED BY <1>1, <1>3, <1>4 DEF PromiseInv

LEMMA PromiseAnswer ==
  ASSUME PromiseInv, NEW w \in DOMAIN writes, NEW outcome \in Firestore!Outcome,
         Firestore!Answer(w, outcome)
  PROVE  PromiseInv'
  <1>1. /\ Firestore!TypeOK'
        /\ DOMAIN writes' = DOMAIN writes
        /\ DOMAIN writes \subseteq Nat
        /\ \A v \in DOMAIN writes :
               /\ writes'[v].owner = writes[v].owner
               /\ writes'[v].place = IF v = w THEN outcome ELSE writes[v].place
    <2>1. /\ Firestore!TypeOK /\ outcome \in Firestore!Place
          /\ writes' = [writes EXCEPT ![w].place = outcome]
      BY DEF PromiseInv, Firestore!Answer, Firestore!Place
    <2>2. DOMAIN writes \subseteq Nat
      BY <2>1, LenProperties DEF Firestore!TypeOK
    <2> QED BY <2>1, <2>2, PromiseMove
  <1>2. /\ writes[w].place = "disk"
        /\ \A v \in DOMAIN writes :
               writes[v].place = "disk" /\ writes[v].owner = writes[w].owner
               => w <= v
    BY DEF Firestore!Answer, Firestore!First
  <1>3. Firestore!AnswersInOrder'
    BY <1>1, <1>2 DEF PromiseInv, Firestore!AnswersInOrder, Firestore!Outcome
  <1>4. \A v, x \in DOMAIN writes' :
            v < x /\ writes'[v].place = "memory" => writes'[x].place = "memory"
    BY <1>1, <1>2 DEF PromiseInv, Firestore!Outcome
  <1> QED BY <1>1, <1>3, <1>4 DEF PromiseInv

LEMMA PromiseCrash ==
  ASSUME PromiseInv, Firestore!Crash PROVE PromiseInv'
  <1>1. /\ writes \in Seq([owner : User, place : Firestore!Place])
        /\ Len(writes) \in Nat
        /\ DOMAIN writes = 1 .. Len(writes)
        /\ \A v \in DOMAIN writes :
               writes[v] \in [owner : User, place : Firestore!Place]
    BY LenProperties, ElementOfSeq DEF PromiseInv, Firestore!TypeOK
  <1>2. \A v \in DOMAIN writes :
            /\ writes'[v] \in [owner : User, place : Firestore!Place]
            /\ writes'[v].owner = writes[v].owner
            /\ writes'[v].place = IF writes[v].place = "memory" THEN "lost"
                                  ELSE writes[v].place
    BY <1>1 DEF Firestore!Crash, Firestore!Place
  <1>3. DOMAIN writes' = DOMAIN writes
    BY DEF Firestore!Crash
  <1>4. Firestore!TypeOK'
    BY <1>1, <1>2, <1>3, SeqDef DEF Firestore!Crash, Firestore!TypeOK
  <1>5. Firestore!AnswersInOrder'
    BY <1>2, <1>3 DEF PromiseInv, Firestore!AnswersInOrder, Firestore!Outcome
  <1>6. \A v, x \in DOMAIN writes' :
            v < x /\ writes'[v].place = "memory" => writes'[x].place = "memory"
    BY <1>2, <1>3 DEF PromiseInv
  <1> QED BY <1>4, <1>5, <1>6 DEF PromiseInv

\* The inductive invariant of the contract.
THEOREM DeliveryInvariant == Firestore!Spec => []PromiseInv
  <1>1. Firestore!Init => PromiseInv
    <2> SUFFICES ASSUME Firestore!Init PROVE PromiseInv
      OBVIOUS
    <2>1. writes = <<>> /\ DOMAIN writes = {}
      BY DEF Firestore!Init
    <2> QED BY <2>1 DEF PromiseInv, Firestore!TypeOK, Firestore!AnswersInOrder
  <1>2. PromiseInv /\ [Firestore!Next]_writes => PromiseInv'
    <2> SUFFICES ASSUME PromiseInv, [Firestore!Next]_writes PROVE PromiseInv'
      OBVIOUS
    <2>1. CASE \E u \in User : Firestore!Make(u)
      BY <2>1, PromiseMake
    <2>2. CASE \E w \in DOMAIN writes : Firestore!Persist(w)
      BY <2>2, PromisePersist
    <2>3. CASE \E w \in DOMAIN writes, outcome \in Firestore!Outcome :
                   Firestore!Answer(w, outcome)
      BY <2>3, PromiseAnswer
    <2>4. CASE Firestore!Crash
      BY <2>4, PromiseCrash
    <2>5. CASE UNCHANGED writes
      BY <2>5 DEF PromiseInv, Firestore!TypeOK, Firestore!AnswersInOrder
    <2> QED BY <2>1, <2>2, <2>3, <2>4, <2>5 DEF Firestore!Next
  <1> QED BY <1>1, <1>2, PTL DEF Firestore!Spec

\* The writes of one account are answered in the order in which they were made,
\* whatever the shop below does and however the SDK implements the contract.
THEOREM ContractInOrder == Firestore!Spec => []Firestore!AnswersInOrder
  <1>1. PromiseInv => Firestore!AnswersInOrder
    BY DEF PromiseInv
  <1> QED BY <1>1, DeliveryInvariant, PTL

(***************************************************************************)
(* The invariant behind the screen properties.                             *)
(***************************************************************************)

\* What is always true between two steps of the screen: an alert and a running
\* handler belong to a screen that is shown, the loop of formOrder has to
\* delete exactly what is in the table, and the order alert is over a
\* basket with something in it.
ScreenInv ==
    /\ screen \in {"hidden", "shown"} => user \in User
    /\ alert # "none" => screen = "shown"
    /\ pc = "clearing" => screen = "shown" /\ alert = "none"
    /\ pc = "idle" => toDelete = <<>>
    /\ IsInjective(toDelete)
    /\ pc = "clearing" => ToSet(toDelete) = ToSet(basket)
    /\ alert = "order" => basket # <<>>

Inv ==
    /\ TypeOK
    /\ ScreenInv
    /\ RowsMatchTable
    /\ SwipeIsLive
    /\ TotalIsFresh

(***************************************************************************)
(* Lemmas about prices and orders.                                         *)
(***************************************************************************)

\* A promocode is worth a natural number of percent, and an empty one nothing.
LEMMA CheckFacts ==
  ASSUME NEW code \in Code \cup {NoCode}
  PROVE  /\ checkPromocode(code) \in Nat
         /\ checkPromocode(NoCode) = 0
  BY CodeAssumption DEF checkPromocode

\* The total on the screen is an integer, and 0 for an empty basket.
LEMMA UpdatePriceFacts ==
  ASSUME NEW t \in Seq(Item), NEW code \in Code \cup {NoCode}
  PROVE  /\ updatePrice(t, code) \in Int
         /\ t = <<>> => updatePrice(t, code) = 0
  BY TotalFacts, CheckFacts, DiscountedFacts DEF updatePrice

\* The order that "Buy" forms: it has the type of an order, takes the whole
\* basket, and costs at most the total on the screen.
LEMMA NewOrderFacts ==
  ASSUME Inv, Idle, alert = "order",
         NEW o, o = NewOrder(checkPromocode(promocode))
  PROVE  /\ o \in Order
         /\ o.user = user
         /\ o.items = ToSet(basket)
         /\ o.items # {}
         /\ o.price <= o.shown
  <1> DEFINE percent == checkPromocode(promocode)
             total == Total(basket)
  <1>1. percent \in Nat /\ total \in Nat /\ checkPromocode(NoCode) = 0
    BY CheckFacts, TotalFacts DEF Inv, TypeOK
  <1>2. /\ Discounted(total, percent) \in Int
        /\ Discounted(total, percent) <= total
        /\ Discounted(total, 0) = total
    BY <1>1, DiscountedFacts
  <1>3. totalPrice \in {total, updatePrice(basket, promocode)}
    BY DEF Inv, Idle, ScreenInv, TotalIsFresh
  <1>4. Charge(basket, percent) <= totalPrice
    <2>1. CASE promocode = NoCode
      BY <1>1, <1>2, <1>3, <2>1 DEF Charge, updatePrice
    <2>2. CASE promocode # NoCode
      BY <1>1, <1>2, <1>3, <2>2 DEF Charge, updatePrice
    <2> QED BY <2>1, <2>2
  <1>5. ToSet(basket) \in SUBSET Item /\ ToSet(basket) # {}
    <2>1. basket \in Seq(Item) /\ basket # <<>>
      BY DEF Inv, TypeOK, ScreenInv
    <2>2. Len(basket) \in Nat \ {0} /\ DOMAIN basket = 1 .. Len(basket)
      BY <2>1, EmptySeq, LenProperties
    <2> QED BY <2>1, <2>2, ElementOfSeq DEF ToSet
  <1>6. user \in User /\ totalPrice \in Int
    BY DEF Inv, Idle, ScreenInv, TypeOK
  <1>7. Charge(basket, percent) \in Int
    BY <1>2 DEF Charge
  <1> HIDE DEF percent, total
  <1>8. o = [user |-> user, items |-> ToSet(basket), shown |-> totalPrice,
             price |-> Charge(basket, percent), discount |-> percent]
    BY DEF NewOrder, percent
  <1> QED BY <1>1, <1>4, <1>5, <1>6, <1>7, <1>8 DEF Order

(***************************************************************************)
(* The invariant holds initially and every step preserves it.              *)
(***************************************************************************)

\* Before the customer enters the shop there is no screen and no product.
LEMMA InitInv == Init => Inv
  <1> SUFFICES ASSUME Init PROVE Inv
    OBVIOUS
  <1>1. IsInjective(<<>>)
    BY DEF IsInjective
  <1>2. TypeOK /\ ScreenInv
    BY <1>1, UserAssumption DEF Init, TypeOK, ScreenInv, Firestore!Init,
           Firestore!TypeOK
  <1>3. RowsMatchTable /\ SwipeIsLive /\ TotalIsFresh
    BY DEF Init, RowsMatchTable, SwipeIsLive, TotalIsFresh
  <1> QED BY <1>2, <1>3 DEF Inv

\* Steps that open, show, hide or dismiss the screen.
LEMMA EnterShopInv ==
  ASSUME Inv, NEW u \in User, EnterShop(u) PROVE Inv'
  <1>1. TypeOK'
    BY DEF Inv, TypeOK, Firestore!TypeOK, EnterShop, mainVars, history
  <1>2. ScreenInv'
    BY DEF Inv, TypeOK, ScreenInv, EnterShop, mainVars, history
  <1>3. RowsMatchTable' /\ SwipeIsLive' /\ TotalIsFresh'
    BY DEF EnterShop, RowsMatchTable, SwipeIsLive, TotalIsFresh
  <1> QED BY <1>1, <1>2, <1>3 DEF Inv

\* A product added from another tab goes into a table no screen shows.
LEMMA AddToBasketInv ==
  ASSUME Inv, NEW x \in Item, AddToBasket(x), ToSet(basket) \subseteq used
  PROVE  Inv'
  <1>1. basket' \in Seq(Item) /\ IsInjective(basket')
    BY AppendFacts DEF Inv, TypeOK, AddToBasket
  <1>2. TypeOK'
    BY <1>1 DEF Inv, TypeOK, Firestore!TypeOK, AddToBasket, screenVars, mainVars
  <1>3. ScreenInv'
    BY DEF Inv, TypeOK, ScreenInv, AddToBasket, screenVars, mainVars
  <1>4. RowsMatchTable' /\ SwipeIsLive' /\ TotalIsFresh'
    BY DEF AddToBasket, RowsMatchTable, SwipeIsLive, TotalIsFresh
  <1> QED BY <1>2, <1>3, <1>4 DEF Inv

\* viewWillAppear fills the rows, closes the swipe and updates the price.
LEMMA AppearInv ==
  ASSUME Inv, Appear PROVE Inv'
  <1>1. updatePrice(basket, promocode) \in Int
    BY UpdatePriceFacts DEF Inv, TypeOK
  <1>2. TypeOK'
    BY <1>1 DEF Inv, TypeOK, Firestore!TypeOK, Appear, Refresh, mainVars, history
  <1>3. ScreenInv'
    BY DEF Inv, TypeOK, ScreenInv, Appear, Refresh, mainVars, history
  <1>4. RowsMatchTable' /\ SwipeIsLive'
    BY DEF Appear, Refresh, RowsMatchTable, SwipeIsLive
  <1>5. TotalIsFresh'
    BY DEF Appear, Refresh, TotalIsFresh, updatePrice, checkPromocode
  <1> QED BY <1>2, <1>3, <1>4, <1>5 DEF Inv

\* A tab switch leaves the hidden screen with whatever it has.
LEMMA LeaveInv ==
  ASSUME Inv, Leave PROVE Inv'
  <1>1. TypeOK'
    BY DEF Inv, TypeOK, Firestore!TypeOK, Leave, screenVars, mainVars, history
  <1>2. ScreenInv'
    BY DEF Inv, TypeOK, ScreenInv, Leave, Ready, screenVars, mainVars, history
  <1>3. RowsMatchTable' /\ SwipeIsLive' /\ TotalIsFresh'
    BY DEF Leave, RowsMatchTable, SwipeIsLive, TotalIsFresh
  <1> QED BY <1>1, <1>2, <1>3 DEF Inv

\* Sign-out dismisses the screen and leaves the table alone.
LEMMA LogoutInv ==
  ASSUME Inv, logoutTapped PROVE Inv'
  <1>1. TypeOK'
    BY DEF Inv, TypeOK, Firestore!TypeOK, logoutTapped, NoScreen, mainVars, history
  <1>2. ScreenInv'
    BY DEF Inv, TypeOK, ScreenInv, logoutTapped, NoScreen, Ready, mainVars, history
  <1>3. RowsMatchTable' /\ SwipeIsLive' /\ TotalIsFresh'
    BY DEF logoutTapped, RowsMatchTable, SwipeIsLive, TotalIsFresh
  <1> QED BY <1>1, <1>2, <1>3 DEF Inv

\* Steps on the rows of the table view.
LEMMA CellForRowInv ==
  ASSUME Inv, NEW i \in DOMAIN rows, CellForRow(i) PROVE Inv'
  <1>1. /\ rows \in Seq(Item) /\ basket \in Seq(Item)
        /\ Len(rows) = Len(basket)
        /\ i \in 1 .. Len(basket)
    BY LenProperties DEF Inv, TypeOK, CellForRow, Ready, RowsMatchTable
  <1>2. basket[i] \in Item
    BY <1>1, ElementOfSeq
  <1>3. rows' \in Seq(Item) /\ Len(rows') = Len(rows)
    BY <1>1, <1>2, ExceptSeq DEF CellForRow
  <1>4. TypeOK'
    BY <1>3 DEF Inv, TypeOK, Firestore!TypeOK, CellForRow, mainVars, history
  <1>5. ScreenInv'
    BY DEF Inv, TypeOK, ScreenInv, CellForRow, mainVars, history
  <1>6. RowsMatchTable'
    BY <1>1, <1>3 DEF CellForRow, RowsMatchTable
  <1>7. SwipeIsLive' /\ TotalIsFresh'
    BY DEF Inv, CellForRow, SwipeIsLive, TotalIsFresh, updatePrice,
           checkPromocode, mainVars
  <1> QED BY <1>4, <1>5, <1>6, <1>7 DEF Inv

\* A swipe captures the product at the index of its row.
LEMMA RevealSwipeInv ==
  ASSUME Inv, NEW i \in DOMAIN rows, RevealSwipe(i) PROVE Inv'
  <1>1. /\ rows \in Seq(Item) /\ basket \in Seq(Item)
        /\ Len(rows) = Len(basket)
        /\ i \in 1 .. Len(basket) /\ i \in DOMAIN basket
    BY LenProperties DEF Inv, TypeOK, RevealSwipe, Ready, RowsMatchTable
  <1>2. basket[i] \in Item /\ i \in Nat
    BY <1>1, ElementOfSeq, LenProperties
  <1>3. swipe' \in [row : Nat, product : Item]
        /\ swipe'.row = i /\ swipe'.product = basket[i]
    BY <1>2 DEF RevealSwipe
  <1>4. TypeOK'
    BY <1>3 DEF Inv, TypeOK, Firestore!TypeOK, RevealSwipe, mainVars, history
  <1>5. ScreenInv'
    BY DEF Inv, TypeOK, ScreenInv, RevealSwipe, mainVars, history
  <1>6. SwipeIsLive'
    BY <1>1, <1>3 DEF RevealSwipe, SwipeIsLive
  <1>7. RowsMatchTable' /\ TotalIsFresh'
    BY DEF Inv, RevealSwipe, RowsMatchTable, TotalIsFresh, updatePrice,
           checkPromocode, mainVars
  <1> QED BY <1>4, <1>5, <1>6, <1>7 DEF Inv

\* "Delete" takes one object and one row away, whichever row moves over it.
LEMMA TapDeleteInv ==
  ASSUME Inv, TapDelete PROVE Inv'
  <1>1. /\ rows \in Seq(Item) /\ basket \in Seq(Item) /\ IsInjective(basket)
        /\ Len(rows) = Len(basket)
        /\ swipe.row \in DOMAIN basket /\ basket[swipe.row] = swipe.product
    BY DEF Inv, TypeOK, TapDelete, Ready, RowsMatchTable, SwipeIsLive
  <1>2. swipe.product \in ToSet(basket) /\ swipe.row \in 1 .. Len(rows)
    BY <1>1, LenProperties DEF ToSet
  <1>3. /\ basket' \in Seq(Item) /\ IsInjective(basket')
        /\ Len(basket') = Len(basket) - 1
        /\ rows' \in Seq(Item) /\ Len(rows') = Len(rows) - 1
    BY <1>1, <1>2, EraseFacts, RemoveAtFacts DEF TapDelete
  <1>4. updatePrice(basket', promocode) \in Int
    BY <1>3, UpdatePriceFacts DEF Inv, TypeOK
  <1>5. swipe.product \in Item
    BY <1>1, LenProperties, ElementOfSeq
  <1>6. TypeOK'
    BY <1>3, <1>4, <1>5 DEF Inv, TypeOK, Firestore!TypeOK, TapDelete, mainVars
  <1>7. ScreenInv'
    BY DEF Inv, TypeOK, ScreenInv, TapDelete, Ready, mainVars
  <1>8. RowsMatchTable' /\ SwipeIsLive'
    BY <1>1, <1>3 DEF TapDelete, RowsMatchTable, SwipeIsLive
  <1>9. TotalIsFresh'
    BY DEF TapDelete, TotalIsFresh, updatePrice, checkPromocode
  <1> QED BY <1>6, <1>7, <1>8, <1>9 DEF Inv

\* Alerts and promocodes.
LEMMA AlertInv ==
  ASSUME Inv, promocodeTapped \/ buyTapped \/ DismissAlert PROVE Inv'
  <1>1. TypeOK'
    BY DEF Inv, TypeOK, Firestore!TypeOK, promocodeTapped, buyTapped,
           DismissAlert, mainVars, history
  <1>2. buyTapped /\ alert' = "order" => basket # <<>>
    <2>1. SUFFICES ASSUME buyTapped, alert' = "order", basket = <<>>
                   PROVE  FALSE
      OBVIOUS
    <2>2. totalPrice # 0
      BY <2>1 DEF buyTapped
    <2>3. totalPrice \in {Total(basket), updatePrice(basket, promocode)}
      BY <2>1 DEF Inv, buyTapped, Ready, TotalIsFresh
    <2>4. Total(basket) = 0 /\ updatePrice(basket, promocode) = 0
      BY <2>1, TotalFacts, UpdatePriceFacts DEF Inv, TypeOK
    <2> QED BY <2>2, <2>3, <2>4
  <1>3. ScreenInv'
    BY <1>2 DEF Inv, TypeOK, ScreenInv, promocodeTapped, buyTapped,
           DismissAlert, Ready, Idle, mainVars, history
  <1>4. RowsMatchTable' /\ SwipeIsLive' /\ TotalIsFresh'
    BY DEF Inv, promocodeTapped, buyTapped, DismissAlert, RowsMatchTable,
           SwipeIsLive, TotalIsFresh, updatePrice, checkPromocode, mainVars
  <1> QED BY <1>1, <1>3, <1>4 DEF Inv

\* A typed promocode recomputes the total of the present basket.
LEMMA ConfirmPromoInv ==
  ASSUME Inv, NEW code \in Code \cup {NoCode}, ConfirmPromo(code) PROVE Inv'
  <1>1. updatePrice(basket, code) \in Int
    BY UpdatePriceFacts DEF Inv, TypeOK
  <1>2. TypeOK'
    BY <1>1 DEF Inv, TypeOK, Firestore!TypeOK, ConfirmPromo, mainVars, history
  <1>3. ScreenInv'
    BY DEF Inv, TypeOK, ScreenInv, ConfirmPromo, Idle, mainVars, history
  <1>4. RowsMatchTable' /\ SwipeIsLive'
    BY DEF Inv, ConfirmPromo, RowsMatchTable, SwipeIsLive, mainVars
  <1>5. TotalIsFresh'
    BY DEF ConfirmPromo, TotalIsFresh, updatePrice, checkPromocode
  <1> QED BY <1>2, <1>3, <1>4, <1>5 DEF Inv

\* The codes arrive after the total was computed without them.
LEMMA PromocodesFetchedInv ==
  ASSUME Inv, NEW result \in {"loaded", "failed"}, PromocodesFetched(result)
  PROVE  Inv'
  <1>1. TypeOK'
    BY DEF Inv, TypeOK, Firestore!TypeOK, PromocodesFetched, mainVars, history
  <1>2. ScreenInv'
    BY DEF Inv, TypeOK, ScreenInv, PromocodesFetched, mainVars, history
  <1>3. RowsMatchTable' /\ SwipeIsLive'
    BY DEF Inv, PromocodesFetched, RowsMatchTable, SwipeIsLive, mainVars
  <1>4. TotalIsFresh'
    <2>1. checkPromocode(promocode) = 0
      BY DEF PromocodesFetched, checkPromocode
    <2>2. Total(basket) \in Nat
      BY TotalFacts DEF Inv, TypeOK
    <2>3. updatePrice(basket, promocode) = Total(basket)
      BY <2>1, <2>2, DiscountedFacts DEF updatePrice
    <2> QED BY <2>3 DEF Inv, PromocodesFetched, TotalIsFresh, mainVars
  <1> QED BY <1>1, <1>2, <1>3, <1>4 DEF Inv

\* The handler of "Buy".
LEMMA ConfirmBuyInv ==
  ASSUME Inv, ConfirmBuy PROVE Inv'
  <1>1. NewOrder(checkPromocode(promocode)) \in Order
    BY NewOrderFacts DEF ConfirmBuy
  <1>2. orders' \in Seq(Order) /\ Len(orders') = Len(orders) + 1
    BY <1>1, AppendProperties DEF Inv, TypeOK, ConfirmBuy
  <1>3. Firestore!TypeOK' /\ Len(writes') = Len(writes) + 1
    <2>1. user \in User
      BY DEF Inv, ScreenInv, ConfirmBuy, Idle
    <2>2. Firestore!Made(user) \in [owner : User, place : Firestore!Place]
      BY <2>1 DEF Firestore!Made, Firestore!Place
    <2> QED BY <2>2, AppendProperties
            DEF Inv, TypeOK, Firestore!TypeOK, ConfirmBuy, Firestore!Make
  <1>4. TypeOK'
    BY <1>2, <1>3 DEF Inv, TypeOK, ConfirmBuy, history
  <1>5. ScreenInv'
    BY DEF Inv, TypeOK, ScreenInv, ConfirmBuy, Idle, history
  <1>6. RowsMatchTable' /\ SwipeIsLive' /\ TotalIsFresh'
    BY DEF ConfirmBuy, RowsMatchTable, SwipeIsLive, TotalIsFresh
  <1> QED BY <1>4, <1>5, <1>6 DEF Inv

\* One iteration of the loop deletes the same object from table and list.
LEMMA ClearNextInv ==
  ASSUME Inv, ClearNext PROVE Inv'
  <1>1. /\ basket \in Seq(Item) /\ IsInjective(basket)
        /\ toDelete \in Seq(Item) /\ IsInjective(toDelete) /\ toDelete # <<>>
        /\ ToSet(toDelete) = ToSet(basket)
    BY DEF Inv, TypeOK, ScreenInv, ClearNext
  <1>2. /\ Head(toDelete) \in ToSet(basket)
        /\ toDelete' \in Seq(Item) /\ IsInjective(toDelete')
        /\ ToSet(toDelete') = ToSet(toDelete) \ {Head(toDelete)}
    BY <1>1, TailFacts DEF ClearNext
  <1>3. /\ basket' \in Seq(Item) /\ IsInjective(basket')
        /\ ToSet(basket') = ToSet(basket) \ {Head(toDelete)}
    BY <1>1, <1>2, EraseFacts DEF ClearNext
  <1>4. TypeOK'
    BY <1>2, <1>3 DEF Inv, TypeOK, Firestore!TypeOK, ClearNext, screenVars, history
  <1>5. ScreenInv'
    BY <1>1, <1>2, <1>3 DEF Inv, TypeOK, ScreenInv, ClearNext, screenVars,
       history
  <1>6. RowsMatchTable' /\ SwipeIsLive' /\ TotalIsFresh'
    BY DEF ClearNext, RowsMatchTable, SwipeIsLive, TotalIsFresh
  <1> QED BY <1>4, <1>5, <1>6 DEF Inv

\* The end of the handler fills the rows of the emptied table again.
LEMMA FinishBuyInv ==
  ASSUME Inv, FinishBuy PROVE Inv'
  <1>1. updatePrice(basket, promocode) \in Int
    BY UpdatePriceFacts DEF Inv, TypeOK
  <1>2. TypeOK'
    BY <1>1 DEF Inv, TypeOK, Firestore!TypeOK, FinishBuy, Refresh, history
  <1>3. ScreenInv'
    BY DEF Inv, TypeOK, ScreenInv, FinishBuy, Refresh, history
  <1>4. RowsMatchTable' /\ SwipeIsLive'
    BY DEF FinishBuy, Refresh, RowsMatchTable, SwipeIsLive
  <1>5. TotalIsFresh'
    BY DEF FinishBuy, Refresh, TotalIsFresh, updatePrice, checkPromocode
  <1> QED BY <1>2, <1>3, <1>4, <1>5 DEF Inv

\* Each order has its write.
LEMMA OrdersAndWrites ==
  ASSUME TypeOK PROVE DOMAIN writes = DOMAIN orders
  BY LenProperties DEF TypeOK, Firestore!TypeOK

\* A step of the SDK or the server moves one write, and not to "lost".
LEMMA WriteMoves ==
  ASSUME Inv, NEW n \in DOMAIN orders,
         \/ PersistWrite(n)
         \/ \E answer \in Firestore!Outcome : ServerAnswer(n, answer)
  PROVE  /\ Firestore!TypeOK'
         /\ Len(writes') = Len(writes)
         /\ \A m \in DOMAIN orders :
                writes'[m].place = "lost" <=> writes[m].place = "lost"
  <1>1. PICK p \in Firestore!Place \ {"lost"} :
            writes' = [writes EXCEPT ![n].place = p]
    BY DEF PersistWrite, ServerAnswer, Firestore!Persist, Firestore!Answer,
           Firestore!Place, Firestore!Outcome
  <1>2. writes[n].place # "lost"
    BY DEF PersistWrite, ServerAnswer, Firestore!Persist, Firestore!Answer,
           Firestore!First
  <1>3. Firestore!TypeOK /\ DOMAIN writes = DOMAIN orders
    BY OrdersAndWrites DEF Inv, TypeOK
  <1>4. /\ Firestore!TypeOK'
        /\ DOMAIN writes' = DOMAIN writes
        /\ \A m \in DOMAIN writes :
               writes'[m].place = IF m = n THEN p ELSE writes[m].place
    BY <1>1, <1>3, PromiseMove
  <1>5. Len(writes') = Len(writes)
    BY <1>3, <1>4, LenProperties DEF Firestore!TypeOK
  <1> QED BY <1>1, <1>2, <1>3, <1>4, <1>5

\* The screen learns nothing of it.
LEMMA DeliveryInv ==
  ASSUME Inv, NEW n \in DOMAIN orders,
         \/ PersistWrite(n)
         \/ \E answer \in Firestore!Outcome : ServerAnswer(n, answer)
  PROVE  Inv'
  <1>1. Firestore!TypeOK' /\ Len(writes') = Len(writes)
    BY WriteMoves
  <1>2. UNCHANGED <<basket, screen, screenVars, mainVars, user, orders, crashes,
                    history>>
    BY DEF PersistWrite, ServerAnswer
  <1>3. TypeOK'
    BY <1>1, <1>2 DEF Inv, TypeOK, screenVars, mainVars, history
  <1>4. ScreenInv'
    BY <1>2 DEF Inv, ScreenInv, screenVars, mainVars
  <1>5. RowsMatchTable' /\ SwipeIsLive' /\ TotalIsFresh'
    BY <1>2 DEF Inv, RowsMatchTable, SwipeIsLive, TotalIsFresh, updatePrice,
       checkPromocode, screenVars, mainVars
  <1> QED BY <1>3, <1>4, <1>5 DEF Inv

\* A crash moves the writes in memory to "lost".
LEMMA CrashWrites ==
  ASSUME Inv, Crash
  PROVE  /\ Firestore!TypeOK'
         /\ Len(writes') = Len(writes)
         /\ \A m \in DOMAIN orders :
                writes'[m].place = IF writes[m].place = "memory" THEN "lost"
                                   ELSE writes[m].place
  <1>1. /\ writes \in Seq([owner : User, place : Firestore!Place])
        /\ Len(writes) \in Nat
        /\ DOMAIN writes = 1 .. Len(writes)
        /\ DOMAIN orders = DOMAIN writes
        /\ \A v \in DOMAIN writes :
               writes[v] \in [owner : User, place : Firestore!Place]
    BY LenProperties, ElementOfSeq, OrdersAndWrites
       DEF Inv, TypeOK, Firestore!TypeOK
  <1>2. \A v \in DOMAIN writes :
            /\ writes'[v] \in [owner : User, place : Firestore!Place]
            /\ writes'[v].place = IF writes[v].place = "memory" THEN "lost"
                                  ELSE writes[v].place
    BY <1>1 DEF Crash, Firestore!Crash, Firestore!Place
  <1>3. DOMAIN writes' = DOMAIN writes
    BY DEF Crash, Firestore!Crash
  <1>4. Firestore!TypeOK'
    BY <1>1, <1>2, <1>3, SeqDef DEF Crash, Firestore!Crash, Firestore!TypeOK
  <1>5. Len(writes') = Len(writes)
    BY <1>1, <1>3, <1>4, LenProperties DEF Firestore!TypeOK
  <1> QED BY <1>1, <1>2, <1>4, <1>5

\* A crash leaves nothing of the screen and of the running handler.
LEMMA CrashInv ==
  ASSUME Inv, Crash PROVE Inv'
  <1>1. Firestore!TypeOK' /\ Len(writes') = Len(writes)
    BY CrashWrites
  <1>2. ToSet(toDelete) \in SUBSET Item
    BY ElementOfSeq, LenProperties DEF Inv, TypeOK, ToSet
  <1>3. dropped' \in SUBSET Item
    <2>1. \A n \in DOMAIN orders : orders[n].items \in SUBSET Item
      <3>1. \A n \in DOMAIN orders : orders[n] \in Order
        BY ElementOfSeq, LenProperties DEF Inv, TypeOK
      <3> QED BY <3>1 DEF Order
    <2>2. Products(At("memory")) \in SUBSET Item
      BY <2>1 DEF Products, At
    <2> QED BY <2>2 DEF Inv, TypeOK, Crash
  <1>4. TypeOK'
    BY <1>1, <1>2, <1>3 DEF Inv, TypeOK, Crash, NoScreen
  <1>5. ScreenInv'
    BY DEF Inv, ScreenInv, Crash, NoScreen, IsInjective
  <1>6. RowsMatchTable' /\ SwipeIsLive' /\ TotalIsFresh'
    BY DEF Crash, RowsMatchTable, SwipeIsLive, TotalIsFresh
  <1> QED BY <1>4, <1>5, <1>6 DEF Inv

\* A launch shows the login screen, which has no basket on it.
LEMMA LaunchInv ==
  ASSUME Inv, Launch PROVE Inv'
  <1>1. TypeOK'
    BY DEF Inv, TypeOK, Firestore!TypeOK, Launch, screenVars, mainVars, history
  <1>2. ScreenInv'
    BY DEF Inv, ScreenInv, Launch, screenVars, mainVars, history
  <1>3. RowsMatchTable' /\ SwipeIsLive' /\ TotalIsFresh'
    BY DEF Launch, RowsMatchTable, SwipeIsLive, TotalIsFresh
  <1> QED BY <1>1, <1>2, <1>3 DEF Inv

\* Stuttering changes nothing.
LEMMA StutterInv ==
  ASSUME Inv, UNCHANGED vars PROVE Inv'
  <1>1. TypeOK' /\ ScreenInv'
    BY DEF Inv, TypeOK, Firestore!TypeOK, ScreenInv, vars, screenVars,
           mainVars, history
  <1>2. RowsMatchTable' /\ SwipeIsLive' /\ TotalIsFresh'
    BY DEF Inv, RowsMatchTable, SwipeIsLive, TotalIsFresh, updatePrice,
           checkPromocode, vars, screenVars, mainVars
  <1> QED BY <1>1, <1>2 DEF Inv

(***************************************************************************)
(* The products.                                                           *)
(***************************************************************************)

\* every product ever put into the basket is in it, ordered or deleted
Accounted == used = ToSet(basket) \cup Ordered \cup removed

\* What ProductLife needs to be inductive: a deleted product is out of the table,
\* and while the loop of formOrder runs, the products in the table belong to an
\* order that is not lost, and those ordered before are left by a crash.
ProductInv ==
    /\ Accounted
    /\ NothingVanishes
    /\ removed \cap ToSet(basket) = {}
    /\ pc = "clearing" => ToSet(basket) \subseteq Held
    /\ Ordered \cap ToSet(basket) \subseteq interrupted \cup ToSet(toDelete)
    /\ \A m, n \in DOMAIN orders :
           m # n => orders[m].items \cap orders[n].items \subseteq interrupted
    /\ RemovedIsNotSold
    /\ NoEmptyOrder
    /\ ChargedAtMostShown

\* The products of an order are kept until its write is lost.
LEMMA HeldFacts ==
  /\ Held \subseteq Ordered
  /\ \A x : x \in Held <=>
         \E n \in DOMAIN orders : writes[n].place # "lost" /\ x \in orders[n].items
  BY DEF Held, Ordered, Products, At

\* The same facts after a step.
LEMMA HeldFactsNext ==
  /\ Held' \subseteq Ordered'
  /\ \A x : x \in Held' <=>
         \E n \in DOMAIN orders' :
             writes'[n].place # "lost" /\ x \in orders'[n].items
  BY DEF Held, Ordered, Products, At

\* A new order adds exactly its own products to the ordered ones.
LEMMA OrderedAfterAppend ==
  ASSUME orders \in Seq(Order), NEW o \in Order, orders' = Append(orders, o)
  PROVE  /\ DOMAIN orders' = DOMAIN orders \cup {Len(orders) + 1}
         /\ Len(orders) + 1 \notin DOMAIN orders
         /\ \A n \in DOMAIN orders : orders'[n] = orders[n]
         /\ orders'[Len(orders) + 1] = o
         /\ Ordered' = Ordered \cup o.items
  <1>1. /\ Len(orders) \in Nat
        /\ DOMAIN orders = 1 .. Len(orders)
        /\ DOMAIN orders' = 1 .. Len(orders) + 1
    BY LenProperties
  <1>2. /\ DOMAIN orders' = DOMAIN orders \cup {Len(orders) + 1}
        /\ Len(orders) + 1 \notin DOMAIN orders
        /\ \A n \in DOMAIN orders : orders'[n] = orders[n]
        /\ orders'[Len(orders) + 1] = o
    BY <1>1
  <1>3. Ordered' = Ordered \cup o.items
    BY <1>2 DEF Ordered, Products
  <1> QED BY <1>2, <1>3

\* At first there are no products and no orders.
LEMMA ProductInit == Init => ProductInv
  <1> SUFFICES ASSUME Init PROVE ProductInv
    OBVIOUS
  <1>1. /\ basket = <<>> /\ toDelete = <<>> /\ orders = <<>> /\ dropped = {}
        /\ used = {} /\ removed = {} /\ pc = "idle"
    BY DEF Init
  <1>2. DOMAIN orders = {} /\ ToSet(basket) = {} /\ Ordered = {}
    <2>1. DOMAIN <<>> = {}
      OBVIOUS
    <2> QED BY <1>1, <2>1 DEF ToSet, Ordered, Products
  <1> QED BY <1>1, <1>2 DEF ProductInv, Accounted, NothingVanishes, Vanished,
          RemovedIsNotSold, NoEmptyOrder, ChargedAtMostShown

\* Steps that change neither the table, nor an order, nor a write, nor the
\* history.
LEMMA OtherProduct ==
  ASSUME ProductInv, UNCHANGED <<basket, mainVars, orders, writes, history>>
  PROVE  ProductInv'
  <1>1. Ordered' = Ordered /\ Held' = Held
    BY DEF Ordered, Held, Products, At
  <1> QED BY <1>1 DEF ProductInv, Accounted, NothingVanishes, Vanished,
          RemovedIsNotSold, NoEmptyOrder, ChargedAtMostShown, mainVars, history

\* A new object is in no order and was never deleted.
LEMMA AddToBasketProduct ==
  ASSUME Inv, ProductInv, NEW x \in Item, AddToBasket(x) PROVE ProductInv'
  <1>1. ToSet(basket') = ToSet(basket) \cup {x}
    BY AppendFacts DEF Inv, TypeOK, AddToBasket
  <1>2. Ordered' = Ordered /\ Held' = Held
    BY DEF AddToBasket, Ordered, Held, Products, At
  <1>3. pc = "idle"
    BY DEF Inv, TypeOK, ScreenInv, AddToBasket
  <1>4. Vanished' = Vanished
    BY <1>1, <1>2 DEF Vanished, AddToBasket
  <1> QED BY <1>1, <1>2, <1>3, <1>4 DEF ProductInv, AddToBasket, Accounted,
          NothingVanishes, RemovedIsNotSold, NoEmptyOrder, ChargedAtMostShown,
          mainVars

\* A deleted product leaves the table and was in no order, unless a crash had
\* interrupted the one that contained it.
LEMMA TapDeleteProduct ==
  ASSUME Inv, ProductInv, TapDelete PROVE ProductInv'
  <1>1. /\ basket \in Seq(Item) /\ IsInjective(basket)
        /\ swipe.row \in DOMAIN basket /\ basket[swipe.row] = swipe.product
    BY DEF Inv, TypeOK, TapDelete, Ready, SwipeIsLive
  <1>2. swipe.product \in ToSet(basket)
    BY <1>1 DEF ToSet
  <1>3. ToSet(basket') = ToSet(basket) \ {swipe.product}
    BY <1>1, <1>2, EraseFacts DEF TapDelete
  <1>4. Ordered' = Ordered /\ Held' = Held
    BY DEF TapDelete, Ordered, Held, Products, At
  <1>5. pc = "idle" /\ toDelete = <<>> /\ ToSet(toDelete) = {}
    BY DEF Inv, ScreenInv, TapDelete, Ready, ToSet
  <1>6. Vanished' = Vanished
    BY <1>2, <1>3, <1>4 DEF Vanished, TapDelete
  <1> QED BY <1>2, <1>3, <1>4, <1>5, <1>6 DEF ProductInv, TapDelete, Accounted,
          NothingVanishes, RemovedIsNotSold, NoEmptyOrder, ChargedAtMostShown,
          mainVars

\* The new order takes the whole table, all of which the loop has to delete.
LEMMA ConfirmBuyProduct ==
  ASSUME Inv, ProductInv, ConfirmBuy PROVE ProductInv'
  <1> DEFINE o == NewOrder(checkPromocode(promocode))
             k == Len(orders) + 1
  <1>1. /\ o \in Order /\ o.items = ToSet(basket) /\ o.items # {}
        /\ o.price <= o.shown
    BY NewOrderFacts DEF ConfirmBuy
  <1> HIDE DEF o
  <1>2. orders \in Seq(Order) /\ orders' = Append(orders, o)
    BY DEF Inv, TypeOK, ConfirmBuy, o
  <1>3. /\ DOMAIN orders' = DOMAIN orders \cup {k}
        /\ k \notin DOMAIN orders
        /\ \A n \in DOMAIN orders : orders'[n] = orders[n]
        /\ orders'[k] = o
        /\ Ordered' = Ordered \cup o.items
    BY <1>1, <1>2, OrderedAfterAppend
  <1>4. writes'[k].place # "lost"
        /\ \A n \in DOMAIN orders : writes'[n] = writes[n]
    <2>1. /\ Firestore!TypeOK /\ Len(writes) = Len(orders)
          /\ Len(writes) \in Nat /\ DOMAIN orders = 1 .. Len(writes)
      BY <1>2, LenProperties DEF Inv, TypeOK, Firestore!TypeOK
    <2>2. writes' = Append(writes, Firestore!Made(user))
      BY DEF ConfirmBuy, Firestore!Make
    <2>3. /\ \A n \in 1 .. Len(writes) : writes'[n] = writes[n]
          /\ writes'[Len(writes) + 1] = Firestore!Made(user)
      BY <2>1, <2>2 DEF Firestore!TypeOK
    <2> QED BY <2>1, <2>3 DEF Firestore!Made
  <1> HIDE DEF k
  <1>5. Held' = Held \cup o.items
    BY <1>3, <1>4, HeldFacts, HeldFactsNext
  <1>6. toDelete = <<>> /\ ToSet(toDelete) = {}
    BY DEF Inv, ScreenInv, ConfirmBuy, Idle, ToSet
  <1>7. \A n \in DOMAIN orders : orders[n].items \subseteq Ordered
    BY DEF Ordered, Products
  <1>8. Ordered \cap ToSet(basket) \subseteq interrupted
    BY <1>6 DEF ProductInv
  <1>9. ASSUME NEW m \in DOMAIN orders', NEW n \in DOMAIN orders', m # n
        PROVE  orders'[m].items \cap orders'[n].items \subseteq interrupted'
    <2>1. interrupted' = interrupted
      BY DEF ConfirmBuy, history
    <2>2. CASE m \in DOMAIN orders /\ n \in DOMAIN orders
      BY <1>3, <1>9, <2>1, <2>2 DEF ProductInv
    <2>3. CASE m = k \/ n = k
      BY <1>1, <1>3, <1>7, <1>8, <1>9, <2>1, <2>3
    <2> QED BY <1>3, <2>2, <2>3
  <1>10. NoEmptyOrder' /\ ChargedAtMostShown'
    BY <1>1, <1>3 DEF ProductInv, NoEmptyOrder, ChargedAtMostShown
  <1>11. Accounted' /\ RemovedIsNotSold'
    BY <1>1, <1>3 DEF ProductInv, Accounted, RemovedIsNotSold, ConfirmBuy, history
  <1>12. NothingVanishes'
    <2>1. Vanished' = Vanished
      BY <1>1, <1>5 DEF Vanished, ConfirmBuy, history
    <2> QED BY <2>1 DEF ProductInv, NothingVanishes, ConfirmBuy, history
  <1>13. /\ removed' \cap ToSet(basket') = {}
         /\ ToSet(basket') \subseteq Held'
         /\ ToSet(basket') \subseteq Ordered'
         /\ ToSet(toDelete') = ToSet(basket')
    BY <1>1, <1>3, <1>5 DEF ProductInv, ConfirmBuy, history
  <1> QED BY <1>9, <1>10, <1>11, <1>12, <1>13 DEF ProductInv

\* The loop only deletes what is in the order just formed, which is not lost.
LEMMA ClearNextProduct ==
  ASSUME Inv, ProductInv, ClearNext PROVE ProductInv'
  <1>1. /\ basket \in Seq(Item) /\ IsInjective(basket)
        /\ toDelete \in Seq(Item) /\ IsInjective(toDelete) /\ toDelete # <<>>
        /\ ToSet(toDelete) = ToSet(basket)
    BY DEF Inv, TypeOK, ScreenInv, ClearNext
  <1>2. /\ Head(toDelete) \in ToSet(basket)
        /\ ToSet(toDelete') = ToSet(toDelete) \ {Head(toDelete)}
    BY <1>1, TailFacts DEF ClearNext
  <1>3. ToSet(basket') = ToSet(basket) \ {Head(toDelete)}
    BY <1>1, <1>2, EraseFacts DEF ClearNext
  <1>4. /\ Ordered' = Ordered /\ Held' = Held
        /\ Head(toDelete) \in Held /\ Head(toDelete) \in Ordered
    BY <1>2, HeldFacts DEF ProductInv, ClearNext, Ordered, Held, Products, At
  <1>5. Vanished' = Vanished
    BY <1>3, <1>4 DEF Vanished, ClearNext, history
  <1> QED BY <1>1, <1>2, <1>3, <1>4, <1>5 DEF ProductInv, ClearNext, Accounted,
          NothingVanishes, RemovedIsNotSold, NoEmptyOrder, ChargedAtMostShown,
          history

\* When the handler ends nothing that was ordered is left to delete.
LEMMA FinishBuyProduct ==
  ASSUME ProductInv, FinishBuy PROVE ProductInv'
  <1>1. Ordered' = Ordered /\ Held' = Held
    BY DEF FinishBuy, Ordered, Held, Products, At
  <1> QED BY <1>1 DEF ProductInv, FinishBuy, Accounted, NothingVanishes,
          Vanished, RemovedIsNotSold, NoEmptyOrder, ChargedAtMostShown, history

\* A crash adds what the loop had not deleted to the interrupted products, and
\* what only an order in memory had to the dropped ones.
LEMMA CrashProduct ==
  ASSUME Inv, ProductInv, Crash PROVE ProductInv'
  <1>1. /\ UNCHANGED <<basket, orders, used, removed>>
        /\ interrupted' = interrupted \cup ToSet(toDelete)
        /\ dropped' = dropped \cup (Products(At("memory")) \ ToSet(basket))
        /\ pc' = "idle"
    BY DEF Crash
  <1>2. Ordered' = Ordered
    BY <1>1 DEF Ordered, Products
  <1>3. \A n \in DOMAIN orders :
            writes'[n].place = IF writes[n].place = "memory" THEN "lost"
                               ELSE writes[n].place
    BY CrashWrites
  <1>4. \A x : x \in Products(At("memory")) <=>
            \E n \in DOMAIN orders :
                writes[n].place = "memory" /\ x \in orders[n].items
    BY DEF Products, At
  <1>5. Held' \subseteq Held /\ Held \ Held' \subseteq Products(At("memory"))
    BY <1>1, <1>3, <1>4, HeldFacts, HeldFactsNext
  <1>6. Held' \cap Products(At("memory")) \subseteq interrupted
    <2>1. SUFFICES ASSUME NEW x \in Held', x \in Products(At("memory"))
                   PROVE  x \in interrupted
      OBVIOUS
    <2>2. PICK n \in DOMAIN orders :
              writes[n].place = "memory" /\ x \in orders[n].items
      BY <1>4, <2>1
    <2>3. PICK m \in DOMAIN orders :
              writes'[m].place # "lost" /\ x \in orders[m].items
      BY <1>1, <2>1, HeldFactsNext
    <2>4. m # n
      BY <1>3, <2>2, <2>3
    <2> QED BY <2>2, <2>3, <2>4 DEF ProductInv
  <1>7. Products(At("memory")) \subseteq Ordered
    BY DEF Products, At, Ordered
  <1>8. NothingVanishes'
    <2>1. Vanished' \subseteq dropped'
      <3>1. Vanished' \subseteq Vanished \cup (Held \ Held')
        BY <1>1 DEF Vanished
      <3>2. Vanished' \cap ToSet(basket) = {}
        BY <1>1 DEF Vanished
      <3> QED BY <1>1, <1>5, <3>1, <3>2 DEF ProductInv, NothingVanishes
    <2>2. dropped' \ Vanished' \subseteq interrupted'
      <3>1. Vanished \subseteq Vanished'
        BY <1>1, <1>5 DEF Vanished
      <3>2. ASSUME NEW x \in Products(At("memory")), x \notin ToSet(basket),
                   x \notin Vanished'
            PROVE  x \in interrupted
        <4>1. x \in used
          BY <1>7, <3>2 DEF ProductInv, Accounted
        <4>2. x \in removed \/ x \in Held'
          BY <1>1, <3>2, <4>1 DEF Vanished
        <4> QED BY <1>6, <1>7, <3>2, <4>2 DEF ProductInv, RemovedIsNotSold
      <3> QED BY <1>1, <3>1, <3>2 DEF ProductInv, NothingVanishes
    <2> QED BY <2>1, <2>2 DEF NothingVanishes
  <1>9. Ordered' \cap ToSet(basket') \subseteq interrupted' \cup ToSet(toDelete')
    BY <1>1, <1>2 DEF ProductInv
  <1>10. /\ Accounted' /\ RemovedIsNotSold' /\ NoEmptyOrder' /\ ChargedAtMostShown'
         /\ \A m, n \in DOMAIN orders' :
                m # n => orders'[m].items \cap orders'[n].items \subseteq interrupted'
    BY <1>1, <1>2 DEF ProductInv, Accounted, RemovedIsNotSold, NoEmptyOrder,
       ChargedAtMostShown
  <1> QED BY <1>1, <1>8, <1>9, <1>10 DEF ProductInv

\* SDK and server move a write, but lose none.
LEMMA DeliveryProduct ==
  ASSUME Inv, ProductInv, NEW n \in DOMAIN orders,
         \/ PersistWrite(n)
         \/ \E answer \in Firestore!Outcome : ServerAnswer(n, answer)
  PROVE  ProductInv'
  <1>1. UNCHANGED <<basket, mainVars, orders, history>>
    BY DEF PersistWrite, ServerAnswer
  <1>2. Ordered' = Ordered
    BY <1>1 DEF Ordered, Products
  <1>3. Held' = Held
    BY <1>1, WriteMoves, HeldFacts, HeldFactsNext
  <1> QED BY <1>1, <1>2, <1>3 DEF ProductInv, Accounted, NothingVanishes,
          Vanished, RemovedIsNotSold, NoEmptyOrder, ChargedAtMostShown,
          mainVars, history

(***************************************************************************)
(* All together.                                                           *)
(***************************************************************************)

IInv == Inv /\ ProductInv

\* Every step preserves the inductive invariant: one case per action.
LEMMA NextIInv ==
  ASSUME IInv, [Next]_vars PROVE IInv'
  <1>1. ASSUME NEW u \in User, EnterShop(u) PROVE IInv'
    BY <1>1, EnterShopInv, OtherProduct DEF IInv, EnterShop
  <1>2. ASSUME NEW x \in Item, AddToBasket(x) PROVE IInv'
    <2>1. ToSet(basket) \subseteq used
      BY DEF IInv, ProductInv, Accounted
    <2> QED BY <1>2, <2>1, AddToBasketInv, AddToBasketProduct DEF IInv, AddToBasket
  <1>3. CASE Appear
    BY <1>3, AppearInv, OtherProduct DEF IInv, Appear
  <1>4. CASE Leave
    BY <1>4, LeaveInv, OtherProduct DEF IInv, Leave
  <1>5. CASE logoutTapped
    BY <1>5, LogoutInv, OtherProduct DEF IInv, logoutTapped
  <1>6. ASSUME NEW i \in DOMAIN rows, CellForRow(i) PROVE IInv'
    BY <1>6, CellForRowInv, OtherProduct DEF IInv, CellForRow
  <1>7. ASSUME NEW i \in DOMAIN rows, RevealSwipe(i) PROVE IInv'
    BY <1>7, RevealSwipeInv, OtherProduct DEF IInv, RevealSwipe
  <1>8. CASE TapDelete
    BY <1>8, TapDeleteInv, TapDeleteProduct DEF IInv, TapDelete
  <1>9. CASE promocodeTapped \/ buyTapped \/ DismissAlert
    BY <1>9, AlertInv, OtherProduct
       DEF IInv, promocodeTapped, buyTapped, DismissAlert
  <1>10. ASSUME NEW code \in Code \cup {NoCode}, ConfirmPromo(code) PROVE IInv'
    BY <1>10, ConfirmPromoInv, OtherProduct DEF IInv, ConfirmPromo
  <1>11. CASE ConfirmBuy
    BY <1>11, ConfirmBuyInv, ConfirmBuyProduct DEF IInv
  <1>12. ASSUME NEW result \in {"loaded", "failed"}, PromocodesFetched(result)
         PROVE  IInv'
    BY <1>12, PromocodesFetchedInv, OtherProduct
       DEF IInv, PromocodesFetched
  <1>13. CASE ClearNext
    BY <1>13, ClearNextInv, ClearNextProduct DEF IInv, ClearNext
  <1>14. CASE FinishBuy
    BY <1>14, FinishBuyInv, FinishBuyProduct DEF IInv, FinishBuy
  <1>15. ASSUME NEW n \in DOMAIN orders, PersistWrite(n) PROVE IInv'
    BY <1>15, DeliveryInv, DeliveryProduct DEF IInv
  <1>16. ASSUME NEW n \in DOMAIN orders,
                NEW answer \in Firestore!Outcome, ServerAnswer(n, answer)
         PROVE  IInv'
    BY <1>16, DeliveryInv, DeliveryProduct DEF IInv
  <1>17. CASE Crash
    BY <1>17, CrashInv, CrashProduct DEF IInv
  <1>18. CASE Launch
    BY <1>18, LaunchInv, OtherProduct DEF IInv, Launch
  <1>19. CASE UNCHANGED vars
    BY <1>19, StutterInv, OtherProduct DEF IInv, vars
  <1> QED
    BY <1>1, <1>2, <1>3, <1>4, <1>5, <1>6, <1>7, <1>8, <1>9, <1>10, <1>11,
       <1>12, <1>13, <1>14, <1>15, <1>16, <1>17, <1>18, <1>19
    DEF Next, Customer, MainThread, SDK, Server

\* The inductive invariant holds in every behaviour.
THEOREM Invariance == Spec => []IInv
  <1>1. Init => IInv
    BY InitInv, ProductInit DEF IInv
  <1>2. IInv /\ [Next]_vars => IInv'
    BY NextIInv
  <1> QED BY <1>1, <1>2, PTL DEF Spec

\* Every variable keeps its type and the table never holds an object twice
\* (realm.add and move_last_over).
THEOREM TypeCorrect == Spec => []TypeOK
  <1>1. IInv => TypeOK
    BY DEF IInv, Inv
  <1> QED BY <1>1, Invariance, PTL

\* The Orders screen is consistent between handlers: the table view has as many
\* rows as the table, an open "delete" button holds a live object, the total is
\* that of the present basket (trailing swipe, updatePrice, formOrder).
THEOREM ScreenSafe == Spec => []ScreenAgrees
  <1>1. IInv => ScreenAgrees
    BY DEF IInv, Inv, ScreenAgrees
  <1> QED BY <1>1, Invariance, PTL

\* A product leaves the basket once, through one order or a deletion; it is lost
\* only when a crash meets its order in memory, and sold twice or after its
\* deletion only when a crash inside formOrder has left it in the basket.
THEOREM ProductsSafe == Spec => []ProductLife
  <1>1. IInv => ProductLife
    <2> SUFFICES ASSUME IInv PROVE NothingVanishes /\ SoldOnce /\ RemovedIsNotSold
      BY DEF ProductLife
    <2>1. pc = "idle" => ToSet(toDelete) = {}
      BY DEF IInv, Inv, ScreenInv, ToSet
    <2> QED BY <2>1 DEF IInv, ProductInv, SoldOnce
  <1> QED BY <1>1, Invariance, PTL

\* No empty order is sent and nobody is charged more than the total on the
\* screen when the purchase was confirmed (buyTapped, makePersonalOrder).
THEOREM OrdersSafe == Spec => []OrdersFair
  <1>1. IInv => OrdersFair
    BY DEF IInv, ProductInv, OrdersFair
  <1> QED BY <1>1, Invariance, PTL

(***************************************************************************)
(* The checkout implements Purchase.                                       *)
(***************************************************************************)

\* Steps that change neither the set of products in the table, nor the ordered
\* ones, nor the deleted ones are stuttering steps of Purchase.
LEMMA LedgerStutter ==
  ASSUME UNCHANGED <<basket, orders, removed>>
  PROVE  UNCHANGED Ledger!vars
  <1>1. Ordered' = Ordered
    BY DEF Ordered, Products
  <1> QED BY <1>1 DEF Ledger!vars

\* AddToBasket is Put.
LEMMA LedgerAdd ==
  ASSUME IInv, NEW x \in Item, AddToBasket(x) PROVE Ledger!Put(x)
  <1>1. ToSet(basket') = ToSet(basket) \cup {x}
    BY AppendFacts DEF IInv, Inv, TypeOK, AddToBasket
  <1>2. Ordered' = Ordered
    BY DEF AddToBasket, Ordered, Products
  <1>3. x \notin ToSet(basket) \cup Ordered \cup removed
    BY DEF AddToBasket, IInv, ProductInv, Accounted
  <1> QED BY <1>1, <1>2, <1>3 DEF Ledger!Put, AddToBasket

\* TapDelete is Take.
LEMMA LedgerTake ==
  ASSUME IInv, TapDelete PROVE \E x \in Item : Ledger!Take(x)
  <1>1. /\ basket \in Seq(Item) /\ IsInjective(basket)
        /\ swipe.row \in DOMAIN basket /\ basket[swipe.row] = swipe.product
    BY DEF IInv, Inv, TypeOK, TapDelete, Ready, SwipeIsLive
  <1>2. swipe.product \in ToSet(basket) /\ swipe.product \in Item
    BY <1>1, LenProperties, ElementOfSeq DEF ToSet
  <1>3. ToSet(basket') = ToSet(basket) \ {swipe.product}
    BY <1>1, <1>2, EraseFacts DEF TapDelete
  <1>4. Ordered' = Ordered
    BY DEF TapDelete, Ordered, Products
  <1>5. Ledger!Take(swipe.product)
    BY <1>2, <1>3, <1>4 DEF Ledger!Take, TapDelete
  <1> QED BY <1>2, <1>5

\* ConfirmBuy is Place.
LEMMA LedgerPlace ==
  ASSUME IInv, ConfirmBuy PROVE Ledger!Place
  <1> DEFINE o == NewOrder(checkPromocode(promocode))
  <1>1. o \in Order /\ o.items = ToSet(basket) /\ o.items # {}
    BY NewOrderFacts DEF ConfirmBuy, IInv
  <1>2. orders \in Seq(Order) /\ orders' = Append(orders, o)
    BY DEF IInv, Inv, TypeOK, ConfirmBuy
  <1> HIDE DEF o
  <1>3. Ordered' = Ordered \cup ToSet(basket)
    BY <1>1, <1>2, OrderedAfterAppend
  <1> QED BY <1>1, <1>3 DEF Ledger!Place, ConfirmBuy, history

\* ClearNext is Clear.
LEMMA LedgerClear ==
  ASSUME IInv, ClearNext PROVE \E x \in Item : Ledger!Clear(x)
  <1>1. /\ basket \in Seq(Item) /\ IsInjective(basket)
        /\ toDelete \in Seq(Item) /\ IsInjective(toDelete) /\ toDelete # <<>>
        /\ ToSet(toDelete) = ToSet(basket)
        /\ ToSet(basket) \subseteq Ordered
    BY HeldFacts DEF IInv, Inv, TypeOK, ScreenInv, ProductInv, ClearNext
  <1> DEFINE x == Head(toDelete)
  <1>2. x \in ToSet(basket) /\ x \in Item /\ x \in Ordered
    BY <1>1, TailFacts, HeadTailProperties
  <1>3. ToSet(basket') = ToSet(basket) \ {x}
    BY <1>1, <1>2, EraseFacts DEF ClearNext
  <1>4. Ordered' = Ordered
    BY DEF ClearNext, Ordered, Products
  <1>5. Ledger!Clear(x)
    BY <1>2, <1>3, <1>4 DEF Ledger!Clear, ClearNext, history
  <1> QED BY <1>2, <1>5

\* Every step of Checkout is a step or a stutter of Purchase.
LEMMA LedgerStep ==
  ASSUME IInv, [Next]_vars PROVE [Ledger!Next]_(Ledger!vars)
  <1>1. CASE \E x \in Item : AddToBasket(x)
    BY <1>1, LedgerAdd DEF Ledger!Next
  <1>2. CASE TapDelete
    BY <1>2, LedgerTake DEF Ledger!Next
  <1>3. CASE ConfirmBuy
    BY <1>3, LedgerPlace DEF Ledger!Next
  <1>4. CASE ClearNext
    BY <1>4, LedgerClear DEF Ledger!Next
  <1>5. CASE \/ \E u \in User : EnterShop(u)
             \/ Appear \/ Leave \/ logoutTapped
             \/ \E i \in DOMAIN rows : CellForRow(i) \/ RevealSwipe(i)
             \/ promocodeTapped
             \/ \E code \in Code \cup {NoCode} : ConfirmPromo(code)
             \/ buyTapped \/ DismissAlert
             \/ \E result \in {"loaded", "failed"} : PromocodesFetched(result)
             \/ FinishBuy \/ SDK \/ Server \/ Crash \/ Launch \/ UNCHANGED vars
    <2>1. UNCHANGED <<basket, orders, removed>>
      BY <1>5 DEF EnterShop, Appear, Leave, logoutTapped, CellForRow,
         RevealSwipe, promocodeTapped, ConfirmPromo, buyTapped, DismissAlert,
         PromocodesFetched, FinishBuy, SDK, PersistWrite, Server, ServerAnswer,
         Crash, Launch, vars, history
    <2> QED BY <2>1, LedgerStutter
  <1> QED BY <1>1, <1>2, <1>3, <1>4, <1>5 DEF Next, Customer, MainThread

\* Every behaviour of the checkout is one of Purchase: what the screen, the
\* table, the SDK and crashes do to a product is put, place, clear or take.
THEOREM Refinement == Spec => LedgerSpec
  <1>1. Init => Ledger!Init
    <2> SUFFICES ASSUME Init PROVE Ledger!Init
      OBVIOUS
    <2>1. DOMAIN <<>> = {}
      OBVIOUS
    <2> QED BY <2>1 DEF Init, Ledger!Init, ToSet, Ordered, Products
  <1>2. IInv /\ [Next]_vars => [Ledger!Next]_(Ledger!vars)
    BY LedgerStep
  <1> QED BY <1>1, <1>2, Invariance, PTL DEF Spec, LedgerSpec, Ledger!Spec

=============================================================================
