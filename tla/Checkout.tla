------------------------------ MODULE Checkout ------------------------------
(***************************************************************************)
(* The Orders screen of one phone, from the basket to the server:          *)
(*                                                                         *)
(*  - the basket, a durable Realm table that catalogue and favourites fill;*)
(*  - OrdersViewController: the rows its table shows, the total price, the *)
(*    promocode, the alerts, a swipe that shows its "delete" button;       *)
(*  - FormOrderService, which turns the basket into one document;          *)
(*  - PromocodeService, whose only fetch may answer late or never;         *)
(*  - crashes and restarts of the application.                             *)
(*                                                                         *)
(* The Firestore SDK below it is not modelled a second time: it is an      *)
(* instance of Delivery, the contract that the SDK's write path implements *)
(* (WritePipeline), and may do whatever the contract allows.               *)
(*                                                                         *)
(* UI handlers and callbacks run on the main thread, one at a time.  The   *)
(* handler of "buy" commits one Realm transaction per product, so it is    *)
(* several steps here: the SDK's worker and a crash can come in between.   *)
(***************************************************************************)
EXTENDS Basket, FiniteSets

CONSTANTS
    User,       \* accounts that sign in on this phone
    NoUser,     \* nobody is signed in
    Code,       \* promocodes the server knows
    NoCode,     \* the empty promocode
    Discount,   \* percent of each promocode
    MaxCrashes, \* bound: crashes of the application in a behaviour
    NoSwipe     \* no row shows its "delete" button

ASSUME CodeAssumption ==
    /\ NoCode \notin Code
    /\ Discount \in [Code -> Nat]

ASSUME UserAssumption == NoUser \notin User

ASSUME SwipeAssumption == NoSwipe \notin [row : Nat, product : Item]

VARIABLES
    basket,     \* Realm: the OrderProduct table (durable)
    screen,     \* "off" no process, "none" no Orders screen, "hidden", "shown"
    alert,      \* the alert over the Orders screen
    rows,       \* the product each row of the table view displays
    swipe,      \* the open swipe: its row and the product captured for it
    totalPrice, \* OrdersViewController._totalPrice, which the label shows
    promocode,  \* OrdersViewController._promocode
    promoFetch, \* PromocodeService: "none", "pending", "loaded", "failed"
    pc,         \* main thread: "idle", or "clearing" inside formOrder
    toDelete,   \* what the loop of formOrder has still to delete
    user,       \* the account that is signed in (durable)
    orders,     \* every order formed, oldest first
    writes,     \* the SDK: the write of each order and where it is (Delivery)
    crashes,    \* number of crashes so far
    used,       \* history: products ever put into the basket
    removed,    \* history: products the customer deleted
    interrupted,\* history: ordered products a crash left in the basket
    dropped     \* history: products a crash took from basket and SDK alike

screenVars == <<alert, rows, swipe, totalPrice, promocode, promoFetch>>
mainVars   == <<pc, toDelete>>
history    == <<used, removed, interrupted, dropped>>
vars == <<basket, screen, screenVars, mainVars, user, orders, writes, crashes,
          history>>

Order == [user : User, items : SUBSET Item, shown : Int, price : Int,
          discount : Nat]

\* The n-th write is the one of the n-th order.
Firestore == INSTANCE Delivery

\* the products of the orders in S
Products(S) == UNION {orders[n].items : n \in S}

\* the products of all the orders formed so far
Ordered == Products(DOMAIN orders)

\* the orders whose write is at a place
At(place) == {n \in DOMAIN orders : writes[n].place = place}

(***************************************************************************)
(* Prices.                                                                 *)
(***************************************************************************)

\* PromocodeService.checkPromocode: unknown codes, and all codes until the
\* fetch has answered, are worth nothing.
checkPromocode(code) ==
    IF promoFetch = "loaded" /\ code \in Code THEN Discount[code] ELSE 0

\* updatePrice for a basket t and a promocode
updatePrice(t, code) ==
    IF Total(t) = 0 \/ code = NoCode
    THEN Total(t)
    ELSE Discounted(Total(t), checkPromocode(code))

\* FormOrderService.makePersonalOrder
Charge(t, percent) == Discounted(Total(t), percent)

(***************************************************************************)
(* The life of the screen.                                                 *)
(***************************************************************************)
Idle  == screen # "off" /\ pc = "idle"
Ready == screen = "shown" /\ pc = "idle" /\ alert = "none"

NoScreen ==
    /\ alert' = "none"
    /\ rows' = <<>>
    /\ swipe' = NoSwipe
    /\ totalPrice' = 0
    /\ promocode' = NoCode
    /\ promoFetch' = "none"

\* reloadData, which closes an open swipe, and updatePrice
Refresh(code) ==
    /\ rows' = basket
    /\ swipe' = NoSwipe
    /\ totalPrice' = updatePrice(basket, code)

Init ==
    /\ basket = <<>>
    /\ screen = "none"
    /\ alert = "none"
    /\ rows = <<>>
    /\ swipe = NoSwipe
    /\ totalPrice = 0
    /\ promocode = NoCode
    /\ promoFetch = "none"
    /\ pc = "idle"
    /\ toDelete = <<>>
    /\ user = NoUser
    /\ orders = <<>>
    /\ Firestore!Init
    /\ crashes = 0
    /\ used = {}
    /\ removed = {}
    /\ interrupted = {}
    /\ dropped = {}

\* The login screen's segue creates the tabs; the Orders controller is created
\* with its PromocodeService, which starts its one fetch.  The segue follows a
\* sign-in, which may replace an account that is signed in still.
EnterShop(u) ==
    /\ screen = "none"
    /\ user' = u
    /\ screen' = "hidden"
    /\ promoFetch' = "pending"
    /\ UNCHANGED <<basket, alert, rows, swipe, totalPrice, promocode, mainVars,
                   orders, writes, crashes, history>>

\* Another tab, or a screen pushed over this one, adds a product.
AddToBasket(x) ==
    /\ screen = "hidden"
    /\ x \notin used
    /\ basket' = Append(basket, x)
    /\ used' = used \cup {x}
    /\ UNCHANGED <<screen, screenVars, mainVars, user, orders, writes, crashes,
                   removed, interrupted, dropped>>

\* viewWillAppear (and viewDidLoad before the first one)
Appear ==
    /\ screen = "hidden"
    /\ screen' = "shown"
    /\ Refresh(promocode)
    /\ UNCHANGED <<basket, alert, promocode, promoFetch, mainVars, user,
                   orders, writes, crashes, history>>

\* The customer selects another tab or opens another screen.
Leave ==
    /\ Ready
    /\ screen' = "hidden"
    /\ UNCHANGED <<basket, screenVars, mainVars, user, orders, writes, crashes,
                   history>>

\* Sign-out dismisses the tabs, also when signOut throws and the account stays
\* signed in; the basket and the SDK's queue stay.
logoutTapped ==
    /\ Ready
    /\ user' \in {NoUser, user}
    /\ screen' = "none"
    /\ NoScreen
    /\ UNCHANGED <<basket, mainVars, orders, writes, crashes, history>>

(***************************************************************************)
(* Rows and swipes.                                                        *)
(***************************************************************************)

\* A row scrolls into view and is filled from the table at its index.
CellForRow(i) ==
    /\ Ready
    /\ rows' = [rows EXCEPT ![i] = basket[i]]
    /\ UNCHANGED <<basket, screen, alert, swipe, totalPrice, promocode,
                   promoFetch, mainVars, user, orders, writes, crashes,
                   history>>

\* A swipe on row i captures the product that is at index i of the table now.
RevealSwipe(i) ==
    /\ Ready
    /\ swipe' = [row |-> i, product |-> basket[i]]
    /\ UNCHANGED <<basket, screen, alert, rows, totalPrice, promocode,
                   promoFetch, mainVars, user, orders, writes, crashes,
                   history>>

\* "Delete": the captured product leaves the table, the row leaves the view
\* (the other rows are not filled again), the price is updated.
\* Mutant: the price is not updated.
TapDeleteNoUpdate ==
    /\ Ready /\ swipe # NoSwipe
    /\ basket' = Erase(basket, swipe.product)
    /\ rows' = RemoveAt(rows, swipe.row)
    /\ swipe' = NoSwipe
    /\ removed' = removed \cup {swipe.product}
    /\ UNCHANGED <<screen, alert, totalPrice, promocode, promoFetch, mainVars,
                   user, orders, writes, crashes, used, interrupted, dropped>>

TapDelete ==
    /\ Ready /\ swipe # NoSwipe
    /\ basket' = Erase(basket, swipe.product)
    /\ rows' = RemoveAt(rows, swipe.row)
    /\ swipe' = NoSwipe
    /\ totalPrice' = updatePrice(basket', promocode)
    /\ removed' = removed \cup {swipe.product}
    /\ UNCHANGED <<screen, alert, promocode, promoFetch, mainVars, user,
                   orders, writes, crashes, used, interrupted, dropped>>

(***************************************************************************)
(* Promocodes.                                                             *)
(***************************************************************************)
promocodeTapped ==
    /\ Ready
    /\ alert' = "promo"
    /\ UNCHANGED <<basket, screen, rows, swipe, totalPrice, promocode,
                   promoFetch, mainVars, user, orders, writes, crashes,
                   history>>

ConfirmPromo(code) ==
    /\ Idle /\ alert = "promo"
    /\ alert' = "none"
    /\ promocode' = code
    /\ totalPrice' = updatePrice(basket, code)
    /\ UNCHANGED <<basket, screen, rows, swipe, promoFetch, mainVars, user,
                   orders, writes, crashes, history>>

\* The answer of the only fetch; an error leaves the codes empty for good.
\* Nobody calls updatePrice here.
PromocodesFetched(result) ==
    /\ Idle /\ promoFetch = "pending"
    /\ promoFetch' = result
    /\ UNCHANGED <<basket, screen, alert, rows, swipe, totalPrice, promocode,
                   mainVars, user, orders, writes, crashes, history>>

(***************************************************************************)
(* Buying.                                                                 *)
(***************************************************************************)
buyTapped ==
    /\ Ready
    /\ alert' = IF totalPrice # 0 THEN "order" ELSE "empty"
    /\ UNCHANGED <<basket, screen, rows, swipe, totalPrice, promocode,
                   promoFetch, mainVars, user, orders, writes, crashes,
                   history>>

\* "Cancel", or "Ok" of the empty-basket alert
DismissAlert ==
    /\ Idle /\ alert # "none"
    /\ alert' = "none"
    /\ UNCHANGED <<basket, screen, rows, swipe, totalPrice, promocode,
                   promoFetch, mainVars, user, orders, writes, crashes,
                   history>>

\* Mutant: the order is formed from the rows on the screen.
NewOrderFromRows(percent) ==
    [user |-> user, items |-> ToSet(rows), shown |-> totalPrice,
     price |-> Charge(basket, percent), discount |-> percent]

\* The order formed from the whole basket at the present promocode discount;
\* "shown" is the total the customer agreed to.
NewOrder(percent) ==
    [user |-> user, items |-> ToSet(basket), shown |-> totalPrice,
     price |-> Charge(basket, percent), discount |-> percent]

\* "Buy", first part: makePersonalOrder hands the document to the SDK and the
\* loop over a snapshot of the table begins.
ConfirmBuy ==
    /\ Idle /\ alert = "order"
    /\ alert' = "none"
    /\ orders' = Append(orders, NewOrder(checkPromocode(promocode)))
    /\ Firestore!Make(user)
    /\ pc' = "clearing"
    /\ toDelete' = basket
    /\ UNCHANGED <<basket, screen, rows, swipe, totalPrice, promocode,
                   promoFetch, user, crashes, history>>

\* Mutant: the loop walks over the live table by index, so that every other
\* product is skipped.
ClearEveryOther ==
    /\ pc = "clearing" /\ toDelete # <<>>
    /\ basket' = Erase(basket, Head(toDelete))
    /\ toDelete' = IF Len(toDelete) > 1 THEN Tail(Tail(toDelete)) ELSE <<>>
    /\ UNCHANGED <<screen, screenVars, pc, user, orders, writes, crashes,
                   history>>

\* One iteration of the loop, a Realm transaction of its own.
ClearNext ==
    /\ pc = "clearing" /\ toDelete # <<>>
    /\ basket' = Erase(basket, Head(toDelete))
    /\ toDelete' = Tail(toDelete)
    /\ UNCHANGED <<screen, screenVars, pc, user, orders, writes, crashes,
                   history>>

\* "Buy", last part: reloadData and updatePrice.
\* Mutant: the table view is not reloaded.
FinishBuyNoReload ==
    /\ pc = "clearing" /\ toDelete = <<>>
    /\ pc' = "idle"
    /\ totalPrice' = updatePrice(basket, promocode)
    /\ UNCHANGED <<basket, screen, alert, rows, swipe, promocode, promoFetch,
                   toDelete, user, orders, writes, crashes, history>>

FinishBuy ==
    /\ pc = "clearing" /\ toDelete = <<>>
    /\ pc' = "idle"
    /\ Refresh(promocode)
    /\ UNCHANGED <<basket, screen, alert, promocode, promoFetch, toDelete,
                   user, orders, writes, crashes, history>>

(***************************************************************************)
(* The Firestore SDK and the server, while the process runs: the steps of  *)
(* Delivery.  An account that has just left may still get an answer, from  *)
(* the SDK's worker thread.  sendOrder passes no completion handler: the   *)
(* screen learns of no answer, and a rejection goes unnoticed.             *)
(***************************************************************************)
PersistWrite(n) ==
    /\ screen # "off"
    /\ Firestore!Persist(n)
    /\ UNCHANGED <<basket, screen, screenVars, mainVars, user, orders, crashes,
                   history>>

\* Mutant: one queue for all accounts, so that the order of an account that has
\* left blocks the orders of the next one.
ServerAnswerOneQueue(n, answer) ==
    /\ screen # "off"
    /\ Firestore!First(At("disk"), n)
    /\ writes' = [writes EXCEPT ![n].place = answer]
    /\ UNCHANGED <<basket, screen, screenVars, mainVars, user, orders, crashes,
                   history>>

ServerAnswer(n, answer) ==
    /\ screen # "off"
    /\ Firestore!Answer(n, answer)
    /\ UNCHANGED <<basket, screen, screenVars, mainVars, user, orders, crashes,
                   history>>

(***************************************************************************)
(* Crashes.  Realm and the mutation queue are on disk, the sign-in is in   *)
(* the keychain; all the rest is gone.                                     *)
(***************************************************************************)
Crash ==
    /\ screen # "off" /\ crashes < MaxCrashes
    /\ crashes' = crashes + 1
    /\ screen' = "off"
    /\ NoScreen
    /\ pc' = "idle"
    /\ toDelete' = <<>>
    /\ Firestore!Crash
    /\ interrupted' = interrupted \cup ToSet(toDelete)
    /\ dropped' = dropped \cup (Products(At("memory")) \ ToSet(basket))
    /\ UNCHANGED <<basket, user, orders, used, removed>>

Launch ==
    /\ screen = "off"
    /\ screen' = "none"
    /\ UNCHANGED <<basket, screenVars, mainVars, user, orders, writes, crashes,
                   history>>

Customer ==
    \/ \E u \in User : EnterShop(u)
    \/ \E x \in Item : AddToBasket(x)
    \/ Appear \/ Leave \/ logoutTapped
    \/ \E i \in DOMAIN rows : CellForRow(i) \/ RevealSwipe(i)
    \/ TapDelete
    \/ promocodeTapped
    \/ \E code \in Code \cup {NoCode} : ConfirmPromo(code)
    \/ buyTapped \/ DismissAlert \/ ConfirmBuy

MainThread == ClearNext \/ FinishBuy

SDK == \E n \in DOMAIN orders : PersistWrite(n)

Server == \E n \in DOMAIN orders, answer \in Firestore!Outcome :
              ServerAnswer(n, answer)

\* the part of Server that the account in use can rely on
AnswerToUser == \E n \in DOMAIN orders, answer \in Firestore!Outcome :
                    orders[n].user = user /\ ServerAnswer(n, answer)

Next ==
    \/ Customer
    \/ \E result \in {"loaded", "failed"} : PromocodesFetched(result)
    \/ MainThread
    \/ SDK
    \/ Server
    \/ Crash
    \/ Launch

Spec == Init /\ [][Next]_vars

(***************************************************************************)
(* Only what runs without the customer is fair: the handler that is        *)
(* already running, the SDK's worker, and a server that can be reached     *)
(* again and again: for the account in use, whose queue is the only one    *)
(* that the SDK sends.  The customer may do nothing, and the application   *)
(* may stay closed after a crash.                                          *)
(***************************************************************************)
FairSpec ==
    /\ Spec
    /\ WF_vars(MainThread)
    /\ WF_vars(SDK)
    /\ WF_vars(AnswerToUser)

(***************************************************************************)
(* Types.                                                                  *)
(***************************************************************************)

\* Every variable has its type, and the table never holds an object twice:
\* deletion by move_last_over drops the last row after copying it.
TypeOK ==
    /\ basket \in Seq(Item) /\ IsInjective(basket)
    /\ screen \in {"off", "none", "hidden", "shown"}
    /\ alert \in {"none", "order", "empty", "promo"}
    /\ rows \in Seq(Item)
    /\ swipe \in [row : Nat, product : Item] \cup {NoSwipe}
    /\ totalPrice \in Int
    /\ promocode \in Code \cup {NoCode}
    /\ promoFetch \in {"none", "pending", "loaded", "failed"}
    /\ pc \in {"idle", "clearing"}
    /\ toDelete \in Seq(Item)
    /\ user \in User \cup {NoUser}
    /\ orders \in Seq(Order)
    /\ Firestore!TypeOK /\ Len(writes) = Len(orders)
    /\ crashes \in Nat
    /\ used \in SUBSET Item
    /\ removed \in SUBSET Item
    /\ interrupted \in SUBSET Item
    /\ dropped \in SUBSET Item

(***************************************************************************)
(* The screen.                                                             *)
(***************************************************************************)

\* while the screen is shown and no handler runs, the total is the price of
\* what is in the basket now, with or without the discount of the code typed
\* in (without it when the codes had not arrived at the last update).
TotalIsFresh ==
    screen = "shown" /\ pc = "idle" =>
        totalPrice \in {Total(basket), updatePrice(basket, promocode)}

\* the table view has as many rows as its data source reports; UIKit raises an
\* exception from deleteRows, and the subscript of filteredProducts traps in
\* cellForRowAt, when it has not.
RowsMatchTable == screen = "shown" /\ pc = "idle" => Len(rows) = Len(basket)

\* an open "delete" button holds a product that is still in the table, at the
\* index of its row: Realm raises an exception for an object deleted before.
SwipeIsLive ==
    screen = "shown" /\ pc = "idle" /\ swipe # NoSwipe =>
        /\ swipe.row \in DOMAIN basket
        /\ basket[swipe.row] = swipe.product

\* Three things the screen keeps, which different handlers change, agree with
\* the table between any two handlers: total, number of rows, open swipe.
ScreenAgrees == TotalIsFresh /\ RowsMatchTable /\ SwipeIsLive

(***************************************************************************)
(* The purchase.                                                           *)
(***************************************************************************)

\* no order without products is sent, although the buy button looks only at
\* the total that was computed earlier.
NoEmptyOrder == \A n \in DOMAIN orders : orders[n].items # {}

\* a customer never pays more than the total that was on the screen when the
\* purchase was confirmed, although the price is computed a second time.
ChargedAtMostShown ==
    \A n \in DOMAIN orders : orders[n].price <= orders[n].shown

\* What is ordered was in the basket and costs what the customer has confirmed,
\* or less: the decision rests on a total computed at another time than the
\* products and the price of the order.
OrdersFair == NoEmptyOrder /\ ChargedAtMostShown

\* the products of the orders the SDK holds or the server has answered (with a
\* rejection too, which nobody hears of)
Held == Products(DOMAIN orders \ At("lost"))

\* the products that are nowhere any more
Vanished == used \ (ToSet(basket) \cup removed \cup Held)

\* a product vanishes only when a crash meets its order in memory, inside
\* formOrder or after it, and it has left the basket by then; what such a crash
\* took has vanished, unless an earlier crash inside formOrder had left it in
\* the basket so that it was ordered twice.
NothingVanishes ==
    /\ Vanished \subseteq dropped
    /\ dropped \ Vanished \subseteq interrupted

\* no product is in two orders, and none that was ordered is offered for sale
\* again from the basket, unless a crash interrupted the loop of formOrder.
SoldOnce ==
    /\ \A m, n \in DOMAIN orders :
           m # n => orders[m].items \cap orders[n].items \subseteq interrupted
    /\ pc = "idle" => Ordered \cap ToSet(basket) \subseteq interrupted

\* a product the customer deleted is in no order, unless it had been ordered
\* before a crash and came back.
RemovedIsNotSold == removed \cap Ordered \subseteq interrupted

\* Every product leaves the basket once, through one order or a deletion, over
\* any handlers, accounts and crashes, and is lost in no other way than by a
\* crash before its order reaches the disk.  A product that a crash inside
\* formOrder has left in the basket can be ordered again or deleted.
ProductLife == NothingVanishes /\ SoldOnce /\ RemovedIsNotSold

\* The checkout does to products only what Purchase allows.
Ledger == INSTANCE Purchase WITH
              inBasket <- ToSet(basket), ordered <- Ordered

LedgerSpec == Ledger!Spec

(***************************************************************************)
(* Liveness, under FairSpec.                                               *)
(***************************************************************************)

\* An ordered product leaves the basket, or the application crashes.
SoldLeavesBasket ==
    \A x \in Item :
        x \in Ordered \cap ToSet(basket) /\ x \notin interrupted
            ~> x \notin ToSet(basket) \/ screen = "off"

Pending(n) == n \in At("memory") \cup At("disk")

\* An order is answered or lost, unless the application stays closed or its
\* account signs out: then it waits.
EventuallyAnswered ==
    \A n \in 1 .. Cardinality(Item) :
        Pending(n) ~> \/ ~Pending(n)
                      \/ screen = "off"
                      \/ user # orders[n].user

(***************************************************************************)
(* What the texts on the screen say, and the code does not keep.           *)
(***************************************************************************)

\* "Delete" on a row is about the product this row displays.
DeleteIsForItsRow ==
    Ready /\ swipe # NoSwipe => rows[swipe.row] = swipe.product
=============================================================================
