--------------------------- MODULE Administration ---------------------------
(***************************************************************************)
(* The administrators' screens over the one collection of orders:          *)
(* AdminViewController, AdminDetailOrderController, FetchUsersOrdersService*)
(* and the catalogue they fetch beside it.  Several administrators have a  *)
(* list each, fetched once, from the server or from their phone's cache;   *)
(* "completed" goes through the SDK's queue of their phone, which overlays *)
(* what it reads, may lose what it has only in memory, and does not tell   *)
(* the screen of a rejection.  The order of a customer comes through the   *)
(* SDK of the customer's phone, which writes the whole document again as   *)
(* long as it has not read the server's answer.                            *)
(***************************************************************************)
EXTENDS Lists, Integers, FiniteSets

CONSTANTS
    Admin,      \* administrators, each with a phone
    Order,      \* orders, as in the collection "user-orders"
    DocOrder,   \* all of them in the order of their document ids
    Product,    \* documents of the collection "catalog-products"
    Catalogue,  \* all of them in the order of their document ids
    IdOf,       \* their field "id"
    ProductsID, \* of each order, the field "productsID"
    NoSwipe,    \* no row shows its "completed" button
    NoOrder,    \* no order is shown in detail
    MaxCrashes  \* bound: ends of a phone's process

ASSUME OrderAssumption ==
    /\ DocOrder \in Seq(Order)
    /\ \A o \in Order : \E i \in DOMAIN DocOrder : DocOrder[i] = o
    /\ \A i, j \in DOMAIN DocOrder : DocOrder[i] = DocOrder[j] => i = j
    /\ NoOrder \notin Order

ASSUME CatalogueAssumption ==
    /\ Catalogue \in Seq(Product)
    /\ \A p \in Product : \E i \in DOMAIN Catalogue : Catalogue[i] = p
    /\ \A i, j \in DOMAIN Catalogue : Catalogue[i] = Catalogue[j] => i = j
    /\ IdOf \in [Product -> Int]
    /\ ProductsID \in [Order -> Seq(Int)]

ASSUME SwipeAssumption == NoSwipe \notin [row : 1 .. Len(DocOrder), order : Order]

ASSUME BoundAssumption == MaxCrashes \in Nat

VARIABLES
    placed,     \* orders that have reached the server
    acknowledged, \* those whose customer's phone has read the server's answer
    done,       \* those whose document says isCompleted
    cache,      \* of each phone: the open orders the server told it last
    updates,    \* of each phone: completions the server has not answered yet
    inUse,      \* of each phone: the administrator is the account signed in
    screen,     \* of each phone: "off" no process, "closed", "list", "detail"
    orders,     \* AdminViewController.orders, the rows of its table
    products,   \* AdminViewController.products
    fetching,   \* of each screen: the fetches that have not been answered
    swipe,      \* the open swipe: its row and the order captured for it
    detail,     \* the order shown in detail and AdminDetailOrderController.products
    crashes,    \* number of crashes so far
    toDo,       \* history: the orders fetched and not completed since
    completed,  \* history: the orders each administrator has completed
    failed,     \* history: completions lost by a crash or rejected
    reopened    \* history: completed orders that their customer's phone wrote
                \* again

serverVars == <<placed, acknowledged, done, reopened>>
sdkVars    == <<cache, updates, inUse>>
screenVars == <<screen, orders, products, fetching, swipe, detail, toDo>>
vars == <<serverVars, sdkVars, screenVars, crashes, completed, failed>>

Swipes  == [row : 1 .. Len(DocOrder), order : Order] \cup {NoSwipe}
NoDetail == [order |-> NoOrder, early |-> FALSE, products |-> <<>>]

\* What phone a reads: the documents, with the completions in its queue.
Overlay(a, open) == open \ ToSet(updates[a])

Init ==
    /\ placed = {}
    /\ acknowledged = {}
    /\ done = {}
    /\ cache = [a \in Admin |-> {}]
    /\ updates = [a \in Admin |-> <<>>]
    /\ inUse = [a \in Admin |-> TRUE]
    /\ screen = [a \in Admin |-> "closed"]
    /\ orders = [a \in Admin |-> <<>>]
    /\ products = [a \in Admin |-> <<>>]
    /\ fetching = [a \in Admin |-> {}]
    /\ swipe = [a \in Admin |-> NoSwipe]
    /\ detail = [a \in Admin |-> NoDetail]
    /\ crashes = 0
    /\ toDo = [a \in Admin |-> {}]
    /\ completed = [a \in Admin |-> {}]
    /\ failed = {}
    /\ reopened = {}

(***************************************************************************)
(* The server and a customer's order (see Checkout).  The document says    *)
(* that it is not completed, and is set without a precondition: written    *)
(* again after a lost answer, it opens an order completed in between.      *)
(***************************************************************************)
PlaceOrder(o) ==
    /\ o \notin acknowledged
    /\ placed' = placed \cup {o}
    /\ done' = done \ {o}
    /\ reopened' = reopened \cup ({o} \cap done)
    /\ UNCHANGED <<acknowledged, sdkVars, screenVars, crashes, completed,
                   failed>>

OrderAcknowledged(o) ==
    /\ o \in placed \ acknowledged
    /\ acknowledged' = acknowledged \cup {o}
    /\ UNCHANGED <<placed, done, reopened, sdkVars, screenVars, crashes,
                   completed, failed>>

(***************************************************************************)
(* The server and the completions of a phone.  The SDK sends the queue of  *)
(* the account that is signed in.                                          *)
(***************************************************************************)
Sends(a) == screen[a] # "off" /\ inUse[a] /\ updates[a] # <<>>

\* The server completes the order, and the answer is lost: the completion stays
\* in the queue and is sent again.
UpdateApplied(a) ==
    /\ Sends(a)
    /\ done' = done \cup {Head(updates[a])}
    /\ UNCHANGED <<placed, acknowledged, reopened, sdkVars, screenVars, crashes,
                   completed, failed>>

\* Mutant: the phone drops a completion the server has not made.
UpdateDropped(a) ==
    /\ Sends(a)
    /\ updates' = [updates EXCEPT ![a] = Tail(@)]
    /\ UNCHANGED <<serverVars, cache, inUse, screenVars, crashes, completed,
                   failed>>

UpdateAccepted(a) ==
    /\ Sends(a)
    /\ done' = done \cup {Head(updates[a])}
    /\ cache' = [cache EXCEPT ![a] = @ \ {Head(updates[a])}]
    /\ updates' = [updates EXCEPT ![a] = Tail(@)]
    /\ UNCHANGED <<placed, acknowledged, reopened, inUse, screenVars, crashes,
                   completed, failed>>

UpdateRejected(a) ==
    /\ Sends(a)
    /\ updates' = [updates EXCEPT ![a] = Tail(@)]
    /\ failed' = failed \cup {<<a, Head(updates[a])>>}
    /\ UNCHANGED <<serverVars, cache, inUse, screenVars, crashes, completed>>

(***************************************************************************)
(* The account.  The button to sign out is on the screen below the list.   *)
(***************************************************************************)
SignOut(a) ==
    /\ screen[a] = "closed" /\ inUse[a]
    /\ inUse' = [inUse EXCEPT ![a] = FALSE]
    /\ UNCHANGED <<serverVars, cache, updates, screenVars, crashes, completed,
                   failed>>

SignIn(a) ==
    /\ screen[a] = "closed" /\ ~inUse[a]
    /\ inUse' = [inUse EXCEPT ![a] = TRUE]
    /\ UNCHANGED <<serverVars, cache, updates, screenVars, crashes, completed,
                   failed>>

(***************************************************************************)
(* The list.                                                               *)
(***************************************************************************)

\* adminTapped pushes a new AdminViewController, whose viewDidLoad starts
\* both fetches.
viewDidLoad(a) ==
    /\ screen[a] = "closed" /\ inUse[a]
    /\ screen' = [screen EXCEPT ![a] = "list"]
    /\ orders' = [orders EXCEPT ![a] = <<>>]
    /\ products' = [products EXCEPT ![a] = <<>>]
    /\ fetching' = [fetching EXCEPT ![a] = {"orders", "products"}]
    /\ toDo' = [toDo EXCEPT ![a] = {}]
    /\ UNCHANGED <<serverVars, sdkVars, swipe, detail, crashes, completed,
                   failed>>

Open(a) == screen[a] \in {"list", "detail"}

\* An answer of the SDK lists documents in the order of their ids.
InDocOrder(open) == Keep(DocOrder, {i \in DOMAIN DocOrder : DocOrder[i] \in open})

\* The open orders of an answer, in document order, are appended to the list,
\* and the table is reloaded.
\* Mutant: the completion is called again and again.
ShowOrdersAgain(a, open) ==
    /\ Open(a) /\ "orders" \in fetching[a]
    /\ fetching' = fetching
    /\ orders' = [orders EXCEPT ![a] = @ \o InDocOrder(open)]
    /\ swipe' = [swipe EXCEPT ![a] = NoSwipe]
    /\ toDo' = [toDo EXCEPT ![a] = open]

ShowOrders(a, open) ==
    /\ Open(a) /\ "orders" \in fetching[a]
    /\ fetching' = [fetching EXCEPT ![a] = @ \ {"orders"}]
    /\ orders' = [orders EXCEPT ![a] = @ \o InDocOrder(open)]
    /\ swipe' = [swipe EXCEPT ![a] = NoSwipe]
    /\ toDo' = [toDo EXCEPT ![a] = open]

\* The server's answer updates the cache.
\* Mutant: the queue of the phone is not laid over the answer.
OrdersFetchedRaw(a) ==
    /\ ShowOrders(a, placed \ done)
    /\ cache' = [cache EXCEPT ![a] = placed \ done]
    /\ UNCHANGED <<serverVars, updates, inUse, screen, products, detail,
                   crashes, completed, failed>>

OrdersFetched(a) ==
    /\ ShowOrders(a, Overlay(a, placed \ done))
    /\ cache' = [cache EXCEPT ![a] = placed \ done]
    /\ UNCHANGED <<serverVars, updates, inUse, screen, products, detail,
                   crashes, completed, failed>>

\* The phone is off line: the cache answers.
OrdersFromCache(a) ==
    /\ ShowOrders(a, Overlay(a, cache[a]))
    /\ UNCHANGED <<serverVars, sdkVars, screen, products, detail, crashes,
                   completed, failed>>

\* An error calls the completion with nothing to append.
OrdersFail(a) ==
    /\ ShowOrders(a, {})
    /\ UNCHANGED <<serverVars, sdkVars, screen, products, detail, crashes,
                   completed, failed>>

\* The catalogue, or nothing.  The table is not reloaded.
ProductsFetched(a, answer) ==
    /\ Open(a) /\ "products" \in fetching[a]
    /\ fetching' = [fetching EXCEPT ![a] = @ \ {"products"}]
    /\ products' = [products EXCEPT ![a] = answer]
    /\ UNCHANGED <<serverVars, sdkVars, screen, orders, swipe, detail, toDo,
                   crashes, completed, failed>>

Swipe(a, i) ==
    /\ screen[a] = "list"
    /\ swipe' = [swipe EXCEPT ![a] = [row |-> i, order |-> orders[a][i]]]
    /\ UNCHANGED <<serverVars, sdkVars, screen, orders, products, fetching,
                   detail, toDo, crashes, completed, failed>>

\* "Completed": the document of the captured order, the row of the swipe.
\* Mutants: the last row is removed; the table is not reloaded, so that the
\* swipe and its button stay.
CompleteAtEnd(a) ==
    /\ screen[a] = "list" /\ swipe[a] # NoSwipe
    /\ updates' = [updates EXCEPT ![a] = Append(@, swipe[a].order)]
    /\ orders' = [orders EXCEPT ![a] = RemoveAt(@, Len(@))]
    /\ swipe' = [swipe EXCEPT ![a] = NoSwipe]
    /\ toDo' = [toDo EXCEPT ![a] = @ \ {swipe[a].order}]
    /\ completed' = [completed EXCEPT ![a] = @ \cup {swipe[a].order}]
    /\ UNCHANGED <<serverVars, cache, inUse, screen, products, fetching, detail,
                   crashes, failed>>

CompleteKeepsSwipe(a) ==
    /\ screen[a] = "list" /\ swipe[a] # NoSwipe
    /\ updates' = [updates EXCEPT ![a] = Append(@, swipe[a].order)]
    /\ orders' = [orders EXCEPT ![a] = RemoveAt(@, swipe[a].row)]
    /\ toDo' = [toDo EXCEPT ![a] = @ \ {swipe[a].order}]
    /\ completed' = [completed EXCEPT ![a] = @ \cup {swipe[a].order}]
    /\ UNCHANGED <<serverVars, cache, inUse, screen, products, fetching, swipe,
                   detail, crashes, failed>>

Complete(a) ==
    /\ screen[a] = "list" /\ swipe[a] # NoSwipe
    /\ updates' = [updates EXCEPT ![a] = Append(@, swipe[a].order)]
    /\ orders' = [orders EXCEPT ![a] = RemoveAt(@, swipe[a].row)]
    /\ swipe' = [swipe EXCEPT ![a] = NoSwipe]
    /\ toDo' = [toDo EXCEPT ![a] = @ \ {swipe[a].order}]
    /\ completed' = [completed EXCEPT ![a] = @ \cup {swipe[a].order}]
    /\ UNCHANGED <<serverVars, cache, inUse, screen, products, fetching, detail,
                   crashes, failed>>

(***************************************************************************)
(* The detail screen.                                                      *)
(***************************************************************************)

\* The two loops of didSelectRowAt: for each id, each product that has it.
Join(ids, ps) ==
    FlattenSeq([k \in DOMAIN ids |->
        Keep(ps, {j \in DOMAIN ps : IdOf[ps[j]] = ids[k]})])

didSelectRow(a, i) ==
    /\ screen[a] = "list"
    /\ screen' = [screen EXCEPT ![a] = "detail"]
    /\ detail' = [detail EXCEPT ![a] =
                     [order |-> orders[a][i],
                      early |-> products[a] = <<>>,
                      products |-> Join(ProductsID[orders[a][i]], products[a])]]
    /\ swipe' = [swipe EXCEPT ![a] = NoSwipe]
    /\ UNCHANGED <<serverVars, sdkVars, orders, products, fetching, toDo,
                   crashes, completed, failed>>

BackToList(a) ==
    /\ screen[a] = "detail"
    /\ screen' = [screen EXCEPT ![a] = "list"]
    /\ detail' = [detail EXCEPT ![a] = NoDetail]
    /\ UNCHANGED <<serverVars, sdkVars, orders, products, fetching, swipe,
                   toDo, crashes, completed, failed>>

\* The screen is gone; answers still to come find a screen nobody sees.
NoScreen(a, state) ==
    /\ screen' = [screen EXCEPT ![a] = state]
    /\ orders' = [orders EXCEPT ![a] = <<>>]
    /\ products' = [products EXCEPT ![a] = <<>>]
    /\ fetching' = [fetching EXCEPT ![a] = {}]
    /\ swipe' = [swipe EXCEPT ![a] = NoSwipe]
    /\ detail' = [detail EXCEPT ![a] = NoDetail]
    /\ toDo' = [toDo EXCEPT ![a] = {}]

Close(a) ==
    /\ screen[a] = "list"
    /\ NoScreen(a, "closed")
    /\ UNCHANGED <<serverVars, sdkVars, crashes, completed, failed>>

\* The process of a phone ends, for instance because FetchCatalogService cannot
\* get an image.  The SDK has written the first n completions of its queue.
Crash(a, n) ==
    /\ screen[a] # "off" /\ crashes < MaxCrashes
    /\ crashes' = crashes + 1
    /\ NoScreen(a, "off")
    /\ updates' = [updates EXCEPT ![a] = SubSeq(@, 1, n)]
    /\ failed' = failed \cup {<<a, o>> : o \in ToSet(SubSeq(updates[a], n + 1,
                                                         Len(updates[a])))}
    /\ UNCHANGED <<serverVars, cache, inUse, completed>>

Launch(a) ==
    /\ screen[a] = "off"
    /\ screen' = [screen EXCEPT ![a] = "closed"]
    /\ UNCHANGED <<serverVars, sdkVars, orders, products, fetching, swipe,
                   detail, toDo, crashes, completed, failed>>

Administrator(a) ==
    \/ SignOut(a) \/ SignIn(a) \/ Launch(a)
    \/ viewDidLoad(a) \/ Complete(a) \/ BackToList(a) \/ Close(a)
    \/ \E i \in DOMAIN orders[a] : Swipe(a, i) \/ didSelectRow(a, i)

Answer(a) ==
    \/ OrdersFetched(a) \/ OrdersFromCache(a) \/ OrdersFail(a)
    \/ \E answer \in {Catalogue, <<>>} : ProductsFetched(a, answer)

\* The SDK sends the oldest completion again and again until it has the answer.
Send(a) == UpdateAccepted(a) \/ UpdateRejected(a)

Next ==
    \/ \E o \in Order : PlaceOrder(o) \/ OrderAcknowledged(o)
    \/ \E a \in Admin :
          \/ Administrator(a) \/ Answer(a) \/ UpdateApplied(a) \/ Send(a)
          \/ \E n \in 0 .. Len(updates[a]) : Crash(a, n)

Spec == Init /\ [][Next]_vars

\* A phone that runs, with the administrator signed in, is on line again and
\* again.  Nobody has to launch the application or to sign in.
FairSpec == Spec /\ \A a \in Admin : WF_vars(Send(a))

-----------------------------------------------------------------------------
TypeOK ==
    /\ placed \subseteq Order /\ acknowledged \subseteq placed
    /\ done \subseteq placed /\ reopened \subseteq placed
    /\ cache \in [Admin -> SUBSET placed]
    /\ updates \in [Admin -> Seq(placed)]
    /\ inUse \in [Admin -> BOOLEAN]
    /\ screen \in [Admin -> {"off", "closed", "list", "detail"}]
    /\ orders \in [Admin -> Seq(placed)]
    /\ products \in [Admin -> Seq(Product)]
    /\ fetching \in [Admin -> SUBSET {"orders", "products"}]
    /\ swipe \in [Admin -> Swipes]
    /\ detail \in [Admin -> [order : Order \cup {NoOrder}, early : BOOLEAN,
                             products : Seq(Product)]]
    /\ crashes \in 0 .. MaxCrashes
    /\ toDo \in [Admin -> SUBSET placed]
    /\ completed \in [Admin -> SUBSET placed]
    /\ failed \subseteq Admin \X placed

\* the button of a swipe removes the row of the order it completes: the row
\* captured with the closure is still the row of the order captured with it
SwipeIsItsRow ==
    \A a \in Admin : swipe[a] # NoSwipe =>
        /\ swipe[a].row \in DOMAIN orders[a]
        /\ orders[a][swipe[a].row] = swipe[a].order

\* An order leaves the list of an administrator only because he completed it,
\* and stands there once: what is listed is what was fetched without what he
\* has completed since.
LeavesOnlyCompleted ==
    \A a \in Admin :
        /\ ToSet(orders[a]) = toDo[a]
        /\ Len(orders[a]) = Cardinality(toDo[a])

\* An order that an administrator has completed is in his list again only if
\* the completion was lost in a crash or rejected, or the customer's phone wrote
\* the order again after it had been completed, however late the completion
\* reaches the server, how often it is sent and whether the list came from there
\* or from the cache.
NotShownAgain ==
    \A a \in Admin : \A o \in ToSet(orders[a]) \cap completed[a] :
        <<a, o>> \in failed \/ o \in reopened

\* no two products have one id: nothing in the code sees to it
UniqueIds == \A p, q \in Product : IdOf[p] = IdOf[q] => p = q

\* the detail screen has the products of its order, in the order of its list of
\* ids and as often, except ids the administrators' catalogue does not have
\* (if ids in it are unique); it has none if it was opened too early, and is not
\* filled when the catalogue arrives
ShowsItsOrder(d) ==
    LET ids == ProductsID[d.order]
        shown == [k \in DOMAIN d.products |-> IdOf[d.products[k]]]
    IN  shown = IF d.early THEN <<>>
                ELSE Keep(ids, {k \in DOMAIN ids :
                                   \E p \in Product : IdOf[p] = ids[k]})

DetailIsOrder ==
    \A a \in Admin : screen[a] = "detail" => ShowsItsOrder(detail[a])

\* What a swipe and the detail screen took from the list is still right when
\* they use it, whatever answers have come since: the row with its order, the
\* products with their order (trailing swipe, didSelectRowAt).
TakenIsRight == SwipeIsItsRow /\ DetailIsOrder

\* An order that an administrator has completed is completed on the server some
\* time, unless this completion was lost in a crash or rejected, or the phone of
\* the customer opens the order again; it waits while the administrator's phone
\* is off or used by another account.
EventuallyDone ==
    \A a \in Admin, o \in Order :
        o \in completed[a] ~> \/ o \in done \cup reopened
                             \/ <<a, o>> \in failed
                             \/ screen[a] = "off"
                             \/ ~inUse[a]
=============================================================================
