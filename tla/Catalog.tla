------------------------------ MODULE Catalog ------------------------------
(***************************************************************************)
(* The Catalog screen of the shop and its two databases.                   *)
(*                                                                         *)
(* Every download asks the database that Config names and lets Config name *)
(* the other one.  Firestore answers a download once.  The Realtime        *)
(* Database answers with the node "subject" and then again after every     *)
(* change of the node, for as long as the process lives: the observer is   *)
(* never removed.  An answer replaces the list on the screen, whichever    *)
(* download it belongs to; the customer sorts and filters in between.      *)
(*                                                                         *)
(* A forced unwrap or cast that fails ends the process: "trap" says which. *)
(***************************************************************************)
EXTENDS Listing, FiniteSets

CONSTANTS
    Documents,      \* the collection "catalog-products" of Firestore
    Nodes,          \* values the node "subject" takes
    NotAnArray,     \* a value of the node that is no array of subjects
    NoService,      \* filterService is nil
    MaxDownloads,   \* bound: downloads of one process
    MaxChanges      \* bound: changes of the node

\* A FilterService: its products, those of the type chosen, and the direction of
\* its last sort.
Service == [products : Seq(Product), filtered : Seq(Product), sorted : BOOLEAN]

\* An empty array cannot be stored in the Realtime Database: it is no node.  A
\* product is an entry of its database, so that one answer lists it once.
ASSUME CatalogAssumption ==
    /\ Documents \in Seq(Product) /\ IsInjective(Documents)
    /\ \A value \in Nodes :
           value \in Seq(Product) /\ value # <<>> /\ IsInjective(value)
    /\ NotAnArray \notin Nodes
    /\ NoService \notin Service
    /\ MaxDownloads \in Nat
    /\ MaxChanges \in Nat

VARIABLES
    screen,     \* "none" or "open"
    trap,       \* "none", or what has ended the process
    isMainBD,   \* Config.shared.isMainBD
    downloads,  \* the fetch services of this process, oldest first
    icon,       \* image of the sort button
    node,       \* the node "subject"
    version,    \* number of the node's present value
    arranged    \* history: the last operation on the list was a sort

screenVars == <<filterService, filteredProducts, icon>>
history    == <<choice, arranged>>
vars == <<screen, trap, isMainBD, downloads, screenVars, node, version, history>>

Alive == trap = "none"
Open  == Alive /\ screen = "open"

Live == {n \in DOMAIN downloads : downloads[n].live}

Init ==
    /\ screen = "none"
    /\ trap = "none"
    /\ isMainBD = TRUE
    /\ downloads = <<>>
    /\ filterService = NoService
    /\ filteredProducts = <<>>
    /\ icon = "up"
    /\ node \in Nodes
    /\ version = 1
    /\ choice = All
    /\ arranged = FALSE

(***************************************************************************)
(* FilterService.                                                          *)
(***************************************************************************)
NewService(list) == [products |-> list, filtered |-> list, sorted |-> FALSE]

\* filterByPrice on service s: the flag turns the direction around each time.
\* Mutant: the flag is turned around after the sort.
filterByPriceLateFlag(s) ==
    \E list \in Sorted(s.filtered, s.sorted) :
        /\ filterService' = [s EXCEPT !.filtered = list, !.sorted = ~s.sorted]
        /\ filteredProducts' = list
        /\ arranged' = TRUE

filterByPrice(s) ==
    \E list \in Sorted(s.filtered, ~s.sorted) :
        /\ filterService' = [s EXCEPT !.filtered = list, !.sorted = ~s.sorted]
        /\ filteredProducts' = list
        /\ arranged' = TRUE

(***************************************************************************)
(* Downloads.                                                              *)
(***************************************************************************)
Download(db) ==
    [db |-> db, list |-> <<>>, events |-> 0, seen |-> 0, live |-> TRUE]

downloadCatalog ==
    /\ Len(downloads) < MaxDownloads
    /\ isMainBD' = ~isMainBD
    /\ downloads' = Append(downloads,
                           Download(IF isMainBD THEN "firestore" ELSE "rtdb"))

\* The tabs appear: a new Catalog controller, whose viewDidLoad downloads.
viewDidLoad ==
    /\ Alive /\ screen = "none"
    /\ screen' = "open"
    /\ downloadCatalog
    /\ UNCHANGED <<trap, screenVars, node, version, history>>

changeBD ==
    /\ Open
    /\ downloadCatalog
    /\ UNCHANGED <<screen, trap, screenVars, node, version, history>>

\* The completion of a download.  Its closure holds the controller that asked
\* for it: after a sign-out the answer goes to a screen nobody sees.
Complete(d) ==
    IF d.live
    THEN filterByPrice(NewService(d.list)) /\ choice' = All
    ELSE UNCHANGED <<filterService, filteredProducts, history>>

Asked(n, db) == n \in DOMAIN downloads /\ downloads[n].db = db

\* Firestore answers once, with the documents or with an error, after which
\* the list is empty.  Mutant: an error does not call the completion.
FirestoreAnswersSilently(n, answer) ==
    LET d == [downloads[n] EXCEPT !.list = answer, !.events = 1]
    IN  /\ Alive /\ Asked(n, "firestore") /\ downloads[n].events = 0
        /\ downloads' = [downloads EXCEPT ![n] = d]
        /\ IF answer = <<>>
           THEN UNCHANGED <<filterService, filteredProducts, history>>
           ELSE Complete(d)
        /\ UNCHANGED <<screen, trap, isMainBD, icon, node, version>>

FirestoreAnswers(n, answer) ==
    LET d == [downloads[n] EXCEPT !.list = answer, !.events = 1]
    IN  /\ Alive /\ Asked(n, "firestore") /\ downloads[n].events = 0
        /\ downloads' = [downloads EXCEPT ![n] = d]
        /\ Complete(d)
        /\ UNCHANGED <<screen, trap, isMainBD, icon, node, version>>

\* url! and dataImage!: a document whose image cannot be loaded.
ImageFails(n) ==
    /\ Alive /\ Asked(n, "firestore") /\ downloads[n].events = 0
    /\ trap' = "image"
    /\ UNCHANGED <<screen, isMainBD, downloads, screenVars, node, version,
                   history>>

Unseen(n) == Asked(n, "rtdb") /\ downloads[n].seen # version

\* The observer appends all the subjects of the node to what it has.
\* Mutant: the completion is called with the first value only.
ObserverFiresOnce(n) ==
    LET d == [downloads[n] EXCEPT !.list = @ \o node, !.events = @ + 1,
                                  !.seen = version]
    IN  /\ Alive /\ Unseen(n) /\ node \in Nodes
        /\ downloads' = [downloads EXCEPT ![n] = d]
        /\ IF d.events > 1
           THEN UNCHANGED <<filterService, filteredProducts, history>>
           ELSE Complete(d)
        /\ UNCHANGED <<screen, trap, isMainBD, icon, node, version>>

ObserverFires(n) ==
    LET d == [downloads[n] EXCEPT !.list = @ \o node, !.events = @ + 1,
                                  !.seen = version]
    IN  /\ Alive /\ Unseen(n) /\ node \in Nodes
        /\ downloads' = [downloads EXCEPT ![n] = d]
        /\ Complete(d)
        /\ UNCHANGED <<screen, trap, isMainBD, icon, node, version>>

\* subjectCount!: the node is empty or not an array of objects.
ObserverTraps(n) ==
    /\ Alive /\ Unseen(n) /\ node = NotAnArray
    /\ trap' = "node"
    /\ UNCHANGED <<screen, isMainBD, downloads, screenVars, node, version,
                   history>>

\* Somebody edits the database; observers that have not fired yet will see
\* the new value only.
NodeChanges(value) ==
    /\ version <= MaxChanges
    /\ node' = value
    /\ version' = version + 1
    /\ UNCHANGED <<screen, trap, isMainBD, downloads, screenVars, history>>

(***************************************************************************)
(* The buttons.                                                            *)
(***************************************************************************)

\* The image of the button is compared with "up", loaded and resized anew; UIKit
\* compares the pictures, here their names.
switchImageButton == icon' = IF icon = "up" THEN "down" ELSE "up"

\* sortButtonTapped: "filterService?.filterByPrice() as! [Product]" fails
\* without a service.
sortButtonTapped ==
    /\ Open
    /\ IF filterService = NoService
       THEN /\ trap' = "service"
            /\ UNCHANGED <<screenVars, history>>
       ELSE /\ filterByPrice(filterService)
            /\ switchImageButton
            /\ UNCHANGED <<trap, choice>>
    /\ UNCHANGED <<screen, isMainBD, downloads, node, version>>

\* An action of the alert of filterButtonTapped.  The sort flag stays.
FilterByType(c) ==
    /\ Open
    /\ IF filterService = NoService
       THEN /\ trap' = "service"
            /\ UNCHANGED <<filterService, filteredProducts, history>>
       ELSE LET list == OfType(filterService.products, c)
            IN  /\ filterService' = [filterService EXCEPT !.filtered = list]
                /\ filteredProducts' = list
                /\ choice' = c
                /\ arranged' = FALSE
                /\ UNCHANGED trap
    /\ UNCHANGED <<screen, isMainBD, downloads, icon, node, version>>

\* Mutant: the next screen starts with the list of the last one.
ForgetScreenButList ==
    /\ screen' = "none"
    /\ filterService' = NoService
    /\ icon' = "up"
    /\ choice' = All
    /\ arranged' = FALSE
    /\ UNCHANGED filteredProducts

ForgetScreen ==
    /\ screen' = "none"
    /\ filterService' = NoService
    /\ filteredProducts' = <<>>
    /\ icon' = "up"
    /\ choice' = All
    /\ arranged' = FALSE

\* Sign-out dismisses the tabs.  Config, downloads and observers stay.
SignOut ==
    /\ Open
    /\ ForgetScreen
    /\ downloads' = [n \in DOMAIN downloads |->
                        [downloads[n] EXCEPT !.live = FALSE]]
    /\ UNCHANGED <<trap, isMainBD, node, version>>

\* The process has ended, by a trap or otherwise, and is started again.
Relaunch ==
    /\ ForgetScreen
    /\ trap' = "none"
    /\ isMainBD' = TRUE
    /\ downloads' = <<>>
    /\ UNCHANGED <<node, version>>

Answer(n) ==
    \/ \E answer \in {<<>>, Documents} : FirestoreAnswers(n, answer)
    \/ ObserverFires(n)
    \/ ObserverTraps(n)
    \/ ImageFails(n)

Next ==
    \/ viewDidLoad
    \/ changeBD
    \/ sortButtonTapped
    \/ \E c \in Choice : FilterByType(c)
    \/ \E n \in 1 .. MaxDownloads : Answer(n)
    \/ \E value \in Nodes \cup {NotAnArray} : NodeChanges(value)
    \/ SignOut
    \/ Relaunch

Spec == Init /\ [][Next]_vars

(***************************************************************************)
(* Both databases answer in the end: Firestore with documents or an error, *)
(* the Realtime Database from the server or its cache.                     *)
(***************************************************************************)
FairSpec == Spec /\ \A n \in 1 .. MaxDownloads : WF_vars(Answer(n))

(***************************************************************************)
(* Properties.                                                             *)
(***************************************************************************)

\* Every variable has its type; a screen without a service shows nothing, and
\* no observer has seen a value the node has not had yet.
TypeOK ==
    /\ screen \in {"none", "open"}
    /\ trap \in {"none", "image", "node", "service"}
    /\ isMainBD \in BOOLEAN
    /\ downloads \in Seq([db : {"firestore", "rtdb"}, list : Seq(Product),
                          events : Nat, seen : 0 .. version, live : BOOLEAN])
    /\ filterService \in Service \cup {NoService}
    /\ filteredProducts \in Seq(Product)
    /\ filterService = NoService => filteredProducts = <<>>
    /\ icon \in {"up", "down"}
    /\ node \in Nodes \cup {NotAnArray}
    /\ version \in Nat
    /\ choice \in Choice
    /\ arranged \in BOOLEAN

Loaded == screen = "open" /\ filterService # NoService

\* the screen shows the products of the type chosen last, each as often as the
\* service has it: no filter narrows an earlier filter, no sort loses a product,
\* and the list the controller copied is the list the service has
ShownIsChosen ==
    Loaded =>
        /\ filteredProducts = filterService.filtered
        /\ SameProducts(filteredProducts,
                        OfType(filterService.products, choice))

\* what the service filters is the present list of one download this screen
\* asked for: late answers replace the list and never mix two databases, and an
\* observer that has got a new value has replaced the list or was replaced
OneDownload ==
    Loaded =>
        \E n \in Live : /\ downloads[n].events > 0
                        /\ filterService.products = downloads[n].list

\* a product is shown twice only after an observer has fired twice
ShownOnce ==
    Loaded /\ (\A n \in Live : downloads[n].events <= 1) =>
        IsInjective(filteredProducts)

\* However late answers of the two databases, sorts and filters follow one
\* another, the list on the screen is a list of one download, all of it that is
\* of the type chosen last, and without repetition as long as no observer has
\* fired again (changeBD, FilterProductsService, ProductsCollectionView).
ListIsOneAnswer == ShownIsChosen /\ OneDownload /\ ShownOnce

\* While only one answer has reached the screen, the image of the sort button
\* tells in which direction the list is sorted; the image is switched by the
\* button and the direction by the service.  (A second answer sorts the list
\* upwards again and leaves the image alone.)
IconTellsOrder ==
    Loaded /\ arranged
           /\ (\A n \in Live : downloads[n].events <= 1)
           /\ Cardinality({n \in Live : downloads[n].events = 1}) = 1
        => IsOrdered(filteredProducts, icon = "up")

\* The failing cast of a missing service ends the process only while no download
\* of the screen has been answered: errors of Firestore count as answers.
TrapOnlyBeforeAnswer ==
    trap = "service" => \A n \in Live : downloads[n].events = 0

\* Under FairSpec: a screen gets a list, or the process ends, or the customer
\* signs out.
EventuallyListed ==
    screen = "open" ~> \/ filterService # NoService
                       \/ trap # "none"
                       \/ screen = "none"
=============================================================================
