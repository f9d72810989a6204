------------------------------- MODULE Account -------------------------------
(***************************************************************************)
(* Who is signed in, what the Orders screen shows of him, and whose        *)
(* profile an order and a saved document carry: LoginViewController, the   *)
(* profile half of OrdersViewController, EditProfileTableController,       *)
(* AdminService, and FirebaseAuth's listeners.                             *)
(*                                                                         *)
(* Blocks that FirebaseAuth puts on the main queue (listeners, then the    *)
(* completion of the sign-in) run before the next touch is handled, so an  *)
(* answer is one step.  Sign-ins, profile downloads and the list of        *)
(* administrators are answered at any later time, in any order.            *)
(***************************************************************************)
EXTENDS Integers, Sequences, SequencesExt

CONSTANTS
    Account,        \* accounts, each with its e-mail and its owner
    NoUser,         \* nobody is signed in
    NoEmail,        \* the placeholder on the e-mail button
    Blank,          \* the profile of the placeholders
    NoDocument,     \* there is no document for an e-mail
    NoService,      \* adminService is nil
    Admins,         \* the e-mails of the collection "admins"
    MaxRequests,    \* bound: sign-ins in flight
    MaxDownloads    \* bound: profile downloads in flight

ASSUME AccountAssumption ==
    /\ Admins \subseteq Account
    /\ {NoUser, NoEmail, Blank, NoDocument} \cap Account = {}

ASSUME BoundAssumption == MaxRequests \in Nat /\ MaxDownloads \in Nat

VARIABLES
    user,       \* FirebaseAuth's current user (durable)
    screen,     \* what is on top
    requests,   \* sign-ins and registrations in flight
    loaded,     \* the Orders screen of the present shop exists
    label,      \* the title of its e-mail button
    admin,      \* its AdminService
    profile,    \* whose data its profile has
    downloads,  \* its profile downloads in flight
    editing,    \* what the segue gave to the edit screen
    documents,  \* collection "users-info": whose data each document has
    trap,       \* the process has ended in a forced unwrap
    mixed,      \* history: see OwnProfile
    sent        \* history: the last order, by whom and with whose profile

shopVars == <<loaded, label, admin, profile, downloads, editing>>
vars == <<user, screen, requests, shopVars, documents, trap, mixed, sent>>

Email   == Account \cup {NoEmail}
Person  == Account \cup {Blank}
Request == [kind : {"login", "register"}, user : Account]
Service == [email : Account, pending : BOOLEAN, isAdmin : BOOLEAN]
Screens == {"login", "leaving", "tabs", "orders", "edit", "admin"}

\* The screens under which a shop, and its Orders screen if loaded, lives.
InShop == screen \in {"tabs", "orders", "edit", "admin"}

ASSUME ServiceAssumption == NoService \notin Service

NewService(email) == [email |-> email, pending |-> TRUE, isAdmin |-> FALSE]

NoEdit == [email |-> NoEmail, profile |-> Blank]

NoShop ==
    /\ loaded' = FALSE
    /\ label' = NoEmail
    /\ admin' = NoService
    /\ profile' = Blank
    /\ downloads' = 0
    /\ editing' = NoEdit

Init ==
    /\ user = NoUser
    /\ screen = "login"
    /\ requests = <<>>
    /\ loaded = FALSE
    /\ label = NoEmail
    /\ admin = NoService
    /\ profile = Blank
    /\ downloads = 0
    /\ editing = NoEdit
    /\ documents = [e \in Email |-> NoDocument]
    /\ trap = FALSE
    /\ mixed = FALSE
    /\ sent = [by |-> NoUser, profile |-> Blank]

(***************************************************************************)
(* Sign-in.                                                                *)
(***************************************************************************)

\* loginTapped and registerTapped with both fields filled.  The buttons stay
\* enabled while a request is in flight.
Ask(kind, u) ==
    /\ ~trap /\ screen = "login"
    /\ Len(requests) < MaxRequests
    /\ requests' = Append(requests, [kind |-> kind, user |-> u])
    /\ UNCHANGED <<user, screen, shopVars, documents, trap, mixed, sent>>

\* The Orders screen's listener (setupEmail): it is called when the account
\* has changed, and does nothing without one.
\* Mutants: the label is set but the service is not replaced; only the first
\* account is shown.
EmailListenerKeepsService(u) ==
    /\ label' = u
    /\ admin' = IF admin = NoService THEN NewService(u) ELSE [admin EXCEPT !.email = u]

EmailListenerOnce(u) ==
    /\ label' = IF label = NoEmail THEN u ELSE label
    /\ admin' = IF label = NoEmail THEN NewService(u) ELSE admin

EmailListener(u) ==
    /\ label' = u
    /\ admin' = NewService(u)

\* The server accepts request i.  The login screen's listener performs the
\* segue if the account has changed, the completion of a login always does;
\* over a shop, or while one is being dismissed, a segue is ignored.
SignedIn(i) ==
    LET u == requests[i].user
        opens == screen = "login" /\ (user # u \/ requests[i].kind = "login")
    IN  /\ ~trap
        /\ requests' = RemoveAt(requests, i)
        /\ user' = u
        /\ screen' = IF opens THEN "tabs" ELSE screen
        /\ IF loaded /\ user # u
           THEN EmailListener(u) /\ mixed' = (mixed \/ label # u)
           ELSE UNCHANGED <<label, admin, mixed>>
        /\ UNCHANGED <<loaded, profile, downloads, editing, documents, trap,
                       sent>>

\* An error only shows a warning.
SignInFails(i) ==
    /\ ~trap
    /\ requests' = RemoveAt(requests, i)
    /\ UNCHANGED <<user, screen, shopVars, documents, trap, mixed, sent>>

\* FirebaseAuth signs out by force when the server no longer accepts the token;
\* both listeners ignore the absence of a user.
AccountRevoked ==
    /\ ~trap /\ user # NoUser
    /\ user' = NoUser
    /\ UNCHANGED <<screen, requests, shopVars, documents, trap, mixed, sent>>

\* signOut may throw; the shop is dismissed all the same.
logoutTapped ==
    /\ ~trap /\ screen = "orders"
    /\ user' \in {NoUser, user}
    /\ screen' = "leaving"
    /\ NoShop
    /\ UNCHANGED <<requests, documents, trap, mixed, sent>>

DismissEnds ==
    /\ ~trap /\ screen = "leaving"
    /\ screen' = "login"
    /\ UNCHANGED <<user, requests, shopVars, documents, trap, mixed, sent>>

\* The process ends, and starts anew with the account of the keychain: the
\* login screen's listener opens the shop at once.
Relaunch ==
    /\ screen' = IF user = NoUser THEN "login" ELSE "tabs"
    /\ requests' = <<>>
    /\ NoShop
    /\ trap' = FALSE
    /\ UNCHANGED <<user, documents, mixed, sent>>

(***************************************************************************)
(* The Orders screen.                                                      *)
(***************************************************************************)

\* viewWillAppear: downloadProfile
Appears ==
    /\ screen' = "orders"
    /\ downloads < MaxDownloads
    /\ downloads' = downloads + 1

\* The tab is selected; the first time viewDidLoad sets the placeholder and
\* adds the listener, whose first call comes before the first answer.
OpenOrders ==
    /\ ~trap /\ screen = "tabs"
    /\ Appears
    /\ loaded' = TRUE
    /\ IF loaded \/ user = NoUser
       THEN UNCHANGED <<label, admin>>
       ELSE EmailListener(user)
    /\ UNCHANGED <<user, requests, profile, editing, documents, trap, mixed,
                   sent>>

LeaveOrders ==
    /\ ~trap /\ screen = "orders"
    /\ screen' = "tabs"
    /\ UNCHANGED <<user, requests, shopVars, documents, trap, mixed, sent>>

\* The answer to downloadProfile: the document whose id is on the label now.
\* Mutant: the id is not compared.
ProfileArrivesAnyDocument ==
    /\ ~trap /\ downloads > 0
    /\ downloads' = downloads - 1
    /\ \E e \in Email :
          profile' = IF documents[e] = NoDocument THEN profile ELSE documents[e]
    /\ UNCHANGED <<user, screen, requests, loaded, label, admin, editing,
                   documents, trap, mixed, sent>>

ProfileArrives ==
    /\ ~trap /\ downloads > 0
    /\ downloads' = downloads - 1
    /\ profile' = IF documents[label] = NoDocument
                  THEN profile ELSE documents[label]
    /\ UNCHANGED <<user, screen, requests, loaded, label, admin, editing,
                   documents, trap, mixed, sent>>

DownloadFails ==
    /\ ~trap /\ downloads > 0
    /\ downloads' = downloads - 1
    /\ UNCHANGED <<user, screen, requests, loaded, label, admin, profile,
                   editing, documents, trap, mixed, sent>>

\* The answer to the last AdminService; the answers to its predecessors find
\* no object.  "listed" is FALSE also for an error.
AdminsArrive(listed) ==
    /\ ~trap /\ admin # NoService
    /\ admin.pending
    /\ listed => admin.email \in Admins
    /\ admin' = [admin EXCEPT !.pending = FALSE, !.isAdmin = listed]
    /\ UNCHANGED <<user, screen, requests, loaded, label, profile, downloads,
                   editing, documents, trap, mixed, sent>>

adminTapped ==
    /\ ~trap /\ screen = "orders"
    /\ IF admin = NoService
       THEN trap' = TRUE /\ screen' = screen
       ELSE trap' = FALSE /\ screen' = IF admin.isAdmin THEN "admin" ELSE screen
    /\ UNCHANGED <<user, requests, shopVars, documents, mixed, sent>>

\* Back from the administration or, without saving, from the edit screen.
Back ==
    /\ ~trap /\ screen \in {"admin", "edit"}
    /\ Appears
    /\ UNCHANGED <<user, requests, loaded, label, admin, profile, editing,
                   documents, trap, mixed, sent>>

\* FormOrderService copies the profile into the order.
FormOrder ==
    /\ ~trap /\ screen = "orders"
    /\ sent' = [by |-> user, profile |-> profile]
    /\ UNCHANGED <<user, screen, requests, shopVars, documents, trap, mixed>>

(***************************************************************************)
(* The edit screen.                                                        *)
(***************************************************************************)

\* prepare(for: segue)
\* Mutant: the two are exchanged.
EditTappedSwapped ==
    /\ ~trap /\ screen = "orders"
    /\ screen' = "edit"
    /\ editing' = [email |-> profile, profile |-> label]
    /\ UNCHANGED <<user, requests, loaded, label, admin, profile, downloads,
                   documents, trap, mixed, sent>>

EditTapped ==
    /\ ~trap /\ screen = "orders"
    /\ screen' = "edit"
    /\ editing' = [email |-> label, profile |-> profile]
    /\ UNCHANGED <<user, requests, loaded, label, admin, profile, downloads,
                   documents, trap, mixed, sent>>

\* saveTapped writes the fields, filled in advance or typed by the customer,
\* into the document of the e-mail the segue gave.  Without an account anybody
\* may be typing.
saveTapped(typed) ==
    /\ ~trap /\ screen = "edit"
    /\ \/ typed = editing.profile
       \/ user \in {NoUser, typed}
    /\ documents' = [documents EXCEPT ![editing.email] = typed]
    /\ mixed' = (mixed \/ user = NoUser)
    /\ Appears
    /\ UNCHANGED <<user, requests, loaded, label, admin, profile, editing,
                   trap, sent>>

Next ==
    \/ \E kind \in {"login", "register"}, u \in Account : Ask(kind, u)
    \/ \E i \in DOMAIN requests : SignedIn(i) \/ SignInFails(i)
    \/ AccountRevoked \/ logoutTapped \/ DismissEnds \/ Relaunch
    \/ OpenOrders \/ LeaveOrders \/ Back \/ FormOrder
    \/ ProfileArrives \/ DownloadFails
    \/ \E listed \in BOOLEAN : AdminsArrive(listed)
    \/ adminTapped \/ EditTapped
    \/ \E p \in Person : saveTapped(p)

Spec == Init /\ [][Next]_vars

-----------------------------------------------------------------------------
TypeOK ==
    /\ user \in Account \cup {NoUser}
    /\ screen \in Screens
    /\ requests \in Seq(Request) /\ Len(requests) <= MaxRequests
    /\ loaded \in BOOLEAN
    /\ label \in Email
    /\ admin \in Service \cup {NoService}
    /\ profile \in Person
    /\ downloads \in 0 .. MaxDownloads
    /\ editing \in [email : Email, profile : Person]
    /\ documents \in [Email -> Person \cup {NoDocument}]
    /\ trap \in BOOLEAN
    /\ mixed \in BOOLEAN
    /\ sent \in [by : Account \cup {NoUser}, profile : Person]

\* "adminService!" can only fail when the Orders screen was opened after the
\* account had been signed out by force, and nobody has signed in since
TrapNeedsNoUser == trap => user = NoUser

\* While somebody is signed in, the Orders screen shows his e-mail, asks the
\* administrators' list about this e-mail and has the service that does so,
\* however late the sign-in has come and whatever account the screen was opened
\* with (setupEmail, adminTapped).
AccountShown ==
    /\ loaded /\ user # NoUser =>
          /\ label = user
          /\ admin # NoService
          /\ admin.email = user
    /\ TrapNeedsNoUser

\* The administration opens only under the e-mail of an administrator: an
\* answer about one account never opens it for another one (adminTapped).
AdminsOnly ==
    [][screen # "admin" /\ screen' = "admin" => label \in Admins]_vars

\* Everybody's document, screen and orders have his own data or placeholders,
\* unless at some time an answer to an earlier sign-in replaced the account
\* under an open Orders screen, or somebody saved a profile signed out (then
\* "mixed" is TRUE for good: documents are durable).
OwnProfile ==
    \/ mixed
    \/ /\ \A u \in Account : documents[u] \in {NoDocument, Blank, u}
       /\ profile \in {Blank, label}
       /\ sent.by # NoUser => sent.profile \in {Blank, sent.by}

\* "Your name", "your card number" say the placeholders of viewDidLoad: what
\* the Orders screen shows is the customer's.
ProfileIsYours ==
    screen = "orders" /\ user # NoUser => profile \in {Blank, user}
=============================================================================
