--------------------------- MODULE AccountProofs ---------------------------
(***************************************************************************)
(* Proofs about Account, for any number of accounts, administrators,       *)
(* sign-ins and downloads in flight.                                       *)
(***************************************************************************)
EXTENDS Account, TableProofs

(***************************************************************************)
(* The inductive invariant.                                                *)
(***************************************************************************)

\* The screens behind the Orders screen need it; without it there is nothing
\* on the e-mail button, no profile and none on its way.
ShopInv ==
    /\ screen \in {"orders", "edit", "admin"} => loaded
    /\ ~loaded => /\ label = NoEmail /\ profile = Blank /\ admin = NoService
                  /\ downloads = 0

\* The service asks about the e-mail on the button, and whom it calls an
\* administrator is one.
AdminInv ==
    admin # NoService =>
        /\ admin.email = label
        /\ admin.isAdmin => admin.email \in Admins

\* The edit screen has the e-mail on the button, and data of its owner; no
\* document but the owner's has his data, that of the placeholder neither.
ProfileInv ==
    \/ mixed
    \/ /\ \A e \in Email : documents[e] \in {NoDocument, Blank, e}
       /\ profile \in {Blank, label}
       /\ screen = "edit" => /\ editing.email = label
                             /\ editing.profile \in {Blank, label}
       /\ sent.by # NoUser => sent.profile \in {Blank, sent.by}

Inv == TypeOK /\ AccountShown /\ ShopInv /\ AdminInv /\ ProfileInv

(***************************************************************************)
(* Sign-in.                                                                *)
(***************************************************************************)

\* The requests that are left.
LEMMA RequestLeaves ==
  ASSUME TypeOK, NEW i \in DOMAIN requests, requests' = RemoveAt(requests, i)
  PROVE  /\ requests' \in Seq(Request) /\ Len(requests') <= MaxRequests
         /\ requests[i].user \in Account
  <1>1. requests \in Seq(Request) /\ Len(requests) <= MaxRequests
    BY DEF TypeOK
  <1>2. i \in 1 .. Len(requests) /\ Len(requests) \in Nat /\ requests[i] \in Request
    BY <1>1, LenProperties
  <1>3. /\ RemoveAt(requests, i) \in Seq(Request)
        /\ Len(RemoveAt(requests, i)) = Len(requests) - 1
    BY <1>1, <1>2, RemoveAtFacts
  <1> QED BY <1>1, <1>2, <1>3, BoundAssumption DEF Request

LEMMA NewServiceFacts ==
  ASSUME NEW u \in Account
  PROVE  /\ NewService(u) \in Service /\ NewService(u) # NoService
         /\ NewService(u).email = u /\ NewService(u).isAdmin = FALSE
  <1>1. /\ NewService(u).email = u /\ NewService(u).isAdmin = FALSE
        /\ NewService(u) \in Service
    BY DEF NewService, Service
  <1> QED BY <1>1, ServiceAssumption

LEMMA AskInv ==
  ASSUME Inv, NEW kind \in {"login", "register"}, NEW u \in Account, Ask(kind, u)
  PROVE  Inv'
  <1> DEFINE r == [kind |-> kind, user |-> u]
  <1>1. UNCHANGED <<user, screen, loaded, label, admin, profile, downloads, editing,
                    documents, trap, mixed, sent>>
    BY DEF Ask, shopVars
  <1>2. requests' \in Seq(Request) /\ Len(requests') <= MaxRequests
    <2>1. r \in Request /\ requests \in Seq(Request) /\ Len(requests) < MaxRequests
      BY DEF Inv, TypeOK, Request, Ask
    <2>2. requests' = Append(requests, r)
      BY DEF Ask
    <2> HIDE DEF r
    <2>3. /\ Append(requests, r) \in Seq(Request) /\ Len(requests) \in Nat
          /\ Len(Append(requests, r)) = Len(requests) + 1
      BY <2>1, AppendProperties, LenProperties
    <2> QED BY <2>1, <2>2, <2>3, BoundAssumption
  <1>3. TypeOK'
    BY <1>1, <1>2 DEF Inv, TypeOK
  <1> QED BY <1>1, <1>3 DEF Inv, AccountShown, TrapNeedsNoUser, ShopInv, AdminInv,
                            ProfileInv

\* A sign-in that is answered late replaces the account under the screen, whose
\* listener replaces e-mail and service.
LEMMA SignedInInv ==
  ASSUME Inv, NEW i \in DOMAIN requests, SignedIn(i)
  PROVE  Inv'
  <1>0. PICK u : u = requests[i].user
    OBVIOUS
  <1>1. /\ requests' \in Seq(Request) /\ Len(requests') <= MaxRequests
        /\ u \in Account
    BY <1>0, RequestLeaves DEF Inv, SignedIn
  <1>2. /\ ~trap /\ user' = u
        /\ UNCHANGED <<loaded, profile, downloads, editing, documents, trap, sent>>
        /\ \/ screen' = screen
           \/ screen = "login" /\ screen' = "tabs"
        /\ IF loaded /\ user # u
           THEN /\ label' = u /\ admin' = NewService(u)
                /\ mixed' = (mixed \/ label # u)
           ELSE UNCHANGED <<label, admin, mixed>>
    BY <1>0 DEF SignedIn, EmailListener
  <1>3. u # NoUser /\ u \in Email
    BY <1>1, AccountAssumption DEF Email
  <1>4. TypeOK'
    BY <1>1, <1>2, <1>3, NewServiceFacts DEF Inv, TypeOK, Screens, Email
  <1>5. AccountShown'
    <2>1. NewService(u) # NoService /\ NewService(u).email = u
      BY <1>1, NewServiceFacts
    <2>2. loaded => label' = u /\ admin' # NoService /\ admin'.email = u
      <3>1. CASE loaded /\ user # u
        BY <1>2, <2>1, <3>1
      <3>2. CASE ~loaded
        BY <3>2
      <3>3. CASE loaded /\ user = u
        BY <1>2, <1>3, <3>3 DEF Inv, AccountShown
      <3> QED BY <3>1, <3>2, <3>3
    <2> QED BY <1>2, <2>2 DEF AccountShown, TrapNeedsNoUser
  <1>6. ShopInv' /\ AdminInv'
    BY <1>1, <1>2, NewServiceFacts DEF Inv, ShopInv, AdminInv
  <1>7. ProfileInv'
    <2>1. CASE mixed' \/ label' = label
      BY <1>2, <2>1 DEF Inv, TypeOK, ProfileInv
    <2>2. CASE ~mixed' /\ label' # label
      BY <1>2, <2>2 DEF Inv, TypeOK
    <2> QED BY <2>1, <2>2
  <1> QED BY <1>4, <1>5, <1>6, <1>7 DEF Inv

LEMMA SignInFailsInv ==
  ASSUME Inv, NEW i \in DOMAIN requests, SignInFails(i)
  PROVE  Inv'
  <1>1. requests' \in Seq(Request) /\ Len(requests') <= MaxRequests
    BY RequestLeaves DEF Inv, SignInFails
  <1>2. UNCHANGED <<user, screen, loaded, label, admin, profile, downloads, editing,
                    documents, trap, mixed, sent>>
    BY DEF SignInFails, shopVars
  <1>3. TypeOK'
    BY <1>1, <1>2 DEF Inv, TypeOK
  <1> QED BY <1>2, <1>3 DEF Inv, AccountShown, TrapNeedsNoUser, ShopInv, AdminInv,
                            ProfileInv

\* What ends a shop: a sign-out, the end of the process.
LEMMA NoShopInv ==
  ASSUME Inv, logoutTapped \/ Relaunch
  PROVE  Inv'
  <1>1. /\ loaded' = FALSE /\ label' = NoEmail /\ admin' = NoService
        /\ profile' = Blank /\ downloads' = 0 /\ editing' = NoEdit
        /\ user' \in {NoUser, user} /\ UNCHANGED <<documents, mixed, sent>>
        /\ screen' \in {"leaving", "login", "tabs"} /\ trap' = FALSE
        /\ requests' \in {requests, <<>>}
    BY DEF logoutTapped, Relaunch, NoShop, Inv, TypeOK
  <1>2. TypeOK'
    <2>1. requests' \in Seq(Request) /\ Len(requests') <= MaxRequests
      <3>1. <<>> \in Seq(Request) /\ Len(<<>>) = 0
        BY EmptySeq
      <3>2. requests \in Seq(Request) /\ Len(requests) <= MaxRequests
        BY DEF Inv, TypeOK
      <3>3. 0 <= MaxRequests
        BY BoundAssumption
      <3>4. CASE requests' = requests
        BY <3>2, <3>4
      <3>5. CASE requests' = <<>>
        BY <3>1, <3>3, <3>5
      <3> QED BY <1>1, <3>4, <3>5
    <2>2. 0 \in 0 .. MaxDownloads
      BY BoundAssumption
    <2> QED BY <1>1, <2>1, <2>2 DEF Inv, TypeOK, Screens, Email, Person, NoEdit
  <1>3. AccountShown' /\ ShopInv' /\ AdminInv'
    BY <1>1 DEF AccountShown, TrapNeedsNoUser, ShopInv, AdminInv
  <1>4. ProfileInv'
    BY <1>1 DEF Inv, ProfileInv
  <1> QED BY <1>2, <1>3, <1>4 DEF Inv

(***************************************************************************)
(* The Orders screen.                                                      *)
(***************************************************************************)

\* The listener that is added with the screen shows the account of that moment.
LEMMA OpenOrdersInv ==
  ASSUME Inv, OpenOrders
  PROVE  Inv'
  <1>1. /\ screen = "tabs" /\ screen' = "orders" /\ loaded' = TRUE /\ ~trap
        /\ downloads < MaxDownloads /\ downloads' = downloads + 1
        /\ UNCHANGED <<user, requests, profile, editing, documents, trap, mixed, sent>>
        /\ IF loaded \/ user = NoUser
           THEN UNCHANGED <<label, admin>>
           ELSE label' = user /\ admin' = NewService(user)
    BY DEF OpenOrders, Appears, EmailListener
  <1>2. user # NoUser => /\ user \in Account
                         /\ NewService(user) \in Service /\ NewService(user) # NoService
                         /\ NewService(user).email = user
                         /\ NewService(user).isAdmin = FALSE
    BY NewServiceFacts DEF Inv, TypeOK
  <1>3. downloads' \in 0 .. MaxDownloads
    BY <1>1, BoundAssumption DEF Inv, TypeOK
  <1>4. TypeOK'
    BY <1>1, <1>2, <1>3 DEF Inv, TypeOK, Screens, Email
  <1>5. AccountShown' /\ ShopInv' /\ AdminInv'
    BY <1>1, <1>2 DEF Inv, AccountShown, TrapNeedsNoUser, ShopInv, AdminInv
  <1>6. ProfileInv'
    BY <1>1 DEF Inv, ShopInv, ProfileInv
  <1> QED BY <1>4, <1>5, <1>6 DEF Inv

\* What is on top changes, and nothing below it but the downloads.
LEMMA ScreenInv ==
  ASSUME Inv, AccountRevoked \/ DismissEnds \/ LeaveOrders \/ Back \/ adminTapped
                \/ DownloadFails
  PROVE  Inv'
  <1>1. /\ UNCHANGED <<requests, loaded, label, admin, profile, editing, documents,
                       mixed, sent>>
        /\ user' \in {user, NoUser}
        /\ \/ screen' = screen
           \/ screen' \in {"login", "tabs"}
           \/ screen \in {"admin", "edit", "orders"} /\ screen' \in {"orders", "admin"}
        /\ \/ trap' = trap
           \/ trap' = FALSE
           \/ screen = "orders" /\ admin = NoService /\ user' = user
    BY DEF AccountRevoked, DismissEnds, LeaveOrders, Back, Appears, adminTapped,
           DownloadFails, shopVars, Inv, TypeOK
  <1>2. downloads' \in 0 .. MaxDownloads /\ trap' \in BOOLEAN
    <2>1. \/ downloads' = downloads
          \/ downloads < MaxDownloads /\ downloads' = downloads + 1
          \/ downloads > 0 /\ downloads' = downloads - 1
      BY DEF AccountRevoked, DismissEnds, LeaveOrders, Back, Appears, adminTapped,
             DownloadFails, shopVars
    <2>2. downloads' \in 0 .. MaxDownloads
      BY <2>1, BoundAssumption DEF Inv, TypeOK
    <2>3. trap' \in BOOLEAN
      BY DEF AccountRevoked, DismissEnds, LeaveOrders, Back, Appears, adminTapped,
             DownloadFails, Inv, TypeOK
    <2> QED BY <2>2, <2>3
  <1>3. TypeOK'
    BY <1>1, <1>2 DEF Inv, TypeOK, Screens
  <1>4. AccountShown'
    BY <1>1 DEF Inv, AccountShown, TrapNeedsNoUser, ShopInv
  <1>5. ShopInv' /\ AdminInv' /\ ProfileInv'
    <2>1. downloads' = downloads \/ downloads > 0 \/ screen \in {"admin", "edit"}
      BY DEF AccountRevoked, DismissEnds, LeaveOrders, Back, adminTapped,
             DownloadFails, shopVars
    <2> QED BY <1>1, <2>1 DEF Inv, ShopInv, AdminInv, ProfileInv
  <1> QED BY <1>3, <1>4, <1>5 DEF Inv

\* The profile that arrives is in the document of the e-mail on the button.
LEMMA ProfileArrivesInv ==
  ASSUME Inv, ProfileArrives
  PROVE  Inv'
  <1>1. /\ downloads > 0 /\ downloads' = downloads - 1
        /\ \/ profile' = profile
           \/ documents[label] # NoDocument /\ profile' = documents[label]
        /\ UNCHANGED <<user, screen, requests, loaded, label, admin, editing,
                       documents, trap, mixed, sent>>
    BY DEF ProfileArrives
  <1>2. label \in Email /\ documents[label] \in Person \cup {NoDocument}
    BY DEF Inv, TypeOK
  <1>3. downloads' \in 0 .. MaxDownloads
    BY <1>1, BoundAssumption DEF Inv, TypeOK
  <1>4. TypeOK'
    BY <1>1, <1>2, <1>3 DEF Inv, TypeOK
  <1>5. AccountShown' /\ AdminInv'
    BY <1>1 DEF Inv, AccountShown, TrapNeedsNoUser, AdminInv
  <1>6. ShopInv'
    BY <1>1 DEF Inv, ShopInv
  <1>7. ProfileInv'
    BY <1>1, <1>2 DEF Inv, ProfileInv
  <1> QED BY <1>4, <1>5, <1>6, <1>7 DEF Inv

\* The answer of the administrators' list is about the service's e-mail.
LEMMA AdminsArriveInv ==
  ASSUME Inv, NEW listed \in BOOLEAN, AdminsArrive(listed)
  PROVE  Inv'
  <1>1. /\ admin # NoService /\ (listed => admin.email \in Admins)
        /\ admin' = [admin EXCEPT !.pending = FALSE, !.isAdmin = listed]
        /\ UNCHANGED <<user, screen, requests, loaded, label, profile, downloads,
                       editing, documents, trap, mixed, sent>>
    BY DEF AdminsArrive
  <1>2. admin \in Service
    BY <1>1 DEF Inv, TypeOK
  <1>3. /\ admin' \in Service /\ admin'.email = admin.email /\ admin'.isAdmin = listed
    BY <1>1, <1>2 DEF Service
  <1>4. TypeOK'
    BY <1>1, <1>3 DEF Inv, TypeOK
  <1>5. admin' # NoService
    BY <1>3, ServiceAssumption
  <1>6. AccountShown' /\ AdminInv'
    BY <1>1, <1>3, <1>5 DEF Inv, AccountShown, TrapNeedsNoUser, AdminInv
  <1>7. ShopInv' /\ ProfileInv'
    BY <1>1 DEF Inv, ShopInv, ProfileInv
  <1> QED BY <1>4, <1>6, <1>7 DEF Inv

\* An order carries the profile of the screen, and the account of the present.
LEMMA FormOrderInv ==
  ASSUME Inv, FormOrder
  PROVE  Inv'
  <1>1. /\ screen = "orders" /\ sent' = [by |-> user, profile |-> profile]
        /\ UNCHANGED <<user, screen, requests, loaded, label, admin, profile, downloads,
                       editing, documents, trap, mixed>>
    BY DEF FormOrder, shopVars
  <1>2. TypeOK'
    BY <1>1 DEF Inv, TypeOK
  <1>3. AccountShown' /\ ShopInv' /\ AdminInv'
    BY <1>1 DEF Inv, AccountShown, TrapNeedsNoUser, ShopInv, AdminInv
  <1>4. user # NoUser => label = user
    BY <1>1 DEF Inv, ShopInv, AccountShown
  <1>5. ProfileInv'
    BY <1>1, <1>4 DEF Inv, ProfileInv
  <1> QED BY <1>2, <1>3, <1>5 DEF Inv

(***************************************************************************)
(* The edit screen.                                                        *)
(***************************************************************************)

LEMMA EditTappedInv ==
  ASSUME Inv, EditTapped
  PROVE  Inv'
  <1>1. /\ screen = "orders" /\ screen' = "edit"
        /\ editing' = [email |-> label, profile |-> profile]
        /\ UNCHANGED <<user, requests, loaded, label, admin, profile, downloads,
                       documents, trap, mixed, sent>>
    BY DEF EditTapped
  <1>2. TypeOK'
    BY <1>1 DEF Inv, TypeOK, Screens
  <1>3. AccountShown' /\ ShopInv' /\ AdminInv'
    BY <1>1 DEF Inv, AccountShown, TrapNeedsNoUser, ShopInv, AdminInv
  <1>4. ProfileInv'
    BY <1>1 DEF Inv, ProfileInv
  <1> QED BY <1>2, <1>3, <1>4 DEF Inv

\* What is saved goes to the document of the customer who is signed in.
LEMMA SaveTappedInv ==
  ASSUME Inv, NEW p \in Person, saveTapped(p)
  PROVE  Inv'
  <1>1. /\ screen = "edit" /\ screen' = "orders"
        /\ p = editing.profile \/ user \in {NoUser, p}
        /\ documents' = [documents EXCEPT ![editing.email] = p]
        /\ mixed' = (mixed \/ user = NoUser)
        /\ downloads < MaxDownloads /\ downloads' = downloads + 1
        /\ UNCHANGED <<user, requests, loaded, label, admin, profile, editing, trap,
                       sent>>
    BY DEF saveTapped, Appears
  <1>2. /\ documents \in [Email -> Person \cup {NoDocument}] /\ mixed \in BOOLEAN
        /\ editing.email \in Email
    BY DEF Inv, TypeOK
  <1>3. TypeOK'
    <2>1. downloads' \in 0 .. MaxDownloads
      BY <1>1, BoundAssumption DEF Inv, TypeOK
    <2>2. documents' \in [Email -> Person \cup {NoDocument}] /\ mixed' \in BOOLEAN
      BY <1>1, <1>2
    <2> QED BY <1>1, <2>1, <2>2 DEF Inv, TypeOK, Screens
  <1>4. AccountShown' /\ ShopInv' /\ AdminInv'
    BY <1>1 DEF Inv, AccountShown, TrapNeedsNoUser, ShopInv, AdminInv
  <1>5. ProfileInv'
    <2> SUFFICES ASSUME ~mixed' PROVE ProfileInv'
      BY DEF ProfileInv
    <2>1. ~mixed /\ user # NoUser
      BY <1>1
    <2>2. label = user
      BY <1>1, <2>1 DEF Inv, ShopInv, AccountShown
    <2>3. /\ \A e \in Email : documents[e] \in {NoDocument, Blank, e}
          /\ profile \in {Blank, label} /\ editing.email = label
          /\ editing.profile \in {Blank, label}
          /\ sent.by # NoUser => sent.profile \in {Blank, sent.by}
      BY <1>1, <2>1 DEF Inv, ProfileInv
    <2>4. p \in {Blank, label}
      BY <1>1, <2>1, <2>2, <2>3
    <2>5. \A e \in Email : documents'[e] \in {NoDocument, Blank, e}
      BY <1>1, <1>2, <2>3, <2>4
    <2> QED BY <1>1, <2>3, <2>5 DEF ProfileInv
  <1> QED BY <1>3, <1>4, <1>5 DEF Inv

(***************************************************************************)
(* The invariant and what follows from it.                                 *)
(***************************************************************************)

LEMMA InvInit == Init => Inv
  <1> SUFFICES ASSUME Init PROVE Inv
    OBVIOUS
  <1>1. TypeOK
    <2>1. <<>> \in Seq(Request) /\ Len(<<>>) = 0
      BY EmptySeq
    <2>2. 0 \in 0 .. MaxDownloads /\ 0 <= MaxRequests
      BY BoundAssumption
    <2> QED BY <2>1, <2>2 DEF Init, TypeOK, Screens, Email, Person, NoEdit
  <1>2. AccountShown /\ ShopInv /\ AdminInv /\ ProfileInv
    BY DEF Init, AccountShown, TrapNeedsNoUser, ShopInv, AdminInv, ProfileInv
  <1> QED BY <1>1, <1>2 DEF Inv

LEMMA InvNext == Inv /\ [Next]_vars => Inv'
  <1> SUFFICES ASSUME Inv, [Next]_vars PROVE Inv'
    OBVIOUS
  <1>1. CASE UNCHANGED vars
    BY <1>1 DEF vars, shopVars, Inv, TypeOK, AccountShown, TrapNeedsNoUser, ShopInv,
                AdminInv, ProfileInv
  <1>2. CASE \/ \E kind \in {"login", "register"}, u \in Account : Ask(kind, u)
             \/ \E i \in DOMAIN requests : SignedIn(i) \/ SignInFails(i)
             \/ logoutTapped \/ Relaunch
    BY <1>2, AskInv, SignedInInv, SignInFailsInv, NoShopInv
  <1>3. CASE \/ AccountRevoked \/ DismissEnds \/ LeaveOrders \/ Back \/ adminTapped
             \/ DownloadFails
    BY <1>3, ScreenInv
  <1>4. CASE OpenOrders \/ FormOrder \/ ProfileArrives \/ EditTapped
    BY <1>4, OpenOrdersInv, FormOrderInv, ProfileArrivesInv, EditTappedInv
  <1>5. CASE \/ \E listed \in BOOLEAN : AdminsArrive(listed)
             \/ \E p \in Person : saveTapped(p)
    BY <1>5, AdminsArriveInv, SaveTappedInv
  <1> QED BY <1>1, <1>2, <1>3, <1>4, <1>5 DEF Next

\* Whatever sign-ins, downloads and answers meet an open Orders screen, what the
\* proof needs of the state stays true.
THEOREM AccountInvariant == Spec => []Inv
  BY InvInit, InvNext, PTL DEF Spec

\* Each variable keeps its type.
THEOREM AccountTypeCorrect == Spec => []TypeOK
  <1>1. Inv => TypeOK
    BY DEF Inv
  <1> QED BY <1>1, AccountInvariant, PTL

\* While somebody is signed in, the Orders screen shows his e-mail and has a
\* service that asks about it; the forced unwrap fails only without an account
\* (setupEmail, adminTapped).
THEOREM AccountSafe == Spec => []AccountShown
  <1>1. Inv => AccountShown
    BY DEF Inv
  <1> QED BY <1>1, AccountInvariant, PTL

\* Documents, screen and orders have their owner's data, unless an answer to an
\* earlier sign-in replaced the account under an open Orders screen or somebody
\* saved signed out (saveTapped, setupProfile, makePersonalOrder).
THEOREM ProfileSafe == Spec => []OwnProfile
  <1>1. ASSUME Inv PROVE OwnProfile
    <2>1. \A u \in Account : u \in Email
      BY DEF Email
    <2> QED BY <1>1, <2>1 DEF Inv, ProfileInv, OwnProfile
  <1>2. Inv => OwnProfile
    BY <1>1
  <1> QED BY <1>2, AccountInvariant, PTL

\* The administration opens only under the e-mail of an administrator
\* (adminTapped, AdminService).
THEOREM AdminsSafe == Spec => AdminsOnly
  <1>1. ASSUME Inv, [Next]_vars, screen # "admin", screen' = "admin"
        PROVE  label \in Admins
    <2>1. CASE adminTapped
      <3>1. admin # NoService /\ admin.isAdmin
        BY <1>1, <2>1 DEF adminTapped
      <3> QED BY <1>1, <3>1 DEF Inv, AdminInv
    <2>2. CASE ~adminTapped
      BY <1>1, <2>2 DEF Next, vars, Ask, SignedIn, SignInFails, AccountRevoked,
         logoutTapped, DismissEnds, Relaunch, Appears, OpenOrders, LeaveOrders,
         ProfileArrives, DownloadFails, AdminsArrive, Back, FormOrder, EditTapped,
         saveTapped
    <2> QED BY <2>1, <2>2
  <1>2. Inv /\ [Next]_vars
            => [screen # "admin" /\ screen' = "admin" => label \in Admins]_vars
    BY <1>1
  <1> QED BY <1>2, AccountInvariant, PTL DEF Spec, AdminsOnly
=============================================================================
