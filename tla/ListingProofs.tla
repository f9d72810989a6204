---------------------------- MODULE ListingProofs ----------------------------
(***************************************************************************)
(* Proofs about the lists of products: for any products, types and prices, *)
(* about the Catalog screen, with any documents, nodes and downloads, and  *)
(* about the laboratory programs, which filter and sort in the same way.   *)
(***************************************************************************)
EXTENDS Catalog, ProductsManager, TableProofs

(***************************************************************************)
(* Filtered and sorted lists.                                              *)
(***************************************************************************)

\* A filter keeps products of the list, and each of them once if the list has
\* it once.
LEMMA OfTypeFacts ==
  ASSUME NEW list \in Seq(Product), NEW c
  PROVE  /\ OfType(list, c) \in Seq(Product)
         /\ ToSet(OfType(list, c)) \subseteq ToSet(list)
         /\ IsInjective(list) => IsInjective(OfType(list, c))
  <1>1. PICK P : P = {i \in DOMAIN list : c \in {All, TypeOf[list[i]]}}
    OBVIOUS
  <1>2. OfType(list, c) = Keep(list, P)
    BY <1>1 DEF OfType
  <1>3. /\ Keep(list, P) \in Seq(Product)
        /\ ToSet(Keep(list, P)) = {list[i] : i \in P \cap (1 .. Len(list))}
        /\ IsInjective(list) => IsInjective(Keep(list, P))
    BY KeepFacts
  <1>4. DOMAIN list = 1 .. Len(list)
    BY LenProperties
  <1>5. {list[i] : i \in P \cap (1 .. Len(list))} \subseteq ToSet(list)
    BY <1>4 DEF ToSet
  <1> QED BY <1>2, <1>3, <1>5

\* The choice "all" keeps the list as it is.
LEMMA OfAll ==
  ASSUME NEW list \in Seq(Product)
  PROVE  OfType(list, All) = list
  <1>1. PICK P : P = DOMAIN list
    OBVIOUS
  <1>2. /\ DOMAIN list = 1 .. Len(list) /\ Len(list) \in Nat
        /\ \A i \in 1 .. Len(list) : list[i] \in Product
    BY LenProperties
  <1>3. OfType(list, All) = Keep(list, P)
    BY <1>1 DEF OfType
  <1>4. PICK f : Kept(f, list, P, Product)
    BY KeepSteps
  <1>5. /\ f \in [0 .. Len(list) -> Seq(Product)] /\ f[0] = <<>>
        /\ \A i \in 1 .. Len(list) : f[i] = Append(f[i - 1], list[i])
        /\ Keep(list, P) = f[Len(list)]
    BY <1>1, <1>2, <1>4 DEF Kept
  <1> DEFINE T == {n \in Nat : n <= Len(list) =>
                      /\ Len(f[n]) = n
                      /\ \A k \in 1 .. n : f[n][k] = list[k]}
  <1>6. 0 \in T
    BY <1>5, EmptySeq
  <1>7. ASSUME NEW n \in T PROVE n + 1 \in T
    <2> SUFFICES ASSUME n + 1 <= Len(list)
                 PROVE  /\ Len(f[n + 1]) = n + 1
                        /\ \A k \in 1 .. n + 1 : f[n + 1][k] = list[k]
      BY <1>7
    <2>1. PICK s : s = f[n]
      OBVIOUS
    <2>2. /\ n \in Nat /\ n \in 0 .. Len(list) /\ n + 1 \in 1 .. Len(list)
          /\ n <= Len(list) /\ (n + 1) - 1 = n
      BY <1>2, <1>7
    <2>3. /\ s \in Seq(Product) /\ Len(s) = n /\ \A k \in 1 .. n : s[k] = list[k]
      BY <1>5, <1>7, <2>1, <2>2
    <2>4. f[n + 1] = Append(s, list[n + 1]) /\ list[n + 1] \in Product
      BY <1>2, <1>5, <2>1, <2>2
    <2>5. /\ Len(Append(s, list[n + 1])) = n + 1
          /\ \A k \in 1 .. n : Append(s, list[n + 1])[k] = s[k]
          /\ Append(s, list[n + 1])[n + 1] = list[n + 1]
      BY <2>3, <2>4, AppendProperties
    <2>6. \A k \in 1 .. n + 1 : k \in 1 .. n \/ k = n + 1
      BY <2>2
    <2> QED BY <2>3, <2>4, <2>5, <2>6
  <1>8. T = Nat
    <2> HIDE DEF T
    <2>1. T \subseteq Nat
      BY DEF T
    <2> QED BY <1>6, <1>7, <2>1, NatSetInduction
  <1>9. /\ Len(f[Len(list)]) = Len(list)
        /\ \A k \in 1 .. Len(list) : f[Len(list)][k] = list[k]
    BY <1>2, <1>8
  <1>10. f[Len(list)] \in Seq(Product)
    BY <1>2, <1>5
  <1> QED BY <1>3, <1>5, <1>9, <1>10, SeqEqual

\* A list without repetition is no shorter than what a filter keeps of it.
LEMMA OfTypeLen ==
  ASSUME NEW list \in Seq(Product), IsInjective(list), NEW c
  PROVE  Len(OfType(list, c)) <= Len(list)
  <1>1. PICK kept : kept = OfType(list, c)
    OBVIOUS
  <1>2. kept \in Seq(Product) /\ IsInjective(kept) /\ ToSet(kept) \subseteq ToSet(list)
    BY <1>1, OfTypeFacts
  <1>3. /\ IsFiniteSet(ToSet(list)) /\ Cardinality(ToSet(list)) = Len(list)
        /\ Cardinality(ToSet(kept)) = Len(kept)
    BY <1>2, InjectiveLen
  <1>4. Cardinality(ToSet(kept)) <= Cardinality(ToSet(list))
    BY <1>2, <1>3, FS_Subset
  <1> QED BY <1>1, <1>3, <1>4

\* A list that is shuffled has each product as often as before.
LEMMA ShuffledFacts ==
  ASSUME NEW list \in Seq(Product), NEW f \in Bijection(DOMAIN list, DOMAIN list)
  PROVE  LET s == [i \in DOMAIN list |-> list[f[i]]]
         IN  /\ s \in Seq(Product)
             /\ SameProducts(s, list)
             /\ IsInjective(list) => IsInjective(s)
  <1>1. PICK s, n : s = [i \in DOMAIN list |-> list[f[i]]] /\ n = Len(list)
    OBVIOUS
  <1>2. /\ DOMAIN list = 1 .. n /\ n \in Nat
        /\ \A i \in 1 .. n : list[i] \in Product
    BY <1>1, LenProperties
  <1>3. /\ f \in [1 .. n -> 1 .. n]
        /\ \A i, j \in 1 .. n : f[i] = f[j] => i = j
        /\ \A j \in 1 .. n : \E i \in 1 .. n : f[i] = j
    BY <1>2 DEF Bijection, Injection, Surjection, IsInjective
  <1>4. s \in [1 .. n -> Product]
    BY <1>1, <1>2, <1>3
  <1>5. s \in Seq(Product) /\ DOMAIN s = 1 .. n
    BY <1>2, <1>4, FunctionIsSeq
  <1>6. Len(s) = n
    BY <1>2, <1>5, LenProperties
  <1>7. ASSUME NEW p PROVE Occurrences(s, p) = Occurrences(list, p)
    <2>1. PICK S, L : /\ S = {i \in DOMAIN s : s[i] = p}
                      /\ L = {i \in DOMAIN list : list[i] = p}
      OBVIOUS
    <2>2. S \subseteq 1 .. n /\ IsFiniteSet(S)
      <3>1. IsFiniteSet(1 .. n)
        BY <1>2, FS_Interval
      <3> QED BY <1>5, <2>1, <3>1, FS_Subset
    <2>3. \A i \in 1 .. n : i \in S <=> f[i] \in L
      BY <1>1, <1>2, <1>3, <1>5, <2>1
    <2>4. PICK g : g = [i \in S |-> f[i]]
      OBVIOUS
    <2>5. g \in [S -> L]
      BY <2>2, <2>3, <2>4
    <2>6. IsInjective(g)
      BY <1>3, <2>2, <2>4 DEF IsInjective
    <2>7. \A j \in L : \E i \in S : g[i] = j
      BY <1>2, <1>3, <2>1, <2>3, <2>4
    <2>8. g \in Bijection(S, L)
      BY <2>5, <2>6, <2>7 DEF Bijection, Injection, Surjection
    <2>9. Cardinality(L) = Cardinality(S)
      BY <2>2, <2>8, FS_Bijection DEF ExistsBijection
    <2>10. Occurrences(s, p) = Cardinality(S) /\ Occurrences(list, p) = Cardinality(L)
      BY <2>1 DEF Occurrences
    <2> QED BY <2>9, <2>10
  <1>8. ASSUME IsInjective(list) PROVE IsInjective(s)
    <2>1. ASSUME NEW i \in 1 .. n, NEW j \in 1 .. n, s[i] = s[j] PROVE i = j
      <3>1. list[f[i]] = list[f[j]] /\ f[i] \in 1 .. n /\ f[j] \in 1 .. n
        BY <1>1, <1>2, <1>3, <2>1
      <3>2. f[i] = f[j]
        BY <1>2, <1>8, <3>1 DEF IsInjective
      <3> QED BY <1>3, <3>2
    <2> QED BY <1>5, <2>1 DEF IsInjective
  <1> QED BY <1>1, <1>5, <1>6, <1>7, <1>8 DEF SameProducts

LEMMA SortedFacts ==
  ASSUME NEW list \in Seq(Product), NEW ascending, NEW s \in Sorted(list, ascending)
  PROVE  /\ s \in Seq(Product)
         /\ SameProducts(s, list)
         /\ IsOrdered(s, ascending)
         /\ IsInjective(list) => IsInjective(s)
  <1>1. IsOrdered(s, ascending)
    BY DEF Sorted
  <1>2. PICK f \in Bijection(DOMAIN list, DOMAIN list) :
            s = [i \in DOMAIN list |-> list[f[i]]]
    BY DEF Sorted
  <1> QED BY <1>1, <1>2, ShuffledFacts

\* To have the same products is an equivalence.
LEMMA SameReflexive ==
  ASSUME NEW s PROVE SameProducts(s, s)
  BY DEF SameProducts

LEMMA SameTransitive ==
  ASSUME NEW s, NEW t, NEW u, SameProducts(s, t), SameProducts(t, u)
  PROVE  SameProducts(s, u)
  <1>1. \A p, r : p \notin ToSet(r) => {i \in DOMAIN r : r[i] = p} = {}
    BY DEF ToSet
  <1>2. ASSUME NEW p PROVE Occurrences(s, p) = Occurrences(t, p)
    <2>1. CASE p \in ToSet(s) \cup ToSet(t)
      BY <2>1 DEF SameProducts
    <2>2. CASE p \notin ToSet(s) \cup ToSet(t)
      BY <1>1, <2>2 DEF Occurrences
    <2> QED BY <2>1, <2>2
  <1>3. ASSUME NEW p PROVE Occurrences(t, p) = Occurrences(u, p)
    <2>1. CASE p \in ToSet(t) \cup ToSet(u)
      BY <2>1 DEF SameProducts
    <2>2. CASE p \notin ToSet(t) \cup ToSet(u)
      BY <1>1, <2>2 DEF Occurrences
    <2> QED BY <2>1, <2>2
  <1> QED BY <1>2, <1>3 DEF SameProducts

(***************************************************************************)
(* The Catalog screen: the inductive invariant.                            *)
(***************************************************************************)

\* A download has no products before its first event, and each product of its
\* database once before its second.
DownloadInv ==
    \A n \in DOMAIN downloads :
        /\ downloads[n].events = 0 => downloads[n].list = <<>>
        /\ downloads[n].events <= 1 => IsInjective(downloads[n].list)

\* Without a screen there is no service and nobody waits for a download; there
\* is a service from the first answer on, and until then the button is new.
ScreenInv ==
    /\ screen = "none" => filterService = NoService /\ Live = {}
    /\ filterService = NoService =>
          icon = "up" /\ \A n \in Live : downloads[n].events = 0

\* no two live downloads have been answered, and none twice
FirstAnswer ==
    \A m, n \in Live : downloads[m].events > 0 /\ downloads[n].events > 0 =>
                           m = n /\ downloads[n].events = 1

\* The flag of the service says how the list is sorted, and the image of the
\* button says the same until a second answer.
ServiceInv ==
    filterService # NoService =>
        /\ IsInjective(filterService.products) => IsInjective(filteredProducts)
        /\ arranged => IsOrdered(filteredProducts, filterService.sorted)
        /\ FirstAnswer => filterService.sorted = (icon = "up")

Inv ==
    /\ TypeOK
    /\ ShownIsChosen /\ OneDownload
    /\ DownloadInv /\ ScreenInv /\ ServiceInv
    /\ TrapOnlyBeforeAnswer

DownloadOf(v) == [db : {"firestore", "rtdb"}, list : Seq(Product),
                  events : Nat, seen : 0 .. v, live : BOOLEAN]

\* What the type invariant says about the downloads.
LEMMA DownloadFacts ==
  ASSUME TypeOK
  PROVE  /\ downloads \in Seq(DownloadOf(version))
         /\ DOMAIN downloads = 1 .. Len(downloads) /\ Len(downloads) \in Nat
         /\ \A n \in DOMAIN downloads : downloads[n] \in DownloadOf(version)
         /\ Live \subseteq DOMAIN downloads
  <1>1. downloads \in Seq(DownloadOf(version))
    BY DEF TypeOK, DownloadOf
  <1> QED BY <1>1, LenProperties DEF Live

\* The list is replaced by another one, or stays, on a screen that is there.
LEMMA SortStep ==
  ASSUME NEW s \in Service, filterByPrice(s)
  PROVE  /\ filterService' \in Service /\ filteredProducts' \in Seq(Product)
         /\ filterService'.products = s.products
         /\ filterService'.filtered = filteredProducts'
         /\ filterService'.sorted = ~s.sorted
         /\ SameProducts(filteredProducts', s.filtered)
         /\ IsOrdered(filteredProducts', ~s.sorted)
         /\ IsInjective(s.filtered) => IsInjective(filteredProducts')
         /\ arranged' = TRUE
  <1>1. PICK list \in Sorted(s.filtered, ~s.sorted) :
            /\ filterService' = [s EXCEPT !.filtered = list, !.sorted = ~s.sorted]
            /\ filteredProducts' = list
            /\ arranged' = TRUE
    BY DEF filterByPrice
  <1>2. s.filtered \in Seq(Product)
    BY DEF Service
  <1>3. /\ list \in Seq(Product) /\ SameProducts(list, s.filtered)
        /\ IsOrdered(list, ~s.sorted)
        /\ IsInjective(s.filtered) => IsInjective(list)
    BY <1>2, SortedFacts
  <1> QED BY <1>1, <1>3 DEF Service

\* A download is asked for: viewDidLoad and changeBD.
LEMMA DownloadStep ==
  ASSUME Inv, Alive, downloadCatalog, screen' = "open",
         UNCHANGED <<trap, screenVars, node, version, history>>
  PROVE  Inv'
  <1>1. PICK k, d : /\ k = Len(downloads) + 1
                    /\ d = Download(IF isMainBD THEN "firestore" ELSE "rtdb")
    OBVIOUS
  <1>2. /\ TypeOK /\ version \in Nat
        /\ downloads \in Seq(DownloadOf(version))
        /\ DOMAIN downloads = 1 .. Len(downloads) /\ Len(downloads) \in Nat
        /\ Live \subseteq DOMAIN downloads
    BY DownloadFacts DEF Inv, TypeOK
  <1>3. /\ d \in DownloadOf(version) /\ d.live /\ d.events = 0 /\ d.list = <<>>
        /\ downloads' = Append(downloads, d) /\ isMainBD' \in BOOLEAN
    BY <1>1, <1>2, EmptySeq DEF downloadCatalog, Download, DownloadOf
  <1>4. /\ downloads' \in Seq(DownloadOf(version))
        /\ DOMAIN downloads' = 1 .. k /\ k \notin DOMAIN downloads
        /\ downloads'[k] = d
        /\ \A n \in DOMAIN downloads : n \in DOMAIN downloads' /\ downloads'[n] = downloads[n]
        /\ \A n \in DOMAIN downloads' : n \in DOMAIN downloads \/ n = k
    BY <1>1, <1>2, <1>3, AppendProperties, LenProperties
  <1>5. Live' = Live \cup {k}
    <2>1. \A n : n \in Live' <=> n \in DOMAIN downloads' /\ downloads'[n].live
      BY DEF Live
    <2>2. \A n \in DOMAIN downloads : n \in Live' <=> n \in Live
      BY <1>4, <2>1 DEF Live
    <2>3. k \in Live'
      <3>1. k \in DOMAIN downloads' /\ downloads'[k].live
        BY <1>2, <1>1, <1>3, <1>4
      <3> QED BY <2>1, <3>1
    <2> QED BY <1>2, <1>4, <2>1, <2>2, <2>3
  <1>6. /\ trap' = trap /\ filterService' = filterService
        /\ filteredProducts' = filteredProducts /\ icon' = icon
        /\ node' = node /\ version' = version /\ choice' = choice
        /\ arranged' = arranged /\ trap = "none"
    BY DEF screenVars, history, Alive
  <1>14. Loaded' => Loaded
    BY <1>2, <1>6 DEF Inv, TypeOK, Loaded, ScreenInv
  <1>7. TypeOK'
    BY <1>3, <1>4, <1>6 DEF Inv, TypeOK, DownloadOf
  <1>8. ShownIsChosen'
    BY <1>6, <1>14 DEF Inv, ShownIsChosen
  <1>9. OneDownload'
    BY <1>2, <1>4, <1>5, <1>6, <1>14 DEF Inv, OneDownload
  <1>10. DownloadInv'
    <2>1. IsInjective(<<>>)
      BY DEF IsInjective
    <2> QED BY <1>3, <1>4, <2>1 DEF Inv, DownloadInv
  <1>11. ScreenInv'
    BY <1>2, <1>3, <1>4, <1>5, <1>6 DEF Inv, ScreenInv
  <1>12. ServiceInv'
    <2>1. FirstAnswer' => FirstAnswer
      BY <1>2, <1>3, <1>4, <1>5 DEF FirstAnswer
    <2> QED BY <1>6, <2>1 DEF Inv, ServiceInv
  <1>13. TrapOnlyBeforeAnswer'
    BY <1>6 DEF TrapOnlyBeforeAnswer
  <1> QED BY <1>7, <1>8, <1>9, <1>10, <1>11, <1>12, <1>13 DEF Inv

\* A download is answered: the documents or an error of Firestore, or the value
\* of the node.
LEMMA AnswerStep ==
  ASSUME Inv, NEW n \in DOMAIN downloads, NEW d \in DownloadOf(version),
         downloads' = [downloads EXCEPT ![n] = d],
         d.live = downloads[n].live, d.events = downloads[n].events + 1,
         d.events <= 1 => IsInjective(d.list), Complete(d), Alive,
         UNCHANGED <<screen, trap, isMainBD, icon, node, version>>
  PROVE  Inv'
  <1>1. /\ TypeOK /\ downloads \in Seq(DownloadOf(version))
        /\ DOMAIN downloads = 1 .. Len(downloads) /\ Len(downloads) \in Nat
        /\ Live \subseteq DOMAIN downloads
        /\ \A m \in DOMAIN downloads : downloads[m].events \in Nat
    BY DownloadFacts DEF Inv, DownloadOf
  <1>2. /\ downloads' \in Seq(DownloadOf(version)) /\ DOMAIN downloads' = DOMAIN downloads
        /\ downloads'[n] = d
        /\ \A m \in DOMAIN downloads : m # n => downloads'[m] = downloads[m]
    BY <1>1, ExceptSeq
  <1>3. Live' = Live
    <2>1. \A m \in DOMAIN downloads : downloads'[m].live = downloads[m].live
      BY <1>2
    <2> QED BY <1>2, <2>1 DEF Live
  <1>4. /\ d.events \in Nat /\ d.events > 0 /\ d.list \in Seq(Product)
        /\ downloads[n].events \in Nat
    BY <1>1 DEF DownloadOf
  <1>5. DownloadInv'
    BY <1>2, <1>4 DEF Inv, DownloadInv
  <1>6. /\ screen' = screen /\ trap' = trap /\ icon' = icon /\ trap = "none"
        /\ isMainBD' = isMainBD /\ node' = node /\ version' = version
        /\ screen \in {"none", "open"}
    BY <1>1 DEF Alive, TypeOK
  <1>7. TrapOnlyBeforeAnswer'
    BY <1>6 DEF TrapOnlyBeforeAnswer
  <1>8. ASSUME ~d.live
        PROVE  TypeOK' /\ ShownIsChosen' /\ OneDownload' /\ ScreenInv' /\ ServiceInv'
    <2>1. /\ filterService' = filterService /\ filteredProducts' = filteredProducts
          /\ choice' = choice /\ arranged' = arranged
      BY <1>8 DEF Complete, history
    <2>2. n \notin Live /\ \A m \in Live : downloads'[m] = downloads[m]
      BY <1>1, <1>2, <1>8 DEF Live
    <2>3. TypeOK'
      BY <1>1, <1>2, <1>6, <2>1 DEF TypeOK, DownloadOf
    <2>4. (Loaded' <=> Loaded) /\ (FirstAnswer' <=> FirstAnswer)
      BY <1>3, <1>6, <2>1, <2>2 DEF Loaded, FirstAnswer
    <2>5. ShownIsChosen'
      BY <2>1, <2>4 DEF Inv, ShownIsChosen
    <2>6. OneDownload'
      BY <1>3, <2>1, <2>2, <2>4 DEF Inv, OneDownload
    <2>7. ScreenInv' /\ ServiceInv'
      BY <1>3, <1>6, <2>1, <2>2, <2>4 DEF Inv, ScreenInv, ServiceInv
    <2> QED BY <2>3, <2>5, <2>6, <2>7
  <1>9. ASSUME d.live
        PROVE  TypeOK' /\ ShownIsChosen' /\ OneDownload' /\ ScreenInv' /\ ServiceInv'
    <2>1. PICK s : s = NewService(d.list)
      OBVIOUS
    <2>2. /\ s \in Service /\ s.products = d.list /\ s.filtered = d.list
          /\ s.sorted = FALSE
      BY <1>4, <2>1 DEF NewService, Service
    <2>3. filterByPrice(s) /\ choice' = All
      BY <1>9, <2>1 DEF Complete
    <2>4. /\ filterService' \in Service /\ filteredProducts' \in Seq(Product)
          /\ filterService'.products = d.list
          /\ filterService'.filtered = filteredProducts'
          /\ filterService'.sorted = TRUE
          /\ SameProducts(filteredProducts', d.list)
          /\ IsOrdered(filteredProducts', TRUE)
          /\ IsInjective(d.list) => IsInjective(filteredProducts')
          /\ arranged' = TRUE
      BY <2>2, <2>3, SortStep
    <2>5. filterService' # NoService
      BY <2>4, CatalogAssumption
    <2>6. n \in Live /\ screen = "open"
      BY <1>6, <1>9 DEF Inv, ScreenInv, Live
    <2>7. TypeOK'
      <3>1. choice' \in Choice /\ arranged' \in BOOLEAN
        BY <2>3, <2>4 DEF Choice
      <3> QED BY <1>1, <1>2, <1>6, <2>4, <2>5, <3>1 DEF TypeOK, DownloadOf
    <2>8. ShownIsChosen'
      BY <1>4, <2>3, <2>4, OfAll DEF ShownIsChosen
    <2>9. OneDownload'
      BY <1>2, <1>3, <1>4, <2>4, <2>6 DEF OneDownload
    <2>10. ScreenInv'
      BY <1>6, <2>5, <2>6 DEF ScreenInv
    <2>11. ServiceInv'
      <3>1. ASSUME FirstAnswer' PROVE icon = "up"
        <4>1. \A m \in Live : downloads'[m].events > 0 => m = n /\ d.events = 1
          BY <1>2, <1>3, <1>4, <2>6, <3>1 DEF FirstAnswer
        <4>2. d.events = 1
          BY <1>2, <1>4, <2>6, <4>1
        <4>3. \A m \in Live : ~(downloads[m].events > 0)
          BY <1>1, <1>2, <1>4, <4>1, <4>2
        <4>4. ~Loaded
          BY <4>3 DEF Inv, OneDownload
        <4>5. filterService = NoService
          BY <2>6, <4>4 DEF Loaded
        <4> QED BY <4>5 DEF Inv, ScreenInv
      <3> QED BY <1>6, <2>4, <3>1 DEF ServiceInv
    <2> QED BY <2>7, <2>8, <2>9, <2>10, <2>11
  <1>10. d.live \/ ~d.live
    OBVIOUS
  <1> QED BY <1>5, <1>7, <1>8, <1>9, <1>10 DEF Inv

\* The process ends by a trap that is not the missing service's.
LEMMA TrapStep ==
  ASSUME Inv, NEW t \in {"image", "node"}, trap' = t,
         UNCHANGED <<screen, isMainBD, downloads, screenVars, node, version, history>>
  PROVE  Inv'
  <1>1. TypeOK'
    BY DEF Inv, TypeOK, screenVars, history
  <1>2. ShownIsChosen' /\ OneDownload' /\ DownloadInv' /\ ScreenInv' /\ ServiceInv'
    BY DEF Inv, ShownIsChosen, OneDownload, DownloadInv, ScreenInv, ServiceInv,
           Loaded, Live, FirstAnswer, screenVars, history
  <1>3. TrapOnlyBeforeAnswer'
    BY DEF TrapOnlyBeforeAnswer
  <1> QED BY <1>1, <1>2, <1>3 DEF Inv

\* Firestore answers a download.
LEMMA FirestoreStep ==
  ASSUME Inv, NEW n, NEW answer \in {<<>>, Documents}, FirestoreAnswers(n, answer)
  PROVE  Inv'
  <1>1. PICK d : d = [downloads[n] EXCEPT !.list = answer, !.events = 1]
    OBVIOUS
  <1>2. /\ Alive /\ n \in DOMAIN downloads /\ downloads[n].events = 0
        /\ downloads' = [downloads EXCEPT ![n] = d] /\ Complete(d)
        /\ UNCHANGED <<screen, trap, isMainBD, icon, node, version>>
    BY <1>1 DEF FirestoreAnswers, Asked
  <1>3. answer \in Seq(Product) /\ IsInjective(answer)
    <2>1. IsInjective(<<>>) /\ <<>> \in Seq(Product)
      BY EmptySeq DEF IsInjective
    <2>2. IsInjective(Documents) /\ Documents \in Seq(Product)
      BY CatalogAssumption
    <2> QED BY <2>1, <2>2
  <1>4. /\ d \in DownloadOf(version) /\ d.live = downloads[n].live
        /\ d.events = 1 /\ d.list = answer
    BY <1>1, <1>2, <1>3, DownloadFacts DEF Inv, DownloadOf
  <1>5. d.events = downloads[n].events + 1 /\ (d.events <= 1 => IsInjective(d.list))
    BY <1>2, <1>3, <1>4
  <1> QED BY <1>2, <1>4, <1>5, AnswerStep

\* An observer appends the value of the node to what it has.
LEMMA ObserverStep ==
  ASSUME Inv, NEW n, ObserverFires(n)
  PROVE  Inv'
  <1>1. PICK d : d = [downloads[n] EXCEPT !.list = @ \o node, !.events = @ + 1,
                                          !.seen = version]
    OBVIOUS
  <1>2. /\ Alive /\ n \in DOMAIN downloads /\ node \in Nodes
        /\ downloads' = [downloads EXCEPT ![n] = d] /\ Complete(d)
        /\ UNCHANGED <<screen, trap, isMainBD, icon, node, version>>
    BY <1>1 DEF ObserverFires, Unseen, Asked
  <1>3. /\ node \in Seq(Product) /\ IsInjective(node) /\ version \in Nat
    BY <1>2, CatalogAssumption DEF Inv, TypeOK
  <1>4. PICK e : e = downloads[n]
    OBVIOUS
  <1>5. e \in DownloadOf(version) /\ e.list \in Seq(Product) /\ e.events \in Nat
    BY <1>2, <1>4, DownloadFacts DEF Inv, DownloadOf
  <1>6. e.list \o node \in Seq(Product)
    BY <1>3, <1>5, ConcatProperties
  <1>7. /\ d \in DownloadOf(version) /\ d.live = e.live
        /\ d.events = e.events + 1 /\ d.list = e.list \o node
    <2>1. PICK list, k : list = e.list \o node /\ k = e.events + 1
      OBVIOUS
    <2>2. d = [e EXCEPT !.list = list, !.events = k, !.seen = version]
      BY <1>1, <1>4, <1>5, <2>1 DEF DownloadOf
    <2>3. list \in Seq(Product) /\ k \in Nat /\ version \in 0 .. version
      BY <1>3, <1>5, <1>6, <2>1
    <2> QED BY <1>5, <2>1, <2>2, <2>3 DEF DownloadOf
  <1>8. d.events <= 1 => IsInjective(d.list)
    <2>1. d.events <= 1 => e.list = <<>>
      BY <1>2, <1>4, <1>5, <1>7 DEF Inv, DownloadInv
    <2>2. <<>> \o node = node
      BY <1>3, ConcatEmptySeq
    <2> QED BY <1>3, <1>7, <2>1, <2>2
  <1> QED BY <1>2, <1>4, <1>7, <1>8, AnswerStep

\* Somebody edits the database.
LEMMA NodeStep ==
  ASSUME Inv, NEW value \in Nodes \cup {NotAnArray}, NodeChanges(value)
  PROVE  Inv'
  <1>1. /\ node' = value /\ version' = version + 1 /\ screen' = screen /\ trap' = trap
        /\ isMainBD' = isMainBD /\ downloads' = downloads
        /\ filterService' = filterService /\ filteredProducts' = filteredProducts
        /\ icon' = icon /\ choice' = choice /\ arranged' = arranged
    BY DEF NodeChanges, screenVars, history
  <1>2. /\ version \in Nat /\ version' \in Nat
        /\ downloads \in Seq(DownloadOf(version))
    BY <1>1, DownloadFacts DEF Inv, TypeOK
  <1>3. downloads' \in Seq(DownloadOf(version'))
    <2>1. 0 .. version \subseteq 0 .. version'
      BY <1>1, <1>2
    <2>2. DownloadOf(version) \subseteq DownloadOf(version')
      BY <2>1 DEF DownloadOf
    <2>3. /\ Len(downloads) \in Nat /\ downloads \in [1 .. Len(downloads) -> DownloadOf(version)]
      BY <1>2, LenProperties
    <2>4. downloads \in [1 .. Len(downloads) -> DownloadOf(version')]
      BY <2>2, <2>3
    <2> QED BY <1>1, <2>3, <2>4, SeqDef
  <1>4. TypeOK'
    BY <1>1, <1>2, <1>3 DEF Inv, TypeOK, DownloadOf
  <1>5. ShownIsChosen' /\ OneDownload' /\ DownloadInv' /\ ScreenInv' /\ ServiceInv'
    BY <1>1 DEF Inv, ShownIsChosen, OneDownload, DownloadInv, ScreenInv, ServiceInv,
           Loaded, Live, FirstAnswer
  <1>6. TrapOnlyBeforeAnswer'
    BY <1>1 DEF Inv, TrapOnlyBeforeAnswer, Live
  <1> QED BY <1>4, <1>5, <1>6 DEF Inv

\* A tap on the sort button, with a service.
LEMMA SortTapStep ==
  ASSUME Inv, Open, filterService # NoService, sortButtonTapped
  PROVE  Inv'
  <1>1. PICK s : s = filterService
    OBVIOUS
  <1>2. /\ filterByPrice(s) /\ icon' = IF icon = "up" THEN "down" ELSE "up"
        /\ screen' = screen /\ trap' = trap /\ isMainBD' = isMainBD
        /\ downloads' = downloads /\ node' = node /\ version' = version
        /\ choice' = choice
    BY <1>1 DEF sortButtonTapped, switchImageButton
  <1>3. /\ TypeOK /\ s \in Service /\ s.filtered = filteredProducts
        /\ icon \in {"up", "down"} /\ screen = "open" /\ trap = "none" /\ Loaded
        /\ s.sorted \in BOOLEAN /\ s.products \in Seq(Product)
    BY <1>1 DEF Inv, TypeOK, Open, Alive, ShownIsChosen, Loaded, Service
  <1>4. /\ filterService' \in Service /\ filteredProducts' \in Seq(Product)
        /\ filterService'.products = s.products
        /\ filterService'.filtered = filteredProducts'
        /\ filterService'.sorted = ~s.sorted
        /\ SameProducts(filteredProducts', s.filtered)
        /\ IsOrdered(filteredProducts', ~s.sorted)
        /\ IsInjective(s.filtered) => IsInjective(filteredProducts')
        /\ arranged' = TRUE
    BY <1>2, <1>3, SortStep
  <1>5. filterService' # NoService
    BY <1>4, CatalogAssumption
  <1>6. Live' = Live /\ (FirstAnswer' <=> FirstAnswer) /\ Loaded'
    BY <1>2, <1>3, <1>5 DEF Live, FirstAnswer, Loaded
  <1>7. TypeOK'
    BY <1>2, <1>3, <1>4, <1>5 DEF TypeOK
  <1>8. ShownIsChosen'
    <2>1. SameProducts(s.filtered, OfType(s.products, choice))
      BY <1>1, <1>3 DEF Inv, ShownIsChosen
    <2>2. SameProducts(filteredProducts', OfType(s.products, choice))
      BY <1>4, <2>1, SameTransitive
    <2> QED BY <1>2, <1>4, <2>2 DEF ShownIsChosen
  <1>9. OneDownload'
    BY <1>1, <1>2, <1>3, <1>4, <1>6 DEF Inv, OneDownload
  <1>10. DownloadInv' /\ ScreenInv'
    BY <1>2, <1>3, <1>5 DEF Inv, DownloadInv, ScreenInv
  <1>11. ServiceInv'
    <2>1. FirstAnswer => s.sorted = (icon = "up")
      BY <1>1, <1>3 DEF Inv, ServiceInv, Loaded
    <2>2. FirstAnswer' => filterService'.sorted = (icon' = "up")
      BY <1>2, <1>3, <1>4, <1>6, <2>1
    <2>3. IsInjective(s.products) => IsInjective(filteredProducts')
      BY <1>1, <1>3, <1>4 DEF Inv, ServiceInv, Loaded
    <2> QED BY <1>4, <2>2, <2>3 DEF ServiceInv
  <1>12. TrapOnlyBeforeAnswer'
    BY <1>2, <1>3 DEF TrapOnlyBeforeAnswer
  <1> QED BY <1>7, <1>8, <1>9, <1>10, <1>11, <1>12 DEF Inv

\* A type is chosen, with a service.
LEMMA FilterStep ==
  ASSUME Inv, Open, filterService # NoService, NEW c \in Choice, FilterByType(c)
  PROVE  Inv'
  <1>1. PICK s, list : s = filterService /\ list = OfType(s.products, c)
    OBVIOUS
  <1>2. /\ filterService' = [s EXCEPT !.filtered = list]
        /\ filteredProducts' = list /\ choice' = c /\ arranged' = FALSE
        /\ icon' = icon /\ screen' = screen /\ trap' = trap /\ isMainBD' = isMainBD
        /\ downloads' = downloads /\ node' = node /\ version' = version
    BY <1>1 DEF FilterByType
  <1>3. /\ TypeOK /\ s \in Service /\ screen = "open" /\ trap = "none" /\ Loaded
        /\ s.products \in Seq(Product)
    BY <1>1 DEF Inv, TypeOK, Open, Alive, Loaded, Service
  <1>4. list \in Seq(Product) /\ (IsInjective(s.products) => IsInjective(list))
    BY <1>1, <1>3, OfTypeFacts
  <1>5. /\ filterService' \in Service /\ filterService'.products = s.products
        /\ filterService'.filtered = list /\ filterService'.sorted = s.sorted
    BY <1>2, <1>3, <1>4 DEF Service
  <1>6. filterService' # NoService
    BY <1>5, CatalogAssumption
  <1>7. Live' = Live /\ (FirstAnswer' <=> FirstAnswer) /\ Loaded'
    BY <1>2, <1>3, <1>6 DEF Live, FirstAnswer, Loaded
  <1>8. TypeOK'
    BY <1>2, <1>3, <1>4, <1>5, <1>6 DEF TypeOK
  <1>9. ShownIsChosen'
    BY <1>1, <1>2, <1>5, SameReflexive DEF ShownIsChosen
  <1>10. OneDownload'
    BY <1>1, <1>2, <1>3, <1>5, <1>7 DEF Inv, OneDownload
  <1>11. DownloadInv' /\ ScreenInv'
    BY <1>2, <1>3, <1>6 DEF Inv, DownloadInv, ScreenInv
  <1>12. ServiceInv'
    <2>1. FirstAnswer' => filterService'.sorted = (icon' = "up")
      BY <1>1, <1>2, <1>3, <1>5, <1>7 DEF Inv, ServiceInv, Loaded
    <2> QED BY <1>2, <1>4, <1>5, <2>1 DEF ServiceInv
  <1>13. TrapOnlyBeforeAnswer'
    BY <1>2, <1>3 DEF TrapOnlyBeforeAnswer
  <1> QED BY <1>8, <1>9, <1>10, <1>11, <1>12, <1>13 DEF Inv

\* A button is tapped without a service, and the cast fails.
LEMMA CastFails ==
  ASSUME Inv, Open, filterService = NoService, trap' = "service",
         UNCHANGED <<screen, isMainBD, downloads, screenVars, node, version, history>>
  PROVE  Inv'
  <1>1. TypeOK'
    BY DEF Inv, TypeOK, screenVars, history
  <1>2. ShownIsChosen' /\ OneDownload' /\ DownloadInv' /\ ScreenInv' /\ ServiceInv'
    BY DEF Inv, ShownIsChosen, OneDownload, DownloadInv, ScreenInv, ServiceInv,
           Loaded, Live, FirstAnswer, screenVars, history
  <1>3. TrapOnlyBeforeAnswer'
    BY DEF Inv, ScreenInv, TrapOnlyBeforeAnswer, Live
  <1> QED BY <1>1, <1>2, <1>3 DEF Inv

\* The screen is forgotten: a sign-out, or another start of the process.
LEMMA ForgetStep ==
  ASSUME Inv, ForgetScreen, node' = node, version' = version,
         trap' \in {"none", "image", "node", "service"}, isMainBD' \in BOOLEAN,
         downloads' \in Seq(DownloadOf(version)), Live' = {},
         \A n \in DOMAIN downloads' :
             /\ n \in DOMAIN downloads
             /\ downloads'[n].events = downloads[n].events
             /\ downloads'[n].list = downloads[n].list
  PROVE  Inv'
  <1>1. /\ screen' = "none" /\ filterService' = NoService /\ filteredProducts' = <<>>
        /\ icon' = "up" /\ choice' = All /\ arranged' = FALSE
    BY DEF ForgetScreen
  <1>2. <<>> \in Seq(Product) /\ All \in Choice
    BY EmptySeq DEF Choice
  <1>3. TypeOK'
    BY <1>1, <1>2 DEF Inv, TypeOK, DownloadOf
  <1>4. ShownIsChosen' /\ OneDownload'
    BY <1>1 DEF ShownIsChosen, OneDownload, Loaded
  <1>5. DownloadInv'
    BY DEF Inv, DownloadInv
  <1>6. ScreenInv' /\ ServiceInv' /\ TrapOnlyBeforeAnswer'
    BY <1>1 DEF ScreenInv, ServiceInv, TrapOnlyBeforeAnswer
  <1> QED BY <1>3, <1>4, <1>5, <1>6 DEF Inv

LEMMA SignOutStep ==
  ASSUME Inv, SignOut PROVE Inv'
  <1>1. /\ ForgetScreen /\ trap' = trap /\ isMainBD' = isMainBD
        /\ node' = node /\ version' = version
        /\ downloads' = [n \in DOMAIN downloads |->
                            [downloads[n] EXCEPT !.live = FALSE]]
    BY DEF SignOut
  <1>2. /\ Len(downloads) \in Nat /\ DOMAIN downloads = 1 .. Len(downloads)
        /\ \A n \in DOMAIN downloads : downloads[n] \in DownloadOf(version)
        /\ trap \in {"none", "image", "node", "service"} /\ isMainBD \in BOOLEAN
    BY DownloadFacts DEF Inv, TypeOK
  <1>3. ASSUME NEW n \in DOMAIN downloads
        PROVE  /\ downloads'[n] \in DownloadOf(version) /\ downloads'[n].live = FALSE
               /\ downloads'[n].events = downloads[n].events
               /\ downloads'[n].list = downloads[n].list
    <2>1. PICK d : d = downloads[n] /\ d \in DownloadOf(version)
      BY <1>2
    <2>2. downloads'[n] = [d EXCEPT !.live = FALSE]
      BY <1>1, <2>1
    <2> QED BY <2>1, <2>2 DEF DownloadOf
  <1>4. DOMAIN downloads' = DOMAIN downloads
    BY <1>1
  <1>5. downloads' \in Seq(DownloadOf(version))
    <2>1. downloads' \in [1 .. Len(downloads) -> DownloadOf(version)]
      BY <1>1, <1>2, <1>3
    <2> QED BY <1>2, <2>1, SeqDef
  <1>6. Live' = {}
    BY <1>3, <1>4 DEF Live
  <1> QED BY <1>1, <1>2, <1>3, <1>4, <1>5, <1>6, ForgetStep

LEMMA RelaunchStep ==
  ASSUME Inv, Relaunch PROVE Inv'
  <1>1. /\ ForgetScreen /\ trap' = "none" /\ isMainBD' = TRUE /\ downloads' = <<>>
        /\ node' = node /\ version' = version
    BY DEF Relaunch
  <1>2. downloads' \in Seq(DownloadOf(version)) /\ DOMAIN downloads' = {}
    BY <1>1, EmptySeq
  <1>3. Live' = {}
    BY <1>2 DEF Live
  <1> QED BY <1>1, <1>2, <1>3, ForgetStep

LEMMA InvInit == Init => Inv
  <1> SUFFICES ASSUME Init PROVE Inv
    OBVIOUS
  <1>1. /\ downloads = <<>> /\ DOMAIN downloads = {} /\ <<>> \in Seq(Product)
        /\ downloads \in Seq(DownloadOf(version)) /\ version = 1
    BY EmptySeq DEF Init
  <1>2. TypeOK
    <2>1. /\ screen \in {"none", "open"}
          /\ trap \in {"none", "image", "node", "service"}
          /\ isMainBD \in BOOLEAN /\ icon \in {"up", "down"}
          /\ choice \in Choice /\ arranged \in BOOLEAN
          /\ filterService \in Service \cup {NoService} /\ filteredProducts = <<>>
          /\ node \in Nodes \cup {NotAnArray}
      BY DEF Init, Choice
    <2>2. downloads \in Seq([db : {"firestore", "rtdb"}, list : Seq(Product),
                             events : Nat, seen : 0 .. version, live : BOOLEAN])
      BY <1>1 DEF DownloadOf
    <2> QED BY <1>1, <2>1, <2>2 DEF TypeOK
  <1>3. Live = {} /\ ~Loaded /\ filterService = NoService
    BY <1>1 DEF Init, Live, Loaded
  <1> QED BY <1>1, <1>2, <1>3 DEF Init, Inv, ShownIsChosen, OneDownload, DownloadInv,
          ScreenInv, ServiceInv, TrapOnlyBeforeAnswer

LEMMA InvNext == Inv /\ [Next]_vars => Inv'
  <1> SUFFICES ASSUME Inv, [Next]_vars PROVE Inv'
    OBVIOUS
  <1>1. CASE viewDidLoad
    BY <1>1, DownloadStep DEF viewDidLoad
  <1>2. CASE changeBD
    BY <1>2, DownloadStep DEF changeBD, Open
  <1>3. CASE sortButtonTapped
    <2>1. CASE filterService = NoService
      <3>1. /\ Open /\ trap' = "service"
            /\ UNCHANGED <<screen, isMainBD, downloads, screenVars, node, version, history>>
        BY <1>3, <2>1 DEF sortButtonTapped
      <3> QED BY <2>1, <3>1, CastFails
    <2>2. CASE filterService # NoService
      BY <1>3, <2>2, SortTapStep DEF sortButtonTapped
    <2> QED BY <2>1, <2>2
  <1>4. ASSUME NEW c \in Choice, FilterByType(c) PROVE Inv'
    <2>1. CASE filterService = NoService
      <3>1. /\ Open /\ trap' = "service"
            /\ UNCHANGED <<screen, isMainBD, downloads, screenVars, node, version, history>>
        BY <1>4, <2>1 DEF FilterByType, screenVars
      <3> QED BY <2>1, <3>1, CastFails
    <2>2. CASE filterService # NoService
      <3>1. Open
        BY <1>4 DEF FilterByType
      <3> QED BY <1>4, <2>2, <3>1, FilterStep
    <2> QED BY <2>1, <2>2
  <1>5. ASSUME NEW n, Answer(n) PROVE Inv'
    <2>1. CASE \E answer \in {<<>>, Documents} : FirestoreAnswers(n, answer)
      BY <2>1, FirestoreStep
    <2>2. CASE ObserverFires(n)
      BY <2>2, ObserverStep
    <2>3. CASE ObserverTraps(n)
      BY <2>3, TrapStep DEF ObserverTraps
    <2>4. CASE ImageFails(n)
      BY <2>4, TrapStep DEF ImageFails
    <2> QED BY <1>5, <2>1, <2>2, <2>3, <2>4 DEF Answer
  <1>6. ASSUME NEW value \in Nodes \cup {NotAnArray}, NodeChanges(value) PROVE Inv'
    BY <1>6, NodeStep
  <1>7. CASE SignOut
    BY <1>7, SignOutStep
  <1>8. CASE Relaunch
    BY <1>8, RelaunchStep
  <1>9. CASE UNCHANGED vars
    <2>1. TypeOK'
      BY <1>9 DEF Inv, TypeOK, vars, screenVars, history
    <2>2. ShownIsChosen' /\ OneDownload' /\ DownloadInv' /\ ScreenInv' /\ ServiceInv'
      BY <1>9 DEF Inv, ShownIsChosen, OneDownload, DownloadInv, ScreenInv, ServiceInv,
             Loaded, Live, FirstAnswer, vars, screenVars, history
    <2>3. TrapOnlyBeforeAnswer'
      BY <1>9 DEF Inv, TrapOnlyBeforeAnswer, Live, vars
    <2> QED BY <2>1, <2>2, <2>3 DEF Inv
  <1> QED BY <1>1, <1>2, <1>3, <1>4, <1>5, <1>6, <1>7, <1>8, <1>9 DEF Next

\* The screen, its service and the downloads keep the invariant by which the
\* others are proved.
THEOREM CatalogInvariant == Spec => []Inv
  <1> QED BY InvInit, InvNext, PTL DEF Spec

\* Every variable keeps to its type, and a screen without a service shows nothing.
THEOREM CatalogTypeCorrect == Spec => []TypeOK
  <1>1. Inv => TypeOK
    BY DEF Inv
  <1> QED BY <1>1, CatalogInvariant, PTL

\* However late answers of the two databases, sorts and filters follow one
\* another, the list shown is a list of one download, all of it that is of the
\* type chosen last, and without repetition until an observer fires again.
THEOREM CatalogListSafe == Spec => []ListIsOneAnswer
  <1>1. Inv => ListIsOneAnswer
    <2> SUFFICES ASSUME Inv, Loaded, \A n \in Live : downloads[n].events <= 1
                 PROVE  IsInjective(filteredProducts)
      BY DEF Inv, ListIsOneAnswer, ShownOnce
    <2>1. PICK n \in Live : filterService.products = downloads[n].list
      BY DEF Inv, OneDownload
    <2>2. n \in DOMAIN downloads /\ downloads[n].events <= 1
      BY <2>1 DEF Live
    <2> QED BY <2>1, <2>2 DEF Inv, DownloadInv, ServiceInv, Loaded
  <1> QED BY <1>1, CatalogInvariant, PTL

\* While only one answer has reached the screen, the image of the sort button
\* tells how the list is sorted.
THEOREM IconSafe == Spec => []IconTellsOrder
  <1>1. Inv => IconTellsOrder
    <2> DEFINE Answered == {n \in Live : downloads[n].events = 1}
    <2> SUFFICES ASSUME Inv, Loaded, arranged, \A n \in Live : downloads[n].events <= 1,
                        Cardinality(Answered) = 1
                 PROVE  IsOrdered(filteredProducts, icon = "up")
      BY DEF IconTellsOrder
    <2>1. IsFiniteSet(Answered)
      <3>1. IsFiniteSet(1 .. Len(downloads)) /\ Live \subseteq 1 .. Len(downloads)
        BY DownloadFacts, FS_Interval DEF Inv
      <3> QED BY <3>1, FS_Subset
    <2>2. PICK x : Answered = {x}
      BY <2>1, FS_Singleton
    <2>3. \A n \in Live : downloads[n].events \in Nat
      BY DownloadFacts DEF Inv, DownloadOf
    <2>4. FirstAnswer
      <3>1. \A n \in Live : downloads[n].events > 0 => n = x /\ downloads[n].events = 1
        BY <2>2, <2>3
      <3> QED BY <3>1 DEF FirstAnswer
    <2> QED BY <2>4 DEF Inv, ServiceInv, Loaded
  <1> QED BY <1>1, CatalogInvariant, PTL

\* The cast of a missing service fails only before the first answer.
THEOREM CastSafe == Spec => []TrapOnlyBeforeAnswer
  <1>1. Inv => TrapOnlyBeforeAnswer
    BY DEF Inv
  <1> QED BY <1>1, CatalogInvariant, PTL

(***************************************************************************)
(* The laboratory programs.                                                *)
(***************************************************************************)

\* The lists agree in all that the two programs can do, and the graphical one
\* does not sort.
LabInv ==
    /\ LabTypeOK
    /\ ListsAgree
    /\ DeletesByNumber
    /\ gui => filterService.last = "None"

LabService == [products : Seq(Product), filtered : Seq(Product),
               last : {"None", "1", "2"}]

\* A new list is shown: what a sort may leave, or the list as it is.
LEMMA ByPriceFacts ==
  ASSUME NEW s \in Seq(Product), NEW last, NEW list \in ByPrice(s, last)
  PROVE  /\ list \in Seq(Product) /\ SameProducts(list, s)
         /\ last = "1" => IsOrdered(list, TRUE)
         /\ last = "2" => IsOrdered(list, FALSE)
         /\ last \notin {"1", "2"} => list = s
  <1>1. CASE last \in {"1", "2"}
    <2>1. list \in Sorted(s, last = "1")
      BY <1>1 DEF ByPrice
    <2>2. /\ list \in Seq(Product) /\ SameProducts(list, s)
          /\ IsOrdered(list, last = "1")
      BY <2>1, SortedFacts
    <2>3. (last = "1") = TRUE \/ (last = "1") = FALSE
      OBVIOUS
    <2>4. CASE last = "1"
      <3>1. (last = "1") = TRUE
        BY <2>4
      <3> QED BY <2>2, <2>4, <3>1
    <2>5. CASE last = "2"
      <3>1. (last = "1") = FALSE
        BY <2>5
      <3> QED BY <2>2, <2>5, <3>1
    <2> QED BY <1>1, <2>4, <2>5
  <1>2. CASE last \notin {"1", "2"}
    BY <1>2, SameReflexive DEF ByPrice
  <1> QED BY <1>1, <1>2

\* What the invariant says of the lists, in the operators of Listing.
LEMMA LabFacts ==
  ASSUME LabInv
  PROVE  /\ gui \in BOOLEAN /\ status \in {"running", "ended", "trapped"}
         /\ products \in Seq(Product) /\ IsInjective(products)
         /\ filteredProducts \in Seq(Product) /\ filterService \in LabService
         /\ choice \in Choice
         /\ filterService.products = products
         /\ filterService.filtered = filteredProducts
         /\ SameProducts(filteredProducts, OfType(products, choice))
         /\ filterService.last = "1" => IsOrdered(filteredProducts, TRUE)
         /\ filterService.last = "2" => IsOrdered(filteredProducts, FALSE)
         /\ status = "trapped" => ~gui /\ Len(filteredProducts) = Len(products)
         /\ gui /\ choice = All => filteredProducts = products
         /\ gui => filterService.last = "None"
         /\ Len(filteredProducts) <= Len(products)
  <1>1. /\ gui \in BOOLEAN /\ status \in {"running", "ended", "trapped"}
        /\ products \in Seq(Product) /\ IsInjective(products)
        /\ filteredProducts \in Seq(Product) /\ filterService \in LabService
        /\ choice \in Choice
    BY DEF LabInv, LabTypeOK, LabService
  <1>2. /\ filterService.products = products
        /\ filterService.filtered = filteredProducts
        /\ SameProducts(filteredProducts, OfType(products, choice))
    BY DEF LabInv, ListsAgree
  <1>3. /\ filterService.last = "1" => IsOrdered(filteredProducts, TRUE)
        /\ filterService.last = "2" => IsOrdered(filteredProducts, FALSE)
    BY DEF LabInv, ListsAgree, SortSticks
  <1>4. /\ status = "trapped" => ~gui /\ Len(filteredProducts) = Len(products)
        /\ gui /\ choice = All => filteredProducts = products
        /\ gui => filterService.last = "None"
    BY DEF LabInv, DeletesByNumber, TrapNeedsFullList, NumbersAreIndices
  <1>5. Len(filteredProducts) <= Len(products)
    BY <1>1, <1>2, OfTypeLen DEF SameProducts
  <1> QED BY <1>1, <1>2, <1>3, <1>4, <1>5

\* And back: what must be shown of a step.
LEMMA LabSteps ==
  ASSUME gui' \in BOOLEAN, status' \in {"running", "ended", "trapped"},
         products' \in Seq(Product), IsInjective(products'),
         filteredProducts' \in Seq(Product), filterService' \in LabService,
         choice' \in Choice,
         filterService'.products = products',
         filterService'.filtered = filteredProducts',
         SameProducts(filteredProducts', OfType(products', choice')),
         filterService'.last = "1" => IsOrdered(filteredProducts', TRUE),
         filterService'.last = "2" => IsOrdered(filteredProducts', FALSE),
         status' = "trapped" => ~gui' /\ Len(filteredProducts') = Len(products'),
         gui' /\ choice' = All => filteredProducts' = products',
         gui' => filterService'.last = "None"
  PROVE  LabInv'
  <1>1. LabTypeOK'
    BY DEF LabTypeOK, LabService
  <1>2. ListsAgree'
    BY DEF ListsAgree, SortSticks
  <1>3. DeletesByNumber'
    BY DEF DeletesByNumber, TrapNeedsFullList, NumbersAreIndices
  <1> QED BY <1>1, <1>2, <1>3 DEF LabInv

LEMMA ChooseType ==
  ASSUME LabInv, NEW c \in Choice, makeFilterByType(c) PROVE LabInv'
  <1>1. PICK s : s = OfType(products, c)
    OBVIOUS
  <1>2. /\ products \in Seq(Product) /\ filterService.products = products
        /\ filterService \in LabService
        /\ gui => filterService.last = "None"
    BY LabFacts
  <1>3. s \in Seq(Product)
    BY <1>1, <1>2, OfTypeFacts
  <1>4. PICK list \in ByPrice(s, filterService.last) :
            /\ filterService' = [filterService EXCEPT !.filtered = list]
            /\ filteredProducts' = list
    BY <1>1, <1>2 DEF makeFilterByType
  <1>5. /\ choice' = c /\ gui' = gui /\ status' = status /\ products' = products
        /\ status = "running"
    BY DEF makeFilterByType, Running
  <1>6. /\ list \in Seq(Product) /\ SameProducts(list, s)
        /\ filterService.last = "1" => IsOrdered(list, TRUE)
        /\ filterService.last = "2" => IsOrdered(list, FALSE)
        /\ filterService.last \notin {"1", "2"} => list = s
    BY <1>3, ByPriceFacts
  <1>7. /\ filterService' \in LabService /\ filterService'.products = products
        /\ filterService'.filtered = list /\ filterService'.last = filterService.last
    BY <1>2, <1>4, <1>6 DEF LabService
  <1>8. gui /\ c = All => list = products
    BY <1>1, <1>2, <1>6, OfAll
  <1> QED BY <1>1, <1>4, <1>5, <1>6, <1>7, <1>8, LabFacts, LabSteps

LEMMA ChoosePrice ==
  ASSUME LabInv, NEW input \in {"1", "2", "other"}, makeFilterByPrice(input)
  PROVE  LabInv'
  <1>1. PICK last : last = IF input \in {"1", "2"} THEN input ELSE filterService.last
    OBVIOUS
  <1>2. PICK s : s = filteredProducts
    OBVIOUS
  <1>3. /\ s \in Seq(Product) /\ filterService.filtered = s
        /\ filterService.products = products /\ filterService \in LabService
        /\ SameProducts(s, OfType(products, choice))
        /\ filterService.last = "1" => IsOrdered(s, TRUE)
        /\ filterService.last = "2" => IsOrdered(s, FALSE)
    BY <1>2, LabFacts
  <1>4. PICK list \in ByPrice(s, input) :
            /\ filterService' = [filterService EXCEPT !.filtered = list, !.last = last]
            /\ filteredProducts' = list
    BY <1>1, <1>3 DEF makeFilterByPrice
  <1>5. /\ ~gui /\ choice' = choice /\ gui' = gui /\ status' = status
        /\ products' = products /\ status = "running"
    BY DEF makeFilterByPrice, Running
  <1>6. /\ list \in Seq(Product) /\ SameProducts(list, s)
        /\ input = "1" => IsOrdered(list, TRUE)
        /\ input = "2" => IsOrdered(list, FALSE)
        /\ input \notin {"1", "2"} => list = s
    BY <1>3, ByPriceFacts
  <1>7. SameProducts(list, OfType(products, choice))
    BY <1>3, <1>6, SameTransitive
  <1>8. /\ last \in {"None", "1", "2"}
        /\ last = "1" => IsOrdered(list, TRUE)
        /\ last = "2" => IsOrdered(list, FALSE)
    BY <1>1, <1>3, <1>6 DEF LabService
  <1>9. /\ filterService' \in LabService /\ filterService'.products = products
        /\ filterService'.filtered = list /\ filterService'.last = last
    BY <1>3, <1>4, <1>6, <1>8 DEF LabService
  <1> QED BY <1>4, <1>5, <1>6, <1>7, <1>8, <1>9, LabFacts, LabSteps

\* After an addition or a removal all products are shown.
LEMMA AllShown ==
  ASSUME gui \in BOOLEAN, gui' = gui, status' \in {"running", "ended"}, ShowAll,
         products' \in Seq(Product), IsInjective(products')
  PROVE  LabInv'
  <1>1. PICK list : list = products'
    OBVIOUS
  <1>2. /\ filterService' = [products |-> list, filtered |-> list, last |-> "None"]
        /\ filteredProducts' = list /\ choice' = All
    BY <1>1 DEF ShowAll, NewLabService
  <1>3. /\ filterService' \in LabService /\ filterService'.products = list
        /\ filterService'.filtered = list /\ filterService'.last = "None"
    BY <1>1, <1>2 DEF LabService
  <1>4. SameProducts(list, OfType(list, All))
    BY <1>1, OfAll, SameReflexive
  <1>5. All \in Choice
    BY DEF Choice
  <1> QED BY <1>1, <1>2, <1>3, <1>4, <1>5, LabSteps

LEMMA AddProduct ==
  ASSUME LabInv, NEW x \in Product, appendProduct(x) PROVE LabInv'
  <1>1. /\ status' = status /\ status = "running" /\ gui' = gui
        /\ x \notin ToSet(products) /\ products' = Append(products, x) /\ ShowAll
    BY DEF appendProduct, Running
  <1>2. products \in Seq(Product) /\ IsInjective(products) /\ gui \in BOOLEAN
    BY LabFacts
  <1>3. products' \in Seq(Product) /\ IsInjective(products')
    BY <1>1, <1>2, AppendFacts
  <1> QED BY <1>1, <1>2, <1>3, AllShown

\* The guard looks at the list shown, the removal at the list of all products.
LEMMA DeleteProduct ==
  ASSUME LabInv, NEW index \in Int, deleteProduct(index) PROVE LabInv'
  <1>1. /\ products \in Seq(Product) /\ IsInjective(products) /\ gui \in BOOLEAN
        /\ Len(filteredProducts) <= Len(products)
        /\ Len(filteredProducts) \in Nat /\ Len(products) \in Nat
    BY LabFacts, LenProperties
  <1>2. status = "running" /\ gui' = gui
    BY DEF deleteProduct, Running
  <1>3. CASE Accepts(index) /\ index >= Len(products)
    <2>1. /\ status' = "trapped" /\ products' = products /\ choice' = choice
          /\ filteredProducts' = filteredProducts /\ filterService' = filterService
      BY <1>3 DEF deleteProduct
    <2>2. ~gui /\ Len(filteredProducts) = Len(products)
      BY <1>1, <1>3 DEF Accepts
    <2> QED BY <1>2, <2>1, <2>2, LabFacts, LabSteps
  <1>4. CASE ~(Accepts(index) /\ index >= Len(products))
    <2>1. /\ status' = "running" /\ ShowAll
          /\ products' = IF Accepts(index)
                         THEN RemoveAt(products, index + 1) ELSE products
      BY <1>2, <1>4 DEF deleteProduct
    <2>2. products' \in Seq(Product) /\ IsInjective(products')
      <3>1. CASE Accepts(index)
        <4>1. index + 1 \in 1 .. Len(products)
          BY <1>1, <1>4, <3>1 DEF Accepts
        <4> QED BY <1>1, <2>1, <3>1, <4>1, RemoveRowFacts
      <3>2. CASE ~Accepts(index)
        BY <1>1, <2>1, <3>2
      <3> QED BY <3>1, <3>2
    <2> QED BY <1>1, <1>2, <2>1, <2>2, AllShown
  <1> QED BY <1>3, <1>4

\* The programs keep their invariant.
THEOREM LabInvariant == LabSpec => []LabInv
  <1>1. InitialProducts \in Seq(Product) /\ IsInjective(InitialProducts)
    BY LabAssumption
  <1>2. LabInit => LabInv
    <2> SUFFICES ASSUME LabInit PROVE LabInv
      OBVIOUS
    <2>1. PICK list : list = InitialProducts
      OBVIOUS
    <2>2. /\ gui \in BOOLEAN /\ status = "running" /\ products = list
          /\ filteredProducts = list /\ choice = All
          /\ filterService = [products |-> list, filtered |-> list, last |-> "None"]
      BY <2>1 DEF LabInit, NewLabService
    <2>3. LabTypeOK
      BY <1>1, <2>1, <2>2 DEF LabTypeOK, Choice
    <2>4. ListsAgree
      BY <1>1, <2>1, <2>2, OfAll, SameReflexive
         DEF ListsAgree, SortSticks
    <2>5. DeletesByNumber
      BY <2>2 DEF DeletesByNumber, TrapNeedsFullList, NumbersAreIndices
    <2> QED BY <2>2, <2>3, <2>4, <2>5 DEF LabInv
  <1>3. LabInv /\ [LabNext]_labVars => LabInv'
    <2> SUFFICES ASSUME LabInv, [LabNext]_labVars PROVE LabInv'
      OBVIOUS
    <2>1. CASE \E c \in Choice : makeFilterByType(c)
      BY <2>1, ChooseType
    <2>2. CASE \E input \in {"1", "2", "other"} : makeFilterByPrice(input)
      BY <2>2, ChoosePrice
    <2>3. CASE \E x \in Product : appendProduct(x)
      BY <2>3, AddProduct
    <2>4. CASE \E index \in Indices : deleteProduct(index)
      <3>1. PICK index \in Indices : deleteProduct(index)
        BY <2>4
      <3>2. index \in Int
        BY <3>1 DEF Indices
      <3> QED BY <3>1, <3>2, DeleteProduct
    <2>5. CASE Quit
      <3>1. /\ ~gui /\ status' = "ended" /\ gui' = gui /\ products' = products
            /\ filteredProducts' = filteredProducts
            /\ filterService' = filterService /\ choice' = choice
        BY <2>5 DEF Quit
      <3> QED BY <3>1, LabFacts, LabSteps
    <2>6. CASE Start
      BY <1>1, <2>6, LabFacts, AllShown DEF Start
    <2>7. CASE UNCHANGED labVars
      <3>1. /\ gui' = gui /\ status' = status /\ products' = products
            /\ filteredProducts' = filteredProducts
            /\ filterService' = filterService /\ choice' = choice
        BY <2>7 DEF labVars
      <3> QED BY <3>1, LabFacts, LabSteps
    <2> QED BY <2>1, <2>2, <2>3, <2>4, <2>5, <2>6, <2>7 DEF LabNext
  <1> QED BY <1>2, <1>3, PTL DEF LabSpec

\* Every variable of the two programs keeps to its type.
THEOREM LabTypeCorrect == LabSpec => []LabTypeOK
  <1>1. LabInv => LabTypeOK
    BY DEF LabInv
  <1> QED BY <1>1, LabInvariant, PTL

\* The four copies of the products agree, whatever was added, deleted, sorted or
\* filtered, and the order asked for last stays.
THEOREM CopiesSafe == LabSpec => []ListsAgree
  <1>1. LabInv => ListsAgree
    BY DEF LabInv
  <1> QED BY <1>1, LabInvariant, PTL

\* No number ends the graphical program, one ends the console only while the two
\* lists have one length, and without a type the numbers are indices.
THEOREM NumbersSafe == LabSpec => []DeletesByNumber
  <1>1. LabInv => DeletesByNumber
    BY DEF LabInv
  <1> QED BY <1>1, LabInvariant, PTL

=============================================================================
