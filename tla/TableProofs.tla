---------------------------- MODULE TableProofs ----------------------------
(***************************************************************************)
(* Facts that the proofs about the components share: tables of Realm,      *)
(* lists of rows, lists put together from parts, and sets of naturals.     *)
(* The library's induction theorems take an operator as a parameter and    *)
(* cannot be instantiated here; NatSetInduction states induction over sets *)
(* of naturals and is derived from the well-foundedness of strict          *)
(* inclusion among finite sets.                                            *)
(***************************************************************************)
EXTENDS RealmTable, Lists, SequencesExt, SequenceTheorems, FiniteSetTheorems, TLAPS

(***************************************************************************)
(* Induction.                                                              *)
(***************************************************************************)

\* Every non-empty set of naturals has a least element.
LEMMA LeastElement ==
  ASSUME NEW T, T \subseteq Nat, T # {}
  PROVE  \E n \in T : \A m \in T : ~(m < n)
  <1> DEFINE below == {0 .. n : n \in T}
  <1>1. below # {} /\ below \subseteq FiniteSubsetsOf(Nat)
    <2>1. \A n \in T : IsFiniteSet(0 .. n) /\ 0 .. n \subseteq Nat
      <3> TAKE n \in T
      <3>1. 0 \in Int /\ n \in Int
        OBVIOUS
      <3> QED BY <3>1, FS_Interval
    <2>2. \A n \in T : 0 .. n \in FiniteSubsetsOf(Nat)
      BY <2>1 DEF FiniteSubsetsOf
    <2> QED BY <2>2
  <1>2. PICK B \in below :
            \A C \in below : <<C, B>> \notin StrictSubsetOrdering(Nat)
    <2> HIDE DEF below
    <2> QED BY <1>1, FS_StrictSubsetOrderingWellFounded, WFMin
  <1>3. PICK n \in T : B = 0 .. n
    OBVIOUS
  <1>4. ASSUME NEW m \in T, m < n PROVE FALSE
    <2>1. 0 .. m \in SUBSET Nat /\ B \in SUBSET Nat
      BY <1>3
    <2>2. 0 .. m \subseteq B /\ 0 .. m # B
      <3>1. n \in B /\ n \notin 0 .. m
        BY <1>3, <1>4
      <3> QED BY <1>3, <1>4, <3>1
    <2> QED BY <1>2, <2>1, <2>2 DEF StrictSubsetOrdering
  <1> QED BY <1>3, <1>4

\* A set of naturals with 0 that is closed under successor is Nat.
LEMMA NatSetInduction ==
  ASSUME NEW T, T \subseteq Nat, 0 \in T, \A n \in T : n + 1 \in T
  PROVE  T = Nat
  <1>1. SUFFICES ASSUME Nat \ T # {} PROVE FALSE
    OBVIOUS
  <1>2. PICK n \in Nat \ T : \A m \in Nat \ T : ~(m < n)
    <2> DEFINE U == Nat \ T
    <2>1. U \subseteq Nat /\ U # {}
      BY <1>1
    <2> HIDE DEF U
    <2>2. \E n \in U : \A m \in U : ~(m < n)
      BY <2>1, LeastElement
    <2> QED BY <2>2 DEF U
  <1>3. n # 0 /\ n - 1 \in Nat /\ n - 1 < n
    BY <1>2
  <1> QED BY <1>2, <1>3

(***************************************************************************)
(* Deletion.                                                               *)
(***************************************************************************)

\* Deleting an object of a table without duplicates removes this object, keeps
\* every other one, and makes the table one row shorter.
LEMMA EraseFacts ==
  ASSUME NEW S, NEW t \in Seq(S), IsInjective(t), NEW x \in ToSet(t)
  PROVE  /\ Erase(t, x) \in Seq(S)
         /\ Len(Erase(t, x)) = Len(t) - 1
         /\ IsInjective(Erase(t, x))
         /\ ToSet(Erase(t, x)) = ToSet(t) \ {x}
  <1> DEFINE n == Len(t)
             i == RowOf(t, x)
             e == [k \in 1 .. n - 1 |-> IF k = i THEN t[n] ELSE t[k]]
  <1>1. Erase(t, x) = e
    BY DEF Erase, MoveLastOver
  <1>2. n \in Nat /\ DOMAIN t = 1 .. n /\ \A k \in 1 .. n : t[k] \in S
    BY LenProperties
  <1>3. i \in 1 .. n /\ t[i] = x
    BY <1>2 DEF RowOf, ToSet
  <1>4. \A a, b \in 1 .. n : t[a] = t[b] => a = b
    BY <1>2 DEF IsInjective
  <1> HIDE DEF i
  <1>5. n - 1 \in Nat /\ e \in Seq(S) /\ Len(e) = n - 1
    <2>1. n - 1 \in Nat
      BY <1>2, <1>3
    <2>2. e \in [1 .. n - 1 -> S]
      BY <1>2, <1>3
    <2> QED BY <2>1, <2>2
  <1>e. \A k \in 1 .. n - 1 : e[k] = IF k = i THEN t[n] ELSE t[k]
    OBVIOUS
  <1>6. IsInjective(e)
    BY <1>2, <1>3, <1>4 DEF IsInjective
  <1> HIDE DEF e, n
  <1>7. ToSet(e) = ToSet(t) \ {x}
    <2>1. ASSUME NEW y \in ToSet(e) PROVE y \in ToSet(t) /\ y # x
      <3>1. PICK k \in 1 .. n - 1 : y = e[k]
        BY <1>5, LenProperties DEF ToSet
      <3>2. CASE k = i
        <4>1. y = t[n] /\ n \in 1 .. n /\ n # i
          BY <1>2, <1>e, <3>1, <3>2
        <4> QED BY <1>2, <1>3, <1>4, <4>1 DEF ToSet
      <3>3. CASE k # i
        <4>1. y = t[k] /\ k \in 1 .. n
          BY <1>2, <1>e, <3>1, <3>3
        <4> QED BY <1>2, <1>3, <1>4, <3>3, <4>1 DEF ToSet
      <3> QED BY <3>2, <3>3
    <2>2. ASSUME NEW y \in ToSet(t), y # x PROVE y \in ToSet(e)
      <3>1. PICK k \in 1 .. n : y = t[k]
        BY <1>2 DEF ToSet
      <3>2. k # i
        BY <1>3, <2>2, <3>1
      <3>3. CASE k = n
        <4>1. i \in 1 .. n - 1
          BY <1>2, <1>3, <3>2, <3>3
        <4>2. e[i] = y
          BY <1>e, <3>1, <3>3, <4>1
        <4> QED BY <1>5, <4>1, <4>2 DEF ToSet
      <3>4. CASE k # n
        <4>1. k \in 1 .. n - 1
          BY <1>2, <3>4
        <4>2. e[k] = y
          BY <1>e, <3>1, <3>2, <4>1
        <4> QED BY <1>5, <4>1, <4>2 DEF ToSet
      <3> QED BY <3>3, <3>4
    <2> QED BY <2>1, <2>2
  <1> QED BY <1>1, <1>5, <1>6, <1>7 DEF n

\* Removing one row makes the list of rows one shorter.
LEMMA RemoveAtFacts ==
  ASSUME NEW S, NEW t \in Seq(S), NEW i \in 1 .. Len(t)
  PROVE  RemoveAt(t, i) \in Seq(S) /\ Len(RemoveAt(t, i)) = Len(t) - 1
  <1>1. Len(t) \in Nat /\ \A k \in 1 .. Len(t) : t[k] \in S
    BY LenProperties
  <1>2. SubSeq(t, 1, i - 1) \in Seq(S) /\ Len(SubSeq(t, 1, i - 1)) = i - 1
    <2>1. \A k \in 1 .. i - 1 : t[k] \in S
      BY <1>1
    <2> QED BY <2>1, SubSeqProperties
  <1>3. /\ SubSeq(t, i + 1, Len(t)) \in Seq(S)
        /\ Len(SubSeq(t, i + 1, Len(t))) = Len(t) - i
    <2>1. \A k \in i + 1 .. Len(t) : t[k] \in S
      BY <1>1
    <2> QED BY <1>1, <2>1, SubSeqProperties
  <1> DEFINE a == SubSeq(t, 1, i - 1)
             b == SubSeq(t, i + 1, Len(t))
  <1>4. RemoveAt(t, i) = a \o b
    BY DEF RemoveAt
  <1> HIDE DEF a, b
  <1>5. a \in Seq(S) /\ b \in Seq(S) /\ Len(a) = i - 1 /\ Len(b) = Len(t) - i
    BY <1>2, <1>3 DEF a, b
  <1>6. a \o b \in Seq(S) /\ Len(a \o b) = Len(a) + Len(b)
    BY <1>5, ConcatProperties
  <1> QED BY <1>1, <1>4, <1>5, <1>6

\* A function on the first n naturals is a list.
LEMMA FunctionIsSeq ==
  ASSUME NEW S, NEW n \in Nat, NEW t \in [1 .. n -> S]
  PROVE  t \in Seq(S)
  BY SeqDef

\* A new object at the end of a table.
LEMMA AppendFacts ==
  ASSUME NEW S, NEW t \in Seq(S), NEW x \in S
  PROVE  /\ Append(t, x) \in Seq(S)
         /\ ToSet(Append(t, x)) = ToSet(t) \cup {x}
         /\ IsInjective(t) /\ x \notin ToSet(t) => IsInjective(Append(t, x))
  <1>1. /\ Append(t, x) \in Seq(S)
        /\ Len(Append(t, x)) = Len(t) + 1
        /\ Append(t, x)[Len(t) + 1] = x
        /\ \A k \in 1 .. Len(t) : Append(t, x)[k] = t[k]
    OBVIOUS
  <1>2. Len(t) \in Nat /\ DOMAIN t = 1 .. Len(t)
        /\ DOMAIN Append(t, x) = 1 .. Len(t) + 1
    BY <1>1, LenProperties
  <1>3. ToSet(Append(t, x)) = ToSet(t) \cup {x}
    BY <1>1, <1>2 DEF ToSet
  <1>4. IsInjective(t) /\ x \notin ToSet(t) => IsInjective(Append(t, x))
    BY <1>1, <1>2 DEF ToSet, IsInjective
  <1> QED BY <1>1, <1>3, <1>4

\* The first object of a list without duplicates is not in the rest of it.
LEMMA TailFacts ==
  ASSUME NEW S, NEW t \in Seq(S), t # <<>>, IsInjective(t)
  PROVE  /\ Head(t) \in ToSet(t)
         /\ Tail(t) \in Seq(S)
         /\ IsInjective(Tail(t))
         /\ ToSet(Tail(t)) = ToSet(t) \ {Head(t)}
  <1>1. Len(t) \in Nat \ {0} /\ DOMAIN t = 1 .. Len(t)
    BY EmptySeq, LenProperties
  <1>2. Head(t) = t[1]
    OBVIOUS
  <1>3. /\ Tail(t) \in Seq(S)
        /\ DOMAIN Tail(t) = 1 .. Len(t) - 1
        /\ \A k \in 1 .. Len(t) - 1 : Tail(t)[k] = t[k + 1]
    BY <1>1
  <1>4. \A a, b \in 1 .. Len(t) : t[a] = t[b] => a = b
    BY <1>1 DEF IsInjective
  <1>5. IsInjective(Tail(t))
    BY <1>1, <1>3, <1>4 DEF IsInjective
  <1>6. ASSUME NEW y \in ToSet(Tail(t)) PROVE y \in ToSet(t) /\ y # Head(t)
    <2>1. PICK k \in 1 .. Len(t) - 1 : y = Tail(t)[k]
      BY <1>3 DEF ToSet
    <2>2. y = t[k + 1] /\ k + 1 \in 1 .. Len(t) /\ 1 \in 1 .. Len(t) /\ k + 1 # 1
      BY <1>1, <1>3, <2>1
    <2> QED BY <1>1, <1>2, <1>4, <2>2 DEF ToSet
  <1>7. ASSUME NEW y \in ToSet(t), y # Head(t) PROVE y \in ToSet(Tail(t))
    <2>1. PICK k \in 1 .. Len(t) : y = t[k]
      BY <1>1 DEF ToSet
    <2>2. k - 1 \in 1 .. Len(t) - 1 /\ Tail(t)[k - 1] = y
      BY <1>1, <1>2, <1>3, <1>7, <2>1
    <2> QED BY <1>3, <2>2 DEF ToSet
  <1>8. Head(t) \in ToSet(t)
    BY <1>1, <1>2 DEF ToSet
  <1> QED BY <1>3, <1>5, <1>6, <1>7, <1>8

\* A list without duplicates has as many rows as it has objects.
LEMMA InjectiveLen ==
  ASSUME NEW S, NEW t \in Seq(S), IsInjective(t)
  PROVE  IsFiniteSet(ToSet(t)) /\ Cardinality(ToSet(t)) = Len(t)
  <1>1. Len(t) \in Nat /\ DOMAIN t = 1 .. Len(t) /\ t \in [1 .. Len(t) -> S]
    BY LenProperties
  <1>2. ToSet(t) = {t[i] : i \in 1 .. Len(t)}
    BY <1>1 DEF ToSet
  <1>3. t \in Bijection(1 .. Len(t), ToSet(t))
    <2>1. t \in [1 .. Len(t) -> ToSet(t)]
      BY <1>1, <1>2
    <2>2. \A a, b \in 1 .. Len(t) : t[a] = t[b] => a = b
      BY <1>1 DEF IsInjective
    <2> QED BY <2>1, <2>2, <1>2 DEF Bijection, Injection, Surjection
  <1>4. ExistsBijection(1 .. Len(t), ToSet(t))
    BY <1>3 DEF ExistsBijection
  <1>5. IsFiniteSet(ToSet(t))
    BY <1>1, <1>4, FS_NatBijection
  <1> QED BY <1>1, <1>4, <1>5, FS_CountingElements

(***************************************************************************)
(* Lists that are put together from parts.                                 *)
(***************************************************************************)

\* FlattenSeq appends part after part.
LEMMA FlattenFacts ==
  ASSUME NEW S, NEW s \in Seq(Seq(S))
  PROVE  \E f \in [0 .. Len(s) -> Seq(S)] :
            /\ f[0] = <<>>
            /\ \A i \in 1 .. Len(s) : f[i] = f[i - 1] \o s[i]
            /\ FlattenSeq(s) = f[Len(s)]
  <1> DEFINE n == Len(s)
             Sums(f, k) == /\ f \in [0 .. k -> Seq(S)] /\ f[0] = <<>>
                           /\ \A i \in 1 .. k : f[i] = f[i - 1] \o s[i]
             T == {k \in Nat : k <= n => \E f : Sums(f, k)}
  <1>1. n \in Nat /\ DOMAIN s = 1 .. n /\ \A i \in 1 .. n : s[i] \in Seq(S)
    BY LenProperties
  <1> HIDE DEF n
  <1>2. T = Nat
    <2>1. 0 \in T
      <3> DEFINE f == [i \in 0 .. 0 |-> <<>>]
      <3>1. <<>> \in Seq(S)
        BY EmptySeq
      <3>2. Sums(f, 0)
        BY <3>1
      <3> QED BY <3>2
    <2>2. ASSUME NEW k \in T PROVE k + 1 \in T
      <3> HIDE DEF Sums
      <3>0. k \in Nat /\ k + 1 \in Nat /\ (k <= n => \E f : Sums(f, k))
        OBVIOUS
      <3> SUFFICES ASSUME k + 1 <= n PROVE \E f : Sums(f, k + 1)
        BY <3>0
      <3>1. k \in Nat /\ k <= n
        BY <1>1, <3>0
      <3>2. PICK f : Sums(f, k)
        BY <3>0, <3>1
      <3> USE DEF Sums
      <3> DEFINE g == [i \in 0 .. k + 1 |-> IF i <= k THEN f[i] ELSE f[k] \o s[k + 1]]
      <3>3. f[k] \in Seq(S) /\ s[k + 1] \in Seq(S)
        BY <1>1, <3>1, <3>2
      <3>4. f[k] \o s[k + 1] \in Seq(S)
        BY <3>3, ConcatProperties
      <3>5. g \in [0 .. k + 1 -> Seq(S)] /\ g[0] = <<>>
        BY <3>1, <3>2, <3>4
      <3>g. \A i \in 0 .. k + 1 : g[i] = IF i <= k THEN f[i] ELSE f[k] \o s[k + 1]
        OBVIOUS
      <3> HIDE DEF g
      <3>6. ASSUME NEW i \in 1 .. k + 1 PROVE g[i] = g[i - 1] \o s[i]
        <4>1. CASE i <= k
          <5>1. i \in 1 .. k /\ i - 1 \in 0 .. k /\ i \in 0 .. k + 1 /\ i - 1 \in 0 .. k + 1
                /\ i - 1 <= k
            BY <3>1, <4>1
          <5>2. g[i] = f[i] /\ g[i - 1] = f[i - 1]
            BY <3>g, <4>1, <5>1
          <5>3. f[i] = f[i - 1] \o s[i]
            BY <3>2, <5>1
          <5> QED BY <5>2, <5>3
        <4>2. CASE ~(i <= k)
          <5>1. i = k + 1 /\ i - 1 = k /\ k \in 0 .. k + 1 /\ k + 1 \in 0 .. k + 1
                /\ ~(k + 1 <= k)
            BY <3>1, <4>2
          <5>2. g[k + 1] = f[k] \o s[k + 1]
            BY <3>g, <5>1
          <5>3. k <= k /\ g[k] = f[k]
            BY <3>1, <3>g, <5>1
          <5> QED BY <5>1, <5>2, <5>3
        <4> QED BY <4>1, <4>2
      <3>7. Sums(g, k + 1)
        BY <3>5, <3>6
      <3> QED BY <3>7
    <2> HIDE DEF T
    <2>3. T \subseteq Nat
      BY DEF T
    <2> QED BY <2>1, <2>2, <2>3, NatSetInduction
  <1>3. PICK f : Sums(f, n)
    <2> HIDE DEF Sums
    <2>1. n \in T /\ n <= n
      <3> HIDE DEF T
      <3> QED BY <1>1, <1>2
    <2> QED BY <2>1
  <1>4. CASE n = 0
    <2>1. s = <<>>
      BY <1>4, EmptySeq DEF n
    <2>2. FlattenSeq(s) = s
      BY <1>4 DEF FlattenSeq, n
    <2> QED BY <1>3, <1>4, <2>1, <2>2 DEF n
  <1>5. CASE n # 0
    <2> DEFINE Rec(h) == h = [i \in 1 .. n |-> IF i = 1 THEN s[i] ELSE h[i - 1] \o s[i]]
               flat == CHOOSE h : Rec(h)
               g == [i \in 1 .. n |-> f[i]]
    <2>1. FlattenSeq(s) = flat[n]
      BY <1>5 DEF FlattenSeq, n
    <2>2. f[1] = s[1]
      <3>1. 1 \in 1 .. n /\ s[1] \in Seq(S)
        BY <1>1, <1>5
      <3>2. \A i \in 1 .. n : f[i] = f[i - 1] \o s[i]
        BY <1>3
      <3>3. 1 - 1 = 0 /\ f[1] = f[1 - 1] \o s[1]
        <4> 1 - 1 = 0
          OBVIOUS
        <4> QED BY <3>1, <3>2
      <3>4. f[0] = <<>>
        BY <1>3
      <3>5. <<>> \o s[1] = s[1]
        BY <3>1, ConcatEmptySeq
      <3> QED BY <3>3, <3>4, <3>5
    <2>3. Rec(g)
      <3>1. ASSUME NEW i \in 1 .. n PROVE g[i] = IF i = 1 THEN s[i] ELSE g[i - 1] \o s[i]
        <4>1. CASE i = 1
          BY <2>2, <4>1
        <4>2. CASE i # 1
          <5>1. i - 1 \in 1 .. n
            BY <1>1, <4>2
          <5> QED BY <1>3, <4>2, <5>1
        <4> QED BY <4>1, <4>2
      <3> DEFINE G == [i \in 1 .. n |-> IF i = 1 THEN s[i] ELSE g[i - 1] \o s[i]]
      <3>2. \A i \in 1 .. n : g[i] = G[i]
        BY <3>1
      <3> QED BY <3>2
    <2>4. Rec(flat)
      BY <2>3
    <2> HIDE DEF flat
    <2> DEFINE U == {k \in Nat : k + 1 <= n => flat[k + 1] = f[k + 1]}
    <2>5. U = Nat
      <3>1. 0 \in U
        <4>1. 1 \in 1 .. n
          BY <1>1, <1>5
        <4>2. flat[1] = s[1]
          BY <2>4, <4>1
        <4> QED BY <2>2, <4>2
      <3>2. ASSUME NEW k \in U PROVE k + 1 \in U
        <4> SUFFICES ASSUME k + 2 <= n PROVE flat[k + 2] = f[k + 2]
          OBVIOUS
        <4>1. /\ k \in Nat /\ k + 1 <= n /\ k + 2 \in 1 .. n /\ k + 2 # 1
              /\ (k + 2) - 1 = k + 1
          BY <1>1
        <4>2. flat[k + 1] = f[k + 1]
          BY <4>1
        <4>3. flat[k + 2] = flat[(k + 2) - 1] \o s[k + 2]
          BY <2>4, <4>1
        <4>4. f[k + 2] = f[(k + 2) - 1] \o s[k + 2]
          BY <1>3, <4>1
        <4> QED BY <4>1, <4>2, <4>3, <4>4
      <3> HIDE DEF U
      <3>3. U \subseteq Nat
        BY DEF U
      <3> QED BY <3>1, <3>2, <3>3, NatSetInduction
    <2>6. n - 1 \in Nat /\ (n - 1) + 1 = n /\ n <= n
      BY <1>1, <1>5
    <2>7. n - 1 \in U
      BY <2>5, <2>6
    <2>8. flat[n] = f[n]
      BY <2>6, <2>7
    <2> QED BY <1>3, <2>1, <2>8 DEF n
  <1> QED BY <1>4, <1>5

\* f[i] is what the loop has taken when it has seen i elements.
Kept(f, list, P, S) ==
    /\ f \in [0 .. Len(list) -> Seq(S)]
    /\ f[0] = <<>>
    /\ \A i \in 1 .. Len(list) :
           f[i] = IF i \in P THEN Append(f[i - 1], list[i]) ELSE f[i - 1]
    /\ f[Len(list)] = Keep(list, P)

LEMMA KeepSteps ==
  ASSUME NEW S, NEW list \in Seq(S), NEW P
  PROVE  \E f : Kept(f, list, P, S)
  <1> DEFINE s == [i \in DOMAIN list |-> IF i \in P THEN <<list[i]>> ELSE <<>>]
  <1>1. Len(list) \in Nat /\ DOMAIN list = 1 .. Len(list) /\ \A i \in 1 .. Len(list) : list[i] \in S
    BY LenProperties
  <1>2. \A i \in 1 .. Len(list) : <<list[i]>> \in Seq(S) /\ <<>> \in Seq(S)
    BY <1>1
  <1>3. s \in [1 .. Len(list) -> Seq(S)]
    BY <1>1, <1>2
  <1>4. \A i \in 1 .. Len(list) : s[i] = IF i \in P THEN <<list[i]>> ELSE <<>>
    BY <1>1
  <1>5. Keep(list, P) = FlattenSeq(s)
    BY DEF Keep
  <1> HIDE DEF s
  <1>6. s \in Seq(Seq(S)) /\ Len(s) = Len(list)
    BY <1>1, <1>3, IsASeq, LenProperties
  <1>7. PICK f \in [0 .. Len(s) -> Seq(S)] :
            /\ f[0] = <<>>
            /\ \A i \in 1 .. Len(s) : f[i] = f[i - 1] \o s[i]
            /\ FlattenSeq(s) = f[Len(s)]
    BY <1>6, FlattenFacts
  <1>8. ASSUME NEW i \in 1 .. Len(list)
        PROVE  f[i] = IF i \in P THEN Append(f[i - 1], list[i]) ELSE f[i - 1]
    <2>1. i - 1 \in 0 .. Len(list)
      BY <1>1
    <2>2. f[i - 1] \in Seq(S) /\ list[i] \in S
      BY <1>1, <1>6, <2>1
    <2>3. f[i] = f[i - 1] \o s[i]
      BY <1>6, <1>7
    <2>4. f[i - 1] \o <<>> = f[i - 1]
      BY <2>2, ConcatEmptySeq
    <2>5. Append(f[i - 1], list[i]) = f[i - 1] \o <<list[i]>>
      BY <2>2, AppendIsConcat
    <2>6. s[i] = IF i \in P THEN <<list[i]>> ELSE <<>>
      BY <1>4
    <2> QED BY <2>3, <2>4, <2>5, <2>6
  <1>9. f \in [0 .. Len(list) -> Seq(S)] /\ f[0] = <<>> /\ Keep(list, P) = f[Len(list)]
    BY <1>5, <1>6, <1>7
  <1>10. Kept(f, list, P, S)
    BY <1>8, <1>9 DEF Kept
  <1> QED BY <1>10

\* A loop with a condition takes the elements that satisfy it, each once if the
\* list has each once.
LEMMA KeepFacts ==
  ASSUME NEW S, NEW list \in Seq(S), NEW P
  PROVE  /\ Keep(list, P) \in Seq(S)
         /\ ToSet(Keep(list, P)) = {list[i] : i \in P \cap (1 .. Len(list))}
         /\ IsInjective(list) => IsInjective(Keep(list, P))
  <1>1. /\ Len(list) \in Nat /\ DOMAIN list = 1 .. Len(list)
        /\ \A i \in 1 .. Len(list) : list[i] \in S
    BY LenProperties
  <1>k. PICK f : Kept(f, list, P, S)
    BY KeepSteps
  <1>2. /\ f \in [0 .. Len(list) -> Seq(S)]
        /\ f[0] = <<>>
        /\ \A i \in 1 .. Len(list) :
               f[i] = IF i \in P THEN Append(f[i - 1], list[i]) ELSE f[i - 1]
        /\ Keep(list, P) = f[Len(list)]
    BY <1>k DEF Kept
  <1> DEFINE Upto(k) == {list[i] : i \in P \cap (1 .. k)}
             Good(k) == /\ f[k] \in Seq(S)
                        /\ ToSet(f[k]) = Upto(k)
                        /\ IsInjective(list) => IsInjective(f[k])
             T == {k \in Nat : k <= Len(list) => Good(k)}
  <1>3. Good(0)
    <2>1. <<>> \in Seq(S) /\ DOMAIN <<>> = {}
      BY EmptySeq
    <2>2. Upto(0) = {}
      OBVIOUS
    <2>3. ToSet(<<>>) = {} /\ IsInjective(<<>>)
      BY <2>1 DEF ToSet, IsInjective
    <2> QED BY <1>2, <2>1, <2>2, <2>3
  <1>4. ASSUME NEW k \in Nat, k + 1 <= Len(list), Good(k)
        PROVE  Good(k + 1)
    <2>1. k + 1 \in 1 .. Len(list) /\ (k + 1) - 1 = k
      BY <1>1, <1>4
    <2>2. f[k + 1] = IF k + 1 \in P THEN Append(f[k], list[k + 1]) ELSE f[k]
      BY <1>2, <2>1
    <2>3. list[k + 1] \in S /\ f[k] \in Seq(S)
      BY <1>1, <1>4, <2>1
    <2>4. 1 .. k + 1 = 1 .. k \cup {k + 1}
      BY <1>4
    <2>5. CASE k + 1 \in P
      <3>1. Upto(k + 1) = Upto(k) \cup {list[k + 1]}
        BY <2>4, <2>5
      <3>2. IsInjective(list) => list[k + 1] \notin Upto(k)
        <4> SUFFICES ASSUME IsInjective(list), NEW i \in P \cap (1 .. k), list[i] = list[k + 1]
                     PROVE  FALSE
          OBVIOUS
        <4>1. i \in DOMAIN list /\ k + 1 \in DOMAIN list /\ i # k + 1
          BY <1>1, <2>1
        <4> QED BY <4>1 DEF IsInjective
      <3> HIDE DEF Upto
      <3>3. /\ Append(f[k], list[k + 1]) \in Seq(S)
            /\ ToSet(Append(f[k], list[k + 1])) = ToSet(f[k]) \cup {list[k + 1]}
            /\ IsInjective(f[k]) /\ list[k + 1] \notin ToSet(f[k])
               => IsInjective(Append(f[k], list[k + 1]))
        BY <2>3, AppendFacts
      <3>4. f[k + 1] = Append(f[k], list[k + 1])
        BY <2>2, <2>5
      <3> QED BY <1>4, <3>1, <3>2, <3>3, <3>4
    <2>6. CASE k + 1 \notin P
      <3>1. Upto(k + 1) = Upto(k)
        BY <2>4, <2>6
      <3> HIDE DEF Upto
      <3> QED BY <1>4, <2>2, <2>6, <3>1
    <2> QED BY <2>5, <2>6
  <1> HIDE DEF Good
  <1>5. T = Nat
    <2>1. 0 \in T
      BY <1>3
    <2>2. ASSUME NEW k \in T PROVE k + 1 \in T
      <3>1. k \in Nat /\ (k <= Len(list) => Good(k))
        OBVIOUS
      <3>2. k + 1 <= Len(list) => Good(k + 1)
        BY <1>1, <1>4, <3>1
      <3> QED BY <3>1, <3>2
    <2> HIDE DEF T
    <2>3. T \subseteq Nat
      BY DEF T
    <2> QED BY <2>1, <2>2, <2>3, NatSetInduction
  <1>6. Good(Len(list))
    <2>1. Len(list) \in T /\ Len(list) <= Len(list)
      <3> HIDE DEF T
      <3> QED BY <1>1, <1>5
    <2> QED BY <2>1
  <1> QED BY <1>2, <1>6 DEF Good

(***************************************************************************)
(* Lists and the sets of their elements.                                   *)
(***************************************************************************)

LEMMA SeqOfSubset ==
  ASSUME NEW S, NEW T, NEW s \in Seq(S), ToSet(s) \subseteq T
  PROVE  s \in Seq(T)
  <1>1. Len(s) \in Nat /\ DOMAIN s = 1 .. Len(s) /\ s = [i \in 1 .. Len(s) |-> s[i]]
    BY LenProperties
  <1>2. \A i \in 1 .. Len(s) : s[i] \in T
    BY <1>1 DEF ToSet
  <1>3. s \in [1 .. Len(s) -> T]
    BY <1>1, <1>2
  <1> QED BY <1>1, <1>3, IsASeq

\* The head of a list and its tail have all its elements.
LEMMA HeadOrTail ==
  ASSUME NEW S, NEW s \in Seq(S), s # <<>>
  PROVE  /\ Head(s) \in S /\ Tail(s) \in Seq(S)
         /\ ToSet(s) = {Head(s)} \cup ToSet(Tail(s))
  <1>1. /\ Len(s) \in Nat \ {0} /\ DOMAIN s = 1 .. Len(s)
        /\ \A k \in 1 .. Len(s) : s[k] \in S
    BY EmptySeq, LenProperties
  <1>2. /\ Head(s) = s[1]
        /\ Tail(s) \in Seq(S) /\ DOMAIN Tail(s) = 1 .. Len(s) - 1
        /\ \A k \in 1 .. Len(s) - 1 : Tail(s)[k] = s[k + 1]
    BY <1>1
  <1>3. ASSUME NEW x \in ToSet(s), x # Head(s) PROVE x \in ToSet(Tail(s))
    <2>1. PICK k \in 1 .. Len(s) : x = s[k]
      BY <1>1 DEF ToSet
    <2>2. k - 1 \in 1 .. Len(s) - 1 /\ (k - 1) + 1 = k
      BY <1>1, <1>2, <1>3, <2>1
    <2>3. Tail(s)[k - 1] = x
      BY <1>2, <2>1, <2>2
    <2> QED BY <1>2, <2>2, <2>3 DEF ToSet
  <1>4. ASSUME NEW x \in ToSet(Tail(s)) PROVE x \in ToSet(s)
    <2>1. PICK k \in 1 .. Len(s) - 1 : x = Tail(s)[k]
      BY <1>2 DEF ToSet
    <2>2. k + 1 \in 1 .. Len(s) /\ x = s[k + 1]
      BY <1>1, <1>2, <2>1
    <2> QED BY <1>1, <2>2 DEF ToSet
  <1>5. 1 \in 1 .. Len(s) /\ Head(s) \in ToSet(s)
    BY <1>1, <1>2 DEF ToSet
  <1> QED BY <1>1, <1>2, <1>3, <1>4, <1>5

\* A list that is cut in two loses no element.
LEMMA CutFacts ==
  ASSUME NEW S, NEW s \in Seq(S), NEW n \in 0 .. Len(s)
  PROVE  /\ SubSeq(s, 1, n) \in Seq(S)
         /\ ToSet(s) = ToSet(SubSeq(s, 1, n)) \cup ToSet(SubSeq(s, n + 1, Len(s)))
  <1>1. /\ Len(s) \in Nat /\ DOMAIN s = 1 .. Len(s)
        /\ \A k \in 1 .. Len(s) : s[k] \in S
    BY LenProperties
  <1> DEFINE a == SubSeq(s, 1, n)
             b == SubSeq(s, n + 1, Len(s))
  <1>2. a = [i \in 1 .. n |-> s[i]]
    BY <1>1
  <1>3. b = [i \in 1 .. Len(s) - n |-> s[i + n]]
    BY <1>1
  <1> HIDE DEF a, b
  <1>4. a \in Seq(S)
    <2>1. n \in Nat /\ a \in [1 .. n -> S]
      BY <1>1, <1>2
    <2> QED BY <2>1, IsASeq
  <1>5. ASSUME NEW x \in ToSet(s) PROVE x \in ToSet(a) \cup ToSet(b)
    <2>1. PICK k \in 1 .. Len(s) : x = s[k]
      BY <1>1 DEF ToSet
    <2>2. CASE k <= n
      <3>1. k \in 1 .. n
        BY <2>2
      <3>2. k \in DOMAIN a /\ a[k] = x
        BY <1>2, <2>1, <3>1
      <3> QED BY <3>2 DEF ToSet
    <2>3. CASE ~(k <= n)
      <3>1. k - n \in 1 .. Len(s) - n /\ (k - n) + n = k
        BY <1>1, <2>3
      <3>2. k - n \in DOMAIN b /\ b[k - n] = x
        BY <1>3, <2>1, <3>1
      <3> QED BY <3>2 DEF ToSet
    <2> QED BY <2>2, <2>3
  <1>6. ToSet(a) \subseteq ToSet(s)
    <2>1. \A k \in 1 .. n : k \in 1 .. Len(s)
      BY <1>1
    <2>2. \A k \in DOMAIN a : k \in DOMAIN s /\ a[k] = s[k]
      BY <1>1, <1>2, <2>1
    <2> QED BY <2>2 DEF ToSet
  <1>7. ToSet(b) \subseteq ToSet(s)
    <2>1. \A k \in 1 .. Len(s) - n : k + n \in 1 .. Len(s)
      BY <1>1
    <2>2. \A k \in DOMAIN b : k + n \in DOMAIN s /\ b[k] = s[k + n]
      BY <1>1, <1>3, <2>1
    <2> QED BY <2>2 DEF ToSet
  <1> QED BY <1>4, <1>5, <1>6, <1>7 DEF a, b

\* A row that is removed takes its object from a list without duplicates.
LEMMA RemoveRowFacts ==
  ASSUME NEW S, NEW t \in Seq(S), IsInjective(t), NEW i \in 1 .. Len(t)
  PROVE  /\ RemoveAt(t, i) \in Seq(S)
         /\ IsInjective(RemoveAt(t, i))
         /\ ToSet(RemoveAt(t, i)) = ToSet(t) \ {t[i]}
  <1>1. /\ Len(t) \in Nat /\ DOMAIN t = 1 .. Len(t)
        /\ \A k \in 1 .. Len(t) : t[k] \in S
        /\ \A k, m \in 1 .. Len(t) : t[k] = t[m] => k = m
    BY LenProperties DEF IsInjective
  <1> DEFINE r == RemoveAt(t, i)
             a == SubSeq(t, 1, i - 1)
             b == SubSeq(t, i + 1, Len(t))
  <1>2. r \in Seq(S) /\ Len(r) = Len(t) - 1
    BY RemoveAtFacts
  <1>3. \A k \in 1 .. Len(t) - 1 : r[k] = IF k < i THEN t[k] ELSE t[k + 1]
    <2>1. r = a \o b
      BY DEF RemoveAt
    <2>2. a = [k \in 1 .. i - 1 |-> t[k]] /\ b = [k \in 1 .. Len(t) - i |-> t[k + i]]
      BY <1>1
    <2> HIDE DEF r, a, b
    <2>3. a \in Seq(S) /\ Len(a) = i - 1
      <3>1. i - 1 \in Nat /\ a \in [1 .. i - 1 -> S]
        BY <1>1, <2>2
      <3> QED BY <3>1, IsASeq, LenProperties
    <2>4. b \in Seq(S) /\ Len(b) = Len(t) - i
      <3>1. Len(t) - i \in Nat /\ b \in [1 .. Len(t) - i -> S]
        BY <1>1, <2>2
      <3> QED BY <3>1, IsASeq, LenProperties
    <2>5. \A k \in 1 .. Len(t) - 1 :
             (a \o b)[k] = IF k <= Len(a) THEN a[k] ELSE b[k - Len(a)]
      BY <1>1, <2>3, <2>4, ConcatProperties
    <2> TAKE k \in 1 .. Len(t) - 1
    <2>6. CASE k < i
      <3>1. k <= Len(a) /\ k \in 1 .. i - 1
        BY <1>1, <2>3, <2>6
      <3> QED BY <2>1, <2>2, <2>5, <2>6, <3>1
    <2>7. CASE ~(k < i)
      <3>1. ~(k <= Len(a)) /\ k - Len(a) \in 1 .. Len(t) - i /\ (k - Len(a)) + i = k + 1
        BY <1>1, <2>3, <2>7
      <3> QED BY <2>1, <2>2, <2>5, <2>7, <3>1
    <2> QED BY <2>6, <2>7
  <1> HIDE DEF r
  <1>4. DOMAIN r = 1 .. Len(t) - 1
    BY <1>1, <1>2, LenProperties
  <1> DEFINE j(k) == IF k < i THEN k ELSE k + 1
  <1>5. \A k \in 1 .. Len(t) - 1 : j(k) \in 1 .. Len(t) /\ j(k) # i /\ r[k] = t[j(k)]
    BY <1>1, <1>3
  <1>6. \A k, m \in 1 .. Len(t) - 1 : j(k) = j(m) => k = m
    BY <1>1
  <1>7. \A k \in 1 .. Len(t) : k # i => \E m \in 1 .. Len(t) - 1 : j(m) = k
    <2> SUFFICES ASSUME NEW k \in 1 .. Len(t), k # i
                 PROVE  \E m \in 1 .. Len(t) - 1 : j(m) = k
      OBVIOUS
    <2>1. CASE k < i
      <3>1. k \in 1 .. Len(t) - 1 /\ j(k) = k
        BY <1>1, <2>1
      <3> QED BY <3>1
    <2>2. CASE ~(k < i)
      <3>1. k - 1 \in 1 .. Len(t) - 1 /\ j(k - 1) = k
        BY <1>1, <2>2
      <3> QED BY <3>1
    <2> QED BY <2>1, <2>2
  <1> HIDE DEF j
  <1>8. IsInjective(r)
    BY <1>1, <1>4, <1>5, <1>6 DEF IsInjective
  <1>9. ToSet(r) = ToSet(t) \ {t[i]}
    <2>1. ToSet(r) = {r[k] : k \in 1 .. Len(t) - 1} /\ ToSet(t) = {t[k] : k \in 1 .. Len(t)}
      BY <1>1, <1>4 DEF ToSet
    <2>2. ASSUME NEW x \in ToSet(r) PROVE x \in ToSet(t) \ {t[i]}
      <3>1. PICK k \in 1 .. Len(t) - 1 : x = r[k]
        BY <2>1
      <3>2. j(k) \in 1 .. Len(t) /\ j(k) # i /\ x = t[j(k)]
        BY <1>5, <3>1
      <3> QED BY <1>1, <2>1, <3>2
    <2>3. ASSUME NEW x \in ToSet(t) \ {t[i]} PROVE x \in ToSet(r)
      <3>1. PICK k \in 1 .. Len(t) : x = t[k] /\ k # i
        BY <2>1
      <3>2. PICK m \in 1 .. Len(t) - 1 : j(m) = k
        BY <1>7, <3>1
      <3>3. x = r[m]
        BY <1>5, <3>1, <3>2
      <3> QED BY <2>1, <3>3
    <2> QED BY <2>2, <2>3
  <1> QED BY <1>2, <1>8, <1>9 DEF r
=============================================================================
