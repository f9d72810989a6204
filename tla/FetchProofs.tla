----------------------------- MODULE FetchProofs -----------------------------
(***************************************************************************)
(* Proofs about Fetch, for any queries and any number of fetches and       *)
(* faults.                                                                 *)
(***************************************************************************)
EXTENDS Fetch, TableProofs

(***************************************************************************)
(* The inductive invariant: what is true of the worker's state c between   *)
(* two steps, and most of it in the middle of one.  J are the fetches that *)
(* found their query listened to.                                          *)
(***************************************************************************)

\* The tables of the three classes.
Tables(c) ==
    /\ c.views = {query[f] : f \in c.listeners}
    /\ c.targets = c.views
    /\ c.synced \subseteq c.views

\* Nothing travels unless the stream is open; a stream that is about to open has
\* no answers to wait for; the idle timer runs for a stream nobody needs, and the
\* timer of the online state only in a started stream that has not failed.
Wired(c) ==
    /\ ~IsOpen(c.stream) => /\ c.stream.sent = <<>> /\ c.stream.messages = <<>>
                            /\ c.stream.behind = {}
    /\ c.stream.state \in {"Starting", "Backoff"} =>
          c.pending = [q \in Query |-> 0]
    /\ c.timer => c.online = "Unknown" /\ ~c.failed /\ IsStarted(c.stream)
    /\ c.failed => c.online = "Offline"

Linked(c) == Wired(c) /\ (c.stream.idle => IsOpen(c.stream) /\ c.targets = {})

Started(c) == c.targets # {} => IsStarted(c.stream)

\* The server refuses queries by error messages, and no others.
Judged(c) ==
    /\ c.stream.behind \cap refused = {}
    /\ \A i \in DOMAIN c.stream.messages :
          LET m == c.stream.messages[i]
          IN  /\ m.type = "current" => m.queries \cap refused = {}
              /\ m.type = "error" => m.query \in refused

Requests(q)  == [type : {"watch", "unwatch"}, query : {q}]
Responses(q) == [type : {"added", "removed"}, query : {q}]

Counted(c) ==
    IsOpen(c.stream) =>
        \A q \in Query \ refused :
            c.pending[q] = Count(c.stream.sent, Requests(q))
                           + Count(c.stream.messages, Responses(q))

\* A view is current up to the fetches that opened it.
Covered(c, J) ==
    \A f \in c.listeners \ J : query[f] \in c.synced => f <= c.covers[query[f]]

\* A message that is too old for a fetch comes before a response still to come.
Guarded(c, J) ==
    \A f \in c.listeners \ J : \A i \in DOMAIN c.stream.messages :
        LET m == c.stream.messages[i]
        IN  m.type = "current" /\ query[f] \in m.queries /\ m.covers < f =>
                \/ \E j \in DOMAIN c.stream.sent :
                      c.stream.sent[j] \in Requests(query[f])
                \/ \E j \in DOMAIN c.stream.messages :
                      j > i /\ c.stream.messages[j] \in Responses(query[f])

\* Who waits has no current view, and the phone is not known to be off line.
Waiting(c) ==
    \A f \in c.listeners \ c.raised :
        query[f] \notin c.synced /\ c.online # "Offline"

\* Events go to listeners, and an answer of the server is an own one.
Told(c, J) ==
    \A i \in DOMAIN c.events :
        LET e == c.events[i]
        IN  /\ e.from # "error" /\ e.fetch \in c.listeners
            /\ e.from = "server" /\ e.fetch \notin J => e.fresh

\* Who waits at the beginning of a step, or comes to listen in it, goes on
\* waiting or is told.
Heralded(c) ==
    /\ c.raised \subseteq sdk.raised \cup sdk.listeners \cup c.listeners
    /\ \A f \in (sdk.listeners \cup c.listeners) \ sdk.raised :
          calls[f] = 0 =>
              \/ f \in c.listeners \ c.raised
              \/ \E i \in DOMAIN c.events : c.events[i].fetch = f

\* The last that the server has been asked about q is to watch it.
WatchLast(sent, q) ==
    \E j \in DOMAIN sent :
        /\ sent[j] = [type |-> "watch", query |-> q]
        /\ \A k \in DOMAIN sent : k > j => sent[k].query # q

NoRequest(sent, q) == \A j \in DOMAIN sent : sent[j].query # q

\* The server has said that q is current, and has answered nothing about it since.
CurrentLast(messages, q) ==
    \E i \in DOMAIN messages :
        /\ messages[i].type = "current" /\ q \in messages[i].queries
        /\ \A k \in DOMAIN messages : k > i => messages[k] \notin Responses(q)

Refusal(messages, q) ==
    \E i \in DOMAIN messages : messages[i].type = "error" /\ messages[i].query = q

\* The server owes q an answer, or has it on its way.
Due(s, q) ==
    \/ WatchLast(s.sent, q)
    \/ NoRequest(s.sent, q) /\ (q \in s.behind \/ CurrentLast(s.messages, q))
    \/ Refusal(s.messages, q)

\* Each of the queries Q is current or the server owes it an answer.  While the
\* timer of the online state is running the server owes it in any case, since at
\* the end of that time no view will be current.
Promised(c, Q) ==
    IsOpen(c.stream) =>
        \A q \in Q : Due(c.stream, q) \/ (q \in c.synced /\ ~c.timer)

(***************************************************************************)
(* Counting in lists, and sets turned into lists.                          *)
(***************************************************************************)

LEMMA IntervalFinite ==
  ASSUME NEW n \in Nat
  PROVE  IsFiniteSet(1 .. n)
  <1>1. 1 \in Int /\ n \in Int
    OBVIOUS
  <1> QED BY <1>1, FS_Interval

LEMMA CountType ==
  ASSUME NEW T, NEW list \in Seq(T), NEW S
  PROVE  /\ IsFiniteSet({i \in DOMAIN list : list[i] \in S})
         /\ Count(list, S) \in Nat
  <1> DEFINE P == {i \in DOMAIN list : list[i] \in S}
  <1>1. Len(list) \in Nat /\ DOMAIN list = 1 .. Len(list)
    BY LenProperties
  <1>2. IsFiniteSet(1 .. Len(list)) /\ P \in SUBSET (1 .. Len(list))
    BY <1>1, FS_Interval
  <1>3. IsFiniteSet(P)
    BY <1>2, FS_Subset
  <1>4. Cardinality(P) \in Nat
    BY <1>3, FS_CardinalityType
  <1> QED BY <1>3, <1>4 DEF Count

LEMMA CountEmpty ==
  ASSUME NEW S
  PROVE  Count(<<>>, S) = 0
  <1>1. {i \in DOMAIN <<>> : <<>>[i] \in S} = {}
    BY EmptySeq
  <1> QED BY <1>1, FS_EmptySet DEF Count

LEMMA CountAppend ==
  ASSUME NEW T, NEW list \in Seq(T), NEW x \in T, NEW S
  PROVE  Count(Append(list, x), S) = Count(list, S) + IF x \in S THEN 1 ELSE 0
  <1> DEFINE n == Len(list)
             more == Append(list, x)
             P == {i \in DOMAIN list : list[i] \in S}
             Q == {i \in DOMAIN more : more[i] \in S}
  <1>1. n \in Nat /\ DOMAIN list = 1 .. n
    BY LenProperties
  <1>2. /\ more \in Seq(T) /\ Len(more) = n + 1
        /\ \A i \in 1 .. n : more[i] = list[i]
        /\ more[n + 1] = x
    BY AppendProperties
  <1>3. DOMAIN more = 1 .. n + 1
    BY <1>2, LenProperties
  <1>4. IsFiniteSet(P) /\ n + 1 \notin P /\ Cardinality(P) \in Nat
    <2>1. IsFiniteSet(P)
      BY CountType
    <2>2. n + 1 \notin P
      BY <1>1
    <2> QED BY <2>1, <2>2, FS_CardinalityType
  <1>5. CASE x \in S
    <2>1. Q = P \cup {n + 1}
      BY <1>1, <1>2, <1>3, <1>5
    <2>2. Cardinality(Q) = Cardinality(P) + 1
      BY <1>4, <2>1, FS_AddElement
    <2> QED BY <1>5, <2>2 DEF Count
  <1>6. CASE x \notin S
    <2>1. Q = P
      BY <1>1, <1>2, <1>3, <1>6
    <2>2. Count(more, S) = Count(list, S) /\ Count(list, S) \in Nat
      BY <2>1, CountType DEF Count
    <2> QED BY <1>6, <2>2
  <1> QED BY <1>5, <1>6

LEMMA CountTail ==
  ASSUME NEW T, NEW list \in Seq(T), list # <<>>, NEW S
  PROVE  Count(list, S) = Count(Tail(list), S) + IF Head(list) \in S THEN 1 ELSE 0
  <1> DEFINE n == Len(list)
             rest == Tail(list)
             P == {i \in DOMAIN list : list[i] \in S}
             Q == {i \in DOMAIN rest : rest[i] \in S}
             f == [i \in Q |-> i + 1]
  <1>1. n \in Nat \ {0} /\ DOMAIN list = 1 .. n
    BY EmptySeq, LenProperties
  <1>2. /\ rest \in Seq(T) /\ Len(rest) = n - 1
        /\ \A i \in 1 .. n - 1 : rest[i] = list[i + 1]
        /\ Head(list) = list[1]
    BY HeadTailProperties
  <1>3. DOMAIN rest = 1 .. n - 1
    BY <1>2, LenProperties
  <1>4. IsFiniteSet(Q) /\ IsFiniteSet(P) /\ Cardinality(P) \in Nat
    BY <1>2, CountType DEF Count
  <1>5. f \in Bijection(Q, P \ {1})
    <2>1. \A i \in Q : i + 1 \in P \ {1}
      BY <1>1, <1>2, <1>3
    <2>2. \A j \in P \ {1} : j - 1 \in Q /\ f[j - 1] = j
      BY <1>1, <1>2, <1>3
    <2>3. f \in [Q -> P \ {1}] /\ \A i, j \in Q : f[i] = f[j] => i = j
      BY <1>1, <1>3, <2>1
    <2> QED BY <2>2, <2>3 DEF Bijection, Injection, Surjection, IsInjective
  <1>6. Cardinality(Q) = Cardinality(P \ {1})
    <2>1. PICK A, B : A = Q /\ B = P \ {1}
      OBVIOUS
    <2>2. IsFiniteSet(A) /\ Bijection(A, B) # {}
      BY <1>4, <1>5, <2>1
    <2>3. Cardinality(A) = Cardinality(B)
      BY ONLY <2>2, FS_Bijection DEF ExistsBijection
    <2> QED BY <2>1, <2>3
  <1>7. Cardinality(P \ {1}) = IF 1 \in P THEN Cardinality(P) - 1 ELSE Cardinality(P)
    BY <1>4, FS_RemoveElement
  <1>8. 1 \in P <=> Head(list) \in S
    BY <1>1, <1>2
  <1> HIDE DEF P, Q, f
  <1>9. Count(list, S) = Cardinality(P) /\ Count(rest, S) = Cardinality(Q)
    BY DEF Count, P, Q
  <1> QED BY <1>4, <1>6, <1>7, <1>8, <1>9

LEMMA CountPositive ==
  ASSUME NEW T, NEW list \in Seq(T), NEW S, NEW i \in DOMAIN list, list[i] \in S
  PROVE  Count(list, S) # 0
  <1> DEFINE P == {j \in DOMAIN list : list[j] \in S}
  <1>1. i \in P /\ IsFiniteSet(P)
    BY CountType
  <1>2. Cardinality(P) # 0
    BY <1>1, FS_EmptySet
  <1> QED BY <1>2 DEF Count

LEMMA SetToSeqFacts ==
  ASSUME NEW T, IsFiniteSet(T)
  PROVE  /\ SetToSeq(T) \in Seq(T) /\ ToSet(SetToSeq(T)) = T
         /\ IsInjective(SetToSeq(T))
  <1> DEFINE n == Cardinality(T)
             list == SetToSeq(T)
  <1>1. n \in Nat /\ ExistsBijection(1 .. n, T)
    BY FS_CardinalityType
  <1>2. \E f \in [1 .. n -> T] : IsInjective(f)
    <2>1. PICK f : f \in Bijection(1 .. n, T)
      BY <1>1 DEF ExistsBijection
    <2>2. f \in [1 .. n -> T] /\ IsInjective(f)
      BY <2>1 DEF Bijection, Injection, IsInjective
    <2> QED BY <2>2
  <1>3. list \in [1 .. n -> T] /\ IsInjective(list)
    BY <1>2 DEF SetToSeq
  <1>4. list \in Seq(T) /\ Len(list) = n
    BY <1>1, <1>3, SeqDef, LenProperties
  <1>5. IsFiniteSet(ToSet(list)) /\ Cardinality(ToSet(list)) = n
    BY <1>3, <1>4, InjectiveLen
  <1>6. ToSet(list) \in SUBSET T
    BY <1>3 DEF ToSet
  <1>7. ToSet(list) = T
    BY <1>5, <1>6, FS_Subset
  <1> QED BY <1>3, <1>4, <1>7

\* A list that has each of its elements once has one of S, or none.
LEMMA CountOnce ==
  ASSUME NEW T, NEW list \in Seq(T), IsInjective(list), NEW S, NEW x,
         ToSet(list) \cap S \subseteq {x}
  PROVE  Count(list, S) = IF x \in ToSet(list) \cap S THEN 1 ELSE 0
  <1> DEFINE P == {i \in DOMAIN list : list[i] \in S}
  <1>1. \A i \in P : list[i] = x
    BY DEF ToSet
  <1>2. CASE x \in ToSet(list) \cap S
    <2>1. PICK k \in DOMAIN list : list[k] = x
      BY <1>2 DEF ToSet
    <2>2. P = {k}
      BY <1>1, <1>2, <2>1 DEF IsInjective
    <2> QED BY <1>2, <2>2, FS_Singleton DEF Count
  <1>3. CASE x \notin ToSet(list) \cap S
    <2>1. P = {}
      BY <1>1, <1>3 DEF ToSet
    <2> QED BY <1>3, <2>1, FS_EmptySet DEF Count
  <1> QED BY <1>2, <1>3
(***************************************************************************)
(* EventManager and OnlineStateTracker: from the state c before to the     *)
(* state d after.                                                          *)
(***************************************************************************)

\* What answering from the cache or from a current view does not touch.
Same(c, d) ==
    /\ d.listeners = c.listeners /\ d.views = c.views /\ d.targets = c.targets
    /\ d.covers = c.covers /\ d.pending = c.pending /\ d.stream = c.stream

Query1 == query \in [Fetch -> Query]

LEMMA RaiseFacts ==
  ASSUME Query1, NEW J, NEW c \in Sdk, NEW fs \in SUBSET c.listeners,
         Covered(c, J), Told(c, J), NEW d, d = Raise(c, fs)
  PROVE  /\ d \in Sdk /\ Same(c, d) /\ Told(d, J)
         /\ d.raised = c.raised \cup fs /\ d.synced = c.synced
         /\ d.online = c.online /\ d.failed = c.failed /\ d.timer = c.timer
         /\ Heralded(c) => Heralded(d)
  <1> DEFINE list == SetToSeq(fs)
             new  == [i \in DOMAIN list |-> Event(c, list[i])]
  <1>1. /\ c.listeners \in SUBSET Fetch /\ c.covers \in [Query -> 0 .. MaxFetches]
        /\ c.raised \in SUBSET Fetch /\ c.events \in Seq(FetchEvent)
    BY DEF Sdk
  <1>2. IsFiniteSet(fs)
    <2>1. IsFiniteSet(1 .. MaxFetches) /\ fs \in SUBSET (1 .. MaxFetches)
      BY <1>1, FetchesAssumption, IntervalFinite DEF Fetch
    <2> QED BY <2>1, FS_Subset
  <1>3. list \in Seq(fs) /\ ToSet(list) = fs
    BY <1>2, SetToSeqFacts
  <1>4. /\ Len(list) \in Nat /\ DOMAIN list = 1 .. Len(list)
        /\ \A i \in 1 .. Len(list) : list[i] \in fs
    BY <1>3, LenProperties
  <1>5. \A f \in fs : /\ Event(c, f) \in FetchEvent
                      /\ Event(c, f).fetch = f /\ Event(c, f).from # "error"
                      /\ Event(c, f).from = "server" /\ f \notin J => Event(c, f).fresh
    <2> TAKE f \in fs
    <2>1. PICK e : e = Event(c, f)
      OBVIOUS
    <2>2. e = [fetch |-> f, from |-> IF query[f] \in c.synced THEN "server" ELSE "cache",
               fresh |-> f <= c.covers[query[f]]]
      BY <2>1 DEF Event
    <2>3. f \in Fetch /\ f \in c.listeners
      BY <1>1
    <2>4. (f <= c.covers[query[f]]) \in BOOLEAN
      OBVIOUS
    <2>5. e \in FetchEvent
      BY <2>2, <2>3, <2>4 DEF FetchEvent
    <2>6. e.fetch = f /\ e.from # "error" /\ (e.from = "server" => query[f] \in c.synced)
      BY <2>2
    <2>7. query[f] \in c.synced /\ f \notin J => f <= c.covers[query[f]]
      BY <2>3 DEF Covered
    <2>8. e.from = "server" /\ f \notin J => e.fresh
      BY <2>2, <2>6, <2>7
    <2> QED BY <2>1, <2>5, <2>6, <2>8
  <1>6. new \in Seq(FetchEvent)
    BY <1>4, <1>5, SeqDef
  <1>7. /\ Len(new) = Len(list) /\ DOMAIN new = 1 .. Len(list)
        /\ \A i \in 1 .. Len(list) : new[i] = Event(c, list[i])
    BY <1>4, <1>6, LenProperties
  <1>8. d = [c EXCEPT !.raised = @ \cup fs, !.events = @ \o new]
    BY DEF Raise
  <1> HIDE DEF new, list
  <1>9. c.events \o new \in Seq(FetchEvent)
    BY <1>1, <1>6, ConcatProperties
  <1>10. /\ d.raised = c.raised \cup fs /\ d.events = c.events \o new
         /\ d.synced = c.synced /\ d.online = c.online /\ d.failed = c.failed
         /\ d.timer = c.timer /\ d.listeners = c.listeners /\ Same(c, d)
         /\ d \in Sdk
    BY <1>1, <1>8, <1>9 DEF Sdk, Same
  <1>11. Told(d, J)
    <2> SUFFICES ASSUME NEW i \in DOMAIN d.events
                 PROVE  /\ d.events[i].from # "error"
                        /\ d.events[i].fetch \in c.listeners
                        /\ d.events[i].from = "server" /\ d.events[i].fetch \notin J
                              => d.events[i].fresh
      BY <1>10 DEF Told
    <2>1. /\ Len(c.events) \in Nat /\ DOMAIN c.events = 1 .. Len(c.events)
          /\ Len(new) \in Nat
      BY <1>1, <1>6, LenProperties
    <2>2. DOMAIN d.events = 1 .. Len(c.events) + Len(new)
      BY <1>1, <1>6, <1>9, <1>10, ConcatProperties, LenProperties
    <2>3. CASE i <= Len(c.events)
      <3>1. d.events[i] = c.events[i] /\ i \in DOMAIN c.events
        BY <1>1, <1>6, <1>10, <2>1, <2>2, <2>3, ConcatProperties
      <3> QED BY <3>1 DEF Told
    <2>4. CASE i > Len(c.events)
      <3>1. PICK k \in 1 .. Len(list) : i = Len(c.events) + k
        <4>1. i - Len(c.events) \in 1 .. Len(list)
          BY <1>7, <2>1, <2>2, <2>4
        <4>2. i = Len(c.events) + (i - Len(c.events))
          BY <2>1, <2>2
        <4> QED BY <4>1, <4>2
      <3>2. d.events[i] = new[k]
        BY <1>1, <1>6, <1>7, <1>10, <2>1, <2>2, <2>4, <3>1, ConcatProperties
      <3>3. list[k] \in fs /\ new[k] = Event(c, list[k])
        BY <1>4, <1>7
      <3> QED BY <1>5, <3>2, <3>3
    <2> QED BY <2>1, <2>2, <2>3, <2>4
  <1>12. ASSUME Heralded(c) PROVE Heralded(d)
    <2>1. /\ Len(c.events) \in Nat /\ DOMAIN c.events = 1 .. Len(c.events)
          /\ Len(new) = Len(list) /\ DOMAIN d.events = 1 .. Len(c.events) + Len(list)
      <3>1. Len(c.events) \in Nat /\ DOMAIN c.events = 1 .. Len(c.events)
        BY <1>1, LenProperties
      <3>2. Len(c.events \o new) = Len(c.events) + Len(new)
        BY <1>1, <1>6, ConcatProperties
      <3>3. DOMAIN d.events = 1 .. Len(c.events \o new)
        BY <1>9, <1>10, LenProperties
      <3> QED BY <1>7, <3>1, <3>2, <3>3
    <2>2. \A i \in DOMAIN c.events : i \in DOMAIN d.events /\ d.events[i] = c.events[i]
      BY <1>1, <1>4, <1>6, <1>10, <2>1, ConcatProperties
    <2>3. ASSUME NEW f \in fs PROVE \E i \in DOMAIN d.events : d.events[i].fetch = f
      <3>1. PICK k \in 1 .. Len(list) : list[k] = f
        BY <1>3, <1>4 DEF ToSet
      <3>2. /\ Len(c.events) + k \in DOMAIN d.events /\ ~(Len(c.events) + k <= Len(c.events))
            /\ (Len(c.events) + k) - Len(c.events) = k
        BY <1>4, <2>1
      <3>3. d.events[Len(c.events) + k] = new[k]
        BY <1>1, <1>6, <1>10, <2>1, <3>2, ConcatProperties
      <3>4. new[k] = Event(c, f)
        BY <1>7, <3>1
      <3> QED BY <1>5, <3>2, <3>3, <3>4
    <2>4. d.raised \subseteq sdk.raised \cup sdk.listeners \cup d.listeners
      BY <1>10, <1>12 DEF Heralded
    <2>5. ASSUME NEW f \in (sdk.listeners \cup d.listeners) \ sdk.raised, calls[f] = 0
          PROVE  \/ f \in d.listeners \ d.raised
                 \/ \E i \in DOMAIN d.events : d.events[i].fetch = f
      <3>1. CASE f \in fs
        BY <2>3, <3>1
      <3>2. CASE f \notin fs
        <4>1. \/ f \in c.listeners \ c.raised
              \/ \E i \in DOMAIN c.events : c.events[i].fetch = f
          BY <1>10, <1>12, <2>5 DEF Heralded
        <4> QED BY <1>10, <2>2, <3>2, <4>1
      <3> QED BY <3>1, <3>2
    <2> QED BY <2>4, <2>5 DEF Heralded
  <1> QED BY <1>10, <1>11, <1>12
Answering(c, J) ==
    c \in Sdk /\ Covered(c, J) /\ Waiting(c) /\ Told(c, J) /\ Heralded(c)

LEMMA SameAnswering ==
  ASSUME NEW J, NEW c, Answering(c, J), NEW d \in Sdk,
         d.listeners = c.listeners, d.raised = c.raised, d.synced \subseteq c.synced,
         d.covers = c.covers, d.online = c.online, d.events = c.events
  PROVE  Answering(d, J)
  <1>1. Covered(d, J) /\ Told(d, J)
    BY DEF Answering, Covered, Told
  <1>2. Waiting(d)
    BY DEF Answering, Waiting
  <1>3. Heralded(d)
    BY DEF Answering, Heralded
  <1> QED BY <1>1, <1>2, <1>3 DEF Answering

LEMMA OnViewSnapshotFacts ==
  ASSUME Query1, NEW J, NEW c \in Sdk, NEW fs \in SUBSET c.listeners,
         Covered(c, J), Told(c, J), NEW d, d = OnViewSnapshot(c, fs)
  PROVE  /\ d \in Sdk /\ Same(c, d) /\ Told(d, J)
         /\ d.raised = c.raised \cup {f \in fs : \/ f \in c.raised
                                                 \/ query[f] \in c.synced
                                                 \/ c.online = "Offline"}
         /\ d.synced = c.synced
         /\ d.online = c.online /\ d.failed = c.failed /\ d.timer = c.timer
         /\ Heralded(c) => Heralded(d)
  <1> DEFINE served == {f \in fs : \/ f \in c.raised
                                   \/ query[f] \in c.synced
                                   \/ c.online = "Offline"}
  <1>1. served \in SUBSET c.listeners /\ d = Raise(c, served)
    BY DEF OnViewSnapshot
  <1> HIDE DEF served
  <1>2. /\ d \in Sdk /\ Same(c, d) /\ Told(d, J)
        /\ d.raised = c.raised \cup served /\ d.synced = c.synced
        /\ d.online = c.online /\ d.failed = c.failed /\ d.timer = c.timer
        /\ Heralded(c) => Heralded(d)
    BY <1>1, RaiseFacts
  <1> QED BY <1>2 DEF served

\* Off line everybody is answered.
LEMMA BroadcastFacts ==
  ASSUME Query1, NEW J, NEW c, Answering(c, J), NEW s \in OnlineState,
         NEW d, d = Broadcast(c, s)
  PROVE  /\ Answering(d, J) /\ Same(c, d) /\ d.synced \subseteq c.synced
         /\ d.online = s /\ d.failed = c.failed /\ d.timer = c.timer
  <1>1. c \in Sdk /\ Covered(c, J) /\ Waiting(c) /\ Told(c, J)
    BY DEF Answering
  <1>2. CASE s = c.online
    <2>1. d = c
      BY <1>2 DEF Broadcast
    <2> QED BY <1>1, <1>2, <2>1 DEF Answering, Same
  <1>3. CASE s # c.online /\ s # "Offline"
    <2>1. d = [c EXCEPT !.online = s]
      BY <1>3 DEF Broadcast
    <2>2. /\ d \in Sdk /\ Same(c, d) /\ d.synced = c.synced /\ d.raised = c.raised
          /\ d.listeners = c.listeners /\ d.events = c.events /\ d.covers = c.covers
          /\ d.online = s /\ d.failed = c.failed /\ d.timer = c.timer
      BY <1>1, <2>1 DEF Sdk, Same
    <2>3. Covered(d, J) /\ Waiting(d) /\ Told(d, J)
      BY <1>1, <1>3, <2>2 DEF Covered, Waiting, Told
    <2>4. Heralded(d)
      BY <2>2 DEF Answering, Heralded
    <2> QED BY <2>2, <2>3, <2>4 DEF Answering
  <1>4. CASE s # c.online /\ s = "Offline"
    <2>1. PICK lapsed : lapsed = {f \in c.listeners : \/ f \notin c.raised
                                                      \/ query[f] \in c.synced}
      OBVIOUS
    <2>2. PICK e : e = [c EXCEPT !.online = s, !.synced = {}]
      OBVIOUS
    <2>3. d = OnViewSnapshot(e, lapsed)
      BY <1>4, <2>1, <2>2 DEF Broadcast
    <2>4. /\ e \in Sdk /\ Same(c, e) /\ e.synced = {} /\ e.raised = c.raised
          /\ e.listeners = c.listeners /\ e.events = c.events
          /\ e.online = s /\ e.failed = c.failed /\ e.timer = c.timer
      BY <1>1, <2>2 DEF Sdk, Same
    <2>5. Covered(e, J) /\ Told(e, J) /\ Heralded(e)
      <3>1. Covered(e, J) /\ Told(e, J)
        BY <1>1, <2>4 DEF Covered, Told
      <3>2. Heralded(e)
        BY <2>4 DEF Answering, Heralded
      <3> QED BY <3>1, <3>2
    <2>6. lapsed \in SUBSET e.listeners
      BY <2>1, <2>4
    <2>7. /\ d \in Sdk /\ Same(e, d) /\ Told(d, J)
          /\ d.raised = e.raised \cup {f \in lapsed : \/ f \in e.raised
                                                      \/ query[f] \in e.synced
                                                      \/ e.online = "Offline"}
          /\ d.synced = e.synced
          /\ d.online = e.online /\ d.failed = e.failed /\ d.timer = e.timer
          /\ Heralded(d)
      BY <2>3, <2>4, <2>5, <2>6, OnViewSnapshotFacts
    <2>8. Same(c, d) /\ d.listeners = c.listeners /\ d.synced = {}
      BY <2>4, <2>7 DEF Same
    <2>9. \A f \in d.listeners : f \in d.raised
      BY <1>4, <2>1, <2>4, <2>7, <2>8
    <2>10. Covered(d, J) /\ Waiting(d)
      BY <2>8, <2>9 DEF Covered, Waiting
    <2> QED BY <2>4, <2>7, <2>8, <2>10 DEF Answering
  <1> QED BY <1>2, <1>3, <1>4

LEMMA UpdateStateFacts ==
  ASSUME Query1, NEW J, NEW c, Answering(c, J), NEW s \in OnlineState,
         NEW d, d = UpdateState(c, s)
  PROVE  /\ Answering(d, J) /\ Same(c, d) /\ d.synced \subseteq c.synced
         /\ d.online = s /\ ~d.failed /\ ~d.timer
  <1>1. PICK e : e = [c EXCEPT !.timer = FALSE, !.failed = FALSE]
    OBVIOUS
  <1>2. /\ e \in Sdk /\ Same(c, e) /\ e.synced = c.synced /\ e.raised = c.raised
        /\ e.events = c.events /\ e.online = c.online
        /\ e.failed = FALSE /\ e.timer = FALSE
    BY <1>1 DEF Answering, Sdk, Same
  <1>3. Answering(e, J)
    BY <1>2, SameAnswering DEF Same
  <1>4. d = Broadcast(e, s)
    BY <1>1 DEF UpdateState
  <1>5. /\ Answering(d, J) /\ Same(e, d) /\ d.synced \subseteq e.synced
        /\ d.online = s /\ d.failed = e.failed /\ d.timer = e.timer
    BY <1>3, <1>4, BroadcastFacts
  <1> QED BY <1>2, <1>5 DEF Same

LEMMA StartHandled ==
  ASSUME Query1, NEW J, NEW c, Answering(c, J), NEW d, d = HandleWatchStreamStart(c)
  PROVE  /\ Answering(d, J) /\ Same(c, d) /\ d.synced \subseteq c.synced
         /\ d.failed = c.failed
         /\ IF c.failed THEN d.online = c.online /\ d.timer = c.timer
            ELSE d.online = "Unknown" /\ d.timer = TRUE
  <1>1. CASE c.failed
    <2>1. d = c
      BY <1>1 DEF HandleWatchStreamStart
    <2> QED BY <1>1, <2>1 DEF Same
  <1>2. CASE ~c.failed
    <2>1. PICK e : e = Broadcast(c, "Unknown")
      OBVIOUS
    <2>2. /\ Answering(e, J) /\ Same(c, e) /\ e.synced \subseteq c.synced
          /\ e.online = "Unknown" /\ e.failed = c.failed
      <3>1. PICK s0 : s0 = "Unknown" /\ s0 \in OnlineState
        BY DEF OnlineState
      <3>2. e = Broadcast(c, s0)
        BY <3>1, <2>1
      <3> QED BY <3>1, <3>2, <2>1, BroadcastFacts
    <2>3. d = [e EXCEPT !.timer = TRUE]
      BY <1>2, <2>1 DEF HandleWatchStreamStart
    <2>4. /\ d \in Sdk /\ Same(e, d) /\ d.synced = e.synced /\ d.raised = e.raised
          /\ d.events = e.events /\ d.online = e.online
          /\ d.failed = e.failed /\ d.timer = TRUE
      BY <2>2, <2>3 DEF Answering, Sdk, Same
    <2>5. Answering(d, J)
      BY <2>2, <2>4, SameAnswering DEF Same
    <2> QED BY <1>2, <2>2, <2>4, <2>5 DEF Same
  <1> QED BY <1>1, <1>2

LEMMA FailureHandled ==
  ASSUME Query1, NEW J, NEW c, Answering(c, J), c.failed => c.online = "Offline",
         NEW d, d = HandleWatchStreamFailure(c)
  PROVE  /\ Answering(d, J) /\ Same(c, d) /\ d.synced \subseteq c.synced
         /\ d.failed => d.online = "Offline" /\ d.timer = FALSE
         /\ IF c.online = "Online" THEN d.online = "Unknown" /\ ~d.failed
            ELSE d.online = "Offline" /\ d.failed = TRUE
  <1>1. CASE c.online = "Online"
    <2>1. d = Broadcast(c, "Unknown") /\ c.failed = FALSE
      BY <1>1 DEF HandleWatchStreamFailure, Answering, Sdk
    <2>2. PICK s0 : s0 = "Unknown" /\ s0 \in OnlineState
      BY DEF OnlineState
    <2>3. d = Broadcast(c, s0)
      BY <2>1, <2>2
    <2>4. /\ Answering(d, J) /\ Same(c, d) /\ d.synced \subseteq c.synced
          /\ d.online = s0 /\ d.failed = c.failed
      BY <2>2, <2>3, BroadcastFacts
    <2> QED BY <1>1, <2>1, <2>2, <2>4
  <1>2. CASE c.online # "Online"
    <2>1. PICK e : e = [c EXCEPT !.timer = FALSE, !.failed = TRUE]
      OBVIOUS
    <2>2. /\ e \in Sdk /\ Same(c, e) /\ e.synced = c.synced /\ e.raised = c.raised
          /\ e.events = c.events /\ e.online = c.online /\ e.failed = TRUE
          /\ e.timer = FALSE
      BY <2>1 DEF Answering, Sdk, Same
    <2>3. Answering(e, J)
      BY <2>2, SameAnswering DEF Same
    <2>4. d = Broadcast(e, "Offline")
      BY <1>2, <2>1 DEF HandleWatchStreamFailure
    <2>5. /\ Answering(d, J) /\ Same(e, d) /\ d.synced \subseteq e.synced
          /\ d.online = "Offline" /\ d.failed = e.failed /\ d.timer = e.timer
      <3>1. PICK s0 : s0 = "Offline" /\ s0 \in OnlineState
        BY DEF OnlineState
      <3>2. d = Broadcast(e, s0)
        BY <3>1, <2>3, <2>4
      <3> QED BY <3>1, <3>2, <2>3, <2>4, BroadcastFacts
    <2> QED BY <1>2, <2>2, <2>5 DEF Same
  <1> QED BY <1>1, <1>2
(***************************************************************************)
(* RemoteStore: the stream is started, closed and restarted.               *)
(***************************************************************************)
KeepTables(c, d) ==
    /\ d.listeners = c.listeners /\ d.views = c.views /\ d.targets = c.targets
    /\ d.covers = c.covers /\ d.synced \subseteq c.synced

Silent(s) == s.sent = <<>> /\ s.messages = <<>> /\ s.behind = {} /\ s.idle = FALSE

LEMMA StreamTypes ==
  ASSUME NEW s \in WatchStream
  PROVE  /\ s.state \in StreamState /\ s.idle \in BOOLEAN /\ s.closes = 0
         /\ s.sent \in Seq(Request) /\ s.messages \in Seq(Message)
         /\ s.behind \in SUBSET Query
  BY DEF WatchStream

LEMMA ClosedFacts ==
  ASSUME NEW s \in WatchStream, NEW graceful \in BOOLEAN, NEW t,
         t = WatchClosed(s, graceful)
  PROVE  /\ t \in WatchStream /\ Silent(t) /\ ~IsStarted(t) /\ ~IsOpen(t)
         /\ t.state \notin {"Starting", "Backoff"}
  <1>1. PICK r : r = Closed(s, graceful)
    OBVIOUS
  <1>2. /\ r = [s EXCEPT !.state = IF graceful THEN "Initial" ELSE "Error",
                         !.closes = @ + 1, !.idle = FALSE]
        /\ t = [r EXCEPT !.closes = 0, !.sent = <<>>, !.messages = <<>>, !.behind = {}]
    BY <1>1 DEF Closed, WatchClosed
  <1>3. /\ t = [state |-> IF graceful THEN "Initial" ELSE "Error", closes |-> 0,
                idle |-> FALSE, sent |-> <<>>, messages |-> <<>>, behind |-> {}]
    BY <1>2 DEF WatchStream
  <1>4. <<>> \in Seq(Request) /\ <<>> \in Seq(Message)
    BY EmptySeq
  <1> QED BY <1>3, <1>4 DEF WatchStream, Silent, IsStarted, IsOpen, StreamState

\* Nothing is wrong with the messages of a stream that is not open.
LEMMA QuietFacts ==
  ASSUME NEW J, NEW c, Linked(c), ~IsOpen(c.stream)
  PROVE  Judged(c) /\ Counted(c) /\ Guarded(c, J) /\ \A Q : Promised(c, Q)
  <1>1. c.stream.messages = <<>> /\ c.stream.behind = {} /\ DOMAIN <<>> = {}
    BY EmptySeq DEF Linked, Wired
  <1> QED BY <1>1 DEF Judged, Counted, Guarded, Promised

LEMMA StartWatchStreamFacts ==
  ASSUME Query1, NEW J, NEW c, Answering(c, J), Silent(c.stream),
         ~IsStarted(c.stream), c.failed => c.online = "Offline" /\ c.timer = FALSE,
         NEW d, d = StartWatchStream(c)
  PROVE  /\ Answering(d, J) /\ KeepTables(c, d) /\ Linked(d)
         /\ IsStarted(d.stream) /\ ~IsOpen(d.stream) /\ ~StillReset(d)
  <1>1. PICK s : s = Start(c.stream)
    OBVIOUS
  <1>2. c \in Sdk /\ c.stream \in WatchStream /\ c.failed \in BOOLEAN
    BY DEF Answering, Sdk
  <1>3. /\ s \in WatchStream /\ Silent(s) /\ s.state \in {"Starting", "Backoff"}
    BY <1>1, <1>2 DEF Start, WatchStream, Silent, StreamState
  <1>4. PICK zero : zero = [q \in Query |-> 0]
    OBVIOUS
  <1>5. PICK e : e = [c EXCEPT !.stream = s, !.pending = zero]
    OBVIOUS
  <1>6. d = HandleWatchStreamStart(e)
    BY <1>1, <1>4, <1>5 DEF StartWatchStream
  <1>7. zero \in [Query -> Int]
    BY <1>4
  <1>8. /\ e \in Sdk /\ e.listeners = c.listeners /\ e.views = c.views
        /\ e.targets = c.targets /\ e.covers = c.covers /\ e.synced = c.synced
        /\ e.raised = c.raised /\ e.events = c.events /\ e.online = c.online
        /\ e.failed = c.failed /\ e.timer = c.timer
        /\ e.stream = s /\ e.pending = zero
    BY <1>2, <1>3, <1>5, <1>7 DEF Sdk
  <1>9. Answering(e, J)
    BY <1>8, SameAnswering
  <1>10. /\ Answering(d, J) /\ Same(e, d) /\ d.synced \subseteq e.synced
         /\ d.failed = e.failed
         /\ IF e.failed THEN d.online = e.online /\ d.timer = e.timer
            ELSE d.online = "Unknown" /\ d.timer = TRUE
    BY <1>6, <1>9, StartHandled
  <1>11. d.stream = s /\ d.pending = zero /\ KeepTables(c, d)
    BY <1>8, <1>10 DEF Same, KeepTables
  <1>12. IsStarted(s) /\ ~IsOpen(s)
    BY <1>3 DEF IsStarted, IsOpen
  <1>13. Linked(d)
    BY <1>3, <1>4, <1>8, <1>10, <1>11, <1>12 DEF Linked, Wired, Silent
  <1>14. ~StillReset(d)
    BY <1>8, <1>10 DEF StillReset
  <1> QED BY <1>10, <1>11, <1>12, <1>13, <1>14

\* A stream that is needed is started again after it was closed.
LEMMA CloseStreamFacts ==
  ASSUME Query1, NEW J, NEW c, Answering(c, J), Linked(c), NEW graceful \in BOOLEAN,
         NEW d, d = CloseStream(c, graceful)
  PROVE  /\ Answering(d, J) /\ KeepTables(c, d) /\ Linked(d)
         /\ Started(d) /\ ~IsOpen(d.stream) /\ ~StillReset(d)
  <1>1. PICK s : s = WatchClosed(c.stream, graceful)
    OBVIOUS
  <1>2. c \in Sdk /\ c.stream \in WatchStream
    BY DEF Answering, Sdk
  <1>3. /\ s \in WatchStream /\ Silent(s) /\ ~IsStarted(s) /\ ~IsOpen(s)
        /\ s.state \notin {"Starting", "Backoff"}
    BY <1>1, <1>2, ClosedFacts
  <1>4. PICK e : e = [c EXCEPT !.stream = s]
    OBVIOUS
  <1>5. /\ e \in Sdk /\ e.listeners = c.listeners /\ e.views = c.views
        /\ e.targets = c.targets /\ e.covers = c.covers /\ e.synced = c.synced
        /\ e.raised = c.raised /\ e.events = c.events /\ e.online = c.online
        /\ e.failed = c.failed /\ e.timer = c.timer /\ e.stream = s
    BY <1>2, <1>3, <1>4 DEF Sdk
  <1>6. Answering(e, J)
    BY <1>5, SameAnswering
  <1>7. d = OnWatchStreamClose(e)
    BY <1>1, <1>4 DEF CloseStream
  <1>8. CASE e.targets # {}
    <2>1. PICK g : g = HandleWatchStreamFailure(e)
      OBVIOUS
    <2>2. d = StartWatchStream(g)
      BY <1>3, <1>5, <1>7, <1>8, <2>1 DEF OnWatchStreamClose, ShouldStartWatchStream
    <2>3. e.failed => e.online = "Offline"
      BY <1>5 DEF Linked, Wired
    <2>4. /\ Answering(g, J) /\ Same(e, g) /\ g.synced \subseteq e.synced
          /\ g.failed => g.online = "Offline" /\ g.timer = FALSE
      BY <1>6, <2>1, <2>3, FailureHandled
    <2>5. Silent(g.stream) /\ ~IsStarted(g.stream)
      BY <1>3, <1>5, <2>4 DEF Same
    <2>6. /\ Answering(d, J) /\ KeepTables(g, d) /\ Linked(d)
          /\ IsStarted(d.stream) /\ ~IsOpen(d.stream) /\ ~StillReset(d)
      BY <2>2, <2>4, <2>5, StartWatchStreamFacts
    <2>7. KeepTables(c, d)
      BY <1>5, <2>4, <2>6 DEF KeepTables, Same
    <2> QED BY <2>6, <2>7 DEF Started
  <1>9. CASE e.targets = {}
    <2>1. d = UpdateState(e, "Unknown")
      BY <1>7, <1>9 DEF OnWatchStreamClose, ShouldStartWatchStream
    <2>2. /\ Answering(d, J) /\ Same(e, d) /\ d.synced \subseteq e.synced
          /\ d.online = "Unknown" /\ ~d.failed /\ ~d.timer
      <3>1. PICK s0 : s0 = "Unknown" /\ s0 \in OnlineState
        BY DEF OnlineState
      <3>2. d = UpdateState(e, s0)
        BY <3>1, <1>6, <2>1
      <3>3. /\ Answering(d, J) /\ Same(e, d) /\ d.synced \subseteq e.synced
            /\ d.online = s0 /\ ~d.failed /\ ~d.timer
        BY <1>6, <3>1, <3>2, UpdateStateFacts
      <3> QED BY <3>1, <3>3
    <2>3. d.stream = s /\ d.targets = {} /\ KeepTables(c, d)
      BY <1>5, <1>9, <2>2 DEF Same, KeepTables
    <2>4. Linked(d)
      BY <1>3, <2>2, <2>3 DEF Linked, Wired, Silent
    <2> QED BY <1>3, <2>2, <2>3, <2>4 DEF Started, StillReset
  <1> QED BY <1>8, <1>9

LEMMA CredentialFacts ==
  ASSUME Query1, NEW J, NEW c, Answering(c, J), Linked(c),
         NEW d, d = HandleCredentialChange(c)
  PROVE  /\ Answering(d, J) /\ KeepTables(c, d) /\ Linked(d)
         /\ Started(d) /\ ~IsOpen(d.stream) /\ ~StillReset(d)
  <1>1. PICK s : s = IF IsStarted(c.stream) THEN WatchClosed(c.stream, TRUE) ELSE c.stream
    OBVIOUS
  <1>2. c \in Sdk /\ c.stream \in WatchStream
    BY DEF Answering, Sdk
  <1>3. /\ s \in WatchStream /\ Silent(s) /\ ~IsStarted(s) /\ ~IsOpen(s)
        /\ s.state \notin {"Starting", "Backoff"}
    <2>1. CASE IsStarted(c.stream)
      BY <1>1, <1>2, <2>1, ClosedFacts
    <2>2. CASE ~IsStarted(c.stream)
      <3>1. s = c.stream /\ ~IsOpen(s) /\ s.state \notin {"Starting", "Backoff"}
        BY <1>1, <2>2 DEF IsStarted, IsOpen
      <3>2. s.idle \in BOOLEAN
        BY <1>2, <3>1, StreamTypes
      <3> QED BY <1>2, <2>2, <3>1, <3>2 DEF Linked, Wired, Silent
    <2> QED BY <2>1, <2>2
  <1>4. PICK e : e = IF IsStarted(c.stream) THEN [c EXCEPT !.stream = s] ELSE c
    OBVIOUS
  <1>5. /\ e \in Sdk /\ e.listeners = c.listeners /\ e.views = c.views
        /\ e.targets = c.targets /\ e.covers = c.covers /\ e.synced = c.synced
        /\ e.raised = c.raised /\ e.events = c.events /\ e.online = c.online
        /\ e.stream = s
    BY <1>1, <1>2, <1>3, <1>4 DEF Sdk
  <1>6. Answering(e, J)
    BY <1>5, SameAnswering
  <1>7. PICK g : g = UpdateState(e, "Unknown")
    OBVIOUS
  <1>8. /\ Answering(g, J) /\ Same(e, g) /\ g.synced \subseteq e.synced
        /\ g.online = "Unknown" /\ ~g.failed /\ ~g.timer
    <2>1. PICK s0 : s0 = "Unknown" /\ s0 \in OnlineState
      BY DEF OnlineState
    <2>2. g = UpdateState(e, s0)
      BY <2>1, <1>6, <1>7
    <2>3. /\ Answering(g, J) /\ Same(e, g) /\ g.synced \subseteq e.synced
          /\ g.online = s0 /\ ~g.failed /\ ~g.timer
      BY <1>6, <2>1, <2>2, UpdateStateFacts
    <2> QED BY <2>1, <2>3
  <1>9. KeepTables(c, g) /\ g.stream = s /\ g.targets = c.targets
    BY <1>5, <1>8 DEF Same, KeepTables
  <1>10. d = IF ShouldStartWatchStream(g) THEN StartWatchStream(g) ELSE g
    BY <1>1, <1>4, <1>7 DEF HandleCredentialChange
  <1>11. CASE g.targets # {}
    <2>1. d = StartWatchStream(g)
      BY <1>3, <1>9, <1>10, <1>11 DEF ShouldStartWatchStream
    <2>2. /\ Answering(d, J) /\ KeepTables(g, d) /\ Linked(d)
          /\ IsStarted(d.stream) /\ ~IsOpen(d.stream) /\ ~StillReset(d)
      BY <1>3, <1>8, <1>9, <2>1, StartWatchStreamFacts
    <2> QED BY <1>9, <2>2 DEF Started, KeepTables
  <1>12. CASE g.targets = {}
    <2>1. d = g
      BY <1>10, <1>12 DEF ShouldStartWatchStream
    <2>2. Linked(d)
      BY <1>3, <1>8, <1>9, <2>1 DEF Linked, Wired, Silent
    <2> QED BY <1>3, <1>8, <1>9, <1>12, <2>1, <2>2 DEF Started, StillReset
  <1> QED BY <1>11, <1>12
(***************************************************************************)
(* Requests on an open stream, and queries that are watched or not.        *)
(***************************************************************************)
LEMMA RequestFacts ==
  ASSUME NEW type \in {"watch", "unwatch"}, NEW q \in Query, NEW r,
         r = [type |-> type, query |-> q]
  PROVE  r \in Request /\ \A p : r \in Requests(p) <=> p = q
  BY DEF Request, Requests

\* A request is the last of its query, and leaves the others alone.
LEMMA RequestAppended ==
  ASSUME NEW s \in WatchStream, NEW r \in Request, NEW t,
         t.sent = Append(s.sent, r), t.messages = s.messages, t.behind = s.behind
  PROVE  /\ \A p : p # r.query /\ Due(s, p) => Due(t, p)
         /\ r = [type |-> "watch", query |-> r.query] => Due(t, r.query)
  <1>1. s.sent \in Seq(Request)
    BY StreamTypes
  <1>2. PICK n \in Nat : n = Len(s.sent)
    BY <1>1, LenProperties
  <1>3. /\ t.sent \in Seq(Request) /\ Len(t.sent) = n + 1 /\ t.sent[n + 1] = r
        /\ \A i \in 1 .. n : t.sent[i] = s.sent[i]
    BY <1>1, <1>2, AppendProperties
  <1>4. DOMAIN t.sent = 1 .. n + 1 /\ DOMAIN s.sent = 1 .. n
    BY <1>1, <1>2, <1>3, LenProperties
  <1>5. \A i \in DOMAIN t.sent : \/ i \in DOMAIN s.sent /\ t.sent[i] = s.sent[i]
                                 \/ i = n + 1 /\ t.sent[i] = r
    <2> TAKE i \in DOMAIN t.sent
    <2>1. i \in 1 .. n \/ i = n + 1
      BY <1>4
    <2> QED BY <1>3, <1>4, <2>1
  <1>6. \A i \in DOMAIN s.sent : i \in DOMAIN t.sent /\ t.sent[i] = s.sent[i]
    BY <1>3, <1>4
  <1>7. /\ n + 1 \in DOMAIN t.sent
        /\ \A i \in DOMAIN t.sent : ~(i > n + 1)
    BY <1>4
  <1>8. ASSUME NEW p, p # r.query, Due(s, p)
        PROVE  Due(t, p)
    <2>1. CASE WatchLast(s.sent, p)
      <3>1. PICK j \in DOMAIN s.sent :
               /\ s.sent[j] = [type |-> "watch", query |-> p]
               /\ \A k \in DOMAIN s.sent : k > j => s.sent[k].query # p
        BY <2>1 DEF WatchLast
      <3>2. ASSUME NEW k \in DOMAIN t.sent, k > j PROVE t.sent[k].query # p
        BY <1>5, <1>8, <3>1, <3>2
      <3>3. WatchLast(t.sent, p)
        BY <1>6, <3>1, <3>2 DEF WatchLast
      <3> QED BY <3>3 DEF Due
    <2>2. CASE NoRequest(s.sent, p) /\ (p \in s.behind \/ CurrentLast(s.messages, p))
      <3>1. NoRequest(t.sent, p)
        BY <1>5, <1>8, <2>2 DEF NoRequest
      <3> QED BY <2>2, <3>1 DEF Due
    <2>3. CASE Refusal(s.messages, p)
      BY <2>3 DEF Due
    <2> QED BY <1>8, <2>1, <2>2, <2>3 DEF Due
  <1>9. ASSUME r = [type |-> "watch", query |-> r.query]
        PROVE  Due(t, r.query)
    <2>1. WatchLast(t.sent, r.query)
      BY <1>3, <1>7, <1>9 DEF WatchLast
    <2> QED BY <2>1 DEF Due
  <1> QED BY <1>8, <1>9

LEMMA SendRequestFacts ==
  ASSUME NEW J, NEW c, Answering(c, J), Wired(c), IsOpen(c.stream), Judged(c),
         Counted(c), NEW type \in {"watch", "unwatch"}, NEW q \in Query,
         NEW d, d = SendRequest(c, type, q)
  PROVE  /\ Answering(d, J) /\ KeepTables(c, d) /\ Linked(d) /\ IsOpen(d.stream)
         /\ Judged(d) /\ Counted(d) /\ (StillReset(d) <=> StillReset(c))
         /\ d.stream.messages = c.stream.messages
         /\ \A j \in DOMAIN c.stream.sent :
                j \in DOMAIN d.stream.sent /\ d.stream.sent[j] = c.stream.sent[j]
         /\ \E j \in DOMAIN d.stream.sent : d.stream.sent[j] \in Requests(q)
         /\ \A Q : Promised(c, Q) =>
                Promised(d, IF type = "watch" THEN Q \cup {q} ELSE Q \ {q})
  <1>1. PICK r : r = [type |-> type, query |-> q]
    OBVIOUS
  <1>2. r \in Request /\ \A p : r \in Requests(p) <=> p = q
    BY <1>1, RequestFacts
  <1>3. c \in Sdk /\ c.stream \in WatchStream /\ c.pending \in [Query -> Int]
    BY DEF Answering, Sdk
  <1>4. PICK sent : sent = Append(c.stream.sent, r)
    OBVIOUS
  <1>5. c.stream.sent \in Seq(Request)
    BY <1>3, StreamTypes
  <1>6. /\ sent \in Seq(Request) /\ Len(sent) = Len(c.stream.sent) + 1
        /\ \A j \in 1 .. Len(c.stream.sent) : sent[j] = c.stream.sent[j]
        /\ sent[Len(c.stream.sent) + 1] = r
    BY <1>2, <1>4, <1>5, AppendProperties
  <1>7. /\ Len(c.stream.sent) \in Nat /\ DOMAIN c.stream.sent = 1 .. Len(c.stream.sent)
        /\ DOMAIN sent = 1 .. Len(c.stream.sent) + 1
    BY <1>5, <1>6, LenProperties
  <1>8. PICK s : s = [c.stream EXCEPT !.idle = FALSE, !.sent = sent]
    OBVIOUS
  <1>9. /\ s \in WatchStream /\ s.state = c.stream.state /\ ~s.idle /\ s.sent = sent
        /\ s.messages = c.stream.messages /\ s.behind = c.stream.behind
    BY <1>3, <1>6, <1>8 DEF WatchStream
  <1>10. PICK pending : pending = [c.pending EXCEPT ![q] = @ + 1]
    OBVIOUS
  <1>11. /\ pending \in [Query -> Int]
         /\ \A p \in Query : pending[p] = c.pending[p] + IF p = q THEN 1 ELSE 0
    BY <1>3, <1>10
  <1>12. d = [c EXCEPT !.pending = pending, !.stream = s]
    <2>1. PICK w : w = Wrote(c.stream)
      OBVIOUS
    <2>2. [w EXCEPT !.sent = Append(@, r)] = s
      BY <1>3, <1>4, <1>8, <2>1 DEF Wrote, WatchStream
    <2>3. d = [c EXCEPT !.pending[q] = @ + 1, !.stream = [w EXCEPT !.sent = Append(@, r)]]
      BY <1>1, <2>1 DEF SendRequest
    <2> QED BY <1>3, <1>10, <2>2, <2>3 DEF Sdk
  <1>13. /\ d \in Sdk /\ d.listeners = c.listeners /\ d.views = c.views
         /\ d.targets = c.targets /\ d.covers = c.covers /\ d.synced = c.synced
         /\ d.raised = c.raised /\ d.events = c.events /\ d.online = c.online
         /\ d.failed = c.failed /\ d.timer = c.timer
         /\ d.stream = s /\ d.pending = pending
    BY <1>3, <1>9, <1>11, <1>12 DEF Sdk
  <1>14. Answering(d, J)
    BY <1>13, SameAnswering
  <1>15. KeepTables(c, d)
    BY <1>13 DEF KeepTables
  <1>16. Linked(d) /\ IsOpen(d.stream) /\ (StillReset(d) <=> StillReset(c))
    BY <1>9, <1>13 DEF Linked, Wired, IsOpen, IsStarted, StillReset
  <1>17. Judged(d)
    BY <1>9, <1>13 DEF Judged
  <1>18. Counted(d)
    <2> SUFFICES ASSUME NEW p \in Query \ refused
                 PROVE  pending[p] = Count(sent, Requests(p))
                                     + Count(s.messages, Responses(p))
      BY <1>9, <1>13 DEF Counted
    <2>1. c.pending[p] = Count(c.stream.sent, Requests(p))
                         + Count(c.stream.messages, Responses(p))
      BY DEF Counted
    <2>2. Count(sent, Requests(p)) = Count(c.stream.sent, Requests(p))
                                     + IF r \in Requests(p) THEN 1 ELSE 0
      BY <1>2, <1>4, <1>5, CountAppend
    <2>3. /\ Count(c.stream.sent, Requests(p)) \in Nat
          /\ Count(c.stream.messages, Responses(p)) \in Nat
      BY <1>3, <1>5, StreamTypes, CountType
    <2> QED BY <1>2, <1>9, <1>11, <2>1, <2>2, <2>3
  <1>19. /\ \A j \in DOMAIN c.stream.sent :
                j \in DOMAIN sent /\ sent[j] = c.stream.sent[j]
         /\ \E j \in DOMAIN sent : sent[j] \in Requests(q)
    <2>1. Len(c.stream.sent) + 1 \in DOMAIN sent
      BY <1>7
    <2> QED BY <1>2, <1>6, <1>7, <2>1
  <1>20. ASSUME NEW Q, Promised(c, Q)
         PROVE  Promised(d, IF type = "watch" THEN Q \cup {q} ELSE Q \ {q})
    <2>1. /\ \A p : p # r.query /\ Due(c.stream, p) => Due(s, p)
          /\ r = [type |-> "watch", query |-> r.query] => Due(s, r.query)
      BY <1>2, <1>3, <1>4, <1>9, RequestAppended
    <2>2. r.query = q /\ (type = "watch" => r = [type |-> "watch", query |-> r.query])
      BY <1>1
    <2>3. \A p \in Q : Due(c.stream, p) \/ (p \in d.synced /\ ~d.timer)
      BY <1>13, <1>20 DEF Promised
    <2>4. CASE type = "watch"
      BY <1>13, <2>1, <2>2, <2>3, <2>4 DEF Promised
    <2>5. CASE type # "watch"
      BY <1>13, <2>1, <2>2, <2>3, <2>5 DEF Promised
    <2> QED BY <2>4, <2>5
  <1> QED BY <1>9, <1>13, <1>14, <1>15, <1>16, <1>17, <1>18, <1>19, <1>20

\* A fetch whose query is asked for again is guarded by its request.
LEMMA GuardedByRequest ==
  ASSUME NEW J, NEW f, NEW c, NEW d, Guarded(c, J \cup {f}),
         d.listeners = c.listeners, d.stream.messages = c.stream.messages,
         \A j \in DOMAIN c.stream.sent :
             j \in DOMAIN d.stream.sent /\ d.stream.sent[j] = c.stream.sent[j],
         \E j \in DOMAIN d.stream.sent : d.stream.sent[j] \in Requests(query[f])
  PROVE  Guarded(d, J)
  <1> SUFFICES ASSUME NEW g \in d.listeners \ J, NEW i \in DOMAIN d.stream.messages,
                      d.stream.messages[i].type = "current",
                      query[g] \in d.stream.messages[i].queries,
                      d.stream.messages[i].covers < g
               PROVE  \/ \E j \in DOMAIN d.stream.sent :
                            d.stream.sent[j] \in Requests(query[g])
                      \/ \E j \in DOMAIN d.stream.messages :
                            j > i /\ d.stream.messages[j] \in Responses(query[g])
    BY DEF Guarded
  <1>1. CASE g = f
    BY <1>1
  <1>2. CASE g # f
    BY <1>2 DEF Guarded
  <1> QED BY <1>1, <1>2

Consistent(c, J) ==
    /\ Answering(c, J) /\ Linked(c) /\ Started(c)
    /\ Judged(c) /\ Counted(c) /\ Guarded(c, J) /\ Promised(c, c.targets)

\* The same of a state whose events are on their way, where nobody is heralded.
Calm(c, J) ==
    /\ c \in Sdk /\ Covered(c, J) /\ Waiting(c) /\ Told(c, J) /\ Linked(c) /\ Started(c)
    /\ Judged(c) /\ Counted(c) /\ Guarded(c, J) /\ Promised(c, c.targets)

\* Fetch f has opened a view of query q, which is not watched yet.
Opening(c, J, f, q) ==
    /\ q \in Query /\ q = query[f]
    /\ Answering(c, J) /\ Linked(c) /\ Judged(c) /\ Counted(c)
    /\ Guarded(c, J \cup {f}) /\ Promised(c, c.targets)

\* Nobody listens to query q any more, which is still watched.
Closing(c, J, q) ==
    /\ Answering(c, J) /\ Linked(c) /\ Started(c)
    /\ Judged(c) /\ Counted(c) /\ Guarded(c, J) /\ Promised(c, c.targets \ {q})

LEMMA WatchFacts ==
  ASSUME Query1, NEW J, NEW f, NEW c, NEW q, Opening(c, J, f, q),
         NEW d, d = Watch(c, q)
  PROVE  /\ Consistent(d, J) /\ d.listeners = c.listeners /\ d.views = c.views
         /\ d.targets = c.targets \cup {q} /\ d.synced \subseteq c.synced
         /\ StillReset(d) => StillReset(c)
  <1>0. /\ q \in Query /\ q = query[f]
        /\ Answering(c, J) /\ Linked(c) /\ Judged(c) /\ Counted(c)
        /\ Guarded(c, J \cup {f}) /\ Promised(c, c.targets)
    BY DEF Opening
  <1>1. PICK e : e = [c EXCEPT !.targets = @ \cup {q}]
    OBVIOUS
  <1>2. c \in Sdk
    BY <1>0 DEF Answering
  <1>3. /\ e \in Sdk /\ e.listeners = c.listeners /\ e.views = c.views
        /\ e.targets = c.targets \cup {q} /\ e.covers = c.covers
        /\ e.synced = c.synced /\ e.raised = c.raised /\ e.events = c.events
        /\ e.online = c.online /\ e.failed = c.failed /\ e.timer = c.timer
        /\ e.stream = c.stream /\ e.pending = c.pending
    BY <1>0, <1>1, <1>2 DEF Sdk
  <1>4. Answering(e, J)
    BY <1>0, <1>3, SameAnswering
  <1>5. Wired(e) /\ Judged(e) /\ Counted(e) /\ (StillReset(e) <=> StillReset(c))
    BY <1>0, <1>3 DEF Linked, Wired, Judged, Counted, StillReset
  <1>6. e.stream \in WatchStream /\ e.stream.idle \in BOOLEAN
    BY <1>0, <1>3, StreamTypes DEF Sdk
  <1>7. d = IF ShouldStartWatchStream(e) THEN StartWatchStream(e)
            ELSE IF IsOpen(e.stream) THEN SendRequest(e, "watch", q) ELSE e
    BY <1>0, <1>1 DEF Watch
  <1>8. CASE ~IsStarted(e.stream)
    <2>1. d = StartWatchStream(e)
      BY <1>0, <1>3, <1>7, <1>8 DEF ShouldStartWatchStream
    <2>2. ~IsOpen(e.stream)
      BY <1>0, <1>8 DEF IsStarted, IsOpen
    <2>3. Silent(e.stream)
      BY <1>0, <1>3, <1>6, <2>2 DEF Silent, Linked, Wired
    <2>4. e.failed => e.online = "Offline" /\ e.timer = FALSE
      BY <1>0, <1>3, <1>5 DEF Wired, Sdk
    <2>5. /\ Answering(d, J) /\ KeepTables(e, d) /\ Linked(d)
          /\ IsStarted(d.stream) /\ ~IsOpen(d.stream) /\ ~StillReset(d)
      BY <1>0, <1>4, <1>8, <2>1, <2>3, <2>4, StartWatchStreamFacts
    <2>6. Judged(d) /\ Counted(d) /\ Guarded(d, J) /\ Promised(d, d.targets)
      BY <1>0, <2>5, QuietFacts
    <2> QED BY <1>0, <1>3, <2>5, <2>6 DEF Consistent, Started, KeepTables
  <1>9. CASE IsOpen(e.stream)
    <2>1. PICK type \in {"watch", "unwatch"} : type = "watch"
      OBVIOUS
    <2>2. d = SendRequest(e, type, q)
      BY <1>0, <1>7, <1>9, <2>1 DEF ShouldStartWatchStream, IsStarted, IsOpen
    <2>3. /\ Answering(d, J) /\ KeepTables(e, d) /\ Linked(d) /\ IsOpen(d.stream)
          /\ Judged(d) /\ Counted(d) /\ (StillReset(d) <=> StillReset(e))
          /\ d.stream.messages = e.stream.messages
          /\ \A j \in DOMAIN e.stream.sent :
                 j \in DOMAIN d.stream.sent /\ d.stream.sent[j] = e.stream.sent[j]
          /\ \E j \in DOMAIN d.stream.sent : d.stream.sent[j] \in Requests(q)
          /\ \A Q : Promised(e, Q) =>
                 Promised(d, IF type = "watch" THEN Q \cup {q} ELSE Q \ {q})
      BY <1>0, <1>4, <1>5, <1>9, <2>2, SendRequestFacts
    <2>4. Guarded(e, J \cup {f})
      BY <1>0, <1>3 DEF Guarded
    <2>5. Guarded(d, J)
      BY <1>0, <2>3, <2>4, GuardedByRequest DEF KeepTables
    <2>6. Started(d)
      BY <1>0, <2>3 DEF Started, IsStarted, IsOpen
    <2>7. Promised(d, d.targets)
      <3>1. Promised(e, c.targets)
        BY <1>0, <1>3 DEF Promised
      <3>2. Promised(d, c.targets \cup {q})
        BY <2>1, <2>3, <3>1
      <3> QED BY <1>3, <2>3, <3>2 DEF KeepTables
    <2> QED BY <1>0, <1>3, <1>5, <2>3, <2>5, <2>6, <2>7 DEF Consistent, KeepTables
  <1>10. CASE IsStarted(e.stream) /\ ~IsOpen(e.stream)
    <2>1. d = e
      BY <1>0, <1>7, <1>10 DEF ShouldStartWatchStream
    <2>2. Linked(d) /\ Started(d)
      BY <1>0, <1>3, <1>5, <1>10, <2>1 DEF Linked, Started
    <2>3. Guarded(d, J) /\ Promised(d, d.targets)
      BY <1>0, <1>10, <2>1, <2>2, QuietFacts
    <2> QED BY <1>0, <1>3, <1>4, <1>5, <2>1, <2>2, <2>3 DEF Consistent
  <1> QED BY <1>0, <1>8, <1>9, <1>10

LEMMA UnwatchFacts ==
  ASSUME Query1, NEW J, NEW c, NEW q \in Query, Closing(c, J, q),
         NEW d, d = Unwatch(c, q)
  PROVE  /\ Consistent(d, J) /\ d.listeners = c.listeners /\ d.views = c.views
         /\ d.targets = c.targets \ {q} /\ d.synced \subseteq c.synced
         /\ StillReset(d) => StillReset(c) \/ d.targets = {}
  <1>1. PICK e : e = [c EXCEPT !.targets = @ \ {q}]
    OBVIOUS
  <1>2. c \in Sdk
    BY DEF Closing, Answering
  <1>3. /\ e \in Sdk /\ e.listeners = c.listeners /\ e.views = c.views
        /\ e.targets = c.targets \ {q} /\ e.covers = c.covers
        /\ e.synced = c.synced /\ e.raised = c.raised /\ e.events = c.events
        /\ e.online = c.online /\ e.failed = c.failed /\ e.timer = c.timer
        /\ e.stream = c.stream /\ e.pending = c.pending
    BY <1>1, <1>2 DEF Sdk
  <1>4. /\ Answering(e, J) /\ Linked(e) /\ Started(e) /\ Judged(e) /\ Counted(e)
        /\ Guarded(e, J) /\ Promised(e, e.targets)
    <2>1. Answering(e, J)
      BY <1>3, SameAnswering DEF Closing
    <2>2. Linked(e) /\ Started(e)
      BY <1>3 DEF Closing, Linked, Wired, Started
    <2>3. Judged(e) /\ Counted(e) /\ Guarded(e, J)
      BY <1>3 DEF Closing, Judged, Counted, Guarded
    <2>4. Promised(e, e.targets)
      BY <1>3 DEF Closing, Promised
    <2> QED BY <2>1, <2>2, <2>3, <2>4
  <1>5. PICK g : g = IF IsOpen(e.stream) THEN SendRequest(e, "unwatch", q) ELSE e
    OBVIOUS
  <1>6. d = IF g.targets # {} THEN g
            ELSE IF IsOpen(e.stream) THEN [g EXCEPT !.stream = MarkIdle(@)]
            ELSE UpdateState(g, "Unknown")
    BY <1>1, <1>5 DEF Unwatch
  <1>7. StillReset(e) <=> StillReset(c)
    BY <1>3 DEF StillReset
  <1>8. CASE IsOpen(e.stream)
    <2>1. PICK type \in {"watch", "unwatch"} : type = "unwatch"
      OBVIOUS
    <2>2. g = SendRequest(e, type, q)
      BY <1>5, <1>8, <2>1
    <2>3. /\ Answering(g, J) /\ KeepTables(e, g) /\ Linked(g) /\ IsOpen(g.stream)
          /\ Judged(g) /\ Counted(g) /\ (StillReset(g) <=> StillReset(e))
          /\ g.stream.messages = e.stream.messages
          /\ \A j \in DOMAIN e.stream.sent :
                 j \in DOMAIN g.stream.sent /\ g.stream.sent[j] = e.stream.sent[j]
          /\ \A Q : Promised(e, Q) =>
                 Promised(g, IF type = "watch" THEN Q \cup {q} ELSE Q \ {q})
      BY <1>4, <1>8, <2>2, SendRequestFacts DEF Linked
    <2>4. Guarded(g, J)
      BY <1>4, <2>3 DEF Guarded, KeepTables
    <2>5. Started(g)
      BY <2>3 DEF Started, IsStarted, IsOpen
    <2>6. Promised(g, g.targets)
      <3>1. Promised(g, e.targets \ {q}) /\ e.targets \ {q} = e.targets
        BY <1>3, <1>4, <2>1, <2>3
      <3> QED BY <2>3, <3>1 DEF KeepTables
    <2>7. CASE g.targets # {}
      BY <1>3, <1>6, <1>7, <2>3, <2>4, <2>5, <2>6, <2>7 DEF Consistent, KeepTables
    <2>8. CASE g.targets = {}
      <3>1. PICK s : s = MarkIdle(g.stream)
        OBVIOUS
      <3>2. d = [g EXCEPT !.stream = s]
        BY <1>6, <1>8, <2>8, <3>1
      <3>3. g \in Sdk /\ g.stream \in WatchStream
        BY <2>3 DEF Answering, Sdk
      <3>4. /\ s \in WatchStream /\ s.state = g.stream.state /\ s.sent = g.stream.sent
            /\ s.messages = g.stream.messages /\ s.behind = g.stream.behind
        BY <3>1, <3>3 DEF MarkIdle, WatchStream, IsOpen
      <3>5. /\ d \in Sdk /\ d.listeners = g.listeners /\ d.views = g.views
            /\ d.targets = g.targets /\ d.covers = g.covers
            /\ d.synced = g.synced /\ d.raised = g.raised /\ d.events = g.events
            /\ d.online = g.online /\ d.failed = g.failed /\ d.timer = g.timer
            /\ d.stream = s /\ d.pending = g.pending
        BY <3>2, <3>3, <3>4 DEF Sdk
      <3>6. Answering(d, J)
        BY <2>3, <3>5, SameAnswering
      <3>7. Linked(d) /\ Started(d) /\ (StillReset(d) <=> StillReset(g))
        BY <2>3, <2>8, <3>4, <3>5 DEF Linked, Wired, Started, IsOpen, IsStarted,
                                      StillReset
      <3>8. Judged(d) /\ Counted(d) /\ Guarded(d, J)
        BY <2>3, <2>4, <3>4, <3>5 DEF Judged, Counted, Guarded, IsOpen
      <3>9. Promised(d, d.targets)
        BY <2>8, <3>5 DEF Promised
      <3> QED BY <1>3, <2>3, <2>8, <3>5, <3>6, <3>7, <3>8, <3>9 DEF Consistent, KeepTables
    <2> QED BY <2>7, <2>8
  <1>9. CASE ~IsOpen(e.stream)
    <2>1. g = e
      BY <1>5, <1>9
    <2>2. CASE g.targets # {}
      BY <1>3, <1>4, <1>6, <1>7, <2>1, <2>2 DEF Consistent
    <2>3. CASE g.targets = {}
      <3>1. PICK s0 : s0 = "Unknown" /\ s0 \in OnlineState
        BY DEF OnlineState
      <3>2. d = UpdateState(e, s0)
        BY <1>6, <1>9, <2>1, <2>3, <3>1
      <3>3. /\ Answering(d, J) /\ Same(e, d) /\ d.synced \subseteq e.synced
            /\ d.online = s0 /\ ~d.failed /\ ~d.timer
        BY <1>4, <3>1, <3>2, UpdateStateFacts
      <3>4. Linked(d) /\ Started(d)
        BY <1>4, <2>1, <2>3, <3>3 DEF Linked, Wired, Started, Same
      <3>5. Judged(d) /\ Counted(d) /\ Guarded(d, J) /\ Promised(d, d.targets)
        BY <1>9, <3>3, <3>4, QuietFacts DEF Same
      <3> QED BY <1>3, <2>1, <2>3, <3>3, <3>4, <3>5 DEF Consistent, Same
    <2> QED BY <2>2, <2>3
  <1> QED BY <1>8, <1>9
(***************************************************************************)
(* Listeners that come and go.                                             *)
(***************************************************************************)
\* Who comes to listen has neither listened nor been told before.
LEMMA NewcomerHeralded ==
  ASSUME NEW c, Heralded(c), c.events = <<>>, NEW f, f \notin c.listeners,
         f \notin sdk.raised \cup sdk.listeners, NEW e, e.listeners = c.listeners \cup {f},
         e.raised = c.raised, e.events = c.events, DOMAIN <<>> = {}
  PROVE  Heralded(e)
  <1>1. f \notin c.raised
    BY DEF Heralded
  <1>2. e.raised \subseteq sdk.raised \cup sdk.listeners \cup e.listeners
    BY DEF Heralded
  <1>3. ASSUME NEW g \in (sdk.listeners \cup e.listeners) \ sdk.raised, calls[g] = 0
        PROVE  g \in e.listeners \ e.raised
    <2>1. CASE g = f
      BY <1>1, <2>1
    <2>2. CASE g # f
      BY <1>3, <2>2 DEF Heralded
    <2> QED BY <2>1, <2>2
  <1> QED BY <1>2, <1>3 DEF Heralded

LEMMA JoinsQuery ==
  ASSUME Query1, NEW J, NEW c, Tables(c), Consistent(c, J), c.events = <<>>,
         NEW f \in Fetch \ c.listeners, f \notin sdk.raised \cup sdk.listeners,
         ListenersOf(c, query[f]) # {},
         NEW d, d = AddQueryListener(c, f)
  PROVE  /\ Consistent(d, J \cup {f}) /\ Tables(d)
         /\ d.listeners = c.listeners \cup {f} /\ (StillReset(d) <=> StillReset(c))
  <1>1. PICK K : K = J \cup {f}
    OBVIOUS
  <1>2. PICK e : e = [c EXCEPT !.listeners = @ \cup {f}]
    OBVIOUS
  <1>3. c \in Sdk /\ DOMAIN <<>> = {}
    BY EmptySeq DEF Consistent, Answering
  <1>4. /\ e \in Sdk /\ e.listeners = c.listeners \cup {f} /\ e.views = c.views
        /\ e.targets = c.targets /\ e.covers = c.covers /\ e.synced = c.synced
        /\ e.raised = c.raised /\ e.events = c.events /\ e.online = c.online
        /\ e.failed = c.failed /\ e.timer = c.timer
        /\ e.stream = c.stream /\ e.pending = c.pending
    BY <1>2, <1>3 DEF Sdk
  <1>5. Covered(e, K) /\ Told(e, K)
    BY <1>1, <1>3, <1>4 DEF Consistent, Answering, Covered, Told
  <1>6. Heralded(e)
    <2>1. Heralded(c)
      BY DEF Consistent, Answering
    <2> QED BY <1>3, <1>4, <2>1, NewcomerHeralded
  <1>7. d = OnViewSnapshot(e, {f}) /\ {f} \in SUBSET e.listeners
    BY <1>2, <1>4 DEF AddQueryListener
  <1>8. /\ d \in Sdk /\ Same(e, d) /\ Told(d, K)
        /\ d.raised = e.raised \cup {g \in {f} : \/ g \in e.raised
                                                 \/ query[g] \in e.synced
                                                 \/ e.online = "Offline"}
        /\ d.synced = e.synced
        /\ d.online = e.online /\ d.failed = e.failed /\ d.timer = e.timer
        /\ Heralded(d)
    BY <1>4, <1>5, <1>6, <1>7, OnViewSnapshotFacts
  <1>9. Covered(d, K)
    BY <1>5, <1>8 DEF Covered, Same
  <1>10. Waiting(d)
    <2> SUFFICES ASSUME NEW g \in d.listeners \ d.raised
                 PROVE  query[g] \notin d.synced /\ d.online # "Offline"
      BY DEF Waiting
    <2>1. CASE g = f
      BY <1>8, <2>1
    <2>2. CASE g # f
      <3>1. g \in c.listeners \ c.raised
        BY <1>4, <1>8, <2>2 DEF Same
      <3> QED BY <1>4, <1>8, <3>1 DEF Consistent, Answering, Waiting
    <2> QED BY <2>1, <2>2
  <1>11. /\ Linked(d) /\ Started(d) /\ Judged(d) /\ Counted(d)
         /\ Promised(d, d.targets)
    <2>1. Linked(d) /\ Started(d) /\ Judged(d) /\ Counted(d)
      BY <1>4, <1>8 DEF Consistent, Linked, Wired, Started, Judged, Counted, Same
    <2>2. Promised(d, d.targets)
      BY <1>4, <1>8 DEF Consistent, Promised, Same
    <2> QED BY <2>1, <2>2
  <1>12. Guarded(d, K)
    BY <1>1, <1>4, <1>8 DEF Consistent, Guarded, Same
  <1>13. Tables(d)
    <2>1. query[f] \in {query[g] : g \in c.listeners}
      BY DEF ListenersOf
    <2> QED BY <1>4, <1>8, <2>1 DEF Tables, Same
  <1>14. StillReset(d) <=> StillReset(c)
    BY <1>4, <1>8 DEF StillReset, Same
  <1> QED BY <1>1, <1>4, <1>8, <1>9, <1>10, <1>11, <1>12, <1>13, <1>14
          DEF Consistent, Answering, Same

LEMMA OpensQuery ==
  ASSUME Query1, NEW J, NEW c, Tables(c), Consistent(c, J), c.events = <<>>,
         NEW f \in Fetch \ c.listeners, f \notin sdk.raised \cup sdk.listeners,
         ListenersOf(c, query[f]) = {},
         NEW d, d = AddQueryListener(c, f)
  PROVE  /\ Consistent(d, J) /\ Tables(d)
         /\ d.listeners = c.listeners \cup {f} /\ (StillReset(d) => StillReset(c))
  <1>1. PICK q \in Query : q = query[f]
    BY DEF Query1
  <1>2. PICK a : a = [c EXCEPT !.listeners = @ \cup {f}]
    OBVIOUS
  <1>3. PICK b : b = [a EXCEPT !.views = @ \cup {q}, !.synced = @ \ {q}, !.covers[q] = 0]
    OBVIOUS
  <1>4. c \in Sdk /\ DOMAIN <<>> = {}
    BY EmptySeq DEF Consistent, Answering
  <1>5. /\ a \in Sdk /\ a.listeners = c.listeners \cup {f} /\ a.views = c.views
        /\ a.targets = c.targets /\ a.covers = c.covers /\ a.synced = c.synced
        /\ a.raised = c.raised /\ a.events = c.events /\ a.online = c.online
        /\ a.failed = c.failed /\ a.timer = c.timer
        /\ a.stream = c.stream /\ a.pending = c.pending
    BY <1>2, <1>4 DEF Sdk
  <1>6. /\ b.listeners = a.listeners /\ b.views = a.views \cup {q}
        /\ b.targets = a.targets /\ b.synced = a.synced \ {q}
        /\ b.covers = [a.covers EXCEPT ![q] = 0]
        /\ b.raised = a.raised /\ b.events = a.events /\ b.online = a.online
        /\ b.failed = a.failed /\ b.timer = a.timer
        /\ b.stream = a.stream /\ b.pending = a.pending
        /\ b \in Sdk
    <2>1. PICK covers : covers = [a.covers EXCEPT ![q] = 0]
      OBVIOUS
    <2>2. b = [a EXCEPT !.views = @ \cup {q}, !.synced = @ \ {q}, !.covers = covers]
      BY <1>3, <1>5, <2>1 DEF Sdk
    <2>3. covers \in [Query -> 0 .. MaxFetches]
      BY <1>5, <2>1, FetchesAssumption DEF Sdk
    <2> QED BY <1>5, <2>1, <2>2, <2>3 DEF Sdk
  <1>7. \A p \in Query : p # q => b.covers[p] = c.covers[p]
    BY <1>4, <1>5, <1>6 DEF Sdk
  <1>8. Covered(b, J)
    <2> SUFFICES ASSUME NEW g \in b.listeners \ J, query[g] \in b.synced
                 PROVE  g <= b.covers[query[g]]
      BY DEF Covered
    <2>1. query[g] # q /\ query[g] \in c.synced /\ g \in c.listeners
      BY <1>1, <1>5, <1>6
    <2>2. query[g] \in Query
      BY <1>4, <2>1 DEF Sdk
    <2> QED BY <1>7, <2>1, <2>2 DEF Consistent, Answering, Covered
  <1>9. Told(b, J) /\ Heralded(b)
    <2>1. Told(b, J)
      BY <1>4, <1>5, <1>6 DEF Told
    <2>2. Heralded(c)
      BY DEF Consistent, Answering
    <2>3. b.listeners = c.listeners \cup {f} /\ b.raised = c.raised /\ b.events = c.events
      BY <1>5, <1>6
    <2>4. Heralded(b)
      BY <1>4, <2>2, <2>3, NewcomerHeralded
    <2> QED BY <2>1, <2>4
  <1>10. PICK e : e = OnViewSnapshot(b, {f})
    OBVIOUS
  <1>11. d = Watch(e, q)
    BY <1>1, <1>2, <1>3, <1>10 DEF AddQueryListener
  <1>12. {f} \in SUBSET b.listeners
    BY <1>5, <1>6
  <1>13. /\ e \in Sdk /\ Same(b, e) /\ Told(e, J)
         /\ e.raised = b.raised \cup {g \in {f} : \/ g \in b.raised
                                                  \/ query[g] \in b.synced
                                                  \/ b.online = "Offline"}
         /\ e.synced = b.synced
         /\ e.online = b.online /\ e.failed = b.failed /\ e.timer = b.timer
         /\ Heralded(e)
    BY <1>6, <1>8, <1>9, <1>10, <1>12, OnViewSnapshotFacts
  <1>14. Covered(e, J)
    BY <1>8, <1>13 DEF Covered, Same
  <1>15. Waiting(e)
    <2> SUFFICES ASSUME NEW g \in e.listeners \ e.raised
                 PROVE  query[g] \notin e.synced /\ e.online # "Offline"
      BY DEF Waiting
    <2>1. CASE g = f
      BY <1>13, <2>1
    <2>2. CASE g # f
      <3>1. g \in c.listeners \ c.raised
        BY <1>5, <1>6, <1>13, <2>2 DEF Same
      <3> QED BY <1>5, <1>6, <1>13, <3>1 DEF Consistent, Answering, Waiting
    <2> QED BY <2>1, <2>2
  <1>16. Linked(e) /\ Judged(e) /\ Counted(e) /\ (StillReset(e) <=> StillReset(c))
    BY <1>5, <1>6, <1>13 DEF Consistent, Linked, Wired, Judged, Counted, StillReset, Same
  <1>17. Guarded(e, J \cup {f}) /\ Promised(e, e.targets)
    <2>1. Guarded(e, J \cup {f})
      BY <1>5, <1>6, <1>13 DEF Consistent, Guarded, Same
    <2>2. q \notin c.targets
      BY <1>1 DEF Tables, ListenersOf
    <2>3. /\ e.stream = c.stream /\ e.targets = c.targets /\ e.timer = c.timer
          /\ e.synced = c.synced \ {q}
      BY <1>5, <1>6, <1>13 DEF Same
    <2>4. Promised(e, e.targets)
      BY <2>2, <2>3 DEF Consistent, Promised
    <2> QED BY <2>1, <2>4
  <1>18. Answering(e, J)
    BY <1>13, <1>14, <1>15 DEF Answering
  <1>19. /\ Consistent(d, J) /\ d.listeners = e.listeners /\ d.views = e.views
         /\ d.targets = e.targets \cup {q} /\ d.synced \subseteq e.synced
         /\ StillReset(d) => StillReset(e)
    <2>1. Opening(e, J, f, q)
      BY <1>1, <1>16, <1>17, <1>18 DEF Opening
    <2> QED BY <1>11, <2>1, WatchFacts
  <1>20. Tables(d)
    <2>1. /\ d.listeners = c.listeners \cup {f} /\ d.views = c.views \cup {q}
          /\ d.targets = c.targets \cup {q} /\ d.synced \subseteq c.synced
      BY <1>5, <1>6, <1>13, <1>19 DEF Same
    <2>2. {query[g] : g \in d.listeners} = {query[g] : g \in c.listeners} \cup {q}
      BY <1>1, <2>1
    <2> QED BY <2>1, <2>2 DEF Tables
  <1> QED BY <1>5, <1>6, <1>13, <1>16, <1>19, <1>20 DEF Same

LEMMA RemoveFacts ==
  ASSUME Query1, NEW J, NEW c, Tables(c), Consistent(c, J), c.events = <<>>,
         c.raised \subseteq sdk.raised, NEW f \in Fetch, calls[f] # 0, NEW d, d = RemoveQueryListener(c, f)
  PROVE  /\ Consistent(d, J) /\ Tables(d) /\ d.listeners = c.listeners \ {f}
         /\ StillReset(d) => StillReset(c) \/ d.targets = {}
  <1>1. PICK q \in Query : q = query[f]
    BY DEF Query1
  <1>2. PICK a : a = [c EXCEPT !.listeners = @ \ {f}]
    OBVIOUS
  <1>3. c \in Sdk /\ DOMAIN <<>> = {}
    BY EmptySeq DEF Consistent, Answering
  <1>4. /\ a \in Sdk /\ a.listeners = c.listeners \ {f} /\ a.views = c.views
        /\ a.targets = c.targets /\ a.covers = c.covers /\ a.synced = c.synced
        /\ a.raised = c.raised /\ a.events = c.events /\ a.online = c.online
        /\ a.failed = c.failed /\ a.timer = c.timer
        /\ a.stream = c.stream /\ a.pending = c.pending
    BY <1>2, <1>3 DEF Sdk
  <1>5. CASE f \in c.listeners /\ ListenersOf(a, q) = {}
    <2>1. PICK b : b = [a EXCEPT !.views = @ \ {q}, !.synced = @ \ {q}]
      OBVIOUS
    <2>2. d = Unwatch(b, q)
      BY <1>1, <1>2, <1>5, <2>1 DEF RemoveQueryListener
    <2>3. /\ b \in Sdk /\ b.listeners = c.listeners \ {f} /\ b.views = c.views \ {q}
          /\ b.targets = c.targets /\ b.covers = c.covers /\ b.synced = c.synced \ {q}
          /\ b.raised = c.raised /\ b.events = c.events /\ b.online = c.online
          /\ b.failed = c.failed /\ b.timer = c.timer
          /\ b.stream = c.stream /\ b.pending = c.pending
      BY <1>4, <2>1 DEF Sdk
    <2>4. Answering(b, J)
      <3>1. Covered(b, J) /\ Waiting(b) /\ Told(b, J)
        BY <1>3, <2>3 DEF Consistent, Answering, Covered, Waiting, Told
      <3>2. Heralded(b)
        BY <2>3 DEF Consistent, Answering, Heralded
      <3> QED BY <2>3, <3>1, <3>2 DEF Answering
    <2>5. /\ Linked(b) /\ Started(b) /\ Judged(b) /\ Counted(b) /\ Guarded(b, J)
          /\ Promised(b, b.targets \ {q})
      <3>1. Linked(b) /\ Started(b) /\ Judged(b) /\ Counted(b) /\ Guarded(b, J)
        BY <2>3 DEF Consistent, Linked, Wired, Started, Judged, Counted, Guarded
      <3>2. Promised(b, b.targets \ {q})
        BY <2>3 DEF Consistent, Promised
      <3> QED BY <3>1, <3>2
    <2>6. Closing(b, J, q) /\ (StillReset(b) <=> StillReset(c))
      BY <2>3, <2>4, <2>5 DEF Closing, StillReset
    <2>7. /\ Consistent(d, J) /\ d.listeners = b.listeners /\ d.views = b.views
          /\ d.targets = b.targets \ {q} /\ d.synced \subseteq b.synced
          /\ StillReset(d) => StillReset(b) \/ d.targets = {}
      BY <2>2, <2>6, UnwatchFacts
    <2>8. {query[g] : g \in d.listeners} = {query[g] : g \in c.listeners} \ {q}
      <3>1. \A g \in c.listeners \ {f} : query[g] # q
        BY <1>4, <1>5 DEF ListenersOf
      <3> QED BY <1>1, <1>5, <2>3, <2>7, <3>1
    <2>9. Tables(d)
      BY <2>3, <2>7, <2>8 DEF Tables
    <2> QED BY <2>3, <2>6, <2>7, <2>9
  <1>6. CASE ~(f \in c.listeners /\ ListenersOf(a, q) = {})
    <2>1. d = a
      BY <1>1, <1>2, <1>6 DEF RemoveQueryListener
    <2>2. Answering(a, J)
      <3>1. Covered(a, J) /\ Waiting(a) /\ Told(a, J)
        BY <1>3, <1>4 DEF Consistent, Answering, Covered, Waiting, Told
      <3>2. Heralded(a)
        BY <1>4 DEF Consistent, Answering, Heralded
      <3> QED BY <1>4, <3>1, <3>2 DEF Answering
    <2>3. /\ Linked(a) /\ Started(a) /\ Judged(a) /\ Counted(a) /\ Guarded(a, J)
          /\ Promised(a, a.targets)
      <3>1. Linked(a) /\ Started(a) /\ Judged(a) /\ Counted(a) /\ Guarded(a, J)
        BY <1>4 DEF Consistent, Linked, Wired, Started, Judged, Counted, Guarded
      <3>2. Promised(a, a.targets)
        BY <1>4 DEF Consistent, Promised
      <3> QED BY <3>1, <3>2
    <2>4. {query[g] : g \in a.listeners} = {query[g] : g \in c.listeners}
      <3>1. CASE f \notin c.listeners
        BY <1>4, <3>1
      <3>2. CASE f \in c.listeners
        <4>1. PICK h \in c.listeners \ {f} : query[h] = q
          BY <1>4, <1>6, <3>2 DEF ListenersOf
        <4> QED BY <1>1, <1>4, <4>1
      <3> QED BY <3>1, <3>2
    <2>5. Tables(a)
      BY <1>4, <2>4 DEF Tables
    <2> QED BY <1>4, <2>1, <2>2, <2>3, <2>5 DEF Consistent, StillReset
  <1> QED BY <1>5, <1>6
(***************************************************************************)
(* The stream opens, the pauses end.                                       *)
(***************************************************************************)
LEMMA WatchesFacts ==
  ASSUME Query1, NEW c \in Sdk, Tables(c), NEW watches,
         watches = SetToSeq({[type |-> "watch", query |-> q] : q \in c.targets})
  PROVE  /\ watches \in Seq(Request)
         /\ \A p \in Query :
                Count(watches, Requests(p)) = IF p \in c.targets THEN 1 ELSE 0
         /\ \A p \in c.targets : WatchLast(watches, p)
  <1>1. PICK W : W = {[type |-> "watch", query |-> q] : q \in c.targets}
    OBVIOUS
  <1>2. c.listeners \in SUBSET Fetch /\ c.targets \in SUBSET Query
    BY DEF Sdk
  <1>3. IsFiniteSet(W)
    <2>1. PICK f : f = [g \in c.listeners |-> [type |-> "watch", query |-> query[g]]]
      OBVIOUS
    <2>2. f \in Surjection(c.listeners, W)
      <3>1. \A g \in c.listeners : query[g] \in c.targets
        BY DEF Tables
      <3>2. \A w \in W : \E g \in c.listeners : w = [type |-> "watch", query |-> query[g]]
        BY <1>1 DEF Tables
      <3>3. f \in [c.listeners -> W]
        BY <1>1, <2>1, <3>1
      <3> QED BY <2>1, <3>2, <3>3 DEF Surjection
    <2>3. IsFiniteSet(c.listeners)
      <3>1. IsFiniteSet(1 .. MaxFetches) /\ c.listeners \in SUBSET (1 .. MaxFetches)
        BY <1>2, FetchesAssumption, IntervalFinite DEF Fetch
      <3> QED BY <3>1, FS_Subset
    <2> QED BY <2>2, <2>3, FS_Surjection
  <1>4. watches \in Seq(W) /\ ToSet(watches) = W /\ IsInjective(watches)
    BY <1>1, <1>3, SetToSeqFacts
  <1>5. W \subseteq Request
    BY <1>1, <1>2 DEF Request
  <1>6. watches \in Seq(Request)
    BY <1>4, <1>5, SeqOfSubset
  <1>7. ASSUME NEW p \in Query
        PROVE  Count(watches, Requests(p)) = IF p \in c.targets THEN 1 ELSE 0
    <2>1. PICK w : w = [type |-> "watch", query |-> p]
      OBVIOUS
    <2>2. W \cap Requests(p) \subseteq {w} /\ w \in Requests(p)
      BY <1>1, <2>1 DEF Requests
    <2>3. w \in W <=> p \in c.targets
      BY <1>1, <2>1
    <2>4. Count(watches, Requests(p)) = IF w \in ToSet(watches) \cap Requests(p) THEN 1 ELSE 0
      BY <1>4, <2>2, CountOnce
    <2> QED BY <1>4, <2>2, <2>3, <2>4
  <1>8. ASSUME NEW p \in c.targets
        PROVE  WatchLast(watches, p)
    <2>1. [type |-> "watch", query |-> p] \in ToSet(watches)
      BY <1>1, <1>4
    <2>2. PICK j \in DOMAIN watches : watches[j] = [type |-> "watch", query |-> p]
      BY <2>1 DEF ToSet
    <2>3. Len(watches) \in Nat /\ DOMAIN watches = 1 .. Len(watches)
      BY <1>4, LenProperties
    <2>4. ASSUME NEW k \in DOMAIN watches, k > j, watches[k].query = p
          PROVE  FALSE
      <3>1. watches[k] \in W
        BY <1>4 DEF ToSet
      <3>2. watches[k] = watches[j]
        <4>1. PICK q \in c.targets : watches[k] = [type |-> "watch", query |-> q]
          BY <1>1, <3>1
        <4>2. q = p
          BY <2>4, <4>1
        <4> QED BY <2>2, <4>1, <4>2
      <3>3. k = j
        BY <1>4, <3>2 DEF IsInjective
      <3> QED BY <2>3, <2>4, <3>3
    <2> QED BY <2>2, <2>4 DEF WatchLast
  <1> QED BY <1>6, <1>7, <1>8

LEMMA OpenFacts ==
  ASSUME Query1, NEW J, NEW c, Tables(c), Consistent(c, J),
         c.stream.state = "Starting",
         NEW d, d = OnWatchStreamOpen([c EXCEPT !.stream = Opened(@)])
  PROVE  /\ Consistent(d, J) /\ Tables(d) /\ d.listeners = c.listeners
         /\ StillReset(d) => StillReset(c)
  <1>1. PICK watches : watches = SetToSeq({[type |-> "watch", query |-> q] : q \in c.targets})
    OBVIOUS
  <1>2. /\ c \in Sdk /\ c.stream \in WatchStream /\ c.stream.idle \in BOOLEAN
        /\ ~IsOpen(c.stream) /\ DOMAIN <<>> = {}
    BY EmptySeq DEF Consistent, Answering, Sdk, WatchStream, IsOpen
  <1>3. /\ watches \in Seq(Request)
        /\ \A p \in Query :
               Count(watches, Requests(p)) = IF p \in c.targets THEN 1 ELSE 0
        /\ \A p \in c.targets : WatchLast(watches, p)
    BY <1>1, <1>2, WatchesFacts
  <1>4. PICK a : a = [c EXCEPT !.stream = Opened(@)]
    OBVIOUS
  <1>5. /\ a.targets = c.targets /\ a.pending = c.pending /\ a.stream = Opened(c.stream)
        /\ a = [c EXCEPT !.stream = a.stream]
    BY <1>2, <1>4 DEF Sdk
  <1>6. PICK pending : pending = [q \in Query |-> c.pending[q] + IF q \in c.targets THEN 1 ELSE 0]
    OBVIOUS
  <1>7. PICK s : s = [Opened(c.stream) EXCEPT !.sent = watches]
    OBVIOUS
  <1>8. d = [a EXCEPT !.pending = pending, !.stream = s]
    <2>1. d = [a EXCEPT !.pending = [q \in Query |-> @[q] + IF q \in a.targets THEN 1 ELSE 0],
                        !.stream = [@ EXCEPT !.sent = watches]]
      BY <1>1, <1>4, <1>5 DEF OnWatchStreamOpen
    <2> QED BY <1>2, <1>4, <1>5, <1>6, <1>7, <2>1 DEF Sdk
  <1>9. /\ s \in WatchStream /\ s.state = "Open" /\ s.sent = watches
        /\ s.messages = c.stream.messages /\ s.behind = c.stream.behind
        /\ s.idle = c.stream.idle
    BY <1>2, <1>3, <1>7 DEF Opened, WatchStream, StreamState
  <1>10. c.pending = [q \in Query |-> 0] /\ c.stream.messages = <<>> /\ ~c.stream.idle
         /\ c.stream.behind = {}
    BY <1>2 DEF Consistent, Linked, Wired
  <1>11. /\ pending \in [Query -> Int]
         /\ \A q \in Query : pending[q] = IF q \in c.targets THEN 1 ELSE 0
    BY <1>6, <1>10
  <1>12. /\ d \in Sdk /\ d.listeners = c.listeners /\ d.views = c.views
         /\ d.targets = c.targets /\ d.covers = c.covers /\ d.synced = c.synced
         /\ d.raised = c.raised /\ d.events = c.events /\ d.online = c.online
         /\ d.failed = c.failed /\ d.timer = c.timer
         /\ d.stream = s /\ d.pending = pending
    BY <1>2, <1>4, <1>8, <1>9, <1>11 DEF Sdk
  <1>13. Answering(d, J)
    BY <1>12, SameAnswering DEF Consistent
  <1>14. Linked(d) /\ Started(d) /\ (StillReset(d) => StillReset(c))
    <2>1. IsStarted(c.stream) /\ IsOpen(s) /\ IsStarted(s) /\ s.state \notin {"Starting", "Backoff"}
      BY <1>9 DEF IsStarted, IsOpen
    <2> QED BY <1>9, <1>10, <1>12, <2>1 DEF Consistent, Linked, Wired, Started, StillReset
  <1>15. Judged(d) /\ Guarded(d, J)
    BY <1>2, <1>9, <1>10, <1>12 DEF Judged, Guarded
  <1>16. Counted(d)
    <2> SUFFICES ASSUME NEW p \in Query \ refused
                 PROVE  pending[p] = Count(watches, Requests(p)) + Count(<<>>, Responses(p))
      BY <1>9, <1>10, <1>12 DEF Counted
    <2> QED BY <1>3, <1>11, CountEmpty
  <1>17. Tables(d)
    BY <1>12 DEF Tables
  <1>18. Promised(d, d.targets)
    BY <1>3, <1>9, <1>12 DEF Promised, Due
  <1> QED BY <1>12, <1>13, <1>14, <1>15, <1>16, <1>17, <1>18 DEF Consistent

LEMMA BackoffFacts ==
  ASSUME NEW J, NEW c, Tables(c), Consistent(c, J), c.stream.state = "Backoff",
         NEW d, d = [c EXCEPT !.stream = BackoffElapsed(@)]
  PROVE  /\ Consistent(d, J) /\ Tables(d) /\ d.listeners = c.listeners
         /\ StillReset(d) => StillReset(c)
  <1>1. PICK s : s = BackoffElapsed(c.stream)
    OBVIOUS
  <1>2. c \in Sdk /\ c.stream \in WatchStream
    BY DEF Consistent, Answering, Sdk
  <1>3. /\ s \in WatchStream /\ s.state = "Starting" /\ s.sent = c.stream.sent
        /\ s.messages = c.stream.messages /\ s.behind = c.stream.behind
        /\ s.idle = c.stream.idle
    BY <1>1, <1>2 DEF BackoffElapsed, WatchStream, StreamState
  <1>4. /\ d \in Sdk /\ d.listeners = c.listeners /\ d.views = c.views
        /\ d.targets = c.targets /\ d.covers = c.covers /\ d.synced = c.synced
        /\ d.raised = c.raised /\ d.events = c.events /\ d.online = c.online
        /\ d.failed = c.failed /\ d.timer = c.timer
        /\ d.stream = s /\ d.pending = c.pending
    BY <1>1, <1>2, <1>3 DEF Sdk
  <1>5. IsStarted(c.stream) /\ ~IsOpen(c.stream) /\ IsStarted(s) /\ ~IsOpen(s)
    BY <1>3 DEF IsStarted, IsOpen
  <1>6. Answering(d, J)
    BY <1>4, SameAnswering DEF Consistent
  <1>7. Linked(d) /\ Started(d) /\ (StillReset(d) => StillReset(c))
    BY <1>3, <1>4, <1>5 DEF Consistent, Linked, Wired, Started, StillReset
  <1>8. Judged(d) /\ Counted(d) /\ Guarded(d, J) /\ Promised(d, d.targets)
    BY <1>4, <1>5, <1>7, QuietFacts
  <1> QED BY <1>4, <1>6, <1>7, <1>8 DEF Consistent, Tables

LEMMA TimerFacts ==
  ASSUME Query1, NEW J, NEW c, Tables(c), Consistent(c, J), c.timer,
         NEW d, d = Broadcast([c EXCEPT !.timer = FALSE], "Offline")
  PROVE  /\ Consistent(d, J) /\ Tables(d) /\ d.listeners = c.listeners
         /\ ~StillReset(d)
  <1>1. PICK a : a = [c EXCEPT !.timer = FALSE]
    OBVIOUS
  <1>2. c \in Sdk
    BY DEF Consistent, Answering
  <1>3. /\ a \in Sdk /\ a.listeners = c.listeners /\ a.views = c.views
        /\ a.targets = c.targets /\ a.covers = c.covers /\ a.synced = c.synced
        /\ a.raised = c.raised /\ a.events = c.events /\ a.online = c.online
        /\ a.failed = c.failed /\ ~a.timer
        /\ a.stream = c.stream /\ a.pending = c.pending
    BY <1>1, <1>2 DEF Sdk
  <1>4. Answering(a, J)
    BY <1>3, SameAnswering DEF Consistent
  <1>5. PICK s0 : s0 = "Offline" /\ s0 \in OnlineState
    BY DEF OnlineState
  <1>6. d = Broadcast(a, s0) /\ s0 \in OnlineState
    BY <1>1, <1>5
  <1>7. /\ Answering(d, J) /\ Same(a, d) /\ d.synced \subseteq a.synced
        /\ d.online = s0 /\ d.failed = a.failed /\ d.timer = a.timer
    BY ONLY Query1, <1>4, <1>6, BroadcastFacts
  <1>8. /\ Linked(d) /\ Started(d) /\ Judged(d) /\ Counted(d) /\ Guarded(d, J)
        /\ Promised(d, d.targets)
    <2>1. Linked(d) /\ Started(d)
      BY <1>3, <1>5, <1>7 DEF Consistent, Linked, Wired, Started, Same
    <2>2. /\ d.stream = c.stream /\ d.pending = c.pending /\ d.covers = c.covers
          /\ d.listeners = c.listeners /\ d.targets = c.targets
      BY <1>3, <1>7 DEF Same
    <2>3. Judged(c) /\ Counted(c) /\ Guarded(c, J)
      BY DEF Consistent
    <2>4. Judged(d)
      BY ONLY <2>2, <2>3 DEF Judged
    <2>5. Counted(d)
      BY ONLY <2>2, <2>3 DEF Counted
    <2>6. Guarded(d, J)
      BY ONLY <2>2, <2>3 DEF Guarded
    <2>7. Promised(c, c.targets)
      BY DEF Consistent
    <2>8. Promised(d, d.targets)
      BY ONLY <2>2, <2>7, c.timer DEF Promised
    <2> QED BY <2>1, <2>4, <2>5, <2>6, <2>8
  <1>9. ~StillReset(d)
    BY <1>5, <1>7 DEF StillReset
  <1>10. Tables(d) /\ d.listeners = c.listeners
    BY <1>3, <1>7 DEF Tables, Same
  <1> QED BY <1>7, <1>8, <1>9, <1>10 DEF Consistent
(***************************************************************************)
(* Messages of the server.                                                 *)
(***************************************************************************)

\* What the server owes query q, or message m says of it.
Heeded(g, m, q) ==
    \/ Due(g.stream, q) \/ q \in g.synced
    \/ /\ m.type = "current" /\ q \in m.queries /\ NoRequest(g.stream.sent, q)
       /\ \A k \in DOMAIN g.stream.messages : g.stream.messages[k] \notin Responses(q)
    \/ m.type = "error" /\ m.query = q

\* The message m has been taken from the list, and the phone is known to be on
\* line.  If m is too old for a listener, an answer for its query is missing.
Reading(g, J, m) ==
    /\ Tables(g) /\ Answering(g, J) /\ Linked(g) /\ Started(g) /\ Judged(g)
    /\ Guarded(g, J) /\ IsOpen(g.stream) /\ g.online = "Online" /\ g.events = <<>>
    /\ m \in Message
    /\ m.type = "error" => m.query \in refused
    /\ m.type = "current" =>
          /\ m.queries \cap refused = {}
          /\ \A f \in g.listeners \ J :
                query[f] \in m.queries /\ g.pending[query[f]] = 0 => f <= m.covers
    /\ \A p \in Query \ refused :
          g.pending[p] = Count(g.stream.sent, Requests(p))
                         + Count(g.stream.messages, Responses(p))
                         + IF m \in Responses(p) THEN 1 ELSE 0
    /\ \A q \in g.targets : Heeded(g, m, q)

\* Taking a message from the list disturbs no other promise.
LEMMA MessageTaken ==
  ASSUME NEW s \in WatchStream, s.messages # <<>>, NEW m, m = Head(s.messages),
         NEW t, t.sent = s.sent, t.behind = s.behind, t.messages = Tail(s.messages),
         NEW q, Due(s, q)
  PROVE  \/ Due(t, q)
         \/ /\ m.type = "current" /\ q \in m.queries /\ NoRequest(t.sent, q)
            /\ \A k \in DOMAIN t.messages : t.messages[k] \notin Responses(q)
         \/ m.type = "error" /\ m.query = q
  <1>1. s.messages \in Seq(Message)
    BY StreamTypes
  <1>2. PICK n \in Nat \ {0} : n = Len(s.messages)
    BY <1>1, EmptySeq, LenProperties
  <1>3. /\ t.messages \in Seq(Message) /\ Len(t.messages) = n - 1 /\ m = s.messages[1]
        /\ \A i \in 1 .. n - 1 : t.messages[i] = s.messages[i + 1]
    BY <1>1, <1>2, HeadTailProperties
  <1>4. DOMAIN t.messages = 1 .. n - 1 /\ DOMAIN s.messages = 1 .. n
    BY <1>1, <1>2, <1>3, LenProperties
  <1>5. \A k \in DOMAIN t.messages :
           k + 1 \in DOMAIN s.messages /\ t.messages[k] = s.messages[k + 1] /\ k + 1 > 1
    BY <1>3, <1>4
  <1>6. \A i \in DOMAIN s.messages : i # 1 =>
           /\ i - 1 \in DOMAIN t.messages /\ t.messages[i - 1] = s.messages[i]
           /\ \A k \in DOMAIN t.messages : k > i - 1 => k + 1 > i
    <2> TAKE i \in DOMAIN s.messages
    <2> HAVE i # 1
    <2>1. i - 1 \in 1 .. n - 1 /\ (i - 1) + 1 = i
      BY <1>4
    <2>2. \A k \in 1 .. n - 1 : k > i - 1 => k + 1 > i
      BY <1>4
    <2> QED BY <1>3, <1>4, <2>1, <2>2
  <1>7. CASE WatchLast(s.sent, q)
    BY <1>7 DEF Due
  <1>8. CASE NoRequest(s.sent, q) /\ q \in s.behind
    BY <1>8 DEF Due
  <1>9. CASE NoRequest(s.sent, q) /\ CurrentLast(s.messages, q)
    <2>1. PICK i \in DOMAIN s.messages :
             /\ s.messages[i].type = "current" /\ q \in s.messages[i].queries
             /\ \A k \in DOMAIN s.messages : k > i => s.messages[k] \notin Responses(q)
      BY <1>9 DEF CurrentLast
    <2>2. CASE i = 1
      <3>1. \A k \in DOMAIN t.messages : t.messages[k] \notin Responses(q)
        BY <1>5, <2>1, <2>2
      <3> QED BY <1>3, <1>9, <2>1, <2>2, <3>1
    <2>3. CASE i # 1
      <3>1. \A k \in DOMAIN t.messages : k > i - 1 => t.messages[k] \notin Responses(q)
        BY <1>5, <1>6, <2>1, <2>3
      <3>2. CurrentLast(t.messages, q)
        BY <1>6, <2>1, <2>3, <3>1 DEF CurrentLast
      <3> QED BY <1>9, <3>2 DEF Due
    <2> QED BY <2>2, <2>3
  <1>10. CASE Refusal(s.messages, q)
    <2>1. PICK i \in DOMAIN s.messages :
             s.messages[i].type = "error" /\ s.messages[i].query = q
      BY <1>10 DEF Refusal
    <2>2. CASE i = 1
      BY <1>3, <2>1, <2>2
    <2>3. CASE i # 1
      <3>1. Refusal(t.messages, q)
        BY <1>6, <2>1, <2>3 DEF Refusal
      <3> QED BY <3>1 DEF Due
    <2> QED BY <2>2, <2>3
  <1> QED BY <1>7, <1>8, <1>9, <1>10 DEF Due

LEMMA ReadingFacts ==
  ASSUME Query1, NEW J, NEW c, Tables(c), Consistent(c, J), c.events = <<>>,
         c.stream.messages # <<>>, NEW m, m = Head(c.stream.messages),
         NEW g, g = UpdateState([c EXCEPT !.stream.messages = Tail(@)], "Online")
  PROVE  Reading(g, J, m) /\ g.listeners = c.listeners
  <1>1. PICK s : s = [c.stream EXCEPT !.messages = Tail(@)]
    OBVIOUS
  <1>2. c \in Sdk /\ c.stream \in WatchStream
    BY DEF Consistent, Answering, Sdk
  <1>3. c.stream.sent \in Seq(Request) /\ c.stream.messages \in Seq(Message)
    BY <1>2, StreamTypes
  <1>4. PICK a : a = [c EXCEPT !.stream = s]
    OBVIOUS
  <1>5. [c EXCEPT !.stream.messages = Tail(@)] = a
    BY <1>1, <1>2, <1>4 DEF Sdk
  <1>6. /\ Len(c.stream.messages) \in Nat \ {0}
        /\ DOMAIN c.stream.messages = 1 .. Len(c.stream.messages)
        /\ m = c.stream.messages[1] /\ m \in Message
    BY <1>3, EmptySeq, LenProperties, HeadTailProperties
  <1>7. /\ s \in WatchStream /\ s.state = c.stream.state /\ s.sent = c.stream.sent
        /\ s.messages = Tail(c.stream.messages) /\ s.behind = c.stream.behind
        /\ s.idle = c.stream.idle
    <2>1. Tail(c.stream.messages) \in Seq(Message)
      BY <1>3, HeadTailProperties
    <2> QED BY <1>1, <1>2, <2>1 DEF WatchStream
  <1>8. /\ Len(s.messages) = Len(c.stream.messages) - 1
        /\ DOMAIN s.messages = 1 .. Len(c.stream.messages) - 1
        /\ \A i \in 1 .. Len(c.stream.messages) - 1 :
               s.messages[i] = c.stream.messages[i + 1]
    <2>1. /\ Len(s.messages) = Len(c.stream.messages) - 1 /\ s.messages \in Seq(Message)
          /\ \A i \in 1 .. Len(c.stream.messages) - 1 :
                 s.messages[i] = c.stream.messages[i + 1]
      BY <1>3, <1>7, HeadTailProperties
    <2> QED BY <2>1, LenProperties
  <1>9. /\ a \in Sdk /\ a.listeners = c.listeners /\ a.views = c.views
        /\ a.targets = c.targets /\ a.covers = c.covers /\ a.synced = c.synced
        /\ a.raised = c.raised /\ a.events = c.events /\ a.online = c.online
        /\ a.failed = c.failed /\ a.timer = c.timer /\ a.pending = c.pending
        /\ a.stream = s
    BY <1>2, <1>4, <1>7 DEF Sdk
  <1>10. Answering(a, J)
    BY <1>9, SameAnswering DEF Consistent
  <1>11. PICK s0 : s0 = "Online" /\ s0 \in OnlineState
    BY DEF OnlineState
  <1>12. g = UpdateState(a, s0)
    BY <1>5, <1>11
  <1>13. /\ Answering(g, J) /\ Same(a, g) /\ g.synced \subseteq a.synced
         /\ g.online = s0 /\ ~g.failed /\ ~g.timer
    BY ONLY Query1, <1>10, <1>11, <1>12, UpdateStateFacts
  <1>14. g.events = <<>> /\ g.synced = c.synced
    <2>1. PICK b : b = [a EXCEPT !.timer = FALSE, !.failed = FALSE]
      OBVIOUS
    <2>2. b \in Sdk /\ b.events = <<>> /\ b.synced = c.synced
      BY <1>9, <2>1 DEF Sdk
    <2>3. g = IF s0 = b.online THEN b ELSE [b EXCEPT !.online = s0]
      BY <1>11, <1>12, <2>1 DEF UpdateState, Broadcast
    <2> QED BY <2>2, <2>3 DEF Sdk
  <1>15. /\ g.listeners = c.listeners /\ g.views = c.views /\ g.targets = c.targets
         /\ g.pending = c.pending /\ g.stream = s
    BY <1>9, <1>13 DEF Same
  <1>16. IsOpen(g.stream)
    BY <1>7, <1>15 DEF Consistent, Linked, Wired, IsOpen
  <1>17. Tables(g)
    BY <1>9, <1>13, <1>15 DEF Tables
  <1>18. Linked(g) /\ Started(g)
    BY <1>7, <1>13, <1>15, <1>16 DEF Consistent, Linked, Wired, Started, IsOpen, IsStarted
  <1>19. Judged(g)
    <2>1. \A i \in DOMAIN s.messages :
             i + 1 \in DOMAIN c.stream.messages /\ s.messages[i] = c.stream.messages[i + 1]
      BY <1>6, <1>8
    <2>2. /\ c.stream.behind \cap refused = {}
          /\ \A i \in DOMAIN c.stream.messages :
                /\ c.stream.messages[i].type = "current" =>
                      c.stream.messages[i].queries \cap refused = {}
                /\ c.stream.messages[i].type = "error" =>
                      c.stream.messages[i].query \in refused
      BY DEF Consistent, Judged
    <2>3. ASSUME NEW i \in DOMAIN s.messages
          PROVE  /\ s.messages[i].type = "current" => s.messages[i].queries \cap refused = {}
                 /\ s.messages[i].type = "error" => s.messages[i].query \in refused
      BY <2>1, <2>2, <2>3
    <2> QED BY <1>7, <1>15, <2>2, <2>3 DEF Judged
  <1>20. Guarded(g, J)
    <2> SUFFICES ASSUME NEW f \in c.listeners \ J, NEW i \in DOMAIN s.messages,
                        s.messages[i].type = "current",
                        query[f] \in s.messages[i].queries, s.messages[i].covers < f
                 PROVE  \/ \E j \in DOMAIN s.sent : s.sent[j] \in Requests(query[f])
                        \/ \E j \in DOMAIN s.messages :
                              j > i /\ s.messages[j] \in Responses(query[f])
      BY <1>15 DEF Guarded
    <2>1. i + 1 \in DOMAIN c.stream.messages /\ s.messages[i] = c.stream.messages[i + 1]
      BY <1>6, <1>8
    <2>2. CASE \E j \in DOMAIN c.stream.sent : c.stream.sent[j] \in Requests(query[f])
      BY <1>7, <2>2
    <2>3. CASE \E j \in DOMAIN c.stream.messages :
                  j > i + 1 /\ c.stream.messages[j] \in Responses(query[f])
      <3>1. PICK j \in DOMAIN c.stream.messages :
                  j > i + 1 /\ c.stream.messages[j] \in Responses(query[f])
        BY <2>3
      <3>2. i \in DOMAIN s.messages
        OBVIOUS
      <3>3. PICK n \in Nat \ {0} : n = Len(c.stream.messages)
        BY <1>6
      <3>4. i \in 1 .. n - 1 /\ j \in 1 .. n /\ j > i + 1
        BY ONLY <1>6, <1>8, <3>1, <3>2, <3>3
      <3>5. j - 1 \in 1 .. n - 1 /\ j - 1 > i /\ (j - 1) + 1 = j
        BY ONLY <3>3, <3>4
      <3>6. j - 1 \in DOMAIN s.messages /\ j - 1 > i /\ s.messages[j - 1] = c.stream.messages[j]
        BY ONLY <1>8, <3>3, <3>5
      <3> QED BY <3>1, <3>6
    <2> QED BY <2>1, <2>2, <2>3 DEF Consistent, Guarded
  <1>21. /\ m.type = "error" => m.query \in refused
         /\ m.type = "current" => m.queries \cap refused = {}
    BY <1>6 DEF Consistent, Judged
  <1>22. ASSUME NEW p \in Query \ refused
         PROVE  /\ c.pending[p] = Count(c.stream.sent, Requests(p))
                                  + Count(c.stream.messages, Responses(p))
                /\ c.pending[p] = Count(s.sent, Requests(p)) + Count(s.messages, Responses(p))
                                  + IF m \in Responses(p) THEN 1 ELSE 0
    <2>1. c.pending[p] = Count(c.stream.sent, Requests(p))
                         + Count(c.stream.messages, Responses(p))
      BY <1>7, <1>15, <1>16 DEF Consistent, Counted, IsOpen
    <2>2. Count(c.stream.messages, Responses(p))
            = Count(s.messages, Responses(p)) + IF m \in Responses(p) THEN 1 ELSE 0
      BY <1>3, <1>7, CountTail
    <2>3. Count(s.sent, Requests(p)) \in Nat /\ Count(s.messages, Responses(p)) \in Nat
      BY <1>7, StreamTypes, CountType
    <2> QED BY <1>7, <2>1, <2>2, <2>3
  <1>23. ASSUME m.type = "current", NEW f \in c.listeners \ J, query[f] \in m.queries,
                c.pending[query[f]] = 0
         PROVE  f <= m.covers
    <2>1. f \in Nat /\ m.covers \in Nat
      BY <1>2, <1>6, <1>23, FetchesAssumption DEF Sdk, Fetch, Message
    <2>2. SUFFICES ASSUME m.covers < f PROVE FALSE
      BY <2>1
    <2>3. query[f] \in Query \ refused
      BY <1>2, <1>21, <1>23 DEF Sdk, Query1
    <2>4. c.pending[query[f]] = Count(c.stream.sent, Requests(query[f]))
                                + Count(c.stream.messages, Responses(query[f]))
      BY <1>22, <2>3
    <2>5. /\ Count(c.stream.sent, Requests(query[f])) \in Nat
          /\ Count(c.stream.messages, Responses(query[f])) \in Nat
      BY <1>3, CountType
    <2>6. CASE \E j \in DOMAIN c.stream.sent : c.stream.sent[j] \in Requests(query[f])
      <3>1. Count(c.stream.sent, Requests(query[f])) # 0
        BY <1>3, <2>6, CountPositive
      <3> QED BY <1>23, <2>4, <2>5, <3>1
    <2>7. CASE \E j \in DOMAIN c.stream.messages :
                  c.stream.messages[j] \in Responses(query[f])
      <3>1. Count(c.stream.messages, Responses(query[f])) # 0
        BY <1>3, <2>7, CountPositive
      <3> QED BY <1>23, <2>4, <2>5, <3>1
    <2>8. 1 \in DOMAIN c.stream.messages
      BY <1>6
    <2> QED BY <1>6, <1>23, <2>2, <2>6, <2>7, <2>8 DEF Consistent, Guarded
  <1>24. \A p \in Query \ refused :
            g.pending[p] = Count(g.stream.sent, Requests(p))
                           + Count(g.stream.messages, Responses(p))
                           + IF m \in Responses(p) THEN 1 ELSE 0
    BY <1>15, <1>22
  <1>25. m.type = "current" =>
            \A f \in g.listeners \ J :
                query[f] \in m.queries /\ g.pending[query[f]] = 0 => f <= m.covers
    BY <1>15, <1>23
  <1>26. ASSUME NEW q \in g.targets
         PROVE  Heeded(g, m, q)
    <2>1. IsOpen(c.stream)
      BY <1>7, <1>15, <1>16 DEF IsOpen
    <2>2. Due(c.stream, q) \/ q \in c.synced
      BY <1>15, <2>1 DEF Consistent, Promised
    <2>3. CASE Due(c.stream, q)
      <3>1. /\ g.stream.sent = c.stream.sent /\ g.stream.behind = c.stream.behind
            /\ g.stream.messages = Tail(c.stream.messages)
        BY <1>7, <1>15
      <3>2. c.stream \in WatchStream
        BY <1>2
      <3>3. \/ Due(g.stream, q)
            \/ /\ m.type = "current" /\ q \in m.queries /\ NoRequest(g.stream.sent, q)
               /\ \A k \in DOMAIN g.stream.messages :
                     g.stream.messages[k] \notin Responses(q)
            \/ m.type = "error" /\ m.query = q
        <4>1. PICK x, y : x = c.stream /\ y = g.stream
          OBVIOUS
        <4>2. /\ x \in WatchStream /\ x.messages # <<>> /\ m = Head(x.messages)
              /\ y.sent = x.sent /\ y.behind = x.behind /\ y.messages = Tail(x.messages)
              /\ Due(x, q)
          BY ONLY c.stream.messages # <<>>, m = Head(c.stream.messages), <2>3, <3>1, <3>2,
                  <4>1
        <4>3. \/ Due(y, q)
              \/ /\ m.type = "current" /\ q \in m.queries /\ NoRequest(y.sent, q)
                 /\ \A k \in DOMAIN y.messages : y.messages[k] \notin Responses(q)
              \/ m.type = "error" /\ m.query = q
          BY ONLY <4>2, MessageTaken
        <4> QED BY ONLY <4>1, <4>3
      <3> QED BY <3>3 DEF Heeded
    <2> QED BY <1>14, <2>2, <2>3 DEF Heeded
  <1> QED BY <1>6, <1>11, <1>13, <1>14, <1>15, <1>16, <1>17, <1>18, <1>19, <1>20, <1>21,
             <1>24, <1>25, <1>26 DEF Reading

LEMMA RespondedFacts ==
  ASSUME NEW J, NEW g, NEW m, Reading(g, J, m), m.type \in {"added", "removed"},
         NEW d, d = RecordTargetResponse(g, m.query)
  PROVE  /\ Consistent(d, J) /\ Tables(d) /\ d.listeners = g.listeners
         /\ d.online = g.online
  <1>1. PICK q : q = m.query
    OBVIOUS
  <1>2. /\ g \in Sdk /\ q \in Query /\ g.pending \in [Query -> Int]
        /\ \A p : m \in Responses(p) <=> p = q
    BY <1>1 DEF Reading, Answering, Sdk, Message, Responses
  <1>3. PICK pending : pending = [g.pending EXCEPT ![q] = @ - 1]
    OBVIOUS
  <1>4. /\ pending \in [Query -> Int]
        /\ \A p \in Query : pending[p] = g.pending[p] - IF p = q THEN 1 ELSE 0
    BY <1>2, <1>3
  <1>5. d = [g EXCEPT !.pending = pending]
    BY <1>1, <1>2, <1>3 DEF RecordTargetResponse, Sdk
  <1>6. /\ d \in Sdk /\ d.listeners = g.listeners /\ d.views = g.views
        /\ d.targets = g.targets /\ d.covers = g.covers /\ d.synced = g.synced
        /\ d.raised = g.raised /\ d.events = g.events /\ d.online = g.online
        /\ d.failed = g.failed /\ d.timer = g.timer /\ d.stream = g.stream
        /\ d.pending = pending
    BY <1>2, <1>4, <1>5 DEF Sdk
  <1>7. Answering(d, J) /\ Tables(d)
    <2>1. Answering(d, J)
      BY <1>6, SameAnswering DEF Reading
    <2>2. Tables(d)
      BY <1>6 DEF Reading, Tables
    <2> QED BY <2>1, <2>2
  <1>8. Linked(d) /\ Started(d)
    BY <1>6 DEF Reading, Linked, Wired, Started, IsOpen
  <1>9. Judged(d) /\ Guarded(d, J)
    BY <1>6 DEF Reading, Judged, Guarded
  <1>10. Counted(d)
    <2> SUFFICES ASSUME NEW p \in Query \ refused
                 PROVE  pending[p] = Count(g.stream.sent, Requests(p))
                                     + Count(g.stream.messages, Responses(p))
      BY <1>6 DEF Counted
    <2>1. g.pending[p] = Count(g.stream.sent, Requests(p))
                         + Count(g.stream.messages, Responses(p))
                         + IF m \in Responses(p) THEN 1 ELSE 0
      BY DEF Reading
    <2>2. /\ Count(g.stream.sent, Requests(p)) \in Nat
          /\ Count(g.stream.messages, Responses(p)) \in Nat
      <3>1. g.stream \in WatchStream
        BY <1>2 DEF Sdk
      <3> QED BY <3>1, StreamTypes, CountType
    <2> QED BY <1>2, <1>4, <2>1, <2>2
  <1>11. Promised(d, d.targets)
    <2>1. \A p \in g.targets : Due(g.stream, p) \/ p \in g.synced
      BY DEF Reading, Heeded
    <2>2. ~g.timer
      BY DEF Reading, Linked, Wired
    <2> QED BY <1>6, <2>1, <2>2 DEF Promised
  <1> QED BY <1>6, <1>7, <1>8, <1>9, <1>10, <1>11 DEF Consistent

LEMMA CountNone ==
  ASSUME NEW list, NEW S, \A i \in DOMAIN list : list[i] \notin S
  PROVE  Count(list, S) = 0
  <1>1. {i \in DOMAIN list : list[i] \in S} = {}
    OBVIOUS
  <1> QED BY <1>1, FS_EmptySet DEF Count

LEMMA AppliedFacts ==
  ASSUME Query1, NEW J, NEW g, NEW m, Reading(g, J, m), m.type = "current",
         NEW d, d = ApplyRemoteEvent(g, m)
  PROVE  /\ Consistent(d, J) /\ Tables(d) /\ d.listeners = g.listeners
         /\ d.online = g.online
  <1>1. PICK changed : changed = {q \in m.queries : IsActive(g, q)} \ g.synced
    OBVIOUS
  <1>2. /\ g \in Sdk /\ g.covers \in [Query -> 0 .. MaxFetches] /\ g.synced \in SUBSET Query
        /\ DOMAIN <<>> = {} /\ g.listeners \in SUBSET Fetch
    BY EmptySeq DEF Reading, Answering, Sdk
  <1>3. m.queries \in SUBSET Query /\ m.covers \in 0 .. MaxFetches
    BY DEF Reading, Message
  <1>4. /\ changed \in SUBSET m.queries /\ changed \in SUBSET Query
        /\ changed \subseteq g.targets /\ \A q \in changed : g.pending[q] = 0
    BY <1>1, <1>3 DEF IsActive
  <1>5. PICK covers : covers = [q \in Query |-> IF q \in changed THEN m.covers ELSE g.covers[q]]
    OBVIOUS
  <1>6. PICK a : a = [g EXCEPT !.synced = g.synced \cup changed, !.covers = covers]
    OBVIOUS
  <1>7. PICK fs : fs = UNION {ListenersOf(g, q) : q \in changed}
    OBVIOUS
  <1>8. d = OnViewSnapshot(a, fs)
    BY <1>1, <1>2, <1>5, <1>6, <1>7 DEF ApplyRemoteEvent, Sdk
  <1>9. covers \in [Query -> 0 .. MaxFetches]
    BY <1>2, <1>3, <1>5
  <1>10. /\ a \in Sdk /\ a.listeners = g.listeners /\ a.views = g.views
         /\ a.targets = g.targets /\ a.covers = covers
         /\ a.synced = g.synced \cup changed
         /\ a.raised = g.raised /\ a.events = g.events /\ a.online = g.online
         /\ a.failed = g.failed /\ a.timer = g.timer /\ a.stream = g.stream
         /\ a.pending = g.pending
    BY <1>2, <1>4, <1>6, <1>9 DEF Sdk
  <1>11. \A f : f \in fs <=> f \in g.listeners /\ query[f] \in changed
    BY <1>7 DEF ListenersOf
  <1>12. Covered(a, J)
    <2> SUFFICES ASSUME NEW f \in g.listeners \ J, query[f] \in g.synced \cup changed
                 PROVE  f <= covers[query[f]]
      BY <1>10 DEF Covered
    <2>1. query[f] \in Query
      BY <1>2, <1>4
    <2>2. CASE query[f] \in changed
      <3>1. f <= m.covers
        BY <1>4, <2>2 DEF Reading
      <3> QED BY <1>5, <2>1, <2>2, <3>1
    <2>3. CASE query[f] \notin changed
      <3>1. f <= g.covers[query[f]]
        BY <2>3 DEF Reading, Answering, Covered
      <3> QED BY <1>5, <2>1, <2>3, <3>1
    <2> QED BY <2>2, <2>3
  <1>13. Told(a, J) /\ Heralded(a)
    <2>1. Told(a, J)
      BY <1>2, <1>10 DEF Reading, Told
    <2>2. Heralded(a)
      BY <1>10 DEF Reading, Answering, Heralded
    <2> QED BY <2>1, <2>2
  <1>14. fs \in SUBSET a.listeners
    BY <1>10, <1>11
  <1>15. /\ d \in Sdk /\ Same(a, d) /\ Told(d, J)
         /\ d.raised = a.raised \cup {f \in fs : \/ f \in a.raised
                                                 \/ query[f] \in a.synced
                                                 \/ a.online = "Offline"}
         /\ d.synced = a.synced
         /\ d.online = a.online /\ d.failed = a.failed /\ d.timer = a.timer
         /\ Heralded(d)
    BY <1>8, <1>10, <1>12, <1>13, <1>14, OnViewSnapshotFacts
  <1>16. Covered(d, J)
    BY <1>12, <1>15 DEF Covered, Same
  <1>17. Waiting(d)
    <2> SUFFICES ASSUME NEW f \in g.listeners, f \notin d.raised
                 PROVE  query[f] \notin d.synced /\ d.online # "Offline"
      BY <1>10, <1>15 DEF Waiting, Same
    <2>1. f \notin g.raised
      BY <1>10, <1>15
    <2>2. query[f] \notin g.synced /\ g.online # "Offline"
      BY <2>1 DEF Reading, Answering, Waiting
    <2>3. query[f] \notin changed
      BY <1>10, <1>11, <1>15
    <2> QED BY <1>10, <1>15, <2>2, <2>3
  <1>18. Linked(d) /\ Started(d)
    BY <1>10, <1>15 DEF Reading, Linked, Wired, Started, Same
  <1>19. Judged(d) /\ Guarded(d, J)
    BY <1>10, <1>15 DEF Reading, Judged, Guarded, Same
  <1>20. Counted(d)
    <2> SUFFICES ASSUME NEW p \in Query \ refused
                 PROVE  g.pending[p] = Count(g.stream.sent, Requests(p))
                                       + Count(g.stream.messages, Responses(p))
      BY <1>10, <1>15 DEF Counted, Same
    <2>1. m \notin Responses(p)
      BY DEF Responses
    <2>2. g.pending[p] = Count(g.stream.sent, Requests(p))
                         + Count(g.stream.messages, Responses(p))
                         + IF m \in Responses(p) THEN 1 ELSE 0
      BY DEF Reading
    <2>3. /\ Count(g.stream.sent, Requests(p)) \in Nat
          /\ Count(g.stream.messages, Responses(p)) \in Nat
      <3>1. g.stream \in WatchStream
        BY <1>2 DEF Sdk
      <3> QED BY <3>1, StreamTypes, CountType
    <2> QED BY <2>1, <2>2, <2>3
  <1>21. Tables(d)
    BY <1>4, <1>10, <1>15 DEF Reading, Tables, Same
  <1>22. Promised(d, d.targets)
    <2>1. /\ d.stream = g.stream /\ d.targets = g.targets /\ d.timer = g.timer
          /\ d.synced = g.synced \cup changed
      BY <1>10, <1>15 DEF Same
    <2>2. ~g.timer
      BY DEF Reading, Linked, Wired
    <2>3. ASSUME NEW q \in g.targets
          PROVE  Due(g.stream, q) \/ q \in g.synced \cup changed
      <3>1. \/ Due(g.stream, q) \/ q \in g.synced
            \/ /\ q \in m.queries /\ NoRequest(g.stream.sent, q)
               /\ \A k \in DOMAIN g.stream.messages :
                     g.stream.messages[k] \notin Responses(q)
        BY DEF Reading, Heeded
      <3>2. CASE /\ q \in m.queries /\ NoRequest(g.stream.sent, q)
                 /\ \A k \in DOMAIN g.stream.messages :
                       g.stream.messages[k] \notin Responses(q)
        <4>1. q \in Query \ refused
          BY <1>3, <3>2 DEF Reading
        <4>2. \A j \in DOMAIN g.stream.sent : g.stream.sent[j] \notin Requests(q)
          BY <3>2 DEF NoRequest, Requests
        <4>3. /\ Count(g.stream.sent, Requests(q)) = 0
              /\ Count(g.stream.messages, Responses(q)) = 0
          BY <3>2, <4>2, CountNone
        <4>4. m \notin Responses(q)
          BY DEF Responses
        <4>5. g.pending[q] = 0
          BY <4>1, <4>3, <4>4 DEF Reading
        <4> QED BY <1>1, <3>2, <4>5 DEF IsActive
      <3> QED BY <3>1, <3>2
    <2> QED BY <2>1, <2>2, <2>3 DEF Promised
  <1> QED BY <1>10, <1>15, <1>16, <1>17, <1>18, <1>19, <1>20, <1>21, <1>22
          DEF Consistent, Answering, Same

\* Events for the fetches F.  One who is told of an error is not in M, the
\* listeners left, and is told nothing more.
Posted(events, F, M, J) ==
    /\ events \in Seq(FetchEvent)
    /\ \A i \in DOMAIN events :
          /\ events[i].fetch \in F
          /\ events[i].from = "server" /\ events[i].fetch \notin J => events[i].fresh
          /\ events[i].from = "error" =>
                /\ events[i].fetch \notin M
                /\ \A j \in DOMAIN events : j > i => events[j].fetch # events[i].fetch

\* What a step of the worker makes of its state, L being those who listen at
\* some time in it.
Worked(d, J, L) ==
    /\ d \in Sdk /\ d.listeners \subseteq L /\ Heralded(d)
    /\ Posted(d.events, L, d.listeners, J)
    /\ Calm([d EXCEPT !.events = <<>>], J)
    /\ Tables([d EXCEPT !.events = <<>>])

LEMMA CalmFacts ==
  ASSUME NEW J, NEW c, Consistent(c, J)
  PROVE  Calm(c, J) /\ Heralded(c)
  BY DEF Consistent, Answering, Calm

LEMMA RefusedFacts ==
  ASSUME Query1, NEW J, NEW g, NEW m, Reading(g, J, m), m.type = "error",
         g.listeners = sdk.listeners,
         NEW d, d = ProcessTargetError(g, m.query)
  PROVE  Worked(d, J, g.listeners) /\ d.online = g.online
  <1>1. PICK q, k : q = m.query /\ k = [d EXCEPT !.events = <<>>]
    OBVIOUS
  <1>2. /\ g \in Sdk /\ q \in Query /\ q \in refused /\ g.pending \in [Query -> Int]
        /\ DOMAIN <<>> = {} /\ g.listeners \in SUBSET Fetch /\ g.events = <<>>
        /\ <<>> \in Seq(FetchEvent)
    BY <1>1, EmptySeq DEF Reading, Answering, Sdk, Message
  <1>3. \A p \in Query \ refused :
           g.pending[p] = Count(g.stream.sent, Requests(p))
                          + Count(g.stream.messages, Responses(p))
    <2> TAKE p \in Query \ refused
    <2>1. m \notin Responses(p)
      BY DEF Responses
    <2>2. g.pending[p] = Count(g.stream.sent, Requests(p))
                         + Count(g.stream.messages, Responses(p))
                         + IF m \in Responses(p) THEN 1 ELSE 0
      BY DEF Reading
    <2>3. /\ Count(g.stream.sent, Requests(p)) \in Nat
          /\ Count(g.stream.messages, Responses(p)) \in Nat
      <3>1. g.stream \in WatchStream
        BY <1>2 DEF Sdk
      <3> QED BY <3>1, StreamTypes, CountType
    <2> QED BY <2>1, <2>2, <2>3
  <1>4. CASE q \notin g.targets
    <2>1. d = g
      BY <1>1, <1>4 DEF ProcessTargetError
    <2>2. k = g
      BY <1>1, <1>2, <2>1 DEF Sdk
    <2>3. Calm(g, J) /\ Heralded(g)
      <3>1. Promised(g, g.targets)
        BY <1>1, <1>4 DEF Reading, Heeded, Promised, Linked, Wired
      <3>2. Counted(g)
        BY <1>3 DEF Counted
      <3> QED BY <3>1, <3>2 DEF Reading, Answering, Calm
    <2>4. Posted(<<>>, g.listeners, g.listeners, J)
      BY <1>2 DEF Posted
    <2> QED BY <1>1, <1>2, <2>1, <2>2, <2>3, <2>4 DEF Reading, Worked
  <1>5. CASE q \in g.targets
    <2>1. PICK G : G = ListenersOf(g, q)
      OBVIOUS
    <2>2. G \in SUBSET g.listeners /\ G \in SUBSET Fetch /\ IsFiniteSet(G)
          /\ \A f : f \in G <=> f \in g.listeners /\ query[f] = q
      <3>1. G \in SUBSET g.listeners /\ G \in SUBSET Fetch
            /\ \A f : f \in G <=> f \in g.listeners /\ query[f] = q
        BY <1>2, <2>1 DEF ListenersOf
      <3>2. IsFiniteSet(1 .. MaxFetches) /\ G \in SUBSET (1 .. MaxFetches)
        BY <3>1, FetchesAssumption, IntervalFinite DEF Fetch
      <3> QED BY <3>1, <3>2, FS_Subset
    <2>3. PICK gone : gone = SetToSeq(G)
      OBVIOUS
    <2>4. gone \in Seq(G) /\ ToSet(gone) = G /\ IsInjective(gone)
      BY <2>2, <2>3, SetToSeqFacts
    <2>5. /\ Len(gone) \in Nat /\ DOMAIN gone = 1 .. Len(gone)
          /\ \A i \in DOMAIN gone : gone[i] \in G
          /\ \A i, j \in DOMAIN gone : i # j => gone[i] # gone[j]
      BY <2>4, LenProperties DEF IsInjective
    <2>6. PICK errors : errors = [i \in DOMAIN gone |->
                              [fetch |-> gone[i], from |-> "error", fresh |-> TRUE]]
      OBVIOUS
    <2>7. /\ \A i \in DOMAIN gone : errors[i] \in FetchEvent
          /\ DOMAIN errors = DOMAIN gone
      <3>1. ASSUME NEW i \in DOMAIN gone PROVE errors[i] \in FetchEvent
        <4>1. gone[i] \in Fetch
          BY <2>2, <2>5
        <4> QED BY <2>6, <4>1 DEF FetchEvent
      <3> QED BY <2>6, <3>1
    <2>8. errors \in Seq(FetchEvent)
      <3>1. errors \in [1 .. Len(gone) -> FetchEvent]
        BY <2>5, <2>6, <2>7
      <3> QED BY <2>5, <3>1, SeqDef
    <2>9. Posted(errors, g.listeners, g.listeners \ G, J)
      BY <2>2, <2>5, <2>6, <2>8 DEF Posted
    <2>10. <<>> \o errors = errors
      BY <2>8, ConcatEmptySeq
    <2>11. PICK pending : pending = [g.pending EXCEPT ![q] = 0]
      OBVIOUS
    <2>12. /\ pending \in [Query -> Int]
           /\ \A p \in Query : p # q => pending[p] = g.pending[p]
           /\ g.pending = [p \in Query |-> 0] => pending = [p \in Query |-> 0]
      BY <1>2, <2>11
    <2>13. d = [g EXCEPT !.targets = @ \ {q}, !.pending = pending, !.views = @ \ {q},
                         !.synced = @ \ {q}, !.listeners = @ \ G, !.events = errors]
      <3>1. d = [g EXCEPT !.targets = @ \ {q}, !.pending[q] = 0, !.views = @ \ {q},
                          !.synced = @ \ {q}, !.listeners = @ \ ToSet(gone),
                          !.events = @ \o errors]
        BY <1>1, <1>5, <2>1, <2>3, <2>6 DEF ProcessTargetError
      <3> QED BY <1>2, <2>4, <2>10, <2>11, <3>1 DEF Sdk
    <2>14. /\ d \in Sdk /\ d.listeners = g.listeners \ G /\ d.views = g.views \ {q}
           /\ d.targets = g.targets \ {q} /\ d.covers = g.covers
           /\ d.synced = g.synced \ {q} /\ d.raised = g.raised /\ d.events = errors
           /\ d.online = g.online /\ d.failed = g.failed /\ d.timer = g.timer
           /\ d.stream = g.stream /\ d.pending = pending
      <3>1. /\ d.listeners = g.listeners \ G /\ d.views = g.views \ {q}
            /\ d.targets = g.targets \ {q} /\ d.covers = g.covers
            /\ d.synced = g.synced \ {q} /\ d.raised = g.raised /\ d.events = errors
            /\ d.online = g.online /\ d.failed = g.failed /\ d.timer = g.timer
            /\ d.stream = g.stream /\ d.pending = pending
        BY ONLY <1>2, <2>13 DEF Sdk
      <3>2. g.listeners \ G \in SUBSET Fetch
        BY <1>2
      <3>3. d \in Sdk
        BY ONLY <1>2, <2>8, <2>12, <2>13, <3>2 DEF Sdk
      <3> QED BY <3>1, <3>3
    <2>15. /\ k \in Sdk /\ k.listeners = g.listeners \ G /\ k.views = g.views \ {q}
           /\ k.targets = g.targets \ {q} /\ k.covers = g.covers
           /\ k.synced = g.synced \ {q} /\ k.raised = g.raised /\ k.events = <<>>
           /\ k.online = g.online /\ k.failed = g.failed /\ k.timer = g.timer
           /\ k.stream = g.stream /\ k.pending = pending
      BY <1>1, <1>2, <2>14 DEF Sdk
    <2>16. Covered(k, J) /\ Waiting(k) /\ Told(k, J)
      BY <1>2, <2>15 DEF Reading, Answering, Covered, Waiting, Told
    <2>17. Linked(k) /\ Started(k)
      BY <2>12, <2>15 DEF Reading, Linked, Wired, Started
    <2>18. Judged(k) /\ Guarded(k, J)
      BY <2>15 DEF Reading, Judged, Guarded
    <2>19. Counted(k)
      <3>1. \A p \in Query \ refused : pending[p] = g.pending[p]
        BY <1>2, <2>12
      <3> QED BY <1>3, <2>15, <3>1 DEF Counted
    <2>20. Tables(k)
      <3>1. {query[f] : f \in g.listeners \ G} = {query[f] : f \in g.listeners} \ {q}
        BY <2>2
      <3> QED BY <2>15, <3>1 DEF Reading, Tables
    <2>21. Promised(k, k.targets)
      <3>1. \A p \in g.targets \ {q} : Due(g.stream, p) \/ p \in g.synced \ {q}
        BY <1>1 DEF Reading, Heeded
      <3>2. ~g.timer
        BY DEF Reading, Linked, Wired
      <3> QED BY <2>15, <3>1, <3>2 DEF Promised
    <2>22. Calm(k, J)
      BY <2>15, <2>16, <2>17, <2>18, <2>19, <2>21 DEF Calm
    <2>23. Heralded(d)
      <3>1. Heralded(g)
        BY DEF Reading, Answering
      <3>2. d.raised \subseteq sdk.raised \cup sdk.listeners \cup d.listeners
        BY <2>14, <3>1 DEF Heralded
      <3>3. ASSUME NEW f \in (sdk.listeners \cup d.listeners) \ sdk.raised, calls[f] = 0
            PROVE  \/ f \in d.listeners \ d.raised
                   \/ \E i \in DOMAIN d.events : d.events[i].fetch = f
        <4>1. f \in g.listeners \ g.raised
          BY <1>2, <2>14, <3>1, <3>3 DEF Heralded
        <4>2. CASE f \in G
          <5>1. PICK i \in DOMAIN gone : gone[i] = f
            BY <2>4, <4>2 DEF ToSet
          <5> QED BY <2>6, <2>7, <2>14, <5>1
        <4> QED BY <2>14, <4>1, <4>2
      <3> QED BY <3>2, <3>3 DEF Heralded
    <2> QED BY <1>1, <2>9, <2>14, <2>20, <2>22, <2>23 DEF Worked
  <1> QED BY <1>4, <1>5
(***************************************************************************)
(* The server answers, and makes queries current.                          *)
(***************************************************************************)

\* A new message does not disturb those before it.
Appended(s, msg, messages) ==
    /\ messages \in Seq(Message)
    /\ Len(s.messages) + 1 \in DOMAIN messages
    /\ messages[Len(s.messages) + 1] = msg
    /\ \A i \in DOMAIN s.messages : /\ i \in DOMAIN messages
                                    /\ messages[i] = s.messages[i]
                                    /\ Len(s.messages) + 1 > i
    /\ \A i \in DOMAIN messages : i \in DOMAIN s.messages \/ i = Len(s.messages) + 1
    /\ \A S : Count(messages, S) = Count(s.messages, S) + IF msg \in S THEN 1 ELSE 0

LEMMA AppendedFacts ==
  ASSUME NEW s \in WatchStream, NEW msg \in Message, NEW messages,
         messages = Append(s.messages, msg)
  PROVE  Appended(s, msg, messages)
  <1>1. s.messages \in Seq(Message)
    BY StreamTypes
  <1>2. PICK n \in Nat : n = Len(s.messages)
    BY <1>1, LenProperties
  <1>3. /\ messages \in Seq(Message) /\ Len(messages) = n + 1
        /\ \A i \in 1 .. n : messages[i] = s.messages[i]
        /\ messages[n + 1] = msg
    BY <1>1, <1>2, AppendProperties
  <1>4. DOMAIN messages = 1 .. n + 1 /\ DOMAIN s.messages = 1 .. n
    BY <1>1, <1>2, <1>3, LenProperties
  <1>5. \A S : Count(messages, S) = Count(s.messages, S) + IF msg \in S THEN 1 ELSE 0
    BY <1>1, CountAppend
  <1> QED BY <1>2, <1>3, <1>4, <1>5 DEF Appended

\* Only the stream differs between c and d.
Served(c, d, J) ==
    /\ Consistent(d, J) /\ Tables(d) /\ (StillReset(d) <=> StillReset(c))
    /\ d.listeners = c.listeners /\ d.raised = c.raised /\ d.events = c.events

\* A message that answers nothing about q leaves it current.
LEMMA StillCurrent ==
  ASSUME NEW s, NEW msg, NEW messages, Appended(s, msg, messages),
         NEW q, msg \notin Responses(q), CurrentLast(s.messages, q)
  PROVE  CurrentLast(messages, q)
  <1>1. PICK i \in DOMAIN s.messages :
           /\ s.messages[i].type = "current" /\ q \in s.messages[i].queries
           /\ \A k \in DOMAIN s.messages : k > i => s.messages[k] \notin Responses(q)
    BY DEF CurrentLast
  <1>2. i \in DOMAIN messages /\ messages[i] = s.messages[i]
    BY DEF Appended
  <1>3. ASSUME NEW k \in DOMAIN messages, k > i PROVE messages[k] \notin Responses(q)
    <2>1. CASE k \in DOMAIN s.messages
      <3>1. messages[k] = s.messages[k]
        BY <2>1 DEF Appended
      <3> QED BY <1>1, <1>3, <2>1, <3>1
    <2>2. CASE k = Len(s.messages) + 1
      BY <2>2 DEF Appended
    <2> QED BY <2>1, <2>2 DEF Appended
  <1> QED BY <1>1, <1>2, <1>3 DEF CurrentLast

\* A request is answered: s becomes t.
LEMMA RequestAnswered ==
  ASSUME NEW s \in WatchStream, s.sent # <<>>, NEW r, r = Head(s.sent),
         NEW msg, NEW t, t.sent = Tail(s.sent), Appended(s, msg, t.messages),
         msg.query = r.query, \A p : msg \in Responses(p) => msg.query = p,
         \A p \in s.behind : p # r.query => p \in t.behind,
         r.type = "watch" => r.query \in t.behind \/ msg.type = "error",
         NEW q, Due(s, q)
  PROVE  Due(t, q)
  <1>1. s.sent \in Seq(Request)
    BY StreamTypes
  <1>2. PICK n \in Nat \ {0} : n = Len(s.sent)
    BY <1>1, EmptySeq, LenProperties
  <1>3. /\ t.sent \in Seq(Request) /\ Len(t.sent) = n - 1 /\ r = s.sent[1]
        /\ \A i \in 1 .. n - 1 : t.sent[i] = s.sent[i + 1]
    BY <1>1, <1>2, HeadTailProperties
  <1>4. DOMAIN t.sent = 1 .. n - 1 /\ DOMAIN s.sent = 1 .. n
    BY <1>1, <1>2, <1>3, LenProperties
  <1>5. \A k \in DOMAIN t.sent :
           k + 1 \in DOMAIN s.sent /\ t.sent[k] = s.sent[k + 1] /\ k + 1 > 1
    BY <1>3, <1>4
  <1>6. \A i \in DOMAIN s.messages : i \in DOMAIN t.messages /\ t.messages[i] = s.messages[i]
    BY DEF Appended
  <1>7. CASE Refusal(s.messages, q)
    <2>1. Refusal(t.messages, q)
      BY <1>6, <1>7 DEF Refusal
    <2> QED BY <2>1 DEF Due
  <1>8. CASE WatchLast(s.sent, q)
    <2>1. PICK j \in DOMAIN s.sent :
             /\ s.sent[j] = [type |-> "watch", query |-> q]
             /\ \A k \in DOMAIN s.sent : k > j => s.sent[k].query # q
      BY <1>8 DEF WatchLast
    <2>2. CASE j = 1
      <3>1. r.type = "watch" /\ r.query = q
        BY <1>3, <2>1, <2>2
      <3>2. NoRequest(t.sent, q)
        BY <1>5, <2>1, <2>2 DEF NoRequest
      <3>3. msg.type = "error" => Refusal(t.messages, q)
        BY <3>1 DEF Appended, Refusal
      <3> QED BY <3>1, <3>2, <3>3 DEF Due
    <2>3. CASE j # 1
      <3>1. j - 1 \in 1 .. n - 1 /\ (j - 1) + 1 = j
        BY <1>4, <2>3
      <3>2. \A k \in 1 .. n - 1 : k > j - 1 => k + 1 > j
        BY <1>4
      <3>3. \A k \in DOMAIN t.sent : k > j - 1 => t.sent[k].query # q
        BY <1>4, <1>5, <2>1, <3>2
      <3>4. j - 1 \in DOMAIN t.sent /\ t.sent[j - 1] = s.sent[j]
        BY <1>3, <1>4, <3>1
      <3>5. WatchLast(t.sent, q)
        BY <2>1, <3>3, <3>4 DEF WatchLast
      <3> QED BY <3>5 DEF Due
    <2> QED BY <2>2, <2>3
  <1>9. CASE NoRequest(s.sent, q) /\ (q \in s.behind \/ CurrentLast(s.messages, q))
    <2>1. q # r.query
      BY <1>3, <1>4, <1>9 DEF NoRequest
    <2>2. NoRequest(t.sent, q)
      BY <1>5, <1>9 DEF NoRequest
    <2>3. CASE q \in s.behind
      BY <2>1, <2>2, <2>3 DEF Due
    <2>4. CASE CurrentLast(s.messages, q)
      <3>1. CurrentLast(t.messages, q)
        BY <2>1, <2>4, StillCurrent
      <3> QED BY <2>2, <3>1 DEF Due
    <2> QED BY <1>9, <2>3, <2>4
  <1> QED BY <1>7, <1>8, <1>9 DEF Due

LEMMA AnswersFacts ==
  ASSUME NEW J, NEW c, Tables(c), Consistent(c, J), Query1, c.stream.sent # <<>>,
         NEW r, r = Head(c.stream.sent), NEW msg \in Message, msg.query = r.query,
         \/ msg.type \in {"added", "removed"}
         \/ msg.type = "error" /\ r.query \in refused,
         NEW behind \in SUBSET Query, behind \cap refused = {},
         \A p \in c.stream.behind : p # r.query => p \in behind,
         r.type = "watch" => r.query \in behind \/ msg.type = "error",
         NEW s, s = [c.stream EXCEPT !.sent = Tail(@), !.behind = behind,
                                     !.messages = Append(@, msg)],
         NEW d, d = [c EXCEPT !.stream = s]
  PROVE  Served(c, d, J)
  <1>1. c \in Sdk /\ c.stream \in WatchStream /\ c.stream.sent \in Seq(Request)
    BY StreamTypes DEF Consistent, Answering, Sdk
  <1>2. IsOpen(c.stream) /\ Counted(c)
    BY DEF Consistent, Linked, Wired
  <1>3. PICK messages : messages = Append(c.stream.messages, msg)
    OBVIOUS
  <1>4. /\ messages \in Seq(Message)
        /\ Len(c.stream.messages) + 1 \in DOMAIN messages
        /\ messages[Len(c.stream.messages) + 1] = msg
        /\ \A i \in DOMAIN c.stream.messages : /\ i \in DOMAIN messages
                                               /\ messages[i] = c.stream.messages[i]
                                               /\ Len(c.stream.messages) + 1 > i
        /\ \A i \in DOMAIN messages :
              i \in DOMAIN c.stream.messages \/ i = Len(c.stream.messages) + 1
        /\ \A S : Count(messages, S) = Count(c.stream.messages, S) + IF msg \in S THEN 1 ELSE 0
        /\ Appended(c.stream, msg, messages)
    <2>1. Appended(c.stream, msg, messages)
      BY <1>1, <1>3, AppendedFacts
    <2> QED BY <2>1 DEF Appended
  <1>5. PICK sent : sent = Tail(c.stream.sent)
    OBVIOUS
  <1>6. PICK n \in Nat \ {0} : n = Len(c.stream.sent)
    BY <1>1, EmptySeq, LenProperties
  <1>7. /\ sent \in Seq(Request) /\ Len(sent) = n - 1 /\ r = c.stream.sent[1]
        /\ \A i \in 1 .. n - 1 : sent[i] = c.stream.sent[i + 1]
    BY <1>1, <1>5, <1>6, HeadTailProperties
  <1>8. DOMAIN sent = 1 .. n - 1 /\ DOMAIN c.stream.sent = 1 .. n /\ r \in Request
    BY <1>1, <1>6, <1>7, LenProperties
  <1>9. /\ r.query \in Query /\ r.type \in {"watch", "unwatch"}
        /\ \A p : r \in Requests(p) <=> r.query = p
    BY <1>8 DEF Request, Requests
  <1>10. \A p : msg \in Responses(p) <=> msg.type # "error" /\ msg.query = p
    BY DEF Message, Responses
  <1>11. /\ s \in WatchStream /\ s.state = c.stream.state /\ s.sent = sent
         /\ s.messages = messages /\ s.behind = behind /\ s.idle = c.stream.idle
    BY <1>1, <1>3, <1>4, <1>5, <1>7 DEF WatchStream
  <1>12. /\ d \in Sdk /\ d.listeners = c.listeners /\ d.views = c.views
         /\ d.targets = c.targets /\ d.covers = c.covers /\ d.synced = c.synced
         /\ d.raised = c.raised /\ d.events = c.events /\ d.online = c.online
         /\ d.failed = c.failed /\ d.timer = c.timer /\ d.stream = s
         /\ d.pending = c.pending
    BY <1>1, <1>11 DEF Sdk
  <1>13. Answering(d, J) /\ Tables(d)
    <2>1. Answering(d, J)
      BY ONLY <1>12, Consistent(c, J), SameAnswering DEF Consistent
    <2>2. Tables(d)
      BY ONLY <1>12, Tables(c) DEF Tables
    <2> QED BY <2>1, <2>2
  <1>14. Linked(d) /\ Started(d) /\ (StillReset(d) <=> StillReset(c))
    BY <1>2, <1>11, <1>12 DEF Consistent, Linked, Wired, Started, StillReset, IsOpen, IsStarted
  <1>15. Judged(d)
    <2>1. ASSUME NEW i \in DOMAIN messages
          PROVE  /\ messages[i].type = "current" => messages[i].queries \cap refused = {}
                 /\ messages[i].type = "error" => messages[i].query \in refused
      <3>1. CASE i \in DOMAIN c.stream.messages
        BY <1>4, <3>1 DEF Consistent, Judged
      <3>2. CASE i = Len(c.stream.messages) + 1
        BY <1>4, <3>2
      <3> QED BY <1>4, <3>1, <3>2
    <2>2. d.stream.messages = messages /\ d.stream.behind = behind
      BY ONLY <1>11, <1>12
    <2>3. d.stream.behind \cap refused = {}
      BY <2>2
    <2> QED BY ONLY <2>1, <2>2, <2>3 DEF Judged
  <1>16. Counted(d)
    <2> SUFFICES ASSUME NEW p \in Query \ refused
                 PROVE  c.pending[p] = Count(sent, Requests(p)) + Count(messages, Responses(p))
      BY <1>11, <1>12 DEF Counted
    <2>1. c.pending[p] = Count(c.stream.sent, Requests(p))
                         + Count(c.stream.messages, Responses(p))
      BY <1>2 DEF Counted
    <2>2. Count(c.stream.sent, Requests(p))
            = Count(sent, Requests(p)) + IF r \in Requests(p) THEN 1 ELSE 0
      BY <1>1, <1>5, CountTail
    <2>3. Count(messages, Responses(p))
            = Count(c.stream.messages, Responses(p)) + IF msg \in Responses(p) THEN 1 ELSE 0
      BY <1>4
    <2>4. r \in Requests(p) <=> msg \in Responses(p)
      BY <1>9, <1>10
    <2>5. Count(sent, Requests(p)) \in Nat /\ Count(c.stream.messages, Responses(p)) \in Nat
      BY <1>1, <1>7, StreamTypes, CountType
    <2> QED BY <2>1, <2>2, <2>3, <2>4, <2>5
  <1>17. ASSUME NEW f \in c.listeners \ J, NEW i \in DOMAIN messages,
               messages[i].type = "current", query[f] \in messages[i].queries,
               messages[i].covers < f
        PROVE  \/ \E j \in DOMAIN sent : sent[j] \in Requests(query[f])
               \/ \E j \in DOMAIN messages :
                     j > i /\ messages[j] \in Responses(query[f])
    <2>1. i \in DOMAIN c.stream.messages /\ messages[i] = c.stream.messages[i]
      BY <1>4, <1>17
    <2>2. CASE \E j \in DOMAIN c.stream.messages :
                  j > i /\ c.stream.messages[j] \in Responses(query[f])
      BY <1>4, <2>2
    <2>3. CASE \E j \in DOMAIN c.stream.sent : c.stream.sent[j] \in Requests(query[f])
      <3>1. PICK j \in 1 .. n : c.stream.sent[j] \in Requests(query[f])
        BY <1>8, <2>3
      <3>2. CASE j = 1
        <4>1. r.query = query[f]
          BY <1>7, <1>9, <3>1, <3>2
        <4>2. query[f] \notin refused
          BY <1>17, <2>1 DEF Consistent, Judged
        <4>3. msg \in Responses(query[f])
          BY <1>10, <4>1, <4>2
        <4> QED BY <1>4, <2>1, <4>3
      <3>3. CASE j # 1
        <4>1. j - 1 \in 1 .. n - 1 /\ (j - 1) + 1 = j
          BY ONLY <1>6, <3>1, <3>3
        <4>2. j - 1 \in DOMAIN sent /\ sent[j - 1] = c.stream.sent[j]
          BY ONLY <1>7, <1>8, <4>1
        <4> QED BY <3>1, <4>2
      <3> QED BY <3>2, <3>3
    <2> QED BY <1>17, <2>1, <2>2, <2>3 DEF Consistent, Guarded
  <1>18. Guarded(d, J)
    BY ONLY <1>11, <1>12, <1>17 DEF Guarded
  <1>19. Promised(d, d.targets)
    <2>1. \A p \in c.targets : Due(c.stream, p) \/ (p \in c.synced /\ ~c.timer)
      BY <1>2 DEF Consistent, Promised
    <2>2. Appended(c.stream, msg, s.messages) /\ s.sent = Tail(c.stream.sent)
          /\ s.behind = behind
      BY <1>4, <1>5, <1>11
    <2>3. \A p : msg \in Responses(p) => msg.query = p
      BY <1>10
    <2>4. ASSUME NEW p, Due(c.stream, p) PROVE Due(s, p)
      <3>1. PICK x : x = c.stream
        OBVIOUS
      <3>2. /\ x \in WatchStream /\ x.sent # <<>> /\ r = Head(x.sent) /\ s.sent = Tail(x.sent)
            /\ Appended(x, msg, s.messages) /\ Due(x, p)
        BY <1>1, <2>2, <2>4, <3>1
      <3>3. /\ \A o \in x.behind : o # r.query => o \in s.behind
            /\ r.type = "watch" => r.query \in s.behind \/ msg.type = "error"
        BY <2>2, <3>1
      <3> QED BY ONLY msg.query = r.query, <2>3, <3>2, <3>3, RequestAnswered
    <2> QED BY ONLY <1>12, <2>1, <2>4 DEF Promised
  <1> QED BY <1>12, <1>13, <1>14, <1>15, <1>16, <1>18, <1>19 DEF Consistent, Served

\* What a message says is current is so at the end of the list.
LEMMA NowCurrent ==
  ASSUME NEW s, NEW msg, NEW messages, Appended(s, msg, messages),
         msg.type = "current", \A p : msg \notin Responses(p), NEW q \in msg.queries
  PROVE  CurrentLast(messages, q)
  <1>1. PICK n : n = Len(s.messages) + 1
    OBVIOUS
  <1>2. /\ n \in DOMAIN messages /\ messages[n] = msg
        /\ \A i \in DOMAIN messages : i # n => i \in DOMAIN s.messages
        /\ \A i \in DOMAIN s.messages : n > i
    BY <1>1 DEF Appended
  <1>3. messages \in Seq(Message) /\ DOMAIN messages \subseteq Int
    <2>1. messages \in Seq(Message)
      BY DEF Appended
    <2>2. Len(messages) \in Nat /\ DOMAIN messages = 1 .. Len(messages)
      BY <2>1, LenProperties
    <2> QED BY <2>1, <2>2
  <1>4. ASSUME NEW k \in DOMAIN messages, k > n PROVE FALSE
    <2>1. k \in Int /\ n \in Int
      BY <1>2, <1>3
    <2>2. k # n
      BY <1>4, <2>1
    <2>3. n > k
      BY <1>2, <2>2
    <2> QED BY ONLY <1>4, <2>1, <2>3
  <1> QED BY <1>2, <1>4 DEF CurrentLast

LEMMA CatchUpFacts ==
  ASSUME NEW J, NEW c, Tables(c), Consistent(c, J), c.stream.behind # {},
         NEW n \in 0 .. MaxFetches, c.listeners \subseteq 1 .. n,
         NEW msg, msg = [type |-> "current", queries |-> c.stream.behind, covers |-> n],
         NEW s, s = [c.stream EXCEPT !.behind = {}, !.messages = Append(@, msg)],
         NEW d, d = [c EXCEPT !.stream = s]
  PROVE  Served(c, d, J)
  <1>1. c \in Sdk /\ c.stream \in WatchStream /\ c.stream.behind \in SUBSET Query
    BY StreamTypes DEF Consistent, Answering, Sdk
  <1>2. IsOpen(c.stream) /\ Counted(c)
    BY DEF Consistent, Linked, Wired
  <1>3. /\ msg \in Message /\ msg.type = "current" /\ msg.covers = n
        /\ msg.queries = c.stream.behind /\ \A p : msg \notin Responses(p)
    BY <1>1 DEF Message, Responses
  <1>4. PICK messages : messages = Append(c.stream.messages, msg)
    OBVIOUS
  <1>5. /\ messages \in Seq(Message)
        /\ messages[Len(c.stream.messages) + 1] = msg
        /\ \A i \in DOMAIN c.stream.messages : /\ i \in DOMAIN messages
                                               /\ messages[i] = c.stream.messages[i]
        /\ \A i \in DOMAIN messages :
              i \in DOMAIN c.stream.messages \/ i = Len(c.stream.messages) + 1
        /\ \A S : Count(messages, S) = Count(c.stream.messages, S) + IF msg \in S THEN 1 ELSE 0
        /\ Appended(c.stream, msg, messages)
    <2>1. Appended(c.stream, msg, messages)
      BY <1>1, <1>3, <1>4, AppendedFacts
    <2> QED BY <2>1 DEF Appended
  <1>6. /\ s \in WatchStream /\ s.state = c.stream.state /\ s.sent = c.stream.sent
        /\ s.messages = messages /\ s.behind = {} /\ s.idle = c.stream.idle
    BY <1>1, <1>4, <1>5 DEF WatchStream
  <1>7. /\ d \in Sdk /\ d.listeners = c.listeners /\ d.views = c.views
        /\ d.targets = c.targets /\ d.covers = c.covers /\ d.synced = c.synced
        /\ d.raised = c.raised /\ d.events = c.events /\ d.online = c.online
        /\ d.failed = c.failed /\ d.timer = c.timer /\ d.stream = s
        /\ d.pending = c.pending
    BY <1>1, <1>6 DEF Sdk
  <1>8. Answering(d, J) /\ Tables(d)
    <2>1. Answering(d, J)
      BY ONLY <1>7, Consistent(c, J), SameAnswering DEF Consistent
    <2>2. Tables(d)
      BY ONLY <1>7, Tables(c) DEF Tables
    <2> QED BY <2>1, <2>2
  <1>9. Linked(d) /\ Started(d) /\ (StillReset(d) <=> StillReset(c))
    BY <1>2, <1>6, <1>7 DEF Consistent, Linked, Wired, Started, StillReset, IsOpen, IsStarted
  <1>10. Judged(d)
    <2>1. ASSUME NEW i \in DOMAIN messages
          PROVE  /\ messages[i].type = "current" => messages[i].queries \cap refused = {}
                 /\ messages[i].type = "error" => messages[i].query \in refused
      <3>1. CASE i \in DOMAIN c.stream.messages
        BY <1>5, <3>1 DEF Consistent, Judged
      <3>2. CASE i = Len(c.stream.messages) + 1
        BY <1>3, <1>5, <3>2 DEF Consistent, Judged
      <3> QED BY <1>5, <3>1, <3>2
    <2>2. d.stream.messages = messages /\ d.stream.behind = {}
      BY ONLY <1>6, <1>7
    <2> QED BY ONLY <2>1, <2>2 DEF Judged
  <1>11. Counted(d)
    <2>1. ASSUME NEW p \in Query \ refused
          PROVE  c.pending[p] = Count(c.stream.sent, Requests(p))
                                + Count(messages, Responses(p))
      <3>1. Count(c.stream.messages, Responses(p)) \in Nat
        BY <1>1, StreamTypes, CountType
      <3>2. Count(messages, Responses(p)) = Count(c.stream.messages, Responses(p))
        BY <1>3, <1>5, <3>1
      <3> QED BY <1>2, <3>2 DEF Counted
    <2> QED BY ONLY <1>6, <1>7, <2>1 DEF Counted
  <1>12. ASSUME NEW f \in c.listeners \ J, NEW i \in DOMAIN messages,
               messages[i].type = "current", query[f] \in messages[i].queries,
               messages[i].covers < f
        PROVE  \/ \E j \in DOMAIN c.stream.sent : c.stream.sent[j] \in Requests(query[f])
               \/ \E j \in DOMAIN messages :
                     j > i /\ messages[j] \in Responses(query[f])
    <2>1. i # Len(c.stream.messages) + 1
      <3>1. f \in 1 .. n /\ n \in Nat
        BY FetchesAssumption
      <3>2. ~(n < f)
        BY ONLY <3>1
      <3> QED BY <1>3, <1>5, <1>12, <3>2
    <2>2. i \in DOMAIN c.stream.messages /\ messages[i] = c.stream.messages[i]
      BY <1>5, <2>1
    <2>3. \/ \E j \in DOMAIN c.stream.sent : c.stream.sent[j] \in Requests(query[f])
          \/ \E j \in DOMAIN c.stream.messages :
                j > i /\ c.stream.messages[j] \in Responses(query[f])
      BY <1>12, <2>2 DEF Consistent, Guarded
    <2> QED BY <1>5, <2>3
  <1>13. Guarded(d, J)
    BY ONLY <1>6, <1>7, <1>12 DEF Guarded
  <1>14. Promised(d, d.targets)
    <2>1. \A p \in c.targets : Due(c.stream, p) \/ (p \in c.synced /\ ~c.timer)
      BY <1>2 DEF Consistent, Promised
    <2>2. ASSUME NEW p, Due(c.stream, p) PROVE Due(s, p)
      <3>1. CASE Refusal(c.stream.messages, p)
        BY <1>5, <1>6, <3>1 DEF Refusal, Due
      <3>2. CASE WatchLast(c.stream.sent, p)
        BY <1>6, <3>2 DEF Due
      <3>3. CASE NoRequest(c.stream.sent, p) /\ p \in c.stream.behind
        <4>1. CurrentLast(messages, p)
          BY <1>3, <1>5, <3>3, NowCurrent
        <4> QED BY <1>6, <3>3, <4>1 DEF Due
      <3>4. CASE NoRequest(c.stream.sent, p) /\ CurrentLast(c.stream.messages, p)
        <4>1. CurrentLast(messages, p)
          BY <1>3, <1>5, <3>4, StillCurrent
        <4> QED BY <1>6, <3>4, <4>1 DEF Due
      <3> QED BY <2>2, <3>1, <3>2, <3>3, <3>4 DEF Due
    <2> QED BY ONLY <1>7, <2>1, <2>2 DEF Promised
  <1> QED BY <1>7, <1>8, <1>9, <1>10, <1>11, <1>13, <1>14 DEF Consistent, Served

(***************************************************************************)
(* The tasks of the worker, the events on their way to the main thread and *)
(* the completions.                                                        *)
(***************************************************************************)

\* Who is still to be listened to (in the tasks w) has not been heard of.
Unheard(w, L, b, k) ==
    \A i \in DOMAIN w : w[i].type = "listen" =>
        /\ w[i].fetch \notin L /\ k[w[i].fetch] = 0
        /\ \A j \in DOMAIN b : b[j].fetch # w[i].fetch
        /\ \A j \in DOMAIN w : w[j] = w[i] => j = i

\* Who has been called, and is not muted, was told of an error.
CalledOnce(k, m, n, L, b) ==
    \A f \in Fetch :
        /\ k[f] <= 1
        /\ f \in m => k[f] = 1
        /\ k[f] = 1 => f <= n
        /\ k[f] = 1 /\ f \notin m =>
              f \notin L /\ \A j \in DOMAIN b : b[j].fetch # f

AnswersOwn(a, J) ==
    \A f \in Fetch : a[f].from = "server" /\ f \notin J => a[f].fresh

\* The tasks w: who has been told (R) is not to be listened to again, and who is
\* to be taken back has been called.
TasksMeet(w, R, n, k) ==
    /\ R \subseteq 1 .. n
    /\ \A i \in DOMAIN w :
          /\ w[i].type = "listen" => w[i].fetch \notin R
          /\ w[i].type = "remove" => k[w[i].fetch] # 0

\* Who has not been called is to be listened to, waits (W), or is about to hear.
NoneLost(w, b, W, n, k) ==
    \A f \in 1 .. n : k[f] = 0 =>
        \/ \E i \in DOMAIN w : w[i].type = "listen" /\ w[i].fetch = f
        \/ f \in W
        \/ \E j \in DOMAIN b : b[j].fetch = f

FetchInv ==
    /\ Posted(inbox, 1 .. asked, sdk.listeners, joined)
    /\ Unheard(worker, sdk.listeners, inbox, calls)
    /\ CalledOnce(calls, muted, asked, sdk.listeners, inbox)
    /\ AnswersOwn(answer, joined)
    /\ TasksMeet(worker, sdk.raised, asked, calls)
    /\ NoneLost(worker, inbox, sdk.listeners \ sdk.raised, asked, calls)

Inv ==
    /\ TypeOK
    /\ Tables(sdk)
    /\ Consistent(sdk, joined)
    /\ StillReset(sdk) => reset
    /\ FetchInv

LEMMA WorkedFacts ==
  ASSUME NEW J, NEW L, NEW d, Consistent(d, J), Tables(d), d.listeners \subseteq L
  PROVE  Worked(d, J, L)
  <1>1. PICK k : k = [d EXCEPT !.events = <<>>]
    OBVIOUS
  <1>2. d \in Sdk /\ d.events \in Seq(FetchEvent) /\ Told(d, J)
        /\ <<>> \in Seq(FetchEvent) /\ DOMAIN <<>> = {}
    BY EmptySeq DEF Consistent, Answering, Sdk
  <1>3. /\ k \in Sdk /\ k.listeners = d.listeners /\ k.views = d.views
        /\ k.targets = d.targets /\ k.covers = d.covers /\ k.synced = d.synced
        /\ k.raised = d.raised /\ k.events = <<>> /\ k.online = d.online
        /\ k.failed = d.failed /\ k.timer = d.timer /\ k.stream = d.stream
        /\ k.pending = d.pending
    BY <1>1, <1>2 DEF Sdk
  <1>4. Covered(k, J) /\ Waiting(k) /\ Told(k, J)
    BY <1>2, <1>3 DEF Consistent, Answering, Covered, Waiting, Told
  <1>5. Linked(k) /\ Started(k) /\ Tables(k)
    BY <1>3 DEF Consistent, Linked, Wired, Started, Tables
  <1>6. Judged(k) /\ Counted(k) /\ Guarded(k, J) /\ Promised(k, k.targets)
    <2>1. Judged(k) /\ Counted(k) /\ Guarded(k, J)
      BY <1>3 DEF Consistent, Judged, Counted, Guarded
    <2>2. Promised(k, k.targets)
      BY <1>3 DEF Consistent, Promised
    <2> QED BY <2>1, <2>2
  <1>7. Posted(d.events, L, d.listeners, J)
    BY <1>2 DEF Told, Posted
  <1>8. Calm(k, J)
    BY <1>3, <1>4, <1>5, <1>6 DEF Calm
  <1> QED BY <1>1, <1>2, <1>5, <1>7, <1>8, CalmFacts DEF Worked

LEMMA PrimedFacts ==
  ASSUME NEW k, NEW J, sdk' = k, joined' = J, UNCHANGED world, Calm(k, J), Tables(k)
  PROVE  Consistent(sdk, joined)' /\ Tables(sdk)'
  <1>1. query' = query /\ refused' = refused
    BY DEF world
  <1>2. Tables(sdk)'
    BY <1>1 DEF Tables
  <1>3. Answering(sdk, joined)'
    <2>1. (sdk \in Sdk /\ Covered(sdk, joined) /\ Waiting(sdk) /\ Told(sdk, joined))'
      BY <1>1 DEF Calm, Covered, Waiting, Told
    <2>2. Heralded(sdk)'
      BY DEF Heralded
    <2> QED BY <2>1, <2>2 DEF Answering
  <1>4. Linked(sdk)' /\ Started(sdk)'
    BY <1>1 DEF Calm, Linked, Wired, Started
  <1>5. Judged(sdk)' /\ Counted(sdk)'
    BY <1>1 DEF Calm, Judged, Counted
  <1>6. Guarded(sdk, joined)'
    BY <1>1 DEF Calm, Guarded
  <1>7. Promised(sdk, sdk.targets)'
    BY DEF Calm, Promised
  <1> QED BY <1>2, <1>3, <1>4, <1>5, <1>6, <1>7 DEF Consistent

LEMMA JoinedLists ==
  ASSUME NEW T, NEW b \in Seq(T), NEW e \in Seq(T), NEW j \in DOMAIN (b \o e)
  PROVE  \/ j \in DOMAIN b /\ (b \o e)[j] = b[j]
         \/ \E k \in DOMAIN e : j = Len(b) + k /\ (b \o e)[j] = e[k]
  <1>1. PICK m \in Nat, n \in Nat : m = Len(b) /\ n = Len(e)
    BY LenProperties
  <1>2. /\ b \o e \in Seq(T) /\ Len(b \o e) = m + n
        /\ \A i \in 1 .. m + n : (b \o e)[i] = IF i <= m THEN b[i] ELSE e[i - m]
    BY <1>1, ConcatProperties
  <1>3. DOMAIN b = 1 .. m /\ DOMAIN e = 1 .. n /\ DOMAIN (b \o e) = 1 .. m + n
    BY <1>1, <1>2, LenProperties
  <1>4. j \in 1 .. m + n
    BY <1>3
  <1>5. CASE j <= m
    BY <1>2, <1>3, <1>4, <1>5
  <1>6. CASE ~(j <= m)
    <2>1. j - m \in 1 .. n /\ j = m + (j - m)
      BY <1>4, <1>6
    <2> QED BY <1>1, <1>2, <1>3, <1>4, <1>6, <2>1
  <1> QED BY <1>5, <1>6

\* What is in list b is in list l.
Within(b, l) == \A j \in DOMAIN b : \E i \in DOMAIN l : l[i] = b[j]

LEMMA ListsOfJoined ==
  ASSUME NEW T, NEW b \in Seq(T), NEW e \in Seq(T)
  PROVE  Within(b, b \o e) /\ Within(e, b \o e)
  <1>1. PICK m \in Nat, n \in Nat : m = Len(b) /\ n = Len(e)
    BY LenProperties
  <1>2. /\ b \o e \in Seq(T) /\ Len(b \o e) = m + n
        /\ \A i \in 1 .. m + n : (b \o e)[i] = IF i <= m THEN b[i] ELSE e[i - m]
    BY <1>1, ConcatProperties
  <1>3. DOMAIN b = 1 .. m /\ DOMAIN e = 1 .. n /\ DOMAIN (b \o e) = 1 .. m + n
    BY <1>1, <1>2, LenProperties
  <1>4. ASSUME NEW j \in DOMAIN b PROVE \E i \in DOMAIN (b \o e) : (b \o e)[i] = b[j]
    <2>1. j \in 1 .. m + n /\ j <= m
      BY <1>3
    <2> QED BY <1>2, <1>3, <2>1
  <1>5. ASSUME NEW j \in DOMAIN e PROVE \E i \in DOMAIN (b \o e) : (b \o e)[i] = e[j]
    <2>1. m + j \in 1 .. m + n /\ ~(m + j <= m) /\ (m + j) - m = j
      BY <1>3
    <2> QED BY <1>2, <1>3, <2>1
  <1> QED BY <1>4, <1>5 DEF Within

\* The events e are for fetches which b has events for, or for those of F.
Known(e, b, F) ==
    \A j \in DOMAIN e : \/ \E i \in DOMAIN b : b[i].fetch = e[j].fetch
                        \/ e[j].fetch \in F

\* The events b are not for those of N.
Strangers(b, N) == \A j \in DOMAIN b : b[j].fetch \notin N

\* The tasks w are not for those of N.
Outside(w, N) == \A i \in DOMAIN w : w[i].type = "listen" => w[i].fetch \notin N

\* Events of a step that come after those on their way.
LEMMA PostedMore ==
  ASSUME NEW F, NEW L, NEW M, NEW N, NEW J, NEW K, NEW b, NEW e,
         Posted(b, F, L, J), Posted(e, L \cup N, M, K), J \subseteq K,
         L \cup N \subseteq F, M \subseteq L \cup N, Strangers(b, N)
  PROVE  Posted(b \o e, F, M, K) /\ Known(b \o e, b, L \cup N)
  <1>1. PICK x : x = b \o e
    OBVIOUS
  <1>2. b \in Seq(FetchEvent) /\ e \in Seq(FetchEvent)
    BY DEF Posted
  <1>3. x \in Seq(FetchEvent)
    BY <1>1, <1>2, ConcatProperties
  <1>4. PICK m \in Nat : m = Len(b) /\ DOMAIN b = 1 .. m
    BY <1>2, LenProperties
  <1>5. PICK n \in Nat : DOMAIN e = 1 .. n
    BY <1>2, LenProperties
  <1>6. \A j \in DOMAIN x : \/ j \in DOMAIN b /\ x[j] = b[j]
                            \/ \E k \in DOMAIN e : j = m + k /\ x[j] = e[k]
    <2> TAKE j \in DOMAIN x
    <2>1. j \in DOMAIN (b \o e)
      BY <1>1
    <2>2. \/ j \in DOMAIN b /\ (b \o e)[j] = b[j]
          \/ \E k \in DOMAIN e : j = Len(b) + k /\ (b \o e)[j] = e[k]
      BY ONLY <1>2, <2>1, JoinedLists
    <2> QED BY <1>1, <1>4, <2>2
  <1>7. ASSUME NEW i \in DOMAIN x
        PROVE  /\ x[i].fetch \in F
               /\ x[i].from = "server" /\ x[i].fetch \notin K => x[i].fresh
               /\ x[i].from = "error" =>
                     /\ x[i].fetch \notin M
                     /\ \A j \in DOMAIN x : j > i => x[j].fetch # x[i].fetch
    <2>1. CASE i \in DOMAIN b /\ x[i] = b[i]
      <3>1. /\ b[i].fetch \in F /\ b[i].fetch \notin N
            /\ b[i].from = "server" /\ b[i].fetch \notin J => b[i].fresh
            /\ b[i].from = "error" =>
                  /\ b[i].fetch \notin L
                  /\ \A j \in DOMAIN b : j > i => b[j].fetch # b[i].fetch
        BY <2>1 DEF Posted, Strangers
      <3>2. ASSUME b[i].from = "error", NEW j \in DOMAIN x, j > i
            PROVE  x[j].fetch # x[i].fetch
        <4>1. CASE j \in DOMAIN b /\ x[j] = b[j]
          BY <2>1, <3>1, <3>2, <4>1
        <4>2. CASE \E k \in DOMAIN e : j = m + k /\ x[j] = e[k]
          <5>1. x[j].fetch \in L \cup N
            BY <4>2 DEF Posted
          <5> QED BY <2>1, <3>1, <3>2, <5>1
        <4> QED BY <1>6, <4>1, <4>2
      <3> QED BY <2>1, <3>1, <3>2
    <2>2. CASE \E k \in DOMAIN e : i = m + k /\ x[i] = e[k]
      <3>1. PICK k \in DOMAIN e : i = m + k /\ x[i] = e[k]
        BY <2>2
      <3>2. /\ e[k].fetch \in L \cup N
            /\ e[k].from = "server" /\ e[k].fetch \notin K => e[k].fresh
            /\ e[k].from = "error" =>
                  /\ e[k].fetch \notin M
                  /\ \A j \in DOMAIN e : j > k => e[j].fetch # e[k].fetch
        BY DEF Posted
      <3>3. ASSUME e[k].from = "error", NEW j \in DOMAIN x, j > i
            PROVE  x[j].fetch # x[i].fetch
        <4>1. ~(j \in DOMAIN b)
          BY <1>4, <1>5, <3>1, <3>3
        <4>2. PICK h \in DOMAIN e : j = m + h /\ x[j] = e[h]
          BY <1>6, <4>1
        <4>3. h > k
          <5>1. h \in Int /\ k \in Int /\ m \in Int
            BY <1>5
          <5> QED BY ONLY <3>1, <3>3, <4>2, <5>1
        <4> QED BY <3>1, <3>2, <3>3, <4>2, <4>3
      <3> QED BY <3>1, <3>2, <3>3
    <2> QED BY <1>6, <2>1, <2>2
  <1>8. ASSUME NEW j \in DOMAIN x
        PROVE  \/ \E i \in DOMAIN b : b[i].fetch = x[j].fetch
               \/ x[j].fetch \in L \cup N
    <2>1. CASE \E k \in DOMAIN e : j = m + k /\ x[j] = e[k]
      BY <2>1 DEF Posted
    <2> QED BY <1>6, <2>1
  <1> QED BY <1>1, <1>3, <1>7, <1>8 DEF Posted, Known

LEMMA UnheardOn ==
  ASSUME NEW w, NEW L, NEW b, NEW k, NEW N, NEW M, NEW e, Unheard(w, L, b, k),
         Outside(w, N), M \subseteq L \cup N, Known(e, b, L \cup N)
  PROVE  Unheard(w, M, e, k)
  BY DEF Unheard, Outside, Known

LEMMA CalledOn ==
  ASSUME NEW k, NEW m, NEW n, NEW L, NEW b, NEW N, NEW M, NEW e,
         CalledOnce(k, m, n, L, b), \A f \in N : k[f] = 0, M \subseteq L \cup N,
         Known(e, b, L \cup N)
  PROVE  CalledOnce(k, m, n, M, e)
  BY DEF CalledOnce, Known

Task(n) == [type : {"listen", "remove"}, fetch : 1 .. n]

LEMMA SameTask ==
  ASSUME NEW n, NEW s \in Task(n), NEW t \in Task(n), s.type = t.type, s.fetch = t.fetch
  PROVE  s = t
  BY DEF Task

\* Task t was the first, v are the others.
Taken(t, v, n, L, b, k) ==
    /\ t \in Task(n) /\ v \in Seq(Task(n)) /\ Unheard(v, L, b, k)
    /\ t.type = "listen" =>
          /\ t.fetch \notin L /\ k[t.fetch] = 0
          /\ \A j \in DOMAIN b : b[j].fetch # t.fetch
          /\ Outside(v, {t.fetch})

LEMMA UnheardTail ==
  ASSUME NEW n, NEW w \in Seq(Task(n)), w # <<>>, NEW L, NEW b, NEW k,
         Unheard(w, L, b, k), NEW v, v = Tail(w), NEW t, t = Head(w)
  PROVE  Taken(t, v, n, L, b, k)
  <1>1. PICK h \in Nat \ {0} : h = Len(w)
    BY EmptySeq, LenProperties
  <1>2. /\ v \in Seq(Task(n)) /\ Len(v) = h - 1 /\ t = w[1]
        /\ \A i \in 1 .. h - 1 : v[i] = w[i + 1]
    BY <1>1, HeadTailProperties
  <1>3. DOMAIN v = 1 .. h - 1 /\ DOMAIN w = 1 .. h /\ \A i \in 1 .. h : w[i] \in Task(n)
    BY <1>1, <1>2, LenProperties
  <1>4. \A i \in DOMAIN v : i + 1 \in DOMAIN w /\ v[i] = w[i + 1] /\ i + 1 # 1
    BY <1>2, <1>3
  <1>5. 1 \in DOMAIN w /\ t \in Task(n)
    BY <1>2, <1>3
  <1>6. Unheard(v, L, b, k)
    <2>1. ASSUME NEW i \in DOMAIN v, v[i].type = "listen"
          PROVE  /\ v[i].fetch \notin L /\ k[v[i].fetch] = 0
                 /\ \A j \in DOMAIN b : b[j].fetch # v[i].fetch
                 /\ \A j \in DOMAIN v : v[j] = v[i] => j = i
      <3>1. /\ w[i + 1].fetch \notin L /\ k[w[i + 1].fetch] = 0
            /\ \A j \in DOMAIN b : b[j].fetch # w[i + 1].fetch
            /\ \A j \in DOMAIN w : w[j] = w[i + 1] => j = i + 1
        BY <1>4, <2>1 DEF Unheard
      <3>2. ASSUME NEW j \in DOMAIN v, v[j] = v[i] PROVE j = i
        <4>1. j + 1 = i + 1
          BY <1>4, <3>1, <3>2
        <4>2. i \in Int /\ j \in Int
          BY <1>3
        <4> QED BY ONLY <4>1, <4>2
      <3> QED BY <1>4, <3>1, <3>2
    <2> QED BY <2>1 DEF Unheard
  <1>7. ASSUME t.type = "listen"
        PROVE  /\ t.fetch \notin L /\ k[t.fetch] = 0
               /\ \A j \in DOMAIN b : b[j].fetch # t.fetch
               /\ Outside(v, {t.fetch})
    <2>1. /\ w[1].fetch \notin L /\ k[w[1].fetch] = 0
          /\ \A j \in DOMAIN b : b[j].fetch # w[1].fetch
          /\ \A j \in DOMAIN w : w[j] = w[1] => j = 1
      BY <1>2, <1>5, <1>7 DEF Unheard
    <2>2. ASSUME NEW i \in DOMAIN v, v[i].type = "listen", v[i].fetch = t.fetch
          PROVE  FALSE
      <3>1. v[i] \in Task(n)
        BY <1>2, <1>3
      <3>2. v[i] = t
        BY <1>5, <1>7, <2>2, <3>1, SameTask
      <3> QED BY <1>2, <1>4, <2>1, <3>2
    <2> QED BY <1>2, <2>1, <2>2 DEF Outside
  <1> QED BY <1>2, <1>5, <1>6, <1>7 DEF Taken

LEMMA UnheardAppend ==
  ASSUME NEW n, NEW w \in Seq(Task(n)), NEW t \in Task(n), NEW L, NEW b, NEW k,
         Unheard(w, L, b, k),
         t.type = "listen" =>
            /\ t.fetch \notin L /\ k[t.fetch] = 0
            /\ \A j \in DOMAIN b : b[j].fetch # t.fetch
            /\ \A i \in DOMAIN w : w[i] # t,
         NEW v, v = Append(w, t)
  PROVE  v \in Seq(Task(n)) /\ Unheard(v, L, b, k)
  <1>1. PICK h \in Nat : h = Len(w)
    BY LenProperties
  <1>2. /\ v \in Seq(Task(n)) /\ Len(v) = h + 1 /\ v[h + 1] = t
        /\ \A i \in 1 .. h : v[i] = w[i]
    BY <1>1, AppendProperties
  <1>3. DOMAIN v = 1 .. h + 1 /\ DOMAIN w = 1 .. h
    BY <1>1, <1>2, LenProperties
  <1>4. \A i \in DOMAIN v : \/ i \in DOMAIN w /\ v[i] = w[i]
                            \/ i = h + 1 /\ v[i] = t
    <2> TAKE i \in DOMAIN v
    <2>1. i \in 1 .. h \/ i = h + 1
      BY <1>3
    <2> QED BY <1>2, <1>3, <2>1
  <1>5. ASSUME NEW i \in DOMAIN v, v[i].type = "listen"
        PROVE  /\ v[i].fetch \notin L /\ k[v[i].fetch] = 0
               /\ \A j \in DOMAIN b : b[j].fetch # v[i].fetch
               /\ \A j \in DOMAIN v : v[j] = v[i] => j = i
    <2>1. CASE i \in DOMAIN w /\ v[i] = w[i]
      <3>1. /\ w[i].fetch \notin L /\ k[w[i].fetch] = 0
            /\ \A j \in DOMAIN b : b[j].fetch # w[i].fetch
            /\ \A j \in DOMAIN w : w[j] = w[i] => j = i
        BY <1>5, <2>1 DEF Unheard
      <3>2. ASSUME NEW j \in DOMAIN v, v[j] = v[i] PROVE j = i
        <4>1. CASE j \in DOMAIN w /\ v[j] = w[j]
          BY <2>1, <3>1, <3>2, <4>1
        <4>2. CASE v[j] = t
          BY <1>5, <2>1, <3>2, <4>2
        <4> QED BY <1>4, <4>1, <4>2
      <3> QED BY <2>1, <3>1, <3>2
    <2>2. CASE i = h + 1 /\ v[i] = t
      <3>1. ASSUME NEW j \in DOMAIN v, v[j] = v[i] PROVE j = i
        BY <1>4, <1>5, <2>2, <3>1
      <3> QED BY <1>5, <2>2, <3>1
    <2> QED BY <1>4, <2>1, <2>2
  <1> QED BY <1>2, <1>5 DEF Unheard

\* The worker takes a task.
LEMMA TasksTail ==
  ASSUME NEW n, NEW w \in Seq(Task(n)), w # <<>>, NEW b, NEW R, NEW W, NEW k,
         TasksMeet(w, R, n, k), NoneLost(w, b, W, n, k),
         NEW v, v = Tail(w), NEW t, t = Head(w), NEW N,
         t.type = "listen" => t.fetch \in N
  PROVE  /\ TasksMeet(v, R, n, k) /\ NoneLost(v, b, W \cup N, n, k)
         /\ t.type = "listen" => t.fetch \notin R
         /\ t.type = "remove" => k[t.fetch] # 0
  <1>1. PICK h \in Nat \ {0} : h = Len(w)
    BY EmptySeq, LenProperties
  <1>2. /\ v \in Seq(Task(n)) /\ Len(v) = h - 1 /\ t = w[1]
        /\ \A i \in 1 .. h - 1 : v[i] = w[i + 1]
    BY <1>1, HeadTailProperties
  <1>3. DOMAIN v = 1 .. h - 1 /\ DOMAIN w = 1 .. h
    BY <1>1, <1>2, LenProperties
  <1>4. 1 \in DOMAIN w /\ \A i \in DOMAIN v : i + 1 \in DOMAIN w /\ v[i] = w[i + 1]
    BY <1>2, <1>3
  <1>5. \A i \in DOMAIN w : i # 1 => i - 1 \in DOMAIN v /\ v[i - 1] = w[i]
    <2> TAKE i \in DOMAIN w
    <2> HAVE i # 1
    <2>1. i - 1 \in 1 .. h - 1 /\ (i - 1) + 1 = i
      BY <1>3
    <2> QED BY <1>2, <1>3, <2>1
  <1>6. TasksMeet(v, R, n, k)
    BY <1>4 DEF TasksMeet
  <1>7. NoneLost(v, b, W \cup N, n, k)
    <2> SUFFICES ASSUME NEW f \in 1 .. n, k[f] = 0
                 PROVE  \/ \E i \in DOMAIN v : v[i].type = "listen" /\ v[i].fetch = f
                        \/ f \in W \cup N
                        \/ \E j \in DOMAIN b : b[j].fetch = f
      BY DEF NoneLost
    <2>1. CASE \E i \in DOMAIN w : w[i].type = "listen" /\ w[i].fetch = f
      <3>1. PICK i \in DOMAIN w : w[i].type = "listen" /\ w[i].fetch = f
        BY <2>1
      <3>2. CASE i = 1
        BY <1>2, <3>1, <3>2
      <3>3. CASE i # 1
        <4>1. i - 1 \in DOMAIN v /\ v[i - 1] = w[i]
          BY ONLY <1>5, <3>1, <3>3
        <4> QED BY ONLY <3>1, <4>1
      <3> QED BY <3>2, <3>3
    <2> QED BY <2>1 DEF NoneLost
  <1>8. /\ t.type = "listen" => t.fetch \notin R
        /\ t.type = "remove" => k[t.fetch] # 0
    BY <1>2, <1>4 DEF TasksMeet
  <1> QED BY <1>6, <1>7, <1>8

\* A task is put at the end.
LEMMA TasksAppend ==
  ASSUME NEW n, NEW w \in Seq(Task(n)), NEW t \in Task(n), NEW b, NEW R, NEW W, NEW k,
         TasksMeet(w, R, n, k), NEW N, NoneLost(w, b, W \cup N, n, k),
         \A f \in N : k[f] = 0 => t.type = "listen" /\ t.fetch = f,
         t.type = "listen" => t.fetch \notin R,
         t.type = "remove" => k[t.fetch] # 0, NEW v, v = Append(w, t)
  PROVE  TasksMeet(v, R, n, k) /\ NoneLost(v, b, W, n, k)
  <1>1. PICK h \in Nat : h = Len(w)
    BY LenProperties
  <1>2. /\ v \in Seq(Task(n)) /\ Len(v) = h + 1 /\ v[h + 1] = t
        /\ \A i \in 1 .. h : v[i] = w[i]
    BY <1>1, AppendProperties
  <1>3. DOMAIN v = 1 .. h + 1 /\ DOMAIN w = 1 .. h
    BY <1>1, <1>2, LenProperties
  <1>4. \A i \in DOMAIN v : \/ i \in DOMAIN w /\ v[i] = w[i]
                            \/ i = h + 1 /\ v[i] = t
    <2> TAKE i \in DOMAIN v
    <2>1. i \in 1 .. h \/ i = h + 1
      BY <1>3
    <2> QED BY <1>2, <1>3, <2>1
  <1>5. h + 1 \in DOMAIN v /\ \A i \in DOMAIN w : i \in DOMAIN v /\ v[i] = w[i]
    BY <1>2, <1>3
  <1>6. TasksMeet(v, R, n, k)
    BY <1>4 DEF TasksMeet
  <1>7. NoneLost(v, b, W, n, k)
    BY <1>2, <1>5 DEF NoneLost
  <1> QED BY <1>6, <1>7

\* The tasks w are left for the worker, who is about to listen to N.
NextTasks(N, w) ==
    /\ w \in Seq(Task(asked)) /\ Unheard(w, sdk.listeners, inbox, calls)
    /\ N \subseteq 1 .. asked
    /\ Outside(w, N) /\ Strangers(inbox, N) /\ \A f \in N : calls[f] = 0
    /\ N \cap sdk.raised = {} /\ TasksMeet(w, sdk.raised, asked, calls)
    /\ NoneLost(w, inbox, (sdk.listeners \ sdk.raised) \cup N, asked, calls)

LEMMA WorkStep ==
  ASSUME Inv, NEW d, NEW N, Work(d), Worked(d, joined', sdk.listeners \cup N),
         NextTasks(N, worker'), N \subseteq d.listeners, joined \subseteq joined', joined' \subseteq 1 .. asked,
         reset' \in BOOLEAN, StillReset(d) => reset', faults' \in 0 .. MaxFaults
  PROVE  Inv'
  <1>1. PICK k : k = [d EXCEPT !.events = <<>>]
    OBVIOUS
  <1>2. /\ sdk' = k /\ inbox' = inbox \o d.events /\ query' = query /\ refused' = refused
        /\ asked' = asked /\ muted' = muted /\ calls' = calls /\ answer' = answer
    BY <1>1 DEF Work, world
  <1>3. /\ d \in Sdk /\ d.listeners \subseteq sdk.listeners \cup N
        /\ Posted(d.events, sdk.listeners \cup N, d.listeners, joined')
        /\ Heralded(d) /\ Calm(k, joined') /\ Tables(k)
    BY <1>1 DEF Worked
  <1>4. /\ k \in Sdk /\ k.listeners = d.listeners /\ k.events = <<>>
        /\ k.online = d.online /\ k.timer = d.timer /\ k.stream = d.stream
        /\ k.raised = d.raised
    <2>1. <<>> \in Seq(FetchEvent)
      BY EmptySeq
    <2> QED BY <1>1, <1>3, <2>1 DEF Sdk
  <1>5. Consistent(sdk, joined)' /\ Tables(sdk)'
    <2>1. PICK J : J = joined'
      OBVIOUS
    <2>2. UNCHANGED world
      BY <1>2 DEF world
    <2> QED BY ONLY <1>2, <1>3, <2>1, <2>2, PrimedFacts
  <1>6. (StillReset(sdk) => reset)'
    BY <1>2, <1>4 DEF StillReset
  <1>7. /\ Posted(inbox, 1 .. asked, sdk.listeners, joined)
        /\ CalledOnce(calls, muted, asked, sdk.listeners, inbox)
        /\ AnswersOwn(answer, joined) /\ sdk.listeners \subseteq 1 .. asked
    BY DEF Inv, FetchInv, TypeOK
  <1>8. /\ Unheard(worker', sdk.listeners, inbox, calls) /\ worker' \in Seq(Task(asked))
        /\ N \subseteq 1 .. asked
        /\ Outside(worker', N) /\ Strangers(inbox, N) /\ \A f \in N : calls[f] = 0
        /\ N \cap sdk.raised = {} /\ TasksMeet(worker', sdk.raised, asked, calls)
        /\ NoneLost(worker', inbox, (sdk.listeners \ sdk.raised) \cup N, asked, calls)
    BY DEF NextTasks
  <1>9. /\ Posted(inbox', 1 .. asked, d.listeners, joined')
        /\ Known(inbox', inbox, sdk.listeners \cup N)
    <2>1. sdk.listeners \cup N \subseteq 1 .. asked
      BY <1>7, <1>8
    <2> QED BY <1>2, <1>3, <1>7, <1>8, <2>1, PostedMore
  <1>10. Unheard(worker', d.listeners, inbox', calls)
    BY <1>3, <1>8, <1>9, UnheardOn
  <1>11. CalledOnce(calls, muted, asked, d.listeners, inbox')
    BY <1>3, <1>7, <1>8, <1>9, CalledOn
  <1>12. AnswersOwn(answer', joined')
    BY <1>2, <1>7 DEF AnswersOwn
  <1>13. FetchInv'
    <2>1. /\ Posted(inbox', 1 .. asked', sdk'.listeners, joined')
          /\ Unheard(worker', sdk'.listeners, inbox', calls')
          /\ CalledOnce(calls', muted', asked', sdk'.listeners, inbox')
          /\ AnswersOwn(answer', joined')
      BY <1>2, <1>4, <1>9, <1>10, <1>11, <1>12
    <2>2. TasksMeet(worker', d.raised, asked, calls)
      <3>1. d.raised \subseteq sdk.raised \cup sdk.listeners \cup N
        BY <1>3 DEF Heralded
      <3>2. d.raised \subseteq 1 .. asked
        BY <1>7, <1>8, <3>1 DEF TasksMeet
      <3>3. \A i \in DOMAIN worker' :
               /\ worker'[i].type = "listen" => worker'[i].fetch \notin d.raised
               /\ worker'[i].type = "remove" => calls[worker'[i].fetch] # 0
        <4> TAKE i \in DOMAIN worker'
        <4>1. worker'[i].type = "listen" =>
                 worker'[i].fetch \notin sdk.raised \cup sdk.listeners \cup N
          BY <1>8 DEF TasksMeet, Unheard, Outside
        <4>2. worker'[i].type = "remove" => calls[worker'[i].fetch] # 0
          BY <1>8 DEF TasksMeet
        <4> QED BY <3>1, <4>1, <4>2
      <3> QED BY <3>2, <3>3 DEF TasksMeet
    <2>3. NoneLost(worker', inbox', d.listeners \ d.raised, asked, calls)
      <3>1. Within(inbox, inbox') /\ Within(d.events, inbox')
        <4>1. inbox \in Seq(FetchEvent) /\ d.events \in Seq(FetchEvent)
          BY <1>3, <1>7 DEF Posted
        <4>2. Within(inbox, inbox \o d.events) /\ Within(d.events, inbox \o d.events)
          BY ONLY <4>1, ListsOfJoined
        <4> QED BY <1>2, <4>2
      <3>2. ASSUME NEW f \in (sdk.listeners \ sdk.raised) \cup N, calls[f] = 0
            PROVE  \/ f \in d.listeners \ d.raised
                   \/ \E i \in DOMAIN inbox' : inbox'[i].fetch = f
        <4>1. f \in (sdk.listeners \cup d.listeners) \ sdk.raised
          BY <1>8, <3>2
        <4>2. \/ f \in d.listeners \ d.raised
              \/ \E i \in DOMAIN d.events : d.events[i].fetch = f
          BY <1>3, <3>2, <4>1 DEF Heralded
        <4> QED BY <3>1, <4>2 DEF Within
      <3>3. ASSUME NEW f \in 1 .. asked, calls[f] = 0
            PROVE  \/ \E i \in DOMAIN worker' :
                         worker'[i].type = "listen" /\ worker'[i].fetch = f
                   \/ f \in d.listeners \ d.raised
                   \/ \E i \in DOMAIN inbox' : inbox'[i].fetch = f
        <4>1. \/ \E i \in DOMAIN worker' :
                    worker'[i].type = "listen" /\ worker'[i].fetch = f
              \/ f \in (sdk.listeners \ sdk.raised) \cup N
              \/ \E j \in DOMAIN inbox : inbox[j].fetch = f
          BY <1>8, <3>3 DEF NoneLost
        <4> QED BY <3>1, <3>2, <3>3, <4>1 DEF Within
      <3> QED BY <3>3 DEF NoneLost
    <2>4. /\ TasksMeet(worker', sdk'.raised, asked', calls')
          /\ NoneLost(worker', inbox', sdk'.listeners \ sdk'.raised, asked', calls')
      BY <1>2, <1>4, <2>2, <2>3
    <2> QED BY <2>1, <2>4 DEF FetchInv
  <1>14. TypeOK'
    <2>1. query' \in [Fetch -> Query] /\ refused' \subseteq Query /\ asked' \in 0 .. MaxFetches
      BY <1>2 DEF Inv, TypeOK
    <2>2. worker' \in Seq([type : {"listen", "remove"}, fetch : 1 .. asked'])
      BY <1>2, <1>8 DEF Task
    <2>3. inbox' \in Seq(FetchEvent) /\ muted' \subseteq 1 .. asked'
      BY <1>2, <1>9 DEF Inv, TypeOK, Posted
    <2>4. /\ sdk' \in Sdk /\ sdk'.listeners \subseteq 1 .. asked' /\ sdk'.events = <<>>
      BY <1>2, <1>3, <1>4, <1>7, <1>8
    <2>5. sdk'.synced \subseteq sdk'.views
      BY <1>2, <1>3 DEF Tables
    <2>6. /\ calls' \in [Fetch -> Nat]
          /\ answer' \in [Fetch -> Answer \cup {[from |-> "nowhere", fresh |-> FALSE]}]
      BY <1>2 DEF Inv, TypeOK
    <2> QED BY <1>2, <2>1, <2>2, <2>3, <2>4, <2>5, <2>6 DEF TypeOK
  <1> QED BY <1>5, <1>6, <1>13, <1>14 DEF Inv

(***************************************************************************)
(* The steps.                                                              *)
(***************************************************************************)
LEMMA TypeFacts ==
  ASSUME Inv
  PROVE  /\ Query1 /\ asked \in 0 .. MaxFetches /\ asked \in Nat
         /\ sdk \in Sdk /\ sdk.events = <<>> /\ sdk.listeners \subseteq 1 .. asked
         /\ worker \in Seq(Task(asked)) /\ 1 .. asked \subseteq Fetch
         /\ Tables(sdk) /\ Consistent(sdk, joined) /\ Linked(sdk)
         /\ Answering(sdk, joined) /\ joined \subseteq 1 .. asked
         /\ reset \in BOOLEAN /\ faults \in 0 .. MaxFaults /\ MaxFaults \in Nat
         /\ Calm(sdk, joined) /\ (StillReset(sdk) => reset)
  <1>1. asked \in 0 .. MaxFetches /\ asked \in Nat /\ 1 .. asked \subseteq Fetch
    BY FetchesAssumption DEF Inv, TypeOK, Fetch
  <1>2. Calm(sdk, joined)
    BY CalmFacts DEF Inv
  <1> QED BY <1>1, <1>2, FetchesAssumption DEF Inv, TypeOK, Query1, Task, Consistent

\* A callback that keeps the listeners, or takes some away.
LEMMA CallbackStep ==
  ASSUME Inv, NEW d, Callback(d), Worked(d, joined, sdk.listeners),
         StillReset(d) => StillReset(sdk), faults' \in 0 .. MaxFaults
  PROVE  Inv'
  <1>1. /\ Work(d) /\ reset' = (reset /\ StillReset(d))
        /\ worker' = worker /\ joined' = joined
    BY DEF Callback
  <1>2. Worked(d, joined', sdk.listeners \cup {})
    BY <1>1
  <1>3. NextTasks({}, worker')
    <2>1. /\ Unheard(worker, sdk.listeners, inbox, calls)
          /\ TasksMeet(worker, sdk.raised, asked, calls)
          /\ NoneLost(worker, inbox, sdk.listeners \ sdk.raised, asked, calls)
      BY DEF Inv, FetchInv
    <2>2. (sdk.listeners \ sdk.raised) \cup {} = sdk.listeners \ sdk.raised
      OBVIOUS
    <2> QED BY <1>1, <2>1, <2>2, TypeFacts DEF NextTasks, Outside, Strangers
  <1>4. joined \subseteq joined' /\ joined' \subseteq 1 .. asked
    BY <1>1, TypeFacts
  <1>5. reset' \in BOOLEAN
    BY <1>1
  <1>6. StillReset(d) => reset'
    BY <1>1, TypeFacts
  <1> QED BY <1>1, <1>2, <1>3, <1>4, <1>5, <1>6, WorkStep

LEMMA StepListen ==
  ASSUME Inv, Listen
  PROVE  Inv'
  <1>1. PICK f, d : f = Head(worker).fetch /\ d = AddQueryListener(sdk, f)
    OBVIOUS
  <1>2. /\ worker # <<>> /\ Head(worker).type = "listen" /\ worker' = Tail(worker)
        /\ Work(d) /\ faults' = faults
        /\ joined' = IF ListenersOf(sdk, query[f]) = {} THEN joined ELSE joined \cup {f}
        /\ reset' = (reset /\ StillReset(d))
    BY <1>1 DEF Listen
  <1>3. /\ Unheard(worker, sdk.listeners, inbox, calls)
        /\ TasksMeet(worker, sdk.raised, asked, calls)
        /\ NoneLost(worker, inbox, sdk.listeners \ sdk.raised, asked, calls)
    BY DEF Inv, FetchInv
  <1>4. PICK v, h : v = Tail(worker) /\ h = Head(worker)
    OBVIOUS
  <1>5. /\ h \in Task(asked) /\ v \in Seq(Task(asked))
        /\ Unheard(v, sdk.listeners, inbox, calls)
        /\ h.fetch \notin sdk.listeners /\ calls[h.fetch] = 0
        /\ \A j \in DOMAIN inbox : inbox[j].fetch # h.fetch
        /\ Outside(v, {h.fetch})
    <2>1. worker \in Seq(Task(asked))
      BY TypeFacts
    <2>2. Taken(h, v, asked, sdk.listeners, inbox, calls)
      BY <1>2, <1>3, <1>4, <2>1, UnheardTail
    <2> QED BY <1>2, <1>4, <2>2 DEF Taken
  <1>6. f = h.fetch /\ f \in 1 .. asked /\ f \in Fetch \ sdk.listeners
    BY <1>1, <1>4, <1>5, TypeFacts DEF Task
  <1>7. NextTasks({f}, worker') /\ f \notin sdk.raised
    <2>1. worker \in Seq(Task(asked))
      BY TypeFacts
    <2>2. PICK N : N = {f}
      OBVIOUS
    <2>3. h.type = "listen" /\ h.fetch \in N
      BY <1>2, <1>4, <1>6, <2>2
    <2>4. /\ TasksMeet(v, sdk.raised, asked, calls) /\ h.fetch \notin sdk.raised
          /\ NoneLost(v, inbox, (sdk.listeners \ sdk.raised) \cup N, asked, calls)
      <3>1. PICK w, R, W : w = worker /\ R = sdk.raised /\ W = sdk.listeners \ sdk.raised
        OBVIOUS
      <3>2. /\ w \in Seq(Task(asked)) /\ w # <<>> /\ v = Tail(w) /\ h = Head(w)
            /\ TasksMeet(w, R, asked, calls) /\ NoneLost(w, inbox, W, asked, calls)
        BY ONLY <1>2, <1>3, <1>4, <2>1, <3>1
      <3>3. /\ TasksMeet(v, R, asked, calls) /\ h.fetch \notin R
            /\ NoneLost(v, inbox, W \cup N, asked, calls)
        BY ONLY <2>3, <3>2, TasksTail
      <3> QED BY ONLY <3>1, <3>3
    <2> QED BY <1>2, <1>4, <1>5, <1>6, <2>2, <2>4 DEF NextTasks, Strangers
  <1>8. /\ Consistent(d, joined') /\ Tables(d) /\ d.listeners = sdk.listeners \cup {f}
        /\ StillReset(d) => StillReset(sdk)
    <2>1. CASE ListenersOf(sdk, query[f]) = {}
      BY <1>1, <1>2, <1>6, <1>7, <2>1, TypeFacts, OpensQuery
    <2>2. CASE ListenersOf(sdk, query[f]) # {}
      <3>1. PICK J : J = joined \cup {f}
        OBVIOUS
      <3>2. /\ Consistent(d, joined \cup {f}) /\ Tables(d)
            /\ d.listeners = sdk.listeners \cup {f} /\ (StillReset(d) <=> StillReset(sdk))
        BY <1>1, <1>6, <1>7, <2>2, TypeFacts, JoinsQuery
      <3> QED BY <1>2, <2>2, <3>2
    <2> QED BY <2>1, <2>2
  <1>9. Worked(d, joined', sdk.listeners \cup {f})
    BY <1>8, WorkedFacts
  <1>10. joined \subseteq joined' /\ joined' \subseteq 1 .. asked
    BY <1>2, <1>6, TypeFacts
  <1>11. reset' \in BOOLEAN /\ faults' \in 0 .. MaxFaults
    BY <1>2, TypeFacts
  <1>12. StillReset(d) => reset'
    BY <1>2, <1>8, TypeFacts
  <1>13. {f} \subseteq d.listeners
    BY <1>8
  <1> QED BY <1>2, <1>7, <1>9, <1>10, <1>11, <1>12, <1>13, WorkStep

LEMMA StepStopListening ==
  ASSUME Inv, StopListening
  PROVE  Inv'
  <1>1. PICK f, d : f = Head(worker).fetch /\ d = RemoveQueryListener(sdk, f)
    OBVIOUS
  <1>2. /\ worker # <<>> /\ Head(worker).type = "remove" /\ worker' = Tail(worker) /\ Work(d) /\ faults' = faults
        /\ joined' = joined /\ reset' = (StillReset(d) /\ (reset \/ d.targets = {}))
    BY <1>1 DEF StopListening
  <1>3. /\ Unheard(worker, sdk.listeners, inbox, calls)
        /\ TasksMeet(worker, sdk.raised, asked, calls)
        /\ NoneLost(worker, inbox, sdk.listeners \ sdk.raised, asked, calls)
    BY DEF Inv, FetchInv
  <1>4. PICK v, h : v = Tail(worker) /\ h = Head(worker)
    OBVIOUS
  <1>5. /\ h \in Task(asked) /\ v \in Seq(Task(asked))
        /\ Unheard(v, sdk.listeners, inbox, calls)
    <2>1. worker \in Seq(Task(asked))
      BY TypeFacts
    <2>2. Taken(h, v, asked, sdk.listeners, inbox, calls)
      BY <1>2, <1>3, <1>4, <2>1, UnheardTail
    <2> QED BY <2>2 DEF Taken
  <1>6. f \in Fetch
    BY <1>1, <1>4, <1>5, TypeFacts DEF Task
  <1>7. NextTasks({}, worker') /\ calls[f] # 0
    <2>1. worker \in Seq(Task(asked))
      BY TypeFacts
    <2>2. h.type = "remove"
      BY <1>2, <1>4
    <2>3. /\ TasksMeet(v, sdk.raised, asked, calls) /\ calls[h.fetch] # 0
          /\ NoneLost(v, inbox, (sdk.listeners \ sdk.raised) \cup {}, asked, calls)
      <3>1. PICK w, R, W, N : /\ w = worker /\ R = sdk.raised /\ W = sdk.listeners \ sdk.raised
                              /\ N = {}
        OBVIOUS
      <3>2. /\ w \in Seq(Task(asked)) /\ w # <<>> /\ v = Tail(w) /\ h = Head(w)
            /\ TasksMeet(w, R, asked, calls) /\ NoneLost(w, inbox, W, asked, calls)
        BY ONLY <1>2, <1>3, <1>4, <2>1, <3>1
      <3>3. h.type = "listen" => h.fetch \in N
        BY <2>2
      <3>4. /\ TasksMeet(v, R, asked, calls) /\ calls[h.fetch] # 0
            /\ NoneLost(v, inbox, W \cup N, asked, calls)
        BY ONLY <2>2, <3>2, <3>3, TasksTail
      <3> QED BY ONLY <3>1, <3>4
    <2> QED BY <1>1, <1>2, <1>4, <1>5, <2>3 DEF NextTasks, Strangers, Outside
  <1>8. /\ Consistent(d, joined) /\ Tables(d) /\ d.listeners = sdk.listeners \ {f}
        /\ StillReset(d) => StillReset(sdk) \/ d.targets = {}
    BY <1>1, <1>6, <1>7, TypeFacts, RemoveFacts
  <1>9. Worked(d, joined', sdk.listeners \cup {})
    <2>1. Worked(d, joined, sdk.listeners)
      BY <1>8, WorkedFacts
    <2> QED BY <1>2, <2>1
  <1>10. joined \subseteq joined' /\ joined' \subseteq 1 .. asked
    BY <1>2, TypeFacts
  <1>11. reset' \in BOOLEAN /\ faults' \in 0 .. MaxFaults
    BY <1>2, TypeFacts
  <1>12. StillReset(d) => reset'
    BY <1>2, <1>8, TypeFacts
  <1> QED BY <1>2, <1>7, <1>9, <1>10, <1>11, <1>12, WorkStep

LEMMA StepStreamOpens ==
  ASSUME Inv, StreamOpens
  PROVE  Inv'
  <1>1. PICK d : d = OnWatchStreamOpen([sdk EXCEPT !.stream = Opened(@)])
    OBVIOUS
  <1>2. sdk.stream.state = "Starting" /\ Callback(d) /\ faults' = faults
    BY <1>1 DEF StreamOpens
  <1>3. /\ Consistent(d, joined) /\ Tables(d) /\ d.listeners = sdk.listeners
        /\ StillReset(d) => StillReset(sdk)
    <2>1. PICK c : c = sdk
      OBVIOUS
    <2>2. /\ Query1 /\ Consistent(c, joined) /\ Tables(c) /\ c.stream.state = "Starting"
          /\ d = OnWatchStreamOpen([c EXCEPT !.stream = Opened(@)])
      BY <1>1, <1>2, <2>1, TypeFacts
    <2>3. /\ Consistent(d, joined) /\ Tables(d) /\ d.listeners = c.listeners
          /\ StillReset(d) => StillReset(c)
      BY ONLY <2>2, OpenFacts
    <2> QED BY ONLY <2>1, <2>3
  <1>4. Worked(d, joined, sdk.listeners)
    BY <1>3, WorkedFacts
  <1> QED BY <1>2, <1>3, <1>4, TypeFacts, CallbackStep

\* The steps after which the stream is not open.
LEMMA ClosingStep ==
  ASSUME Inv, NEW d, Callback(d), faults' \in 0 .. MaxFaults,
         Answering(d, joined), KeepTables(sdk, d), Linked(d), Started(d),
         ~IsOpen(d.stream), ~StillReset(d)
  PROVE  Inv'
  <1>1. Consistent(d, joined)
    BY QuietFacts DEF Consistent
  <1>2. Tables(d) /\ d.listeners = sdk.listeners
    BY TypeFacts DEF Tables, KeepTables
  <1>3. Worked(d, joined, sdk.listeners)
    BY <1>1, <1>2, WorkedFacts
  <1> QED BY <1>3, CallbackStep

LEMMA StepStreamFails ==
  ASSUME Inv, StreamFails
  PROVE  Inv'
  <1>1. PICK d, g : d = CloseStream(sdk, g) /\ g = FALSE
    OBVIOUS
  <1>2. Callback(d) /\ faults' \in 0 .. MaxFaults
    <2>1. Callback(d) /\ faults < MaxFaults /\ faults' = faults + 1
      BY <1>1 DEF StreamFails, Fault
    <2>2. faults \in 0 .. MaxFaults /\ MaxFaults \in Nat
      BY TypeFacts
    <2> QED BY <2>1, <2>2
  <1>3. g \in BOOLEAN
    BY <1>1
  <1>4. /\ Answering(d, joined) /\ KeepTables(sdk, d) /\ Linked(d)
        /\ Started(d) /\ ~IsOpen(d.stream) /\ ~StillReset(d)
    BY <1>1, <1>3, TypeFacts, CloseStreamFacts
  <1> QED BY <1>2, <1>4, ClosingStep

LEMMA StepIdleElapses ==
  ASSUME Inv, IdleElapses
  PROVE  Inv'
  <1>1. PICK d, g : d = CloseStream(sdk, g) /\ g = TRUE
    OBVIOUS
  <1>2. Callback(d) /\ faults' \in 0 .. MaxFaults
    BY <1>1, TypeFacts DEF IdleElapses
  <1>3. g \in BOOLEAN
    BY <1>1
  <1>4. /\ Answering(d, joined) /\ KeepTables(sdk, d) /\ Linked(d)
        /\ Started(d) /\ ~IsOpen(d.stream) /\ ~StillReset(d)
    BY <1>1, <1>3, TypeFacts, CloseStreamFacts
  <1> QED BY <1>2, <1>4, ClosingStep

LEMMA StepAccountChanges ==
  ASSUME Inv, AccountChanges
  PROVE  Inv'
  <1>1. PICK d : d = HandleCredentialChange(sdk)
    OBVIOUS
  <1>2. Callback(d) /\ faults' \in 0 .. MaxFaults
    BY <1>1, TypeFacts DEF AccountChanges, Fault
  <1>3. /\ Answering(d, joined) /\ KeepTables(sdk, d) /\ Linked(d)
        /\ Started(d) /\ ~IsOpen(d.stream) /\ ~StillReset(d)
    BY <1>1, TypeFacts, CredentialFacts
  <1> QED BY <1>2, <1>3, ClosingStep

LEMMA StepBackoffElapses ==
  ASSUME Inv, BackoffElapses
  PROVE  Inv'
  <1>1. PICK d : d = [sdk EXCEPT !.stream = BackoffElapsed(@)]
    OBVIOUS
  <1>2. sdk.stream.state = "Backoff" /\ Callback(d) /\ faults' = faults
    BY <1>1 DEF BackoffElapses
  <1>3. /\ Consistent(d, joined) /\ Tables(d) /\ d.listeners = sdk.listeners
        /\ StillReset(d) => StillReset(sdk)
    BY <1>1, <1>2, TypeFacts, BackoffFacts
  <1>4. Worked(d, joined, sdk.listeners)
    BY <1>3, WorkedFacts
  <1> QED BY <1>2, <1>3, <1>4, TypeFacts, CallbackStep

LEMMA StepOnlineTimerFires ==
  ASSUME Inv, OnlineTimerFires
  PROVE  Inv'
  <1>1. PICK d : d = Broadcast([sdk EXCEPT !.timer = FALSE], "Offline")
    OBVIOUS
  <1>2. Callback(d) /\ faults' = faults /\ sdk.timer
    BY <1>1 DEF OnlineTimerFires
  <1>3. /\ Consistent(d, joined) /\ Tables(d) /\ d.listeners = sdk.listeners
        /\ ~StillReset(d)
    BY <1>1, <1>2, TypeFacts, TimerFacts
  <1>4. Worked(d, joined, sdk.listeners)
    BY <1>3, WorkedFacts
  <1> QED BY <1>2, <1>3, <1>4, TypeFacts, CallbackStep

LEMMA StepReadMessage ==
  ASSUME Inv, ReadMessage
  PROVE  Inv'
  <1>1. PICK m, g : /\ m = Head(sdk.stream.messages)
                    /\ g = UpdateState([sdk EXCEPT !.stream.messages = Tail(@)], "Online")
    OBVIOUS
  <1>2. PICK c, d : /\ c = [sdk EXCEPT !.stream.messages = Tail(@)]
                    /\ d = OnWatchStreamChange(c, m)
    OBVIOUS
  <1>3. sdk.stream.messages # <<>> /\ Callback(d) /\ faults' = faults
    BY <1>1, <1>2 DEF ReadMessage
  <1>4. Reading(g, joined, m) /\ g.listeners = sdk.listeners
    BY <1>1, <1>3, TypeFacts, ReadingFacts
  <1>5. g.online = "Online" /\ m \in Message
    BY <1>4 DEF Reading
  <1>6. Worked(d, joined, sdk.listeners) /\ d.online = "Online"
    <2>1. CASE m.type \in {"added", "removed"}
      <3>1. d = RecordTargetResponse(g, m.query)
        BY <1>1, <1>2, <2>1 DEF OnWatchStreamChange
      <3>2. /\ Consistent(d, joined) /\ Tables(d) /\ d.listeners = g.listeners
            /\ d.online = g.online
        BY <1>4, <2>1, <3>1, RespondedFacts
      <3> QED BY <1>4, <1>5, <3>2, WorkedFacts
    <2>2. CASE m.type = "current"
      <3>1. d = ApplyRemoteEvent(g, m)
        BY <1>1, <1>2, <2>2 DEF OnWatchStreamChange
      <3>2. /\ Consistent(d, joined) /\ Tables(d) /\ d.listeners = g.listeners
            /\ d.online = g.online
        BY <1>4, <2>2, <3>1, TypeFacts, AppliedFacts
      <3> QED BY <1>4, <1>5, <3>2, WorkedFacts
    <2>3. CASE m.type = "error"
      <3>1. d = ProcessTargetError(g, m.query)
        BY <1>1, <1>2, <2>3 DEF OnWatchStreamChange
      <3>2. Worked(d, joined, g.listeners) /\ d.online = g.online
        BY <1>4, <2>3, <3>1, TypeFacts, RefusedFacts
      <3> QED BY <1>4, <1>5, <3>2
    <2> QED BY <1>5, <2>1, <2>2, <2>3 DEF Message
  <1>7. ~StillReset(d)
    BY <1>6 DEF StillReset
  <1> QED BY <1>3, <1>6, <1>7, TypeFacts, CallbackStep

LEMMA ServeStep ==
  ASSUME Inv, NEW s, Serve(s), NEW d, d = [sdk EXCEPT !.stream = s],
         Served(sdk, d, joined)
  PROVE  Inv'
  <1>1. /\ sdk' = d /\ query' = query /\ refused' = refused /\ asked' = asked
        /\ worker' = worker /\ inbox' = inbox /\ muted' = muted /\ calls' = calls
        /\ answer' = answer /\ joined' = joined /\ faults' = faults /\ reset' = reset
    BY DEF Serve, world, history
  <1>2. Consistent(sdk, joined)' /\ Tables(sdk)'
    <2>1. UNCHANGED world
      BY <1>1 DEF world
    <2>2. Calm(d, joined) /\ Tables(d)
      BY CalmFacts DEF Served
    <2> QED BY <1>1, <2>1, <2>2, PrimedFacts
  <1>3. d \in Sdk /\ d.synced \subseteq d.views
    BY DEF Served, Consistent, Answering, Tables
  <1>4. TypeOK'
    BY <1>1, <1>3 DEF Inv, TypeOK, Served
  <1>5. FetchInv'
    <2>1. /\ Posted(inbox', 1 .. asked', sdk'.listeners, joined')
          /\ Unheard(worker', sdk'.listeners, inbox', calls')
          /\ CalledOnce(calls', muted', asked', sdk'.listeners, inbox')
          /\ AnswersOwn(answer', joined')
          /\ TasksMeet(worker', sdk'.raised, asked', calls')
          /\ NoneLost(worker', inbox', sdk'.listeners \ sdk'.raised, asked', calls')
      BY <1>1 DEF Inv, FetchInv, Served
    <2> QED BY <2>1 DEF FetchInv
  <1>6. (StillReset(sdk) => reset)'
    <2>1. StillReset(d) => reset
      BY DEF Inv, Served
    <2> QED BY <1>1, <2>1 DEF StillReset
  <1> QED BY <1>2, <1>4, <1>5, <1>6 DEF Inv

LEMMA StepServerAnswers ==
  ASSUME Inv, ServerAnswers
  PROVE  Inv'
  <1>1. PICK r, c : r = Head(sdk.stream.sent) /\ c = sdk.stream
    OBVIOUS
  <1>2. /\ sdk.stream.sent # <<>> /\ c \in WatchStream
        /\ c.behind \in SUBSET Query /\ c.behind \cap refused = {} /\ r \in Request
    <2>1. sdk.stream.sent # <<>>
      BY DEF ServerAnswers
    <2>2. c \in WatchStream /\ c.behind \in SUBSET Query /\ c.sent \in Seq(Request)
      BY <1>1, TypeFacts, StreamTypes DEF Sdk
    <2>3. r \in Request
      BY <1>1, <2>1, <2>2, HeadTailProperties
    <2>4. c.behind \cap refused = {}
      BY <1>1, TypeFacts DEF Consistent, Judged
    <2> QED BY <2>1, <2>2, <2>3, <2>4
  <1>3. r.query \in Query /\ r.type \in {"watch", "unwatch"}
    BY <1>2 DEF Request
  <1>4. \/ /\ r.type = "watch" /\ r.query \notin refused
           /\ Serve([c EXCEPT !.sent = Tail(@), !.behind = @ \cup {r.query},
                              !.messages = Append(@, [type |-> "added", query |-> r.query])])
        \/ /\ r.type = "watch" /\ r.query \in refused
           /\ Serve([c EXCEPT !.sent = Tail(@),
                              !.messages = Append(@, [type |-> "error", query |-> r.query])])
        \/ /\ r.type = "unwatch"
           /\ Serve([c EXCEPT !.sent = Tail(@), !.behind = @ \ {r.query},
                              !.messages = Append(@, [type |-> "removed", query |-> r.query])])
    BY <1>1 DEF ServerAnswers
  <1>5. PICK msg, behind, s :
           /\ msg \in Message /\ msg.query = r.query
           /\ \/ msg.type \in {"added", "removed"}
              \/ msg.type = "error" /\ r.query \in refused
           /\ behind \in SUBSET Query /\ behind \cap refused = {}
           /\ \A p \in c.behind : p # r.query => p \in behind
           /\ r.type = "watch" => r.query \in behind \/ msg.type = "error"
           /\ s = [c EXCEPT !.sent = Tail(@), !.behind = behind,
                            !.messages = Append(@, msg)]
           /\ Serve(s)
    <2>1. CASE /\ r.type = "watch" /\ r.query \notin refused
               /\ Serve([c EXCEPT !.sent = Tail(@), !.behind = @ \cup {r.query},
                            !.messages = Append(@, [type |-> "added", query |-> r.query])])
      <3>1. PICK msg : msg = [type |-> "added", query |-> r.query]
        OBVIOUS
      <3>2. PICK behind : behind = c.behind \cup {r.query}
        OBVIOUS
      <3>3. PICK s : s = [c EXCEPT !.sent = Tail(@), !.behind = behind,
                                   !.messages = Append(@, msg)]
        OBVIOUS
      <3>4. Serve(s)
        BY <2>1, <3>1, <3>2, <3>3
      <3>5. msg \in Message /\ msg.query = r.query /\ msg.type = "added"
        BY <1>3, <3>1 DEF Message
      <3>6. /\ behind \in SUBSET Query /\ behind \cap refused = {}
            /\ \A p \in c.behind : p \in behind
            /\ r.query \in behind
        BY <1>2, <1>3, <2>1, <3>2
      <3> QED BY <3>3, <3>4, <3>5, <3>6
    <2>2. CASE /\ r.type = "watch" /\ r.query \in refused
               /\ Serve([c EXCEPT !.sent = Tail(@),
                            !.messages = Append(@, [type |-> "error", query |-> r.query])])
      <3>1. PICK msg : msg = [type |-> "error", query |-> r.query]
        OBVIOUS
      <3>2. PICK behind : behind = c.behind
        OBVIOUS
      <3>3. PICK s : s = [c EXCEPT !.sent = Tail(@), !.behind = behind,
                                   !.messages = Append(@, msg)]
        OBVIOUS
      <3>4. Serve(s)
        <4>1. s = [c EXCEPT !.sent = Tail(@), !.messages = Append(@, msg)]
          BY <1>2, <3>2, <3>3 DEF WatchStream
        <4> QED BY <2>2, <3>1, <4>1
      <3>5. msg \in Message /\ msg.query = r.query /\ msg.type = "error"
        BY <1>3, <3>1 DEF Message
      <3> QED BY <1>2, <2>2, <3>2, <3>3, <3>4, <3>5
    <2>3. CASE /\ r.type = "unwatch"
               /\ Serve([c EXCEPT !.sent = Tail(@), !.behind = @ \ {r.query},
                            !.messages = Append(@, [type |-> "removed", query |-> r.query])])
      <3>1. PICK msg : msg = [type |-> "removed", query |-> r.query]
        OBVIOUS
      <3>2. PICK behind : behind = c.behind \ {r.query}
        OBVIOUS
      <3>3. PICK s : s = [c EXCEPT !.sent = Tail(@), !.behind = behind,
                                   !.messages = Append(@, msg)]
        OBVIOUS
      <3>4. Serve(s)
        BY <2>3, <3>1, <3>2, <3>3
      <3>5. msg \in Message /\ msg.query = r.query /\ msg.type = "removed"
        BY <1>3, <3>1 DEF Message
      <3>6. /\ behind \in SUBSET Query /\ behind \cap refused = {}
            /\ \A p \in c.behind : p # r.query => p \in behind
        BY <1>2, <1>3, <3>2
      <3> QED BY <2>3, <3>3, <3>4, <3>5, <3>6
    <2> QED BY <1>4, <2>1, <2>2, <2>3
  <1>6. PICK d : d = [sdk EXCEPT !.stream = s]
    OBVIOUS
  <1>7. Served(sdk, d, joined)
    <2>1. Tables(sdk) /\ Consistent(sdk, joined) /\ Query1
      BY TypeFacts
    <2> QED BY ONLY <1>1, <1>2, <1>5, <1>6, <2>1, AnswersFacts
  <1> QED BY <1>5, <1>6, <1>7, ServeStep

LEMMA StepServerCatchesUp ==
  ASSUME Inv, ServerCatchesUp
  PROVE  Inv'
  <1>1. PICK msg : msg = [type |-> "current", queries |-> sdk.stream.behind, covers |-> asked]
    OBVIOUS
  <1>2. PICK s : s = [sdk.stream EXCEPT !.behind = {}, !.messages = Append(@, msg)]
    OBVIOUS
  <1>3. sdk.stream.behind # {} /\ Serve(s)
    BY <1>1, <1>2 DEF ServerCatchesUp
  <1>4. PICK d : d = [sdk EXCEPT !.stream = s]
    OBVIOUS
  <1>5. Served(sdk, d, joined)
    <2>1. /\ Tables(sdk) /\ Consistent(sdk, joined)
          /\ asked \in 0 .. MaxFetches /\ sdk.listeners \subseteq 1 .. asked
      BY TypeFacts
    <2> QED BY ONLY <1>1, <1>2, <1>3, <1>4, <2>1, CatchUpFacts
  <1> QED BY <1>3, <1>4, <1>5, ServeStep

\* The shop asks for one more.
LEMMA StepGetDocuments ==
  ASSUME Inv, GetDocuments
  PROVE  Inv'
  <1>1. PICK n : n = asked + 1
    OBVIOUS
  <1>2. PICK t : t = [type |-> "listen", fetch |-> n]
    OBVIOUS
  <1>3. /\ asked < MaxFetches /\ asked' = n /\ worker' = Append(worker, t)
        /\ query' = query /\ refused' = refused /\ inbox' = inbox /\ muted' = muted
        /\ sdk' = sdk /\ calls' = calls /\ answer' = answer /\ joined' = joined
        /\ faults' = faults /\ reset' = reset
    BY <1>1, <1>2 DEF GetDocuments, world, history
  <1>4. /\ n \in 1 .. MaxFetches /\ n \in Fetch /\ n \in 1 .. n /\ n \notin 1 .. asked
        /\ 1 .. asked \subseteq 1 .. n /\ asked \in Nat /\ n \in Nat
        /\ \A f \in Fetch : f <= asked => f <= n
    BY <1>1, <1>3, TypeFacts, FetchesAssumption DEF Fetch
  <1>5. /\ Posted(inbox, 1 .. asked, sdk.listeners, joined)
        /\ Unheard(worker, sdk.listeners, inbox, calls)
        /\ CalledOnce(calls, muted, asked, sdk.listeners, inbox)
        /\ AnswersOwn(answer, joined) /\ sdk.listeners \subseteq 1 .. asked
        /\ TasksMeet(worker, sdk.raised, asked, calls)
        /\ NoneLost(worker, inbox, sdk.listeners \ sdk.raised, asked, calls)
    BY DEF Inv, FetchInv, TypeOK
  <1>6. worker \in Seq(Task(n)) /\ t \in Task(n) /\ \A i \in DOMAIN worker : worker[i] # t
    <2>1. worker \in Seq(Task(asked))
      BY TypeFacts
    <2>2. Task(asked) \subseteq Task(n) /\ t \notin Task(asked) /\ t \in Task(n)
      BY <1>2, <1>4 DEF Task
    <2>3. \A i \in DOMAIN worker : worker[i] \in Task(asked)
      BY <2>1, LenProperties
    <2>4. ToSet(worker) \subseteq Task(n)
      BY <2>2, <2>3 DEF ToSet
    <2> QED BY <2>1, <2>2, <2>3, <2>4, SeqOfSubset
  <1>7. /\ n \notin sdk.listeners /\ calls[n] = 0
        /\ \A j \in DOMAIN inbox : inbox[j].fetch # n
    <2>1. n \notin sdk.listeners /\ \A j \in DOMAIN inbox : inbox[j].fetch # n
      BY <1>4, <1>5 DEF Posted
    <2>2. calls[n] \in Nat
      BY <1>4 DEF Inv, TypeOK
    <2>3. calls[n] <= 1 /\ (calls[n] = 1 => n <= asked)
      BY <1>4, <1>5 DEF CalledOnce
    <2>4. ~(n <= asked)
      BY ONLY <1>1, <1>4
    <2> QED BY <2>1, <2>2, <2>3, <2>4
  <1>8. worker' \in Seq(Task(n)) /\ Unheard(worker', sdk.listeners, inbox, calls)
    <2>1. t.type = "listen" => /\ t.fetch \notin sdk.listeners /\ calls[t.fetch] = 0
                               /\ \A j \in DOMAIN inbox : inbox[j].fetch # t.fetch
                               /\ \A i \in DOMAIN worker : worker[i] # t
      BY <1>2, <1>6, <1>7
    <2> QED BY ONLY <1>3, <1>5, <1>6, <2>1, UnheardAppend
  <1>9. Posted(inbox, 1 .. n, sdk.listeners, joined)
    BY <1>4, <1>5 DEF Posted
  <1>10. CalledOnce(calls, muted, n, sdk.listeners, inbox)
    BY <1>4, <1>5 DEF CalledOnce
  <1>11. FetchInv'
    <2>1. /\ Posted(inbox', 1 .. asked', sdk'.listeners, joined')
          /\ Unheard(worker', sdk'.listeners, inbox', calls')
          /\ CalledOnce(calls', muted', asked', sdk'.listeners, inbox')
          /\ AnswersOwn(answer', joined')
      BY <1>3, <1>5, <1>8, <1>9, <1>10
    <2>2. TasksMeet(worker, sdk.raised, n, calls) /\ n \notin sdk.raised
      BY <1>4, <1>5 DEF TasksMeet
    <2>3. PICK W, N : W = sdk.listeners \ sdk.raised /\ N = {n}
      OBVIOUS
    <2>4. NoneLost(worker, inbox, W \cup N, n, calls)
      <3>1. \A f \in 1 .. n : f \in 1 .. asked \/ f \in N
        BY <1>1, <1>4, <2>3
      <3> QED BY <1>5, <2>3, <3>1 DEF NoneLost
    <2>5. /\ \A f \in N : calls[f] = 0 => t.type = "listen" /\ t.fetch = f
          /\ t.type = "listen" => t.fetch \notin sdk.raised
          /\ t.type = "remove" => calls[t.fetch] # 0
      BY <1>2, <2>2, <2>3
    <2>6. TasksMeet(worker', sdk.raised, n, calls) /\ NoneLost(worker', inbox, W, n, calls)
      BY ONLY <1>3, <1>6, <2>2, <2>4, <2>5, TasksAppend
    <2>7. /\ TasksMeet(worker', sdk'.raised, asked', calls')
          /\ NoneLost(worker', inbox', sdk'.listeners \ sdk'.raised, asked', calls')
      BY <1>3, <2>3, <2>6
    <2> QED BY <2>1, <2>7 DEF FetchInv
  <1>12. TypeOK'
    <2>1. asked' \in 0 .. MaxFetches
      BY <1>3, <1>4, FetchesAssumption
    <2>2. worker' \in Seq([type : {"listen", "remove"}, fetch : 1 .. asked'])
      BY <1>3, <1>8 DEF Task
    <2>3. /\ muted' \subseteq 1 .. asked' /\ sdk'.listeners \subseteq 1 .. asked'
          /\ joined' \subseteq 1 .. asked'
      BY <1>3, <1>4 DEF Inv, TypeOK
    <2> QED BY <1>3, <2>1, <2>2, <2>3 DEF Inv, TypeOK
  <1>13. Consistent(sdk, joined)' /\ Tables(sdk)'
    <2>1. UNCHANGED world
      BY <1>3 DEF world
    <2>2. PICK k, J : k = sdk /\ J = joined
      OBVIOUS
    <2>3. sdk' = k /\ joined' = J /\ Calm(k, J) /\ Tables(k)
      BY <1>3, <2>2, TypeFacts
    <2> QED BY ONLY <2>1, <2>3, PrimedFacts
  <1>14. (StillReset(sdk) => reset)'
    BY <1>3 DEF Inv, StillReset
  <1> QED BY <1>11, <1>12, <1>13, <1>14 DEF Inv

\* Event e was the first on its way, c are the others.
Heard(e, c, b, F, M, J) ==
    /\ e \in FetchEvent /\ e.fetch \in F /\ \E i \in DOMAIN b : b[i] = e
    /\ e.from = "server" /\ e.fetch \notin J => e.fresh
    /\ e.from = "error" =>
          e.fetch \notin M /\ \A j \in DOMAIN c : c[j].fetch # e.fetch
    /\ Posted(c, F, M, J) /\ \A j \in DOMAIN c : \E i \in DOMAIN b : b[i] = c[j]
    /\ \A i \in DOMAIN b : b[i] = e \/ \E j \in DOMAIN c : c[j] = b[i]

LEMMA HeardFacts ==
  ASSUME NEW F, NEW M, NEW J, NEW b, Posted(b, F, M, J), b # <<>>,
         NEW e, e = Head(b), NEW c, c = Tail(b)
  PROVE  Heard(e, c, b, F, M, J)
  <1>1. b \in Seq(FetchEvent)
    BY DEF Posted
  <1>2. PICK h \in Nat \ {0} : h = Len(b)
    BY <1>1, EmptySeq, LenProperties
  <1>3. /\ c \in Seq(FetchEvent) /\ Len(c) = h - 1 /\ e = b[1]
        /\ \A i \in 1 .. h - 1 : c[i] = b[i + 1]
    BY <1>1, <1>2, HeadTailProperties
  <1>4. /\ DOMAIN c = 1 .. h - 1 /\ DOMAIN b = 1 .. h
        /\ \A i \in 1 .. h : b[i] \in FetchEvent
    BY <1>1, <1>2, <1>3, LenProperties
  <1>5. 1 \in DOMAIN b
    BY <1>4
  <1>6. \A i \in DOMAIN c : i + 1 \in DOMAIN b /\ c[i] = b[i + 1] /\ i + 1 > 1
    BY <1>3, <1>4
  <1>7. \A i, j \in DOMAIN c : j > i => j + 1 > i + 1
    BY <1>4
  <1>8. ASSUME NEW i \in DOMAIN b
        PROVE  /\ b[i].fetch \in F
               /\ b[i].from = "server" /\ b[i].fetch \notin J => b[i].fresh
               /\ b[i].from = "error" =>
                     /\ b[i].fetch \notin M
                     /\ \A j \in DOMAIN b : j > i => b[j].fetch # b[i].fetch
    BY DEF Posted
  <1>9. Posted(c, F, M, J)
    <2>1. ASSUME NEW i \in DOMAIN c
          PROVE  /\ c[i].fetch \in F
                 /\ c[i].from = "server" /\ c[i].fetch \notin J => c[i].fresh
                 /\ c[i].from = "error" =>
                       /\ c[i].fetch \notin M
                       /\ \A j \in DOMAIN c : j > i => c[j].fetch # c[i].fetch
      <3>1. i + 1 \in DOMAIN b /\ c[i] = b[i + 1]
        BY <1>6
      <3>2. ASSUME c[i].from = "error", NEW j \in DOMAIN c, j > i
            PROVE  c[j].fetch # c[i].fetch
        <4>1. j + 1 \in DOMAIN b /\ c[j] = b[j + 1] /\ j + 1 > i + 1
          BY <1>6, <1>7, <3>2
        <4> QED BY <1>8, <3>1, <3>2, <4>1
      <3> QED BY <1>8, <3>1, <3>2
    <2> QED BY <1>3, <2>1 DEF Posted
  <1>10. e.from = "error" => e.fetch \notin M /\ \A j \in DOMAIN c : c[j].fetch # e.fetch
    BY <1>3, <1>5, <1>6, <1>8
  <1>11. ASSUME NEW i \in DOMAIN b, i # 1
         PROVE  \E j \in DOMAIN c : c[j] = b[i]
    <2>1. i - 1 \in 1 .. h - 1 /\ (i - 1) + 1 = i
      BY <1>4, <1>11
    <2> QED BY <1>3, <1>4, <2>1
  <1>12. \A i \in DOMAIN b : b[i] = e \/ \E j \in DOMAIN c : c[j] = b[i]
    BY <1>3, <1>11
  <1> QED BY <1>3, <1>4, <1>5, <1>6, <1>8, <1>9, <1>10, <1>12 DEF Heard

LEMMA StepHearEvent ==
  ASSUME Inv, HearEvent
  PROVE  Inv'
  <1>1. PICK e, c : e = Head(inbox) /\ c = Tail(inbox)
    OBVIOUS
  <1>2. PICK f : f = e.fetch
    OBVIOUS
  <1>3. /\ inbox # <<>> /\ inbox' = c
        /\ IF f \in muted
           THEN worker' = worker /\ muted' = muted /\ calls' = calls /\ answer' = answer
           ELSE /\ calls' = [calls EXCEPT ![f] = @ + 1]
                /\ answer' = [answer EXCEPT ![f] = [from |-> e.from, fresh |-> e.fresh]]
                /\ IF e.from = "error" THEN worker' = worker /\ muted' = muted
                   ELSE /\ muted' = muted \cup {f}
                        /\ worker' = Append(worker, [type |-> "remove", fetch |-> f])
    BY <1>1, <1>2 DEF HearEvent
  <1>4. /\ query' = query /\ refused' = refused /\ asked' = asked /\ sdk' = sdk
        /\ joined' = joined /\ faults' = faults /\ reset' = reset
    BY DEF HearEvent, world
  <1>5. /\ Posted(inbox, 1 .. asked, sdk.listeners, joined)
        /\ Unheard(worker, sdk.listeners, inbox, calls)
        /\ CalledOnce(calls, muted, asked, sdk.listeners, inbox)
        /\ AnswersOwn(answer, joined) /\ worker \in Seq(Task(asked))
        /\ calls \in [Fetch -> Nat] /\ muted \subseteq 1 .. asked
        /\ answer \in [Fetch -> Answer \cup {[from |-> "nowhere", fresh |-> FALSE]}]
        /\ TasksMeet(worker, sdk.raised, asked, calls)
        /\ NoneLost(worker, inbox, sdk.listeners \ sdk.raised, asked, calls)
    BY TypeFacts DEF Inv, FetchInv, TypeOK
  <1>6. Heard(e, c, inbox, 1 .. asked, sdk.listeners, joined)
    BY <1>1, <1>3, <1>5, HeardFacts
  <1>7. /\ e \in FetchEvent /\ f \in 1 .. asked /\ f \in Fetch
        /\ e.from \in {"server", "cache", "error"} /\ e.fresh \in BOOLEAN
        /\ e.from = "server" /\ f \notin joined => e.fresh
        /\ e.from = "error" =>
              f \notin sdk.listeners /\ \A j \in DOMAIN c : c[j].fetch # f
        /\ Posted(c, 1 .. asked, sdk.listeners, joined)
        /\ \A j \in DOMAIN c : \E i \in DOMAIN inbox : inbox[i] = c[j]
        /\ \E i \in DOMAIN inbox : inbox[i].fetch = f
        /\ \A i \in DOMAIN inbox : inbox[i].fetch # f =>
              \E j \in DOMAIN c : c[j].fetch = inbox[i].fetch
    BY <1>2, <1>6, TypeFacts DEF Heard, FetchEvent
  <1>8. Unheard(worker, sdk.listeners, c, calls)
    BY <1>5, <1>7 DEF Unheard
  <1>9. CalledOnce(calls, muted, asked, sdk.listeners, c)
    BY <1>5, <1>7 DEF CalledOnce
  <1>14. /\ query' \in [Fetch -> Query] /\ refused' \subseteq Query
         /\ asked' \in 0 .. MaxFetches /\ sdk' \in Sdk
         /\ sdk'.listeners \subseteq 1 .. asked' /\ sdk'.synced \subseteq sdk'.views
         /\ sdk'.events = <<>> /\ joined' \subseteq 1 .. asked'
         /\ reset' \in BOOLEAN /\ faults' \in 0 .. MaxFaults
    BY <1>4 DEF Inv, TypeOK
  <1>10. ASSUME f \in muted PROVE FetchInv' /\ TypeOK'
    <2>1. FetchInv'
      <3>1. /\ Posted(inbox', 1 .. asked', sdk'.listeners, joined')
            /\ Unheard(worker', sdk'.listeners, inbox', calls')
            /\ CalledOnce(calls', muted', asked', sdk'.listeners, inbox')
            /\ AnswersOwn(answer', joined')
        BY <1>3, <1>4, <1>5, <1>7, <1>8, <1>9, <1>10
      <3>2. calls[f] = 1
        BY <1>5, <1>7, <1>10 DEF CalledOnce
      <3>3. NoneLost(worker, c, sdk.listeners \ sdk.raised, asked, calls)
        BY <1>5, <1>7, <3>2 DEF NoneLost
      <3>4. /\ TasksMeet(worker', sdk'.raised, asked', calls')
            /\ NoneLost(worker', inbox', sdk'.listeners \ sdk'.raised, asked', calls')
        BY <1>3, <1>4, <1>5, <1>10, <3>3
      <3> QED BY <3>1, <3>4 DEF FetchInv
    <2>2. TypeOK'
      <3>1. inbox' \in Seq(FetchEvent)
        BY <1>3, <1>7 DEF Posted
      <3>2. /\ worker' = worker /\ muted' = muted /\ calls' = calls /\ answer' = answer
        BY <1>3, <1>10
      <3>3. worker' \in Seq([type : {"listen", "remove"}, fetch : 1 .. asked'])
        BY <1>4, <1>5, <3>2 DEF Task
      <3>4. /\ calls' \in [Fetch -> Nat] /\ muted' \subseteq 1 .. asked'
            /\ answer' \in [Fetch -> Answer \cup {[from |-> "nowhere", fresh |-> FALSE]}]
        BY <1>4, <1>5, <3>2
      <3> QED BY <1>14, <3>1, <3>3, <3>4 DEF TypeOK
    <2> QED BY <2>1, <2>2
  <1>11. ASSUME f \notin muted PROVE FetchInv' /\ TypeOK'
    <2>1. calls[f] = 0
      <3>1. /\ calls[f] <= 1 /\ calls[f] \in Nat
            /\ calls[f] = 1 => \A j \in DOMAIN inbox : inbox[j].fetch # f
        BY <1>5, <1>7, <1>11 DEF CalledOnce
      <3>2. calls[f] # 1
        BY <1>7, <3>1
      <3> QED BY <3>1, <3>2
    <2>2. /\ calls' \in [Fetch -> Nat] /\ calls'[f] = 1
          /\ \A g \in Fetch : g # f => calls'[g] = calls[g]
      BY <1>3, <1>5, <1>7, <1>11, <2>1
    <2>3. Unheard(worker, sdk.listeners, c, calls')
      <3>1. ASSUME NEW i \in DOMAIN worker, worker[i].type = "listen"
            PROVE  calls'[worker[i].fetch] = calls[worker[i].fetch]
        <4>1. worker[i].fetch # f
          BY <1>5, <1>7, <3>1 DEF Unheard
        <4>2. worker[i] \in Task(asked)
          BY <1>5, LenProperties
        <4>3. worker[i].fetch \in Fetch
          BY <4>2, TypeFacts DEF Task
        <4> QED BY <2>2, <4>1, <4>3
      <3> QED BY <1>8, <3>1 DEF Unheard
    <2>4. worker' \in Seq(Task(asked)) /\ Unheard(worker', sdk.listeners, c, calls')
      <3>1. CASE e.from = "error"
        BY <1>3, <1>5, <1>11, <2>3, <3>1
      <3>2. CASE e.from # "error"
        <4>1. PICK t : t = [type |-> "remove", fetch |-> f]
          OBVIOUS
        <4>2. t \in Task(asked) /\ t.type # "listen"
          BY <1>7, <4>1 DEF Task
        <4>3. PICK v, k : v = Append(worker, t) /\ k = calls'
          OBVIOUS
        <4>4. v \in Seq(Task(asked)) /\ Unheard(v, sdk.listeners, c, k)
          BY <1>5, <2>3, <4>2, <4>3, UnheardAppend
        <4> QED BY <1>3, <1>11, <3>2, <4>1, <4>3, <4>4
      <3> QED BY <3>1, <3>2
    <2>5. muted' \subseteq 1 .. asked /\ CalledOnce(calls', muted', asked, sdk.listeners, c)
      <3>1. muted' = muted \/ muted' = muted \cup {f}
        BY <1>3, <1>11
      <3>2. f \notin muted' => /\ f \notin sdk.listeners
                               /\ \A j \in DOMAIN c : c[j].fetch # f
        BY <1>3, <1>7, <1>11
      <3>3. f <= asked
        BY <1>7, TypeFacts
      <3>4. \A g \in Fetch : /\ calls'[g] <= 1
                             /\ g \in muted' => calls'[g] = 1
                             /\ calls'[g] = 1 => g <= asked
                             /\ calls'[g] = 1 /\ g \notin muted' =>
                                   /\ g \notin sdk.listeners
                                   /\ \A j \in DOMAIN c : c[j].fetch # g
        <4> TAKE g \in Fetch
        <4>1. CASE g = f
          BY <2>2, <3>2, <3>3, <4>1
        <4>2. CASE g # f
          BY <1>9, <2>2, <3>1, <4>2 DEF CalledOnce
        <4> QED BY <4>1, <4>2
      <3> QED BY <1>5, <1>7, <3>1, <3>4 DEF CalledOnce
    <2>6. /\ answer' \in [Fetch -> Answer \cup {[from |-> "nowhere", fresh |-> FALSE]}]
          /\ AnswersOwn(answer', joined)
      <3>1. PICK a : a = [from |-> e.from, fresh |-> e.fresh]
        OBVIOUS
      <3>2. a \in Answer /\ (a.from = "server" /\ f \notin joined => a.fresh)
        BY <1>7, <3>1 DEF Answer
      <3>3. answer' = [answer EXCEPT ![f] = a]
        BY <1>3, <1>11, <3>1
      <3>4. AnswersOwn(answer', joined)
        <4>1. ASSUME NEW g \in Fetch, answer'[g].from = "server", g \notin joined
              PROVE  answer'[g].fresh
          BY <1>5, <1>7, <3>2, <3>3, <4>1 DEF AnswersOwn
        <4> QED BY <4>1 DEF AnswersOwn
      <3> QED BY <1>5, <1>7, <3>2, <3>3, <3>4
    <2>7. /\ TasksMeet(worker', sdk.raised, asked, calls')
          /\ NoneLost(worker', c, sdk.listeners \ sdk.raised, asked, calls')
      <3>1. \A g \in 1 .. asked : calls'[g] = 0 => calls[g] = 0 /\ g # f
        BY <2>2, TypeFacts
      <3>2. \A i \in DOMAIN worker : worker[i].fetch \in 1 .. asked
        <4>1. \A i \in DOMAIN worker : worker[i] \in Task(asked)
          BY <1>5, LenProperties
        <4> QED BY <4>1 DEF Task
      <3>3. TasksMeet(worker, sdk.raised, asked, calls')
        BY <1>5, <3>1, <3>2 DEF TasksMeet
      <3>4. NoneLost(worker, c, sdk.listeners \ sdk.raised, asked, calls')
        BY <1>5, <1>7, <3>1 DEF NoneLost
      <3>5. CASE e.from = "error"
        BY <1>3, <1>11, <3>3, <3>4, <3>5
      <3>6. CASE e.from # "error"
        <4>1. PICK t, k, R, W, N : /\ t = [type |-> "remove", fetch |-> f] /\ k = calls'
                                  /\ R = sdk.raised /\ W = sdk.listeners \ sdk.raised
                                  /\ N = {}
          OBVIOUS
        <4>2. t \in Task(asked) /\ t.type # "listen" /\ k[t.fetch] # 0
          BY <1>7, <2>2, <4>1 DEF Task
        <4>3. W \cup N = W /\ \A g \in N : FALSE
          BY <4>1
        <4>4. NoneLost(worker, c, W \cup N, asked, k) /\ TasksMeet(worker, R, asked, k)
          BY <3>3, <3>4, <4>1, <4>3
        <4>5. PICK v : v = Append(worker, t)
          OBVIOUS
        <4>6. worker \in Seq(Task(asked))
          BY <1>5
        <4>7. TasksMeet(v, R, asked, k) /\ NoneLost(v, c, W, asked, k)
          BY ONLY <4>2, <4>3, <4>4, <4>5, <4>6, TasksAppend
        <4>8. worker' = v
          BY <1>3, <1>11, <3>6, <4>1, <4>5
        <4> QED BY ONLY <4>1, <4>7, <4>8
      <3> QED BY <3>5, <3>6
    <2>8. FetchInv'
      <3>1. /\ Posted(inbox', 1 .. asked', sdk'.listeners, joined')
            /\ Unheard(worker', sdk'.listeners, inbox', calls')
            /\ CalledOnce(calls', muted', asked', sdk'.listeners, inbox')
            /\ AnswersOwn(answer', joined')
        BY <1>3, <1>4, <1>7, <2>4, <2>5, <2>6
      <3>2. /\ TasksMeet(worker', sdk'.raised, asked', calls')
            /\ NoneLost(worker', inbox', sdk'.listeners \ sdk'.raised, asked', calls')
        BY <1>3, <1>4, <2>7
      <3> QED BY <3>1, <3>2 DEF FetchInv
    <2>9. TypeOK'
      <3>1. inbox' \in Seq(FetchEvent)
        BY <1>3, <1>7 DEF Posted
      <3>2. worker' \in Seq([type : {"listen", "remove"}, fetch : 1 .. asked'])
        BY <1>4, <2>4 DEF Task
      <3>3. /\ calls' \in [Fetch -> Nat] /\ muted' \subseteq 1 .. asked'
            /\ answer' \in [Fetch -> Answer \cup {[from |-> "nowhere", fresh |-> FALSE]}]
        BY <1>4, <2>2, <2>5, <2>6
      <3> QED BY <1>14, <3>1, <3>2, <3>3 DEF TypeOK
    <2> QED BY <2>8, <2>9
  <1>12. Consistent(sdk, joined)' /\ Tables(sdk)'
    <2>1. UNCHANGED world
      BY <1>4 DEF world
    <2>2. PICK k, J : k = sdk /\ J = joined
      OBVIOUS
    <2>3. sdk' = k /\ joined' = J /\ Calm(k, J) /\ Tables(k)
      BY <1>4, <2>2, TypeFacts
    <2> QED BY ONLY <2>1, <2>3, PrimedFacts
  <1>13. (StillReset(sdk) => reset)'
    BY <1>4 DEF Inv, StillReset
  <1> QED BY <1>10, <1>11, <1>12, <1>13 DEF Inv

LEMMA InvInit == Init => Inv
  <1> SUFFICES ASSUME Init PROVE Inv
    OBVIOUS
  <1>1. PICK zero : zero = [q \in Query |-> 0]
    OBVIOUS
  <1>2. /\ query \in [Fetch -> Query] /\ refused \in SUBSET Query /\ asked = 0
        /\ worker = <<>> /\ inbox = <<>> /\ muted = {} /\ joined = {} /\ ~reset
        /\ reset \in BOOLEAN /\ faults = 0
        /\ calls = [f \in Fetch |-> 0]
        /\ answer = [f \in Fetch |-> [from |-> "nowhere", fresh |-> FALSE]]
    BY DEF Init
  <1>3. sdk = [listeners |-> {}, raised |-> {}, views |-> {}, synced |-> {},
               covers |-> zero, targets |-> {}, pending |-> zero,
               online |-> "Unknown", failed |-> FALSE, timer |-> FALSE,
               stream |-> FreshWatchStream, events |-> <<>>]
    BY <1>1 DEF Init
  <1>4. /\ <<>> \in Seq(Request) /\ <<>> \in Seq(Message) /\ <<>> \in Seq(FetchEvent)
        /\ <<>> \in Seq([type : {"listen", "remove"}, fetch : 1 .. asked])
        /\ DOMAIN <<>> = {}
    BY EmptySeq
  <1>5. /\ FreshWatchStream \in WatchStream /\ Silent(FreshWatchStream)
        /\ ~IsStarted(FreshWatchStream) /\ ~IsOpen(FreshWatchStream)
        /\ FreshWatchStream.state \notin {"Starting", "Backoff"}
    BY <1>4 DEF FreshWatchStream, WatchStream, Silent, IsStarted, IsOpen, StreamState
  <1>6. zero \in [Query -> 0 .. MaxFetches] /\ zero \in [Query -> Int]
    BY <1>1, FetchesAssumption
  <1>7. /\ sdk \in Sdk /\ sdk.listeners = {} /\ sdk.raised = {} /\ sdk.views = {} /\ sdk.targets = {}
        /\ sdk.synced = {} /\ sdk.events = <<>> /\ sdk.online = "Unknown"
        /\ ~sdk.failed /\ ~sdk.timer /\ sdk.stream = FreshWatchStream
    BY <1>3, <1>4, <1>5, <1>6 DEF Sdk, OnlineState
  <1>8. TypeOK
    <2>1. calls \in [Fetch -> Nat]
      BY <1>2
    <2>2. answer \in [Fetch -> Answer \cup {[from |-> "nowhere", fresh |-> FALSE]}]
      BY <1>2
    <2>3. asked \in 0 .. MaxFetches /\ faults \in 0 .. MaxFaults
      BY <1>2, FetchesAssumption
    <2> QED BY <1>2, <1>4, <1>7, <2>1, <2>2, <2>3 DEF TypeOK
  <1>9. Tables(sdk)
    BY <1>7 DEF Tables
  <1>10. Answering(sdk, joined)
    <2>1. Covered(sdk, joined) /\ Waiting(sdk) /\ Told(sdk, joined)
      BY <1>4, <1>7 DEF Covered, Waiting, Told
    <2>2. Heralded(sdk)
      BY DEF Heralded
    <2> QED BY <1>7, <2>1, <2>2 DEF Answering
  <1>11. Linked(sdk) /\ Started(sdk)
    BY <1>5, <1>7 DEF Linked, Wired, Started, Silent
  <1>12. Consistent(sdk, joined)
    BY <1>5, <1>7, <1>10, <1>11, QuietFacts DEF Consistent
  <1>13. StillReset(sdk) => reset
    BY <1>5, <1>7 DEF StillReset
  <1>14. FetchInv
    <2>1. Posted(inbox, 1 .. asked, sdk.listeners, joined)
      BY <1>2, <1>4 DEF Posted
    <2>2. Unheard(worker, sdk.listeners, inbox, calls)
      BY <1>2, <1>4 DEF Unheard
    <2>3. CalledOnce(calls, muted, asked, sdk.listeners, inbox)
      BY <1>2 DEF CalledOnce
    <2>4. AnswersOwn(answer, joined)
      BY <1>2 DEF AnswersOwn
    <2>5. TasksMeet(worker, sdk.raised, asked, calls)
      BY <1>2, <1>4, <1>7 DEF TasksMeet
    <2>6. NoneLost(worker, inbox, sdk.listeners \ sdk.raised, asked, calls)
      <3>1. 1 .. 0 = {}
        OBVIOUS
      <3> QED BY <1>2, <3>1 DEF NoneLost
    <2> QED BY <2>1, <2>2, <2>3, <2>4, <2>5, <2>6 DEF FetchInv
  <1> QED BY <1>8, <1>9, <1>12, <1>13, <1>14 DEF Inv

LEMMA StepStutters ==
  ASSUME Inv, UNCHANGED vars
  PROVE  Inv'
  <1>1. /\ query' = query /\ refused' = refused /\ asked' = asked
        /\ worker' = worker /\ inbox' = inbox /\ muted' = muted /\ calls' = calls
        /\ answer' = answer /\ joined' = joined /\ faults' = faults /\ reset' = reset
        /\ sdk' = sdk
    BY DEF vars, world, history
  <1>2. Consistent(sdk, joined)' /\ Tables(sdk)'
    <2>1. UNCHANGED world
      BY <1>1 DEF world
    <2>2. PICK k, J : k = sdk /\ J = joined
      OBVIOUS
    <2>3. sdk' = k /\ joined' = J /\ Calm(k, J) /\ Tables(k)
      BY <1>1, <2>2, TypeFacts
    <2> QED BY ONLY <2>1, <2>3, PrimedFacts
  <1>3. TypeOK'
    BY <1>1 DEF Inv, TypeOK
  <1>4. FetchInv'
    BY <1>1 DEF Inv, FetchInv
  <1>5. (StillReset(sdk) => reset)'
    BY <1>1 DEF Inv, StillReset
  <1> QED BY <1>2, <1>3, <1>4, <1>5 DEF Inv

LEMMA InvNext == Inv /\ [Next]_vars => Inv'
  <1> SUFFICES ASSUME Inv, [Next]_vars PROVE Inv'
    OBVIOUS
  <1>1. CASE GetDocuments
    BY <1>1, StepGetDocuments
  <1>2. CASE HearEvent
    BY <1>2, StepHearEvent
  <1>3. CASE Listen
    BY <1>3, StepListen
  <1>4. CASE StopListening
    BY <1>4, StepStopListening
  <1>5. CASE StreamOpens
    BY <1>5, StepStreamOpens
  <1>6. CASE StreamFails
    BY <1>6, StepStreamFails
  <1>7. CASE BackoffElapses
    BY <1>7, StepBackoffElapses
  <1>8. CASE IdleElapses
    BY <1>8, StepIdleElapses
  <1>9. CASE OnlineTimerFires
    BY <1>9, StepOnlineTimerFires
  <1>10. CASE AccountChanges
    BY <1>10, StepAccountChanges
  <1>11. CASE ReadMessage
    BY <1>11, StepReadMessage
  <1>12. CASE ServerAnswers
    BY <1>12, StepServerAnswers
  <1>13. CASE ServerCatchesUp
    BY <1>13, StepServerCatchesUp
  <1>14. CASE UNCHANGED vars
    BY <1>14, StepStutters
  <1> QED BY <1>1, <1>2, <1>3, <1>4, <1>5, <1>6, <1>7, <1>8, <1>9, <1>10, <1>11, <1>12,
             <1>13, <1>14 DEF Next

(***************************************************************************)
(* The theorems.                                                           *)
(***************************************************************************)

\* The worker, the server and the main thread keep the invariant by which the
\* others are proved.
THEOREM FetchInvariant == Spec => []Inv
  <1> QED BY InvInit, InvNext, PTL DEF Spec

\* Every variable keeps to its type, only what was asked is listened to, and
\* only views are current.
THEOREM FetchTypeCorrect == Spec => []TypeOK
  <1>1. Inv => TypeOK
    BY DEF Inv
  <1> QED BY <1>1, FetchInvariant, PTL

\* No HARD_ASSERT of the listen path fails: the tables of EventManager,
\* SyncEngine and RemoteStore agree, the stream is there when it is needed, and
\* as many answers are expected as are on their way.
THEOREM FetchAssertsSafe == Spec => []AssertsHold
  <1>1. Inv => AssertsHold
    <2> SUFFICES ASSUME Inv PROVE AssertsHold
      OBVIOUS
    <2>1. TablesAgree
      BY DEF Inv, Tables, TablesAgree
    <2>2. StreamIsNeeded
      BY DEF Inv, Consistent, Linked, Started, StreamIsNeeded
    <2>3. TimerIsNeeded
      BY DEF Inv, Consistent, Linked, Wired, TimerIsNeeded
    <2>4. PendingIsOutstanding
      BY DEF Inv, Consistent, Counted, PendingIsOutstanding, Outstanding, Requests, Responses
    <2> QED BY <2>1, <2>2, <2>3, <2>4 DEF AssertsHold
  <1> QED BY <1>1, FetchInvariant, PTL

\* A completion is called at most once, and an answer of the server was made
\* after the fetch was asked, unless the fetch joined a query listened to.
THEOREM AnswersSafe == Spec => []AnswerIsOwn
  <1>1. Inv => AnswerIsOwn
    BY DEF Inv, FetchInv, CalledOnce, AnswersOwn, AnswerIsOwn
  <1> QED BY <1>1, FetchInvariant, PTL

\* A fetch waits only without a current view, off line it does not wait, and
\* while the state is unknown a timer runs, except after the reset.  When the
\* worker, the stream and the server have nothing left to do, every fetch has
\* been answered.
THEOREM WaitSafe == Spec => []WaitIsJustified
  <1>1. Inv => WaitHasReason
    <2> SUFFICES ASSUME Inv, NEW f \in sdk.listeners \ sdk.raised
                 PROVE  /\ query[f] \notin sdk.synced /\ sdk.online # "Offline"
                        /\ sdk.online = "Unknown" => sdk.timer \/ reset
      BY DEF WaitHasReason
    <2>1. query[f] \notin sdk.synced /\ sdk.online # "Offline"
      BY DEF Inv, Consistent, Answering, Waiting
    <2>2. IsStarted(sdk.stream)
      BY DEF Inv, Tables, Consistent, Started
    <2>3. ASSUME sdk.online = "Unknown" PROVE sdk.timer \/ reset
      BY <2>2, <2>3 DEF Inv, StillReset
    <2> QED BY <2>1, <2>3
  <1>2. Inv => RestIsAnswered
    <2> SUFFICES ASSUME Inv, AtRest, NEW f \in 1 .. asked, calls[f] = 0 PROVE FALSE
      <3>1. ASSUME Inv, NEW f \in 1 .. asked PROVE calls[f] \in Nat
        BY <3>1, TypeFacts DEF Inv, TypeOK
      <3> QED BY <3>1 DEF RestIsAnswered
    <2>1. f \in sdk.listeners \ sdk.raised
      <3>1. worker = <<>> /\ inbox = <<>> /\ DOMAIN <<>> = {}
        BY EmptySeq DEF AtRest
      <3> QED BY <3>1 DEF Inv, FetchInv, NoneLost
    <2>2. query[f] \in sdk.targets /\ query[f] \notin sdk.synced
      BY <2>1 DEF Inv, Tables, Consistent, Answering, Waiting
    <2>3. IsOpen(sdk.stream)
      BY <2>2 DEF Inv, Consistent, Started, IsStarted, IsOpen, AtRest
    <2>4. Due(sdk.stream, query[f])
      BY <2>2, <2>3 DEF Inv, Consistent, Promised
    <2> QED BY <2>4, EmptySeq DEF AtRest, Due, WatchLast, CurrentLast, Refusal
  <1> QED BY <1>1, <1>2, FetchInvariant, PTL DEF WaitIsJustified

=============================================================================
