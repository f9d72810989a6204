------------------------ MODULE WritePipelineProofs ------------------------
(***************************************************************************)
(* Proofs about WritePipeline, for any number of accounts and writes, any  *)
(* size of the pipeline, and any number of changes of account, failures    *)
(* and ends of the process.                                                *)
(***************************************************************************)
EXTENDS WritePipeline, TableProofs

(***************************************************************************)
(* The inductive invariant.  First the threads.                            *)
(***************************************************************************)

\* After the first i tasks of q the account is u, if it is u0 before them.
Follows(q, i, u0, u) ==
    \/ /\ \A j \in 1 .. i : q[j].type # "auth"
       /\ u = u0
    \/ \E j \in 1 .. i :
          /\ q[j].type = "auth" /\ q[j].user = u
          /\ \A k \in j + 1 .. i : q[k].type # "auth"

Tokens(q) == {i \in DOMAIN q : q[i].type = "token"}

WriteTasks(q) == {i \in DOMAIN q : q[i].type = "write"}

\* The tasks of q lead from account u0 to u, and a token among them meets the
\* account that it is of.
Leads(q, u0, u) ==
    /\ Follows(q, Len(q), u0, u)
    /\ \A i \in Tokens(q) : q[i].user # Failed => Follows(q, i, u0, q[i].user)

\* A write on its way to the worker meets the account it was made for.
WritesMeetOwner ==
    \A i \in WriteTasks(worker) :
        Follows(worker, i, session, owner[worker[i].write])

\* Notifications, tokens and writes wait in the order in which they were made.
ThreadInv ==
    /\ Leads(main, sdkUser, authUser)
    /\ Leads(worker, session, sdkUser)
    /\ WritesMeetOwner

\* Each token on its way was asked for under a close count of its own.
TokenInv ==
    /\ TokenIsAwaited
    /\ \A c \in AwaitedTokens : c <= stream.closes
    /\ \A a, b \in asks : a.closes = b.closes => a = b
    /\ \A i, j \in Tokens(main) : main[i].ask.closes = main[j].ask.closes => i = j
    /\ \A i, j \in Tokens(worker) : worker[i].closes = worker[j].closes => i = j
    /\ \A a \in asks : \A i \in Tokens(main) : a.closes # main[i].ask.closes
    /\ \A a \in asks : \A i \in Tokens(worker) : a.closes # worker[i].closes
    /\ \A i \in Tokens(main) : \A j \in Tokens(worker) :
           main[i].ask.closes # worker[j].closes

(***************************************************************************)
(* The queues on disk and the writes in memory.                            *)
(***************************************************************************)
GrowingIds(queue) ==
    \A i, j \in DOMAIN queue : i < j => queue[i].id < queue[j].id

GrowingWrites(queue) ==
    \A i, j \in DOMAIN queue : i < j => queue[i].write < queue[j].write

QueueInv ==
    /\ \A u \in User :
           /\ GrowingIds(disk[u])
           /\ GrowingWrites(disk[u])
           /\ \A i \in DOMAIN disk[u] :
                 /\ disk[u][i].id < nextBatchId
                 /\ disk[u][i].write <= made
                 /\ owner[disk[u][i].write] = u
                 /\ \A j \in WriteTasks(worker) : disk[u][i].write < worker[j].write
    /\ \A i \in WriteTasks(worker) :
           /\ worker[i].write <= made
           /\ \A j \in WriteTasks(worker) : i < j => worker[i].write < worker[j].write

\* A write waits in memory, on the worker's queue, or on disk.
Waits(w) == w \in InMemory \/ w \in OnDisk

\* A write has an outcome when it is neither in memory nor on disk any more,
\* and no older write of its account is still waiting when it is answered.
OutcomeInv ==
    /\ \A w \in Write : outcome[w] = "none" <=> w > made \/ Waits(w)
    /\ \A v, w \in Write :
           v < w /\ owner[v] = owner[w] /\ outcome[w] \in Outcome => ~Waits(v)

(***************************************************************************)
(* The write stream and the pipeline, over the queue of account u.         *)
(***************************************************************************)
StreamOK(s, p, u) ==
    /\ IsStarted(s) /\ s.hello # "done" => p # <<>>
    /\ s.idle => IsOpen(s) /\ p = <<>>
    /\ IF IsOpen(s) THEN s.token = u /\ s.hello # "no" ELSE s.hello = "no"
    /\ s.hello = "done" => Writes(s.answers) \o s.sent = Writes(p)
    /\ s.hello # "done" => s.answers = <<>> /\ s.sent = <<>>

RemoteOK(s, p, queue, u) ==
    /\ StreamOK(s, p, u)
    /\ p = NextBatches(queue, 0, MaxPending)
    /\ p # <<>> => IsStarted(s)

RemoteInv == RemoteOK(stream, pipeline, disk[session], session)

(***************************************************************************)
(* The server.                                                             *)
(***************************************************************************)
Newest(u) == Max(Applied(u) \cup {0})

\* What the server has judged it has read; the newest write it has accepted is
\* on its way again while the document shows another.
ServerInv ==
    /\ \A i \in DOMAIN stream.answers :
           /\ verdict[stream.answers[i].write] = stream.answers[i].result
           /\ stream.answers[i].result = "rejected" => i = Len(stream.answers)
    /\ \A w \in Write : verdict[w] # "none" =>
           w <= made /\ w \notin InMemory /\ outcome[w] # "lost"
    /\ \A u \in User :
           \/ document[u] = Newest(u)
           \/ /\ \E i \in DOMAIN disk[u] : disk[u][i].write = Newest(u)
              /\ \A i \in DOMAIN stream.answers : stream.answers[i].write # Newest(u)

Inv ==
    /\ TypeOK
    /\ ThreadInv
    /\ TokenInv
    /\ QueueInv
    /\ OutcomeInv
    /\ RemoteInv
    /\ ServerInv
    /\ ToldIsTrue

(***************************************************************************)
(* Queues of tasks.                                                        *)
(***************************************************************************)

\* Append and Tail, position by position.
LEMMA AppendedTask ==
  ASSUME NEW S, NEW q \in Seq(S), NEW e \in S
  PROVE  /\ Append(q, e) \in Seq(S)
         /\ Len(q) \in Nat
         /\ DOMAIN q = 1 .. Len(q)
         /\ Len(Append(q, e)) = Len(q) + 1
         /\ DOMAIN Append(q, e) = 1 .. Len(q) + 1
         /\ \A i \in 1 .. Len(q) : Append(q, e)[i] = q[i]
         /\ Append(q, e)[Len(q) + 1] = e
  BY AppendProperties, LenProperties

LEMMA HeadTask ==
  ASSUME NEW S, NEW q \in Seq(S), q # <<>>
  PROVE  /\ Len(q) \in Nat \ {0}
         /\ DOMAIN q = 1 .. Len(q)
         /\ Head(q) = q[1]
         /\ Head(q) \in S
         /\ Tail(q) \in Seq(S)
         /\ Len(Tail(q)) = Len(q) - 1
         /\ DOMAIN Tail(q) = 1 .. Len(q) - 1
         /\ \A i \in 1 .. Len(q) - 1 : Tail(q)[i] = q[i + 1]
  BY EmptySeq, LenProperties, HeadTailProperties

\* What a task that is appended means for the account.
LEMMA FollowsAppend ==
  ASSUME NEW S, NEW q \in Seq(S), NEW e \in S, NEW u0, NEW u
  PROVE  /\ \A i \in 0 .. Len(q) :
                Follows(Append(q, e), i, u0, u) <=> Follows(q, i, u0, u)
         /\ e.type = "auth" =>
                (Follows(Append(q, e), Len(q) + 1, u0, u) <=> u = e.user)
         /\ e.type # "auth" =>
                (Follows(Append(q, e), Len(q) + 1, u0, u) <=> Follows(q, Len(q), u0, u))
  <1> DEFINE n == Len(q)
             r == Append(q, e)
  <1>1. n \in Nat /\ r[n + 1] = e /\ \A i \in 1 .. n : r[i] = q[i]
    BY AppendedTask
  <1> HIDE DEF n, r
  <1>2. ASSUME NEW i \in 0 .. n
        PROVE  Follows(r, i, u0, u) <=> Follows(q, i, u0, u)
    <2>1. \A j \in 1 .. i : r[j] = q[j]
      BY <1>1, <1>2
    <2>2. \A j \in 1 .. i : \A k \in j + 1 .. i : r[k] = q[k]
      BY <1>1, <1>2
    <2> QED BY <2>1, <2>2 DEF Follows
  <1>3. ASSUME e.type = "auth"
        PROVE  Follows(r, n + 1, u0, u) <=> u = e.user
    <2>1. n + 1 \in 1 .. n + 1 /\ \A k \in n + 2 .. n + 1 : FALSE
      BY <1>1
    <2>2. \A j \in 1 .. n + 1 :
              (\A k \in j + 1 .. n + 1 : r[k].type # "auth") => j = n + 1
      BY <1>1, <1>3
    <2> QED BY <1>1, <1>3, <2>1, <2>2 DEF Follows
  <1>4. ASSUME e.type # "auth"
        PROVE  Follows(r, n + 1, u0, u) <=> Follows(q, n, u0, u)
    <2> /\ r[n + 1].type # "auth" /\ \A j \in 1 .. n : j \in 1 .. n + 1
        /\ \A j \in 1 .. n + 1 : j \in 1 .. n \/ j = n + 1
      BY <1>1, <1>4
    <2>1. (\A j \in 1 .. n + 1 : r[j].type # "auth") <=> \A j \in 1 .. n : q[j].type # "auth"
      BY <1>1
    <2>2. \A j \in 1 .. n : (\A k \in j + 1 .. n + 1 : r[k].type # "auth")
                            <=> \A k \in j + 1 .. n : q[k].type # "auth"
      BY <1>1, <1>4
    <2>3. \A j \in 1 .. n + 1 : r[j].type = "auth" => j \in 1 .. n
      BY <1>1, <1>4
    <2>4. ASSUME Follows(r, n + 1, u0, u) PROVE Follows(q, n, u0, u)
      <3>1. CASE (\A j \in 1 .. n + 1 : r[j].type # "auth") /\ u = u0
        BY <2>1, <3>1 DEF Follows
      <3>2. CASE \E j \in 1 .. n + 1 :
                    /\ r[j].type = "auth" /\ r[j].user = u
                    /\ \A k \in j + 1 .. n + 1 : r[k].type # "auth"
        <4>1. PICK j \in 1 .. n : /\ r[j].type = "auth" /\ r[j].user = u
                                 /\ \A k \in j + 1 .. n + 1 : r[k].type # "auth"
          BY <2>3, <3>2
        <4>2. /\ q[j].type = "auth" /\ q[j].user = u
              /\ \A k \in j + 1 .. n : q[k].type # "auth"
          BY <1>1, <2>2, <4>1
        <4> QED BY <4>2 DEF Follows
      <3> QED BY <2>4, <3>1, <3>2 DEF Follows
    <2>5. ASSUME Follows(q, n, u0, u) PROVE Follows(r, n + 1, u0, u)
      <3>1. CASE (\A j \in 1 .. n : q[j].type # "auth") /\ u = u0
        BY <2>1, <3>1 DEF Follows
      <3>2. CASE \E j \in 1 .. n :
                    /\ q[j].type = "auth" /\ q[j].user = u
                    /\ \A k \in j + 1 .. n : q[k].type # "auth"
        <4>1. PICK j \in 1 .. n : /\ q[j].type = "auth" /\ q[j].user = u
                                 /\ \A k \in j + 1 .. n : q[k].type # "auth"
          BY <3>2
        <4>2. /\ j \in 1 .. n + 1 /\ r[j].type = "auth" /\ r[j].user = u
              /\ \A k \in j + 1 .. n + 1 : r[k].type # "auth"
          BY <1>1, <2>2, <4>1
        <4> QED BY <4>2 DEF Follows
      <3> QED BY <2>5, <3>1, <3>2 DEF Follows
    <2> QED BY <2>4, <2>5
  <1> QED BY <1>2, <1>3, <1>4 DEF n, r

\* The account that the tasks behind the first one start from.
After(task, u0) == IF task.type = "auth" THEN task.user ELSE u0

\* What is left means the same from there.
LEMMA FollowsTail ==
  ASSUME NEW S, NEW q \in Seq(S), q # <<>>, NEW u0, NEW u, NEW i \in 0 .. Len(q) - 1,
         Follows(q, i + 1, u0, u)
  PROVE  Follows(Tail(q), i, After(Head(q), u0), u)
  <1> DEFINE r == Tail(q)
             n == Len(q)
  <1>1. /\ n \in Nat /\ Head(q) = q[1] /\ i \in Nat /\ i <= n - 1
        /\ \A j \in 1 .. n - 1 : r[j] = q[j + 1]
    BY HeadTask
  <1> HIDE DEF r
  <1> SUFFICES Follows(r, i, After(Head(q), u0), u)
    BY DEF r
  <1>2. \A j \in 1 .. i : r[j] = q[j + 1] /\ j + 1 \in 1 .. i + 1
    BY <1>1
  <1>3. CASE \A j \in 1 .. i + 1 : q[j].type # "auth"
    <2>1. u = u0 /\ q[1].type # "auth"
      BY <1>1, <1>3 DEF Follows
    <2>2. \A j \in 1 .. i : r[j].type # "auth"
      BY <1>2, <1>3
    <2> QED BY <1>1, <2>1, <2>2 DEF Follows, After
  <1>4. CASE ~(\A j \in 1 .. i + 1 : q[j].type # "auth")
    <2>1. PICK j \in 1 .. i + 1 : /\ q[j].type = "auth" /\ q[j].user = u
                                  /\ \A k \in j + 1 .. i + 1 : q[k].type # "auth"
      BY <1>4 DEF Follows
    <2>2. CASE j = 1
      <3>1. \A k \in 1 .. i : r[k].type # "auth"
        BY <1>1, <1>2, <2>1, <2>2
      <3>2. After(Head(q), u0) = u
        BY <1>1, <2>1, <2>2 DEF After
      <3> QED BY <3>1, <3>2 DEF Follows
    <2>3. CASE j # 1
      <3>1. j - 1 \in 1 .. i
        BY <1>1, <2>3
      <3>2. r[j - 1] = q[j]
        BY <1>1, <3>1, <2>3
      <3>3. \A k \in (j - 1) + 1 .. i : r[k].type # "auth"
        BY <1>1, <1>2, <2>1, <3>1
      <3> QED BY <2>1, <3>1, <3>2, <3>3 DEF Follows
    <2> QED BY <2>2, <2>3
  <1> QED BY <1>3, <1>4

\* The first task: it meets its account.
LEMMA FollowsHead ==
  ASSUME NEW q, NEW u0, NEW u, q[1].type # "auth", Follows(q, 1, u0, u)
  PROVE  u = u0
  BY DEF Follows

(***************************************************************************)
(* Queues of batches.                                                      *)
(***************************************************************************)

LEMMA MinOfTwo ==
  ASSUME NEW a \in Int, NEW b \in Int
  PROVE  Min({a, b}) = IF a <= b THEN a ELSE b
  <1> DEFINE S == {a, b}
  <1>1. \E x \in S : \A y \in S : x <= y
    OBVIOUS
  <1>2. Min(S) \in S /\ \A y \in S : Min(S) <= y
    <2> HIDE DEF S
    <2> QED BY <1>1 DEF Min
  <1> QED BY <1>2

\* A bounded, non-empty set of naturals has a greatest element.
LEMMA MaxOfBounded ==
  ASSUME NEW T, T \subseteq Nat, T # {}, NEW n \in Nat, \A m \in T : m <= n
  PROVE  Max(T) \in T /\ \A m \in T : m <= Max(T)
  <1> DEFINE bounds == {k \in Nat : \A m \in T : m <= k}
  <1>1. PICK k \in bounds : \A j \in bounds : ~(j < k)
    <2>1. bounds \subseteq Nat /\ n \in bounds
      OBVIOUS
    <2> HIDE DEF bounds
    <2> QED BY <2>1, LeastElement
  <1>2. k \in T
    <2> SUFFICES ASSUME k \notin T PROVE FALSE
      OBVIOUS
    <2>1. \A m \in T : m < k
      BY <1>1
    <2>2. k > 0
      <3>1. PICK m \in T : TRUE
        OBVIOUS
      <3> QED BY <2>1, <3>1
    <2>3. \A m \in T : m <= k - 1
      BY <2>1
    <2>4. k - 1 \in bounds /\ k - 1 < k
      BY <2>2, <2>3
    <2> QED BY <1>1, <2>4
  <1>3. \E x \in T : \A y \in T : x >= y
    BY <1>1, <1>2
  <1>4. Max(T) \in T /\ \A y \in T : Max(T) >= y
    BY <1>3 DEF Max
  <1> QED BY <1>4

LEMMA BatchFacts ==
  ASSUME NEW queue \in Seq(Batch)
  PROVE  /\ Len(queue) \in Nat
         /\ DOMAIN queue = 1 .. Len(queue)
         /\ \A i \in 1 .. Len(queue) : /\ queue[i] \in Batch
                                       /\ queue[i].id \in Nat \ {0}
                                       /\ queue[i].write \in Write
  <1>1. \A b \in Batch : b.id \in Nat \ {0} /\ b.write \in Write
    BY DEF Batch
  <1>2. Len(queue) \in Nat /\ DOMAIN queue = 1 .. Len(queue)
        /\ \A i \in 1 .. Len(queue) : queue[i] \in Batch
    BY LenProperties
  <1> QED BY <1>1, <1>2

\* how many batches of a queue the pipeline has room for
Room(queue) == Min({MaxPending, Len(queue)})

LEMMA RoomFacts ==
  ASSUME NEW queue \in Seq(Batch)
  PROVE  /\ Len(queue) \in Nat
         /\ DOMAIN queue = 1 .. Len(queue)
         /\ MaxPending \in Nat \ {0}
         /\ Room(queue) \in 0 .. Len(queue)
         /\ Room(queue) <= MaxPending
         /\ Room(queue) = MaxPending \/ Room(queue) = Len(queue)
  <1>1. Len(queue) \in Nat /\ DOMAIN queue = 1 .. Len(queue)
    BY LenProperties
  <1>2. Room(queue) = IF MaxPending <= Len(queue) THEN MaxPending ELSE Len(queue)
    BY <1>1, MinOfTwo, PendingAssumption DEF Room
  <1> QED BY <1>1, <1>2, PendingAssumption

\* Where the ids grow, the batch after the n-th is found behind it.
LEMMA SeekFacts ==
  ASSUME NEW queue \in Seq(Batch), GrowingIds(queue), NEW n \in 0 .. Len(queue)
  PROVE  Seek(queue, IF n = 0 THEN 0 ELSE queue[n].id) = n + 1
  <1> DEFINE last == IF n = 0 THEN 0 ELSE queue[n].id
             before == {i \in DOMAIN queue : queue[i].id <= last}
  <1>1. Len(queue) \in Nat /\ DOMAIN queue = 1 .. Len(queue)
        /\ \A i \in 1 .. Len(queue) : queue[i].id \in Nat \ {0}
    BY BatchFacts
  <1>2. \A i \in DOMAIN queue : queue[i].id <= last <=> i <= n
    <2> TAKE i \in DOMAIN queue
    <2>1. CASE n = 0
      BY <1>1, <2>1
    <2>2. CASE n # 0
      <3>1. n \in DOMAIN queue /\ last = queue[n].id
        BY <1>1, <2>2
      <3>2. i < n => queue[i].id < queue[n].id
        BY <3>1 DEF GrowingIds
      <3>3. n < i => queue[n].id < queue[i].id
        BY <3>1 DEF GrowingIds
      <3> QED BY <1>1, <3>1, <3>2, <3>3
    <2> QED BY <2>1, <2>2
  <1>3. before = 1 .. n
    BY <1>1, <1>2
  <1>4. Cardinality(1 .. n) = n
    BY FS_Interval
  <1>5. Seek(queue, last) = Cardinality(before) + 1
    BY DEF Seek
  <1> QED BY <1>3, <1>4, <1>5

\* What is new for a pipeline that holds the first n batches.
LEMMA NextBatchesFacts ==
  ASSUME NEW queue \in Seq(Batch), GrowingIds(queue), NEW n \in 0 .. Room(queue)
  PROVE  /\ NextBatches(queue, IF n = 0 THEN 0 ELSE queue[n].id, MaxPending - n)
            = SubSeq(queue, n + 1, Room(queue))
         /\ NextBatches(queue, 0, MaxPending) = SubSeq(queue, 1, Room(queue))
  <1>1. n \in 0 .. Len(queue) /\ 0 \in 0 .. Len(queue)
    BY RoomFacts
  <1>2. Seek(queue, IF n = 0 THEN 0 ELSE queue[n].id) = n + 1
    BY <1>1, SeekFacts
  <1>3. Seek(queue, 0) = 1
    <2>1. Seek(queue, IF 0 = 0 THEN 0 ELSE queue[0].id) = 0 + 1
      BY <1>1, SeekFacts
    <2> QED BY <2>1
  <1>4. n + 1 + (MaxPending - n) - 1 = MaxPending /\ 1 + MaxPending - 1 = MaxPending
    BY RoomFacts, <1>1
  <1> QED BY <1>2, <1>3, <1>4 DEF NextBatches, Room

\* A front of a queue, position by position, and what it needs to grow.
LEMMA FrontFacts ==
  ASSUME NEW queue \in Seq(Batch), NEW n \in 0 .. Len(queue), NEW m \in n .. Len(queue)
  PROVE  /\ SubSeq(queue, 1, n) \in Seq(Batch)
         /\ Len(SubSeq(queue, 1, n)) = n
         /\ \A i \in 1 .. n : SubSeq(queue, 1, n)[i] = queue[i]
         /\ SubSeq(queue, n + 1, m) \in Seq(Batch)
         /\ SubSeq(queue, 1, n) = <<>> <=> n = 0
         /\ SubSeq(queue, n + 1, m) = <<>> <=> n = m
         /\ SubSeq(queue, 1, n) \o SubSeq(queue, n + 1, m) = SubSeq(queue, 1, m)
  <1>1. Len(queue) \in Nat /\ \A i \in 1 .. Len(queue) : queue[i] \in Batch
    BY LenProperties
  <1>2. /\ SubSeq(queue, 1, n) \in Seq(Batch)
        /\ Len(SubSeq(queue, 1, n)) = n
        /\ \A i \in 1 .. n : SubSeq(queue, 1, n)[i] = queue[i]
    <2>1. \A i \in 1 .. n : queue[i] \in Batch
      BY <1>1
    <2>2. n \in Int /\ 1 \in Int
      BY <1>1
    <2>3. /\ SubSeq(queue, 1, n) \in Seq(Batch)
          /\ Len(SubSeq(queue, 1, n)) = IF 1 <= n THEN n - 1 + 1 ELSE 0
          /\ \A i \in 1 .. n - 1 + 1 : SubSeq(queue, 1, n)[i] = queue[1 + i - 1]
      BY <2>1, <2>2, SubSeqProperties
    <2> QED BY <1>1, <2>3
  <1>3. /\ SubSeq(queue, n + 1, m) \in Seq(Batch)
        /\ Len(SubSeq(queue, n + 1, m)) = m - n
    <2>1. \A i \in n + 1 .. m : queue[i] \in Batch
      BY <1>1
    <2>2. n + 1 \in Int /\ m \in Int
      BY <1>1
    <2>3. /\ SubSeq(queue, n + 1, m) \in Seq(Batch)
          /\ Len(SubSeq(queue, n + 1, m)) = IF n + 1 <= m THEN m - (n + 1) + 1 ELSE 0
      BY <2>1, <2>2, SubSeqProperties
    <2> QED BY <1>1, <2>3
  <1>4. SubSeq(queue, 1, n) \o SubSeq(queue, n + 1, m) = SubSeq(queue, 1, m)
    <2>1. 1 \in 1 .. Len(queue) + 1 /\ n \in 1 - 1 .. Len(queue) /\ m \in n .. Len(queue)
      BY <1>1
    <2> QED BY <2>1, ConcatAdjacentSubSeq
  <1>5. \A s \in Seq(Batch) : s = <<>> <=> Len(s) = 0
    BY EmptySeq
  <1>6. SubSeq(queue, 1, n) = <<>> <=> n = 0
    BY <1>2, <1>5
  <1>7. SubSeq(queue, n + 1, m) = <<>> <=> n = m
    BY <1>1, <1>3, <1>5
  <1> QED BY <1>2, <1>3, <1>4, <1>6, <1>7

\* The writes of batches and of answers, position by position.
LEMMA WritesFacts ==
  ASSUME NEW S, \A x \in S : x.write \in Write, NEW s \in Seq(S)
  PROVE  /\ Writes(s) \in Seq(Write)
         /\ Len(Writes(s)) = Len(s)
         /\ DOMAIN Writes(s) = 1 .. Len(s)
         /\ \A i \in 1 .. Len(s) : Writes(s)[i] = s[i].write
  <1>1. Len(s) \in Nat /\ DOMAIN s = 1 .. Len(s) /\ \A i \in 1 .. Len(s) : s[i] \in S
    BY LenProperties
  <1>2. Writes(s) = [i \in 1 .. Len(s) |-> s[i].write]
    BY <1>1 DEF Writes
  <1>3. Writes(s) \in [1 .. Len(s) -> Write]
    BY <1>1, <1>2
  <1>4. Writes(s) \in Seq(Write)
    BY <1>1, <1>3, SeqDef
  <1>5. Len(Writes(s)) = Len(s)
    BY <1>1, <1>3, <1>4, LenProperties
  <1> QED BY <1>2, <1>4, <1>5

LEMMA WritesConcat ==
  ASSUME NEW S, \A x \in S : x.write \in Write, NEW s \in Seq(S), NEW t \in Seq(S)
  PROVE  Writes(s \o t) = Writes(s) \o Writes(t)
  <1>1. /\ s \o t \in Seq(S)
        /\ Len(s \o t) = Len(s) + Len(t)
        /\ \A i \in 1 .. Len(s) + Len(t) :
               (s \o t)[i] = IF i <= Len(s) THEN s[i] ELSE t[i - Len(s)]
    BY ConcatProperties
  <1>2. Len(s) \in Nat /\ Len(t) \in Nat
    BY LenProperties
  <1>3. /\ Writes(s) \in Seq(Write) /\ Writes(t) \in Seq(Write)
        /\ Writes(s \o t) \in Seq(Write)
        /\ Len(Writes(s)) = Len(s) /\ Len(Writes(t)) = Len(t)
        /\ Len(Writes(s \o t)) = Len(s) + Len(t)
        /\ \A i \in 1 .. Len(s) : Writes(s)[i] = s[i].write
        /\ \A i \in 1 .. Len(t) : Writes(t)[i] = t[i].write
        /\ \A i \in 1 .. Len(s) + Len(t) : Writes(s \o t)[i] = (s \o t)[i].write
    BY <1>1, WritesFacts
  <1>4. /\ Writes(s) \o Writes(t) \in Seq(Write)
        /\ Len(Writes(s) \o Writes(t)) = Len(s) + Len(t)
        /\ \A i \in 1 .. Len(s) + Len(t) :
               (Writes(s) \o Writes(t))[i] =
                   IF i <= Len(s) THEN Writes(s)[i] ELSE Writes(t)[i - Len(s)]
    <2> DEFINE a == Writes(s)
               b == Writes(t)
    <2>1. a \in Seq(Write) /\ b \in Seq(Write) /\ Len(a) = Len(s) /\ Len(b) = Len(t)
      BY <1>3
    <2> HIDE DEF a, b
    <2>2. /\ a \o b \in Seq(Write)
          /\ Len(a \o b) = Len(a) + Len(b)
          /\ \A i \in 1 .. Len(a) + Len(b) :
                 (a \o b)[i] = IF i <= Len(a) THEN a[i] ELSE b[i - Len(a)]
      BY <2>1, ConcatProperties
    <2> QED BY <2>1, <2>2 DEF a, b
  <1>5. \A i \in 1 .. Len(s) + Len(t) :
            Writes(s \o t)[i] = (Writes(s) \o Writes(t))[i]
    <2> TAKE i \in 1 .. Len(s) + Len(t)
    <2>1. CASE i <= Len(s)
      BY <1>1, <1>2, <1>3, <1>4, <2>1
    <2>2. CASE ~(i <= Len(s))
      <3>1. i - Len(s) \in 1 .. Len(t)
        BY <1>2, <2>2
      <3> QED BY <1>1, <1>2, <1>3, <1>4, <2>2, <3>1
    <2> QED BY <2>1, <2>2
  <1> QED BY <1>3, <1>4, <1>5, SeqEqual

\* The batch at the head leaves: the rest of the queue stays.
LEMMA RemoveHead ==
  ASSUME NEW queue \in Seq(Batch), GrowingIds(queue), queue # <<>>
  PROVE  RemoveBatch(queue, queue[1].id) = Tail(queue)
  <1>1. Len(queue) \in Nat \ {0} /\ DOMAIN queue = 1 .. Len(queue)
        /\ \A i \in 1 .. Len(queue) : queue[i].id \in Nat
    BY HeadTask, BatchFacts
  <1>2. \A i \in DOMAIN queue : queue[i].id = queue[1].id <=> i = 1
    BY <1>1 DEF GrowingIds
  <1>3. (CHOOSE i \in DOMAIN queue : queue[i].id = queue[1].id) = 1
    BY <1>1, <1>2
  <1>4. RemoveBatch(queue, queue[1].id)
        = SubSeq(queue, 1, 1 - 1) \o SubSeq(queue, 1 + 1, Len(queue))
    BY <1>3 DEF RemoveBatch, RemoveAt
  <1>5. SubSeq(queue, 1, 1 - 1) = <<>>
    BY SubSeqEmpty
  <1>6. Tail(queue) = SubSeq(queue, 2, Len(queue)) /\ Tail(queue) \in Seq(Batch)
    BY TailIsSubSeq, HeadTask
  <1> QED BY <1>4, <1>5, <1>6, ConcatEmptySeq

(***************************************************************************)
(* The operators of RemoteStore.                                           *)
(***************************************************************************)

LEMMA ClosedFacts ==
  ASSUME NEW s \in WriteStream, NEW graceful \in BOOLEAN,
         NEW t, t = WriteClosed(s, graceful)
  PROVE  /\ t \in WriteStream
         /\ t.state = IF graceful THEN "Initial" ELSE "Error"
         /\ t.closes = s.closes + 1 /\ t.idle = FALSE
         /\ t.hello = "no" /\ t.token = Failed
         /\ t.sent = <<>> /\ t.answers = <<>>
  <1>1. s.closes + 1 \in Nat
    BY DEF WriteStream
  <1>2. <<>> \in Seq(Write) /\ <<>> \in Seq([write : Write, result : Outcome])
    BY EmptySeq
  <1> QED BY <1>1, <1>2 DEF WriteClosed, Closed, WriteStream, StreamState

LEMMA StartFacts ==
  ASSUME NEW s \in WriteStream
  PROVE  /\ Start(s) \in WriteStream
         /\ Start(s).state = IF s.state = "Error" THEN "Backoff" ELSE "Starting"
         /\ Start(s).closes = s.closes /\ Start(s).idle = s.idle
         /\ Start(s).hello = s.hello /\ Start(s).token = s.token
         /\ Start(s).sent = s.sent /\ Start(s).answers = s.answers
  BY DEF Start, WriteStream, StreamState

LEMMA StreamFacts ==
  ASSUME NEW s \in WriteStream
  PROVE  /\ s.state \in StreamState /\ s.closes \in Nat /\ s.idle \in BOOLEAN
         /\ s.hello \in {"no", "asked", "answered", "done"}
         /\ s.token \in User \cup {Failed}
         /\ s.sent \in Seq(Write)
         /\ s.answers \in Seq([write : Write, result : Outcome])
  BY DEF WriteStream

\* ConcatAssociative, read from right to left.
LEMMA JoinThree ==
  ASSUME NEW S, NEW x \in Seq(S), NEW y \in Seq(S), NEW z \in Seq(S)
  PROVE  x \o (y \o z) = (x \o y) \o z
  BY ONLY ConcatAssociative, SMTT(30)

LEMMA FillFacts ==
  ASSUME NEW s \in WriteStream, NEW queue \in Seq(Batch), GrowingIds(queue),
         NEW n \in 0 .. Room(queue), NEW u \in User,
         StreamOK(s, SubSeq(queue, 1, n), u),
         NEW r, r = FillWritePipeline(s, SubSeq(queue, 1, n), queue)
  PROVE  /\ r = [stream |-> r.stream, pipeline |-> r.pipeline]
         /\ r.stream \in WriteStream
         /\ RemoteOK(r.stream, r.pipeline, queue, u)
         /\ r.pipeline = SubSeq(queue, 1, Room(queue))
         /\ r.stream.closes = s.closes
         /\ r.stream.answers = s.answers
         /\ IsStarted(s) => r.stream.state = s.state
         /\ s.state = "Initial" => r.stream.state \in {"Initial", "Starting"}
  <1> DEFINE m == Room(queue)
             p == SubSeq(queue, 1, n)
             new == SubSeq(queue, n + 1, m)
             all == SubSeq(queue, 1, m)
             wrote == IF new # <<>> /\ s.hello = "done"
                      THEN [Wrote(s) EXCEPT !.sent = @ \o Writes(new)] ELSE s
             idled == IF all = <<>> THEN MarkIdle(wrote) ELSE wrote
             t == IF ~IsStarted(idled) /\ all # <<>> THEN Start(idled) ELSE idled
  <1>1. /\ n \in 0 .. Len(queue) /\ m \in n .. Len(queue)
        /\ m \in 0 .. Len(queue) /\ n <= m
    BY RoomFacts
  <1>2. /\ p \in Seq(Batch) /\ new \in Seq(Batch) /\ all \in Seq(Batch)
        /\ Len(p) = n /\ (p = <<>> <=> n = 0) /\ (all = <<>> <=> m = 0)
        /\ p \o new = all /\ (new = <<>> <=> n = m)
        /\ \A i \in 1 .. n : p[i] = queue[i]
    <2>1. m \in m .. Len(queue)
      BY <1>1
    <2> QED BY <1>1, <2>1, FrontFacts
  <1>3. (IF p = <<>> THEN 0 ELSE Last(p).id) = IF n = 0 THEN 0 ELSE queue[n].id
    <2>1. CASE n = 0
      BY <1>2, <2>1
    <2>2. CASE n # 0
      <3>1. n \in 1 .. n
        BY <1>1, <2>2
      <3>2. p # <<>>
        BY <1>2, <2>2
      <3>3. p[n] = queue[n] /\ Last(p) = p[n]
        BY <1>2, <3>1 DEF Last
      <3> QED BY <2>2, <3>2, <3>3
    <2> QED BY <2>1, <2>2
  <1>4. NextBatches(queue, IF p = <<>> THEN 0 ELSE Last(p).id, MaxPending - Len(p)) = new
    BY <1>2, <1>3, NextBatchesFacts
  <1>5. r = [stream |-> t, pipeline |-> all]
    <2> HIDE DEF new, all, p
    <2>1. r = FillWritePipeline(s, p, queue)
      BY DEF p
    <2> QED BY <1>2, <1>4, <2>1 DEF FillWritePipeline
  <1>6. \A b \in Batch : b.write \in Write
    BY DEF Batch
  <1>7. /\ Writes(new) \in Seq(Write) /\ Writes(p) \in Seq(Write)
        /\ Writes(all) = Writes(p) \o Writes(new)
    <2> HIDE DEF new, p, all
    <2>1. Writes(p \o new) = Writes(p) \o Writes(new)
      BY <1>2, <1>6, WritesConcat
    <2>2. Writes(new) \in Seq(Write) /\ Writes(p) \in Seq(Write)
      BY <1>2, <1>6, WritesFacts
    <2> QED BY <1>2, <2>1, <2>2
  <1> DEFINE wp == Writes(p)
             wn == Writes(new)
  <1>8. StreamOK(s, p, u)
    OBVIOUS
  <1> HIDE DEF m, new, all, p
  <1>9. /\ wrote \in WriteStream
        /\ wrote.state = s.state /\ wrote.closes = s.closes /\ wrote.token = s.token
        /\ wrote.hello = s.hello /\ wrote.answers = s.answers
        /\ wrote.idle = (s.idle /\ ~(new # <<>> /\ s.hello = "done"))
        /\ wrote.sent = IF new # <<>> /\ s.hello = "done" THEN s.sent \o wn ELSE s.sent
    <2>1. s.sent \o wn \in Seq(Write)
      BY <1>7, StreamFacts, ConcatProperties
    <2> HIDE DEF wn
    <2> QED BY <2>1 DEF Wrote, WriteStream, wn
  <1>10. s.hello = "done" => Writes(wrote.answers) \o wrote.sent = Writes(all)
    <2> SUFFICES ASSUME s.hello = "done"
                 PROVE  Writes(wrote.answers) \o wrote.sent = Writes(all)
      OBVIOUS
    <2> DEFINE a == Writes(s.answers)
    <2>1. a \o s.sent = wp
      BY <1>8 DEF StreamOK
    <2>2. a \in Seq(Write) /\ s.sent \in Seq(Write)
      <3>1. s.answers \in Seq([write : Write, result : Outcome]) /\ s.sent \in Seq(Write)
        BY StreamFacts
      <3>2. \A x \in [write : Write, result : Outcome] : x.write \in Write
        OBVIOUS
      <3> QED BY <3>1, <3>2, WritesFacts
    <2>3. CASE new # <<>>
      <3>1. wrote.answers = s.answers /\ wrote.sent = s.sent \o wn
        BY <1>9, <2>3
      <3>2. a \o (s.sent \o wn) = (a \o s.sent) \o wn
        <4> DEFINE b == s.sent
        <4>1. a \in Seq(Write) /\ b \in Seq(Write) /\ wn \in Seq(Write)
          BY <1>7, <2>2
        <4> HIDE DEF a, b, wn
        <4>2. a \o (b \o wn) = (a \o b) \o wn
          BY ONLY <4>1, JoinThree
        <4> QED BY <4>2 DEF b
      <3> QED BY <1>7, <2>1, <3>1, <3>2
    <2>4. CASE new = <<>>
      <3>1. wrote.answers = s.answers /\ wrote.sent = s.sent
        BY <1>9, <2>4
      <3>2. p = all
        BY <1>2, <2>4 DEF p, all, new
      <3> QED BY <2>1, <3>1, <3>2
    <2> QED BY <2>3, <2>4
  <1> HIDE DEF wrote
  <1>11. /\ idled \in WriteStream
         /\ idled.state = s.state /\ idled.closes = s.closes /\ idled.token = s.token
         /\ idled.hello = s.hello /\ idled.answers = s.answers
         /\ idled.sent = wrote.sent
         /\ idled.idle = (wrote.idle \/ (all = <<>> /\ IsOpen(s)))
    BY <1>9 DEF MarkIdle, WriteStream, IsOpen
  <1> HIDE DEF idled
  <1>12. /\ t \in WriteStream
         /\ t.closes = s.closes /\ t.token = s.token
         /\ t.hello = s.hello /\ t.answers = s.answers
         /\ t.sent = wrote.sent /\ t.idle = idled.idle
         /\ t.state = IF ~IsStarted(s) /\ all # <<>>
                      THEN IF s.state = "Error" THEN "Backoff" ELSE "Starting"
                      ELSE s.state
    BY <1>11, StartFacts DEF IsStarted
  <1> HIDE DEF t
  <1>13. StreamOK(t, all, u)
    <2>1. IsStarted(t) /\ t.hello # "done" => all # <<>>
      BY <1>1, <1>2, <1>8, <1>12 DEF StreamOK, IsStarted
    <2>2. t.idle => IsOpen(t) /\ all = <<>>
      <3> SUFFICES ASSUME t.idle PROVE IsOpen(t) /\ all = <<>>
        OBVIOUS
      <3>1. wrote.idle \/ (all = <<>> /\ IsOpen(s))
        BY <1>11, <1>12
      <3>2. CASE all = <<>> /\ IsOpen(s)
        BY <1>12, <3>2 DEF IsOpen
      <3>3. CASE wrote.idle
        <4>1. s.idle /\ ~(new # <<>> /\ s.hello = "done")
          BY <1>9, <3>3
        <4>2. IsOpen(s) /\ p = <<>>
          BY <1>8, <4>1 DEF StreamOK
        <4>3. s.hello = "done"
          BY <1>8, <4>2 DEF StreamOK, IsOpen, IsStarted
        <4>4. all = <<>>
          BY <1>2, <4>1, <4>2, <4>3
        <4> QED BY <1>12, <4>2, <4>4 DEF IsOpen
      <3> QED BY <3>1, <3>2, <3>3
    <2>3. IF IsOpen(t) THEN t.token = u /\ t.hello # "no" ELSE t.hello = "no"
      BY <1>8, <1>12 DEF StreamOK, IsOpen, IsStarted
    <2>4. t.hello = "done" => Writes(t.answers) \o t.sent = Writes(all)
      BY <1>9, <1>10, <1>12
    <2>5. t.hello # "done" => t.answers = <<>> /\ t.sent = <<>>
      BY <1>8, <1>9, <1>12 DEF StreamOK
    <2> QED BY <2>1, <2>2, <2>3, <2>4, <2>5 DEF StreamOK
  <1>14. all # <<>> => IsStarted(t)
    BY <1>12 DEF IsStarted
  <1>15. all = NextBatches(queue, 0, MaxPending)
    BY NextBatchesFacts DEF all, m
  <1>16. RemoteOK(t, all, queue, u)
    BY <1>13, <1>14, <1>15 DEF RemoteOK
  <1>17. IsStarted(s) => t.state = s.state
    BY <1>12
  <1>18. s.state = "Initial" => t.state \in {"Initial", "Starting"}
    BY <1>12 DEF IsStarted
  <1>19. r.stream = t /\ r.pipeline = all
    BY <1>5
  <1>20. all = SubSeq(queue, 1, Room(queue))
    BY DEF all, m
  <1> QED BY <1>5, <1>12, <1>16, <1>17, <1>18, <1>19, <1>20

\* A closed stream has nothing on its way.
LEMMA ClosedStreamOK ==
  ASSUME NEW s \in WriteStream, NEW graceful \in BOOLEAN, NEW p, NEW u,
         NEW t, t = WriteClosed(s, graceful) \/ t = InhibitBackoff(WriteClosed(s, graceful))
  PROVE  /\ t \in WriteStream /\ StreamOK(t, p, u) /\ ~IsStarted(t)
         /\ t.closes = s.closes + 1 /\ t.answers = <<>>
         /\ t.state = "Initial" \/ t.state = "Error"
  <1> DEFINE c == WriteClosed(s, graceful)
  <1>1. /\ c \in WriteStream
        /\ c.state = IF graceful THEN "Initial" ELSE "Error"
        /\ c.closes = s.closes + 1 /\ c.idle = FALSE
        /\ c.hello = "no" /\ c.sent = <<>> /\ c.answers = <<>>
    BY ClosedFacts
  <1>2. t = c \/ t = InhibitBackoff(c)
    OBVIOUS
  <1> HIDE DEF c
  <1>3. /\ t \in WriteStream /\ t.state \in {"Initial", "Error"}
        /\ t.closes = s.closes + 1 /\ t.idle = FALSE
        /\ t.hello = "no" /\ t.sent = <<>> /\ t.answers = <<>>
    BY <1>1, <1>2 DEF InhibitBackoff, WriteStream, StreamState
  <1> QED BY <1>3 DEF StreamOK, IsStarted, IsOpen

\* RetryLater keeps the pipeline.
LEMMA RetryFacts ==
  ASSUME NEW s \in WriteStream, NEW p, NEW queue, NEW u,
         p = NextBatches(queue, 0, MaxPending),
         NEW r, r = RetryLater(s, p)
  PROVE  /\ r = [stream |-> r.stream, pipeline |-> p]
         /\ r.stream \in WriteStream
         /\ RemoteOK(r.stream, p, queue, u)
         /\ r.stream.closes = s.closes + 1
         /\ r.stream.answers = <<>>
         /\ r.stream.state # "Starting"
  <1> DEFINE c == WriteClosed(s, FALSE)
             t == IF p = <<>> THEN c ELSE Start(c)
  <1>1. r = [stream |-> t, pipeline |-> p]
    BY DEF RetryLater
  <1>2. /\ c \in WriteStream /\ c.state = "Error"
        /\ c.closes = s.closes + 1 /\ c.idle = FALSE
        /\ c.hello = "no" /\ c.sent = <<>> /\ c.answers = <<>>
    BY ClosedFacts
  <1> HIDE DEF c
  <1>3. /\ t \in WriteStream /\ t.state = IF p = <<>> THEN "Error" ELSE "Backoff"
        /\ t.closes = s.closes + 1 /\ t.idle = FALSE
        /\ t.hello = "no" /\ t.sent = <<>> /\ t.answers = <<>>
    BY <1>2, StartFacts
  <1> HIDE DEF t
  <1>4. StreamOK(t, p, u) /\ (p # <<>> => IsStarted(t))
    BY <1>3 DEF StreamOK, IsStarted, IsOpen
  <1> QED BY <1>1, <1>3, <1>4 DEF RemoteOK

\* FillWritePipeline of an empty pipeline, over a stream that carries nothing.
LEMMA RefillFacts ==
  ASSUME NEW s \in WriteStream, NEW queue \in Seq(Batch), GrowingIds(queue),
         NEW u \in User, StreamOK(s, <<>>, u),
         NEW r, r = FillWritePipeline(s, <<>>, queue)
  PROVE  /\ r = [stream |-> r.stream, pipeline |-> r.pipeline]
         /\ r.stream \in WriteStream
         /\ RemoteOK(r.stream, r.pipeline, queue, u)
         /\ r.pipeline = SubSeq(queue, 1, Room(queue))
         /\ r.stream.closes = s.closes
         /\ r.stream.answers = s.answers
         /\ IsStarted(s) => r.stream.state = s.state
         /\ s.state = "Initial" => r.stream.state \in {"Initial", "Starting"}
  <1>1. 0 \in 0 .. Room(queue) /\ SubSeq(queue, 1, 0) = <<>>
    BY RoomFacts, SubSeqEmpty
  <1>2. StreamOK(s, SubSeq(queue, 1, 0), u)
        /\ r = FillWritePipeline(s, SubSeq(queue, 1, 0), queue)
    BY <1>1
  <1> QED BY <1>1, <1>2, FillFacts

\* RestartStream, for whichever account.
LEMMA RestartFacts ==
  ASSUME NEW s \in WriteStream, NEW p, NEW u, StreamOK(s, p, u),
         NEW queue \in Seq(Batch), GrowingIds(queue), NEW v \in User,
         NEW r, r = RestartStream(s, queue)
  PROVE  /\ r = [stream |-> r.stream, pipeline |-> r.pipeline]
         /\ r.stream \in WriteStream
         /\ RemoteOK(r.stream, r.pipeline, queue, v)
         /\ r.pipeline = SubSeq(queue, 1, Room(queue))
         /\ r.stream.closes = s.closes \/ r.stream.closes = s.closes + 1
         /\ r.stream.closes = s.closes => s.state # "Starting"
         /\ r.stream.answers = <<>>
  <1> DEFINE t == IF IsStarted(s) THEN WriteClosed(s, TRUE) ELSE s
  <1>1. r = FillWritePipeline(t, <<>>, queue)
    BY DEF RestartStream
  <1>2. CASE IsStarted(s)
    <2>1. /\ t \in WriteStream /\ StreamOK(t, <<>>, v)
          /\ t.closes = s.closes + 1 /\ t.answers = <<>>
      BY <1>2, ClosedStreamOK
    <2>2. s.closes \in Nat
      BY StreamFacts
    <2> HIDE DEF t
    <2> QED BY <1>1, <2>1, <2>2, RefillFacts
  <1>3. CASE ~IsStarted(s)
    <2>1. t = s
      BY <1>3
    <2>2. StreamOK(s, <<>>, v) /\ s.answers = <<>>
      BY <1>3 DEF StreamOK, IsStarted, IsOpen
    <2>3. s.state # "Starting"
      BY <1>3 DEF IsStarted
    <2> HIDE DEF t
    <2> QED BY <1>1, <2>1, <2>2, <2>3, RefillFacts
  <1> QED BY <1>2, <1>3

\* The pipeline behind its head is a front of the queue behind its head.
LEMMA TailOfFront ==
  ASSUME NEW queue \in Seq(Batch), GrowingIds(queue), GrowingWrites(queue),
         queue # <<>>, NEW p, p = SubSeq(queue, 1, Room(queue))
  PROVE  /\ p \in Seq(Batch) /\ p # <<>> /\ Head(p) = queue[1]
         /\ Tail(queue) \in Seq(Batch)
         /\ GrowingIds(Tail(queue)) /\ GrowingWrites(Tail(queue))
         /\ Room(queue) - 1 \in 0 .. Room(Tail(queue))
         /\ Tail(p) = SubSeq(Tail(queue), 1, Room(queue) - 1)
  <1> DEFINE q == Tail(queue)
             m == Room(queue)
  <1>1. /\ Len(queue) \in Nat \ {0} /\ DOMAIN queue = 1 .. Len(queue)
        /\ q \in Seq(Batch) /\ Len(q) = Len(queue) - 1
        /\ DOMAIN q = 1 .. Len(queue) - 1
        /\ \A i \in 1 .. Len(queue) - 1 : q[i] = queue[i + 1]
    BY HeadTask
  <1>2. /\ m \in 1 .. Len(queue) /\ m <= MaxPending /\ MaxPending \in Nat
        /\ Room(q) = MaxPending \/ Room(q) = Len(q)
    <2>1. /\ m \in 0 .. Len(queue) /\ m <= MaxPending
          /\ m = MaxPending \/ m = Len(queue)
      BY RoomFacts
    <2>2. MaxPending \in Nat \ {0}
      BY PendingAssumption
    <2>3. Room(q) = MaxPending \/ Room(q) = Len(q)
      BY <1>1, RoomFacts
    <2> QED BY <1>1, <2>1, <2>2, <2>3
  <1> HIDE DEF q, m
  <1>3. GrowingIds(q) /\ GrowingWrites(q)
    <2> SUFFICES ASSUME NEW i \in DOMAIN q, NEW j \in DOMAIN q, i < j
                 PROVE  q[i].id < q[j].id /\ q[i].write < q[j].write
      BY DEF GrowingIds, GrowingWrites
    <2>1. /\ i + 1 \in DOMAIN queue /\ j + 1 \in DOMAIN queue /\ i + 1 < j + 1
          /\ q[i] = queue[i + 1] /\ q[j] = queue[j + 1]
      BY <1>1
    <2> QED BY <2>1 DEF GrowingIds, GrowingWrites
  <1>4. m - 1 \in 0 .. Room(q) /\ m - 1 \in 0 .. Len(q)
    BY <1>1, <1>2
  <1>5. /\ p \in Seq(Batch) /\ Len(p) = m
        /\ \A i \in 1 .. m : p[i] = queue[i]
    <2>1. m \in 0 .. Len(queue) /\ m \in m .. Len(queue)
      BY <1>1, <1>2
    <2> QED BY <2>1, FrontFacts DEF m
  <1>6. p # <<>> /\ Head(p) = queue[1]
    <2>1. p # <<>>
      BY <1>2, <1>5, EmptySeq
    <2> QED BY <1>2, <1>5, <2>1, HeadTask
  <1>7. /\ Tail(p) \in Seq(Batch) /\ Len(Tail(p)) = m - 1
        /\ \A i \in 1 .. m - 1 : Tail(p)[i] = p[i + 1]
    BY <1>5, <1>6, HeadTask
  <1>8. /\ SubSeq(q, 1, m - 1) \in Seq(Batch) /\ Len(SubSeq(q, 1, m - 1)) = m - 1
        /\ \A i \in 1 .. m - 1 : SubSeq(q, 1, m - 1)[i] = q[i]
    <2>1. m - 1 \in m - 1 .. Len(q)
      BY <1>4
    <2> QED BY <1>1, <1>4, <2>1, FrontFacts
  <1>9. \A i \in 1 .. m - 1 : Tail(p)[i] = SubSeq(q, 1, m - 1)[i]
    <2> TAKE i \in 1 .. m - 1
    <2>1. i \in 1 .. Len(queue) - 1 /\ i + 1 \in 1 .. m
      BY <1>1, <1>2
    <2> QED BY <1>1, <1>5, <1>7, <1>8, <2>1
  <1>10. Tail(p) = SubSeq(q, 1, m - 1)
    BY <1>7, <1>8, <1>9, SeqEqual
  <1> QED BY <1>1, <1>3, <1>4, <1>5, <1>6, <1>10 DEF q, m

\* The first answer is for the head of the pipeline.
LEMMA FirstAnswer ==
  ASSUME NEW s \in WriteStream, NEW p \in Seq(Batch), NEW u,
         StreamOK(s, p, u), s.answers # <<>>
  PROVE  /\ s.hello = "done" /\ IsOpen(s) /\ p # <<>> /\ ~s.idle
         /\ Len(s.answers) \in Nat \ {0} /\ Len(s.answers) <= Len(p)
         /\ \A i \in 1 .. Len(s.answers) : s.answers[i].write = p[i].write
         /\ Writes(Tail(s.answers)) \o s.sent = Writes(Tail(p))
  <1> DEFINE Answer == [write : Write, result : Outcome]
             a == s.answers
  <1>1. (\A x \in Answer : x.write \in Write) /\ (\A b \in Batch : b.write \in Write)
    BY DEF Batch
  <1>2. /\ s.hello = "done" /\ IsOpen(s) /\ Writes(a) \o s.sent = Writes(p)
        /\ s.idle => p = <<>>
    BY DEF StreamOK, IsOpen
  <1>3. a \in Seq(Answer) /\ s.sent \in Seq(Write) /\ a # <<>>
    BY StreamFacts
  <1> HIDE DEF Answer, a
  <1>4. /\ Len(a) \in Nat \ {0} /\ Tail(a) \in Seq(Answer)
        /\ Len(Tail(a)) = Len(a) - 1
        /\ \A i \in 1 .. Len(a) - 1 : Tail(a)[i] = a[i + 1]
    BY <1>3, HeadTask
  <1>5. /\ Writes(a) \in Seq(Write) /\ Len(Writes(a)) = Len(a)
        /\ \A i \in 1 .. Len(a) : Writes(a)[i] = a[i].write
        /\ Writes(p) \in Seq(Write) /\ Len(Writes(p)) = Len(p)
        /\ \A i \in 1 .. Len(p) : Writes(p)[i] = p[i].write
        /\ Len(s.sent) \in Nat /\ Len(p) \in Nat
    BY <1>1, <1>3, WritesFacts, LenProperties
  <1>6. /\ Len(p) = Len(a) + Len(s.sent)
        /\ \A i \in 1 .. Len(p) :
               Writes(p)[i] = IF i <= Len(a) THEN Writes(a)[i] ELSE s.sent[i - Len(a)]
    <2> DEFINE w == Writes(a)
               x == s.sent
    <2>1. w \in Seq(Write) /\ x \in Seq(Write)
      BY <1>3, <1>5
    <2>2. Len(w) = Len(a) /\ Len(Writes(p)) = Len(p) /\ Writes(p) = w \o x
      BY <1>2, <1>5
    <2> HIDE DEF w, x
    <2>3. /\ Len(w \o x) = Len(w) + Len(x)
          /\ \A i \in 1 .. Len(w) + Len(x) :
                 (w \o x)[i] = IF i <= Len(w) THEN w[i] ELSE x[i - Len(w)]
      BY <2>1, ConcatProperties
    <2> QED BY <2>2, <2>3 DEF w, x
  <1>7. p # <<>> /\ Len(a) <= Len(p)
    BY <1>4, <1>5, <1>6, EmptySeq
  <1>8. \A i \in 1 .. Len(a) : a[i].write = p[i].write
    <2> TAKE i \in 1 .. Len(a)
    <2>1. i \in 1 .. Len(p) /\ i <= Len(a)
      BY <1>4, <1>5, <1>7
    <2> QED BY <1>5, <1>6, <2>1
  <1>9. /\ Tail(p) \in Seq(Batch) /\ Len(Tail(p)) = Len(p) - 1
        /\ \A i \in 1 .. Len(p) - 1 : Tail(p)[i] = p[i + 1]
    BY <1>7, HeadTask
  <1>10. /\ Writes(Tail(a)) \in Seq(Write) /\ Len(Writes(Tail(a))) = Len(a) - 1
         /\ \A i \in 1 .. Len(a) - 1 : Writes(Tail(a))[i] = Tail(a)[i].write
         /\ Writes(Tail(p)) \in Seq(Write) /\ Len(Writes(Tail(p))) = Len(p) - 1
         /\ \A i \in 1 .. Len(p) - 1 : Writes(Tail(p))[i] = Tail(p)[i].write
    BY <1>1, <1>4, <1>9, WritesFacts
  <1>11. Writes(Tail(a)) \o s.sent = Writes(Tail(p))
    <2> DEFINE w == Writes(Tail(a))
               x == s.sent
               c == w \o x
               d == Writes(Tail(p))
    <2>1. w \in Seq(Write) /\ x \in Seq(Write) /\ Len(w) = Len(a) - 1
          /\ d \in Seq(Write) /\ Len(d) = Len(p) - 1 /\ Len(x) \in Nat
          /\ Len(p) = Len(a) + Len(x)
      BY <1>3, <1>5, <1>6, <1>10
    <2> HIDE DEF w, x, d
    <2>2. /\ c \in Seq(Write) /\ Len(c) = Len(w) + Len(x)
          /\ \A i \in 1 .. Len(w) + Len(x) :
                 c[i] = IF i <= Len(w) THEN w[i] ELSE x[i - Len(w)]
      BY <2>1, ConcatProperties
    <2> HIDE DEF c
    <2>3. Len(c) = Len(p) - 1
      BY <1>4, <1>5, <2>1, <2>2
    <2>4. \A i \in 1 .. Len(p) - 1 : c[i] = d[i]
      <3> TAKE i \in 1 .. Len(p) - 1
      <3>1. /\ i + 1 \in 1 .. Len(p)
            /\ d[i] = Writes(p)[i + 1]
            /\ i \in 1 .. Len(w) + Len(x)
        BY <1>4, <1>5, <1>9, <1>10, <2>1 DEF d
      <3>2. CASE i <= Len(a) - 1
        <4>1. i \in 1 .. Len(a) - 1 /\ i + 1 \in 1 .. Len(a) /\ i + 1 <= Len(a)
          BY <1>4, <3>2
        <4>2. c[i] = w[i] /\ w[i] = a[i + 1].write
          BY <1>4, <1>10, <2>1, <2>2, <3>1, <3>2, <4>1 DEF w
        <4>3. Writes(p)[i + 1] = a[i + 1].write
          BY <1>5, <1>6, <3>1, <4>1
        <4> QED BY <3>1, <4>2, <4>3
      <3>3. CASE ~(i <= Len(a) - 1)
        <4>1. ~(i + 1 <= Len(a)) /\ i + 1 - Len(a) = i - Len(w)
          BY <1>4, <2>1, <3>3
        <4>2. c[i] = x[i - Len(w)]
          BY <2>1, <2>2, <3>1, <3>3
        <4>3. Writes(p)[i + 1] = x[i + 1 - Len(a)]
          BY <1>6, <3>1, <4>1 DEF x
        <4> QED BY <3>1, <4>1, <4>2, <4>3
      <3> QED BY <3>2, <3>3
    <2> QED BY <2>1, <2>2, <2>3, <2>4, SeqEqual DEF c, d, w, x
  <1> QED BY <1>2, <1>4, <1>7, <1>8, <1>11 DEF a

(***************************************************************************)
(* The tokens on their way.                                                *)
(***************************************************************************)

\* Does one of the requests a, or of the tasks in m and w, bring the token that
\* was asked for under the close count c?
Brings(a, m, w, c) ==
    \/ \E ask \in a : ask.closes = c
    \/ \E i \in Tokens(m) : m[i].ask.closes = c
    \/ \E i \in Tokens(w) : w[i].closes = c

LEMMA AwaitedIsBrought ==
  /\ \A c : c \in AwaitedTokens <=> Brings(asks, main, worker, c)
  /\ \A c : c \in AwaitedTokens' <=> Brings(asks', main', worker', c)
  <1>1. \A c : c \in AwaitedTokens <=> Brings(asks, main, worker, c)
    BY DEF AwaitedTokens, Brings, Tokens, ToSet
  <1>2. \A c : c \in AwaitedTokens' <=> Brings(asks', main', worker', c)
    BY DEF AwaitedTokens, Brings, Tokens, ToSet
  <1> QED BY <1>1, <1>2

LEMMA AwaitedAreCounts ==
  ASSUME TypeOK PROVE AwaitedTokens \subseteq Nat
  <1>1. \A ask \in asks : ask.closes \in Nat
    BY DEF TypeOK, Ask
  <1>2. \A i \in Tokens(main) : main[i].ask.closes \in Nat
    <2>1. \A i \in DOMAIN main : main[i] \in MainTask
      BY LenProperties DEF TypeOK
    <2>2. \A m \in MainTask : m.type = "token" => m.ask.closes \in Nat
      BY DEF MainTask, Ask
    <2> QED BY <2>1, <2>2 DEF Tokens
  <1>3. \A i \in Tokens(worker) : worker[i].closes \in Nat
    <2>1. \A i \in DOMAIN worker : worker[i] \in WorkerTask
      BY LenProperties DEF TypeOK
    <2>2. \A m \in WorkerTask : m.type = "token" => m.closes \in Nat
      BY DEF WorkerTask
    <2> QED BY <2>1, <2>2 DEF Tokens
  <1> QED BY <1>1, <1>2, <1>3, AwaitedIsBrought DEF Brings

LEMMA AppendedKinds ==
  ASSUME NEW S, NEW q \in Seq(S), NEW e \in S, NEW r, r = Append(q, e)
  PROVE  /\ Len(q) + 1 \notin DOMAIN q
         /\ DOMAIN r = DOMAIN q \cup {Len(q) + 1}
         /\ \A i \in DOMAIN q : r[i] = q[i] /\ i < Len(q) + 1
         /\ r[Len(q) + 1] = e
         /\ Tokens(r) = Tokens(q) \cup {i \in {Len(q) + 1} : e.type = "token"}
         /\ WriteTasks(r) = WriteTasks(q) \cup {i \in {Len(q) + 1} : e.type = "write"}
  <1>1. /\ Len(q) \in Nat /\ DOMAIN q = 1 .. Len(q) /\ DOMAIN r = 1 .. Len(q) + 1
        /\ \A i \in 1 .. Len(q) : r[i] = q[i]
        /\ r[Len(q) + 1] = e
    BY AppendedTask
  <1>2. /\ Len(q) + 1 \notin DOMAIN q /\ DOMAIN r = DOMAIN q \cup {Len(q) + 1}
        /\ \A i \in DOMAIN q : r[i] = q[i] /\ i < Len(q) + 1
    BY <1>1
  <1> QED BY <1>1, <1>2 DEF Tokens, WriteTasks

LEMMA TailKinds ==
  ASSUME NEW S, NEW q \in Seq(S), q # <<>>, NEW r, r = Tail(q)
  PROVE  /\ DOMAIN q \subseteq Nat /\ DOMAIN r \subseteq Nat
         /\ 1 \in DOMAIN q /\ Head(q) = q[1]
         /\ \A i \in DOMAIN r : i + 1 \in DOMAIN q /\ i + 1 # 1 /\ r[i] = q[i + 1]
         /\ \A i \in DOMAIN q : i # 1 => i - 1 \in DOMAIN r /\ r[i - 1] = q[i]
         /\ \A i \in DOMAIN r : i \in Tokens(r) <=> i + 1 \in Tokens(q)
         /\ \A i \in DOMAIN r : i \in WriteTasks(r) <=> i + 1 \in WriteTasks(q)
  <1>1. /\ Len(q) \in Nat \ {0} /\ DOMAIN q = 1 .. Len(q) /\ Head(q) = q[1]
        /\ DOMAIN r = 1 .. Len(q) - 1
        /\ \A i \in 1 .. Len(q) - 1 : r[i] = q[i + 1]
    BY HeadTask
  <1>2. /\ DOMAIN q \subseteq Nat /\ DOMAIN r \subseteq Nat
        /\ 1 \in DOMAIN q
        /\ \A i \in DOMAIN r : i + 1 \in DOMAIN q /\ i + 1 # 1 /\ r[i] = q[i + 1]
    BY <1>1
  <1>3. \A i \in DOMAIN q : i # 1 => i - 1 \in DOMAIN r /\ r[i - 1] = q[i]
    BY <1>1
  <1> QED BY <1>1, <1>2, <1>3 DEF Tokens, WriteTasks

\* A step of the worker that leaves the token of the stream alone.
LEMMA TokenStep ==
  ASSUME TypeOK, TokenInv, stream' \in WriteStream,
         asks' = asks \cup (IF AsksToken(stream, stream')
                            THEN {[closes |-> stream'.closes, counter |-> tokenCounter]}
                            ELSE {}),
         main' = main,
         \/ worker' = worker
         \/ /\ worker # <<>> /\ worker' = Tail(worker)
            /\ Head(worker).type = "token" => Head(worker).closes # stream'.closes,
         stream'.closes = stream.closes \/ stream'.closes = stream.closes + 1,
         stream'.closes = stream.closes /\ stream.state = "Starting"
            => stream'.state = "Starting"
  PROVE  TokenInv'
  <1> DEFINE c == stream.closes
             d == stream'.closes
             ask == [closes |-> d, counter |-> tokenCounter]
  <1>1. c \in Nat /\ d \in Nat /\ c <= d
    BY StreamFacts DEF TypeOK
  <1>2. /\ Tokens(worker) \subseteq Nat /\ Tokens(worker') \subseteq Nat
        /\ \/ worker' = worker
           \/ /\ \A i \in Tokens(worker') : i + 1 \in Tokens(worker) /\ worker'[i] = worker[i + 1]
              /\ \A i \in Tokens(worker) :
                     \/ i - 1 \in Tokens(worker') /\ worker'[i - 1] = worker[i]
                     \/ worker[i].closes # d
    <2>1. worker \in Seq(WorkerTask)
      BY DEF TypeOK
    <2>2. Tokens(worker) \subseteq Nat
      BY <2>1, LenProperties DEF Tokens
    <2>3. CASE worker' = worker
      BY <2>2, <2>3
    <2>4. CASE /\ worker # <<>> /\ worker' = Tail(worker)
               /\ Head(worker).type = "token" => Head(worker).closes # d
      <3>1. /\ DOMAIN worker \subseteq Nat /\ DOMAIN worker' \subseteq Nat
            /\ Head(worker) = worker[1]
            /\ \A i \in DOMAIN worker' :
                   i + 1 \in DOMAIN worker /\ worker'[i] = worker[i + 1]
            /\ \A i \in DOMAIN worker : i # 1 =>
                   i - 1 \in DOMAIN worker' /\ worker'[i - 1] = worker[i]
        BY <2>1, <2>4, TailKinds
      <3> QED BY <2>2, <2>4, <3>1 DEF Tokens
    <2> QED BY <2>3, <2>4
  <1>3. \A x : x \in AwaitedTokens <=> Brings(asks, main, worker, x)
    BY AwaitedIsBrought
  <1>4. \A x : x \in AwaitedTokens' <=> Brings(asks', main', worker', x)
    BY AwaitedIsBrought
  <1>5. AsksToken(stream, stream') => d \notin AwaitedTokens
    BY <1>1 DEF AsksToken, TokenInv, TokenIsAwaited
  <1>6. \A x : Brings(asks', main', worker', x)
               => Brings(asks, main, worker, x) \/ (AsksToken(stream, stream') /\ x = d)
    BY <1>2 DEF Brings
  <1>7. Brings(asks, main, worker, d) \/ AsksToken(stream, stream')
        => Brings(asks', main', worker', d)
    <2>1. CASE \E a \in asks : a.closes = d
      BY <2>1 DEF Brings
    <2>2. CASE \E i \in Tokens(main) : main[i].ask.closes = d
      BY <2>2 DEF Brings
    <2>3. CASE \E i \in Tokens(worker) : worker[i].closes = d
      BY <1>2, <2>3 DEF Brings
    <2>4. CASE AsksToken(stream, stream')
      <3>1. ask \in asks' /\ ask.closes = d
        BY <2>4
      <3> HIDE DEF ask
      <3> QED BY <3>1 DEF Brings
    <2> QED BY <2>1, <2>2, <2>3, <2>4 DEF Brings
  <1>8. TokenIsAwaited'
    <2>1. stream.state = "Starting" <=> c \in AwaitedTokens
      BY DEF TokenInv, TokenIsAwaited
    <2>2. d \in AwaitedTokens' <=> d \in AwaitedTokens \/ AsksToken(stream, stream')
      BY <1>3, <1>4, <1>6, <1>7
    <2>3. CASE d = c
      BY <2>1, <2>2, <2>3 DEF TokenIsAwaited, AsksToken
    <2>4. CASE d = c + 1
      <3>1. d \notin AwaitedTokens /\ d # c
        BY <1>1, <2>4 DEF TokenInv
      <3> QED BY <2>2, <3>1 DEF TokenIsAwaited, AsksToken
    <2> QED BY <2>3, <2>4
  <1>9. \A x \in AwaitedTokens' : x <= d
    <2> TAKE x \in AwaitedTokens'
    <2>1. CASE x = d
      BY <1>1, <2>1
    <2>2. CASE x \in AwaitedTokens
      <3>1. x \in Nat /\ x <= c
        BY <2>2, AwaitedAreCounts DEF TokenInv
      <3> QED BY <1>1, <3>1
    <2> QED BY <1>3, <1>4, <1>6, <2>1, <2>2
  <1>10. \A a, b \in asks' : a.closes = b.closes => a = b
    BY <1>3, <1>5 DEF TokenInv, Brings
  <1>11. \A i, j \in Tokens(main') : main'[i].ask.closes = main'[j].ask.closes => i = j
    BY DEF TokenInv
  <1>12. \A i, j \in Tokens(worker') : worker'[i].closes = worker'[j].closes => i = j
    <2> SUFFICES ASSUME NEW i \in Tokens(worker'), NEW j \in Tokens(worker'),
                        worker'[i].closes = worker'[j].closes
                 PROVE  i = j
      OBVIOUS
    <2>1. CASE worker' = worker
      BY <2>1 DEF TokenInv
    <2>2. CASE /\ i + 1 \in Tokens(worker) /\ worker'[i] = worker[i + 1]
               /\ j + 1 \in Tokens(worker) /\ worker'[j] = worker[j + 1]
      <3>1. i + 1 = j + 1
        BY <2>2 DEF TokenInv
      <3>2. i \in Nat /\ j \in Nat
        BY <1>2
      <3> QED BY <3>1, <3>2
    <2> QED BY <1>2, <2>1, <2>2
  <1>13. \A a \in asks' : \A i \in Tokens(main') : a.closes # main'[i].ask.closes
    BY <1>3, <1>5 DEF TokenInv, Brings
  <1>14. \A a \in asks' : \A i \in Tokens(worker') : a.closes # worker'[i].closes
    <2>1. \A i \in Tokens(worker') : \E j \in Tokens(worker) : worker'[i] = worker[j]
      BY <1>2
    <2> QED BY <1>3, <1>5, <2>1 DEF TokenInv, Brings
  <1>15. \A i \in Tokens(main') : \A j \in Tokens(worker') :
             main'[i].ask.closes # worker'[j].closes
    BY <1>2 DEF TokenInv
  <1> QED BY <1>8, <1>9, <1>10, <1>11, <1>12, <1>13, <1>14, <1>15 DEF TokenInv

\* A step of the threads that moves no token: one task may leave the main
\* thread, and the positions behind it shift.
LEMMA TokensShift ==
  ASSUME TypeOK, TokenInv, stream' = stream, asks' = asks, NEW a \in {0, 1},
         Tokens(main') \subseteq Nat,
         \A i \in Tokens(main') : i + a \in Tokens(main) /\ main'[i] = main[i + a],
         \A i \in Tokens(main) : i - a \in Tokens(main') /\ main'[i - a] = main[i],
         Tokens(worker') = Tokens(worker),
         \A i \in Tokens(worker) : worker'[i] = worker[i]
  PROVE  TokenInv'
  <1>1. \A x : Brings(asks', main', worker', x) <=> Brings(asks, main, worker, x)
    BY DEF Brings
  <1>2. \A x : x \in AwaitedTokens' <=> x \in AwaitedTokens
    BY <1>1, AwaitedIsBrought
  <1>3. TokenIsAwaited' /\ \A x \in AwaitedTokens' : x <= stream'.closes
    BY <1>2 DEF TokenInv, TokenIsAwaited
  <1>4. \A i, j \in Tokens(main') : main'[i].ask.closes = main'[j].ask.closes => i = j
    <2> SUFFICES ASSUME NEW i \in Tokens(main'), NEW j \in Tokens(main'),
                        main'[i].ask.closes = main'[j].ask.closes
                 PROVE  i = j
      OBVIOUS
    <2>1. i + a = j + a
      BY DEF TokenInv
    <2>2. i \in Nat /\ j \in Nat /\ a \in Nat
      OBVIOUS
    <2> QED BY <2>1, <2>2
  <1> QED BY <1>3, <1>4 DEF TokenInv

\* The token of a request goes to the main thread, at position k.
LEMMA TokenFetchedStep ==
  ASSUME TypeOK, TokenInv, stream' = stream, worker' = worker,
         NEW ask \in asks, asks' = asks \ {ask},
         NEW k, k \notin Tokens(main), main'[k].ask = ask,
         Tokens(main') = Tokens(main) \cup {k},
         \A i \in Tokens(main) : main'[i] = main[i]
  PROVE  TokenInv'
  <1>1. \A i \in Tokens(main') : (i = k /\ main'[i].ask = ask)
                                 \/ (i \in Tokens(main) /\ main'[i] = main[i])
    OBVIOUS
  <1>2. \A x : Brings(asks', main', worker', x) <=> Brings(asks, main, worker, x)
    <2>1. \A x : Brings(asks', main', worker', x) => Brings(asks, main, worker, x)
      BY <1>1 DEF Brings
    <2>2. \A x : Brings(asks, main, worker, x) => Brings(asks', main', worker', x)
      <3> SUFFICES ASSUME NEW x, Brings(asks, main, worker, x)
                   PROVE  Brings(asks', main', worker', x)
        OBVIOUS
      <3>1. CASE ask.closes = x
        BY <3>1 DEF Brings
      <3>2. CASE ask.closes # x
        BY <3>2 DEF Brings
      <3> QED BY <3>1, <3>2
    <2> QED BY <2>1, <2>2
  <1>3. TokenIsAwaited' /\ \A x \in AwaitedTokens' : x <= stream'.closes
    BY <1>2, AwaitedIsBrought DEF TokenInv, TokenIsAwaited
  <1>4. \A i, j \in Tokens(main') : main'[i].ask.closes = main'[j].ask.closes => i = j
    BY <1>1 DEF TokenInv
  <1>5. \A b \in asks' : \A i \in Tokens(main') : b.closes # main'[i].ask.closes
    BY <1>1 DEF TokenInv
  <1>6. \A i \in Tokens(main') : \A j \in Tokens(worker') :
            main'[i].ask.closes # worker'[j].closes
    BY <1>1 DEF TokenInv
  <1> QED BY <1>3, <1>4, <1>5, <1>6 DEF TokenInv

\* The token at the head of the main thread goes to the worker, at position k.
LEMMA TokenHeardStep ==
  ASSUME TypeOK, TokenInv, stream' = stream, asks' = asks,
         1 \in Tokens(main), Tokens(main') \subseteq Nat,
         \A i \in Tokens(main') :
             i + 1 \in Tokens(main) /\ i + 1 # 1 /\ main'[i] = main[i + 1],
         \A i \in Tokens(main) : i # 1 => i - 1 \in Tokens(main') /\ main'[i - 1] = main[i],
         NEW k, k \notin Tokens(worker), worker'[k].closes = main[1].ask.closes,
         Tokens(worker') = Tokens(worker) \cup {k},
         \A i \in Tokens(worker) : worker'[i] = worker[i]
  PROVE  TokenInv'
  <1>1. \A i \in Tokens(worker') : (i = k /\ worker'[i].closes = main[1].ask.closes)
                                   \/ (i \in Tokens(worker) /\ worker'[i] = worker[i])
    OBVIOUS
  <1>2. \A x : Brings(asks', main', worker', x) <=> Brings(asks, main, worker, x)
    <2>1. \A x : Brings(asks', main', worker', x) => Brings(asks, main, worker, x)
      BY <1>1 DEF Brings
    <2>2. \A x : Brings(asks, main, worker, x) => Brings(asks', main', worker', x)
      <3> SUFFICES ASSUME NEW x, Brings(asks, main, worker, x)
                   PROVE  Brings(asks', main', worker', x)
        OBVIOUS
      <3>1. CASE main[1].ask.closes = x
        BY <3>1 DEF Brings
      <3>2. CASE main[1].ask.closes # x
        <4>1. CASE \E i \in Tokens(main) : main[i].ask.closes = x
          BY <3>2, <4>1 DEF Brings
        <4>2. CASE \E i \in Tokens(worker) : worker[i].closes = x
          BY <4>2 DEF Brings
        <4>3. CASE \E b \in asks : b.closes = x
          BY <4>3 DEF Brings
        <4> QED BY <4>1, <4>2, <4>3 DEF Brings
      <3> QED BY <3>1, <3>2
    <2> QED BY <2>1, <2>2
  <1>3. TokenIsAwaited' /\ \A x \in AwaitedTokens' : x <= stream'.closes
    BY <1>2, AwaitedIsBrought DEF TokenInv, TokenIsAwaited
  <1>4. \A i, j \in Tokens(main') : main'[i].ask.closes = main'[j].ask.closes => i = j
    <2> SUFFICES ASSUME NEW i \in Tokens(main'), NEW j \in Tokens(main'),
                        main'[i].ask.closes = main'[j].ask.closes
                 PROVE  i = j
      OBVIOUS
    <2>1. i + 1 = j + 1
      BY DEF TokenInv
    <2>2. i \in Nat /\ j \in Nat
      OBVIOUS
    <2> QED BY <2>1, <2>2
  <1>5. \A i, j \in Tokens(worker') : worker'[i].closes = worker'[j].closes => i = j
    BY <1>1 DEF TokenInv
  <1>6. \A b \in asks' : \A i \in Tokens(main') : b.closes # main'[i].ask.closes
    BY DEF TokenInv
  <1>7. \A b \in asks' : \A i \in Tokens(worker') : b.closes # worker'[i].closes
    BY <1>1 DEF TokenInv
  <1>8. \A i \in Tokens(main') : \A j \in Tokens(worker') :
             main'[i].ask.closes # worker'[j].closes
    <2> SUFFICES ASSUME NEW i \in Tokens(main'), NEW j \in Tokens(worker')
                 PROVE  main'[i].ask.closes # worker'[j].closes
      OBVIOUS
    <2>1. i + 1 \in Tokens(main) /\ i + 1 # 1 /\ main'[i] = main[i + 1]
      OBVIOUS
    <2>2. CASE worker'[j].closes = main[1].ask.closes
      BY <2>1, <2>2 DEF TokenInv
    <2>3. CASE j \in Tokens(worker) /\ worker'[j] = worker[j]
      BY <2>1, <2>3 DEF TokenInv
    <2> QED BY <1>1, <2>2, <2>3
  <1> QED BY <1>3, <1>4, <1>5, <1>6, <1>7, <1>8 DEF TokenInv

\* The stream takes the token that it waits for.
LEMMA TokenTakenStep ==
  ASSUME TypeOK, TokenInv, asks' = asks, main' = main,
         1 \in Tokens(worker), worker[1].closes = stream.closes,
         \A i \in Tokens(worker') :
             i \in Nat /\ i + 1 \in Tokens(worker) /\ i + 1 # 1 /\ worker'[i] = worker[i + 1],
         stream'.closes = stream.closes, stream'.state = "Open"
  PROVE  TokenInv'
  <1>1. \A x : Brings(asks', main', worker', x)
               => Brings(asks, main, worker, x) /\ x # stream.closes
    <2> SUFFICES ASSUME NEW x, Brings(asks', main', worker', x)
                 PROVE  Brings(asks, main, worker, x) /\ x # stream.closes
      OBVIOUS
    <2>1. CASE \E b \in asks : b.closes = x
      BY <2>1 DEF Brings, TokenInv
    <2>2. CASE \E i \in Tokens(main) : main[i].ask.closes = x
      BY <2>2 DEF Brings, TokenInv
    <2>3. CASE \E i \in Tokens(worker') : worker'[i].closes = x
      <3>1. PICK i \in Tokens(worker') : worker'[i].closes = x
        BY <2>3
      <3>2. i + 1 \in Tokens(worker) /\ i + 1 # 1 /\ worker[i + 1].closes = x
        BY <3>1
      <3> QED BY <3>2 DEF Brings, TokenInv
    <2> QED BY <2>1, <2>2, <2>3 DEF Brings
  <1>2. TokenIsAwaited' /\ \A x \in AwaitedTokens' : x <= stream'.closes
    BY <1>1, AwaitedIsBrought DEF TokenInv, TokenIsAwaited
  <1>3. \A i, j \in Tokens(worker') : worker'[i].closes = worker'[j].closes => i = j
    <2> SUFFICES ASSUME NEW i \in Tokens(worker'), NEW j \in Tokens(worker'),
                        worker'[i].closes = worker'[j].closes
                 PROVE  i = j
      OBVIOUS
    <2>1. i + 1 = j + 1
      BY DEF TokenInv
    <2>2. i \in Nat /\ j \in Nat
      OBVIOUS
    <2> QED BY <2>1, <2>2
  <1>4. \A b \in asks' : \A i \in Tokens(worker') : b.closes # worker'[i].closes
    BY DEF TokenInv
  <1>5. \A i \in Tokens(main') : \A j \in Tokens(worker') :
            main'[i].ask.closes # worker'[j].closes
    BY DEF TokenInv
  <1> QED BY <1>2, <1>3, <1>4, <1>5 DEF TokenInv

(***************************************************************************)
(* The threads: ThreadInv and TokenInv.                                    *)
(***************************************************************************)
LEMMA AppendLeads ==
  ASSUME NEW S, NEW q \in Seq(S), NEW e \in S, NEW u0, NEW u, Leads(q, u0, u),
         e.type = "token" /\ e.user # Failed => e.user = u
  PROVE  Leads(Append(q, e), u0, After(e, u))
  <1> DEFINE r == Append(q, e)
             k == Len(q) + 1
  <1>1. /\ Len(q) \in Nat /\ Len(r) = k /\ DOMAIN r = 1 .. k
        /\ DOMAIN q = 1 .. Len(q)
        /\ \A i \in 1 .. Len(q) : r[i] = q[i]
        /\ r[k] = e
    BY AppendedTask
  <1>2. \A v : \A i \in 0 .. Len(q) : Follows(r, i, u0, v) <=> Follows(q, i, u0, v)
    BY FollowsAppend
  <1>3. \A v : e.type = "auth" => (Follows(r, k, u0, v) <=> v = e.user)
    BY FollowsAppend
  <1>4. \A v : e.type # "auth" => (Follows(r, k, u0, v) <=> Follows(q, Len(q), u0, v))
    BY FollowsAppend
  <1> HIDE DEF r
  <1>5. Follows(r, Len(r), u0, After(e, u))
    BY <1>1, <1>3, <1>4 DEF Leads, After
  <1>6. ASSUME NEW i \in Tokens(r), r[i].user # Failed
        PROVE  Follows(r, i, u0, r[i].user)
    <2>1. CASE i = k
      <3>1. e.type = "token" /\ r[i].user = u
        BY <1>1, <1>6, <2>1 DEF Tokens
      <3> QED BY <1>4, <2>1, <3>1 DEF Leads
    <2>2. CASE i # k
      <3>1. i \in 1 .. Len(q) /\ i \in 0 .. Len(q) /\ r[i] = q[i] /\ i \in Tokens(q)
        BY <1>1, <1>6, <2>2 DEF Tokens
      <3> QED BY <1>2, <1>6, <3>1 DEF Leads
    <2> QED BY <2>1, <2>2
  <1> QED BY <1>5, <1>6 DEF Leads, r

LEMMA TailLeads ==
  ASSUME NEW S, NEW q \in Seq(S), q # <<>>, NEW u0, NEW u, Leads(q, u0, u)
  PROVE  /\ Leads(Tail(q), After(Head(q), u0), u)
         /\ Head(q).type = "token" /\ Head(q).user # Failed => Head(q).user = u0
  <1> DEFINE r == Tail(q)
             a == After(Head(q), u0)
  <1>1. /\ Len(q) \in Nat \ {0} /\ DOMAIN q = 1 .. Len(q) /\ Head(q) = q[1]
        /\ Len(r) = Len(q) - 1 /\ DOMAIN r = 1 .. Len(q) - 1
        /\ \A i \in 1 .. Len(q) - 1 : r[i] = q[i + 1]
    BY HeadTask
  <1>2. \A v : \A i \in 0 .. Len(q) - 1 : Follows(q, i + 1, u0, v) => Follows(r, i, a, v)
    BY FollowsTail
  <1> HIDE DEF r, a
  <1>3. Follows(r, Len(r), a, u)
    <2>1. Len(q) - 1 \in 0 .. Len(q) - 1 /\ (Len(q) - 1) + 1 = Len(q)
      BY <1>1
    <2>2. Follows(q, (Len(q) - 1) + 1, u0, u)
      BY <2>1 DEF Leads
    <2> QED BY <1>1, <1>2, <2>1, <2>2
  <1>4. ASSUME NEW i \in Tokens(r), r[i].user # Failed
        PROVE  Follows(r, i, a, r[i].user)
    <2>1. i \in 0 .. Len(q) - 1 /\ i + 1 \in Tokens(q) /\ r[i] = q[i + 1]
      BY <1>1, <1>4 DEF Tokens
    <2> QED BY <1>2, <1>4, <2>1 DEF Leads
  <1>5. Head(q).type = "token" /\ Head(q).user # Failed => Head(q).user = u0
    <2> SUFFICES ASSUME q[1].type = "token", q[1].user # Failed PROVE q[1].user = u0
      BY <1>1
    <2>1. 1 \in Tokens(q)
      BY <1>1 DEF Tokens
    <2>2. Follows(q, 1, u0, q[1].user)
      BY <2>1 DEF Leads
    <2> QED BY <2>2, FollowsHead
  <1> QED BY <1>3, <1>4, <1>5 DEF Leads, r, a

\* A task that is no write joins the worker's queue.
LEMMA WritesMeetAppend ==
  ASSUME TypeOK, WritesMeetOwner, NEW e \in WorkerTask,
         worker' = Append(worker, e), session' = session,
         \A i \in WriteTasks(worker) :
             owner'[worker[i].write] = owner[worker[i].write],
         e.type = "write" =>
             Follows(worker, Len(worker), session, owner'[e.write])
  PROVE  WritesMeetOwner'
  <1> DEFINE k == Len(worker) + 1
  <1>0. worker \in Seq(WorkerTask)
    BY DEF TypeOK
  <1>1. /\ Len(worker) \in Nat /\ DOMAIN worker = 1 .. Len(worker)
        /\ DOMAIN worker' = 1 .. k
        /\ \A i \in 1 .. Len(worker) : worker'[i] = worker[i]
        /\ worker'[k] = e
    BY <1>0, AppendedTask
  <1>2. \A v : \A i \in 0 .. Len(worker) :
            Follows(worker', i, session, v) <=> Follows(worker, i, session, v)
    BY <1>0, FollowsAppend
  <1>3. \A v : e.type # "auth" =>
            (Follows(worker', k, session, v) <=> Follows(worker, Len(worker), session, v))
    BY <1>0, FollowsAppend
  <1>4. ASSUME NEW i \in WriteTasks(worker')
        PROVE  Follows(worker', i, session, owner'[worker'[i].write])
    <2>1. CASE i = k
      BY <1>1, <1>3, <1>4, <2>1 DEF WriteTasks
    <2>2. CASE i # k
      <3>1. i \in 0 .. Len(worker) /\ i \in WriteTasks(worker) /\ worker'[i] = worker[i]
        BY <1>1, <1>4, <2>2 DEF WriteTasks
      <3> QED BY <1>2, <3>1 DEF WritesMeetOwner
    <2> QED BY <2>1, <2>2
  <1> QED BY <1>4 DEF WritesMeetOwner

\* The worker turns to its next task.
LEMMA WritesMeetTail ==
  ASSUME TypeOK, WritesMeetOwner, worker # <<>>, worker' = Tail(worker),
         session' = After(Head(worker), session), owner' = owner
  PROVE  /\ WritesMeetOwner'
         /\ Head(worker).type = "write" => owner[Head(worker).write] = session
  <1> DEFINE n == Len(worker)
  <1>0. worker \in Seq(WorkerTask)
    BY DEF TypeOK
  <1>1. /\ n \in Nat \ {0} /\ DOMAIN worker = 1 .. n /\ Head(worker) = worker[1]
        /\ DOMAIN worker' = 1 .. n - 1
        /\ \A i \in 1 .. n - 1 : worker'[i] = worker[i + 1]
    BY <1>0, HeadTask
  <1>2. \A v : \A i \in 0 .. n - 1 :
            Follows(worker, i + 1, session, v) => Follows(worker', i, session', v)
    BY <1>0, FollowsTail
  <1>3. ASSUME NEW i \in WriteTasks(worker')
        PROVE  Follows(worker', i, session', owner'[worker'[i].write])
    <2>1. i \in 0 .. n - 1 /\ i + 1 \in WriteTasks(worker) /\ worker'[i] = worker[i + 1]
      BY <1>1, <1>3 DEF WriteTasks
    <2> QED BY <1>2, <2>1 DEF WritesMeetOwner
  <1>4. ASSUME worker[1].type = "write"
        PROVE  owner[worker[1].write] = session
    <2>1. 1 \in WriteTasks(worker)
      BY <1>1, <1>4 DEF WriteTasks
    <2>2. Follows(worker, 1, session, owner[worker[1].write])
      BY <2>1 DEF WritesMeetOwner
    <2> QED BY <1>4, <2>2, FollowsHead
  <1> QED BY <1>1, <1>3, <1>4 DEF WritesMeetOwner

(***************************************************************************)
(* What the steps do to the queues on disk.                                *)
(***************************************************************************)
LEMMA DiskFacts ==
  ASSUME TypeOK, NEW u \in User
  PROVE  /\ disk[u] \in Seq(Batch) /\ Len(disk[u]) \in Nat
         /\ DOMAIN disk[u] = 1 .. Len(disk[u])
         /\ \A i \in DOMAIN disk[u] : /\ disk[u][i] \in Batch
                                      /\ disk[u][i].id \in Nat \ {0}
                                      /\ disk[u][i].write \in Write
  <1>1. disk[u] \in Seq(Batch)
    BY DEF TypeOK
  <1> QED BY <1>1, BatchFacts

\* The worker's queue: each kind of task has its fields.
LEMMA WorkerFacts ==
  ASSUME TypeOK
  PROVE  /\ worker \in Seq(WorkerTask) /\ DOMAIN worker \subseteq Nat
         /\ \A i \in WriteTasks(worker) : worker[i].write \in Write
         /\ worker # <<>> => /\ Head(worker) = worker[1] /\ 1 \in DOMAIN worker
                             /\ Head(worker) \in WorkerTask
                             /\ Tail(worker) \in Seq(WorkerTask)
  <1>1. worker \in Seq(WorkerTask)
    BY DEF TypeOK
  <1>2. /\ Len(worker) \in Nat /\ DOMAIN worker = 1 .. Len(worker)
        /\ \A i \in 1 .. Len(worker) : worker[i] \in WorkerTask
    BY <1>1, LenProperties
  <1>3. \A t \in WorkerTask : t.type = "write" => t.write \in Write
    BY DEF WorkerTask
  <1>4. \A i \in WriteTasks(worker) : worker[i].write \in Write
    BY <1>2, <1>3 DEF WriteTasks
  <1>5. worker # <<>> => /\ Head(worker) = worker[1] /\ 1 \in DOMAIN worker
                         /\ Head(worker) \in WorkerTask
                         /\ Tail(worker) \in Seq(WorkerTask)
    BY <1>1, HeadTask
  <1> QED BY <1>1, <1>2, <1>4, <1>5

\* A queue of which ids and writes are below those of a new batch.
LEMMA AppendBatch ==
  ASSUME NEW queue \in Seq(Batch), GrowingIds(queue), GrowingWrites(queue),
         NEW b \in Batch,
         \A i \in DOMAIN queue : queue[i].id < b.id /\ queue[i].write < b.write,
         NEW q, q = Append(queue, b)
  PROVE  /\ q \in Seq(Batch) /\ GrowingIds(q) /\ GrowingWrites(q)
         /\ Room(queue) \in 0 .. Room(q)
         /\ SubSeq(queue, 1, Room(queue)) = SubSeq(q, 1, Room(queue))
  <1> DEFINE n == Len(queue)
             m == Room(queue)
  <1>1. /\ q \in Seq(Batch) /\ n \in Nat /\ DOMAIN queue = 1 .. n
        /\ Len(q) = n + 1 /\ DOMAIN q = 1 .. n + 1
        /\ \A i \in 1 .. n : q[i] = queue[i]
        /\ q[n + 1] = b
    BY AppendedTask
  <1>2. GrowingIds(q)
    BY <1>1 DEF GrowingIds
  <1>3. GrowingWrites(q)
    BY <1>1 DEF GrowingWrites
  <1>4. /\ m \in 0 .. n /\ m <= MaxPending
        /\ Room(q) = MaxPending \/ Room(q) = n + 1
        /\ MaxPending \in Nat
    <2>1. m \in 0 .. n /\ m <= MaxPending /\ MaxPending \in Nat
      BY RoomFacts
    <2>2. Room(q) = MaxPending \/ Room(q) = n + 1
      BY <1>1, RoomFacts
    <2> QED BY <2>1, <2>2
  <1> HIDE DEF m, n
  <1>5. m \in 0 .. Room(q) /\ m \in 0 .. Len(q) /\ m \in m .. n /\ m \in m .. Len(q)
    BY <1>1, <1>4
  <1>6. /\ SubSeq(queue, 1, m) \in Seq(Batch) /\ Len(SubSeq(queue, 1, m)) = m
        /\ \A i \in 1 .. m : SubSeq(queue, 1, m)[i] = queue[i]
    BY <1>4, <1>5, FrontFacts DEF n
  <1>7. /\ SubSeq(q, 1, m) \in Seq(Batch) /\ Len(SubSeq(q, 1, m)) = m
        /\ \A i \in 1 .. m : SubSeq(q, 1, m)[i] = q[i]
    BY <1>1, <1>5, FrontFacts
  <1>8. \A i \in 1 .. m : SubSeq(queue, 1, m)[i] = SubSeq(q, 1, m)[i]
    BY <1>1, <1>4, <1>6, <1>7
  <1>9. SubSeq(queue, 1, m) = SubSeq(q, 1, m)
    BY <1>6, <1>7, <1>8, SeqEqual
  <1> QED BY <1>1, <1>2, <1>3, <1>5, <1>9 DEF m

\* The next batch id is above the ids of all accounts.
LEMMA NextIdFacts ==
  ASSUME TypeOK, QueueInv
  PROVE  /\ LoadNextBatchId(disk) \in Nat \ {0}
         /\ \A u \in User : \A i \in DOMAIN disk[u] : disk[u][i].id < LoadNextBatchId(disk)
  <1> DEFINE T == BatchIds(disk) \cup {0}
  <1>1. \A u \in User : \A i \in DOMAIN disk[u] :
            /\ disk[u][i].id \in Nat /\ disk[u][i].id <= nextBatchId
            /\ disk[u][i].id \in T
    <2> SUFFICES ASSUME NEW u \in User, NEW i \in DOMAIN disk[u]
                 PROVE  /\ disk[u][i].id \in Nat /\ disk[u][i].id <= nextBatchId
                        /\ disk[u][i].id \in T
      OBVIOUS
    <2>1. disk[u][i].id \in Nat /\ disk[u][i].id < nextBatchId /\ nextBatchId \in Nat
      BY DiskFacts DEF QueueInv, TypeOK
    <2>2. disk[u][i].id \in T
      BY DEF BatchIds, ToSet
    <2> QED BY <2>1, <2>2
  <1>2. T \subseteq Nat /\ 0 \in T /\ nextBatchId \in Nat /\ \A m \in T : m <= nextBatchId
    BY <1>1 DEF BatchIds, ToSet, TypeOK
  <1> HIDE DEF T
  <1>3. Max(T) \in T /\ \A m \in T : m <= Max(T)
    BY <1>2, MaxOfBounded
  <1>4. LoadNextBatchId(disk) = Max(T) + 1
    BY DEF LoadNextBatchId, T
  <1>5. Max(T) \in Nat
    BY <1>2, <1>3
  <1> QED BY <1>1, <1>3, <1>4, <1>5

\* The pipeline is a front of the queue of the account in use.
LEMMA PipelineFacts ==
  ASSUME TypeOK, QueueInv, RemoteInv
  PROVE  /\ disk[session] \in Seq(Batch) /\ session \in User
         /\ GrowingIds(disk[session]) /\ GrowingWrites(disk[session])
         /\ pipeline = SubSeq(disk[session], 1, Room(disk[session]))
         /\ pipeline \in Seq(Batch)
         /\ Room(disk[session]) \in 0 .. Len(disk[session])
         /\ Len(pipeline) = Room(disk[session])
         /\ \A i \in 1 .. Len(pipeline) : pipeline[i] = disk[session][i]
         /\ stream \in WriteStream /\ StreamOK(stream, pipeline, session)
         /\ pipeline # <<>> => IsStarted(stream)
  <1> DEFINE queue == disk[session]
  <1>1. session \in User /\ queue \in Seq(Batch)
        /\ GrowingIds(queue) /\ GrowingWrites(queue)
    BY DEF TypeOK, QueueInv
  <1>2. StreamOK(stream, pipeline, session) /\ stream \in WriteStream
        /\ (pipeline # <<>> => IsStarted(stream))
        /\ pipeline = NextBatches(queue, 0, MaxPending)
    BY DEF RemoteInv, RemoteOK, TypeOK
  <1> HIDE DEF queue
  <1>3. 0 \in 0 .. Room(queue) /\ Room(queue) \in 0 .. Len(queue)
        /\ Room(queue) \in Room(queue) .. Len(queue)
    BY <1>1, RoomFacts
  <1>4. pipeline = SubSeq(queue, 1, Room(queue))
    BY <1>1, <1>2, <1>3, NextBatchesFacts
  <1>5. pipeline \in Seq(Batch) /\ Len(pipeline) = Room(queue)
        /\ \A i \in 1 .. Room(queue) : pipeline[i] = queue[i]
    BY <1>1, <1>3, <1>4, FrontFacts
  <1> QED BY <1>1, <1>2, <1>3, <1>4, <1>5 DEF queue

(***************************************************************************)
(* RemoteInv, action by action.                                            *)
(***************************************************************************)

\* What every step does to the stream, as far as tokens go.
StreamStep(s, t) ==
    /\ t \in WriteStream
    /\ t.closes = s.closes \/ t.closes = s.closes + 1
    /\ t.closes = s.closes /\ s.state = "Starting" => t.state = "Starting"

LEMMA PersistDisk ==
  ASSUME TypeOK, QueueInv, PersistWrite,
         NEW b, b = [id |-> nextBatchId, write |-> Head(worker).write]
  PROVE  /\ b \in Batch
         /\ disk' \in [User -> Seq(Batch)]
         /\ disk'[session] = Append(disk[session], b)
         /\ \A u \in User : u # session => disk'[u] = disk[u]
         /\ \A u \in User : \A i \in DOMAIN disk[u] :
                disk[u][i].id < b.id /\ disk[u][i].write < b.write
         /\ 1 \in WriteTasks(worker) /\ worker[1].write = b.write
         /\ worker # <<>> /\ Head(worker).type = "write"
  <1>1. worker # <<>> /\ Head(worker).type = "write"
    BY DEF PersistWrite, NextTask
  <1>2. 1 \in WriteTasks(worker) /\ Head(worker) = worker[1]
    BY <1>1, WorkerFacts DEF WriteTasks
  <1>3. b \in Batch /\ b.id = nextBatchId /\ b.write = worker[1].write
    <2>1. worker[1].write \in Write
      BY <1>2, WorkerFacts
    <2>2. nextBatchId \in Nat \ {0}
      BY DEF TypeOK
    <2> QED BY <1>2, <2>1, <2>2 DEF Batch
  <1>4. disk' = [disk EXCEPT ![session] = Append(@, b)]
    BY DEF PersistWrite
  <1>5. session \in User /\ disk \in [User -> Seq(Batch)]
    BY DEF TypeOK
  <1>6. disk[session] \in Seq(Batch)
    BY <1>5
  <1>7. Append(disk[session], b) \in Seq(Batch)
    BY <1>3, <1>6, AppendProperties
  <1> HIDE DEF Batch
  <1>8. \A u \in User : \A i \in DOMAIN disk[u] :
            disk[u][i].id < b.id /\ disk[u][i].write < b.write
    BY <1>2, <1>3 DEF QueueInv
  <1> QED BY <1>1, <1>2, <1>3, <1>4, <1>5, <1>7, <1>8

LEMMA PersistRemote ==
  ASSUME TypeOK, QueueInv, RemoteInv, PersistWrite
  PROVE  /\ StreamStep(stream, stream') /\ pipeline' \in Seq(Batch)
         /\ RemoteInv' /\ stream'.answers = stream.answers
  <1> DEFINE b == [id |-> nextBatchId, write |-> Head(worker).write]
             q == disk'[session]
             n == Room(disk[session])
             r == FillWritePipeline(stream, pipeline, q)
  <1>1. b \in Batch /\ q = Append(disk[session], b)
        /\ \A i \in DOMAIN disk[session] :
               disk[session][i].id < b.id /\ disk[session][i].write < b.write
    BY PersistDisk DEF TypeOK
  <1>2. stream' = r.stream /\ pipeline' = r.pipeline /\ session' = session
    BY DEF PersistWrite, Remote
  <1> HIDE DEF b, q
  <1>3. q \in Seq(Batch) /\ GrowingIds(q) /\ n \in 0 .. Room(q)
        /\ pipeline = SubSeq(q, 1, n)
    BY <1>1, PipelineFacts, AppendBatch
  <1>4. stream \in WriteStream /\ session \in User /\ StreamOK(stream, SubSeq(q, 1, n), session)
    BY <1>3, PipelineFacts
  <1>5. r = FillWritePipeline(stream, SubSeq(q, 1, n), q)
    BY <1>3
  <1> HIDE DEF r, n
  <1>6. /\ r.stream \in WriteStream
        /\ RemoteOK(r.stream, r.pipeline, q, session)
        /\ r.pipeline = SubSeq(q, 1, Room(q))
        /\ r.stream.closes = stream.closes
        /\ r.stream.answers = stream.answers
        /\ IsStarted(stream) => r.stream.state = stream.state
    BY <1>3, <1>4, <1>5, FillFacts
  <1>7. r.pipeline \in Seq(Batch)
    <2>1. Room(q) \in 0 .. Len(q) /\ Room(q) \in Room(q) .. Len(q)
      BY <1>3, RoomFacts
    <2> QED BY <1>3, <1>6, <2>1, FrontFacts
  <1>8. RemoteInv'
    BY <1>2, <1>6 DEF RemoteInv, q
  <1>9. StreamStep(stream, stream')
    BY <1>2, <1>6 DEF StreamStep, IsStarted
  <1> QED BY <1>2, <1>6, <1>7, <1>8, <1>9

LEMMA ChangeRemote ==
  ASSUME TypeOK, QueueInv, RemoteInv, ChangeUser
  PROVE  /\ StreamStep(stream, stream') /\ pipeline' \in Seq(Batch)
         /\ RemoteInv' /\ stream'.answers = <<>>
         /\ session' \in User /\ worker # <<>> /\ Head(worker).type = "auth"
  <1> DEFINE q == disk[session']
             r == RestartStream(stream, q)
  <1>1. worker # <<>> /\ Head(worker).type = "auth" /\ session' = Head(worker).user
        /\ stream' = r.stream /\ pipeline' = r.pipeline /\ disk' = disk
    BY DEF ChangeUser, NextTask, Remote
  <1>2. session' \in User
    <2>1. Head(worker) \in WorkerTask
      BY <1>1, WorkerFacts
    <2> QED BY <1>1, <2>1 DEF WorkerTask
  <1>3. q \in Seq(Batch) /\ GrowingIds(q)
    BY <1>2, DiskFacts DEF QueueInv
  <1> HIDE DEF q, r
  <1>4. /\ r.stream \in WriteStream
        /\ RemoteOK(r.stream, r.pipeline, q, session')
        /\ r.pipeline = SubSeq(q, 1, Room(q))
        /\ r.stream.closes = stream.closes \/ r.stream.closes = stream.closes + 1
        /\ r.stream.closes = stream.closes => stream.state # "Starting"
        /\ r.stream.answers = <<>>
    BY <1>2, <1>3, PipelineFacts, RestartFacts DEF r
  <1>5. r.pipeline \in Seq(Batch)
    <2>1. Room(q) \in 0 .. Len(q) /\ Room(q) \in Room(q) .. Len(q)
      BY <1>3, RoomFacts
    <2> QED BY <1>3, <1>4, <2>1, FrontFacts
  <1>6. RemoteInv'
    BY <1>1, <1>4 DEF RemoteInv, q
  <1>7. StreamStep(stream, stream')
    BY <1>1, <1>4 DEF StreamStep
  <1> QED BY <1>1, <1>2, <1>4, <1>5, <1>6, <1>7

LEMMA UseTokenRemote ==
  ASSUME TypeOK, QueueInv, RemoteInv, ThreadInv, TokenInv, UseToken
  PROVE  /\ stream' \in WriteStream /\ pipeline' \in Seq(Batch)
         /\ RemoteInv'
         /\ stream'.answers = <<>> \/ stream'.answers = stream.answers
         /\ worker # <<>> /\ Head(worker).type = "token"
         /\ \/ StreamStep(stream, stream') /\ Head(worker).closes # stream'.closes
            \/ /\ Head(worker).closes = stream.closes
               /\ stream'.closes = stream.closes /\ stream'.state = "Open"
               /\ stream.state = "Starting"
  <1> DEFINE h == Head(worker)
  <1>1. worker # <<>> /\ h.type = "token" /\ h \in WorkerTask /\ h = worker[1]
        /\ 1 \in Tokens(worker)
    BY WorkerFacts DEF UseToken, NextTask, Tokens
  <1>2. h.closes \in Nat /\ h.user \in User \cup {Failed}
    BY <1>1 DEF WorkerTask
  <1>3. /\ stream \in WriteStream /\ pipeline \in Seq(Batch)
        /\ stream.closes \in Nat
        /\ StreamOK(stream, pipeline, session)
    BY PipelineFacts, StreamFacts
  <1>4. disk' = disk /\ session' = session
    BY DEF UseToken, localVars
  <1>5. CASE h.closes # stream.closes
    <2>1. stream' = stream /\ pipeline' = pipeline
      BY <1>5 DEF UseToken, Remote
    <2>2. RemoteInv'
      BY <1>4, <2>1 DEF RemoteInv
    <2> QED BY <1>1, <1>3, <1>5, <2>1, <2>2 DEF StreamStep
  <1>6. CASE h.closes = stream.closes /\ h.user = Failed
    <2> DEFINE r == RetryLater(stream, pipeline)
    <2>1. stream' = r.stream /\ pipeline' = r.pipeline
      BY <1>6 DEF UseToken, Remote
    <2>2. /\ r = [stream |-> r.stream, pipeline |-> pipeline]
          /\ r.stream \in WriteStream
          /\ RemoteOK(r.stream, pipeline, disk[session], session)
          /\ r.stream.closes = stream.closes + 1
          /\ r.stream.answers = <<>>
      BY <1>3, RetryFacts DEF RemoteInv, RemoteOK
    <2> HIDE DEF r
    <2>3. r.pipeline = pipeline
      BY <2>2
    <2>4. RemoteInv'
      BY <1>4, <2>1, <2>2, <2>3 DEF RemoteInv
    <2>5. StreamStep(stream, stream') /\ h.closes # stream'.closes
      BY <1>3, <1>6, <2>1, <2>2 DEF StreamStep
    <2> QED BY <1>1, <1>3, <2>1, <2>2, <2>3, <2>4, <2>5
  <1>7. CASE h.closes = stream.closes /\ h.user # Failed
    <2>1. stream' = [Opened(stream) EXCEPT !.token = h.user, !.hello = "asked"]
          /\ pipeline' = pipeline
      BY <1>7 DEF UseToken, Remote
    <2>2. stream.state = "Starting"
      <3>1. stream.closes \in AwaitedTokens
        BY <1>1, <1>7, AwaitedIsBrought DEF Brings
      <3> QED BY <3>1 DEF TokenInv, TokenIsAwaited
    <2>3. h.user = session
      <3>1. worker \in Seq(WorkerTask) /\ Leads(worker, session, sdkUser)
        BY WorkerFacts DEF ThreadInv
      <3> QED BY <1>1, <1>7, <3>1, TailLeads
    <2>4. /\ stream' \in WriteStream /\ stream'.state = "Open"
          /\ stream'.closes = stream.closes /\ stream'.idle = stream.idle
          /\ stream'.hello = "asked" /\ stream'.token = session
          /\ stream'.sent = stream.sent /\ stream'.answers = stream.answers
      BY <1>2, <1>3, <2>1, <2>3 DEF Opened, WriteStream, StreamState
    <2>5. stream.hello # "done" /\ pipeline # <<>> /\ stream.idle = FALSE
          /\ stream.answers = <<>> /\ stream.sent = <<>>
      BY <1>3, <2>2, StreamFacts DEF StreamOK, IsStarted, IsOpen
    <2>6. StreamOK(stream', pipeline, session)
      BY <2>4, <2>5 DEF StreamOK, IsStarted, IsOpen
    <2>7. RemoteInv'
      BY <1>4, <2>1, <2>4, <2>6 DEF RemoteInv, RemoteOK, IsStarted
    <2> QED BY <1>1, <1>3, <1>7, <2>1, <2>2, <2>4, <2>7
  <1> QED BY <1>5, <1>6, <1>7

LEMMA HandshakeRemote ==
  ASSUME TypeOK, QueueInv, RemoteInv, ReadHandshake
  PROVE  /\ StreamStep(stream, stream') /\ pipeline' \in Seq(Batch)
         /\ RemoteInv' /\ stream'.answers = stream.answers
  <1> DEFINE wp == Writes(pipeline)
  <1>1. /\ stream' = [Wrote(stream) EXCEPT !.hello = "done", !.sent = wp]
        /\ pipeline' = pipeline /\ disk' = disk /\ session' = session
        /\ stream.hello = "answered"
    BY DEF ReadHandshake, Remote, localVars
  <1>2. /\ stream \in WriteStream /\ pipeline \in Seq(Batch)
        /\ StreamOK(stream, pipeline, session)
    BY PipelineFacts
  <1>3. wp \in Seq(Write)
    <2>1. \A b \in Batch : b.write \in Write
      BY DEF Batch
    <2> QED BY <1>2, <2>1, WritesFacts
  <1> HIDE DEF wp
  <1>4. /\ stream' \in WriteStream /\ stream'.state = stream.state
        /\ stream'.closes = stream.closes /\ stream'.idle = FALSE
        /\ stream'.hello = "done" /\ stream'.token = stream.token
        /\ stream'.sent = wp /\ stream'.answers = stream.answers
    BY <1>1, <1>2, <1>3 DEF Wrote, WriteStream
  <1>5. IsOpen(stream) /\ stream.answers = <<>> /\ stream.token = session
    BY <1>1, <1>2 DEF StreamOK
  <1>6. Writes(stream'.answers) \o stream'.sent = wp
    <2>1. <<>> \in Seq(Batch) /\ \A b \in Batch : b.write \in Write
      BY EmptySeq DEF Batch
    <2>2. Writes(<<>>) \in Seq(Write) /\ Len(Writes(<<>>)) = Len(<<>>)
      BY <2>1, WritesFacts
    <2>3. Len(<<>>) = 0
      BY EmptySeq
    <2>4. Writes(<<>>) = <<>>
      BY <2>2, <2>3, EmptySeq
    <2>5. <<>> \o wp = wp
      BY <1>3, ConcatEmptySeq
    <2> QED BY <1>4, <1>5, <2>4, <2>5
  <1>7. StreamOK(stream', pipeline, session)
    BY <1>4, <1>5, <1>6 DEF StreamOK, IsOpen, IsStarted, wp
  <1>8. RemoteInv'
    BY <1>1, <1>4, <1>7 DEF RemoteInv, RemoteOK, IsStarted
  <1>9. StreamStep(stream, stream')
    BY <1>4 DEF StreamStep
  <1> QED BY <1>1, <1>2, <1>4, <1>8, <1>9

LEMMA BreakRemote ==
  ASSUME TypeOK, QueueInv, RemoteInv, StreamBreaks
  PROVE  /\ StreamStep(stream, stream') /\ pipeline' \in Seq(Batch)
         /\ RemoteInv' /\ stream'.answers = <<>>
  <1> DEFINE r == RetryLater(stream, pipeline)
  <1>1. /\ stream' = r.stream /\ pipeline' = r.pipeline
        /\ disk' = disk /\ session' = session
    BY DEF StreamBreaks, Remote, localVars
  <1>2. stream \in WriteStream /\ pipeline \in Seq(Batch) /\ stream.closes \in Nat
    BY PipelineFacts, StreamFacts
  <1>3. /\ r = [stream |-> r.stream, pipeline |-> pipeline]
        /\ r.stream \in WriteStream
        /\ RemoteOK(r.stream, pipeline, disk[session], session)
        /\ r.stream.closes = stream.closes + 1
        /\ r.stream.answers = <<>>
    BY <1>2, RetryFacts DEF RemoteInv, RemoteOK
  <1> HIDE DEF r
  <1>4. r.pipeline = pipeline
    BY <1>3
  <1>5. RemoteInv' /\ StreamStep(stream, stream')
    BY <1>1, <1>2, <1>3, <1>4 DEF RemoteInv, StreamStep
  <1> QED BY <1>1, <1>2, <1>3, <1>4, <1>5

LEMMA BackoffRemote ==
  ASSUME TypeOK, QueueInv, RemoteInv, BackoffElapses
  PROVE  /\ StreamStep(stream, stream') /\ pipeline' \in Seq(Batch)
         /\ RemoteInv' /\ stream'.answers = stream.answers
  <1>1. /\ stream' = BackoffElapsed(stream) /\ pipeline' = pipeline
        /\ disk' = disk /\ session' = session /\ stream.state = "Backoff"
    BY DEF BackoffElapses, Remote, localVars
  <1>2. /\ stream \in WriteStream /\ pipeline \in Seq(Batch)
        /\ StreamOK(stream, pipeline, session)
    BY PipelineFacts
  <1>3. /\ stream' \in WriteStream /\ stream'.state = "Starting"
        /\ stream'.closes = stream.closes /\ stream'.idle = stream.idle
        /\ stream'.hello = stream.hello /\ stream'.token = stream.token
        /\ stream'.sent = stream.sent /\ stream'.answers = stream.answers
    BY <1>1, <1>2 DEF BackoffElapsed, WriteStream, StreamState
  <1>4. StreamOK(stream', pipeline, session)
    BY <1>1, <1>2, <1>3 DEF StreamOK, IsOpen, IsStarted
  <1>5. RemoteInv' /\ StreamStep(stream, stream')
    BY <1>1, <1>3, <1>4 DEF RemoteInv, RemoteOK, IsStarted, StreamStep
  <1> QED BY <1>1, <1>2, <1>3, <1>5

LEMMA IdleRemote ==
  ASSUME TypeOK, QueueInv, RemoteInv, IdleElapses
  PROVE  /\ StreamStep(stream, stream') /\ pipeline' \in Seq(Batch)
         /\ RemoteInv' /\ stream'.answers = <<>>
  <1> DEFINE c == WriteClosed(stream, TRUE)
  <1>1. /\ stream' = c /\ pipeline' = pipeline
        /\ disk' = disk /\ session' = session /\ stream.idle
    BY DEF IdleElapses, Remote, localVars
  <1>2. /\ stream \in WriteStream /\ pipeline \in Seq(Batch) /\ stream.closes \in Nat
        /\ StreamOK(stream, pipeline, session)
    BY PipelineFacts, StreamFacts
  <1>3. /\ c \in WriteStream /\ StreamOK(c, pipeline, session)
        /\ c.closes = stream.closes + 1 /\ c.answers = <<>>
    BY <1>2, ClosedStreamOK
  <1>4. pipeline = <<>>
    BY <1>1, <1>2 DEF StreamOK
  <1> HIDE DEF c
  <1>5. RemoteInv' /\ StreamStep(stream, stream')
    BY <1>1, <1>2, <1>3, <1>4 DEF RemoteInv, RemoteOK, StreamStep
  <1> QED BY <1>1, <1>2, <1>3, <1>5

\* What has become of the write at the head of the pipeline is concluded: the
\* head of the queue on disk goes.
LEMMA ConcludeDisk ==
  ASSUME TypeOK, QueueInv, RemoteInv, stream.answers # <<>>, NEW result,
         Conclude(Head(pipeline), result),
         NEW b, b = disk[session][1]
  PROVE  /\ disk[session] # <<>> /\ b \in Batch /\ Head(pipeline) = b
         /\ b.write = stream.answers[1].write
         /\ disk' \in [User -> Seq(Batch)]
         /\ disk'[session] = Tail(disk[session])
         /\ \A u \in User : u # session => disk'[u] = disk[u]
         /\ session' = session
  <1> DEFINE queue == disk[session]
  <1>1. /\ queue \in Seq(Batch) /\ session \in User /\ GrowingIds(queue)
        /\ pipeline \in Seq(Batch) /\ Len(pipeline) <= Len(queue)
        /\ \A i \in 1 .. Len(pipeline) : pipeline[i] = queue[i]
        /\ stream \in WriteStream /\ StreamOK(stream, pipeline, session)
    <2>1. Room(queue) <= Len(queue)
      BY PipelineFacts, DiskFacts
    <2> QED BY <2>1, PipelineFacts
  <1>2. /\ pipeline # <<>> /\ Len(stream.answers) \in Nat \ {0}
        /\ \A i \in 1 .. Len(stream.answers) : stream.answers[i].write = pipeline[i].write
    BY <1>1, FirstAnswer
  <1>3. Head(pipeline) = pipeline[1] /\ Len(pipeline) \in Nat \ {0}
    BY <1>1, <1>2, HeadTask
  <1>4. queue # <<>> /\ 1 \in 1 .. Len(queue) /\ Len(queue) \in Nat
    BY <1>1, <1>3, LenProperties, EmptySeq
  <1>5. pipeline[1] = b /\ b = queue[1]
    BY <1>1, <1>3
  <1>6. b.write = stream.answers[1].write
    BY <1>2, <1>5
  <1>7. b \in Batch
    BY <1>1, <1>4, <1>5, ElementOfSeq
  <1>8. disk' = [disk EXCEPT ![session] = RemoveBatch(@, b.id)] /\ session' = session
    BY <1>3, <1>5 DEF Conclude
  <1>9. RemoveBatch(queue, b.id) = Tail(queue) /\ Tail(queue) \in Seq(Batch)
    BY <1>1, <1>4, <1>5, RemoveHead, HeadTask
  <1>10. disk \in [User -> Seq(Batch)]
    BY DEF TypeOK
  <1> HIDE DEF Batch
  <1> QED BY <1>1, <1>3, <1>4, <1>5, <1>6, <1>7, <1>8, <1>9, <1>10

LEMMA AnswerRemote ==
  ASSUME TypeOK, QueueInv, RemoteInv, ReadAnswer
  PROVE  /\ StreamStep(stream, stream') /\ pipeline' \in Seq(Batch)
         /\ RemoteInv' /\ stream'.answers = Tail(stream.answers)
  <1> DEFINE queue == disk[session]
             q == disk'[session]
             s == [stream EXCEPT !.answers = Tail(@)]
             p == Tail(pipeline)
             n == Room(queue) - 1
             r == FillWritePipeline(s, p, q)
  <1>1. /\ stream.answers # <<>> /\ Conclude(Head(pipeline), "accepted")
        /\ stream' = r.stream /\ pipeline' = r.pipeline
    BY DEF ReadAnswer, Remote
  <1>2. queue # <<>> /\ q = Tail(queue) /\ session' = session
    BY <1>1, ConcludeDisk
  <1> HIDE DEF q
  <1>3. /\ queue \in Seq(Batch) /\ session \in User
        /\ GrowingIds(queue) /\ GrowingWrites(queue)
        /\ pipeline = SubSeq(queue, 1, Room(queue)) /\ pipeline \in Seq(Batch)
        /\ stream \in WriteStream /\ StreamOK(stream, pipeline, session)
    BY PipelineFacts
  <1>4. /\ q \in Seq(Batch) /\ GrowingIds(q) /\ n \in 0 .. Room(q)
        /\ p = SubSeq(q, 1, n)
    BY <1>2, <1>3, TailOfFront
  <1>5. /\ stream.hello = "done" /\ IsOpen(stream) /\ ~stream.idle
        /\ Writes(Tail(stream.answers)) \o stream.sent = Writes(p)
    BY <1>1, <1>3, FirstAnswer
  <1>6. /\ s \in WriteStream /\ s.state = stream.state /\ s.closes = stream.closes
        /\ s.idle = stream.idle /\ s.hello = stream.hello /\ s.token = stream.token
        /\ s.sent = stream.sent /\ s.answers = Tail(stream.answers)
    <2>1. Tail(stream.answers) \in Seq([write : Write, result : Outcome])
      BY <1>1, <1>3, StreamFacts, HeadTask
    <2> QED BY <1>3, <2>1 DEF WriteStream
  <1> HIDE DEF queue, s, p, n
  <1>7. StreamOK(s, p, session)
    BY <1>3, <1>5, <1>6 DEF StreamOK, IsOpen, IsStarted
  <1>8. StreamOK(s, SubSeq(q, 1, n), session) /\ r = FillWritePipeline(s, SubSeq(q, 1, n), q)
    BY <1>4, <1>7
  <1> HIDE DEF r
  <1>9. /\ r.stream \in WriteStream
        /\ RemoteOK(r.stream, r.pipeline, q, session)
        /\ r.pipeline = SubSeq(q, 1, Room(q))
        /\ r.stream.closes = s.closes
        /\ r.stream.answers = s.answers
        /\ IsStarted(s) => r.stream.state = s.state
    BY <1>3, <1>4, <1>6, <1>8, FillFacts
  <1>10. r.pipeline \in Seq(Batch)
    <2>1. Room(q) \in 0 .. Len(q) /\ Room(q) \in Room(q) .. Len(q)
      BY <1>4, RoomFacts
    <2> QED BY <1>4, <1>9, <2>1, FrontFacts
  <1>11. RemoteInv'
    BY <1>1, <1>2, <1>9 DEF RemoteInv, q
  <1>12. StreamStep(stream, stream')
    BY <1>1, <1>5, <1>6, <1>9 DEF StreamStep, IsOpen, IsStarted
  <1> QED BY <1>1, <1>6, <1>9, <1>10, <1>11, <1>12

LEMMA RefusalRemote ==
  ASSUME TypeOK, QueueInv, RemoteInv, ReadRefusal
  PROVE  /\ StreamStep(stream, stream') /\ pipeline' \in Seq(Batch)
         /\ RemoteInv' /\ stream'.answers = <<>>
  <1> DEFINE queue == disk[session]
             q == disk'[session]
             s == InhibitBackoff(WriteClosed(stream, FALSE))
             p == Tail(pipeline)
             n == Room(queue) - 1
             r == FillWritePipeline(s, p, q)
  <1>1. /\ stream.answers # <<>> /\ Conclude(Head(pipeline), "rejected")
        /\ stream' = r.stream /\ pipeline' = r.pipeline
    BY DEF ReadRefusal, Refused, Remote, DropHead
  <1>2. queue # <<>> /\ q = Tail(queue) /\ session' = session
    BY <1>1, ConcludeDisk
  <1> HIDE DEF q
  <1>3. /\ queue \in Seq(Batch) /\ session \in User
        /\ GrowingIds(queue) /\ GrowingWrites(queue)
        /\ pipeline = SubSeq(queue, 1, Room(queue)) /\ pipeline \in Seq(Batch)
        /\ stream \in WriteStream /\ stream.closes \in Nat
    BY PipelineFacts, StreamFacts
  <1>4. /\ q \in Seq(Batch) /\ GrowingIds(q) /\ n \in 0 .. Room(q)
        /\ p = SubSeq(q, 1, n)
    BY <1>2, <1>3, TailOfFront
  <1>5. /\ s \in WriteStream /\ StreamOK(s, p, session) /\ ~IsStarted(s)
        /\ s.closes = stream.closes + 1 /\ s.answers = <<>>
    BY <1>3, ClosedStreamOK
  <1> HIDE DEF queue, s, p, n
  <1>6. StreamOK(s, SubSeq(q, 1, n), session) /\ r = FillWritePipeline(s, SubSeq(q, 1, n), q)
    BY <1>4, <1>5
  <1> HIDE DEF r
  <1>7. /\ r.stream \in WriteStream
        /\ RemoteOK(r.stream, r.pipeline, q, session)
        /\ r.pipeline = SubSeq(q, 1, Room(q))
        /\ r.stream.closes = s.closes
        /\ r.stream.answers = s.answers
    BY <1>3, <1>4, <1>5, <1>6, FillFacts
  <1>8. r.pipeline \in Seq(Batch)
    <2>1. Room(q) \in 0 .. Len(q) /\ Room(q) \in Room(q) .. Len(q)
      BY <1>4, RoomFacts
    <2> QED BY <1>4, <1>7, <2>1, FrontFacts
  <1>9. RemoteInv'
    BY <1>1, <1>2, <1>7 DEF RemoteInv, q
  <1>10. StreamStep(stream, stream')
    BY <1>1, <1>3, <1>5, <1>7 DEF StreamStep
  <1> QED BY <1>1, <1>5, <1>7, <1>8, <1>9, <1>10

\* The head of a sequence may move to the end of the one before it.
LEMMA MoveHead ==
  ASSUME NEW S, NEW a \in Seq(S), NEW z \in Seq(S), z # <<>>
  PROVE  Append(a, Head(z)) \o Tail(z) = a \o z
  <1> DEFINE h == <<Head(z)>>
             t == Tail(z)
  <1>1. Head(z) \in S /\ t \in Seq(S) /\ h \in Seq(S)
    BY HeadTailProperties, SeqDef
  <1>2. Append(a, Head(z)) = a \o h
    BY <1>1, AppendIsConcat
  <1>3. h \o t = z
    <2>1. /\ Len(z) \in Nat \ {0} /\ h[1] = z[1] /\ Len(h) = 1 /\ Len(t) = Len(z) - 1
          /\ \A i \in 1 .. Len(z) - 1 : t[i] = z[i + 1]
      BY HeadTask
    <2> HIDE DEF h, t
    <2>2. /\ h \o t \in Seq(S) /\ Len(h \o t) = Len(h) + Len(t)
          /\ \A i \in 1 .. Len(h) + Len(t) :
                 (h \o t)[i] = IF i <= Len(h) THEN h[i] ELSE t[i - Len(h)]
      BY <1>1, ConcatProperties
    <2>3. Len(h \o t) = Len(z)
      BY <2>1, <2>2
    <2>4. \A i \in 1 .. Len(z) : (h \o t)[i] = z[i]
      <3> SUFFICES ASSUME NEW i \in 1 .. Len(z) PROVE (h \o t)[i] = z[i]
        OBVIOUS
      <3>1. (h \o t)[i] = IF i <= 1 THEN h[i] ELSE t[i - 1]
        BY <2>1, <2>2
      <3>2. CASE i = 1
        BY <2>1, <3>1, <3>2
      <3>3. CASE i # 1
        <4>1. i - 1 \in 1 .. Len(z) - 1 /\ (i - 1) + 1 = i /\ ~(i <= 1)
          BY <2>1, <3>3
        <4> QED BY <2>1, <3>1, <4>1
      <3> QED BY <3>2, <3>3
    <2> QED BY <2>2, <2>3, <2>4, SeqEqual
  <1> HIDE DEF h, t
  <1>4. a \o (h \o t) = (a \o h) \o t
    <2>1. a \in Seq(S)
      OBVIOUS
    <2> QED BY ONLY <1>1, <2>1, JoinThree
  <1> QED BY <1>2, <1>3, <1>4 DEF t

\* Writes of a longer sequence.
LEMMA WritesAppend ==
  ASSUME NEW S, \A x \in S : x.write \in Write, NEW s \in Seq(S), NEW x \in S
  PROVE  Writes(Append(s, x)) = Append(Writes(s), x.write)
  <1> DEFINE b == Append(s, x)
             ws == Writes(s)
             c == Append(ws, x.write)
             m == Len(s)
  <1>1. /\ m \in Nat /\ b \in Seq(S) /\ Len(b) = m + 1
        /\ b[m + 1] = x /\ \A i \in 1 .. m : b[i] = s[i]
    BY AppendedTask
  <1>2. /\ ws \in Seq(Write) /\ Len(ws) = m /\ \A i \in 1 .. m : ws[i] = s[i].write
    BY WritesFacts
  <1> HIDE DEF b, ws, m
  <1>3. /\ Writes(b) \in Seq(Write) /\ Len(Writes(b)) = m + 1
        /\ \A i \in 1 .. m + 1 : Writes(b)[i] = b[i].write
    BY <1>1, WritesFacts
  <1>4. /\ c \in Seq(Write) /\ Len(c) = m + 1
        /\ c[m + 1] = x.write /\ \A i \in 1 .. m : c[i] = ws[i]
    BY <1>2, AppendedTask
  <1> HIDE DEF c
  <1>5. \A i \in 1 .. m + 1 : Writes(b)[i] = c[i]
    BY <1>1, <1>2, <1>3, <1>4
  <1>6. Writes(b) = c
    BY <1>3, <1>4, <1>5, SeqEqual
  <1> QED BY <1>6 DEF b, c, ws

\* The first write that is on its way is for the batch behind the answers.
LEMMA FirstSent ==
  ASSUME NEW s \in WriteStream, NEW p \in Seq(Batch), NEW u,
         StreamOK(s, p, u), s.sent # <<>>,
         NEW x \in [write : Write, result : Outcome], x.write = Head(s.sent)
  PROVE  /\ s.hello = "done" /\ IsOpen(s)
         /\ Len(s.answers) \in Nat /\ Len(s.answers) + 1 \in 1 .. Len(p)
         /\ \A i \in 1 .. Len(s.answers) : s.answers[i].write = p[i].write
         /\ x.write = p[Len(s.answers) + 1].write
         /\ Tail(s.sent) \in Seq(Write)
         /\ Append(s.answers, x) \in Seq([write : Write, result : Outcome])
         /\ Writes(Append(s.answers, x)) \o Tail(s.sent) = Writes(p)
  <1> DEFINE Answer == [write : Write, result : Outcome]
             a == s.answers
             z == s.sent
             wa == Writes(a)
             wp == Writes(p)
             m == Len(a)
             n == Len(z)
             w == Head(z)
  <1>1. (\A v \in Answer : v.write \in Write) /\ (\A v \in Batch : v.write \in Write)
    BY DEF Batch
  <1>2. s.hello = "done" /\ IsOpen(s) /\ wa \o z = wp
    BY DEF StreamOK, IsOpen
  <1>3. a \in Seq(Answer) /\ z \in Seq(Write) /\ z # <<>> /\ x \in Answer
    BY StreamFacts
  <1>4. w = Head(z) /\ x.write = w
    OBVIOUS
  <1> HIDE DEF Answer, a, z, w
  <1>5. /\ n \in Nat \ {0} /\ w = z[1] /\ w \in Write /\ Tail(z) \in Seq(Write)
        /\ m \in Nat /\ Append(a, x) \in Seq(Answer)
    BY <1>3, <1>4, HeadTask, AppendedTask
  <1>6. /\ wa \in Seq(Write) /\ Len(wa) = m /\ \A i \in 1 .. m : wa[i] = a[i].write
        /\ Len(wp) = Len(p) /\ \A i \in 1 .. Len(p) : wp[i] = p[i].write
        /\ Len(p) \in Nat
    BY <1>1, <1>3, WritesFacts, LenProperties
  <1>7. Writes(Append(a, x)) = Append(wa, w)
    BY <1>1, <1>3, <1>4, WritesAppend
  <1>8. Append(wa, w) \o Tail(z) = wp
    <2> HIDE DEF wa, wp
    <2>1. Append(wa, Head(z)) \o Tail(z) = wa \o z
      BY <1>3, <1>6, MoveHead
    <2> QED BY <1>2, <1>4, <2>1
  <1> HIDE DEF wa, wp
  <1>9. /\ Len(wa \o z) = Len(wa) + Len(z)
        /\ \A i \in 1 .. Len(wa) + Len(z) :
               (wa \o z)[i] = IF i <= Len(wa) THEN wa[i] ELSE z[i - Len(wa)]
    <2>1. wa \in Seq(Write) /\ z \in Seq(Write)
      BY <1>3, <1>6
    <2> QED BY <2>1, ConcatProperties
  <1> HIDE DEF m, n
  <1>10. /\ Len(p) = m + n
         /\ \A i \in 1 .. m + n : wp[i] = IF i <= m THEN wa[i] ELSE z[i - m]
    BY <1>2, <1>6, <1>9 DEF n
  <1>11. m + 1 \in 1 .. m + n /\ ~(m + 1 <= m) /\ (m + 1) - m = 1
    BY <1>5
  <1>12. wp[m + 1] = z[1]
    BY <1>10, <1>11
  <1>13. w = p[m + 1].write /\ m + 1 \in 1 .. Len(p)
    BY <1>5, <1>6, <1>10, <1>11, <1>12
  <1>14. \A i \in 1 .. m : a[i].write = p[i].write
    <2> SUFFICES ASSUME NEW i \in 1 .. m PROVE a[i].write = p[i].write
      OBVIOUS
    <2>1. i \in 1 .. m + n /\ i <= m
      BY <1>5
    <2> QED BY <1>6, <1>10, <2>1
  <1> QED BY <1>2, <1>5, <1>7, <1>8, <1>4, <1>13, <1>14 DEF a, z, wp, m, Answer

LEMMA ServerRemote ==
  ASSUME TypeOK, QueueInv, RemoteInv, NEW result \in Outcome, stream.sent # <<>>,
         NEW w, w = Head(stream.sent), ServerReads(w, result)
  PROVE  /\ StreamStep(stream, stream') /\ pipeline' = pipeline /\ RemoteInv'
         /\ stream'.state = stream.state /\ stream'.closes = stream.closes
         /\ stream'.answers = Append(stream.answers, [write |-> w, result |-> result])
         /\ w \in Write
         /\ Len(stream.answers) + 1 \in DOMAIN disk[session]
         /\ disk[session][Len(stream.answers) + 1].write = w
         /\ stream.answers \in Seq([write : Write, result : Outcome])
         /\ \A i \in DOMAIN stream.answers :
                /\ i \in DOMAIN disk[session] /\ i < Len(stream.answers) + 1
                /\ stream.answers[i].write = disk[session][i].write
  <1> DEFINE x == [write |-> w, result |-> result]
             m == Len(stream.answers)
  <1>1. /\ stream' = [stream EXCEPT !.sent = Tail(@), !.answers = Append(@, x)]
        /\ pipeline' = pipeline /\ disk' = disk /\ session' = session
    BY DEF ServerReads, localVars
  <1>2. /\ stream \in WriteStream /\ pipeline \in Seq(Batch)
        /\ StreamOK(stream, pipeline, session)
        /\ Len(pipeline) <= Len(disk[session]) /\ Len(pipeline) \in Nat
        /\ Len(disk[session]) \in Nat
        /\ DOMAIN disk[session] = 1 .. Len(disk[session])
        /\ \A i \in 1 .. Len(pipeline) : pipeline[i] = disk[session][i]
    <2>1. session \in User /\ Room(disk[session]) <= Len(disk[session])
          /\ Room(disk[session]) \in Nat /\ Len(pipeline) = Room(disk[session])
      BY PipelineFacts, DiskFacts
    <2> QED BY <2>1, PipelineFacts, DiskFacts
  <1>3. /\ stream.sent \in Seq(Write) /\ w \in Write
        /\ stream.answers \in Seq([write : Write, result : Outcome])
        /\ DOMAIN stream.answers = 1 .. m
    <2>1. stream.sent \in Seq(Write)
          /\ stream.answers \in Seq([write : Write, result : Outcome])
      BY <1>2, StreamFacts
    <2> QED BY <2>1, HeadTask, LenProperties
  <1>4. x \in [write : Write, result : Outcome] /\ x.write = w
    BY <1>3
  <1> HIDE DEF x, m
  <1>5. /\ stream.hello = "done" /\ IsOpen(stream)
        /\ m \in Nat /\ m + 1 \in 1 .. Len(pipeline)
        /\ \A i \in 1 .. m : stream.answers[i].write = pipeline[i].write
        /\ w = pipeline[m + 1].write
        /\ Tail(stream.sent) \in Seq(Write)
        /\ Append(stream.answers, x) \in Seq([write : Write, result : Outcome])
        /\ Writes(Append(stream.answers, x)) \o Tail(stream.sent) = Writes(pipeline)
    <2>1. stream.sent # <<>> /\ x.write = Head(stream.sent)
      BY <1>4
    <2>2. /\ stream.hello = "done" /\ IsOpen(stream)
          /\ Len(stream.answers) \in Nat /\ Len(stream.answers) + 1 \in 1 .. Len(pipeline)
          /\ \A i \in 1 .. Len(stream.answers) : stream.answers[i].write = pipeline[i].write
          /\ x.write = pipeline[Len(stream.answers) + 1].write
          /\ Tail(stream.sent) \in Seq(Write)
          /\ Append(stream.answers, x) \in Seq([write : Write, result : Outcome])
          /\ Writes(Append(stream.answers, x)) \o Tail(stream.sent) = Writes(pipeline)
      BY <1>2, <1>4, <2>1, FirstSent
    <2> QED BY <1>4, <2>2 DEF m
  <1>6. /\ stream' \in WriteStream /\ stream'.state = stream.state
        /\ stream'.closes = stream.closes /\ stream'.idle = stream.idle
        /\ stream'.hello = stream.hello /\ stream'.token = stream.token
        /\ stream'.sent = Tail(stream.sent)
        /\ stream'.answers = Append(stream.answers, x)
    BY <1>1, <1>2, <1>5 DEF WriteStream
  <1>7. StreamOK(stream', pipeline, session)
    BY <1>2, <1>5, <1>6 DEF StreamOK, IsOpen, IsStarted
  <1>8. RemoteInv'
    BY <1>1, <1>6, <1>7 DEF RemoteInv, RemoteOK, IsStarted
  <1>9. StreamStep(stream, stream')
    BY <1>6 DEF StreamStep
  <1>10. m + 1 \in DOMAIN disk[session] /\ disk[session][m + 1].write = w
    BY <1>2, <1>5
  <1>11. \A i \in DOMAIN stream.answers :
             /\ i \in DOMAIN disk[session] /\ i < m + 1
             /\ stream.answers[i].write = disk[session][i].write
    <2> SUFFICES ASSUME NEW i \in 1 .. m
                 PROVE  /\ i \in DOMAIN disk[session] /\ i < m + 1
                        /\ stream.answers[i].write = disk[session][i].write
      BY <1>3
    <2>1. i \in 1 .. Len(pipeline) /\ i < m + 1
      BY <1>2, <1>5
    <2> QED BY <1>2, <1>5, <2>1
  <1> QED BY <1>1, <1>3, <1>6, <1>8, <1>9, <1>10, <1>11 DEF x, m

LEMMA GreetRemote ==
  ASSUME TypeOK, QueueInv, RemoteInv, ServerGreets
  PROVE  /\ StreamStep(stream, stream') /\ pipeline' = pipeline /\ RemoteInv'
         /\ stream'.state = stream.state /\ stream'.closes = stream.closes
         /\ stream'.answers = stream.answers
  <1>1. /\ stream' = [stream EXCEPT !.hello = "answered"] /\ stream.hello = "asked"
        /\ pipeline' = pipeline /\ disk' = disk /\ session' = session
    BY DEF ServerGreets, localVars
  <1>2. stream \in WriteStream /\ StreamOK(stream, pipeline, session)
    BY PipelineFacts
  <1>3. /\ stream' \in WriteStream /\ stream'.state = stream.state
        /\ stream'.closes = stream.closes /\ stream'.idle = stream.idle
        /\ stream'.hello = "answered" /\ stream'.token = stream.token
        /\ stream'.sent = stream.sent /\ stream'.answers = stream.answers
    BY <1>1, <1>2 DEF WriteStream
  <1>4. StreamOK(stream', pipeline, session)
    BY <1>1, <1>2, <1>3 DEF StreamOK, IsOpen, IsStarted
  <1>5. RemoteInv' /\ StreamStep(stream, stream')
    BY <1>1, <1>3, <1>4 DEF RemoteInv, RemoteOK, IsStarted, StreamStep
  <1> QED BY <1>1, <1>3, <1>5

LEMMA RestartRemote ==
  ASSUME TypeOK, QueueInv, Restart
  PROVE  /\ stream' \in WriteStream /\ pipeline' \in Seq(Batch) /\ RemoteInv'
         /\ stream'.closes = 0 /\ stream'.answers = <<>>
         /\ stream'.state = "Starting" <=> IsStarted(stream')
  <1> DEFINE q == disk[authUser]
             r == FillWritePipeline(FreshWriteStream, <<>>, q)
  <1>1. stream' = r.stream /\ pipeline' = r.pipeline /\ session' = authUser /\ disk' = disk
    BY DEF Restart
  <1>2. authUser \in User
    BY DEF TypeOK
  <1>3. q \in Seq(Batch) /\ GrowingIds(q)
    BY <1>2, DiskFacts DEF QueueInv
  <1>4. /\ FreshWriteStream \in WriteStream
        /\ FreshWriteStream.closes = 0 /\ FreshWriteStream.answers = <<>>
        /\ FreshWriteStream.state = "Initial"
        /\ StreamOK(FreshWriteStream, <<>>, authUser)
    <2>1. <<>> \in Seq(Write) /\ <<>> \in Seq([write : Write, result : Outcome])
      BY EmptySeq
    <2> QED BY <2>1 DEF FreshWriteStream, WriteStream, StreamState, StreamOK,
                        IsOpen, IsStarted
  <1> HIDE DEF q, r
  <1>5. /\ r.stream \in WriteStream
        /\ RemoteOK(r.stream, r.pipeline, q, authUser)
        /\ r.pipeline = SubSeq(q, 1, Room(q))
        /\ r.stream.closes = 0 /\ r.stream.answers = <<>>
        /\ r.stream.state \in {"Initial", "Starting"}
    BY <1>2, <1>3, <1>4, RefillFacts DEF r
  <1>6. r.pipeline \in Seq(Batch)
    <2>1. Room(q) \in 0 .. Len(q) /\ Room(q) \in Room(q) .. Len(q)
      BY <1>3, RoomFacts
    <2> QED BY <1>3, <1>5, <2>1, FrontFacts
  <1>7. RemoteInv'
    BY <1>1, <1>5 DEF RemoteInv, q
  <1>8. stream'.state = "Starting" <=> IsStarted(stream')
    BY <1>1, <1>5 DEF IsStarted
  <1> QED BY <1>1, <1>5, <1>6, <1>7, <1>8


(***************************************************************************)
(* Where a write waits: in memory while a task of the worker holds it, on  *)
(* disk while a batch does.                                                *)
(***************************************************************************)

LEMMA MemoryFacts ==
  ASSUME NEW q \in Seq(WorkerTask), NEW w
  PROVE  (\E i \in DOMAIN q : q[i] = [type |-> "write", write |-> w])
         <=> \E i \in WriteTasks(q) : q[i].write = w
  <1>1. \A i \in DOMAIN q : q[i] \in WorkerTask
    BY LenProperties, ElementOfSeq
  <1>2. \A t \in WorkerTask : t.type = "write" => t = [type |-> "write", write |-> t.write]
    BY DEF WorkerTask
  <1>3. ASSUME NEW i \in WriteTasks(q), q[i].write = w
        PROVE  \E j \in DOMAIN q : q[j] = [type |-> "write", write |-> w]
    BY <1>1, <1>2, <1>3 DEF WriteTasks
  <1>4. ASSUME NEW i \in DOMAIN q, q[i] = [type |-> "write", write |-> w]
        PROVE  \E j \in WriteTasks(q) : q[j].write = w
    BY <1>4 DEF WriteTasks
  <1> QED BY <1>3, <1>4

LEMMA InMemoryFacts ==
  ASSUME TypeOK, TypeOK'
  PROVE  /\ InMemory \subseteq Write /\ InMemory' \subseteq Write
         /\ \A w \in Write : w \in InMemory
                <=> \E i \in WriteTasks(worker) : worker[i].write = w
         /\ \A w \in Write : w \in InMemory'
                <=> \E i \in WriteTasks(worker') : worker'[i].write = w
  <1>1. worker \in Seq(WorkerTask) /\ worker' \in Seq(WorkerTask)
    BY DEF TypeOK
  <1>2. ASSUME NEW w \in Write
        PROVE  w \in InMemory <=> \E i \in WriteTasks(worker) : worker[i].write = w
    BY <1>1, MemoryFacts DEF InMemory
  <1>3. ASSUME NEW w \in Write
        PROVE  w \in InMemory' <=> \E i \in WriteTasks(worker') : worker'[i].write = w
    BY <1>1, MemoryFacts DEF InMemory
  <1>4. InMemory \subseteq Write /\ InMemory' \subseteq Write
    BY DEF InMemory
  <1> QED BY <1>2, <1>3, <1>4

LEMMA OnDiskFacts ==
  /\ \A w : w \in OnDisk
        <=> \E u \in User : \E i \in DOMAIN disk[u] : disk[u][i].write = w
  /\ \A w : w \in OnDisk'
        <=> \E u \in User : \E i \in DOMAIN disk'[u] : disk'[u][i].write = w
  <1>1. \A w : w \in OnDisk
           <=> \E u \in User : \E i \in DOMAIN disk[u] : disk[u][i].write = w
    BY DEF OnDisk, ToSet
  <1>2. \A w : w \in OnDisk'
           <=> \E u \in User : \E i \in DOMAIN disk'[u] : disk'[u][i].write = w
    BY DEF OnDisk, ToSet
  <1> QED BY <1>1, <1>2

\* What is on disk is older than what is in memory, and waits in the queue of
\* its account.
LEMMA DiskIsOlder ==
  ASSUME TypeOK, TypeOK', QueueInv
  PROVE  /\ \A v \in OnDisk : \A w \in InMemory : v < w
         /\ \A w \in OnDisk : w \in Write /\ w <= made
         /\ \A w \in OnDisk : \E i \in DOMAIN disk[owner[w]] : disk[owner[w]][i].write = w
         /\ \A w \in InMemory : w \in Write /\ w <= made
  <1>1. ASSUME NEW v \in OnDisk
        PROVE  /\ v \in Write /\ v <= made
               /\ \E i \in DOMAIN disk[owner[v]] : disk[owner[v]][i].write = v
               /\ \A w \in InMemory : v < w
    <2>0. PICK u \in User : \E i \in DOMAIN disk[u] : disk[u][i].write = v
      BY OnDiskFacts
    <2>1. PICK i \in DOMAIN disk[u] : disk[u][i].write = v
      BY <2>0
    <2>2. v \in Write
      BY <2>1, DiskFacts
    <2>3. v <= made /\ owner[v] = u /\ \A j \in WriteTasks(worker) : v < worker[j].write
      BY <2>1 DEF QueueInv
    <2>4. \A w \in InMemory : v < w
      BY <2>3, InMemoryFacts
    <2> QED BY <2>1, <2>2, <2>3, <2>4
  <1>2. \A w \in InMemory : w \in Write /\ w <= made
    BY InMemoryFacts DEF QueueInv
  <1> QED BY <1>1, <1>2

\* The writes among the tasks r are those among the tasks q, a positions on.
SameWrites(q, r, a) ==
    /\ \A i \in WriteTasks(r) : /\ i \in Nat /\ i + a \in WriteTasks(q)
                                /\ r[i] = q[i + a]
    /\ \A i \in WriteTasks(q) : i - a \in WriteTasks(r) /\ r[i - a] = q[i]

LEMMA AppendKeeps ==
  ASSUME NEW q \in Seq(WorkerTask), NEW e \in WorkerTask, e.type # "write"
  PROVE  SameWrites(q, Append(q, e), 0)
  <1> DEFINE r == Append(q, e)
  <1>1. /\ Len(q) \in Nat /\ DOMAIN q = 1 .. Len(q) /\ DOMAIN r = 1 .. Len(q) + 1
        /\ \A i \in 1 .. Len(q) : r[i] = q[i]
        /\ r[Len(q) + 1] = e
    BY AppendedTask
  <1> HIDE DEF r
  <1>2. ASSUME NEW i \in WriteTasks(r)
        PROVE  i \in Nat /\ i + 0 = i /\ i \in WriteTasks(q) /\ r[i] = q[i]
    BY <1>1 DEF WriteTasks
  <1>3. ASSUME NEW i \in WriteTasks(q)
        PROVE  i - 0 = i /\ i \in WriteTasks(r) /\ r[i] = q[i]
    BY <1>1 DEF WriteTasks
  <1>4. SameWrites(q, r, 0)
    BY <1>2, <1>3 DEF SameWrites
  <1> QED BY <1>4 DEF r

LEMMA TailKeeps ==
  ASSUME NEW q \in Seq(WorkerTask), q # <<>>, Head(q).type # "write"
  PROVE  SameWrites(q, Tail(q), 1)
  <1> DEFINE r == Tail(q)
             n == Len(q)
  <1>1. /\ n \in Nat \ {0} /\ DOMAIN q = 1 .. n /\ DOMAIN r = 1 .. n - 1
        /\ \A i \in 1 .. n - 1 : r[i] = q[i + 1]
        /\ q[1].type # "write"
    BY HeadTask
  <1> HIDE DEF r, n
  <1>2. ASSUME NEW i \in WriteTasks(r)
        PROVE  i \in Nat /\ i + 1 \in WriteTasks(q) /\ r[i] = q[i + 1]
    BY <1>1 DEF WriteTasks
  <1>3. ASSUME NEW i \in WriteTasks(q)
        PROVE  i - 1 \in WriteTasks(r) /\ r[i - 1] = q[i]
    <2>1. i \in 1 .. n /\ i # 1 /\ q[i].type = "write"
      BY <1>1 DEF WriteTasks
    <2>2. i - 1 \in 1 .. n - 1 /\ (i - 1) + 1 = i
      BY <1>1, <2>1
    <2>3. r[i - 1] = q[i]
      BY <1>1, <2>2
    <2> QED BY <1>1, <2>1, <2>2, <2>3 DEF WriteTasks
  <1>4. SameWrites(q, r, 1)
    BY <1>2, <1>3 DEF SameWrites
  <1> QED BY <1>4 DEF r

\* A task that is no write comes or goes, or none does.
LEMMA WritesStay ==
  ASSUME TypeOK,
         \/ worker' = worker
         \/ \E e \in WorkerTask : e.type # "write" /\ worker' = Append(worker, e)
         \/ worker # <<>> /\ Head(worker).type # "write" /\ worker' = Tail(worker)
  PROVE  \E a \in {0, 1} : SameWrites(worker, worker', a)
  <1>1. worker \in Seq(WorkerTask) /\ DOMAIN worker \subseteq Nat
    BY WorkerFacts
  <1>2. CASE worker' = worker
    <2>1. \A i \in WriteTasks(worker) : i \in Nat /\ i + 0 = i /\ i - 0 = i
      BY <1>1 DEF WriteTasks
    <2>2. SameWrites(worker, worker', 0)
      BY <1>2, <2>1 DEF SameWrites
    <2> QED BY <2>2
  <1>3. ASSUME NEW e \in WorkerTask, e.type # "write", worker' = Append(worker, e)
        PROVE  \E a \in {0, 1} : SameWrites(worker, worker', a)
    <2>1. SameWrites(worker, Append(worker, e), 0)
      BY <1>1, <1>3, AppendKeeps
    <2> QED BY <1>3, <2>1
  <1>4. ASSUME worker # <<>>, Head(worker).type # "write", worker' = Tail(worker)
        PROVE  \E a \in {0, 1} : SameWrites(worker, worker', a)
    <2>1. SameWrites(worker, Tail(worker), 1)
      BY <1>1, <1>4, TailKeeps
    <2> QED BY <1>4, <2>1
  <1> QED BY <1>2, <1>3, <1>4

LEMMA MemoryStays ==
  ASSUME TypeOK, TypeOK', NEW a \in {0, 1}, SameWrites(worker, worker', a)
  PROVE  InMemory' = InMemory
  <1>1. ASSUME NEW w \in Write PROVE w \in InMemory' <=> w \in InMemory
    BY InMemoryFacts DEF SameWrites
  <1> QED BY <1>1, InMemoryFacts

(***************************************************************************)
(* Steps that leave the writes alone: those of FirebaseAuth and the main   *)
(* thread, and what the worker does for the stream.                        *)
(***************************************************************************)

LEMMA QueueStays ==
  ASSUME QueueInv, NEW a \in {0, 1},
         \A i \in WriteTasks(worker') : /\ i \in Nat /\ i + a \in WriteTasks(worker)
                                        /\ worker'[i] = worker[i + a],
         disk' = disk, made' = made, owner' = owner,
         \A u \in User : \A i \in DOMAIN disk[u] : disk[u][i].id < nextBatchId'
  PROVE  QueueInv'
  <1>1. \A i \in WriteTasks(worker') :
            i \in Nat /\ i + a \in WriteTasks(worker) /\ worker'[i] = worker[i + a]
    OBVIOUS
  <1>2. ASSUME NEW u \in User
        PROVE  /\ GrowingIds(disk'[u]) /\ GrowingWrites(disk'[u])
               /\ \A i \in DOMAIN disk'[u] :
                     /\ disk'[u][i].id < nextBatchId'
                     /\ disk'[u][i].write <= made'
                     /\ owner'[disk'[u][i].write] = u
                     /\ \A j \in WriteTasks(worker') : disk'[u][i].write < worker'[j].write
    BY <1>1 DEF QueueInv
  <1>3. ASSUME NEW i \in WriteTasks(worker')
        PROVE  /\ worker'[i].write <= made'
               /\ \A j \in WriteTasks(worker') : i < j => worker'[i].write < worker'[j].write
    <2>1. worker'[i].write <= made'
      BY <1>1 DEF QueueInv
    <2>2. ASSUME NEW j \in WriteTasks(worker'), i < j
          PROVE  worker'[i].write < worker'[j].write
      <3>1. i + a < j + a
        BY <1>1, <2>2
      <3> QED BY <1>1, <3>1 DEF QueueInv
    <2> QED BY <2>1, <2>2
  <1> QED BY <1>2, <1>3 DEF QueueInv

LEMMA OutcomeStays ==
  ASSUME OutcomeInv, outcome' = outcome, owner' = owner, made' = made,
         \A w \in Write : (w \in InMemory' \/ w \in OnDisk') <=> Waits(w)
  PROVE  OutcomeInv'
  BY DEF OutcomeInv, Waits

LEMMA ServerStays ==
  ASSUME ServerInv, verdict' = verdict, document' = document, owner' = owner,
         made' = made, outcome' = outcome, InMemory' \subseteq InMemory,
         \A u \in User : \A i \in DOMAIN disk[u] :
             i \in DOMAIN disk'[u] /\ disk'[u][i] = disk[u][i],
         stream'.answers = stream.answers \/ stream'.answers = <<>>
  PROVE  ServerInv'
  <1>1. \A u \in User : Newest(u)' = Newest(u)
    BY DEF Newest, Applied
  <1>2. CASE stream'.answers = stream.answers
    BY <1>1, <1>2 DEF ServerInv
  <1>3. CASE stream'.answers = <<>>
    <2>1. DOMAIN stream'.answers = {}
      BY <1>3
    <2> QED BY <1>1, <2>1 DEF ServerInv
  <1> QED BY <1>2, <1>3

LEMMA ToldStays ==
  ASSUME ToldIsTrue, callbacks' = callbacks, told' = told, outcome' = outcome,
         disk' = disk, verdict' = verdict, owner' = owner
  PROVE  ToldIsTrue'
  BY DEF ToldIsTrue, CallbackIsOwn, AcceptedWasApplied, RejectedForRefusal

\* What is said of the writes: where they wait, what has become of them.
WriteInv == QueueInv /\ OutcomeInv /\ ServerInv /\ ToldIsTrue

LEMMA QuietStep ==
  ASSUME TypeOK, TypeOK', WriteInv,
         \/ worker' = worker
         \/ \E e \in WorkerTask : e.type # "write" /\ worker' = Append(worker, e)
         \/ worker # <<>> /\ Head(worker).type # "write" /\ worker' = Tail(worker),
         nextBatchId' = nextBatchId \/ nextBatchId' = LoadNextBatchId(disk),
         stream'.answers = stream.answers \/ stream'.answers = <<>>,
         UNCHANGED <<disk, callbacks, made, owner, outcome, told, document, verdict>>
  PROVE  WriteInv'
  <1>1. PICK a \in {0, 1} : SameWrites(worker, worker', a)
    BY WritesStay
  <1>2. InMemory' = InMemory
    BY <1>1, MemoryStays
  <1>3. OnDisk' = OnDisk
    BY DEF OnDisk
  <1>4. \A u \in User : \A i \in DOMAIN disk[u] : disk[u][i].id < nextBatchId'
    BY NextIdFacts DEF WriteInv, QueueInv
  <1>5. QueueInv'
    <2>1. QueueInv /\ \A i \in WriteTasks(worker') :
              i \in Nat /\ i + a \in WriteTasks(worker) /\ worker'[i] = worker[i + a]
      BY <1>1 DEF SameWrites, WriteInv
    <2> QED BY <1>4, <2>1, QueueStays
  <1>6. OutcomeInv'
    BY <1>2, <1>3, OutcomeStays DEF WriteInv, Waits
  <1>7. ServerInv'
    BY <1>2, ServerStays DEF WriteInv
  <1>8. ToldIsTrue'
    BY ToldStays DEF WriteInv
  <1> QED BY <1>5, <1>6, <1>7, <1>8 DEF WriteInv

(***************************************************************************)
(* A write is made, reaches the disk, or is lost.                          *)
(***************************************************************************)

LEMMA AppendWrite ==
  ASSUME NEW q \in Seq(WorkerTask), NEW e \in WorkerTask, e.type = "write"
  PROVE  /\ Len(q) + 1 \notin WriteTasks(q)
         /\ WriteTasks(Append(q, e)) = WriteTasks(q) \cup {Len(q) + 1}
         /\ \A i \in WriteTasks(q) : i < Len(q) + 1 /\ Append(q, e)[i] = q[i]
         /\ Append(q, e)[Len(q) + 1] = e
  <1> DEFINE r == Append(q, e)
             k == Len(q) + 1
  <1>1. /\ Len(q) \in Nat /\ DOMAIN q = 1 .. Len(q) /\ DOMAIN r = 1 .. k
        /\ \A i \in 1 .. Len(q) : r[i] = q[i]
        /\ r[k] = e
    BY AppendedTask
  <1>2. /\ k \notin 1 .. Len(q) /\ 1 .. k = (1 .. Len(q)) \cup {k}
        /\ \A i \in 1 .. Len(q) : i < k
    BY <1>1
  <1> HIDE DEF r, k
  <1>3. k \notin WriteTasks(q) /\ \A i \in WriteTasks(q) : i < k /\ r[i] = q[i]
    BY <1>1, <1>2 DEF WriteTasks
  <1>4. \A i : i \in WriteTasks(r) <=> i \in WriteTasks(q) \/ i = k
    BY <1>1, <1>2 DEF WriteTasks
  <1>5. WriteTasks(r) = WriteTasks(q) \cup {k}
    BY <1>4
  <1> QED BY <1>1, <1>3, <1>5 DEF r, k

LEMMA TailWrite ==
  ASSUME NEW q \in Seq(WorkerTask), q # <<>>, Head(q).type = "write"
  PROVE  /\ 1 \in WriteTasks(q) /\ Head(q) = q[1]
         /\ \A i \in WriteTasks(Tail(q)) : /\ i \in Nat /\ 1 < i + 1
                                           /\ i + 1 \in WriteTasks(q)
                                           /\ Tail(q)[i] = q[i + 1]
         /\ \A i \in WriteTasks(q) : i # 1 => /\ i - 1 \in WriteTasks(Tail(q))
                                              /\ Tail(q)[i - 1] = q[i]
  <1> DEFINE r == Tail(q)
             n == Len(q)
  <1>1. /\ n \in Nat \ {0} /\ DOMAIN q = 1 .. n /\ DOMAIN r = 1 .. n - 1
        /\ \A i \in 1 .. n - 1 : r[i] = q[i + 1]
        /\ Head(q) = q[1] /\ q[1].type = "write"
    BY HeadTask
  <1> HIDE DEF r, n
  <1>2. ASSUME NEW i \in WriteTasks(r)
        PROVE  i \in Nat /\ 1 < i + 1 /\ i + 1 \in WriteTasks(q) /\ r[i] = q[i + 1]
    BY <1>1 DEF WriteTasks
  <1>3. ASSUME NEW i \in WriteTasks(q), i # 1
        PROVE  i - 1 \in WriteTasks(r) /\ r[i - 1] = q[i]
    <2>1. i \in 1 .. n /\ q[i].type = "write"
      BY <1>1 DEF WriteTasks
    <2>2. i - 1 \in 1 .. n - 1 /\ (i - 1) + 1 = i
      BY <1>1, <1>3, <2>1
    <2>3. r[i - 1] = q[i]
      BY <1>1, <2>2
    <2> QED BY <1>1, <2>1, <2>2, <2>3 DEF WriteTasks
  <1>4. 1 \in WriteTasks(q) /\ Head(q) = q[1]
    BY <1>1 DEF WriteTasks
  <1> QED BY <1>2, <1>3, <1>4 DEF r

\* What MakeWrite does: the new write is the youngest in memory.
LEMMA MakeFacts ==
  ASSUME TypeOK, TypeOK', MakeWrite
  PROVE  /\ made' = made + 1 /\ made' \in Write /\ made \in Nat
         /\ owner'[made'] = sdkUser
         /\ \A w \in Write : w # made' => owner'[w] = owner[w]
         /\ WriteTasks(worker') = WriteTasks(worker) \cup {Len(worker) + 1}
         /\ \A i \in WriteTasks(worker) : /\ i \in Nat /\ i < Len(worker) + 1
                                          /\ worker'[i] = worker[i]
         /\ worker'[Len(worker) + 1].write = made'
         /\ InMemory' = InMemory \cup {made'} /\ OnDisk' = OnDisk
  <1> DEFINE e == [type |-> "write", write |-> made + 1]
             k == Len(worker) + 1
  <1>1. /\ made' = made + 1 /\ made < MaxWrites /\ disk' = disk
        /\ owner' = [owner EXCEPT ![made'] = sdkUser]
    BY DEF MakeWrite, localVars
  <1>2. made \in Nat /\ made' \in Write
    BY <1>1, WritesAssumption DEF TypeOK, Write
  <1>3. owner'[made'] = sdkUser /\ \A w \in Write : w # made' => owner'[w] = owner[w]
    BY <1>1, <1>2 DEF TypeOK
  <1>4. worker' = Append(worker, e)
    BY <1>1 DEF MakeWrite
  <1>5. e \in WorkerTask /\ e.type = "write" /\ e.write = made'
    BY <1>1, <1>2 DEF WorkerTask
  <1>6. worker \in Seq(WorkerTask) /\ DOMAIN worker \subseteq Nat
    BY WorkerFacts
  <1> HIDE DEF e
  <1>7. /\ WriteTasks(Append(worker, e)) = WriteTasks(worker) \cup {k}
        /\ \A i \in WriteTasks(worker) : i < k /\ Append(worker, e)[i] = worker[i]
        /\ Append(worker, e)[k] = e
    BY <1>5, <1>6, AppendWrite
  <1>8. /\ WriteTasks(worker') = WriteTasks(worker) \cup {k}
        /\ \A i \in WriteTasks(worker) : i < k /\ worker'[i] = worker[i]
        /\ worker'[k].write = made'
    BY <1>4, <1>5, <1>7
  <1>9. \A i \in WriteTasks(worker) : i \in Nat
    BY <1>6 DEF WriteTasks
  <1> HIDE DEF k
  <1>10. InMemory' = InMemory \cup {made'}
    <2>1. ASSUME NEW w \in Write PROVE w \in InMemory' <=> w \in InMemory \/ w = made'
      BY <1>8, InMemoryFacts
    <2> QED BY <1>2, <2>1, InMemoryFacts
  <1>11. OnDisk' = OnDisk
    BY <1>1 DEF OnDisk
  <1> QED BY <1>1, <1>2, <1>3, <1>8, <1>9, <1>10, <1>11 DEF k

LEMMA MakeWrites ==
  ASSUME TypeOK, TypeOK', WriteInv, stream'.answers = stream.answers, MakeWrite
  PROVE  WriteInv'
  <1> DEFINE k == Len(worker) + 1
  <1>1. /\ made' = made + 1 /\ made' \in Write /\ made \in Nat
        /\ \A w \in Write : w # made' => owner'[w] = owner[w]
        /\ WriteTasks(worker') = WriteTasks(worker) \cup {k}
        /\ \A i \in WriteTasks(worker) : i \in Nat /\ i < k /\ worker'[i] = worker[i]
        /\ worker'[k].write = made'
        /\ InMemory' = InMemory \cup {made'} /\ OnDisk' = OnDisk
    BY MakeFacts
  <1>2. /\ disk' = disk /\ nextBatchId' = nextBatchId /\ callbacks' = callbacks
        /\ outcome' = outcome /\ told' = told
        /\ document' = document /\ verdict' = verdict
    BY DEF MakeWrite, localVars, serverVars
  <1>3. QueueInv /\ OutcomeInv /\ ServerInv /\ ToldIsTrue
    BY DEF WriteInv
  <1>4. k \in Nat \ {0}
    BY WorkerFacts, LenProperties
  <1> HIDE DEF k
  <1>5. \A w \in Write : w \in Nat
    BY DEF Write
  <1>6. QueueInv'
    <2>1. ASSUME NEW u \in User
          PROVE  /\ GrowingIds(disk'[u]) /\ GrowingWrites(disk'[u])
                 /\ \A i \in DOMAIN disk'[u] :
                       /\ disk'[u][i].id < nextBatchId'
                       /\ disk'[u][i].write <= made'
                       /\ owner'[disk'[u][i].write] = u
                       /\ \A j \in WriteTasks(worker') : disk'[u][i].write < worker'[j].write
      <3>1. ASSUME NEW i \in DOMAIN disk[u]
            PROVE  /\ disk[u][i].id < nextBatchId
                   /\ disk[u][i].write <= made'
                   /\ owner'[disk[u][i].write] = u
                   /\ \A j \in WriteTasks(worker') : disk[u][i].write < worker'[j].write
        <4>1. disk[u][i].write \in Write /\ disk[u][i].write \in Nat
          BY <1>5, DiskFacts
        <4>2. /\ disk[u][i].id < nextBatchId /\ disk[u][i].write <= made
              /\ owner[disk[u][i].write] = u
              /\ \A j \in WriteTasks(worker) : disk[u][i].write < worker[j].write
          BY <1>3 DEF QueueInv
        <4>3. disk[u][i].write < made' /\ disk[u][i].write # made'
          BY <1>1, <4>1, <4>2
        <4> QED BY <1>1, <4>1, <4>2, <4>3
      <3>2. GrowingIds(disk[u]) /\ GrowingWrites(disk[u])
        BY <1>3 DEF QueueInv
      <3> QED BY <1>2, <3>1, <3>2
    <2>2. ASSUME NEW i \in WriteTasks(worker')
          PROVE  /\ worker'[i].write <= made'
                 /\ \A j \in WriteTasks(worker') : i < j => worker'[i].write < worker'[j].write
      <3>1. \A j \in WriteTasks(worker) :
                worker[j].write \in Write /\ worker[j].write <= made
        <4>1. \A j \in WriteTasks(worker) : worker[j].write \in Write
          BY WorkerFacts
        <4>2. \A j \in WriteTasks(worker) : worker[j].write <= made
          BY <1>3 DEF QueueInv
        <4> QED BY <4>1, <4>2
      <3>2. ASSUME NEW j \in WriteTasks(worker) PROVE worker'[j].write < made'
        <4>1. worker[j].write \in Nat /\ worker[j].write <= made
          BY <1>5, <3>1
        <4> QED BY <1>1, <4>1
      <3>3. worker'[i].write <= made'
        <4>1. CASE i = k
          BY <1>1, <4>1
        <4>2. CASE i # k
          <5>1. i \in WriteTasks(worker) /\ worker'[i].write \in Nat
            BY <1>1, <1>5, <3>1, <4>2
          <5> QED BY <1>1, <3>2, <5>1
        <4> QED BY <4>1, <4>2
      <3>4. ASSUME NEW j \in WriteTasks(worker'), i < j
            PROVE  worker'[i].write < worker'[j].write
        <4>1. CASE j = k
          <5>1. i \in WriteTasks(worker)
            BY <1>1, <1>4, <3>4, <4>1
          <5> QED BY <1>1, <3>2, <4>1, <5>1
        <4>2. CASE j # k
          <5>1. j \in WriteTasks(worker) /\ j < k /\ j \in Nat
            BY <1>1, <4>2
          <5>2. i \in WriteTasks(worker)
            BY <1>1, <1>4, <3>4, <5>1
          <5> QED BY <1>1, <1>3, <3>4, <5>1, <5>2 DEF QueueInv
        <4> QED BY <4>1, <4>2
      <3> QED BY <3>3, <3>4
    <2> QED BY <2>1, <2>2 DEF QueueInv
  <1>7. OutcomeInv'
    <2>1. \A w \in Write : Waits(w) => w <= made
      BY DiskIsOlder, <1>3 DEF Waits
    <2>2. ASSUME NEW w \in Write
          PROVE  outcome'[w] = "none" <=> w > made' \/ w \in InMemory' \/ w \in OnDisk'
      BY <1>1, <1>2, <1>3, <1>5, <2>1 DEF OutcomeInv, Waits
    <2>3. ASSUME NEW v \in Write, NEW w \in Write,
                 v < w, owner'[v] = owner'[w], outcome'[w] \in Outcome
          PROVE  ~(v \in InMemory' \/ v \in OnDisk')
      <3>1. outcome[w] # "none"
        BY <1>2, <2>3 DEF Outcome
      <3>2. ~(w > made)
        <4>1. \A x \in Write : x > made => outcome[x] = "none"
          BY <1>3 DEF OutcomeInv
        <4> QED BY <1>1, <1>5, <3>1, <4>1
      <3>3. v # made' /\ w # made'
        <4>1. v \in Nat /\ w \in Nat /\ made \in Nat /\ made' = made + 1
          BY <1>1, <1>5
        <4> QED BY <2>3, <3>2, <4>1
      <3>4. owner[v] = owner[w]
        BY <1>1, <2>3, <3>3
      <3> QED BY <1>1, <1>2, <1>3, <2>3, <3>3, <3>4 DEF OutcomeInv, Waits
    <2> QED BY <2>2, <2>3 DEF OutcomeInv, Waits
  <1>8. \A w \in Write : verdict[w] # "none" => w <= made /\ w # made'
    BY <1>1, <1>3, <1>5 DEF ServerInv
  <1>9. ServerInv'
    <2>1. \A u \in User : Newest(u)' = Newest(u)
      <3>1. ASSUME NEW u \in User PROVE Applied(u)' = Applied(u)
        BY <1>1, <1>2, <1>8 DEF Applied
      <3> QED BY <3>1 DEF Newest
    <2>2. \A w \in Write : verdict'[w] # "none" =>
              w <= made' /\ w \notin InMemory' /\ outcome'[w] # "lost"
      BY <1>1, <1>2, <1>3, <1>5, <1>8 DEF ServerInv
    <2> QED BY <1>2, <1>3, <2>1, <2>2 DEF ServerInv
  <1>10. ToldIsTrue'
    <2>1. CallbackIsOwn' /\ AcceptedWasApplied'
      BY <1>2, <1>3 DEF ToldIsTrue, CallbackIsOwn, AcceptedWasApplied
    <2>2. ASSUME NEW w \in Write, outcome'[w] = "rejected"
          PROVE  \/ verdict'[w] = "rejected"
                 \/ /\ verdict'[w] = "accepted"
                    /\ \E v \in Write : /\ v > w /\ owner'[v] = owner'[w]
                                        /\ verdict'[v] = "rejected"
      <3>1. CASE verdict[w] = "rejected"
        BY <1>2, <3>1
      <3>2. CASE verdict[w] # "rejected"
        <4>1. /\ verdict[w] = "accepted"
              /\ \E v \in Write : v > w /\ owner[v] = owner[w] /\ verdict[v] = "rejected"
          BY <1>2, <1>3, <2>2, <3>2 DEF ToldIsTrue, RejectedForRefusal
        <4>2. PICK v \in Write : v > w /\ owner[v] = owner[w] /\ verdict[v] = "rejected"
          BY <4>1
        <4>3. owner'[v] = owner[v] /\ owner'[w] = owner[w]
          BY <1>1, <1>8, <4>1, <4>2
        <4> QED BY <1>2, <4>1, <4>2, <4>3
      <3> QED BY <3>1, <3>2
    <2> QED BY <2>1, <2>2 DEF ToldIsTrue, RejectedForRefusal
  <1> QED BY <1>6, <1>7, <1>9, <1>10 DEF WriteInv

\* What PersistWrite does: the oldest write in memory is the youngest on disk.
LEMMA PersistFacts ==
  ASSUME TypeOK, TypeOK', QueueInv, ThreadInv, PersistWrite,
         NEW b, b = [id |-> nextBatchId, write |-> Head(worker).write]
  PROVE  /\ session \in User /\ b \in Batch /\ b.id = nextBatchId
         /\ b.write \in InMemory /\ owner[b.write] = session /\ b.write <= made
         /\ disk'[session] = Append(disk[session], b)
         /\ \A u \in User : u # session => disk'[u] = disk[u]
         /\ Len(disk[session]) + 1 \in DOMAIN disk'[session]
         /\ disk'[session][Len(disk[session]) + 1] = b
         /\ \A u \in User : \A i \in DOMAIN disk[u] :
                i \in DOMAIN disk'[u] /\ disk'[u][i] = disk[u][i]
         /\ \A u \in User : \A i \in DOMAIN disk'[u] :
                \/ i \in DOMAIN disk[u] /\ disk'[u][i] = disk[u][i]
                \/ u = session /\ disk'[u][i] = b
         /\ \A u \in User : \A i \in DOMAIN disk[u] :
                disk[u][i].id < b.id /\ disk[u][i].write < b.write
         /\ \A i \in WriteTasks(worker') : /\ i \in Nat /\ i + 1 \in WriteTasks(worker)
                                           /\ worker'[i] = worker[i + 1]
                                           /\ b.write < worker'[i].write
         /\ InMemory' = InMemory \ {b.write}
         /\ OnDisk' = OnDisk \cup {b.write}
  <1> DEFINE q == disk[session]
             k == Len(q) + 1
  <1>1. /\ b \in Batch /\ disk'[session] = Append(q, b)
        /\ \A u \in User : u # session => disk'[u] = disk[u]
        /\ \A u \in User : \A i \in DOMAIN disk[u] :
               disk[u][i].id < b.id /\ disk[u][i].write < b.write
        /\ 1 \in WriteTasks(worker) /\ worker[1].write = b.write
        /\ worker # <<>> /\ Head(worker).type = "write" /\ b.id = nextBatchId
    BY PersistDisk
  <1>2. worker' = Tail(worker) /\ session \in User /\ worker \in Seq(WorkerTask)
    BY DEF PersistWrite, TypeOK
  <1>3. /\ DOMAIN q = 1 .. Len(q) /\ Len(q) \in Nat
        /\ DOMAIN disk'[session] = 1 .. k
        /\ \A i \in 1 .. Len(q) : disk'[session][i] = q[i]
        /\ disk'[session][k] = b
    <2>1. q \in Seq(Batch)
      BY <1>2, DiskFacts
    <2> HIDE DEF q
    <2> QED BY <1>1, <2>1, AppendedTask
  <1>4. /\ k \in 1 .. k /\ \A i \in 1 .. Len(q) : i \in 1 .. k
        /\ \A i \in 1 .. k : i \in 1 .. Len(q) \/ i = k
    BY <1>3
  <1>5. \A u \in User : \A i \in DOMAIN disk[u] :
            i \in DOMAIN disk'[u] /\ disk'[u][i] = disk[u][i]
    BY <1>1, <1>3, <1>4
  <1>6. \A u \in User : \A i \in DOMAIN disk'[u] :
            \/ i \in DOMAIN disk[u] /\ disk'[u][i] = disk[u][i]
            \/ u = session /\ disk'[u][i] = b
    BY <1>1, <1>3, <1>4
  <1>7. k \in DOMAIN disk'[session] /\ disk'[session][k] = b
    BY <1>3, <1>4
  <1> HIDE DEF q, k
  <1>8. b.write \in Write /\ b.write \in Nat
    BY <1>1 DEF Batch, Write
  <1>9. /\ \A i \in WriteTasks(worker') : /\ i \in Nat /\ 1 < i + 1
                                          /\ i + 1 \in WriteTasks(worker)
                                          /\ worker'[i] = worker[i + 1]
        /\ \A i \in WriteTasks(worker) : i # 1 => /\ i - 1 \in WriteTasks(worker')
                                                  /\ worker'[i - 1] = worker[i]
        /\ Head(worker) = worker[1]
    <2>1. /\ \A i \in WriteTasks(Tail(worker)) : /\ i \in Nat /\ 1 < i + 1
                                                 /\ i + 1 \in WriteTasks(worker)
                                                 /\ Tail(worker)[i] = worker[i + 1]
          /\ \A i \in WriteTasks(worker) : i # 1 => /\ i - 1 \in WriteTasks(Tail(worker))
                                                    /\ Tail(worker)[i - 1] = worker[i]
          /\ Head(worker) = worker[1]
      BY <1>1, <1>2, TailWrite
    <2> QED BY <1>2, <2>1
  <1>10. \A i \in WriteTasks(worker') : b.write < worker'[i].write
    BY <1>1, <1>9 DEF QueueInv
  <1>11. b.write \in InMemory /\ b.write <= made
    BY <1>1, <1>8, InMemoryFacts DEF QueueInv
  <1>12. owner[b.write] = session
    <2>1. ThreadInv /\ 1 \in WriteTasks(worker)
      BY <1>1
    <2>2. Follows(worker, 1, session, owner[worker[1].write])
      BY <2>1 DEF ThreadInv, WritesMeetOwner
    <2>3. worker[1].type # "auth"
      BY <1>1, <1>9
    <2> QED BY <1>1, <2>2, <2>3, FollowsHead
  <1>13. InMemory' = InMemory \ {b.write}
    <2>1. ASSUME NEW w \in Write PROVE w \in InMemory' <=> w \in InMemory /\ w # b.write
      <3>1. ASSUME w \in InMemory' PROVE w \in InMemory /\ w # b.write
        <4>1. PICK i \in WriteTasks(worker') : worker'[i].write = w
          BY <3>1, InMemoryFacts
        <4>2. i + 1 \in WriteTasks(worker) /\ worker[i + 1].write = w /\ b.write < w
          BY <1>9, <1>10, <4>1
        <4> QED BY <1>8, <4>2, InMemoryFacts
      <3>2. ASSUME w \in InMemory, w # b.write PROVE w \in InMemory'
        <4>1. PICK i \in WriteTasks(worker) : worker[i].write = w
          BY <3>2, InMemoryFacts
        <4>2. i # 1
          BY <1>1, <3>2, <4>1
        <4>3. i - 1 \in WriteTasks(worker') /\ worker'[i - 1].write = w
          BY <1>9, <4>1, <4>2
        <4> QED BY <4>3, InMemoryFacts
      <3> QED BY <3>1, <3>2
    <2> QED BY <2>1, InMemoryFacts
  <1>14. OnDisk' = OnDisk \cup {b.write}
    <2>1. ASSUME NEW w \in OnDisk' PROVE w \in OnDisk \/ w = b.write
      <3>1. PICK u \in User : \E i \in DOMAIN disk'[u] : disk'[u][i].write = w
        BY OnDiskFacts
      <3> QED BY <1>6, <3>1, OnDiskFacts
    <2>2. ASSUME NEW w \in OnDisk PROVE w \in OnDisk'
      <3>1. PICK u \in User : \E i \in DOMAIN disk[u] : disk[u][i].write = w
        BY OnDiskFacts
      <3> QED BY <1>5, <3>1, OnDiskFacts
    <2>3. b.write \in OnDisk'
      BY <1>2, <1>7, OnDiskFacts
    <2> QED BY <2>1, <2>2, <2>3
  <1> QED BY <1>1, <1>2, <1>5, <1>6, <1>7, <1>9, <1>10, <1>11, <1>12, <1>13, <1>14
          DEF q, k

LEMMA PersistWrites ==
  ASSUME TypeOK, TypeOK', ThreadInv, WriteInv, stream'.answers = stream.answers,
         PersistWrite
  PROVE  WriteInv'
  <1> DEFINE b == [id |-> nextBatchId, write |-> Head(worker).write]
             k == Len(disk[session]) + 1
  <1>1. QueueInv /\ OutcomeInv /\ ServerInv /\ ToldIsTrue
    BY DEF WriteInv
  <1>2. /\ session \in User /\ b \in Batch /\ b.id = nextBatchId
        /\ b.write \in InMemory /\ owner[b.write] = session /\ b.write <= made
        /\ disk'[session] = Append(disk[session], b)
        /\ \A u \in User : u # session => disk'[u] = disk[u]
        /\ k \in DOMAIN disk'[session] /\ disk'[session][k] = b
    BY <1>1, PersistFacts
  <1>3. /\ \A u \in User : \A i \in DOMAIN disk[u] :
               i \in DOMAIN disk'[u] /\ disk'[u][i] = disk[u][i]
        /\ \A u \in User : \A i \in DOMAIN disk'[u] :
               \/ i \in DOMAIN disk[u] /\ disk'[u][i] = disk[u][i]
               \/ u = session /\ disk'[u][i] = b
        /\ \A u \in User : \A i \in DOMAIN disk[u] :
               disk[u][i].id < b.id /\ disk[u][i].write < b.write
    BY <1>1, PersistFacts
  <1>4. /\ \A i \in WriteTasks(worker') : /\ i \in Nat /\ i + 1 \in WriteTasks(worker)
                                          /\ worker'[i] = worker[i + 1]
                                          /\ b.write < worker'[i].write
        /\ InMemory' = InMemory \ {b.write}
        /\ OnDisk' = OnDisk \cup {b.write}
    BY <1>1, PersistFacts
  <1>5. /\ nextBatchId' = nextBatchId + 1 /\ nextBatchId \in Nat
        /\ made' = made /\ owner' = owner /\ outcome' = outcome /\ told' = told
        /\ document' = document /\ verdict' = verdict
        /\ callbacks' \subseteq callbacks
              \cup {[user |-> session, id |-> nextBatchId, write |-> b.write]}
    BY DEF PersistWrite, TypeOK, history, serverVars
  <1> HIDE DEF b, k
  <1>6. QueueInv'
    <2>1. ASSUME NEW u \in User PROVE GrowingIds(disk'[u]) /\ GrowingWrites(disk'[u])
      <3>1. CASE u = session
        <4>1. /\ disk[session] \in Seq(Batch)
              /\ GrowingIds(disk[session]) /\ GrowingWrites(disk[session])
              /\ \A i \in DOMAIN disk[session] :
                     disk[session][i].id < b.id /\ disk[session][i].write < b.write
          BY <1>1, <1>2, <1>3, DiskFacts DEF QueueInv
        <4>2. /\ GrowingIds(Append(disk[session], b))
              /\ GrowingWrites(Append(disk[session], b))
          BY <1>2, <4>1, AppendBatch
        <4> QED BY <1>2, <3>1, <4>2
      <3>2. CASE u # session
        BY <1>1, <1>2, <3>2 DEF QueueInv
      <3> QED BY <3>1, <3>2
    <2>2. ASSUME NEW u \in User, NEW i \in DOMAIN disk'[u]
          PROVE  /\ disk'[u][i].id < nextBatchId'
                 /\ disk'[u][i].write <= made'
                 /\ owner'[disk'[u][i].write] = u
                 /\ \A j \in WriteTasks(worker') : disk'[u][i].write < worker'[j].write
      <3>1. CASE i \in DOMAIN disk[u] /\ disk'[u][i] = disk[u][i]
        <4>1. disk[u][i].id \in Nat
          BY <3>1, DiskFacts
        <4>2. /\ disk[u][i].id < nextBatchId /\ disk[u][i].write <= made
              /\ owner[disk[u][i].write] = u
              /\ \A j \in WriteTasks(worker) : disk[u][i].write < worker[j].write
          BY <1>1, <3>1 DEF QueueInv
        <4>3. disk[u][i].id < nextBatchId + 1
          BY <1>5, <4>1, <4>2
        <4> QED BY <1>4, <1>5, <3>1, <4>2, <4>3
      <3>2. CASE u = session /\ disk'[u][i] = b
        <4>1. b.id < nextBatchId + 1
          BY <1>2, <1>5
        <4> QED BY <1>2, <1>4, <1>5, <3>2, <4>1
      <3> QED BY <1>3, <3>1, <3>2
    <2>3. ASSUME NEW i \in WriteTasks(worker')
          PROVE  /\ worker'[i].write <= made'
                 /\ \A j \in WriteTasks(worker') : i < j => worker'[i].write < worker'[j].write
      <3>1. worker'[i].write <= made'
        BY <1>1, <1>4, <1>5 DEF QueueInv
      <3>2. ASSUME NEW j \in WriteTasks(worker'), i < j
            PROVE  worker'[i].write < worker'[j].write
        <4>1. i + 1 < j + 1
          BY <1>4, <3>2
        <4> QED BY <1>1, <1>4, <4>1 DEF QueueInv
      <3> QED BY <3>1, <3>2
    <2> QED BY <2>1, <2>2, <2>3 DEF QueueInv
  <1>7. OutcomeInv'
    <2>1. \A w \in Write : (w \in InMemory' \/ w \in OnDisk') <=> Waits(w)
      BY <1>2, <1>4 DEF Waits
    <2> QED BY <1>1, <1>5, <2>1, OutcomeStays
  <1>8. ServerInv'
    BY <1>1, <1>3, <1>4, <1>5, ServerStays
  <1>9. ToldIsTrue'
    <2>1. AcceptedWasApplied' /\ RejectedForRefusal'
      BY <1>1, <1>5 DEF ToldIsTrue, AcceptedWasApplied, RejectedForRefusal
    <2>2. ASSUME NEW c \in callbacks'
          PROVE  [id |-> c.id, write |-> c.write] \in ToSet(disk'[c.user])
      <3>1. CASE c \in callbacks
        <4>1. c.user \in User /\ [id |-> c.id, write |-> c.write] \in ToSet(disk[c.user])
          BY <1>1, <3>1 DEF ToldIsTrue, CallbackIsOwn, TypeOK
        <4>2. ToSet(disk[c.user]) \subseteq ToSet(disk'[c.user])
          BY <1>3, <4>1 DEF ToSet
        <4> QED BY <4>1, <4>2
      <3>2. CASE c = [user |-> session, id |-> nextBatchId, write |-> b.write]
        <4>1. b = [id |-> b.id, write |-> b.write]
          BY <1>2 DEF Batch
        <4>2. b \in ToSet(disk'[session])
          BY <1>2 DEF ToSet
        <4> QED BY <1>2, <3>2, <4>1, <4>2
      <3> QED BY <1>5, <3>1, <3>2
    <2>3. \A w \in Write : told'[w] # "none" => told'[w] = outcome'[w]
      BY <1>1, <1>5 DEF ToldIsTrue, CallbackIsOwn
    <2> QED BY <2>1, <2>2, <2>3 DEF ToldIsTrue, CallbackIsOwn
  <1> QED BY <1>6, <1>7, <1>8, <1>9 DEF WriteInv

\* What is in memory is lost with the process.
LEMMA RestartWrites ==
  ASSUME TypeOK, TypeOK', WriteInv, stream'.answers = <<>>, Restart
  PROVE  WriteInv'
  <1>1. QueueInv /\ OutcomeInv /\ ServerInv /\ ToldIsTrue
    BY DEF WriteInv
  <1>2. /\ worker' = <<>> /\ disk' = disk /\ nextBatchId' = LoadNextBatchId(disk)
        /\ callbacks' = {} /\ made' = made /\ owner' = owner /\ told' = told
        /\ document' = document /\ verdict' = verdict
        /\ outcome' = [w \in Write |-> IF w \in InMemory THEN "lost" ELSE outcome[w]]
    BY DEF Restart, serverVars
  <1>3. WriteTasks(worker') = {}
    BY <1>2 DEF WriteTasks
  <1>4. InMemory' = {} /\ OnDisk' = OnDisk
    <2>1. InMemory' = {}
      BY <1>3, InMemoryFacts
    <2> QED BY <1>2, <2>1 DEF OnDisk
  <1>5. \A w \in Write : outcome'[w] = IF w \in InMemory THEN "lost" ELSE outcome[w]
    BY <1>2
  <1>6. QueueInv'
    <2>1. \A u \in User : \A i \in DOMAIN disk[u] : disk[u][i].id < nextBatchId'
      BY <1>1, <1>2, NextIdFacts
    <2>2. 0 \in {0, 1} /\ \A i \in WriteTasks(worker') :
              /\ i \in Nat /\ i + 0 \in WriteTasks(worker) /\ worker'[i] = worker[i + 0]
      BY <1>3
    <2> QED BY <1>1, <1>2, <2>1, <2>2, QueueStays
  <1>7. \A w \in Write : w \in InMemory => w <= made /\ outcome[w] = "none" /\ w \notin OnDisk
    <2>1. ASSUME NEW w \in Write, w \in InMemory
          PROVE  w <= made /\ outcome[w] = "none" /\ w \notin OnDisk
      <3>1. w <= made /\ (w \in OnDisk => w < w)
        BY <1>1, <2>1, DiskIsOlder
      <3>2. ~(w < w)
        BY DEF Write
      <3> QED BY <1>1, <2>1, <3>1, <3>2 DEF OutcomeInv, Waits
    <2> QED BY <2>1
  <1>8. OutcomeInv'
    <2>1. ASSUME NEW w \in Write
          PROVE  outcome'[w] = "none" <=> w > made' \/ w \in OnDisk'
      <3>1. w \in InMemory => ~(w > made)
        BY <1>7 DEF Write, TypeOK
      <3>2. outcome[w] = "none" <=> w > made \/ w \in InMemory \/ w \in OnDisk
        BY <1>1 DEF OutcomeInv, Waits
      <3> QED BY <1>2, <1>4, <1>5, <1>7, <3>1, <3>2
    <2>2. ASSUME NEW v \in Write, NEW w \in Write,
                 v < w, owner'[v] = owner'[w], outcome'[w] \in Outcome
          PROVE  v \notin OnDisk'
      <3>1. outcome[w] \in Outcome
        BY <1>5, <2>2 DEF Outcome
      <3> QED BY <1>1, <1>2, <1>4, <2>2, <3>1 DEF OutcomeInv, Waits
    <2> QED BY <1>4, <2>1, <2>2 DEF OutcomeInv, Waits
  <1>9. ServerInv'
    <2>1. \A u \in User : Newest(u)' = Newest(u)
      BY <1>2 DEF Newest, Applied
    <2>2. DOMAIN stream'.answers = {}
      OBVIOUS
    <2>3. \A w \in Write : verdict'[w] # "none" => w <= made' /\ outcome'[w] # "lost"
      BY <1>1, <1>2, <1>5 DEF ServerInv
    <2> QED BY <1>1, <1>2, <1>4, <2>1, <2>2, <2>3 DEF ServerInv
  <1>10. ToldIsTrue'
    <2>1. ASSUME NEW w \in Write, told'[w] # "none" PROVE told'[w] = outcome'[w]
      <3>1. told[w] = outcome[w] /\ outcome[w] # "none"
        BY <1>1, <1>2, <2>1 DEF ToldIsTrue, CallbackIsOwn
      <3> QED BY <1>2, <1>5, <1>7, <3>1
    <2>2. \A w \in Write : outcome'[w] \in Outcome => outcome'[w] = outcome[w]
      BY <1>5 DEF Outcome
    <2>3. AcceptedWasApplied' /\ RejectedForRefusal'
      BY <1>1, <1>2, <2>2 DEF ToldIsTrue, AcceptedWasApplied, RejectedForRefusal, Outcome
    <2> QED BY <1>2, <2>1, <2>3 DEF ToldIsTrue, CallbackIsOwn
  <1> QED BY <1>6, <1>8, <1>9, <1>10 DEF WriteInv

(***************************************************************************)
(* A write is answered.                                                    *)
(***************************************************************************)

\* What Conclude does: the oldest write of the account in use leaves the disk.
LEMMA ConcludeFacts ==
  ASSUME TypeOK, QueueInv, RemoteInv, stream.answers # <<>>, NEW result,
         Conclude(Head(pipeline), result), NEW b, b = disk[session][1]
  PROVE  /\ session \in User /\ b \in Batch /\ b.write \in OnDisk
         /\ owner[b.write] = session /\ b.write <= made
         /\ 1 \in DOMAIN disk[session] /\ Head(pipeline) = b
         /\ 1 \in DOMAIN stream.answers /\ b.write = stream.answers[1].write
         /\ \A j \in DOMAIN disk[session] :
                j # 1 => b.id < disk[session][j].id /\ b.write < disk[session][j].write
         /\ disk'[session] = Tail(disk[session])
         /\ \A u \in User : u # session => disk'[u] = disk[u]
         /\ \A u \in User : \A i \in DOMAIN disk'[u] :
                \E j \in DOMAIN disk[u] : /\ disk'[u][i] = disk[u][j]
                                          /\ u = session => j # 1
         /\ \A u \in User : \A j \in DOMAIN disk[u] :
                u # session \/ j # 1 => \E i \in DOMAIN disk'[u] : disk'[u][i] = disk[u][j]
         /\ OnDisk' = OnDisk \ {b.write}
  <1> DEFINE q == disk[session]
             n == Len(q)
  <1>1. /\ q # <<>> /\ b \in Batch /\ Head(pipeline) = b
        /\ b.write = stream.answers[1].write
        /\ disk'[session] = Tail(q)
        /\ \A u \in User : u # session => disk'[u] = disk[u]
    BY ConcludeDisk
  <1>2. session \in User /\ q \in Seq(Batch) /\ GrowingIds(q) /\ GrowingWrites(q)
    BY PipelineFacts
  <1>3. 1 \in DOMAIN stream.answers
    <2>1. stream.answers \in Seq([write : Write, result : Outcome])
      BY PipelineFacts, StreamFacts
    <2>2. /\ DOMAIN stream.answers = 1 .. Len(stream.answers)
          /\ Len(stream.answers) \in Nat \ {0}
      BY <2>1, HeadTask
    <2> QED BY <2>2
  <1> HIDE DEF q
  <1>4. /\ n \in Nat \ {0} /\ DOMAIN q = 1 .. n
        /\ DOMAIN Tail(q) = 1 .. n - 1
        /\ \A i \in 1 .. n - 1 : Tail(q)[i] = q[i + 1]
    BY <1>1, <1>2, HeadTask
  <1> HIDE DEF n
  <1>5. /\ 1 \in 1 .. n
        /\ \A i \in 1 .. n - 1 : i + 1 \in 1 .. n /\ i + 1 # 1
        /\ \A j \in 1 .. n : j # 1 => j - 1 \in 1 .. n - 1 /\ (j - 1) + 1 = j /\ 1 < j
    BY <1>4
  <1>6. b = q[1]
    BY DEF q
  <1>7. \A j \in DOMAIN q : j # 1 => b.id < q[j].id /\ b.write < q[j].write
    BY <1>2, <1>4, <1>5, <1>6 DEF GrowingIds, GrowingWrites
  <1>8. \A u \in User : \A i \in DOMAIN disk'[u] :
            \E j \in DOMAIN disk[u] : disk'[u][i] = disk[u][j] /\ (u = session => j # 1)
    <2>1. \A i \in DOMAIN Tail(q) : \E j \in DOMAIN q : Tail(q)[i] = q[j] /\ j # 1
      BY <1>4, <1>5
    <2>2. ASSUME NEW u \in User, NEW i \in DOMAIN disk'[u]
          PROVE  \E j \in DOMAIN disk[u] : disk'[u][i] = disk[u][j] /\ (u = session => j # 1)
      <3>1. CASE u = session
        <4>1. disk'[u] = Tail(q) /\ disk[u] = q
          BY <1>1, <3>1 DEF q
        <4>2. PICK j \in DOMAIN q : Tail(q)[i] = q[j] /\ j # 1
          BY <2>1, <2>2, <4>1
        <4> QED BY <4>1, <4>2
      <3>2. CASE u # session
        BY <1>1, <2>2, <3>2
      <3> QED BY <3>1, <3>2
    <2> QED BY <2>2
  <1>9. \A u \in User : \A j \in DOMAIN disk[u] :
            u # session \/ j # 1 => \E i \in DOMAIN disk'[u] : disk'[u][i] = disk[u][j]
    <2>1. \A j \in DOMAIN q : j # 1 => \E i \in DOMAIN Tail(q) : Tail(q)[i] = q[j]
      <3> SUFFICES ASSUME NEW j \in DOMAIN q, j # 1
                   PROVE  \E i \in DOMAIN Tail(q) : Tail(q)[i] = q[j]
        OBVIOUS
      <3>1. j - 1 \in 1 .. n - 1 /\ (j - 1) + 1 = j
        BY <1>4, <1>5
      <3>2. j - 1 \in DOMAIN Tail(q) /\ Tail(q)[j - 1] = q[j]
        BY <1>4, <3>1
      <3> QED BY <3>2
    <2>2. ASSUME NEW u \in User, NEW j \in DOMAIN disk[u], u # session \/ j # 1
          PROVE  \E i \in DOMAIN disk'[u] : disk'[u][i] = disk[u][j]
      <3>1. CASE u = session
        BY <1>1, <2>1, <2>2, <3>1 DEF q
      <3>2. CASE u # session
        BY <1>1, <2>2, <3>2
      <3> QED BY <3>1, <3>2
    <2> QED BY <2>2
  <1>10. /\ 1 \in DOMAIN disk[session] /\ disk[session][1] = b
    BY <1>4, <1>5 DEF q
  <1>11. /\ b.write \in OnDisk /\ owner[b.write] = session /\ b.write <= made
    BY <1>2, <1>10, OnDiskFacts DEF QueueInv
  <1>12. OnDisk' = OnDisk \ {b.write}
    <2>1. ASSUME NEW w \in OnDisk' PROVE w \in OnDisk /\ w # b.write
      <3>1. PICK u \in User : \E i \in DOMAIN disk'[u] : disk'[u][i].write = w
        BY OnDiskFacts
      <3>2. PICK j \in DOMAIN disk[u] : disk[u][j].write = w /\ (u = session => j # 1)
        BY <1>8, <3>1
      <3>3. w \in OnDisk /\ owner[w] = u
        BY <3>2, OnDiskFacts DEF QueueInv
      <3>4. CASE u = session
        <4>1. b.write < w
          BY <1>7, <3>2, <3>4 DEF q
        <4>2. b.write \in Nat
          BY <1>1 DEF Batch, Write
        <4> QED BY <3>3, <4>1, <4>2
      <3>5. CASE u # session
        BY <1>11, <3>3, <3>5
      <3> QED BY <3>4, <3>5
    <2>2. ASSUME NEW w \in OnDisk, w # b.write PROVE w \in OnDisk'
      <3>1. PICK u \in User : \E j \in DOMAIN disk[u] : disk[u][j].write = w
        BY OnDiskFacts
      <3>2. PICK j \in DOMAIN disk[u] : disk[u][j].write = w
        BY <3>1
      <3>3. u # session \/ j # 1
        BY <1>10, <2>2, <3>2
      <3>4. \E i \in DOMAIN disk'[u] : disk'[u][i] = disk[u][j]
        BY <1>9, <3>2, <3>3
      <3> QED BY <3>2, <3>4, OnDiskFacts
    <2> QED BY <2>1, <2>2
  <1> QED BY <1>1, <1>2, <1>3, <1>7, <1>8, <1>9, <1>10, <1>11, <1>12 DEF q

\* The answers behind the first one.
LEMMA LaterAnswers ==
  ASSUME TypeOK, QueueInv, RemoteInv, stream.answers # <<>>,
         stream'.answers = Tail(stream.answers) \/ stream'.answers = <<>>
  PROVE  \A i \in DOMAIN stream'.answers :
             /\ i + 1 \in DOMAIN stream.answers
             /\ stream'.answers[i] = stream.answers[i + 1]
             /\ i + 1 = Len(stream.answers) => i = Len(stream'.answers)
  <1> DEFINE a == stream.answers
             n == Len(a)
  <1>1. a \in Seq([write : Write, result : Outcome]) /\ a # <<>>
    BY PipelineFacts, StreamFacts
  <1> HIDE DEF a
  <1>2. /\ n \in Nat \ {0} /\ DOMAIN a = 1 .. n
        /\ Len(Tail(a)) = n - 1 /\ DOMAIN Tail(a) = 1 .. n - 1
        /\ \A i \in 1 .. n - 1 : Tail(a)[i] = a[i + 1]
    BY <1>1, HeadTask
  <1> HIDE DEF n
  <1>3. \A i \in 1 .. n - 1 : i + 1 \in 1 .. n /\ (i + 1 = n => i = n - 1)
    BY <1>2
  <1>4. \A i \in DOMAIN Tail(a) : /\ i + 1 \in DOMAIN a /\ Tail(a)[i] = a[i + 1]
                                  /\ i + 1 = n => i = Len(Tail(a))
    BY <1>2, <1>3
  <1>5. CASE stream'.answers = Tail(stream.answers)
    BY <1>4, <1>5 DEF a, n
  <1>6. CASE stream'.answers = <<>>
    BY <1>6
  <1> QED BY <1>5, <1>6

\* The answer is for the write that leaves; a refusal may blame it for another.
Blames(w, result) ==
    \/ verdict[w] = result
    \/ /\ result = "rejected" /\ verdict[w] = "accepted"
       /\ \E v \in Write : v > w /\ owner[v] = owner[w] /\ verdict[v] = "rejected"

LEMMA ConcludeWrites ==
  ASSUME TypeOK, TypeOK', RemoteInv, WriteInv, stream.answers # <<>>,
         NEW result \in Outcome, Conclude(Head(pipeline), result),
         Blames(disk[session][1].write, result),
         worker' = worker, document' = document, verdict' = verdict,
         stream'.answers = Tail(stream.answers) \/ stream'.answers = <<>>
  PROVE  WriteInv'
  <1> DEFINE b == disk[session][1]
             called == {c \in callbacks : c.user = session /\ c.id = b.id}
  <1>1. QueueInv /\ OutcomeInv /\ ServerInv /\ ToldIsTrue
    BY DEF WriteInv
  <1>2. /\ session \in User /\ b \in Batch /\ b.write \in OnDisk
        /\ owner[b.write] = session /\ b.write <= made
        /\ 1 \in DOMAIN disk[session] /\ Head(pipeline) = b
        /\ 1 \in DOMAIN stream.answers /\ b.write = stream.answers[1].write
        /\ \A j \in DOMAIN disk[session] :
               j # 1 => b.id < disk[session][j].id /\ b.write < disk[session][j].write
    BY <1>1, ConcludeFacts
  <1>3. /\ disk'[session] = Tail(disk[session])
        /\ \A u \in User : u # session => disk'[u] = disk[u]
        /\ \A u \in User : \A i \in DOMAIN disk'[u] :
               \E j \in DOMAIN disk[u] : /\ disk'[u][i] = disk[u][j]
                                         /\ u = session => j # 1
        /\ \A u \in User : \A j \in DOMAIN disk[u] :
               u # session \/ j # 1 => \E i \in DOMAIN disk'[u] : disk'[u][i] = disk[u][j]
        /\ OnDisk' = OnDisk \ {b.write}
    BY <1>1, ConcludeFacts
  <1>4. /\ callbacks' = callbacks \ called
        /\ told' = [w \in Write |-> IF \E c \in called : c.write = w
                                   THEN result ELSE told[w]]
        /\ outcome' = [outcome EXCEPT ![b.write] = result]
        /\ nextBatchId' = nextBatchId /\ made' = made /\ owner' = owner
    BY <1>2 DEF Conclude
  <1>5. b.write \in Write /\ b.write \in Nat /\ b.id \in Nat /\ b = [id |-> b.id, write |-> b.write]
    BY <1>2 DEF Batch, Write
  <1>6. Blames(b.write, result) /\ disk[session][1] = b
    OBVIOUS
  <1> HIDE DEF b
  <1>7. /\ outcome'[b.write] = result
        /\ \A w \in Write : w # b.write => outcome'[w] = outcome[w]
    BY <1>4, <1>5 DEF TypeOK
  <1>8. InMemory' = InMemory
    BY DEF InMemory
  <1>9. \A v \in InMemory : b.write < v
    BY <1>1, <1>2, DiskIsOlder
  <1>10. \A v \in OnDisk : v # b.write /\ owner[v] = session => b.write < v
    <2> SUFFICES ASSUME NEW v \in OnDisk, v # b.write, owner[v] = session
                 PROVE  b.write < v
      OBVIOUS
    <2>1. PICK i \in DOMAIN disk[session] : disk[session][i].write = v
      BY <1>1, DiskIsOlder
    <2>2. i # 1
      BY <1>6, <2>1
    <2> QED BY <1>2, <2>1, <2>2
  <1>11. outcome[b.write] = "none"
    BY <1>1, <1>2, <1>5 DEF OutcomeInv, Waits
  <1>12. QueueInv'
    <2>1. ASSUME NEW u \in User PROVE GrowingIds(disk'[u]) /\ GrowingWrites(disk'[u])
      <3>1. CASE u = session
        <4>1. /\ disk[session] \in Seq(Batch) /\ disk[session] # <<>>
              /\ GrowingIds(disk[session]) /\ GrowingWrites(disk[session])
          BY <1>1, <1>2, DiskFacts DEF QueueInv
        <4> QED BY <1>3, <3>1, <4>1, TailOfFront
      <3>2. CASE u # session
        BY <1>1, <1>3, <3>2 DEF QueueInv
      <3> QED BY <3>1, <3>2
    <2>2. ASSUME NEW u \in User, NEW i \in DOMAIN disk'[u]
          PROVE  /\ disk'[u][i].id < nextBatchId'
                 /\ disk'[u][i].write <= made'
                 /\ owner'[disk'[u][i].write] = u
                 /\ \A j \in WriteTasks(worker') : disk'[u][i].write < worker'[j].write
      <3>1. PICK j \in DOMAIN disk[u] : disk'[u][i] = disk[u][j]
        BY <1>3, <2>2
      <3> QED BY <1>1, <1>4, <3>1 DEF QueueInv
    <2>3. ASSUME NEW i \in WriteTasks(worker')
          PROVE  /\ worker'[i].write <= made'
                 /\ \A j \in WriteTasks(worker') : i < j => worker'[i].write < worker'[j].write
      BY <1>1, <1>4 DEF QueueInv
    <2> QED BY <2>1, <2>2, <2>3 DEF QueueInv
  <1>13. OutcomeInv'
    <2>1. ASSUME NEW w \in Write
          PROVE  outcome'[w] = "none" <=> w > made' \/ w \in InMemory' \/ w \in OnDisk'
      <3>1. CASE w = b.write
        <4>1. outcome'[w] # "none" /\ w \notin OnDisk'
          <5>1. result # "none"
            BY DEF Outcome
          <5>2. outcome'[w] = result
            BY <1>7, <3>1
          <5> QED BY <1>3, <3>1, <5>1, <5>2
        <4>2. ~(w > made) /\ ~(b.write < b.write)
          <5>1. made \in Nat
            BY DEF TypeOK
          <5> QED BY <1>2, <1>5, <3>1, <5>1
        <4> QED BY <1>4, <1>8, <1>9, <3>1, <4>1, <4>2
      <3>2. CASE w # b.write
        BY <1>1, <1>3, <1>4, <1>7, <1>8, <3>2 DEF OutcomeInv, Waits
      <3> QED BY <3>1, <3>2
    <2>2. ASSUME NEW v \in Write, NEW w \in Write,
                 v < w, owner'[v] = owner'[w], outcome'[w] \in Outcome
          PROVE  v \notin InMemory' /\ v \notin OnDisk'
      <3>1. CASE w = b.write
        <4>1. ~(b.write < v)
          BY <1>5, <2>2, <3>1 DEF Write
        <4>2. v \notin InMemory'
          BY <1>8, <1>9, <4>1
        <4>3. v \in OnDisk => v = b.write
          BY <1>2, <1>4, <1>10, <2>2, <3>1, <4>1
        <4> QED BY <1>3, <4>2, <4>3
      <3>2. CASE w # b.write
        BY <1>1, <1>3, <1>4, <1>7, <1>8, <2>2, <3>2 DEF OutcomeInv, Waits
      <3> QED BY <3>1, <3>2
    <2> QED BY <2>1, <2>2 DEF OutcomeInv, Waits
  <1>14. ServerInv'
    <2>1. \A u \in User : Newest(u)' = Newest(u)
      BY <1>4 DEF Newest, Applied
    <2>2. \A i \in DOMAIN stream'.answers :
              /\ i + 1 \in DOMAIN stream.answers
              /\ stream'.answers[i] = stream.answers[i + 1]
              /\ i + 1 = Len(stream.answers) => i = Len(stream'.answers)
      BY <1>1, LaterAnswers
    <2>3. \A i \in DOMAIN stream'.answers :
              /\ verdict'[stream'.answers[i].write] = stream'.answers[i].result
              /\ stream'.answers[i].result = "rejected" => i = Len(stream'.answers)
      BY <1>1, <2>2 DEF ServerInv
    <2>4. \A w \in Write : verdict'[w] # "none" =>
              w <= made' /\ w \notin InMemory' /\ outcome'[w] # "lost"
      <3>1. result # "lost"
        BY DEF Outcome
      <3> QED BY <1>1, <1>4, <1>7, <1>8, <3>1 DEF ServerInv
    <2>5. ASSUME NEW u \in User, document[u] # Newest(u)
          PROVE  /\ \E i \in DOMAIN disk'[u] : disk'[u][i].write = Newest(u)
                 /\ \A i \in DOMAIN stream'.answers : stream'.answers[i].write # Newest(u)
      <3>1. /\ \E i \in DOMAIN disk[u] : disk[u][i].write = Newest(u)
            /\ \A i \in DOMAIN stream.answers : stream.answers[i].write # Newest(u)
        BY <1>1, <2>5 DEF ServerInv
      <3>2. PICK j \in DOMAIN disk[u] : disk[u][j].write = Newest(u)
        BY <3>1
      <3>3. u # session \/ j # 1
        BY <1>2, <1>6, <3>1, <3>2
      <3>4. PICK i \in DOMAIN disk'[u] : disk'[u][i] = disk[u][j]
        BY <1>3, <3>3
      <3> QED BY <2>2, <3>1, <3>2, <3>4
    <2> QED BY <2>1, <2>3, <2>4, <2>5 DEF ServerInv
  <1>15. ToldIsTrue'
    <2>1. ASSUME NEW w \in Write, told'[w] # "none" PROVE told'[w] = outcome'[w]
      <3>1. CASE \E c \in called : c.write = w
        <4>1. PICK c \in called : c.write = w
          BY <3>1
        <4>2. [id |-> b.id, write |-> w] \in ToSet(disk[session])
          BY <1>1, <4>1 DEF ToldIsTrue, CallbackIsOwn
        <4>3. PICK j \in DOMAIN disk[session] : disk[session][j] = [id |-> b.id, write |-> w]
          BY <4>2 DEF ToSet
        <4>4. ~(b.id < disk[session][j].id)
          BY <1>5, <4>3
        <4>5. j = 1
          BY <1>2, <4>3, <4>4
        <4>6. w = b.write
          BY <1>6, <4>3, <4>5
        <4> QED BY <1>4, <1>7, <3>1, <4>6
      <3>2. CASE ~\E c \in called : c.write = w
        <4>1. told'[w] = told[w] /\ told[w] = outcome[w]
          BY <1>1, <1>4, <2>1, <3>2 DEF ToldIsTrue, CallbackIsOwn
        <4>2. w # b.write
          BY <1>11, <2>1, <4>1
        <4> QED BY <1>7, <4>1, <4>2
      <3> QED BY <3>1, <3>2
    <2>2. ASSUME NEW c \in callbacks'
          PROVE  [id |-> c.id, write |-> c.write] \in ToSet(disk'[c.user])
      <3>1. /\ c.user \in User /\ [id |-> c.id, write |-> c.write] \in ToSet(disk[c.user])
            /\ c.user # session \/ c.id # b.id
        BY <1>1, <1>4 DEF ToldIsTrue, CallbackIsOwn, TypeOK
      <3>2. PICK j \in DOMAIN disk[c.user] :
                disk[c.user][j] = [id |-> c.id, write |-> c.write]
        BY <3>1 DEF ToSet
      <3>3. c.user # session \/ j # 1
        BY <1>6, <3>1, <3>2
      <3>4. \E i \in DOMAIN disk'[c.user] : disk'[c.user][i] = disk[c.user][j]
        BY <1>3, <3>1, <3>2, <3>3
      <3> QED BY <3>2, <3>4 DEF ToSet
    <2>3. ASSUME NEW w \in Write, outcome'[w] = "accepted" PROVE verdict'[w] = "accepted"
      <3>1. CASE w = b.write
        BY <1>6, <1>7, <2>3, <3>1 DEF Blames
      <3>2. CASE w # b.write
        BY <1>1, <1>7, <2>3, <3>2 DEF ToldIsTrue, AcceptedWasApplied
      <3> QED BY <3>1, <3>2
    <2>4. ASSUME NEW w \in Write, outcome'[w] = "rejected"
          PROVE  \/ verdict'[w] = "rejected"
                 \/ /\ verdict'[w] = "accepted"
                    /\ \E v \in Write : /\ v > w /\ owner'[v] = owner'[w]
                                        /\ verdict'[v] = "rejected"
      <3>1. CASE w = b.write
        BY <1>4, <1>6, <1>7, <2>4, <3>1 DEF Blames
      <3>2. CASE w # b.write
        BY <1>1, <1>4, <1>7, <2>4, <3>2 DEF ToldIsTrue, RejectedForRefusal
      <3> QED BY <3>1, <3>2
    <2> QED BY <2>1, <2>2, <2>3, <2>4
            DEF ToldIsTrue, CallbackIsOwn, AcceptedWasApplied, RejectedForRefusal
  <1> QED BY <1>12, <1>13, <1>14, <1>15 DEF WriteInv

\* ReadAnswer: the first answer is that the server has accepted its write.
LEMMA AnswerWrites ==
  ASSUME TypeOK, TypeOK', RemoteInv, WriteInv,
         stream'.answers = Tail(stream.answers), ReadAnswer
  PROVE  WriteInv'
  <1>1. /\ stream.answers # <<>> /\ Head(stream.answers).result = "accepted"
        /\ Conclude(Head(pipeline), "accepted")
        /\ worker' = worker /\ document' = document /\ verdict' = verdict
    BY DEF ReadAnswer, serverVars
  <1>2. QueueInv /\ ServerInv
    BY DEF WriteInv
  <1>3. 1 \in DOMAIN stream.answers /\ disk[session][1].write = stream.answers[1].write
    BY <1>1, <1>2, ConcludeFacts
  <1>4. stream.answers[1].result = "accepted"
    <2>1. stream.answers \in Seq([write : Write, result : Outcome])
      BY <1>2, PipelineFacts, StreamFacts
    <2> QED BY <1>1, <2>1, HeadTask
  <1>5. Blames(disk[session][1].write, "accepted")
    BY <1>2, <1>3, <1>4 DEF Blames, ServerInv
  <1> QED BY <1>1, <1>5, ConcludeWrites DEF Outcome

\* ReadRefusal: an error is taken for a refusal of the head of the pipeline,
\* which it is unless an answer before it was dropped.
LEMMA RefusalWrites ==
  ASSUME TypeOK, TypeOK', RemoteInv, WriteInv, stream'.answers = <<>>, ReadRefusal
  PROVE  WriteInv'
  <1> DEFINE a == stream.answers
             n == Len(a)
             b == disk[session][1]
  <1>1. /\ a # <<>> /\ Last(a).result = "rejected"
        /\ Conclude(Head(pipeline), "rejected")
        /\ worker' = worker /\ document' = document /\ verdict' = verdict
    BY DEF ReadRefusal, Refused, serverVars
  <1>2. QueueInv /\ ServerInv
    BY DEF WriteInv
  <1>3. /\ 1 \in DOMAIN a /\ b.write = a[1].write /\ owner[b.write] = session
        /\ session \in User
        /\ \A j \in DOMAIN disk[session] : j # 1 => b.write < disk[session][j].write
    BY <1>1, <1>2, ConcludeFacts
  <1>4. /\ pipeline \in Seq(Batch) /\ StreamOK(stream, pipeline, session)
        /\ stream \in WriteStream
        /\ \A i \in 1 .. Len(pipeline) : pipeline[i] = disk[session][i]
        /\ Len(pipeline) = Room(disk[session])
        /\ Room(disk[session]) \in 0 .. Len(disk[session])
    BY <1>2, PipelineFacts
  <1>5. /\ n \in Nat \ {0} /\ n <= Len(pipeline)
        /\ \A i \in 1 .. n : a[i].write = pipeline[i].write
    BY <1>1, <1>4, FirstAnswer
  <1>6. a \in Seq([write : Write, result : Outcome]) /\ DOMAIN a = 1 .. n
    BY <1>4, StreamFacts, LenProperties
  <1>7. DOMAIN disk[session] = 1 .. Len(disk[session]) /\ Len(disk[session]) \in Nat
    BY <1>3, DiskFacts
  <1> HIDE DEF a, n, b
  <1>8. a[n].result = "rejected"
    BY <1>1 DEF Last, n
  <1>9. n \in 1 .. n /\ n \in 1 .. Len(pipeline) /\ n \in DOMAIN disk[session]
    BY <1>4, <1>5, <1>7
  <1>10. a[n].write = disk[session][n].write /\ verdict[a[n].write] = "rejected"
    <2>1. a[n].write = disk[session][n].write
      BY <1>4, <1>5, <1>9
    <2>2. verdict[a[n].write] = "rejected"
      BY <1>2, <1>6, <1>8, <1>9 DEF ServerInv, a
    <2> QED BY <2>1, <2>2
  <1>11. Blames(b.write, "rejected")
    <2>1. CASE n = 1
      BY <1>3, <1>10, <2>1 DEF Blames
    <2>2. CASE n # 1
      <3>1. verdict[b.write] = a[1].result /\ a[1].result \in Outcome
        <4>1. verdict[a[1].write] = a[1].result
          BY <1>2, <1>3 DEF ServerInv, a
        <4>2. a[1] \in [write : Write, result : Outcome]
          BY <1>3, <1>6, ElementOfSeq DEF n
        <4> QED BY <1>3, <4>1, <4>2
      <3>2. b.write < disk[session][n].write
        BY <1>3, <1>9, <2>2
      <3>3. disk[session][n].write \in Write /\ b.write \in Write
        BY <1>3, <1>7, <1>9, <1>10, DiskFacts DEF b
      <3>4. owner[disk[session][n].write] = session
        BY <1>2, <1>3, <1>9 DEF QueueInv
      <3>5. disk[session][n].write > b.write
        BY <3>2, <3>3 DEF Write
      <3> QED BY <1>3, <1>10, <3>1, <3>3, <3>4, <3>5 DEF Blames, Outcome
    <2> QED BY <2>1, <2>2
  <1>12. "rejected" \in Outcome
    BY DEF Outcome
  <1> QED BY <1>1, <1>11, <1>12, ConcludeWrites DEF a, b

(***************************************************************************)
(* The server reads a write.                                               *)
(***************************************************************************)

LEMMA NewestFacts ==
  ASSUME NEW T, T \subseteq Write
  PROVE  /\ Max(T \cup {0}) \in T \cup {0} /\ Max(T \cup {0}) \in Nat
         /\ \A w \in T : w <= Max(T \cup {0})
         /\ \A w \in T : (\A v \in T : v <= w) => w = Max(T \cup {0})
  <1> DEFINE X == T \cup {0}
  <1>1. MaxWrites \in Nat /\ \A w \in T : w \in Nat /\ w # 0 /\ w <= MaxWrites
    BY WritesAssumption DEF Write
  <1>2. X \subseteq Nat /\ X # {} /\ \A m \in X : m <= MaxWrites
    BY <1>1
  <1> HIDE DEF X
  <1>3. Max(X) \in X /\ \A m \in X : m <= Max(X)
    BY <1>1, <1>2, MaxOfBounded
  <1>4. Max(X) \in Nat
    BY <1>2, <1>3
  <1>5. ASSUME NEW w \in T, \A v \in T : v <= w PROVE w = Max(X)
    <2>1. w \in X /\ w \in Nat /\ w <= Max(X)
      BY <1>1, <1>3 DEF X
    <2>2. Max(X) <= w
      <3>1. CASE Max(X) \in T
        BY <1>5, <3>1
      <3>2. CASE Max(X) = 0
        BY <2>1, <3>2
      <3> QED BY <1>3, <3>1, <3>2 DEF X
    <2> QED BY <1>4, <2>1, <2>2
  <1> QED BY <1>3, <1>4, <1>5 DEF X

\* A write that is accepted is the newest, or a newer one is still on disk.
LEMMA NewerWaits ==
  ASSUME TypeOK, TypeOK', QueueInv, OutcomeInv, ServerInv,
         NEW v \in OnDisk, NEW w \in Write, v < w, owner[w] = owner[v],
         verdict[w] # "none"
  PROVE  \E i \in DOMAIN disk[owner[w]] : disk[owner[w]][i].write = w
  <1>1. v \in Write /\ Waits(v)
    BY DiskIsOlder DEF Waits
  <1>2. ~(w > made)
    <2>1. w <= made /\ made \in Nat /\ w \in Nat
      BY DEF ServerInv, TypeOK, Write
    <2> QED BY <2>1
  <1>3. w \notin InMemory /\ outcome[w] # "lost"
    BY DEF ServerInv
  <1>4. outcome[w] \notin Outcome
    BY <1>1 DEF OutcomeInv
  <1>5. outcome[w] = "none"
    BY <1>3, <1>4 DEF TypeOK
  <1>6. w \in OnDisk
    BY <1>2, <1>3, <1>5 DEF OutcomeInv, Waits
  <1> QED BY <1>6, DiskIsOlder

LEMMA ServerWrites ==
  ASSUME TypeOK, TypeOK', RemoteInv, WriteInv, stream.sent # <<>>,
         NEW w, w = Head(stream.sent), NEW result \in Outcome, ServerReads(w, result),
         result = "accepted" => document' = [document EXCEPT ![owner[w]] = w],
         result = "rejected" => document' = document
  PROVE  WriteInv'
  <1> DEFINE a == stream.answers
             n == Len(a)
             q == disk[session]
             x == [write |-> w, result |-> result]
  <1>1. QueueInv /\ OutcomeInv /\ ServerInv /\ ToldIsTrue
    BY DEF WriteInv
  <1>2. /\ stream'.answers = Append(a, x) /\ w \in Write
        /\ n + 1 \in DOMAIN q /\ q[n + 1].write = w
        /\ a \in Seq([write : Write, result : Outcome])
        /\ \A i \in DOMAIN a : i \in DOMAIN q /\ i < n + 1 /\ a[i].write = q[i].write
    BY <1>1, ServerRemote
  <1>3. /\ worker' = worker /\ disk' = disk /\ nextBatchId' = nextBatchId
        /\ callbacks' = callbacks /\ made' = made /\ owner' = owner
        /\ outcome' = outcome /\ told' = told /\ session' = session
        /\ verdict[w] \in {"none", result}
        /\ verdict' = [verdict EXCEPT ![w] = result]
        /\ \A i \in DOMAIN a : a[i].result # "rejected"
    BY DEF ServerReads, localVars, history
  <1>4. x \in [write : Write, result : Outcome] /\ x.write = w /\ x.result = result
    BY <1>2
  <1>5. session \in User /\ w \in OnDisk /\ owner[w] = session
    <2>1. session \in User
      BY DEF TypeOK
    <2> QED BY <1>1, <1>2, <2>1, OnDiskFacts DEF QueueInv
  <1> HIDE DEF a, q, x
  <1>6. /\ n \in Nat /\ DOMAIN a = 1 .. n /\ DOMAIN stream'.answers = 1 .. n + 1
        /\ Len(stream'.answers) = n + 1
        /\ \A i \in 1 .. n : stream'.answers[i] = a[i]
        /\ stream'.answers[n + 1] = x
    BY <1>2, <1>4, AppendedTask
  <1> HIDE DEF n
  <1>7. \A i \in 1 .. n + 1 : i \in 1 .. n \/ i = n + 1
    BY <1>6
  <1>8. \A i \in 1 .. n : a[i].write < w
    BY <1>1, <1>2, <1>5, <1>6 DEF QueueInv, GrowingWrites, q
  <1>9. /\ verdict'[w] = result
        /\ \A v \in Write : v # w => verdict'[v] = verdict[v]
    BY <1>2, <1>3 DEF TypeOK
  <1>10. \A v \in Write : verdict[v] # "none" => verdict'[v] = verdict[v]
    BY <1>3, <1>9
  <1>11. /\ InMemory' = InMemory /\ OnDisk' = OnDisk
    BY <1>3 DEF InMemory, OnDisk
  <1>12. w \notin InMemory /\ w <= made /\ outcome[w] = "none"
    <2>1. w \in InMemory => w < w
      BY <1>1, <1>5, DiskIsOlder
    <2>2. ~(w < w)
      BY <1>2 DEF Write
    <2> QED BY <1>1, <1>2, <1>5, <2>1, <2>2, DiskIsOlder DEF OutcomeInv, Waits
  <1>13. QueueInv'
    <2>1. \A u \in User : \A i \in DOMAIN disk[u] : disk[u][i].id < nextBatchId'
      BY <1>1, <1>3 DEF QueueInv
    <2>2. \A i \in WriteTasks(worker) : i \in Nat /\ i + 0 = i
      BY WorkerFacts DEF WriteTasks
    <2>3. 0 \in {0, 1} /\ \A i \in WriteTasks(worker') :
              i \in Nat /\ i + 0 \in WriteTasks(worker) /\ worker'[i] = worker[i + 0]
      BY <1>3, <2>2
    <2> QED BY <1>1, <1>3, <2>1, <2>3, QueueStays
  <1>14. OutcomeInv'
    BY <1>1, <1>3, <1>11, OutcomeStays DEF Waits
  <1>15. ToldIsTrue'
    <2>1. CallbackIsOwn'
      BY <1>1, <1>3 DEF ToldIsTrue, CallbackIsOwn
    <2>2. AcceptedWasApplied'
      BY <1>1, <1>3, <1>10 DEF ToldIsTrue, AcceptedWasApplied
    <2>3. RejectedForRefusal'
      BY <1>1, <1>3, <1>10 DEF ToldIsTrue, RejectedForRefusal
    <2> QED BY <2>1, <2>2, <2>3 DEF ToldIsTrue
  <1>16. ASSUME NEW i \in DOMAIN stream'.answers
         PROVE  /\ verdict'[stream'.answers[i].write] = stream'.answers[i].result
                /\ stream'.answers[i].result = "rejected" => i = Len(stream'.answers)
    <2>1. CASE i \in 1 .. n
      <3>1. verdict[a[i].write] = a[i].result /\ a[i].result # "rejected"
        BY <1>1, <1>3, <1>6, <2>1 DEF ServerInv, a
      <3>2. a[i].write \in Write /\ a[i].write # w
        <4>1. a[i].write < w
          BY <1>8, <2>1
        <4>2. a[i] \in [write : Write, result : Outcome]
          BY <1>2, <2>1, ElementOfSeq DEF n
        <4>3. ~(w < w)
          BY <1>2 DEF Write
        <4> QED BY <4>1, <4>2, <4>3
      <3> QED BY <1>6, <1>9, <2>1, <3>1, <3>2
    <2>2. CASE i = n + 1
      BY <1>4, <1>6, <1>9, <2>2
    <2> QED BY <1>6, <1>7, <2>1, <2>2
  <1>17. \A v \in Write : verdict'[v] # "none" =>
             v <= made' /\ v \notin InMemory' /\ outcome'[v] # "lost"
    BY <1>1, <1>3, <1>9, <1>11, <1>12 DEF ServerInv
  <1>18. ASSUME NEW u \in User, u # session
         PROVE  \/ document'[u] = Newest(u)'
                \/ /\ \E i \in DOMAIN disk'[u] : disk'[u][i].write = Newest(u)'
                   /\ \A i \in DOMAIN stream'.answers : stream'.answers[i].write # Newest(u)'
    <2>1. Applied(u)' = Applied(u)
      BY <1>3, <1>5, <1>9, <1>18 DEF Applied
    <2>2. Newest(u)' = Newest(u)
      BY <2>1 DEF Newest
    <2>3. document'[u] = document[u]
      BY <1>5, <1>18 DEF TypeOK, Outcome
    <2>4. ASSUME document[u] # Newest(u)
          PROVE  /\ \E i \in DOMAIN disk[u] : disk[u][i].write = Newest(u)
                 /\ \A i \in DOMAIN stream'.answers : stream'.answers[i].write # Newest(u)
      <3>1. /\ \E i \in DOMAIN disk[u] : disk[u][i].write = Newest(u)
            /\ \A i \in DOMAIN a : a[i].write # Newest(u)
        BY <1>1, <2>4 DEF ServerInv, a
      <3>2. owner[Newest(u)] = u
        BY <1>1, <3>1 DEF QueueInv
      <3>3. w # Newest(u)
        BY <1>5, <1>18, <3>2
      <3>4. \A i \in 1 .. n + 1 : stream'.answers[i].write # Newest(u)
        BY <1>4, <1>6, <1>7, <3>1, <3>3
      <3> QED BY <1>6, <3>1, <3>4
    <2> QED BY <1>3, <2>2, <2>3, <2>4
  <1>19. \/ document'[session] = Newest(session)'
         \/ /\ \E i \in DOMAIN disk'[session] : disk'[session][i].write = Newest(session)'
            /\ \A i \in DOMAIN stream'.answers : stream'.answers[i].write # Newest(session)'
    <2>0. /\ Applied(session) \subseteq Write
          /\ \A v \in Write : v \in Applied(session)
                <=> owner[v] = session /\ verdict[v] = "accepted"
      BY DEF Applied
    <2>1. CASE result = "accepted"
      <3> DEFINE T == {v \in Write : owner'[v] = session /\ verdict'[v] = "accepted"}
      <3>1. T = Applied(session) \cup {w}
        BY <1>2, <1>3, <1>5, <1>9, <2>0, <2>1
      <3>2. Newest(session)' = Max(T \cup {0})
        BY <1>3 DEF Newest, Applied
      <3>3. T \subseteq Write /\ w \in T
        BY <3>1, <1>2, <2>0
      <3>4. document'[session] = w
        BY <1>2, <1>5, <2>1 DEF TypeOK
      <3> HIDE DEF T
      <3> DEFINE m == Max(T \cup {0})
      <3>5. /\ m \in T \cup {0} /\ m \in Nat /\ w <= m
        BY <3>3, NewestFacts
      <3> HIDE DEF m
      <3>6. CASE m = w
        BY <3>2, <3>4, <3>6 DEF m
      <3>7. CASE m # w
        <4>1. w \in Nat /\ w # 0
          BY <1>2 DEF Write
        <4>2. m \in T /\ w < m
          BY <3>5, <3>7, <4>1
        <4>3. m \in Applied(session) /\ m \in Write
          BY <3>1, <3>3, <3>7, <4>2
        <4>4. owner[m] = session /\ verdict[m] # "none"
          BY <2>0, <4>3
        <4>5. \E i \in DOMAIN disk[session] : disk[session][i].write = m
          BY <1>1, <1>5, <4>2, <4>3, <4>4, NewerWaits
        <4>6. \A i \in 1 .. n + 1 : stream'.answers[i].write # m
          <5> SUFFICES ASSUME NEW i \in 1 .. n + 1 PROVE stream'.answers[i].write # m
            OBVIOUS
          <5>1. CASE i = n + 1
            BY <1>4, <1>6, <3>7, <5>1
          <5>2. CASE i \in 1 .. n
            <6>1. stream'.answers[i].write < w
              BY <1>6, <1>8, <5>2
            <6>2. ~(m < w)
              BY <3>5, <4>1, <4>2
            <6> QED BY <6>1, <6>2
          <5> QED BY <1>7, <5>1, <5>2
        <4> QED BY <1>3, <1>6, <3>2, <4>5, <4>6 DEF m
      <3> QED BY <3>6, <3>7
    <2>2. CASE result = "rejected"
      <3>1. verdict[w] # "accepted"
        BY <1>3, <2>2
      <3>2. Applied(session)' = Applied(session)
        BY <1>3, <1>9, <2>2, <3>1 DEF Applied
      <3>3. Newest(session)' = Newest(session)
        BY <3>2 DEF Newest
      <3>4. ASSUME document[session] # Newest(session)
            PROVE  /\ \E i \in DOMAIN disk[session] : disk[session][i].write = Newest(session)
                   /\ \A i \in DOMAIN stream'.answers :
                          stream'.answers[i].write # Newest(session)
        <4>1. /\ \E i \in DOMAIN disk[session] : disk[session][i].write = Newest(session)
              /\ \A i \in DOMAIN a : a[i].write # Newest(session)
          BY <1>1, <1>5, <3>4 DEF ServerInv, a
        <4>2. Newest(session) \in Applied(session) \cup {0}
          BY <2>0, NewestFacts DEF Newest
        <4>3. w # 0 /\ w \notin Applied(session)
          BY <1>2, <2>0, <3>1 DEF Write
        <4>4. w # Newest(session)
          BY <4>2, <4>3
        <4>5. \A i \in 1 .. n + 1 : stream'.answers[i].write # Newest(session)
          BY <1>4, <1>6, <1>7, <4>1, <4>4
        <4> QED BY <1>6, <4>1, <4>5
      <3> QED BY <1>3, <2>2, <3>3, <3>4
    <2> QED BY <2>1, <2>2 DEF Outcome
  <1>20. ServerInv'
    <2>1. ASSUME NEW u \in User
          PROVE  \/ document'[u] = Newest(u)'
                 \/ /\ \E i \in DOMAIN disk'[u] : disk'[u][i].write = Newest(u)'
                    /\ \A i \in DOMAIN stream'.answers : stream'.answers[i].write # Newest(u)'
      <3>1. CASE u = session
        BY <1>3, <1>19, <3>1
      <3>2. CASE u # session
        BY <1>18, <3>2
      <3> QED BY <3>1, <3>2
    <2> QED BY <1>16, <1>17, <2>1 DEF ServerInv
  <1> QED BY <1>13, <1>14, <1>15, <1>20 DEF WriteInv

(***************************************************************************)
(* Types, threads and tokens, action by action.                            *)
(***************************************************************************)

\* The tokens among the tasks r are those among the tasks q, a positions on.
SameTokens(q, r, a) ==
    /\ Tokens(r) \subseteq Nat
    /\ \A i \in Tokens(r) : i + a \in Tokens(q) /\ r[i] = q[i + a]
    /\ \A i \in Tokens(q) : i - a \in Tokens(r) /\ r[i - a] = q[i]

LEMMA AppendOther ==
  ASSUME NEW S, NEW q \in Seq(S), NEW e \in S, e.type # "token"
  PROVE  SameTokens(q, Append(q, e), 0)
  <1> DEFINE r == Append(q, e)
             n == Len(q)
  <1>1. /\ n \in Nat /\ DOMAIN q = 1 .. n /\ DOMAIN r = 1 .. n + 1
        /\ \A i \in 1 .. n : r[i] = q[i]
        /\ r[n + 1] = e
    BY AppendedTask
  <1> HIDE DEF r, n
  <1>2. ASSUME NEW i \in Tokens(r)
        PROVE  i \in Nat /\ i + 0 = i /\ i \in Tokens(q) /\ r[i] = q[i]
    BY <1>1 DEF Tokens
  <1>3. ASSUME NEW i \in Tokens(q)
        PROVE  i - 0 = i /\ i \in Tokens(r) /\ r[i] = q[i]
    BY <1>1 DEF Tokens
  <1>4. SameTokens(q, r, 0)
    BY <1>2, <1>3 DEF SameTokens
  <1> QED BY <1>4 DEF r

LEMMA TailOther ==
  ASSUME NEW S, NEW q \in Seq(S), q # <<>>, Head(q).type # "token"
  PROVE  SameTokens(q, Tail(q), 1)
  <1> DEFINE r == Tail(q)
             n == Len(q)
  <1>1. /\ n \in Nat \ {0} /\ DOMAIN q = 1 .. n /\ DOMAIN r = 1 .. n - 1
        /\ \A i \in 1 .. n - 1 : r[i] = q[i + 1]
        /\ q[1].type # "token"
    BY HeadTask
  <1> HIDE DEF r, n
  <1>2. ASSUME NEW i \in Tokens(r)
        PROVE  i \in Nat /\ i + 1 \in Tokens(q) /\ r[i] = q[i + 1]
    BY <1>1 DEF Tokens
  <1>3. ASSUME NEW i \in Tokens(q)
        PROVE  i - 1 \in Tokens(r) /\ r[i - 1] = q[i]
    <2>1. i \in 1 .. n /\ i # 1 /\ q[i].type = "token"
      BY <1>1 DEF Tokens
    <2>2. i - 1 \in 1 .. n - 1 /\ (i - 1) + 1 = i
      BY <1>1, <2>1
    <2>3. r[i - 1] = q[i]
      BY <1>1, <2>2
    <2> QED BY <1>1, <2>1, <2>2, <2>3 DEF Tokens
  <1>4. SameTokens(q, r, 1)
    BY <1>2, <1>3 DEF SameTokens
  <1> QED BY <1>4 DEF r

\* The tasks r are the tasks q and a token e, at position k.
GainsToken(q, r, k, e) ==
    /\ k \notin Tokens(q)
    /\ Tokens(r) = Tokens(q) \cup {k}
    /\ \A i \in Tokens(q) : r[i] = q[i]
    /\ r[k] = e

LEMMA AppendToken ==
  ASSUME NEW S, NEW q \in Seq(S), NEW e \in S, e.type = "token"
  PROVE  GainsToken(q, Append(q, e), Len(q) + 1, e)
  <1> DEFINE r == Append(q, e)
             k == Len(q) + 1
  <1>1. /\ Len(q) \in Nat /\ DOMAIN q = 1 .. Len(q) /\ DOMAIN r = 1 .. k
        /\ \A i \in 1 .. Len(q) : r[i] = q[i]
        /\ r[k] = e
    BY AppendedTask
  <1>2. k \notin 1 .. Len(q) /\ 1 .. k = (1 .. Len(q)) \cup {k}
    BY <1>1
  <1> HIDE DEF r, k
  <1>3. k \notin Tokens(q) /\ \A i \in Tokens(q) : r[i] = q[i]
    BY <1>1, <1>2 DEF Tokens
  <1>4. \A i : i \in Tokens(r) <=> i \in Tokens(q) \/ i = k
    BY <1>1, <1>2 DEF Tokens
  <1>5. Tokens(r) = Tokens(q) \cup {k}
    BY <1>4
  <1> QED BY <1>1, <1>3, <1>5 DEF r, k, GainsToken

LEMMA TailToken ==
  ASSUME NEW S, NEW q \in Seq(S), q # <<>>, Head(q).type = "token"
  PROVE  /\ 1 \in Tokens(q) /\ Head(q) = q[1] /\ Tokens(Tail(q)) \subseteq Nat
         /\ \A i \in Tokens(Tail(q)) :
                /\ i \in Nat /\ i + 1 \in Tokens(q) /\ i + 1 # 1
                /\ Tail(q)[i] = q[i + 1]
         /\ \A i \in Tokens(q) : i # 1 =>
                i - 1 \in Tokens(Tail(q)) /\ Tail(q)[i - 1] = q[i]
  <1> DEFINE r == Tail(q)
             n == Len(q)
  <1>1. /\ n \in Nat \ {0} /\ DOMAIN q = 1 .. n /\ DOMAIN r = 1 .. n - 1
        /\ \A i \in 1 .. n - 1 : r[i] = q[i + 1]
        /\ Head(q) = q[1] /\ q[1].type = "token"
    BY HeadTask
  <1> HIDE DEF r, n
  <1>2. ASSUME NEW i \in Tokens(r)
        PROVE  i \in Nat /\ i + 1 \in Tokens(q) /\ i + 1 # 1 /\ r[i] = q[i + 1]
    BY <1>1 DEF Tokens
  <1>3. ASSUME NEW i \in Tokens(q), i # 1
        PROVE  i - 1 \in Tokens(r) /\ r[i - 1] = q[i]
    <2>1. i \in 1 .. n /\ q[i].type = "token"
      BY <1>1 DEF Tokens
    <2>2. i - 1 \in 1 .. n - 1 /\ (i - 1) + 1 = i
      BY <1>1, <1>3, <2>1
    <2>3. r[i - 1] = q[i]
      BY <1>1, <2>2
    <2> QED BY <1>1, <2>1, <2>2, <2>3 DEF Tokens
  <1>4. 1 \in Tokens(q) /\ Head(q) = q[1]
    BY <1>1 DEF Tokens
  <1>5. Tokens(r) \subseteq Nat
    BY <1>2
  <1> QED BY <1>2, <1>3, <1>4, <1>5 DEF r

\* The main thread's tasks, and what becomes of them on the worker.
LEMMA MainFacts ==
  ASSUME TypeOK, main # <<>>
  PROVE  /\ main \in Seq(MainTask) /\ Tail(main) \in Seq(MainTask)
         /\ Head(main) \in MainTask
         /\ Head(main).type = "auth" =>
                /\ Head(main) \in WorkerTask /\ Head(main).user \in User
         /\ Head(main).type = "token" =>
                /\ Head(main).user \in User \cup {Failed}
                /\ Head(main).ask \in Ask /\ Head(main).ask.closes \in Nat
  <1>1. main \in Seq(MainTask)
    BY DEF TypeOK
  <1>2. Head(main) \in MainTask /\ Tail(main) \in Seq(MainTask)
    BY <1>1, HeadTask
  <1>3. \A m \in MainTask :
            /\ m.type = "auth" => m \in WorkerTask /\ m.user \in User
            /\ m.type = "token" => m.user \in User \cup {Failed} /\ m.ask \in Ask
    BY DEF MainTask, WorkerTask
  <1>4. \A a \in Ask : a.closes \in Nat
    BY DEF Ask
  <1> QED BY <1>1, <1>2, <1>3, <1>4

\* A step of the worker, as FirebaseAuth sees it.
LEMMA RemoteTypes ==
  ASSUME TypeOK, stream' \in WriteStream, NEW r, Remote(r)
  PROVE  /\ asks' = asks \cup (IF AsksToken(stream, stream')
                               THEN {[closes |-> stream'.closes, counter |-> tokenCounter]}
                               ELSE {})
         /\ asks' \subseteq Ask /\ main' = main
         /\ authUser' = authUser /\ sdkUser' = sdkUser /\ tokenCounter' = tokenCounter
  <1>1. /\ asks' = asks \cup (IF AsksToken(stream, stream')
                              THEN {[closes |-> stream'.closes, counter |-> tokenCounter]}
                              ELSE {})
        /\ main' = main
        /\ authUser' = authUser /\ sdkUser' = sdkUser /\ tokenCounter' = tokenCounter
    BY DEF Remote
  <1>2. [closes |-> stream'.closes, counter |-> tokenCounter] \in Ask
    <2>1. stream'.closes \in Nat
      BY StreamFacts
    <2> QED BY <2>1 DEF TypeOK, Ask
  <1>3. asks \subseteq Ask
    BY DEF TypeOK
  <1>4. asks' \subseteq Ask
    BY <1>1, <1>2, <1>3
  <1> QED BY <1>1, <1>4

LEMMA ThreadStays ==
  ASSUME ThreadInv, worker' = worker, main' = main, session' = session,
         sdkUser' = sdkUser, authUser' = authUser, owner' = owner
  PROVE  ThreadInv'
  BY DEF ThreadInv, WritesMeetOwner

LEMMA ThreadTail ==
  ASSUME TypeOK, ThreadInv, worker # <<>>, worker' = Tail(worker), main' = main,
         session' = After(Head(worker), session),
         sdkUser' = sdkUser, authUser' = authUser, owner' = owner
  PROVE  ThreadInv'
  <1>1. worker \in Seq(WorkerTask) /\ Leads(worker, session, sdkUser)
        /\ Leads(main, sdkUser, authUser) /\ WritesMeetOwner
    BY DEF ThreadInv, TypeOK
  <1>2. Leads(Tail(worker), After(Head(worker), session), sdkUser)
    BY <1>1, TailLeads
  <1>3. WritesMeetOwner'
    BY <1>1, WritesMeetTail
  <1> QED BY <1>1, <1>2, <1>3 DEF ThreadInv

LEMMA InvParts ==
  /\ Inv <=> TypeOK /\ ThreadInv /\ TokenInv /\ RemoteInv /\ WriteInv
  /\ Inv' <=> TypeOK' /\ ThreadInv' /\ TokenInv' /\ RemoteInv' /\ WriteInv'
  BY DEF Inv, WriteInv

LEMMA FaultType ==
  ASSUME TypeOK, Fault PROVE faults' \in 0 .. MaxFaults
  BY WritesAssumption DEF TypeOK, Fault

LEMMA WorkerHead ==
  ASSUME TypeOK, worker # <<>>
  PROVE  /\ Tail(worker) \in Seq(WorkerTask)
         /\ Head(worker).type = "auth" => Head(worker).user \in User
         /\ After(Head(worker), session) \in User
  <1>1. Head(worker) \in WorkerTask /\ Tail(worker) \in Seq(WorkerTask)
    BY WorkerFacts
  <1>2. \A t \in WorkerTask : t.type = "auth" => t.user \in User
    BY DEF WorkerTask
  <1>3. session \in User
    BY DEF TypeOK
  <1> QED BY <1>1, <1>2, <1>3 DEF After

LEMMA RemoteTypeOK ==
  ASSUME TypeOK, stream' \in WriteStream, pipeline' \in Seq(Batch), NEW r, Remote(r),
         worker' \in Seq(WorkerTask), session' \in User, nextBatchId' \in Nat \ {0},
         UNCHANGED <<disk, callbacks, made, owner, outcome, told, document, verdict>>,
         faults' \in 0 .. MaxFaults
  PROVE  TypeOK'
  <1>1. /\ asks' \subseteq Ask /\ main' = main
        /\ authUser' = authUser /\ sdkUser' = sdkUser /\ tokenCounter' = tokenCounter
    BY RemoteTypes
  <1> QED BY <1>1 DEF TypeOK

\* A step of the worker that leaves the writes alone, and the token of the
\* stream.
LEMMA RemoteStep ==
  ASSUME Inv, NEW r, Remote(r), StreamStep(stream, stream'), pipeline' \in Seq(Batch),
         RemoteInv', stream'.answers = stream.answers \/ stream'.answers = <<>>,
         \/ worker' = worker /\ session' = session
         \/ /\ worker # <<>> /\ worker' = Tail(worker)
            /\ session' = After(Head(worker), session)
            /\ Head(worker).type # "write"
            /\ Head(worker).type = "token" => Head(worker).closes # stream'.closes,
         nextBatchId' = nextBatchId \/ nextBatchId' = LoadNextBatchId(disk),
         UNCHANGED <<disk, callbacks, made, owner, outcome, told, document, verdict>>,
         faults' \in 0 .. MaxFaults
  PROVE  Inv'
  <1>1. TypeOK /\ ThreadInv /\ TokenInv /\ WriteInv /\ QueueInv
    BY InvParts DEF WriteInv
  <1>2. /\ stream' \in WriteStream
        /\ stream'.closes = stream.closes \/ stream'.closes = stream.closes + 1
        /\ stream'.closes = stream.closes /\ stream.state = "Starting"
              => stream'.state = "Starting"
    BY DEF StreamStep
  <1>3. /\ asks' = asks \cup (IF AsksToken(stream, stream')
                              THEN {[closes |-> stream'.closes, counter |-> tokenCounter]}
                              ELSE {})
        /\ main' = main
        /\ authUser' = authUser /\ sdkUser' = sdkUser /\ tokenCounter' = tokenCounter
    BY <1>1, <1>2, RemoteTypes
  <1>4. TypeOK'
    <2>1. worker' \in Seq(WorkerTask) /\ session' \in User
      BY <1>1, WorkerHead DEF TypeOK
    <2>2. nextBatchId' \in Nat \ {0}
      BY <1>1, NextIdFacts DEF TypeOK
    <2> QED BY <1>1, <1>2, <2>1, <2>2, RemoteTypeOK
  <1>5. ThreadInv'
    <2>1. CASE worker' = worker /\ session' = session
      BY <1>1, <1>3, <2>1, ThreadStays
    <2>2. CASE /\ worker # <<>> /\ worker' = Tail(worker)
               /\ session' = After(Head(worker), session)
      BY <1>1, <1>3, <2>2, ThreadTail
    <2> QED BY <2>1, <2>2
  <1>6. TokenInv'
    BY <1>1, <1>2, <1>3, TokenStep
  <1>7. WriteInv'
    BY <1>1, <1>4, QuietStep
  <1> QED BY <1>4, <1>5, <1>6, <1>7, InvParts

LEMMA ChangeUserStep == ASSUME Inv, ChangeUser PROVE Inv'
  <1>1. TypeOK /\ QueueInv /\ RemoteInv
    BY DEF Inv
  <1>2. /\ StreamStep(stream, stream') /\ pipeline' \in Seq(Batch)
        /\ RemoteInv' /\ stream'.answers = <<>>
        /\ worker # <<>> /\ Head(worker).type = "auth"
    BY <1>1, ChangeRemote
  <1>3. /\ worker' = Tail(worker) /\ session' = After(Head(worker), session)
        /\ nextBatchId' = nextBatchId \/ nextBatchId' = LoadNextBatchId(disk)
        /\ UNCHANGED <<disk, callbacks, made, owner, outcome, told, document, verdict>>
        /\ faults' = faults
    BY <1>2 DEF ChangeUser, After, serverVars, history
  <1>4. faults' \in 0 .. MaxFaults
    BY <1>1, <1>3 DEF TypeOK
  <1> DEFINE r == RestartStream(stream, disk[session'])
  <1>5. Remote(r)
    BY DEF ChangeUser
  <1> HIDE DEF r
  <1> QED BY <1>2, <1>3, <1>4, <1>5, RemoteStep

LEMMA UseTokenStep == ASSUME Inv, UseToken PROVE Inv'
  <1>1. TypeOK /\ QueueInv /\ RemoteInv /\ ThreadInv /\ TokenInv /\ WriteInv
    BY InvParts DEF Inv
  <1>2. /\ stream' \in WriteStream /\ pipeline' \in Seq(Batch) /\ RemoteInv'
        /\ stream'.answers = <<>> \/ stream'.answers = stream.answers
        /\ worker # <<>> /\ Head(worker).type = "token"
        /\ \/ StreamStep(stream, stream') /\ Head(worker).closes # stream'.closes
           \/ /\ Head(worker).closes = stream.closes
              /\ stream'.closes = stream.closes /\ stream'.state = "Open"
              /\ stream.state = "Starting"
    BY <1>1, UseTokenRemote
  <1>3. /\ worker' = Tail(worker) /\ session' = After(Head(worker), session)
        /\ nextBatchId' = nextBatchId
        /\ UNCHANGED <<disk, callbacks, made, owner, outcome, told, document, verdict>>
        /\ faults' = faults
    BY <1>2 DEF UseToken, After, localVars, serverVars, history
  <1>4. faults' \in 0 .. MaxFaults
    BY <1>1, <1>3 DEF TypeOK
  <1>5. PICK r : Remote(r)
    BY DEF UseToken
  <1>6. CASE StreamStep(stream, stream') /\ Head(worker).closes # stream'.closes
    BY <1>2, <1>3, <1>4, <1>5, <1>6, RemoteStep
  <1>7. CASE /\ Head(worker).closes = stream.closes
             /\ stream'.closes = stream.closes /\ stream'.state = "Open"
             /\ stream.state = "Starting"
    <2>1. /\ asks' = asks \cup (IF AsksToken(stream, stream')
                                THEN {[closes |-> stream'.closes, counter |-> tokenCounter]}
                                ELSE {})
          /\ main' = main
          /\ authUser' = authUser /\ sdkUser' = sdkUser /\ tokenCounter' = tokenCounter
      BY <1>1, <1>2, <1>5, RemoteTypes
    <2>2. asks' = asks
      BY <1>7, <2>1 DEF AsksToken
    <2>3. TypeOK'
      <3>1. worker' \in Seq(WorkerTask) /\ session' \in User
        BY <1>1, <1>2, <1>3, WorkerHead
      <3>2. nextBatchId' \in Nat \ {0}
        BY <1>1, <1>3 DEF TypeOK
      <3> QED BY <1>1, <1>2, <1>3, <1>4, <1>5, <3>1, <3>2, RemoteTypeOK
    <2>4. ThreadInv'
      BY <1>1, <1>2, <1>3, <2>1, ThreadTail
    <2>5. TokenInv'
      <3>1. worker \in Seq(WorkerTask)
        BY <1>1 DEF TypeOK
      <3>2. /\ 1 \in Tokens(worker) /\ Head(worker) = worker[1]
            /\ \A i \in Tokens(Tail(worker)) :
                   /\ i \in Nat /\ i + 1 \in Tokens(worker) /\ i + 1 # 1
                   /\ Tail(worker)[i] = worker[i + 1]
        BY <1>2, <3>1, TailToken
      <3>3. /\ worker[1].closes = stream.closes
            /\ \A i \in Tokens(worker') :
                   /\ i \in Nat /\ i + 1 \in Tokens(worker) /\ i + 1 # 1
                   /\ worker'[i] = worker[i + 1]
        BY <1>3, <1>7, <3>2
      <3> QED BY <1>1, <1>7, <2>1, <2>2, <3>2, <3>3, TokenTakenStep
    <2>6. WriteInv'
      BY <1>1, <1>2, <1>3, <2>3, QuietStep
    <2> QED BY <1>2, <2>3, <2>4, <2>5, <2>6, InvParts
  <1> QED BY <1>2, <1>6, <1>7

\* The steps of the worker for the stream alone.
LEMMA StreamOnlyStep ==
  ASSUME Inv, ReadHandshake \/ StreamBreaks \/ BackoffElapses \/ IdleElapses
  PROVE  Inv'
  <1>1. TypeOK /\ QueueInv /\ RemoteInv
    BY DEF Inv
  <1>2. /\ StreamStep(stream, stream') /\ pipeline' \in Seq(Batch) /\ RemoteInv'
        /\ stream'.answers = stream.answers \/ stream'.answers = <<>>
    BY <1>1, HandshakeRemote, BreakRemote, BackoffRemote, IdleRemote
  <1>3. /\ worker' = worker /\ session' = session /\ nextBatchId' = nextBatchId
        /\ UNCHANGED <<disk, callbacks, made, owner, outcome, told, document, verdict>>
    BY DEF ReadHandshake, StreamBreaks, BackoffElapses, IdleElapses, localVars,
           serverVars, history
  <1>4. faults' \in 0 .. MaxFaults
    <2>1. faults' = faults \/ Fault
      BY DEF ReadHandshake, StreamBreaks, BackoffElapses, IdleElapses, history
    <2>2. faults \in 0 .. MaxFaults
      BY <1>1 DEF TypeOK
    <2> QED BY <1>1, <2>1, <2>2, FaultType
  <1>5. PICK r : Remote(r)
    BY DEF ReadHandshake, StreamBreaks, BackoffElapses, IdleElapses
  <1> QED BY <1>2, <1>3, <1>4, <1>5, RemoteStep

LEMMA PersistStep == ASSUME Inv, PersistWrite PROVE Inv'
  <1> DEFINE b == [id |-> nextBatchId, write |-> Head(worker).write]
             c == [user |-> session, id |-> nextBatchId, write |-> b.write]
             r == FillWritePipeline(stream, pipeline, disk'[session])
  <1>1. TypeOK /\ QueueInv /\ RemoteInv /\ ThreadInv /\ TokenInv /\ WriteInv
    BY InvParts DEF Inv
  <1>2. /\ StreamStep(stream, stream') /\ pipeline' \in Seq(Batch)
        /\ RemoteInv' /\ stream'.answers = stream.answers
    BY <1>1, PersistRemote
  <1>3. /\ b \in Batch /\ disk' \in [User -> Seq(Batch)]
        /\ worker # <<>> /\ Head(worker).type = "write"
    BY <1>1, PersistDisk
  <1>4. /\ worker' = Tail(worker) /\ session' = session
        /\ nextBatchId' = nextBatchId + 1 /\ callbacks' \subseteq callbacks \cup {c}
        /\ UNCHANGED <<made, owner, outcome, told, document, verdict, faults>>
        /\ Remote(r)
    BY DEF PersistWrite, serverVars, history
  <1>5. c \in [user : User, id : Nat \ {0}, write : Write]
    BY <1>1, <1>3 DEF TypeOK, Batch
  <1> HIDE DEF b, c, r
  <1>6. /\ stream' \in WriteStream
        /\ stream'.closes = stream.closes \/ stream'.closes = stream.closes + 1
        /\ stream'.closes = stream.closes /\ stream.state = "Starting"
              => stream'.state = "Starting"
    BY <1>2 DEF StreamStep
  <1>7. /\ asks' = asks \cup (IF AsksToken(stream, stream')
                              THEN {[closes |-> stream'.closes, counter |-> tokenCounter]}
                              ELSE {})
        /\ asks' \subseteq Ask /\ main' = main
        /\ authUser' = authUser /\ sdkUser' = sdkUser /\ tokenCounter' = tokenCounter
    BY <1>1, <1>4, <1>6, RemoteTypes
  <1>8. TypeOK'
    <2>1. worker' \in Seq(WorkerTask)
      BY <1>1, <1>3, <1>4, WorkerHead
    <2>2. nextBatchId' \in Nat \ {0}
      <3>1. nextBatchId \in Nat
        BY <1>1 DEF TypeOK
      <3> QED BY <1>4, <3>1
    <2>3. callbacks' \subseteq [user : User, id : Nat \ {0}, write : Write]
      BY <1>1, <1>4, <1>5 DEF TypeOK
    <2> QED BY <1>1, <1>2, <1>3, <1>4, <1>6, <1>7, <2>1, <2>2, <2>3 DEF TypeOK
  <1>9. ThreadInv'
    BY <1>1, <1>3, <1>4, <1>7, ThreadTail DEF After
  <1>10. TokenInv'
    BY <1>1, <1>3, <1>4, <1>6, <1>7, TokenStep
  <1>11. WriteInv'
    BY <1>1, <1>2, <1>8, PersistWrites
  <1> QED BY <1>2, <1>8, <1>9, <1>10, <1>11, InvParts

\* ReadAnswer and ReadRefusal.
LEMMA ConcludeStep ==
  ASSUME Inv, ReadAnswer \/ ReadRefusal
  PROVE  Inv'
  <1>1. TypeOK /\ QueueInv /\ RemoteInv /\ ThreadInv /\ TokenInv /\ WriteInv
    BY InvParts DEF Inv
  <1>2. /\ StreamStep(stream, stream') /\ pipeline' \in Seq(Batch) /\ RemoteInv'
        /\ ReadAnswer => stream'.answers = Tail(stream.answers)
        /\ ReadRefusal => stream'.answers = <<>>
    BY <1>1, AnswerRemote, RefusalRemote
  <1>3. PICK result \in Outcome : Conclude(Head(pipeline), result)
    BY DEF ReadAnswer, ReadRefusal, Outcome
  <1>4. /\ worker' = worker /\ stream.answers # <<>>
        /\ UNCHANGED <<document, verdict, faults>>
    BY DEF ReadAnswer, ReadRefusal, Refused, serverVars
  <1>5. PICK r : Remote(r)
    BY DEF ReadAnswer, ReadRefusal
  <1> DEFINE b == disk[session][1]
             called == {c \in callbacks : c.user = session /\ c.id = b.id}
  <1>6. /\ b \in Batch /\ Head(pipeline) = b
        /\ disk' \in [User -> Seq(Batch)] /\ session' = session
    BY <1>1, <1>3, <1>4, ConcludeDisk
  <1>7. /\ callbacks' = callbacks \ called
        /\ told' = [w \in Write |-> IF \E c \in called : c.write = w
                                   THEN result ELSE told[w]]
        /\ outcome' = [outcome EXCEPT ![b.write] = result]
        /\ nextBatchId' = nextBatchId /\ made' = made /\ owner' = owner
    BY <1>3, <1>6 DEF Conclude
  <1> HIDE DEF b
  <1>8. /\ stream' \in WriteStream
        /\ stream'.closes = stream.closes \/ stream'.closes = stream.closes + 1
        /\ stream'.closes = stream.closes /\ stream.state = "Starting"
              => stream'.state = "Starting"
    BY <1>2 DEF StreamStep
  <1>9. /\ asks' = asks \cup (IF AsksToken(stream, stream')
                              THEN {[closes |-> stream'.closes, counter |-> tokenCounter]}
                              ELSE {})
        /\ asks' \subseteq Ask /\ main' = main
        /\ authUser' = authUser /\ sdkUser' = sdkUser /\ tokenCounter' = tokenCounter
    BY <1>1, <1>5, <1>8, RemoteTypes
  <1>10. TypeOK'
    <2>1. callbacks' \subseteq [user : User, id : Nat \ {0}, write : Write]
      BY <1>1, <1>7 DEF TypeOK
    <2>2. told' \in [Write -> Outcome \cup {"none"}]
      <3>1. told \in [Write -> Outcome \cup {"none"}]
        BY <1>1 DEF TypeOK
      <3> HIDE DEF called
      <3> QED BY <1>7, <3>1
    <2>3. outcome' \in [Write -> Outcome \cup {"none", "lost"}]
      <3>1. outcome \in [Write -> Outcome \cup {"none", "lost"}]
        BY <1>1 DEF TypeOK
      <3> QED BY <1>7, <3>1
    <2> HIDE DEF called
    <2> QED BY <1>1, <1>2, <1>4, <1>6, <1>7, <1>8, <1>9, <2>1, <2>2, <2>3 DEF TypeOK
  <1>11. ThreadInv'
    BY <1>1, <1>4, <1>6, <1>7, <1>9, ThreadStays
  <1>12. TokenInv'
    BY <1>1, <1>4, <1>8, <1>9, TokenStep
  <1>13. WriteInv'
    BY <1>1, <1>2, <1>10, AnswerWrites, RefusalWrites
  <1> QED BY <1>2, <1>10, <1>11, <1>12, <1>13, InvParts

\* A step of the server leaves everything but the stream, the verdicts and the
\* documents alone.
LEMMA ServerStep ==
  ASSUME Inv, ServerGreets \/ ServerApplies \/ ServerRefuses
  PROVE  Inv'
  <1>1. TypeOK /\ QueueInv /\ RemoteInv /\ ThreadInv /\ TokenInv /\ WriteInv
    BY InvParts DEF Inv
  <1>2. /\ UNCHANGED <<authUser, asks, main, sdkUser, tokenCounter, worker, session,
                       disk, nextBatchId, callbacks, made, owner, outcome, told, faults>>
    BY DEF ServerGreets, ServerApplies, ServerRefuses, ServerReads, authVars,
           localVars, history
  <1>3. ThreadInv'
    BY <1>1, <1>2, ThreadStays
  <1>4. ASSUME stream' \in WriteStream, stream'.state = stream.state,
               stream'.closes = stream.closes
        PROVE  TokenInv'
    <2>1. ~AsksToken(stream, stream')
      BY <1>4 DEF AsksToken
    <2> QED BY <1>1, <1>2, <1>4, <2>1, TokenStep
  <1>5. CASE ServerGreets
    <2>1. /\ StreamStep(stream, stream') /\ pipeline' = pipeline /\ RemoteInv'
          /\ stream'.state = stream.state /\ stream'.closes = stream.closes
          /\ stream'.answers = stream.answers
      BY <1>1, <1>5, GreetRemote
    <2>2. UNCHANGED <<document, verdict>>
      BY <1>5 DEF ServerGreets, serverVars
    <2>3. TypeOK'
      BY <1>1, <1>2, <2>1, <2>2 DEF TypeOK, StreamStep
    <2>4. WriteInv'
      BY <1>1, <1>2, <2>1, <2>2, <2>3, QuietStep
    <2>5. TokenInv'
      BY <1>4, <2>1 DEF StreamStep
    <2> QED BY <1>3, <2>1, <2>3, <2>4, <2>5, InvParts
  <1>6. CASE ServerApplies \/ ServerRefuses
    <2> DEFINE w == Head(stream.sent)
    <2>1. /\ stream.sent # <<>>
          /\ \E result \in Outcome :
                /\ ServerReads(w, result)
                /\ result = "accepted" => document' = [document EXCEPT ![owner[w]] = w]
                /\ result = "rejected" => document' = document
      BY <1>6 DEF ServerApplies, ServerRefuses, Outcome
    <2>2. PICK result \in Outcome :
              /\ ServerReads(w, result)
              /\ result = "accepted" => document' = [document EXCEPT ![owner[w]] = w]
              /\ result = "rejected" => document' = document
      BY <2>1
    <2>3. /\ StreamStep(stream, stream') /\ pipeline' = pipeline /\ RemoteInv'
          /\ stream'.state = stream.state /\ stream'.closes = stream.closes
          /\ w \in Write
      BY <1>1, <2>1, <2>2, ServerRemote
    <2>4. verdict' = [verdict EXCEPT ![w] = result]
      BY <2>2 DEF ServerReads
    <2> HIDE DEF w
    <2>5. TypeOK'
      <3>1. verdict' \in [Write -> Outcome \cup {"none"}]
        <4>1. verdict \in [Write -> Outcome \cup {"none"}]
          BY <1>1 DEF TypeOK
        <4> QED BY <2>3, <2>4, <4>1
      <3>2. document' \in [User -> Write \cup {0}]
        <4>1. document \in [User -> Write \cup {0}] /\ owner[w] \in User
          BY <1>1, <2>3 DEF TypeOK
        <4>2. CASE result = "accepted"
          BY <2>2, <2>3, <4>1, <4>2
        <4>3. CASE result = "rejected"
          BY <2>2, <4>1, <4>3
        <4> QED BY <4>2, <4>3 DEF Outcome
      <3>3. stream' \in WriteStream /\ pipeline' \in Seq(Batch)
        BY <1>1, <2>3 DEF StreamStep, TypeOK
      <3> QED BY <1>1, <1>2, <3>1, <3>2, <3>3 DEF TypeOK
    <2>6. WriteInv'
      BY <1>1, <2>1, <2>2, <2>5, ServerWrites DEF w
    <2>7. TokenInv'
      BY <1>4, <2>3 DEF StreamStep
    <2> QED BY <1>3, <2>3, <2>5, <2>6, <2>7, InvParts
  <1> QED BY <1>5, <1>6

\* The main thread leaves the stream, the pipeline and the disk alone.
LEMMA RemoteStays ==
  ASSUME RemoteInv, UNCHANGED <<session, disk, stream, pipeline>>
  PROVE  RemoteInv'
  BY DEF RemoteInv, RemoteOK, StreamOK

LEMMA AuthChangesStep == ASSUME Inv, NEW u \in User, AuthChanges(u) PROVE Inv'
  <1> DEFINE e == [type |-> "auth", user |-> u]
  <1>1. TypeOK /\ RemoteInv /\ ThreadInv /\ TokenInv /\ WriteInv
    BY InvParts
  <1>2. /\ UNCHANGED <<asks, sdkUser, tokenCounter, worker, session, disk, nextBatchId,
                       callbacks, stream, pipeline, document, verdict, made, owner,
                       outcome, told>>
        /\ authUser' = u /\ main' = Append(main, e)
        /\ faults' \in 0 .. MaxFaults
    BY <1>1, FaultType DEF AuthChanges, localVars, remoteVars, serverVars
  <1>3. e \in MainTask /\ e.type = "auth" /\ e.user = u /\ main \in Seq(MainTask)
    BY <1>1 DEF MainTask, TypeOK
  <1> HIDE DEF e
  <1>4. main' \in Seq(MainTask)
    BY <1>2, <1>3, AppendedTask
  <1>5. TypeOK'
    BY <1>1, <1>2, <1>4 DEF TypeOK
  <1>6. ThreadInv'
    <2>1. Leads(main, sdkUser, authUser)
      BY <1>1 DEF ThreadInv
    <2>2. Leads(Append(main, e), sdkUser, After(e, authUser))
      BY <1>3, <2>1, AppendLeads
    <2>3. Leads(main', sdkUser', authUser')
      BY <1>2, <1>3, <2>2 DEF After
    <2> QED BY <1>1, <1>2, <2>3 DEF ThreadInv, WritesMeetOwner
  <1>7. TokenInv'
    <2>1. SameTokens(main, Append(main, e), 0)
      BY <1>3, AppendOther
    <2>2. /\ Tokens(main') \subseteq Nat
          /\ \A i \in Tokens(main') : i + 0 \in Tokens(main) /\ main'[i] = main[i + 0]
          /\ \A i \in Tokens(main) : i - 0 \in Tokens(main') /\ main'[i - 0] = main[i]
      BY <1>2, <2>1 DEF SameTokens
    <2> QED BY <1>1, <1>2, <2>2, TokensShift
  <1>8. WriteInv'
    BY <1>1, <1>2, <1>5, QuietStep
  <1> QED BY <1>1, <1>2, <1>5, <1>6, <1>7, <1>8, RemoteStays, InvParts

LEMMA TokenFetchedInv == ASSUME Inv, NEW ask \in asks, TokenFetched(ask) PROVE Inv'
  <1>1. TypeOK /\ RemoteInv /\ ThreadInv /\ TokenInv /\ WriteInv
    BY InvParts
  <1>2. /\ UNCHANGED <<authUser, sdkUser, tokenCounter, worker, session, disk,
                       nextBatchId, callbacks, stream, pipeline, document, verdict,
                       made, owner, outcome, told>>
        /\ asks' = asks \ {ask}
        /\ \E u \in {authUser, Failed} :
              main' = Append(main, [type |-> "token", user |-> u, ask |-> ask])
        /\ Fault \/ faults' = faults
    BY DEF TokenFetched, localVars, remoteVars, serverVars
  <1>3. PICK u \in {authUser, Failed} :
            main' = Append(main, [type |-> "token", user |-> u, ask |-> ask])
    BY <1>2
  <1> DEFINE e == [type |-> "token", user |-> u, ask |-> ask]
  <1>4. /\ e \in MainTask /\ e.type = "token" /\ e.user = u /\ e.ask = ask
        /\ main \in Seq(MainTask)
    BY <1>1 DEF MainTask, TypeOK
  <1>5. main' = Append(main, e)
    BY <1>3
  <1> HIDE DEF e
  <1>6. main' \in Seq(MainTask)
    BY <1>4, <1>5, AppendedTask
  <1>7. TypeOK'
    <2>1. faults' \in 0 .. MaxFaults
      BY <1>1, <1>2, FaultType DEF TypeOK
    <2> QED BY <1>1, <1>2, <1>6, <2>1 DEF TypeOK
  <1>8. ThreadInv'
    <2>1. Leads(main, sdkUser, authUser)
      BY <1>1 DEF ThreadInv
    <2>2. Leads(Append(main, e), sdkUser, After(e, authUser))
      BY <1>3, <1>4, <2>1, AppendLeads
    <2>3. Leads(main', sdkUser', authUser')
      BY <1>2, <1>4, <1>5, <2>2 DEF After
    <2> QED BY <1>1, <1>2, <2>3 DEF ThreadInv, WritesMeetOwner
  <1>9. TokenInv'
    <2> DEFINE k == Len(main) + 1
    <2>1. GainsToken(main, Append(main, e), k, e)
      BY <1>4, AppendToken
    <2>2. /\ k \notin Tokens(main) /\ Tokens(main') = Tokens(main) \cup {k}
          /\ \A i \in Tokens(main) : main'[i] = main[i]
          /\ main'[k].ask = ask
      BY <1>4, <1>5, <2>1 DEF GainsToken
    <2> HIDE DEF k
    <2> QED BY <1>1, <1>2, <2>2, TokenFetchedStep
  <1>10. WriteInv'
    BY <1>1, <1>2, <1>7, QuietStep
  <1> QED BY <1>1, <1>2, <1>7, <1>8, <1>9, <1>10, RemoteStays, InvParts

LEMMA HearAuthStep == ASSUME Inv, HearAuth PROVE Inv'
  <1> DEFINE e == Head(main)
  <1>1. TypeOK /\ RemoteInv /\ ThreadInv /\ TokenInv /\ WriteInv
    BY InvParts
  <1>2. /\ UNCHANGED <<authUser, asks, session, disk, nextBatchId, callbacks, stream,
                       pipeline, document, verdict, made, owner, outcome, told, faults>>
        /\ main # <<>> /\ e.type = "auth" /\ main' = Tail(main)
        /\ sdkUser' = e.user /\ tokenCounter' = tokenCounter + 1
        /\ worker' = Append(worker, e)
    BY DEF HearAuth, localVars, remoteVars, serverVars, history
  <1>3. /\ main \in Seq(MainTask) /\ Tail(main) \in Seq(MainTask)
        /\ e \in WorkerTask /\ e.user \in User /\ worker \in Seq(WorkerTask)
    BY <1>1, <1>2, MainFacts DEF TypeOK
  <1>4. TypeOK'
    <2>1. Append(worker, e) \in Seq(WorkerTask)
      BY <1>3, AppendedTask
    <2>2. tokenCounter' \in Nat
      <3>1. tokenCounter \in Nat
        BY <1>1 DEF TypeOK
      <3> QED BY <1>2, <3>1
    <2> QED BY <1>1, <1>2, <1>3, <2>1, <2>2 DEF TypeOK
  <1>5. ThreadInv'
    <2>1. Leads(main, sdkUser, authUser) /\ Leads(worker, session, sdkUser)
          /\ WritesMeetOwner
      BY <1>1 DEF ThreadInv
    <2>2. Leads(Tail(main), After(e, sdkUser), authUser)
      BY <1>2, <1>3, <2>1, TailLeads
    <2>3. Leads(Append(worker, e), session, After(e, sdkUser))
      BY <1>2, <1>3, <2>1, AppendLeads
    <2>4. After(e, sdkUser) = sdkUser'
      BY <1>2 DEF After
    <2> HIDE DEF e
    <2>5. WritesMeetOwner'
      BY <1>1, <1>2, <1>3, <2>1, WritesMeetAppend
    <2> QED BY <1>2, <2>2, <2>3, <2>4, <2>5 DEF ThreadInv
  <1>6. TokenInv'
    <2>1. SameTokens(main, Tail(main), 1)
      BY <1>2, <1>3, TailOther
    <2>2. /\ Tokens(main') \subseteq Nat
          /\ \A i \in Tokens(main') : i + 1 \in Tokens(main) /\ main'[i] = main[i + 1]
          /\ \A i \in Tokens(main) : i - 1 \in Tokens(main') /\ main'[i - 1] = main[i]
      BY <1>2, <2>1 DEF SameTokens
    <2> HIDE DEF e
    <2>3. SameTokens(worker, Append(worker, e), 0)
      BY <1>2, <1>3, AppendOther
    <2>4. \A i \in Tokens(worker) : i \in Nat /\ i + 0 = i /\ i - 0 = i
      BY <1>1, WorkerFacts DEF Tokens
    <2>5. /\ \A i \in Tokens(worker) : i \in Tokens(worker') /\ worker'[i] = worker[i]
          /\ \A i \in Tokens(worker') : i \in Nat /\ i + 0 \in Tokens(worker)
      BY <1>2, <2>3, <2>4 DEF SameTokens
    <2>6. Tokens(worker') = Tokens(worker)
      <3>1. \A i \in Tokens(worker') : i \in Tokens(worker)
        BY <2>5
      <3> QED BY <2>5, <3>1
    <2> QED BY <1>1, <1>2, <2>2, <2>5, <2>6, TokensShift
  <1>7. WriteInv'
    <2> HIDE DEF e
    <2> QED BY <1>1, <1>2, <1>3, <1>4, QuietStep
  <1> QED BY <1>1, <1>2, <1>4, <1>5, <1>6, <1>7, RemoteStays, InvParts

LEMMA HearTokenStep == ASSUME Inv, HearToken PROVE Inv'
  <1> DEFINE h == Head(main)
             e == [type |-> "token", user |-> Token(h), closes |-> h.ask.closes]
  <1>1. TypeOK /\ RemoteInv /\ ThreadInv /\ TokenInv /\ WriteInv
    BY InvParts
  <1>2. /\ UNCHANGED <<authUser, asks, sdkUser, tokenCounter, session, disk, nextBatchId,
                       callbacks, stream, pipeline, document, verdict, made, owner,
                       outcome, told, faults>>
        /\ main # <<>> /\ h.type = "token" /\ main' = Tail(main)
        /\ worker' = Append(worker, e)
    BY DEF HearToken, localVars, remoteVars, serverVars, history
  <1>3. /\ main \in Seq(MainTask) /\ Tail(main) \in Seq(MainTask)
        /\ h.user \in User \cup {Failed} /\ h.ask.closes \in Nat
        /\ worker \in Seq(WorkerTask)
    BY <1>1, <1>2, MainFacts DEF TypeOK
  <1>4. /\ e.type = "token" /\ e.closes = h.ask.closes
        /\ e.user = Failed \/ e.user = h.user
        /\ e \in WorkerTask
    BY <1>3 DEF Token, WorkerTask
  <1> HIDE DEF e
  <1>5. TypeOK'
    <2>1. Append(worker, e) \in Seq(WorkerTask)
      BY <1>3, <1>4, AppendedTask
    <2> QED BY <1>1, <1>2, <1>3, <2>1 DEF TypeOK
  <1>6. ThreadInv'
    <2>1. Leads(main, sdkUser, authUser) /\ Leads(worker, session, sdkUser)
          /\ WritesMeetOwner
      BY <1>1 DEF ThreadInv
    <2>2. /\ Leads(Tail(main), After(h, sdkUser), authUser)
          /\ h.user # Failed => h.user = sdkUser
      BY <1>2, <1>3, <2>1, TailLeads
    <2>3. Leads(Append(worker, e), session, After(e, sdkUser))
      BY <1>3, <1>4, <2>1, <2>2, AppendLeads
    <2>4. After(h, sdkUser) = sdkUser /\ After(e, sdkUser) = sdkUser
      BY <1>2, <1>4 DEF After
    <2>5. WritesMeetOwner'
      BY <1>1, <1>2, <1>3, <1>4, <2>1, WritesMeetAppend
    <2> QED BY <1>2, <2>2, <2>3, <2>4, <2>5 DEF ThreadInv
  <1>7. TokenInv'
    <2> DEFINE k == Len(worker) + 1
    <2>1. GainsToken(worker, Append(worker, e), k, e)
      BY <1>3, <1>4, AppendToken
    <2>2. /\ 1 \in Tokens(main) /\ h = main[1] /\ Tokens(Tail(main)) \subseteq Nat
          /\ \A i \in Tokens(Tail(main)) :
                 /\ i \in Nat /\ i + 1 \in Tokens(main) /\ i + 1 # 1
                 /\ Tail(main)[i] = main[i + 1]
          /\ \A i \in Tokens(main) : i # 1 =>
                 i - 1 \in Tokens(Tail(main)) /\ Tail(main)[i - 1] = main[i]
      BY <1>2, <1>3, TailToken
    <2>3. /\ k \notin Tokens(worker) /\ Tokens(worker') = Tokens(worker) \cup {k}
          /\ \A i \in Tokens(worker) : worker'[i] = worker[i]
          /\ worker'[k].closes = main[1].ask.closes
      BY <1>2, <1>4, <2>1, <2>2 DEF GainsToken
    <2>4. /\ Tokens(main') \subseteq Nat
          /\ \A i \in Tokens(main') :
                 i + 1 \in Tokens(main) /\ i + 1 # 1 /\ main'[i] = main[i + 1]
          /\ \A i \in Tokens(main) : i # 1 =>
                 i - 1 \in Tokens(main') /\ main'[i - 1] = main[i]
      BY <1>2, <2>2
    <2> HIDE DEF k, h
    <2> QED BY <1>1, <1>2, <2>2, <2>3, <2>4, TokenHeardStep
  <1>8. WriteInv'
    BY <1>1, <1>2, <1>4, <1>5, QuietStep
  <1> QED BY <1>1, <1>2, <1>5, <1>6, <1>7, <1>8, RemoteStays, InvParts

LEMMA MakeWriteStep == ASSUME Inv, MakeWrite PROVE Inv'
  <1> DEFINE e == [type |-> "write", write |-> made']
  <1>1. TypeOK /\ RemoteInv /\ ThreadInv /\ TokenInv /\ WriteInv /\ QueueInv
    BY InvParts DEF Inv
  <1>2. /\ UNCHANGED <<authUser, asks, main, sdkUser, tokenCounter, session, disk,
                       nextBatchId, callbacks, stream, pipeline, document, verdict,
                       outcome, told, faults>>
        /\ made' = made + 1 /\ made < MaxWrites
        /\ owner' = [owner EXCEPT ![made'] = sdkUser]
        /\ worker' = Append(worker, e)
    BY DEF MakeWrite, authVars, localVars, remoteVars, serverVars
  <1>3. /\ made' \in Write /\ made' \in 0 .. MaxWrites /\ made \in Nat
    BY <1>1, <1>2, WritesAssumption DEF TypeOK, Write
  <1>4. /\ e \in WorkerTask /\ e.type = "write" /\ e.write = made'
        /\ worker \in Seq(WorkerTask)
    BY <1>1, <1>3 DEF WorkerTask, TypeOK
  <1> HIDE DEF e
  <1>5. TypeOK'
    <2>1. worker' \in Seq(WorkerTask)
      BY <1>2, <1>4, AppendedTask
    <2>2. owner' \in [Write -> User]
      <3>1. owner \in [Write -> User] /\ sdkUser \in User
        BY <1>1 DEF TypeOK
      <3> QED BY <1>2, <1>3, <3>1
    <2> QED BY <1>1, <1>2, <1>3, <2>1, <2>2 DEF TypeOK
  <1>6. /\ owner'[made'] = sdkUser
        /\ \A w \in Write : w # made' => owner'[w] = owner[w]
    BY <1>1, <1>2, <1>3 DEF TypeOK
  <1>7. ThreadInv'
    <2>1. Leads(main, sdkUser, authUser) /\ Leads(worker, session, sdkUser)
          /\ WritesMeetOwner
      BY <1>1 DEF ThreadInv
    <2>2. Leads(Append(worker, e), session, After(e, sdkUser))
      BY <1>4, <2>1, AppendLeads
    <2>3. After(e, sdkUser) = sdkUser
      BY <1>4 DEF After
    <2>4. \A i \in WriteTasks(worker) :
              owner'[worker[i].write] = owner[worker[i].write]
      <3> SUFFICES ASSUME NEW i \in WriteTasks(worker)
                   PROVE  owner'[worker[i].write] = owner[worker[i].write]
        OBVIOUS
      <3>1. worker[i].write \in Write
        BY <1>1, WorkerFacts
      <3>2. worker[i].write <= made
        BY <1>1 DEF QueueInv
      <3>3. worker[i].write # made'
        BY <1>2, <1>3, <3>1, <3>2 DEF Write
      <3> QED BY <1>6, <3>1, <3>3
    <2>5. Follows(worker, Len(worker), session, sdkUser)
      BY <2>1 DEF Leads
    <2>6. WritesMeetOwner'
      BY <1>1, <1>2, <1>4, <1>6, <2>1, <2>4, <2>5, WritesMeetAppend
    <2> QED BY <1>2, <2>1, <2>2, <2>3, <2>6 DEF ThreadInv
  <1>8. TokenInv'
    <2>1. SameTokens(worker, Append(worker, e), 0)
      BY <1>4, AppendOther
    <2>2. /\ \A i \in Tokens(worker) : i \in Nat /\ i + 0 = i /\ i - 0 = i
          /\ \A i \in Tokens(main) : i \in Nat /\ i + 0 = i /\ i - 0 = i
      <3>1. DOMAIN worker \subseteq Nat /\ DOMAIN main \subseteq Nat
        <4>1. worker \in Seq(WorkerTask) /\ main \in Seq(MainTask)
          BY <1>1 DEF TypeOK
        <4> QED BY <4>1, LenProperties
      <3> QED BY <3>1 DEF Tokens
    <2>3. /\ \A i \in Tokens(worker) : i \in Tokens(worker') /\ worker'[i] = worker[i]
          /\ \A i \in Tokens(worker') : i \in Nat /\ i + 0 \in Tokens(worker)
      BY <1>2, <2>1, <2>2 DEF SameTokens
    <2>4. Tokens(worker') = Tokens(worker)
      <3>1. \A i \in Tokens(worker') : i \in Tokens(worker)
        BY <2>3
      <3> QED BY <2>3, <3>1
    <2>5. /\ Tokens(main') \subseteq Nat
          /\ \A i \in Tokens(main') : i + 0 \in Tokens(main) /\ main'[i] = main[i + 0]
          /\ \A i \in Tokens(main) : i - 0 \in Tokens(main') /\ main'[i - 0] = main[i]
      BY <1>2, <2>2
    <2> QED BY <1>1, <1>2, <2>3, <2>4, <2>5, TokensShift
  <1>9. WriteInv'
    BY <1>1, <1>2, <1>5, MakeWrites
  <1> QED BY <1>1, <1>2, <1>5, <1>7, <1>8, <1>9, RemoteStays, InvParts

LEMMA RestartStep == ASSUME Inv, Restart PROVE Inv'
  <1> DEFINE fresh == [closes |-> 0, counter |-> 0]
  <1>1. TypeOK /\ WriteInv /\ QueueInv
    BY InvParts DEF Inv
  <1>2. /\ stream' \in WriteStream /\ pipeline' \in Seq(Batch) /\ RemoteInv'
        /\ stream'.closes = 0 /\ stream'.answers = <<>>
        /\ stream'.state = "Starting" <=> IsStarted(stream')
    BY <1>1, RestartRemote
  <1>3. /\ asks' = IF IsStarted(stream') THEN {fresh} ELSE {}
        /\ main' = <<>> /\ worker' = <<>> /\ sdkUser' = authUser
        /\ authUser' = authUser /\ session' = authUser /\ tokenCounter' = 0
        /\ nextBatchId' = LoadNextBatchId(disk) /\ callbacks' = {}
        /\ outcome' = [w \in Write |-> IF w \in InMemory THEN "lost" ELSE outcome[w]]
        /\ UNCHANGED <<disk, document, verdict, made, owner, told>>
    BY DEF Restart, serverVars
  <1>4. faults' \in 0 .. MaxFaults
    BY <1>1, FaultType DEF Restart
  <1>5. fresh \in Ask /\ fresh.closes = 0
    BY DEF Ask
  <1> HIDE DEF fresh
  <1>6. TypeOK'
    <2>1. asks' \subseteq Ask
      BY <1>3, <1>5
    <2>2. nextBatchId' \in Nat \ {0}
      BY <1>1, <1>3, NextIdFacts
    <2>3. outcome' \in [Write -> Outcome \cup {"none", "lost"}]
      <3>1. outcome \in [Write -> Outcome \cup {"none", "lost"}]
        BY <1>1 DEF TypeOK
      <3> QED BY <1>3, <3>1
    <2>4. main' \in Seq(MainTask) /\ worker' \in Seq(WorkerTask)
      BY <1>3, EmptySeq
    <2> QED BY <1>1, <1>2, <1>3, <1>4, <2>1, <2>2, <2>3, <2>4 DEF TypeOK
  <1>7. /\ Tokens(main') = {} /\ Tokens(worker') = {} /\ WriteTasks(worker') = {}
        /\ Len(main') = 0 /\ Len(worker') = 0
    BY <1>3 DEF Tokens, WriteTasks
  <1>8. ThreadInv'
    <2>1. \A q, u : Len(q) = 0 /\ Tokens(q) = {} => Leads(q, u, u)
      BY DEF Leads, Follows
    <2>2. Leads(main', sdkUser', authUser') /\ Leads(worker', session', sdkUser')
      BY <1>3, <1>7, <2>1
    <2> QED BY <1>7, <2>2 DEF ThreadInv, WritesMeetOwner
  <1>9. TokenInv'
    <2>1. \A c : c \in AwaitedTokens' <=> \E a \in asks' : a.closes = c
      BY <1>7, AwaitedIsBrought DEF Brings
    <2>2. \A a \in asks' : a = fresh /\ a.closes = 0
      BY <1>3, <1>5
    <2>3. TokenIsAwaited'
      BY <1>2, <1>3, <1>5, <2>1 DEF TokenIsAwaited
    <2>4. \A c \in AwaitedTokens' : c <= stream'.closes
      BY <1>2, <2>1, <2>2
    <2> QED BY <1>7, <2>2, <2>3, <2>4 DEF TokenInv
  <1>10. WriteInv'
    BY <1>1, <1>2, <1>6, RestartWrites
  <1> QED BY <1>2, <1>6, <1>8, <1>9, <1>10, InvParts

(***************************************************************************)
(* The invariant.                                                          *)
(***************************************************************************)

LEMMA InvInit == Init => Inv
  <1> SUFFICES ASSUME Init PROVE Inv
    OBVIOUS
  <1>1. /\ authUser \in User /\ sdkUser = authUser /\ session = authUser
        /\ asks = {} /\ main = <<>> /\ worker = <<>> /\ tokenCounter = 0
        /\ disk = [u \in User |-> <<>>] /\ nextBatchId = 1 /\ callbacks = {}
        /\ stream = FreshWriteStream /\ pipeline = <<>>
        /\ document = [u \in User |-> 0] /\ verdict = [w \in Write |-> "none"]
        /\ made = 0 /\ owner = [w \in Write |-> authUser]
        /\ outcome = [w \in Write |-> "none"] /\ told = [w \in Write |-> "none"]
        /\ faults = 0
    BY DEF Init
  <1>2. /\ stream \in WriteStream
        /\ stream.closes = 0 /\ stream.answers = <<>> /\ stream.state = "Initial"
        /\ StreamOK(stream, <<>>, authUser)
    <2>1. <<>> \in Seq(Write) /\ <<>> \in Seq([write : Write, result : Outcome])
      BY EmptySeq
    <2> QED BY <1>1, <2>1 DEF FreshWriteStream, WriteStream, StreamState, StreamOK,
                              IsOpen, IsStarted
  <1>3. TypeOK
    <2>1. /\ <<>> \in Seq(MainTask) /\ <<>> \in Seq(WorkerTask) /\ <<>> \in Seq(Batch)
      BY EmptySeq
    <2>2. 0 \in 0 .. MaxWrites /\ 0 \in 0 .. MaxFaults
      BY WritesAssumption
    <2> HIDE DEF Write
    <2> QED BY <1>1, <1>2, <2>1, <2>2 DEF TypeOK
  <1>4. /\ Tokens(main) = {} /\ Tokens(worker) = {} /\ WriteTasks(worker) = {}
        /\ Len(main) = 0 /\ Len(worker) = 0
    BY <1>1 DEF Tokens, WriteTasks
  <1>5. \A u \in User : disk[u] = <<>> /\ DOMAIN disk[u] = {}
    BY <1>1
  <1>6. ThreadInv
    <2>1. \A q, u : Len(q) = 0 /\ Tokens(q) = {} => Leads(q, u, u)
      BY DEF Leads, Follows
    <2>2. Leads(main, sdkUser, authUser) /\ Leads(worker, session, sdkUser)
      BY <1>1, <1>4, <2>1
    <2> QED BY <1>4, <2>2 DEF ThreadInv, WritesMeetOwner
  <1>7. TokenInv
    <2>1. \A c : c \notin AwaitedTokens
      BY <1>1, <1>4, AwaitedIsBrought DEF Brings
    <2> QED BY <1>1, <1>2, <1>4, <2>1 DEF TokenInv, TokenIsAwaited
  <1>8. QueueInv
    BY <1>4, <1>5 DEF QueueInv, GrowingIds, GrowingWrites
  <1>9. \A w \in Write : ~Waits(w) /\ w > made /\ outcome[w] = "none"
            /\ told[w] = "none" /\ verdict[w] = "none"
    <2>1. OnDisk = {}
      BY <1>5, OnDiskFacts
    <2>2. InMemory = {}
      BY <1>1 DEF InMemory
    <2> QED BY <1>1, <2>1, <2>2 DEF Waits, Write
  <1>10. OutcomeInv
    BY <1>9 DEF OutcomeInv, Outcome
  <1>11. RemoteInv
    <2> DEFINE e == <<>>
    <2>1. e \in Seq(Batch) /\ Len(e) = 0 /\ DOMAIN e = {}
      BY EmptySeq
    <2>0. e = <<>>
      OBVIOUS
    <2> HIDE DEF e
    <2>2. GrowingIds(e) /\ Room(e) = 0
      <3>1. GrowingIds(e)
        BY <2>1 DEF GrowingIds
      <3>2. Room(e) \in 0 .. Len(e)
        BY <2>1, RoomFacts
      <3>3. Room(e) = 0
        BY <2>1, <3>2
      <3> QED BY <3>1, <3>3
    <2>3. NextBatches(e, 0, MaxPending) = SubSeq(e, 1, Room(e))
      <3>1. 0 \in 0 .. Room(e)
        BY <2>2
      <3> QED BY <2>1, <2>2, <3>1, NextBatchesFacts
    <2>4. SubSeq(e, 1, Room(e)) = e
      <3>1. 0 \in 0 .. Len(e) /\ 0 \in 0 .. Len(e)
        BY <2>1
      <3>2. SubSeq(e, 1, 0) = <<>>
        BY <2>1, <3>1, FrontFacts
      <3> QED BY <2>0, <2>2, <3>2
    <2>5. pipeline = e /\ disk[session] = e /\ StreamOK(stream, e, session)
      BY <1>1, <1>2, <1>5, <2>0
    <2>6. pipeline = NextBatches(disk[session], 0, MaxPending) /\ ~(pipeline # <<>>)
      BY <2>0, <2>3, <2>4, <2>5
    <2> QED BY <2>5, <2>6 DEF RemoteInv, RemoteOK
  <1>12. ServerInv
    <2>1. \A u \in User : document[u] = Newest(u)
      <3> SUFFICES ASSUME NEW u \in User PROVE document[u] = Newest(u)
        OBVIOUS
      <3>1. Applied(u) = {}
        BY <1>9 DEF Applied
      <3>2. {} \subseteq Write
        OBVIOUS
      <3>3. Max({} \cup {0}) \in {} \cup {0}
        BY <3>2, NewestFacts
      <3> QED BY <1>1, <3>1, <3>3 DEF Newest
    <2>2. DOMAIN stream.answers = {}
      BY <1>2
    <2> QED BY <1>9, <2>1, <2>2 DEF ServerInv
  <1>13. ToldIsTrue
    BY <1>1, <1>9 DEF ToldIsTrue, CallbackIsOwn, AcceptedWasApplied, RejectedForRefusal
  <1> QED BY <1>3, <1>6, <1>7, <1>8, <1>10, <1>11, <1>12, <1>13 DEF Inv

LEMMA InvStutter == Inv /\ UNCHANGED vars => Inv'
  <1> SUFFICES ASSUME Inv, UNCHANGED vars PROVE Inv'
    OBVIOUS
  <1>1. /\ UNCHANGED <<authUser, asks, main, sdkUser, tokenCounter, worker, session,
                       disk, nextBatchId, callbacks, stream, pipeline, document,
                       verdict, made, owner, outcome, told, faults>>
    BY DEF vars, authVars, localVars, remoteVars, serverVars, history
  <1>2. TypeOK /\ ThreadInv /\ TokenInv /\ RemoteInv /\ WriteInv
    BY InvParts
  <1>3. TypeOK'
    BY <1>1, <1>2 DEF TypeOK
  <1>4. ThreadInv'
    BY <1>1, <1>2, ThreadStays
  <1>5. TokenInv'
    <2>1. stream \in WriteStream /\ ~AsksToken(stream, stream')
      BY <1>1, <1>2 DEF TypeOK, AsksToken
    <2> QED BY <1>1, <1>2, <2>1, TokenStep
  <1>6. RemoteInv'
    BY <1>1, <1>2, RemoteStays
  <1>7. WriteInv'
    BY <1>1, <1>2, <1>3, QuietStep
  <1> QED BY <1>3, <1>4, <1>5, <1>6, <1>7, InvParts

LEMMA InvNext == Inv /\ [Next]_vars => Inv'
  <1> SUFFICES ASSUME Inv, [Next]_vars PROVE Inv'
    OBVIOUS
  <1>1. CASE \E u \in User : AuthChanges(u)
    BY <1>1, AuthChangesStep
  <1>2. CASE \E ask \in asks : TokenFetched(ask)
    BY <1>2, TokenFetchedInv
  <1>3. CASE HearAuth
    BY <1>3, HearAuthStep
  <1>4. CASE HearToken
    BY <1>4, HearTokenStep
  <1>5. CASE MakeWrite
    BY <1>5, MakeWriteStep
  <1>6. CASE PersistWrite
    BY <1>6, PersistStep
  <1>7. CASE ChangeUser
    BY <1>7, ChangeUserStep
  <1>8. CASE UseToken
    BY <1>8, UseTokenStep
  <1>9. CASE ReadHandshake \/ StreamBreaks \/ BackoffElapses \/ IdleElapses
    BY <1>9, StreamOnlyStep
  <1>10. CASE ReadAnswer \/ ReadRefusal
    BY <1>10, ConcludeStep
  <1>11. CASE ServerGreets \/ ServerApplies \/ ServerRefuses
    BY <1>11, ServerStep
  <1>12. CASE Restart
    BY <1>12, RestartStep
  <1>13. CASE UNCHANGED vars
    BY <1>13, InvStutter
  <1> QED BY <1>1, <1>2, <1>3, <1>4, <1>5, <1>6, <1>7, <1>8, <1>9, <1>10, <1>11,
             <1>12, <1>13 DEF Next

\* Whatever the threads, the server, the network and the ends of the process
\* do in turn, what the proof needs of the state stays true.
THEOREM WritePipelineInvariant == Spec => []Inv
  BY InvInit, InvNext, PTL DEF Spec

(***************************************************************************)
(* What the runs check, for every instance.                                *)
(***************************************************************************)

\* Types: each variable holds what its comment says.
THEOREM TypeCorrect == Spec => []TypeOK
  <1>1. Inv => TypeOK
    BY DEF Inv
  <1> QED BY <1>1, WritePipelineInvariant, PTL

\* No HARD_ASSERT of the write path fails: a token arrives exactly when the
\* stream waits for one, the pipeline is the head of the mutation queue and the
\* ids in it grow, and the idle timer stops no stream that is needed (stream.cc,
\* remote_store.cc, local_store.cc).
THEOREM AssertsSafe == Spec => []AssertsHold
  <1>1. ASSUME Inv PROVE AssertsHold
    <2>1. TokenIsAwaited
      BY <1>1 DEF Inv, TokenInv
    <2>2. PipelineIsQueueHead
      BY <1>1 DEF Inv, QueueInv, GrowingIds, RemoteInv, RemoteOK, PipelineIsQueueHead
    <2>3. IdleIsUnneeded
      BY <1>1 DEF Inv, RemoteInv, RemoteOK, StreamOK, IdleIsUnneeded
    <2> QED BY <2>1, <2>2, <2>3 DEF AssertsHold
  <1>2. Inv => AssertsHold
    BY <1>1
  <1> QED BY <1>2, WritePipelineInvariant, PTL

\* Whatever changes of account meet the worker's tasks and late tokens, a stream
\* carries the batches of the pipeline in its order, under a token of the
\* account that made them (OnMutationResult, HandleCredentialChange).
THEOREM StreamSafe == Spec => []StreamCarriesPipeline
  <1>1. ASSUME Inv PROVE StreamCarriesPipeline
    <2>1. TypeOK /\ QueueInv /\ RemoteInv /\ StreamOK(stream, pipeline, session)
      BY <1>1 DEF Inv, RemoteInv, RemoteOK
    <2>2. AnswersInPipelineOrder
      BY <2>1 DEF StreamOK, AnswersInPipelineOrder
    <2>3. \A u \in User : \A b \in ToSet(disk[u]) : owner[b.write] = u
      BY <2>1 DEF QueueInv, ToSet
    <2>4. ASSUME NEW w \in ToSet(stream.sent) PROVE owner[w] = stream.token
      <3>1. PICK i \in DOMAIN stream.sent : stream.sent[i] = w
        BY DEF ToSet
      <3>2. stream.hello = "done"
        <4>1. DOMAIN <<>> = {}
          BY EmptySeq
        <4> QED BY <2>1, <3>1, <4>1 DEF StreamOK
      <3>3. stream.token = session
        BY <2>1, <3>2 DEF StreamOK
      <3>4. \E j \in DOMAIN pipeline : pipeline[j].write = w
        <4> DEFINE a == Writes(stream.answers)
                   s == stream.sent
                   p == Writes(pipeline)
        <4>1. /\ a \in Seq(Write) /\ s \in Seq(Write)
          <5>1. stream.answers \in Seq([write : Write, result : Outcome]) /\ s \in Seq(Write)
            BY <2>1, StreamFacts DEF TypeOK
          <5>2. \A x \in [write : Write, result : Outcome] : x.write \in Write
            OBVIOUS
          <5> QED BY <5>1, <5>2, WritesFacts
        <4>2. a \o s = p
          BY <2>1, <3>2 DEF StreamOK
        <4>3. i \in 1 .. Len(s) /\ s[i] = w
          BY <3>1, <4>1, LenProperties
        <4>4. DOMAIN p = DOMAIN pipeline /\ \A j \in DOMAIN p : p[j] = pipeline[j].write
          BY DEF Writes
        <4> HIDE DEF a, s, p
        <4>5. Len(a) + i \in DOMAIN p /\ p[Len(a) + i] = w
          <5>1. Len(a) \in Nat /\ Len(s) \in Nat
            BY <4>1, LenProperties
          <5>2. /\ Len(a \o s) = Len(a) + Len(s) /\ a \o s \in Seq(Write)
                /\ \A k \in 1 .. Len(a) + Len(s) :
                       (a \o s)[k] = IF k <= Len(a) THEN a[k] ELSE s[k - Len(a)]
            BY <4>1, ConcatProperties
          <5>3. DOMAIN (a \o s) = 1 .. Len(a) + Len(s)
            BY <5>2, LenProperties
          <5>4. /\ Len(a) + i \in 1 .. Len(a) + Len(s) /\ ~(Len(a) + i <= Len(a))
                /\ (Len(a) + i) - Len(a) = i
            BY <4>3, <5>1
          <5> QED BY <4>2, <4>3, <5>2, <5>3, <5>4
        <4> QED BY <4>4, <4>5
      <3>5. PICK j \in DOMAIN pipeline : pipeline[j].write = w
        BY <3>4
      <3>6. \E k \in DOMAIN disk[session] : disk[session][k] = pipeline[j]
        <4>1. /\ pipeline \in Seq(Batch) /\ Len(pipeline) = Room(disk[session])
              /\ Room(disk[session]) \in 0 .. Len(disk[session])
              /\ \A k \in 1 .. Room(disk[session]) : pipeline[k] = disk[session][k]
              /\ DOMAIN disk[session] = 1 .. Len(disk[session])
              /\ Len(disk[session]) \in Nat
          BY <2>1, PipelineFacts
        <4>2. j \in 1 .. Room(disk[session])
          BY <3>5, <4>1, LenProperties
        <4> QED BY <4>1, <4>2
      <3>7. session \in User
        BY <2>1 DEF TypeOK
      <3> QED BY <2>1, <3>3, <3>5, <3>6, <3>7 DEF QueueInv
    <2> QED BY <2>2, <2>3, <2>4 DEF StreamCarriesPipeline, SentAsOwner
  <1>2. Inv => StreamCarriesPipeline
    BY <1>1
  <1> QED BY <1>2, WritePipelineInvariant, PTL

\* The SDK takes a write for accepted only if the server has applied that write,
\* drops one only because the server has refused it or a later one, and tells
\* each callback what has become of its own write (OnMutationResult,
\* HandleWriteError, NotifyUser).
THEOREM ToldSafe == Spec => []ToldIsTrue
  <1>1. Inv => ToldIsTrue
    BY DEF Inv
  <1> QED BY <1>1, WritePipelineInvariant, PTL

\* Nobody has anything to do, so the account in use is the one that is signed
\* in, and no token is on its way.
LEMMA RestFacts ==
  ASSUME Inv, AtRest
  PROVE  session = authUser /\ stream.state # "Starting"
  <1>1. TypeOK /\ ThreadInv /\ TokenIsAwaited
    BY DEF Inv, TokenInv
  <1>2. asks = {} /\ main = <<>> /\ worker = <<>>
    BY DEF AtRest
  <1>3. ASSUME NEW u0, NEW u, Leads(<<>>, u0, u) PROVE u = u0
    <2>1. Len(<<>>) = 0 /\ 1 .. 0 = {}
      BY EmptySeq
    <2> QED BY <1>3, <2>1 DEF Leads, Follows
  <1>4. session = authUser
    BY <1>1, <1>2, <1>3 DEF ThreadInv
  <1>5. ToSet(<<>>) = {}
    BY EmptySeq DEF ToSet
  <1>6. AwaitedTokens = {}
    BY <1>2, <1>5 DEF AwaitedTokens
  <1> QED BY <1>1, <1>4, <1>6 DEF TokenIsAwaited

\* A batch on disk is in the pipeline, the pipeline has a stream, and the stream
\* waits for a token on its way, a timer, the server or the worker.
LEMMA RestHasNoBatch ==
  ASSUME Inv, AtRest
  PROVE  disk[authUser] = <<>>
  <1> DEFINE queue == disk[session]
  <1>1. TypeOK /\ QueueInv /\ RemoteInv
    BY DEF Inv
  <1>2. session = authUser /\ stream.state # "Starting"
    BY RestFacts
  <1>3. /\ queue \in Seq(Batch) /\ pipeline \in Seq(Batch)
        /\ Len(pipeline) = Room(queue)
        /\ stream \in WriteStream /\ StreamOK(stream, pipeline, session)
        /\ pipeline # <<>> => IsStarted(stream)
    BY <1>1, PipelineFacts
  <1>4. pipeline = <<>>
    <2> SUFFICES ASSUME pipeline # <<>> PROVE FALSE
      OBVIOUS
    <2>1. IsOpen(stream)
      BY <1>2, <1>3 DEF IsStarted, IsOpen, AtRest
    <2>2. stream.hello \in {"no", "asked", "answered", "done"}
      BY <1>3 DEF WriteStream
    <2>3. stream.hello = "done"
      BY <1>3, <2>1, <2>2 DEF StreamOK, AtRest
    <2>4. Writes(<<>>) \o <<>> = Writes(pipeline)
      BY <1>3, <2>3 DEF StreamOK, AtRest
    <2>5. Writes(<<>>) \o <<>> = <<>>
      <3>1. Writes(<<>>) = <<>>
        BY EmptySeq DEF Writes
      <3>2. <<>> \o <<>> = <<>>
        BY EmptySeq, ConcatEmptySeq
      <3> QED BY <3>1, <3>2
    <2>6. Len(Writes(pipeline)) = Len(pipeline)
      <3>1. \A b \in Batch : b.write \in Write
        BY DEF Batch
      <3> QED BY <1>3, <3>1, WritesFacts
    <2>7. Len(pipeline) = 0
      BY <2>4, <2>5, <2>6, EmptySeq
    <2> QED BY <1>3, <2>7, EmptySeq
  <1>5. Len(queue) = 0
    <2>1. Room(queue) = 0
      BY <1>3, <1>4, EmptySeq
    <2> QED BY <1>3, <2>1, RoomFacts
  <1>6. queue = <<>>
    BY <1>3, <1>5, EmptySeq
  <1> QED BY <1>2, <1>6

\* Whatever was cut off and sent again: the SDK comes to rest only when all
\* writes of the account that is signed in are answered, and the server then
\* shows the newest of those it has accepted (FillWritePipeline,
\* OnWriteStreamClose).
THEOREM SettledSafe == Spec => []Settles
  <1>1. ASSUME Inv PROVE SettledIsNewest
    <2> SUFFICES ASSUME NEW u \in User, disk[u] = <<>>
                 PROVE  document[u] = Max(Applied(u) \cup {0})
      BY DEF SettledIsNewest
    <2>1. DOMAIN disk[u] = {}
      BY EmptySeq
    <2> QED BY <1>1, <2>1 DEF Inv, ServerInv, Newest
  <1>2. ASSUME Inv PROVE RestIsEmpty
    BY <1>2, RestHasNoBatch DEF RestIsEmpty
  <1>3. Inv => Settles
    BY <1>1, <1>2 DEF Settles
  <1> QED BY <1>3, WritePipelineInvariant, PTL

\* The writes of an account are answered in the order in which they were made,
\* over broken streams, changes of account and ends of the process: with an
\* answer to a later write, no earlier one is still waiting (OnMutationResult,
\* GetNextMutationBatch).
THEOREM WritesInOrder == Spec => []Abstract!AnswersInOrder
  <1>1. ASSUME Inv PROVE Abstract!AnswersInOrder
    <2>1. TypeOK /\ OutcomeInv
      BY <1>1 DEF Inv
    <2>2. 1 .. made \subseteq Write
      BY <2>1, WritesAssumption DEF TypeOK, Write
    <2>3. \A w \in Write : outcome[w] \notin {"memory", "disk"}
      BY <2>1 DEF TypeOK, Outcome
    <2>4. \A w \in Write : Place(w) \in {"memory", "disk"} => Waits(w)
      BY <2>3 DEF Place, Waits
    <2>5. \A w \in Write : Place(w) \in Outcome => outcome[w] \in Outcome
      BY DEF Place, Outcome
    <2>6. ASSUME NEW v \in 1 .. made, NEW w \in 1 .. made,
                 v < w, owner[v] = owner[w], Place(w) \in Outcome
          PROVE  Place(v) \notin {"memory", "disk"}
      BY <2>1, <2>2, <2>4, <2>5, <2>6 DEF OutcomeInv
    <2> QED BY <2>6 DEF Abstract!AnswersInOrder, Abstract!Outcome, Outcome
  <1>2. Inv => Abstract!AnswersInOrder
    BY <1>1
  <1> QED BY <1>2, WritePipelineInvariant, PTL

(***************************************************************************)
(* The pipeline keeps to Delivery, the contract with the shop.             *)
(***************************************************************************)

\* the writes of Delivery that stand for those of the pipeline
Deliveries == [w \in 1 .. made |-> [owner |-> owner[w], place |-> Place(w)]]

\* Where a write is: its outcome names neither the memory nor the disk.
LEMMA PlaceFacts ==
  ASSUME TypeOK, TypeOK', QueueInv
  PROVE  /\ made \in Nat /\ 1 .. made \subseteq Write
         /\ DOMAIN Deliveries = 1 .. made
         /\ \A w \in 1 .. made : /\ Deliveries[w].owner = owner[w]
                                 /\ Deliveries[w].place = Place(w)
         /\ \A w \in Write : /\ Place(w) = "memory" <=> w \in InMemory
                             /\ Place(w) = "disk" <=> w \in OnDisk
         /\ \A w \in Write : Place(w)' = IF w \in InMemory' THEN "memory"
                                         ELSE IF w \in OnDisk' THEN "disk"
                                         ELSE outcome'[w]
         /\ InMemory \subseteq 1 .. made /\ OnDisk \subseteq 1 .. made
  <1>1. made \in Nat /\ 1 .. made \subseteq Write
    BY WritesAssumption DEF TypeOK, Write
  <1>2. \A w \in Write : outcome[w] # "memory" /\ outcome[w] # "disk"
    BY DEF TypeOK, Outcome
  <1>3. \A v \in OnDisk : v \notin InMemory
    <2>1. \A v \in OnDisk : v \in Int
      BY DiskIsOlder DEF Write
    <2> QED BY <2>1, DiskIsOlder
  <1>4. \A w \in Write : /\ Place(w) = "memory" <=> w \in InMemory
                         /\ Place(w) = "disk" <=> w \in OnDisk
    BY <1>2, <1>3 DEF Place
  <1>5. \A w \in Write : Place(w)' = IF w \in InMemory' THEN "memory"
                                     ELSE IF w \in OnDisk' THEN "disk"
                                     ELSE outcome'[w]
    BY DEF Place
  <1>6. \A w \in Write : w <= made => w \in 1 .. made
    BY <1>1 DEF Write
  <1>7. InMemory \subseteq 1 .. made /\ OnDisk \subseteq 1 .. made
    BY <1>6, DiskIsOlder
  <1> QED BY <1>1, <1>4, <1>5, <1>7 DEF Deliveries

\* MakeWrite is Make.
LEMMA ContractMake ==
  ASSUME Inv, Inv', MakeWrite PROVE \E u \in User : Abstract!Make(u)
  <1>0. PICK k : k = made + 1
    OBVIOUS
  <1> DEFINE e == Abstract!Made(sdkUser)
             S == {Deliveries[w] : w \in 1 .. made} \cup {e}
  <1>1. TypeOK /\ TypeOK' /\ QueueInv
    BY DEF Inv
  <1>2. /\ made' = k /\ k \in Write /\ owner'[k] = sdkUser
        /\ \A w \in Write : w # k => owner'[w] = owner[w]
        /\ InMemory' = InMemory \cup {k} /\ OnDisk' = OnDisk
    BY <1>0, <1>1, MakeFacts
  <1>3. outcome' = outcome
    BY DEF MakeWrite
  <1>4. /\ made \in Nat /\ DOMAIN Deliveries = 1 .. made
        /\ \A w \in 1 .. made : w \in Write /\ w # k /\ w \in 1 .. k
        /\ \A w \in 1 .. k : w # k => w \in 1 .. made
        /\ k \in 1 .. k /\ k = made + 1
    BY <1>0, <1>1, PlaceFacts
  <1>5. /\ Place(k)' = "memory"
        /\ \A w \in 1 .. made : Place(w)' = Place(w)
    <2>1. \A w \in 1 .. made : w \in InMemory' <=> w \in InMemory
      BY <1>2, <1>4
    <2>2. \A w \in 1 .. made : Place(w)' = IF w \in InMemory' THEN "memory"
                                           ELSE IF w \in OnDisk' THEN "disk"
                                           ELSE outcome'[w]
      BY <1>1, <1>4, PlaceFacts
    <2>3. Place(k)' = "memory"
      BY <1>1, <1>2, PlaceFacts
    <2> QED BY <1>2, <1>3, <2>1, <2>2, <2>3 DEF Place
  <1>6. /\ Deliveries' = [w \in 1 .. k |-> [owner |-> owner'[w], place |-> Place(w)']]
    BY <1>2 DEF Deliveries
  <1>7. \A w \in 1 .. made : Deliveries'[w] = Deliveries[w]
    BY <1>2, <1>4, <1>5, <1>6 DEF Deliveries
  <1>8. Deliveries'[k] = e
    BY <1>2, <1>4, <1>5, <1>6 DEF Abstract!Made
  <1>9. Deliveries \in Seq(S) /\ Len(Deliveries) = made /\ e \in S
    <2>1. Deliveries \in [1 .. made -> S]
      BY <1>4 DEF Deliveries
    <2> HIDE DEF S
    <2>2. Deliveries \in Seq(S)
      BY <1>4, <2>1, SeqDef
    <2>3. Len(Deliveries) = made
      BY <1>4, <2>2, LenProperties
    <2>4. e \in S
      BY DEF S
    <2> QED BY <2>2, <2>3, <2>4
  <1>10. Deliveries' = Append(Deliveries, e)
    <2> HIDE DEF e, S
    <2>1. /\ DOMAIN Append(Deliveries, e) = 1 .. k
          /\ \A w \in 1 .. made : Append(Deliveries, e)[w] = Deliveries[w]
          /\ Append(Deliveries, e)[k] = e
          /\ Append(Deliveries, e) \in Seq(S)
      BY <1>4, <1>9, AppendedTask
    <2>2. Append(Deliveries, e) = [w \in 1 .. k |-> Append(Deliveries, e)[w]]
      <3>1. Append(Deliveries, e) \in [1 .. k -> S]
        <4>1. Len(Append(Deliveries, e)) = k
          BY <1>4, <1>9, AppendedTask
        <4> QED BY <2>1, <4>1, LenProperties
      <3> QED BY <3>1
    <2>3. Deliveries' = [w \in 1 .. k |-> Deliveries'[w]]
      BY <1>6
    <2>4. \A w \in 1 .. k : Deliveries'[w] = Append(Deliveries, e)[w]
      BY <1>4, <1>7, <1>8, <2>1
    <2> QED BY <2>2, <2>3, <2>4
  <1>11. sdkUser \in User
    BY <1>1 DEF TypeOK
  <1> QED BY <1>10, <1>11 DEF Abstract!Make, Deliveries

\* A write that changes its place.
LEMMA ContractSetPlace ==
  ASSUME TypeOK, TypeOK', QueueInv, made' = made, owner' = owner,
         NEW w \in 1 .. made, NEW p, Place(w)' = p,
         \A v \in 1 .. made : v # w => Place(v)' = Place(v)
  PROVE  Deliveries' = [Deliveries EXCEPT ![w].place = p]
  <1>1. Deliveries' = [v \in 1 .. made |->
                          [owner |-> owner[v], place |-> IF v = w THEN p ELSE Place(v)]]
    BY DEF Deliveries
  <1>2. [Deliveries EXCEPT ![w].place = p] =
            [v \in 1 .. made |->
                [owner |-> owner[v], place |-> IF v = w THEN p ELSE Place(v)]]
    <2>1. [Deliveries EXCEPT ![w].place = p] =
              [Deliveries EXCEPT ![w] = [Deliveries[w] EXCEPT !.place = p]]
      OBVIOUS
    <2>2. [Deliveries[w] EXCEPT !.place = p] = [owner |-> owner[w], place |-> p]
      BY DEF Deliveries
    <2> QED BY <2>1, <2>2 DEF Deliveries
  <1> QED BY <1>1, <1>2

\* PersistWrite is Persist.
LEMMA ContractPersist ==
  ASSUME Inv, Inv', PersistWrite
  PROVE  \E w \in 1 .. made : Abstract!Persist(w)
  <1> DEFINE b == [id |-> nextBatchId, write |-> Head(worker).write]
  <1>0. PICK w : w = b.write
    OBVIOUS
  <1>1. TypeOK /\ TypeOK' /\ QueueInv /\ ThreadInv
    BY DEF Inv
  <1>2. /\ b \in Batch /\ w \in InMemory
        /\ \A i \in WriteTasks(worker') : w < worker'[i].write
        /\ InMemory' = InMemory \ {w} /\ OnDisk' = OnDisk \cup {w}
    BY <1>0, <1>1, PersistFacts
  <1>3. made' = made /\ owner' = owner /\ outcome' = outcome
    BY DEF PersistWrite, history
  <1> HIDE DEF b
  <1>4. /\ w \in 1 .. made /\ 1 .. made \subseteq Write /\ made \in Nat
        /\ DOMAIN Deliveries = 1 .. made /\ InMemory \subseteq 1 .. made
        /\ \A v \in 1 .. made : Deliveries[v].place = Place(v)
        /\ \A v \in 1 .. made : Place(v) = "memory" <=> v \in InMemory
    BY <1>1, <1>2, PlaceFacts
  <1>5. \A v \in 1 .. made : Place(v)' = IF v \in InMemory' THEN "memory"
                                         ELSE IF v \in OnDisk' THEN "disk"
                                         ELSE outcome'[v]
    BY <1>1, <1>4, PlaceFacts
  <1>6. Deliveries' = [Deliveries EXCEPT ![w].place = "disk"]
    <2>1. Place(w)' = "disk"
      BY <1>2, <1>4, <1>5
    <2>2. \A v \in 1 .. made : v # w => Place(v)' = Place(v)
      BY <1>2, <1>3, <1>5 DEF Place
    <2> QED BY <1>1, <1>3, <1>4, <2>1, <2>2, ContractSetPlace
  <1>7. {v \in DOMAIN Deliveries : Deliveries[v].place = "memory"} = InMemory
    BY <1>4
  <1>8. \A v \in InMemory : w <= v
    <2> SUFFICES ASSUME NEW v \in InMemory, v # w PROVE w <= v
      BY <1>4
    <2>1. v \in InMemory' /\ v \in Write /\ v \in Nat /\ w \in Nat
      BY <1>2, <1>4
    <2>2. PICK i \in WriteTasks(worker') : worker'[i].write = v
      BY <1>1, <2>1, InMemoryFacts
    <2>3. w < v
      BY <1>2, <2>2
    <2> QED BY <2>1, <2>3
  <1>9. Abstract!First({v \in DOMAIN Deliveries : Deliveries[v].place = "memory"}, w)
    BY <1>2, <1>7, <1>8 DEF Abstract!First
  <1> QED BY <1>4, <1>6, <1>9 DEF Abstract!Persist, Deliveries

\* ReadAnswer and ReadRefusal are Answer.
LEMMA ContractAnswer ==
  ASSUME Inv, Inv', ReadAnswer \/ ReadRefusal
  PROVE  \E w \in 1 .. made : \E result \in Outcome : Abstract!Answer(w, result)
  <1> DEFINE b == disk[session][1]
  <1>0. PICK w : w = b.write
    OBVIOUS
  <1>1. TypeOK /\ TypeOK' /\ QueueInv /\ RemoteInv
    BY DEF Inv
  <1>2. PICK result \in Outcome : Conclude(Head(pipeline), result)
    BY DEF ReadAnswer, ReadRefusal, Outcome
  <1>3. worker' = worker /\ stream.answers # <<>>
    BY DEF ReadAnswer, ReadRefusal, Refused
  <1>4. /\ session \in User /\ b \in Batch /\ w \in OnDisk /\ owner[w] = session
        /\ Head(pipeline) = b
        /\ \A j \in DOMAIN disk[session] : j # 1 => w < disk[session][j].write
        /\ OnDisk' = OnDisk \ {w}
    BY <1>0, <1>1, <1>2, <1>3, ConcludeFacts
  <1>5. made' = made /\ owner' = owner /\ outcome' = [outcome EXCEPT ![w] = result]
    BY <1>0, <1>2, <1>4 DEF Conclude
  <1> HIDE DEF b
  <1>6. InMemory' = InMemory
    BY <1>3 DEF InMemory
  <1>7. /\ w \in 1 .. made /\ w \in Write /\ 1 .. made \subseteq Write /\ made \in Nat
        /\ DOMAIN Deliveries = 1 .. made /\ OnDisk \subseteq 1 .. made
        /\ \A v \in 1 .. made : /\ Deliveries[v].owner = owner[v]
                                /\ Deliveries[v].place = Place(v)
        /\ \A v \in 1 .. made : Place(v) = "disk" <=> v \in OnDisk
        /\ Place(w) # "memory" /\ w \notin InMemory
    <2>1. /\ w \in 1 .. made /\ w \in Write /\ 1 .. made \subseteq Write /\ made \in Nat
          /\ DOMAIN Deliveries = 1 .. made /\ OnDisk \subseteq 1 .. made
          /\ \A v \in 1 .. made : /\ Deliveries[v].owner = owner[v]
                                  /\ Deliveries[v].place = Place(v)
          /\ \A v \in 1 .. made : Place(v) = "disk" <=> v \in OnDisk
      BY <1>1, <1>4, PlaceFacts
    <2>2. Place(w) = "disk"
      BY <1>4, <2>1
    <2>3. Place(w) = "memory" <=> w \in InMemory
      BY <1>1, <2>1, PlaceFacts
    <2> QED BY <2>1, <2>2, <2>3
  <1>8. \A v \in 1 .. made : Place(v)' = IF v \in InMemory' THEN "memory"
                                         ELSE IF v \in OnDisk' THEN "disk"
                                         ELSE outcome'[v]
    BY <1>1, <1>7, PlaceFacts
  <1>9. outcome \in [Write -> Outcome \cup {"none", "lost"}]
    BY <1>1 DEF TypeOK
  <1>10. Deliveries' = [Deliveries EXCEPT ![w].place = result]
    <2>1. Place(w)' = result
      <3>1. w \notin InMemory' /\ w \notin OnDisk' /\ outcome'[w] = result
        BY <1>4, <1>5, <1>6, <1>7, <1>9
      <3> QED BY <1>7, <1>8, <3>1
    <2>2. ASSUME NEW v \in 1 .. made, v # w PROVE Place(v)' = Place(v)
      <3>1. /\ v \in InMemory' <=> v \in InMemory
            /\ v \in OnDisk' <=> v \in OnDisk
            /\ outcome'[v] = outcome[v]
        BY <1>4, <1>5, <1>6, <1>7, <1>9, <2>2
      <3> QED BY <1>8, <3>1 DEF Place
    <2> QED BY <1>1, <1>5, <1>7, <2>1, <2>2, ContractSetPlace
  <1> DEFINE S == {v \in DOMAIN Deliveries :
                      /\ Deliveries[v].place = "disk"
                      /\ Deliveries[v].owner = Deliveries[w].owner}
  <1>11. w \in S
    BY <1>4, <1>7
  <1>12. \A v \in S : w <= v
    <2> SUFFICES ASSUME NEW v \in S PROVE w <= v
      OBVIOUS
    <2>1. v \in 1 .. made /\ v \in OnDisk /\ owner[v] = session
      BY <1>4, <1>7
    <2>2. PICK j \in DOMAIN disk[session] : disk[session][j].write = v
      BY <1>1, <2>1, DiskIsOlder
    <2>3. CASE j = 1
      <3>1. v = w
        BY <1>0, <2>2, <2>3 DEF b
      <3> QED BY <1>7, <3>1
    <2>4. CASE j # 1
      <3>1. w < v
        BY <1>4, <2>2, <2>4
      <3> QED BY <1>7, <2>1, <3>1
    <2> QED BY <2>3, <2>4
  <1>13. Abstract!First(S, w)
    BY <1>11, <1>12 DEF Abstract!First
  <1> QED BY <1>7, <1>10, <1>13 DEF Abstract!Answer, Deliveries

\* Restart is Crash.
LEMMA ContractCrash ==
  ASSUME Inv, Inv', Restart PROVE Abstract!Crash
  <1>1. TypeOK /\ TypeOK' /\ QueueInv
    BY DEF Inv
  <1>2. /\ made' = made /\ owner' = owner /\ disk' = disk /\ worker' = <<>>
        /\ outcome' = [w \in Write |-> IF w \in InMemory THEN "lost" ELSE outcome[w]]
    BY DEF Restart
  <1>3. InMemory' = {} /\ OnDisk' = OnDisk
    BY <1>2 DEF InMemory, OnDisk
  <1>4. /\ 1 .. made \subseteq Write /\ DOMAIN Deliveries = 1 .. made
        /\ \A v \in 1 .. made : /\ Deliveries[v].owner = owner[v]
                                /\ Deliveries[v].place = Place(v)
        /\ \A v \in 1 .. made : /\ Place(v) = "memory" <=> v \in InMemory
                                /\ Place(v) = "disk" <=> v \in OnDisk
    BY <1>1, PlaceFacts
  <1>5. \A v \in 1 .. made : Place(v)' = IF v \in InMemory' THEN "memory"
                                         ELSE IF v \in OnDisk' THEN "disk"
                                         ELSE outcome'[v]
    BY <1>1, <1>4, PlaceFacts
  <1>6. ASSUME NEW v \in 1 .. made
        PROVE  Place(v)' = IF Place(v) = "memory" THEN "lost" ELSE Place(v)
    <2>1. CASE v \in InMemory
      <3>1. Place(v) = "memory" /\ v \notin OnDisk
        BY <1>4, <2>1
      <3>2. outcome'[v] = "lost"
        BY <1>2, <1>4, <2>1
      <3> QED BY <1>3, <1>5, <3>1, <3>2
    <2>2. CASE v \notin InMemory
      <3>1. outcome'[v] = outcome[v] /\ Place(v) # "memory"
        BY <1>2, <1>4, <2>2
      <3> QED BY <1>3, <1>5, <2>2, <3>1 DEF Place
    <2> QED BY <2>1, <2>2
  <1>7. Deliveries' = [v \in 1 .. made |->
                          [owner |-> owner[v],
                           place |-> IF Place(v) = "memory" THEN "lost" ELSE Place(v)]]
    BY <1>2, <1>6 DEF Deliveries
  <1>8. \A v \in 1 .. made :
            (IF Deliveries[v].place = "memory"
             THEN [Deliveries[v] EXCEPT !.place = "lost"]
             ELSE Deliveries[v]) =
            [owner |-> owner[v],
             place |-> IF Place(v) = "memory" THEN "lost" ELSE Place(v)]
    BY DEF Deliveries
  <1>9. Deliveries' = [v \in DOMAIN Deliveries |->
                          IF Deliveries[v].place = "memory"
                          THEN [Deliveries[v] EXCEPT !.place = "lost"]
                          ELSE Deliveries[v]]
    BY <1>4, <1>7, <1>8
  <1> QED BY <1>9 DEF Abstract!Crash, Deliveries

\* What neither makes, moves nor answers a write does not show.
LEMMA ContractStays ==
  ASSUME TypeOK, TypeOK', QueueInv,
         \/ worker' = worker
         \/ \E e \in WorkerTask : e.type # "write" /\ worker' = Append(worker, e)
         \/ worker # <<>> /\ Head(worker).type # "write" /\ worker' = Tail(worker),
         UNCHANGED <<disk, made, owner, outcome>>
  PROVE  Deliveries' = Deliveries
  <1>1. PICK a \in {0, 1} : SameWrites(worker, worker', a)
    BY WritesStay
  <1>2. InMemory' = InMemory
    BY <1>1, MemoryStays
  <1>3. OnDisk' = OnDisk
    BY DEF OnDisk
  <1>4. \A w \in Write : Place(w)' = Place(w)
    BY <1>2, <1>3 DEF Place
  <1>5. 1 .. made \subseteq Write
    BY PlaceFacts
  <1>6. \A w \in 1 .. made : Place(w)' = Place(w)
    BY <1>4, <1>5
  <1> QED BY <1>6 DEF Deliveries

\* Every step of WritePipeline is a step or a stutter of Delivery.
LEMMA ContractStep ==
  ASSUME Inv, Inv', [Next]_vars PROVE Abstract!Next \/ UNCHANGED Deliveries
  <1>0. TypeOK /\ TypeOK' /\ QueueInv
    BY DEF Inv
  <1>1. CASE MakeWrite
    BY <1>1, ContractMake DEF Abstract!Next
  <1>2. CASE PersistWrite
    <2>1. \E w \in DOMAIN Deliveries : Abstract!Persist(w)
      BY <1>2, ContractPersist DEF Deliveries
    <2> QED BY <2>1 DEF Abstract!Next, Deliveries
  <1>3. CASE ReadAnswer \/ ReadRefusal
    <2>1. \E w \in DOMAIN Deliveries : \E result \in Outcome : Abstract!Answer(w, result)
      BY <1>3, ContractAnswer DEF Deliveries
    <2> QED BY <2>1 DEF Abstract!Next, Abstract!Outcome, Outcome, Deliveries
  <1>4. CASE Restart
    BY <1>4, ContractCrash DEF Abstract!Next
  <1>5. CASE \/ \E u \in User : AuthChanges(u)
             \/ \E ask \in asks : TokenFetched(ask)
             \/ ReadHandshake \/ StreamBreaks \/ BackoffElapses \/ IdleElapses
             \/ ServerGreets \/ ServerApplies \/ ServerRefuses \/ UNCHANGED vars
    <2>1. worker' = worker /\ UNCHANGED <<disk, made, owner, outcome>>
      BY <1>5 DEF AuthChanges, TokenFetched, ReadHandshake, StreamBreaks,
         BackoffElapses, IdleElapses, ServerGreets, ServerApplies, ServerRefuses,
         ServerReads, Fault, vars, localVars, history
    <2> QED BY <1>0, <2>1, ContractStays
  <1>6. CASE HearAuth \/ HearToken
    <2>1. /\ UNCHANGED <<disk, made, owner, outcome>>
          /\ \E e \in WorkerTask : e.type # "write" /\ worker' = Append(worker, e)
      <3>1. CASE HearAuth
        <4>1. main # <<>> /\ Head(main).type = "auth" /\ worker' = Append(worker, Head(main))
          BY <3>1 DEF HearAuth
        <4>2. Head(main) \in WorkerTask
          BY <1>0, <4>1, MainFacts
        <4> QED BY <3>1, <4>1, <4>2 DEF HearAuth, localVars, history
      <3>2. CASE HearToken
        <4> DEFINE h == Head(main)
                   e == [type |-> "token", user |-> Token(h), closes |-> h.ask.closes]
        <4>1. main # <<>> /\ h.type = "token" /\ worker' = Append(worker, e)
          BY <3>2 DEF HearToken
        <4>2. h.user \in User \cup {Failed} /\ h.ask.closes \in Nat
          BY <1>0, <4>1, MainFacts
        <4>3. e \in WorkerTask /\ e.type # "write"
          BY <4>2 DEF Token, WorkerTask
        <4> HIDE DEF e
        <4> QED BY <3>2, <4>1, <4>3 DEF HearToken, localVars, history
      <3> QED BY <1>6, <3>1, <3>2
    <2> QED BY <1>0, <2>1, ContractStays
  <1>7. CASE ChangeUser \/ UseToken
    <2>1. /\ worker # <<>> /\ Head(worker).type # "write" /\ worker' = Tail(worker)
          /\ UNCHANGED <<disk, made, owner, outcome>>
      BY <1>7 DEF ChangeUser, UseToken, NextTask, localVars, history
    <2> QED BY <1>0, <2>1, ContractStays
  <1> QED BY <1>1, <1>2, <1>3, <1>4, <1>5, <1>6, <1>7 DEF Next

\* Every behaviour of the pipeline is one of Delivery: a write is made in memory,
\* reaches the disk, is answered in the turn of its account, or is lost with the
\* process (SyncEngine, LocalStore, RemoteStore).
THEOREM DeliveryImplemented == Spec => DeliverySpec
  <1>1. Init => Abstract!Init
    <2> SUFFICES ASSUME Init PROVE Deliveries = <<>>
      BY DEF Abstract!Init, Deliveries
    <2>1. made = 0
      BY DEF Init
    <2>2. 1 .. made = {}
      BY <2>1
    <2> QED BY <2>2 DEF Deliveries
  <1>2. Inv /\ Inv' /\ [Next]_vars => [Abstract!Next]_Deliveries
    BY ContractStep
  <1> QED BY <1>1, <1>2, WritePipelineInvariant, PTL
          DEF Spec, DeliverySpec, Abstract!Spec, Deliveries
=============================================================================
