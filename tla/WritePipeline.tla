---------------------------- MODULE WritePipeline ----------------------------
(***************************************************************************)
(* How the Firestore SDK delivers the orders, profiles and completions of  *)
(* the shop.  Four threads take part, each handling one task at a time:    *)
(*                                                                         *)
(*  - FirebaseAuth's queue, which changes the account and fetches tokens;  *)
(*  - the main thread, on which the shop writes, and which hears of a      *)
(*    change of account and of tokens (FirebaseCredentialsProvider);       *)
(*  - the SDK's worker: SyncEngine, LocalStore and its mutation queues on  *)
(*    disk, RemoteStore with its write pipeline, the write stream;         *)
(*  - the server.                                                          *)
(*                                                                         *)
(* The first three talk through queues of tasks, the last two through one  *)
(* stream, which may break at any time and takes with it whatever is on    *)
(* its way.  The process may end at any time; the mutation queues last.    *)
(***************************************************************************)
EXTENDS Stream, FiniteSets, SequencesExt

CONSTANTS
    User,        \* accounts, "nobody" being one of them
    Failed,      \* a token request that failed or was aborted
    MaxPending,  \* kMaxPendingWrites
    MaxWrites,   \* bound: writes the shop makes
    MaxFaults    \* bound: changes of account, failures of the network and
                 \* ends of the process, together

ASSUME PendingAssumption == MaxPending \in Nat \ {0}
ASSUME WritesAssumption == MaxWrites \in Nat /\ MaxFaults \in Nat
ASSUME FailedAssumption == Failed \notin User

\* a write is its number among the writes the shop has made
Write == 1..MaxWrites

VARIABLES
    authUser,    \* FirebaseAuth: the account that is signed in (durable)
    asks,        \* token requests at FirebaseAuth
    main,        \* tasks of the main thread
    sdkUser,     \* FirebaseCredentialsProvider: current_user
    tokenCounter,\* FirebaseCredentialsProvider: token_counter
    worker,      \* tasks of the worker
    session,     \* SyncEngine: current_user_, whose mutation queue is in use
    disk,        \* disk[u]: the mutation queue of u (durable)
    nextBatchId, \* next_batch_id_ of the mutation queue in use
    callbacks,   \* SyncEngine: mutation_callbacks_
    stream,      \* RemoteStore: the write stream
    pipeline,    \* RemoteStore: write_pipeline_
    document,    \* server: the write that document[u] shows, or 0
    verdict,     \* server: what it has made of a write
    made,        \* history: how many writes the shop has made
    owner,       \* history: the account for which a write was made
    outcome,     \* history: what the SDK has concluded about a write
    told,        \* history: what the callback of a write was told
    faults       \* history: how many changes, failures and ends there were

authVars == <<authUser, asks, main, sdkUser, tokenCounter>>
localVars == <<session, disk, nextBatchId, callbacks>>
remoteVars == <<stream, pipeline>>
serverVars == <<document, verdict>>
history == <<made, owner, outcome, told, faults>>
vars == <<authVars, worker, localVars, remoteVars, serverVars, history>>

Outcome == {"accepted", "rejected"}

(***************************************************************************)
(* The mutation queue on disk (leveldb_mutation_queue.cc): the batches of  *)
(* an account in the order of their ids.                                   *)
(***************************************************************************)
BatchIds(d) == UNION {{b.id : b \in ToSet(d[u])} : u \in User}

\* mutants: the last id for the next one; ids that begin anew each time
LoadLastBatchId(d) == Max(BatchIds(d) \cup {0})
LoadFirstBatchId(d) == 1

\* LoadNextBatchIdFromDb: above the ids of all accounts, and at least 1.
LoadNextBatchId(d) == Max(BatchIds(d) \cup {0}) + 1

\* where an iterator stops that seeks the batch after last
Seek(queue, last) == Cardinality({i \in DOMAIN queue : queue[i].id <= last}) + 1

\* mutant: the newest batches first
NewestBatches(queue, last, room) ==
    LET k == Seek(queue, last)
    IN  Reverse(SubSeq(queue, Max({k, Len(queue) + 1 - room}), Len(queue)))

\* GetNextMutationBatch, as often as the pipeline has room
NextBatches(queue, last, room) ==
    LET k == Seek(queue, last)
    IN  SubSeq(queue, k, Min({k + room - 1, Len(queue)}))

\* RemoveMutationBatch, which fails if there is no such batch
RemoveBatch(queue, id) ==
    RemoveAt(queue, CHOOSE i \in DOMAIN queue : queue[i].id = id)

\* the writes of a sequence of batches or of answers
Writes(s) == [i \in DOMAIN s |-> s[i].write]

(***************************************************************************)
(* The write stream (write_stream.cc) adds to a Stream                     *)
(*   hello    the handshake: "no", "asked", "answered" by the server, "done"*)
(*   token    the account of the token it was opened with                  *)
(*   sent     writes on their way to the server                            *)
(*   answers  answers on their way back; an answer does not name its write,*)
(*            which is here for the properties only                        *)
(***************************************************************************)
FreshWriteStream ==
    [state |-> "Initial", closes |-> 0, idle |-> FALSE,
     hello |-> "no", token |-> Failed, sent |-> <<>>, answers |-> <<>>]

\* Close, the notification of WriteStream and the end of the gRPC call
WriteClosed(s, graceful) ==
    [Closed(s, graceful) EXCEPT !.hello = "no", !.token = Failed,
                                !.sent = <<>>, !.answers = <<>>]

(***************************************************************************)
(* RemoteStore.  The write stream and the pipeline change together; the    *)
(* operators return both.                                                  *)
(***************************************************************************)

\* FillWritePipeline: take what the queue has and the pipeline has room for,
\* send it if the handshake is over, start the stream if it is needed.
FillWritePipeline(s, p, queue) ==
    LET new   == NextBatches(queue, IF p = <<>> THEN 0 ELSE Last(p).id,
                             MaxPending - Len(p))
        wrote == IF new # <<>> /\ s.hello = "done"
                 THEN [Wrote(s) EXCEPT !.sent = @ \o Writes(new)]
                 ELSE s
        idled == IF p \o new = <<>> THEN MarkIdle(wrote) ELSE wrote
    IN  [stream   |-> IF ~IsStarted(idled) /\ p \o new # <<>>
                      THEN Start(idled) ELSE idled,
         pipeline |-> p \o new]

\* mutant: the stream is not started again
RetryNever(s, p) == [stream |-> WriteClosed(s, FALSE), pipeline |-> p]

\* OnWriteStreamClose after an error that does not blame a write
\* (HandleHandshakeError, or HandleWriteError with a transient error)
RetryLater(s, p) ==
    [stream   |-> IF p = <<>> THEN WriteClosed(s, FALSE)
                  ELSE Start(WriteClosed(s, FALSE)),
     pipeline |-> p]

\* mutant: the free slot is not filled, the stream not started
DropHeadOnly(s, p, queue) ==
    [stream |-> InhibitBackoff(WriteClosed(s, FALSE)), pipeline |-> Tail(p)]

\* HandleWriteError with a permanent error: the head of the pipeline is to
\* blame, and the next start does not wait.  queue is without the head.
DropHead(s, p, queue) ==
    FillWritePipeline(InhibitBackoff(WriteClosed(s, FALSE)), Tail(p), queue)

\* mutant: the streams are kept
RestartNothing(s, queue) == FillWritePipeline(s, <<>>, queue)

\* HandleCredentialChange: DisableNetworkInternal, EnableNetwork.  A stream
\* that is not started stays as it is.
RestartStream(s, queue) ==
    FillWritePipeline(IF IsStarted(s) THEN WriteClosed(s, TRUE) ELSE s,
                      <<>>, queue)

\* The worker's step leaves the write stream and the pipeline as in r.  A start
\* asks FirebaseAuth for a token (RequestCredentials, GetToken).
Remote(r) ==
    /\ stream' = r.stream
    /\ pipeline' = r.pipeline
    /\ asks' = asks \cup
          IF AsksToken(stream, r.stream)
          THEN {[closes |-> r.stream.closes, counter |-> tokenCounter]}
          ELSE {}
    /\ UNCHANGED <<authUser, main, sdkUser, tokenCounter>>

Fault ==
    /\ faults < MaxFaults
    /\ faults' = faults + 1

Init ==
    /\ authUser \in User
    /\ asks = {}
    /\ main = <<>>
    /\ sdkUser = authUser
    /\ tokenCounter = 0
    /\ worker = <<>>
    /\ session = authUser
    /\ disk = [u \in User |-> <<>>]
    /\ nextBatchId = 1
    /\ callbacks = {}
    /\ stream = FreshWriteStream
    /\ pipeline = <<>>
    /\ document = [u \in User |-> 0]
    /\ verdict = [w \in Write |-> "none"]
    /\ made = 0
    /\ owner = [w \in Write |-> authUser]
    /\ outcome = [w \in Write |-> "none"]
    /\ told = [w \in Write |-> "none"]
    /\ faults = 0

(***************************************************************************)
(* FirebaseAuth and the main thread.                                       *)
(***************************************************************************)

\* Another account signs in, the account signs out, or its token is renewed;
\* the notification is queued on the main thread.
AuthChanges(u) ==
    /\ Fault
    /\ authUser' = u
    /\ main' = Append(main, [type |-> "auth", user |-> u])
    /\ UNCHANGED <<asks, sdkUser, tokenCounter, worker, localVars, remoteVars,
                   serverVars, made, owner, outcome, told>>

\* A token of the account signed in now is ready, or cannot be had.
TokenFetched(ask) ==
    /\ ask \in asks
    /\ asks' = asks \ {ask}
    /\ \E u \in {authUser, Failed} :
          /\ main' = Append(main, [type |-> "token", user |-> u, ask |-> ask])
          /\ IF u = Failed THEN Fault
                           ELSE UNCHANGED faults
    /\ UNCHANGED <<authUser, sdkUser, tokenCounter, worker, localVars,
                   remoteVars, serverVars, made, owner, outcome, told>>

\* The notification arrives; FirestoreClient passes it to the worker.
HearAuth ==
    /\ main # <<>> /\ Head(main).type = "auth"
    /\ main' = Tail(main)
    /\ sdkUser' = Head(main).user
    /\ tokenCounter' = tokenCounter + 1
    /\ worker' = Append(worker, Head(main))
    /\ UNCHANGED <<authUser, asks, localVars, remoteVars, serverVars, history>>

\* A token is good only if no notification has come since it was asked for.
Token(task) == IF task.ask.counter = tokenCounter THEN task.user ELSE Failed

HearToken ==
    /\ main # <<>> /\ Head(main).type = "token"
    /\ main' = Tail(main)
    /\ worker' = Append(worker, [type |-> "token", user |-> Token(Head(main)),
                                 closes |-> Head(main).ask.closes])
    /\ UNCHANGED <<authUser, asks, sdkUser, tokenCounter, localVars, remoteVars,
                   serverVars, history>>

\* The shop writes: sendOrder, saveProfile, updateData.
MakeWrite ==
    /\ made < MaxWrites
    /\ made' = made + 1
    /\ owner' = [owner EXCEPT ![made'] = sdkUser]
    /\ worker' = Append(worker, [type |-> "write", write |-> made'])
    /\ UNCHANGED <<authVars, localVars, remoteVars, serverVars, outcome, told,
                   faults>>

(***************************************************************************)
(* The worker.                                                             *)
(***************************************************************************)
NextTask(type) == worker # <<>> /\ Head(worker).type = type

\* SyncEngine::WriteMutations: the write goes to disk (WriteLocally,
\* AddMutationBatch), its callback is noted unless there is one under the same
\* id, and the pipeline is filled.
PersistWrite ==
    LET batch == [id |-> nextBatchId, write |-> Head(worker).write]
    IN  /\ NextTask("write")
        /\ worker' = Tail(worker)
        /\ disk' = [disk EXCEPT ![session] = Append(@, batch)]
        /\ nextBatchId' = nextBatchId + 1
        /\ callbacks' = callbacks \cup
              IF \E c \in callbacks : c.user = session /\ c.id = nextBatchId
              THEN {}
              ELSE {[user |-> session, id |-> nextBatchId, write |-> batch.write]}
        /\ Remote(FillWritePipeline(stream, pipeline, disk'[session]))
        /\ UNCHANGED <<session, serverVars, history>>

\* SyncEngine::HandleCredentialChange: another account gets its mutation queue,
\* which counts batches anew; the streams are restarted in any case.
ChangeUser ==
    /\ NextTask("auth")
    /\ worker' = Tail(worker)
    /\ session' = Head(worker).user
    /\ nextBatchId' = IF session' = session THEN nextBatchId
                                           ELSE LoadNextBatchId(disk)
    /\ Remote(RestartStream(stream, disk[session']))
    /\ UNCHANGED <<disk, callbacks, serverVars, history>>

\* ResumeStartWithCredentials, unless the stream has been closed since: the
\* stream is open at once, and asks for a handshake.
UseToken ==
    /\ NextTask("token")
    /\ worker' = Tail(worker)
    /\ Remote(IF Head(worker).closes # stream.closes
              THEN [stream |-> stream, pipeline |-> pipeline]
              ELSE IF Head(worker).user = Failed
              THEN RetryLater(stream, pipeline)
              ELSE [stream |-> [Opened(stream) EXCEPT
                                   !.token = Head(worker).user,
                                   !.hello = "asked"],
                    pipeline |-> pipeline])
    /\ UNCHANGED <<localVars, serverVars, history>>

\* OnWriteStreamHandshakeComplete: the pipeline is sent.
ReadHandshake ==
    /\ stream.hello = "answered"
    /\ Remote([stream |-> [Wrote(stream) EXCEPT !.hello = "done",
                                               !.sent = Writes(pipeline)],
               pipeline |-> pipeline])
    /\ UNCHANGED <<worker, localVars, serverVars, history>>

\* HandleSuccessfulWrite, HandleRejectedWrite: the callback of the batch is
\* called (NotifyUser), the batch leaves the disk.
Conclude(batch, result) ==
    LET called == {c \in callbacks : c.user = session /\ c.id = batch.id}
    IN  /\ callbacks' = callbacks \ called
        /\ told' = [w \in Write |-> IF \E c \in called : c.write = w
                                   THEN result ELSE told[w]]
        /\ outcome' = [outcome EXCEPT ![batch.write] = result]
        /\ disk' = [disk EXCEPT ![session] = RemoveBatch(@, batch.id)]
        /\ UNCHANGED <<session, nextBatchId, made, owner>>

\* OnWriteStreamMutationResult: an answer is for the head of the pipeline.
ReadAnswer ==
    /\ stream.answers # <<>> /\ Head(stream.answers).result = "accepted"
    /\ Conclude(Head(pipeline), "accepted")
    /\ Remote(FillWritePipeline([stream EXCEPT !.answers = Tail(@)],
                                Tail(pipeline), disk'[session]))
    /\ UNCHANGED <<worker, serverVars, faults>>

\* The server has ended the stream with a permanent error.  The error is read
\* after the answers before it, or seen by a write that fails: then the answers
\* that have not been read are dropped (FastFinishCompletionsBlocking).
Refused ==
    /\ stream.answers # <<>> /\ Last(stream.answers).result = "rejected"
    /\ Len(stream.answers) = 1 \/ stream.sent # <<>>

ReadRefusal ==
    /\ Refused
    /\ Conclude(Head(pipeline), "rejected")
    /\ Remote(DropHead(stream, pipeline, disk'[session]))
    /\ UNCHANGED <<worker, serverVars, faults>>

\* The stream ends with a transient error; all that was on its way is lost.
StreamBreaks ==
    /\ IsOpen(stream)
    /\ Fault
    /\ Remote(RetryLater(stream, pipeline))
    /\ UNCHANGED <<worker, localVars, serverVars, made, owner, outcome, told>>

BackoffElapses ==
    /\ stream.state = "Backoff"
    /\ Remote([stream |-> BackoffElapsed(stream), pipeline |-> pipeline])
    /\ UNCHANGED <<worker, localVars, serverVars, history>>

\* The idle timer stops the stream in order.
IdleElapses ==
    /\ stream.idle
    /\ Remote([stream |-> WriteClosed(stream, TRUE), pipeline |-> pipeline])
    /\ UNCHANGED <<worker, localVars, serverVars, history>>

(***************************************************************************)
(* The server answers the requests of a stream in order, until the stream  *)
(* ends.  It judges a write the same way each time it is sent.             *)
(***************************************************************************)
ServerGreets ==
    /\ stream.hello = "asked"
    /\ stream' = [stream EXCEPT !.hello = "answered"]
    /\ UNCHANGED <<authVars, worker, localVars, pipeline, serverVars, history>>

ServerReads(w, result) ==
    /\ \A i \in DOMAIN stream.answers : stream.answers[i].result # "rejected"
    /\ verdict[w] \in {"none", result}
    /\ verdict' = [verdict EXCEPT ![w] = result]
    /\ stream' = [stream EXCEPT !.sent = Tail(@),
                                !.answers = Append(@, [write |-> w, result |-> result])]
    /\ UNCHANGED <<authVars, worker, localVars, pipeline, history>>

ServerApplies ==
    /\ stream.sent # <<>>
    /\ ServerReads(Head(stream.sent), "accepted")
    /\ document' = [document EXCEPT ![owner[Head(stream.sent)]] = Head(stream.sent)]

ServerRefuses ==
    /\ stream.sent # <<>>
    /\ ServerReads(Head(stream.sent), "rejected")
    /\ UNCHANGED document

(***************************************************************************)
(* The process ends and is started again: only the mutation queues and the *)
(* account are left (FirestoreClient::Initialize).                         *)
(***************************************************************************)
InMemory == {w \in Write : \E i \in DOMAIN worker :
                worker[i] = [type |-> "write", write |-> w]}

Restart ==
    LET r == FillWritePipeline(FreshWriteStream, <<>>, disk[authUser])
    IN  /\ Fault
        /\ stream' = r.stream
        /\ pipeline' = r.pipeline
        /\ asks' = IF IsStarted(r.stream) THEN {[closes |-> 0, counter |-> 0]} ELSE {}
        /\ main' = <<>>
        /\ sdkUser' = authUser
        /\ tokenCounter' = 0
        /\ worker' = <<>>
        /\ session' = authUser
        /\ nextBatchId' = LoadNextBatchId(disk)
        /\ callbacks' = {}
        /\ outcome' = [w \in Write |-> IF w \in InMemory THEN "lost" ELSE outcome[w]]
        /\ UNCHANGED <<authUser, disk, serverVars, made, owner, told>>

Next ==
    \/ \E u \in User : AuthChanges(u)
    \/ \E ask \in asks : TokenFetched(ask)
    \/ HearAuth \/ HearToken \/ MakeWrite
    \/ PersistWrite \/ ChangeUser \/ UseToken
    \/ ReadHandshake \/ ReadAnswer \/ ReadRefusal
    \/ StreamBreaks \/ BackoffElapses \/ IdleElapses
    \/ ServerGreets \/ ServerApplies \/ ServerRefuses
    \/ Restart

Spec == Init /\ [][Next]_vars

\* The threads go on with their tasks, FirebaseAuth and the server answer, the
\* backoff timer fires.  Nobody has to write, to sign in or to fail.
Fairness ==
    /\ WF_vars(\E ask \in asks : TokenFetched(ask))
    /\ WF_vars(HearAuth \/ HearToken)
    /\ WF_vars(PersistWrite \/ ChangeUser \/ UseToken)
    /\ WF_vars(ReadHandshake \/ ReadAnswer \/ ReadRefusal)
    /\ WF_vars(BackoffElapses)
    /\ WF_vars(ServerGreets \/ ServerApplies \/ ServerRefuses)

FairSpec == Spec /\ Fairness

(***************************************************************************)
(* Invariants.                                                             *)
(***************************************************************************)
Batch == [id : Nat \ {0}, write : Write]

Ask == [closes : Nat, counter : Nat]

MainTask == [type : {"auth"}, user : User]
      \cup [type : {"token"}, user : User \cup {Failed}, ask : Ask]

WorkerTask == [type : {"auth"}, user : User]
        \cup [type : {"token"}, user : User \cup {Failed}, closes : Nat]
        \cup [type : {"write"}, write : Write]

WriteStream == [state : StreamState, closes : Nat, idle : BOOLEAN,
                hello : {"no", "asked", "answered", "done"},
                token : User \cup {Failed}, sent : Seq(Write),
                answers : Seq([write : Write, result : Outcome])]

\* Types: each variable holds what its comment says.
TypeOK ==
    /\ authUser \in User /\ sdkUser \in User /\ session \in User
    /\ asks \subseteq Ask
    /\ main \in Seq(MainTask)
    /\ worker \in Seq(WorkerTask)
    /\ tokenCounter \in Nat
    /\ disk \in [User -> Seq(Batch)]
    /\ nextBatchId \in Nat \ {0}
    /\ callbacks \subseteq [user : User, id : Nat \ {0}, write : Write]
    /\ stream \in WriteStream
    /\ pipeline \in Seq(Batch)
    /\ document \in [User -> Write \cup {0}]
    /\ verdict \in [Write -> Outcome \cup {"none"}]
    /\ made \in 0..MaxWrites
    /\ owner \in [Write -> User]
    /\ outcome \in [Write -> Outcome \cup {"none", "lost"}]
    /\ told \in [Write -> Outcome \cup {"none"}]
    /\ faults \in 0..MaxFaults

\* the token requests that are on their way, at FirebaseAuth, on the main
\* thread or on the worker, by their close count
AwaitedTokens ==
    {ask.closes : ask \in asks}
    \cup {m.ask.closes : m \in {m \in ToSet(main) : m.type = "token"}}
    \cup {m.closes : m \in {m \in ToSet(worker) : m.type = "token"}}

\* The stream waits for a token exactly while one asked for under its close
\* count is on its way ("State should still be 'Starting'").
TokenIsAwaited == stream.state = "Starting" <=> stream.closes \in AwaitedTokens

\* The pipeline holds the oldest batches of the account in use, as many as fit,
\* each with an id of its own; whenever there is one the stream is started.
PipelineIsQueueHead ==
    /\ pipeline = NextBatches(disk[session], 0, MaxPending)
    /\ pipeline # <<>> => IsStarted(stream)
    /\ \A u \in User : \A i, j \in DOMAIN disk[u] : i < j => disk[u][i].id < disk[u][j].id

\* The idle timer never stops a stream that is needed ("stopped gracefully
\* while still needed").
IdleIsUnneeded == stream.idle => IsOpen(stream) /\ pipeline = <<>>

\* Whatever tasks, answers and timers meet, no HARD_ASSERT of the write path
\* fails (stream.cc, remote_store.cc, local_store.cc).
AssertsHold == TokenIsAwaited /\ PipelineIsQueueHead /\ IdleIsUnneeded

\* after the handshake the answers to be read and the writes still to be
\* answered are those of the pipeline, in its order
AnswersInPipelineOrder ==
    /\ stream.hello = "done" =>
          Writes(stream.answers) \o stream.sent = Writes(pipeline)
    /\ stream.hello # "done" => stream.answers = <<>> /\ stream.sent = <<>>

\* a callback is told what has become of the write it was given for
CallbackIsOwn ==
    /\ \A w \in Write : told[w] # "none" => told[w] = outcome[w]
    /\ \A c \in callbacks : [id |-> c.id, write |-> c.write] \in ToSet(disk[c.user])

\* what is taken for accepted has been applied by the server
AcceptedWasApplied ==
    \A w \in Write : outcome[w] = "accepted" => verdict[w] = "accepted"

\* what is dropped as rejected was refused by the server, or else an answer to
\* it was dropped unread and the server has refused a later write of the account
RejectedForRefusal ==
    \A w \in Write : outcome[w] = "rejected" =>
        \/ verdict[w] = "rejected"
        \/ /\ verdict[w] = "accepted"
           /\ \E v \in Write : v > w /\ owner[v] = owner[w] /\ verdict[v] = "rejected"

\* Though answers carry no name, streams are opened again and batch ids begin
\* anew, the SDK takes a write for accepted only if the server has applied that
\* write, drops one only because the server has refused it or a later one, and
\* tells each callback what has become of its own write (OnMutationResult,
\* HandleWriteError, NotifyUser).
ToldIsTrue == CallbackIsOwn /\ AcceptedWasApplied /\ RejectedForRefusal

\* an account's writes wait in its queue, and are sent with its token only
SentAsOwner ==
    /\ \A u \in User : \A b \in ToSet(disk[u]) : owner[b.write] = u
    /\ \A w \in ToSet(stream.sent) : owner[w] = stream.token

\* Answers carry no name and the stream no account: whatever changes of account
\* meet the worker's tasks and late tokens, what a stream carries are the
\* batches of the pipeline in its order, under a token of the account that
\* made them (OnMutationResult, HandleCredentialChange).
StreamCarriesPipeline == AnswersInPipelineOrder /\ SentAsOwner

\* what the server has applied of the account's writes
Applied(u) == {w \in Write : owner[w] = u /\ verdict[w] = "accepted"}

\* an older write sent again after a lost answer may replace a newer one for a
\* while; once nothing of an account is waiting, the server has the newest write
\* that it has ever accepted
SettledIsNewest ==
    \A u \in User : disk[u] = <<>> => document[u] = Max(Applied(u) \cup {0})

\* nobody has anything to do: no thread, no timer that must fire, no server
AtRest ==
    /\ asks = {} /\ main = <<>> /\ worker = <<>>
    /\ stream.state # "Backoff"
    /\ stream.hello \notin {"asked", "answered"}
    /\ stream.sent = <<>> /\ stream.answers = <<>>

\* no write of the account that is signed in is forgotten
RestIsEmpty == AtRest => disk[authUser] = <<>>

\* Whatever was cut off and sent again: the SDK comes to rest only when all
\* writes of the account are answered, and then the server shows the newest of
\* those it has accepted (FillWritePipeline, OnWriteStreamClose).
Settles == RestIsEmpty /\ SettledIsNewest

\* A write on disk of an account that stays signed in is answered some time.
InQueue(w) == \E b \in ToSet(disk[session]) : b.write = w

EventuallyAnswered == \A w \in Write : InQueue(w) ~> ~InQueue(w)

(***************************************************************************)
(* The pipeline implements Delivery.                                       *)
(***************************************************************************)
OnDisk == {b.write : b \in UNION {ToSet(disk[u]) : u \in User}}

Place(w) ==
    IF w \in InMemory THEN "memory"
    ELSE IF w \in OnDisk THEN "disk"
    ELSE outcome[w]

Abstract == INSTANCE Delivery WITH
    writes <- [w \in 1..made |-> [owner |-> owner[w], place |-> Place(w)]]

\* The worker, the queues, the stream and the restarts answer the writes of an
\* account in order and lose only what had not reached the disk.
DeliverySpec == Abstract!Spec
=============================================================================
