-------------------------------- MODULE Fetch --------------------------------
(***************************************************************************)
(* How the Firestore SDK answers the shop's getDocuments: the catalogue,   *)
(* the profile, the promocodes, the lists of the administrator.  A fetch   *)
(* listens to a query on the SDK's worker, waits for the first event, and  *)
(* takes its listener back.  Fetches of one query share the listening, and *)
(* all queries share one stream to the server (watch_stream.cc), which     *)
(* may break at any time and takes with it whatever is on its way.         *)
(*                                                                         *)
(* Three tables have to agree (EventManager, SyncEngine, RemoteStore), the *)
(* requests that the server has not answered are counted for each query    *)
(* (WatchChangeAggregator), and OnlineStateTracker decides when a fetch    *)
(* stops waiting for the server and is answered from the cache.            *)
(***************************************************************************)
EXTENDS Stream, Integers, FiniteSets, SequencesExt

CONSTANTS
    Query,
    MaxFetches,  \* bound: fetches of the shop
    MaxFaults    \* bound: failures of the network and changes of account

ASSUME FetchesAssumption == MaxFetches \in Nat /\ MaxFaults \in Nat

\* a fetch is its number in the order in which the shop asks
Fetch == 1..MaxFetches

VARIABLES
    query,    \* query[f]: what fetch f is about
    refused,  \* server: the queries its rules refuse
    asked,    \* main thread: how many fetches have been asked
    worker,   \* tasks of the worker
    inbox,    \* events on their way to the main thread
    muted,    \* fetches whose AsyncEventListener is muted
    sdk,      \* what the worker keeps, see Init
    calls,    \* history: how often the completion of a fetch was called
    answer,   \* history: what it was called with
    joined,   \* history: fetches that found their query listened to
    reset,    \* history: the online state was reset under a started stream
    faults    \* history: how many failures and changes there were

world == <<query, refused>>
history == <<calls, answer, joined, faults>>
vars == <<world, asked, worker, inbox, muted, sdk, history, reset>>

OnlineState == {"Unknown", "Online", "Offline"}

\* The watch stream adds to a Stream the requests and messages on their way and
\* the queries which the server has still to make current.  The close count is
\* left out: that late tokens do nothing is a matter of WritePipeline.
FreshWatchStream ==
    [state |-> "Initial", closes |-> 0, idle |-> FALSE,
     sent |-> <<>>, messages |-> <<>>, behind |-> {}]

WatchClosed(s, graceful) ==
    [Closed(s, graceful) EXCEPT !.closes = 0, !.sent = <<>>, !.messages = <<>>,
                                !.behind = {}]

Init ==
    /\ query \in [Fetch -> Query]
    /\ refused \in SUBSET Query
    /\ asked = 0
    /\ worker = <<>>
    /\ inbox = <<>>
    /\ muted = {}
    /\ sdk = [listeners |-> {},                      \* EventManager: queries_
              raised    |-> {},                      \* raised_initial_event_
              views     |-> {},                      \* SyncEngine: query_views_by_query_
              synced    |-> {},                      \* views that are current
              covers    |-> [q \in Query |-> 0],     \* the fetches before the server's answer
              targets   |-> {},                      \* RemoteStore: listen_targets_
              pending   |-> [q \in Query |-> 0],     \* outstanding_responses_
              online    |-> "Unknown",               \* OnlineStateTracker: state_
              failed    |-> FALSE,                   \* watch_stream_failures_ # 0
              timer     |-> FALSE,                   \* online_state_timer_
              stream    |-> FreshWatchStream,
              events    |-> <<>>]                    \* what this step posts to the inbox
    /\ calls = [f \in Fetch |-> 0]
    /\ answer = [f \in Fetch |-> [from |-> "nowhere", fresh |-> FALSE]]
    /\ joined = {}
    /\ reset = FALSE
    /\ faults = 0

(***************************************************************************)
(* EventManager and QueryListener.  Each operator is a method: from what   *)
(* the worker keeps before the call to what it keeps after.                *)
(***************************************************************************)
ListenersOf(c, q) == {f \in c.listeners : query[f] = q}

\* OnEvent: the event goes to the main thread.
Event(c, f) ==
    [fetch |-> f,
     from  |-> IF query[f] \in c.synced THEN "server" ELSE "cache",
     fresh |-> f <= c.covers[query[f]]]

Raise(c, fs) ==
    [c EXCEPT !.raised = @ \cup fs,
              !.events = @ \o [i \in DOMAIN SetToSeq(fs) |-> Event(c, SetToSeq(fs)[i])]]

\* OnViewSnapshot: the first event waits for the server unless the phone is off
\* line; later events are raised when the sync state has changed.
OnViewSnapshot(c, fs) ==
    Raise(c, {f \in fs : \/ f \in c.raised
                         \/ query[f] \in c.synced
                         \/ c.online = "Offline"})

(***************************************************************************)
(* OnlineStateTracker.                                                     *)
(***************************************************************************)

\* SetAndBroadcast, SyncEngine::HandleOnlineStateChange: off line no view is
\* current, and who waits is answered from the cache.
Broadcast(c, state) ==
    LET lapsed == {f \in c.listeners : f \notin c.raised \/ query[f] \in c.synced}
    IN  IF state = c.online THEN c
        ELSE IF state # "Offline" THEN [c EXCEPT !.online = state]
        ELSE OnViewSnapshot([c EXCEPT !.online = state, !.synced = {}], lapsed)

UpdateState(c, state) ==
    Broadcast([c EXCEPT !.timer = FALSE, !.failed = FALSE], state)

\* mutant: the timer is started only when the state changes
HandleWatchStreamStartOnce(c) ==
    IF c.failed \/ c.online = "Unknown" THEN c
    ELSE [Broadcast(c, "Unknown") EXCEPT !.timer = TRUE]

HandleWatchStreamStart(c) ==
    IF c.failed THEN c ELSE [Broadcast(c, "Unknown") EXCEPT !.timer = TRUE]

\* kMaxWatchStreamFailures is 1.
HandleWatchStreamFailure(c) ==
    IF c.online = "Online"
    THEN Broadcast(c, "Unknown")
    ELSE Broadcast([c EXCEPT !.timer = FALSE, !.failed = TRUE], "Offline")

(***************************************************************************)
(* RemoteStore.                                                            *)
(***************************************************************************)
ShouldStartWatchStream(c) == ~IsStarted(c.stream) /\ c.targets # {}

\* The new WatchChangeAggregator waits for nothing.
StartWatchStream(c) ==
    HandleWatchStreamStart([c EXCEPT !.stream = Start(@),
                                     !.pending = [q \in Query |-> 0]])

\* SendWatchRequest, SendUnwatchRequest
SendRequest(c, type, q) ==
    LET written == Wrote(c.stream)
    IN  [c EXCEPT !.pending[q] = @ + 1,
                  !.stream = [written EXCEPT !.sent =
                                 Append(@, [type |-> type, query |-> q])]]

\* OnWatchStreamOpen: all that is listened to is watched again.
OnWatchStreamOpen(c) ==
    LET watches == SetToSeq({[type |-> "watch", query |-> q] : q \in c.targets})
    IN  [c EXCEPT !.pending = [q \in Query |-> @[q] + IF q \in c.targets THEN 1 ELSE 0],
                  !.stream = [@ EXCEPT !.sent = watches]]

OnWatchStreamClose(c) ==
    IF ShouldStartWatchStream(c)
    THEN StartWatchStream(HandleWatchStreamFailure(c))
    ELSE UpdateState(c, "Unknown")

CloseStream(c, graceful) ==
    OnWatchStreamClose([c EXCEPT !.stream = WatchClosed(@, graceful)])

\* mutant: an open stream is not told
WatchLater(c, q) ==
    LET watched == [c EXCEPT !.targets = @ \cup {q}]
    IN  IF ShouldStartWatchStream(watched) THEN StartWatchStream(watched) ELSE watched

\* RemoteStore::Listen
Watch(c, q) ==
    LET watched == [c EXCEPT !.targets = @ \cup {q}]
    IN  IF ShouldStartWatchStream(watched) THEN StartWatchStream(watched)
        ELSE IF IsOpen(c.stream) THEN SendRequest(watched, "watch", q)
        ELSE watched

\* RemoteStore::StopListening
Unwatch(c, q) ==
    LET dropped == [c EXCEPT !.targets = @ \ {q}]
        told    == IF IsOpen(c.stream) THEN SendRequest(dropped, "unwatch", q)
                                       ELSE dropped
    IN  IF told.targets # {} THEN told
        ELSE IF IsOpen(c.stream) THEN [told EXCEPT !.stream = MarkIdle(@)]
        ELSE UpdateState(told, "Unknown")

\* DisableNetworkInternal, EnableNetwork: the close is in order while the
\* network is disabled, so that only the new start counts.
HandleCredentialChange(c) ==
    LET stopped == IF IsStarted(c.stream)
                   THEN [c EXCEPT !.stream = WatchClosed(@, TRUE)]
                   ELSE c
        unknown == UpdateState(stopped, "Unknown")
    IN  IF ShouldStartWatchStream(unknown) THEN StartWatchStream(unknown) ELSE unknown

(***************************************************************************)
(* EventManager::AddQueryListener, SyncEngine::Listen: a query that is new *)
(* gets a view, which is not current, and is watched.                      *)
(***************************************************************************)
AddQueryListener(c, f) ==
    LET q     == query[f]
        added == [c EXCEPT !.listeners = @ \cup {f}]
    IN  IF ListenersOf(c, q) # {}
        THEN OnViewSnapshot(added, {f})
        ELSE Watch(OnViewSnapshot([added EXCEPT !.views = @ \cup {q},
                                                !.synced = @ \ {q},
                                                !.covers[q] = 0], {f}), q)

\* mutant: the state of the view outlives the view
RemoveQueryListenerOnly(c, f) ==
    LET q    == query[f]
        left == [c EXCEPT !.listeners = @ \ {f}]
    IN  IF f \in c.listeners /\ ListenersOf(left, q) = {}
        THEN Unwatch([left EXCEPT !.views = @ \ {q}], q)
        ELSE left

\* RemoveQueryListener, SyncEngine::StopListening.  After an error the listener
\* is not there any more.
RemoveQueryListener(c, f) ==
    LET q    == query[f]
        left == [c EXCEPT !.listeners = @ \ {f}]
    IN  IF f \in c.listeners /\ ListenersOf(left, q) = {}
        THEN Unwatch([left EXCEPT !.views = @ \ {q}, !.synced = @ \ {q}], q)
        ELSE left

(***************************************************************************)
(* Messages of the server (OnWatchStreamChange).                           *)
(***************************************************************************)

\* mutant: answers to earlier requests are taken as well
IsWatched(c, q) == q \in c.targets

\* IsActiveTarget: no request for q is waiting for its answer.
IsActive(c, q) == q \in c.targets /\ c.pending[q] = 0

\* HandleTargetChange for Added and Removed
RecordTargetResponse(c, q) == [c EXCEPT !.pending[q] = @ - 1]

\* Current and the snapshot after it: the views of active targets are current.
ApplyRemoteEvent(c, m) ==
    LET changed == {q \in m.queries : IsActive(c, q)} \ c.synced
    IN  OnViewSnapshot([c EXCEPT !.synced = @ \cup changed,
                                 !.covers = [q \in Query |-> IF q \in changed
                                                             THEN m.covers ELSE @[q]]],
                       UNION {ListenersOf(c, q) : q \in changed})

\* mutant: the target is kept
ProcessTargetErrorOnly(c, q) ==
    LET gone   == SetToSeq(ListenersOf(c, q))
        errors == [i \in DOMAIN gone |->
                      [fetch |-> gone[i], from |-> "error", fresh |-> TRUE]]
    IN  IF q \notin c.targets THEN c
        ELSE [c EXCEPT !.pending[q] = 0, !.views = @ \ {q}, !.synced = @ \ {q},
                       !.listeners = @ \ ToSet(gone), !.events = @ \o errors]

\* ProcessTargetError, HandleRejectedListen, EventManager::OnError
ProcessTargetError(c, q) ==
    LET gone   == SetToSeq(ListenersOf(c, q))
        errors == [i \in DOMAIN gone |->
                      [fetch |-> gone[i], from |-> "error", fresh |-> TRUE]]
    IN  IF q \notin c.targets THEN c
        ELSE [c EXCEPT !.targets = @ \ {q}, !.pending[q] = 0, !.views = @ \ {q},
                       !.synced = @ \ {q}, !.listeners = @ \ ToSet(gone),
                       !.events = @ \o errors]

OnWatchStreamChange(c, m) ==
    LET online == UpdateState(c, "Online")
    IN  CASE m.type \in {"added", "removed"} -> RecordTargetResponse(online, m.query)
          [] m.type = "error"                -> ProcessTargetError(online, m.query)
          [] m.type = "current"              -> ApplyRemoteEvent(online, m)

(***************************************************************************)
(* The steps of the worker.                                                *)
(***************************************************************************)

\* The worker is left as in c, and its events are on their way.
Work(c) ==
    /\ sdk' = [c EXCEPT !.events = <<>>]
    /\ inbox' = inbox \o c.events
    /\ UNCHANGED <<world, asked, muted, calls, answer>>

\* The online state is Unknown without a timer because the last fetch has been
\* taken back while the stream was waiting.
StillReset(c) == c.online = "Unknown" /\ ~c.timer /\ IsStarted(c.stream)

Fault ==
    /\ faults < MaxFaults
    /\ faults' = faults + 1

Listen ==
    LET f == Head(worker).fetch
        c == AddQueryListener(sdk, f)
    IN  /\ worker # <<>> /\ Head(worker).type = "listen"
        /\ worker' = Tail(worker)
        /\ Work(c)
        /\ joined' = IF ListenersOf(sdk, query[f]) = {} THEN joined ELSE joined \cup {f}
        /\ reset' = (reset /\ StillReset(c))
        /\ UNCHANGED faults

StopListening ==
    LET c == RemoveQueryListener(sdk, Head(worker).fetch)
    IN  /\ worker # <<>> /\ Head(worker).type = "remove"
        /\ worker' = Tail(worker)
        /\ Work(c)
        /\ reset' = (StillReset(c) /\ (reset \/ c.targets = {}))
        /\ UNCHANGED <<joined, faults>>

\* the other steps: callbacks of the stream and of timers
Callback(c) ==
    /\ Work(c)
    /\ reset' = (reset /\ StillReset(c))
    /\ UNCHANGED <<worker, joined>>

\* The token has come; the stream is open at once.
StreamOpens ==
    /\ sdk.stream.state = "Starting"
    /\ Callback(OnWatchStreamOpen([sdk EXCEPT !.stream = Opened(@)]))
    /\ UNCHANGED faults

\* The token cannot be had, or the call ends with an error.
StreamFails ==
    /\ sdk.stream.state \in {"Starting", "Open"}
    /\ Fault
    /\ Callback(CloseStream(sdk, FALSE))

BackoffElapses ==
    /\ sdk.stream.state = "Backoff"
    /\ Callback([sdk EXCEPT !.stream = BackoffElapsed(@)])
    /\ UNCHANGED faults

IdleElapses ==
    /\ sdk.stream.idle
    /\ Callback(CloseStream(sdk, TRUE))
    /\ UNCHANGED faults

\* Ten seconds without a message.
OnlineTimerFires ==
    /\ sdk.timer
    /\ Callback(Broadcast([sdk EXCEPT !.timer = FALSE], "Offline"))
    /\ UNCHANGED faults

AccountChanges ==
    /\ Fault
    /\ Callback(HandleCredentialChange(sdk))

ReadMessage ==
    LET s == sdk.stream
    IN  /\ s.messages # <<>>
        /\ Callback(OnWatchStreamChange([sdk EXCEPT !.stream.messages = Tail(@)],
                                        Head(s.messages)))
        /\ UNCHANGED faults

(***************************************************************************)
(* The main thread.                                                        *)
(***************************************************************************)

\* Query::GetDocuments
GetDocuments ==
    /\ asked < MaxFetches
    /\ asked' = asked + 1
    /\ worker' = Append(worker, [type |-> "listen", fetch |-> asked'])
    /\ UNCHANGED <<world, inbox, muted, sdk, history, reset>>

\* ListenOnce::OnEvent: the completion of the shop is called.  Unless it is an
\* error the listener is muted and taken back (QueryListenerRegistration).
HearEvent ==
    LET e == Head(inbox)
        f == e.fetch
    IN  /\ inbox # <<>>
        /\ inbox' = Tail(inbox)
        /\ IF f \in muted
           THEN UNCHANGED <<worker, muted, calls, answer>>
           ELSE /\ calls' = [calls EXCEPT ![f] = @ + 1]
                /\ answer' = [answer EXCEPT ![f] = [from |-> e.from, fresh |-> e.fresh]]
                /\ IF e.from = "error"
                   THEN UNCHANGED <<worker, muted>>
                   ELSE /\ muted' = muted \cup {f}
                        /\ worker' = Append(worker, [type |-> "remove", fetch |-> f])
        /\ UNCHANGED <<world, asked, sdk, joined, reset, faults>>

(***************************************************************************)
(* The server handles the requests of a stream in order and answers each   *)
(* once; it makes what is watched current, all queries at one time.        *)
(***************************************************************************)
Serve(s) ==
    /\ sdk' = [sdk EXCEPT !.stream = s]
    /\ UNCHANGED <<world, asked, worker, inbox, muted, history, reset>>

ServerAnswers ==
    LET s == sdk.stream
        r == Head(s.sent)
        Message(type) == [type |-> type, query |-> r.query]
    IN  /\ s.sent # <<>>
        /\ \/ /\ r.type = "watch" /\ r.query \notin refused
              /\ Serve([s EXCEPT !.sent = Tail(@), !.behind = @ \cup {r.query},
                                 !.messages = Append(@, Message("added"))])
           \/ /\ r.type = "watch" /\ r.query \in refused
              /\ Serve([s EXCEPT !.sent = Tail(@),
                                 !.messages = Append(@, Message("error"))])
           \/ /\ r.type = "unwatch"
              /\ Serve([s EXCEPT !.sent = Tail(@), !.behind = @ \ {r.query},
                                 !.messages = Append(@, Message("removed"))])

ServerCatchesUp ==
    LET s == sdk.stream
    IN  /\ s.behind # {}
        /\ Serve([s EXCEPT !.behind = {},
                           !.messages = Append(@, [type    |-> "current",
                                                   queries |-> s.behind,
                                                   covers  |-> asked])])

Next ==
    \/ GetDocuments \/ HearEvent
    \/ Listen \/ StopListening
    \/ StreamOpens \/ StreamFails \/ BackoffElapses \/ IdleElapses
    \/ OnlineTimerFires \/ AccountChanges \/ ReadMessage
    \/ ServerAnswers \/ ServerCatchesUp

Spec == Init /\ [][Next]_vars

\* The threads go on with their tasks, timers fire, tokens come, the server
\* answers.  The shop need not ask, nothing need fail, and a stream that nobody
\* needs need not be closed.
Fairness ==
    /\ WF_vars(HearEvent)
    /\ WF_vars(Listen \/ StopListening)
    /\ WF_vars(StreamOpens)
    /\ WF_vars(BackoffElapses)
    /\ WF_vars(OnlineTimerFires)
    /\ WF_vars(ReadMessage)
    /\ WF_vars(ServerAnswers)
    /\ WF_vars(ServerCatchesUp)

FairSpec == Spec /\ Fairness

(***************************************************************************)
(* Invariants.                                                             *)
(***************************************************************************)
Request == [type : {"watch", "unwatch"}, query : Query]

Message == [type : {"added", "removed", "error"}, query : Query]
      \cup [type : {"current"}, queries : SUBSET Query, covers : 0..MaxFetches]

Answer == [from : {"server", "cache", "error"}, fresh : BOOLEAN]

WatchStream == [state : StreamState, closes : {0}, idle : BOOLEAN,
                sent : Seq(Request), messages : Seq(Message), behind : SUBSET Query]

FetchEvent == [fetch : Fetch, from : {"server", "cache", "error"}, fresh : BOOLEAN]

Sdk == [listeners : SUBSET Fetch, raised : SUBSET Fetch, views : SUBSET Query,
        synced : SUBSET Query, covers : [Query -> 0..MaxFetches],
        targets : SUBSET Query, pending : [Query -> Int], online : OnlineState,
        failed : BOOLEAN, timer : BOOLEAN, stream : WatchStream,
        events : Seq(FetchEvent)]

\* Types: each variable holds what its comment says, only what was asked is
\* listened to, only views are current, and nothing is posted between two steps.
TypeOK ==
    /\ query \in [Fetch -> Query]
    /\ refused \subseteq Query
    /\ asked \in 0..MaxFetches
    /\ worker \in Seq([type : {"listen", "remove"}, fetch : 1..asked])
    /\ inbox \in Seq(FetchEvent)
    /\ muted \subseteq 1..asked
    /\ sdk \in Sdk
    /\ sdk.listeners \subseteq 1..asked
    /\ sdk.synced \subseteq sdk.views
    /\ sdk.events = <<>>
    /\ calls \in [Fetch -> Nat]
    /\ answer \in [Fetch -> Answer \cup {[from |-> "nowhere", fresh |-> FALSE]}]
    /\ joined \subseteq 1..asked
    /\ reset \in BOOLEAN
    /\ faults \in 0..MaxFaults

\* the three tables hold the same queries, those somebody listens to
TablesAgree ==
    /\ sdk.views = {query[f] : f \in sdk.listeners}
    /\ sdk.targets = sdk.views

\* while a query is listened to the stream is started, and is not stopped for
\* being idle ("stopped gracefully while still needed")
StreamIsNeeded ==
    /\ sdk.targets # {} => IsStarted(sdk.stream)
    /\ sdk.stream.idle => IsOpen(sdk.stream) /\ sdk.targets = {}

\* the timer runs only where its callback and the next start may find it
TimerIsNeeded ==
    /\ sdk.timer => sdk.online = "Unknown" /\ ~sdk.failed /\ IsStarted(sdk.stream)
    /\ sdk.online = "Online" => ~sdk.failed

\* a query waits for as many answers as are on their way, so that no answer to
\* an earlier request is taken for the present one
Count(list, S) == Cardinality({i \in DOMAIN list : list[i] \in S})

Outstanding(q) ==
    Count(sdk.stream.sent, [type : {"watch", "unwatch"}, query : {q}])
    + Count(sdk.stream.messages, [type : {"added", "removed"}, query : {q}])

PendingIsOutstanding ==
    IsOpen(sdk.stream) =>
        \A q \in Query \ refused : sdk.pending[q] = Outstanding(q)

\* Whatever answers, timers and listeners that come and go meet, the tables of
\* EventManager, SyncEngine and RemoteStore agree with one another, with the
\* stream, its timers and the server: no HARD_ASSERT of the listen path fails.
AssertsHold ==
    TablesAgree /\ StreamIsNeeded /\ TimerIsNeeded /\ PendingIsOutstanding

\* The completion of a fetch is called at most once, though a listener may have
\* several events on their way; and an answer said to come from the server was
\* made by it after the fetch was asked, unless the fetch joined a query that
\* was being listened to already.
AnswerIsOwn ==
    \A f \in Fetch :
        /\ calls[f] <= 1
        /\ answer[f].from = "server" /\ f \notin joined => answer[f].fresh

\* a fetch waits for a view that is current or the news that the phone is off line;
\* while it is not known whether there is a server, the timer of ten seconds is
\* running, unless the last fetch before it was taken back while the stream was
\* waiting to be opened, which resets the state and starts no timer
WaitHasReason ==
    \A f \in sdk.listeners \ sdk.raised :
        /\ query[f] \notin sdk.synced
        /\ sdk.online # "Offline"
        /\ sdk.online = "Unknown" => sdk.timer \/ reset

\* no thread, no stream and no server has anything left to do
AtRest ==
    /\ worker = <<>> /\ inbox = <<>>
    /\ sdk.stream.state \notin {"Starting", "Backoff"}
    /\ sdk.stream.sent = <<>> /\ sdk.stream.messages = <<>>
    /\ sdk.stream.behind = {}

\* no fetch is forgotten
RestIsAnswered == AtRest => \A f \in 1..asked : calls[f] > 0

\* A fetch is kept waiting only for a reason that ends; and whatever was closed,
\* refused, asked again or taken back meanwhile, all that has been asked is
\* answered when nothing is on its way any more.
WaitIsJustified == WaitHasReason /\ RestIsAnswered

\* While the worker does not know whether there is a server, the timeout for the
\* online state to reach Online or Offline is running for whoever waits, so that
\* nobody waits indefinitely for an attempt that neither succeeds nor fails: what
\* online_state_tracker.cc:44 says of the timer.
WaitIsTimed ==
    \A f \in sdk.listeners \ sdk.raised : sdk.online = "Unknown" => sdk.timer

\* Every fetch is answered some time.
EventuallyAnswered == \A f \in Fetch : asked >= f ~> calls[f] > 0
=============================================================================
