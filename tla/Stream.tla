------------------------------- MODULE Stream -------------------------------
(***************************************************************************)
(* The class Stream of the Firestore SDK (remote/stream.cc), which the     *)
(* write stream and the watch stream share: one connection to the server   *)
(* that is opened with a token, closed in order or by an error, and        *)
(* started again after a pause.  A stream is a record with at least        *)
(*                                                                         *)
(*   state   state_ of the class                                           *)
(*   closes  close_count_: a token asked for under another count is late   *)
(*   idle    the idle timer is running                                     *)
(*                                                                         *)
(* The operators say what a method does to the fields of the class; what   *)
(* the subclasses do is in the modules that use this one.                  *)
(***************************************************************************)
EXTENDS Naturals

StreamState == {"Initial", "Starting", "Open", "Error", "Backoff"}

IsOpen(s) == s.state = "Open"

IsStarted(s) == s.state \in {"Starting", "Open", "Backoff"}

\* Start: after an error the stream waits for the backoff timer, otherwise it
\* asks for a token (RequestCredentials).
Start(s) == [s EXCEPT !.state = IF @ = "Error" THEN "Backoff" ELSE "Starting"]

\* The backoff timer fires: the state is Initial, and Start asks for a token.
BackoffElapsed(s) == [s EXCEPT !.state = "Starting"]

\* Has the step from s to t asked for a token?
AsksToken(s, t) ==
    /\ t.state = "Starting"
    /\ s.state = "Starting" => s.closes # t.closes

\* The token has come: the call is started, which opens the stream at once.
Opened(s) == [s EXCEPT !.state = "Open"]

\* MarkIdle: the timer runs at most once, and only while the stream is open.
MarkIdle(s) == [s EXCEPT !.idle = @ \/ IsOpen(s)]

\* Write: a request stops the idle timer.
Wrote(s) == [s EXCEPT !.idle = FALSE]

\* Close, up to the call of the subclass: both timers stop, late callbacks are
\* disowned by the new count.
Closed(s, graceful) ==
    [s EXCEPT !.state = IF graceful THEN "Initial" ELSE "Error",
              !.closes = @ + 1,
              !.idle = FALSE]

\* InhibitBackoff: the next start does not wait.
InhibitBackoff(s) == [s EXCEPT !.state = "Initial"]
=============================================================================
