----------------------------- MODULE Lifecycle -----------------------------
(***************************************************************************)
(* The process from start to exit: main (cmd/beacons), which waits for the *)
(* reconciler and for the goroutine of the HTTP server, Server.Run         *)
(* (internal/server), and the goroutine in which the server shuts down.    *)
(* The reconciler returns when ctx is canceled, and only then (NotifyLoop  *)
(* has the details).                                                       *)
(***************************************************************************)
CONSTANTS Requests  \* HTTP requests, of any of the endpoints

VARIABLES
  main,      \* "start", "run" (in Reconciler.Run), "wait" (in wg.Wait), "exited"
  code,      \* exit code, "none" before
  canceled,  \* ctx
  server,    \* Server.Run: "none" (no http.addr), "listen", "serve", "returned"
  httpErr,
  drain,     \* Shutdown: "waiting" for ctx, "draining", "done"
  conn       \* request -> "none", "open", "answered", "cut"

vars == <<main, code, canceled, server, httpErr, drain, conn>>

Serving == server = "serve" /\ drain = "waiting"
Open == {q \in Requests : conn[q] = "open"}

\* Until the reconciler runs: a source, the store or the authenticator that cannot be
\* built ends the process; an upstream only gets disabled (Reconcile).
Start ==
  /\ main = "start"
  /\ \/ main' = "exited" /\ code' = "1" /\ UNCHANGED server
     \/ main' = "run" /\ server' \in {"none", "listen"} /\ UNCHANGED code
  /\ UNCHANGED <<canceled, httpErr, drain, conn>>

\* SIGINT or SIGTERM.
Signal ==
  /\ main # "exited" /\ canceled' = TRUE
  /\ UNCHANGED <<main, code, server, httpErr, drain, conn>>

Listen ==
  /\ server = "listen" /\ server' = "serve"
  /\ UNCHANGED <<main, code, canceled, httpErr, drain, conn>>

\* net.Listen or Serve fails: main's goroutine cancels ctx.
ServerFails ==
  /\ server = "listen" \/ Serving
  /\ server' = "returned" /\ httpErr' = TRUE /\ canceled' = TRUE
  /\ UNCHANGED <<main, code, drain, conn>>

\* A request is accepted, and answered (handleState, handleHealth, requireAuth).
Accept(q) ==
  /\ Serving /\ main # "exited" /\ conn[q] = "none"
  /\ conn' = [conn EXCEPT ![q] = "open"]
  /\ UNCHANGED <<main, code, canceled, server, httpErr, drain>>

Answer(q) ==
  /\ conn[q] = "open" /\ conn' = [conn EXCEPT ![q] = "answered"]
  /\ UNCHANGED <<main, code, canceled, server, httpErr, drain>>

\* Shutdown closes the listener and then waits for the requests, for as long as
\* ShutdownTimeout.
Shutdown ==
  /\ Serving /\ canceled /\ drain' = "draining"
  /\ UNCHANGED <<main, code, canceled, server, httpErr, conn>>

ShutdownEnds ==
  /\ drain = "draining" /\ main # "exited" /\ drain' = "done"
  /\ UNCHANGED <<main, code, canceled, server, httpErr, conn>>

\* With its listener closed Serve returns ErrServerClosed, which is no error.
ServeReturns ==
  /\ server = "serve" /\ drain # "waiting" /\ server' = "returned"
  /\ UNCHANGED <<main, code, canceled, httpErr, drain, conn>>

ReconcilerReturns ==
  /\ main = "run" /\ canceled /\ main' = "wait"
  /\ UNCHANGED <<code, canceled, server, httpErr, drain, conn>>

\* main returns, or exits with 1; what is still open is closed with the process.
Exit ==
  /\ main = "wait" /\ server \in {"none", "returned"}
  /\ main' = "exited" /\ code' = IF httpErr THEN "1" ELSE "0"
  /\ conn' = [q \in Requests |-> IF q \in Open THEN "cut" ELSE conn[q]]
  /\ UNCHANGED <<canceled, server, httpErr, drain>>

Init ==
  /\ main = "start" /\ code = "none" /\ canceled = FALSE
  /\ server = "none" /\ httpErr = FALSE /\ drain = "waiting"
  /\ conn = [q \in Requests |-> "none"]

Next ==
  \/ Start \/ Signal \/ Listen \/ ServerFails \/ Shutdown \/ ShutdownEnds
  \/ ServeReturns \/ ReconcilerReturns \/ Exit
  \/ \E q \in Requests : Accept(q) \/ Answer(q)

Spec == Init /\ [][Next]_vars
-----------------------------------------------------------------------------
\* What the comment at the start of the server says: shutdown, the graceful wait for
\* requests included, is never cut short; a request may only be lost once that wait
\* is over, or if the server failed.
NeverCutShort == \A q \in Requests : conn[q] = "cut" => drain = "done" \/ httpErr
=============================================================================
