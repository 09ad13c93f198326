------------------------------ MODULE Transport ------------------------------
(***************************************************************************)
(* The HTTP client of an adapter with session authentication               *)
(* (pkg/upstream/transport): the circuit breaker around the retry loop     *)
(* around the session middleware, under concurrent requests, one per       *)
(* worker.  A worker that is done issues its next request.                 *)
(*                                                                         *)
(* A token is the number of the successful login that produced it, which   *)
(* is its generation; the provider knows which tokens are still sessions.  *)
(* The bodies of all adapters can be replayed, and an upstream that needs  *)
(* no password is left out.  A canceled context is left to Reconcile.      *)
(***************************************************************************)
EXTENDS Naturals

CONSTANTS Requests, None,
          MaxAttempts,   \* of the retry loop
          maxFails,      \* of the circuit breaker
          MaxFaults,     \* bound on answers that are errors, and on expiries
          MaxLost        \* bound on sessions the provider drops

ASSUME TransportAssumption ==
  /\ None \notin Requests
  /\ MaxAttempts \in Nat \ {0} /\ maxFails \in Nat \ {0}
  /\ MaxFaults \in Nat /\ MaxLost \in Nat

VARIABLES
  authFailures, disabled,               \* circuitBreakerTransport
  mu, haveToken, fresh, generation,     \* sessionAuthTransport: who holds mu;
                                        \* fresh until expiresAt
  req,                                  \* the requests
  password, sessions,                   \* the provider: is the configured password
                                        \* right, and which tokens are sessions
  denied, lost, faults                  \* logins refused and 403s so far;
                                        \* sessions dropped; faults left

breaker == <<authFailures, disabled>>
session == <<mu, haveToken, fresh, generation>>
provider == <<password, sessions, denied, lost>>
vars == <<breaker, session, req, provider, faults>>

\* Where a request is, its attempt, the token it holds, and the generation its
\* token was rejected on in this attempt, or 0.
PC == {"idle", "lookup", "login", "send", "backoff", "reset", "count", "trip"}
Request == [pc : PC, attempt : 0..MaxAttempts, token : Nat, rejected : Nat]

TypeOK ==
  /\ authFailures \in Nat /\ disabled \in BOOLEAN
  /\ mu \in Requests \cup {None} /\ haveToken \in BOOLEAN /\ fresh \in BOOLEAN
  /\ generation \in Nat
  /\ req \in [Requests -> Request]
  /\ \A r \in Requests : req[r].pc = "backoff" => req[r].attempt < MaxAttempts
  /\ password \in BOOLEAN /\ sessions \subseteq 1..generation
  /\ denied \in Nat /\ lost \in Nat /\ faults \in Nat

Goto(r, pc) == req' = [req EXCEPT ![r].pc = pc]
Fault == faults > 0 /\ faults' = faults - 1
-----------------------------------------------------------------------------
(* CircuitBreaker *)

\* A request comes in: refused at once if the circuit is open.
RoundTrip(r) ==
  /\ req[r].pc = "idle"
  /\ req' = IF disabled THEN req ELSE
             [req EXCEPT ![r] = [pc |-> "lookup", attempt |-> 1, token |-> 0, rejected |-> 0]]
  /\ UNCHANGED <<breaker, session, provider, faults>>

\* A response that is no authentication failure resets the counter.
ResetFailures(r) ==
  /\ req[r].pc = "reset" /\ Goto(r, "idle")
  /\ authFailures' = 0
  /\ UNCHANGED <<disabled, session, provider, faults>>

\* recordAuthFailure: the counter, and then, as a step of its own, the switch.
recordAuthFailure(r) ==
  /\ req[r].pc = "count"
  /\ authFailures' = authFailures + 1
  /\ Goto(r, IF authFailures + 1 >= maxFails THEN "trip" ELSE "idle")
  /\ UNCHANGED <<disabled, session, provider, faults>>

Trip(r) ==
  /\ req[r].pc = "trip" /\ Goto(r, "idle")
  /\ disabled' = TRUE
  /\ UNCHANGED <<authFailures, session, provider, faults>>
-----------------------------------------------------------------------------
(* Retry *)

\* A failed attempt: another one, or its outcome is returned.  The breaker ignores
\* an error, but a response that is no 401 or 403, a 503 say, resets its counter.
AttemptFailed(r, returned) ==
  Goto(r, IF req[r].attempt < MaxAttempts THEN "backoff" ELSE returned)

NextAttempt(r) ==
  /\ req[r].pc = "backoff"
  /\ req' = [req EXCEPT ![r].pc = "lookup", ![r].attempt = @ + 1, ![r].rejected = 0]
  /\ UNCHANGED <<breaker, session, provider, faults>>
-----------------------------------------------------------------------------
(* SessionAuth *)

\* Whether ensureToken answers from the cache; before it, a variant that logs in
\* after every rejection, and one that forgets the rejection.
everyRejection(rejected) == rejected = 0 /\ haveToken /\ fresh
forgetsRejection(rejected) == haveToken /\ fresh
UseCached(rejected) ==
  IF rejected = 0 THEN haveToken /\ fresh ELSE rejected # generation

\* ensureToken, once mu is free; mu is kept during a login.
ensureToken(r) ==
  /\ req[r].pc = "lookup" /\ mu = None
  /\ \/ /\ UseCached(req[r].rejected)
        /\ req' = [req EXCEPT ![r].pc = "send", ![r].token = generation]
        /\ UNCHANGED mu
     \/ /\ ~UseCached(req[r].rejected)
        /\ Goto(r, "login") /\ mu' = r
  /\ UNCHANGED <<haveToken, fresh, generation, breaker, provider, faults>>

\* The login succeeds.  Before it, a variant that forgets to count it.
NotCounted(r) ==
  /\ req[r].pc = "login" /\ password
  /\ haveToken' = TRUE /\ fresh' = TRUE /\ mu' = None
  /\ sessions' = sessions \cup {generation + 1}
  /\ req' = [req EXCEPT ![r].pc = "send", ![r].token = generation + 1]
  /\ UNCHANGED <<generation, breaker, password, denied, lost, faults>>
Authenticated(r) ==
  /\ req[r].pc = "login" /\ password
  /\ generation' = generation + 1 /\ haveToken' = TRUE /\ fresh' = TRUE /\ mu' = None
  /\ sessions' = sessions \cup {generation + 1}
  /\ req' = [req EXCEPT ![r].pc = "send", ![r].token = generation + 1]
  /\ UNCHANGED <<breaker, password, denied, lost, faults>>

\* The answer to the login has no valid session, which wraps ErrAuthFailed: not
\* retried, but counted.  The password is wrong, or the answer is an error with a
\* JSON body: authenticate does not look at the status.  Before it, a variant
\* without the wrapping.
RefusalRetried(r) ==
  /\ req[r].pc = "login" /\ ((~password /\ UNCHANGED faults) \/ Fault)
  /\ haveToken' = FALSE /\ mu' = None /\ AttemptFailed(r, "idle")
  /\ UNCHANGED <<fresh, generation, breaker, provider>>
AuthFailed(r) ==
  /\ req[r].pc = "login" /\ ((~password /\ UNCHANGED faults) \/ Fault)
  /\ haveToken' = FALSE /\ mu' = None /\ Goto(r, "count")
  /\ denied' = denied + 1
  /\ UNCHANGED <<fresh, generation, breaker, password, sessions, lost>>

\* The login fails otherwise.  Before it, a variant that keeps mu.
LoginKeepsLock(r) ==
  /\ req[r].pc = "login" /\ Fault
  /\ haveToken' = FALSE /\ AttemptFailed(r, "idle")
  /\ UNCHANGED <<mu, fresh, generation, breaker, provider>>
LoginFails(r) ==
  /\ req[r].pc = "login" /\ Fault
  /\ haveToken' = FALSE /\ mu' = None /\ AttemptFailed(r, "idle")
  /\ UNCHANGED <<fresh, generation, breaker, provider>>

\* The provider knows the session and answers.
Answered(r) ==
  /\ req[r].pc = "send" /\ req[r].token \in sessions /\ Goto(r, "reset")
  /\ UNCHANGED <<breaker, session, provider, faults>>

\* It answers 403.
Forbidden(r) ==
  /\ req[r].pc = "send" /\ req[r].token \in sessions /\ Fault /\ Goto(r, "count")
  /\ denied' = denied + 1
  /\ UNCHANGED <<breaker, session, password, sessions, lost>>

\* It answers 401.  After the first one the session is renewed, the second one is
\* returned and counted.  Before it, a variant that counts the first one.
CountsFirst401(r) ==
  /\ req[r].pc = "send" /\ req[r].token \notin sessions
  /\ Goto(r, "count")
  /\ UNCHANGED <<breaker, session, provider, faults>>
Unauthorized(r) ==
  /\ req[r].pc = "send" /\ req[r].token \notin sessions
  /\ \/ /\ req[r].rejected = 0
        /\ req' = [req EXCEPT ![r].pc = "lookup", ![r].rejected = req[r].token]
     \/ req[r].rejected # 0 /\ Goto(r, "count")
  /\ UNCHANGED <<breaker, session, provider, faults>>

\* It answers 429 or 5xx ("reset"), or there is a network error or the attempt's
\* timeout ("idle").
SendFails(r) ==
  /\ req[r].pc = "send" /\ Fault
  /\ \E returned \in {"reset", "idle"} : AttemptFailed(r, returned)
  /\ UNCHANGED <<breaker, session, provider>>
-----------------------------------------------------------------------------
(* The clock and the provider *)

\* expiresAt passes.
Expire ==
  /\ haveToken /\ fresh /\ Fault /\ fresh' = FALSE
  /\ UNCHANGED <<mu, haveToken, generation, breaker, req, provider>>

\* The provider drops a session: a restart, a limit, a logout.
DropSession ==
  /\ lost < MaxLost /\ lost' = lost + 1
  /\ \E t \in sessions : sessions' = sessions \ {t}
  /\ UNCHANGED <<breaker, session, req, password, denied, faults>>

\* The password is changed at the provider.
ChangePassword ==
  /\ password /\ password' = FALSE
  /\ UNCHANGED <<breaker, session, req, sessions, denied, lost, faults>>

Init ==
  /\ authFailures = 0 /\ disabled = FALSE
  /\ mu = None /\ haveToken = FALSE /\ fresh = FALSE /\ generation = 0
  /\ req = [r \in Requests |-> [pc |-> "idle", attempt |-> 0, token |-> 0, rejected |-> 0]]
  /\ password \in BOOLEAN /\ sessions = {}
  /\ denied = 0 /\ lost = 0 /\ faults = MaxFaults

\* What a request does once it is in, apart from waiting for mu.
Step(r) ==
  \/ ResetFailures(r) \/ recordAuthFailure(r) \/ Trip(r) \/ NextAttempt(r)
  \/ Authenticated(r) \/ AuthFailed(r) \/ LoginFails(r)
  \/ Answered(r) \/ Forbidden(r) \/ Unauthorized(r) \/ SendFails(r)

Next ==
  \/ \E r \in Requests : RoundTrip(r) \/ ensureToken(r) \/ Step(r)
  \/ Expire \/ DropSession \/ ChangePassword

Spec == Init /\ [][Next]_vars

\* Workers keep issuing requests (failed records are retried), the attempt
\* timeout ends every call, and sync.Mutex lets no waiter starve.
FairSpec ==
  /\ Spec
  /\ \A r \in Requests :
       WF_vars(RoundTrip(r)) /\ WF_vars(Step(r)) /\ SF_vars(ensureToken(r))
-----------------------------------------------------------------------------
\* Concurrent 401s share one login: whoever logs in has no token in the cache, an
\* expired one, or one that the provider no longer knows.
NoNeedlessLogin ==
  [][\A r \in Requests : req[r].pc # "login" /\ req'[r].pc = "login"
       => ~haveToken \/ ~fresh \/ generation \notin sessions]_vars

\* After a rejection the second try is made with a newer token, whatever other
\* requests did to the cache meanwhile.
NewerAfterRejection ==
  \A r \in Requests : req[r].pc = "send" => req[r].rejected < req[r].token

\* A single dropped session is never taken for a credentials problem, however
\* many requests were using it: each failure counted is a refused login or a 403,
\* and the circuit opens only after maxFails of those.
NoFalseAlarm ==
  lost <= 1 => authFailures <= denied /\ (disabled => denied >= maxFails)

\* Every request returns.
RequestsReturn == \A r \in Requests : req[r].pc # "idle" ~> req[r].pc = "idle"

\* Once the password is wrong and there is no token left, the circuit opens; late
\* successes of requests still on their way only put it off.
WrongPasswordTrips == ~password /\ ~haveToken ~> disabled
=============================================================================
