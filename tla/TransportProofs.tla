--------------------------- MODULE TransportProofs ---------------------------
(***************************************************************************)
(* Theorems about Transport, for every number of requests, attempts,       *)
(* failures and dropped sessions.                                          *)
(***************************************************************************)
EXTENDS Transport, FiniteSetTheorems, TLAPS

LEMMA TypeNext == TypeOK /\ [Next]_vars => TypeOK'
<1> SUFFICES ASSUME TypeOK, [Next]_vars PROVE TypeOK'
  OBVIOUS
<1> USE TransportAssumption DEF TransportAssumption, TypeOK
<1>1. ASSUME NEW r \in Requests, RoundTrip(r) PROVE TypeOK'
  <2>1. [pc |-> "lookup", attempt |-> 1, token |-> 0, rejected |-> 0] \in Request
    BY DEF Request, PC
  <2>2. /\ req' \in [Requests -> Request]
        /\ \A q \in Requests : req'[q].pc = "backoff" => req'[q].attempt < MaxAttempts
    BY <1>1, <2>1 DEF RoundTrip
  <2>. QED
    BY <1>1, <2>2 DEF RoundTrip, breaker, session, provider
<1>2. ASSUME NEW r \in Requests, ensureToken(r) PROVE TypeOK'
  <2>1. /\ req' \in [Requests -> Request]
        /\ \A q \in Requests : req'[q].pc = "backoff" => req'[q].attempt < MaxAttempts
    BY <1>2 DEF ensureToken, Goto, Request, PC
  <2>. QED
    BY <1>2, <2>1 DEF ensureToken, breaker, provider
<1>3. ASSUME NEW r \in Requests, ResetFailures(r) PROVE TypeOK'
  <2>1. /\ req' \in [Requests -> Request]
        /\ \A q \in Requests : req'[q].pc = "backoff" => req'[q].attempt < MaxAttempts
    BY <1>3 DEF ResetFailures, Goto, Request, PC
  <2>. QED
    BY <1>3, <2>1 DEF ResetFailures, session, provider
<1>4. ASSUME NEW r \in Requests, recordAuthFailure(r) PROVE TypeOK'
  <2>1. /\ req' \in [Requests -> Request]
        /\ \A q \in Requests : req'[q].pc = "backoff" => req'[q].attempt < MaxAttempts
    BY <1>4 DEF recordAuthFailure, Goto, Request, PC
  <2>. QED
    BY <1>4, <2>1 DEF recordAuthFailure, session, provider
<1>5. ASSUME NEW r \in Requests, Trip(r) PROVE TypeOK'
  <2>1. /\ req' \in [Requests -> Request]
        /\ \A q \in Requests : req'[q].pc = "backoff" => req'[q].attempt < MaxAttempts
    BY <1>5 DEF Trip, Goto, Request, PC
  <2>. QED
    BY <1>5, <2>1 DEF Trip, session, provider
<1>6. ASSUME NEW r \in Requests, NextAttempt(r) PROVE TypeOK'
  <2>1. /\ req' \in [Requests -> Request]
        /\ \A q \in Requests : req'[q].pc = "backoff" => req'[q].attempt < MaxAttempts
    BY <1>6 DEF NextAttempt, Request, PC
  <2>. QED
    BY <1>6, <2>1 DEF NextAttempt, breaker, session, provider
<1>7. ASSUME NEW r \in Requests, Authenticated(r) PROVE TypeOK'
  <2>1. /\ req' \in [Requests -> Request]
        /\ \A q \in Requests : req'[q].pc = "backoff" => req'[q].attempt < MaxAttempts
    <3>1. req' = [req EXCEPT ![r].pc = "send", ![r].token = generation + 1]
      BY <1>7 DEF Authenticated
    <3>2. generation + 1 \in Nat
      OBVIOUS
    <3>. QED
      BY <3>1, <3>2 DEF Request, PC
  <2>2. sessions' \subseteq 1..generation'
    BY <1>7 DEF Authenticated
  <2>. QED
    BY <1>7, <2>1, <2>2 DEF Authenticated, breaker
<1>8. ASSUME NEW r \in Requests, AuthFailed(r) PROVE TypeOK'
  <2>1. /\ req' \in [Requests -> Request]
        /\ \A q \in Requests : req'[q].pc = "backoff" => req'[q].attempt < MaxAttempts
    BY <1>8 DEF AuthFailed, Goto, Request, PC
  <2>2. denied' \in Nat /\ faults' \in Nat
    BY <1>8 DEF AuthFailed, Fault
  <2>. QED
    BY <1>8, <2>1, <2>2 DEF AuthFailed, breaker
<1>9. ASSUME NEW r \in Requests, LoginFails(r) PROVE TypeOK'
  <2>1. /\ req' \in [Requests -> Request]
        /\ \A q \in Requests : req'[q].pc = "backoff" => req'[q].attempt < MaxAttempts
    BY <1>9 DEF LoginFails, AttemptFailed, Goto, Request, PC
  <2>2. faults' \in Nat
    BY <1>9 DEF LoginFails, Fault
  <2>. QED
    BY <1>9, <2>1, <2>2 DEF LoginFails, breaker, provider
<1>10. ASSUME NEW r \in Requests, Answered(r) PROVE TypeOK'
  <2>1. /\ req' \in [Requests -> Request]
        /\ \A q \in Requests : req'[q].pc = "backoff" => req'[q].attempt < MaxAttempts
    BY <1>10 DEF Answered, Goto, Request, PC
  <2>. QED
    BY <1>10, <2>1 DEF Answered, breaker, session, provider
<1>11. ASSUME NEW r \in Requests, Forbidden(r) PROVE TypeOK'
  <2>1. /\ req' \in [Requests -> Request]
        /\ \A q \in Requests : req'[q].pc = "backoff" => req'[q].attempt < MaxAttempts
    BY <1>11 DEF Forbidden, Goto, Request, PC
  <2>. QED
    BY <1>11, <2>1 DEF Forbidden, Fault, breaker, session
<1>12. ASSUME NEW r \in Requests, Unauthorized(r) PROVE TypeOK'
  <2>1. /\ req' \in [Requests -> Request]
        /\ \A q \in Requests : req'[q].pc = "backoff" => req'[q].attempt < MaxAttempts
    BY <1>12 DEF Unauthorized, Goto, Request, PC
  <2>. QED
    BY <1>12, <2>1 DEF Unauthorized, breaker, session, provider
<1>13. ASSUME NEW r \in Requests, SendFails(r) PROVE TypeOK'
  <2>1. /\ req' \in [Requests -> Request]
        /\ \A q \in Requests : req'[q].pc = "backoff" => req'[q].attempt < MaxAttempts
    BY <1>13 DEF SendFails, AttemptFailed, Goto, Request, PC
  <2>. QED
    BY <1>13, <2>1 DEF SendFails, Fault, breaker, session, provider
<1>14. CASE Expire
  <2>1. faults' \in Nat
    BY <1>14 DEF Expire, Fault
  <2>. QED
    BY <1>14, <2>1 DEF Expire, breaker, provider
<1>15. CASE DropSession
  BY <1>15 DEF DropSession, breaker, session
<1>16. CASE ChangePassword
  BY <1>16 DEF ChangePassword, breaker, session
<1>17. CASE UNCHANGED vars
  BY <1>17 DEF vars, breaker, session, provider
<1>. QED
  BY <1>1, <1>2, <1>3, <1>4, <1>5, <1>6, <1>7, <1>8, <1>9,
     <1>10, <1>11, <1>12, <1>13, <1>14, <1>15, <1>16, <1>17 DEF Next, Step

\* The transport chain stays well typed; in particular no session has a number
\* that generation has not reached.
THEOREM TypeCorrect == Spec => []TypeOK
<1>1. Init => TypeOK
  <2> SUFFICES ASSUME Init PROVE TypeOK
    OBVIOUS
  <2>1. [pc |-> "idle", attempt |-> 0, token |-> 0, rejected |-> 0] \in Request
    BY TransportAssumption DEF TransportAssumption, Request, PC
  <2>. QED
    BY <2>1, TransportAssumption DEF TransportAssumption, Init, TypeOK
<1>. QED
  BY <1>1, TypeNext, PTL DEF Spec
-----------------------------------------------------------------------------
(* Logins *)

\* A rejected token is a number already given out, and no session any more: a
\* later login never brings it back.  A request that sends holds a token newer
\* than the one rejected.
RejectedInv ==
  /\ haveToken => generation > 0
  /\ \A r \in Requests :
       /\ req[r].rejected <= generation /\ req[r].token <= generation
       /\ req[r].rejected \notin sessions
  /\ NewerAfterRejection

LEMMA RejectedNext == TypeOK /\ RejectedInv /\ [Next]_vars => RejectedInv'
<1> SUFFICES ASSUME TypeOK, RejectedInv, [Next]_vars PROVE RejectedInv'
  OBVIOUS
<1> USE DEF TypeOK, Request, RejectedInv, NewerAfterRejection
<1>1. ASSUME NEW r \in Requests, RoundTrip(r) PROVE RejectedInv'
  BY <1>1 DEF RoundTrip, session, provider
<1>2. ASSUME NEW r \in Requests, ensureToken(r) PROVE RejectedInv'
  <2>1. CASE UseCached(req[r].rejected)
    BY <1>2, <2>1 DEF ensureToken, UseCached, provider
  <2>2. CASE ~UseCached(req[r].rejected)
    BY <1>2, <2>2 DEF ensureToken, Goto, provider
  <2>. QED
    BY <2>1, <2>2
<1>3. ASSUME NEW r \in Requests, ResetFailures(r) \/ recordAuthFailure(r) \/ Trip(r)
      PROVE  RejectedInv'
  BY <1>3 DEF ResetFailures, recordAuthFailure, Trip, Goto, session, provider
<1>4. ASSUME NEW r \in Requests, NextAttempt(r) PROVE RejectedInv'
  BY <1>4 DEF NextAttempt, session, provider
<1>5. ASSUME NEW r \in Requests, Authenticated(r) PROVE RejectedInv'
  BY <1>5 DEF Authenticated
<1>6. ASSUME NEW r \in Requests, AuthFailed(r) \/ LoginFails(r) PROVE RejectedInv'
  BY <1>6 DEF AuthFailed, LoginFails, AttemptFailed, Goto, provider
<1>7. ASSUME NEW r \in Requests, Answered(r) \/ Forbidden(r) \/ SendFails(r)
      PROVE  RejectedInv'
  BY <1>7 DEF Answered, Forbidden, SendFails, AttemptFailed, Goto, session, provider
<1>8. ASSUME NEW r \in Requests, Unauthorized(r) PROVE RejectedInv'
  BY <1>8 DEF Unauthorized, Goto, session, provider
<1>9. CASE Expire \/ DropSession \/ ChangePassword \/ UNCHANGED vars
  BY <1>9 DEF Expire, DropSession, ChangePassword, vars, session, provider
<1>. QED
  BY <1>1, <1>2, <1>3, <1>4, <1>5, <1>6, <1>7, <1>8, <1>9 DEF Next, Step

LEMMA RejectedCorrect == Spec => []RejectedInv
<1>1. Init => RejectedInv
  BY DEF Init, RejectedInv, NewerAfterRejection
<1>. QED
  BY <1>1, TypeCorrect, RejectedNext, PTL DEF Spec

\* After a 401 the second try never repeats the rejected token, whatever other
\* requests did to the cache meanwhile.
THEOREM SecondTryNewer == Spec => []NewerAfterRejection
<1>1. RejectedInv => NewerAfterRejection
  BY DEF RejectedInv
<1>. QED
  BY <1>1, RejectedCorrect, PTL

\* Nobody logs in while the cache holds an unexpired token the provider accepts:
\* concurrent 401s off one token share one login.
THEOREM LoginsShared == Spec => NoNeedlessLogin
<1> DEFINE Needed == \A r \in Requests : req[r].pc # "login" /\ req'[r].pc = "login"
                       => ~haveToken \/ ~fresh \/ generation \notin sessions
<1>1. TypeOK /\ RejectedInv /\ [Next]_vars => Needed
  <2> SUFFICES ASSUME TypeOK, RejectedInv, [Next]_vars, NEW r \in Requests,
                      req[r].pc # "login", req'[r].pc = "login"
               PROVE  ~haveToken \/ ~fresh \/ generation \notin sessions
    OBVIOUS
  <2>1. ensureToken(r) /\ ~UseCached(req[r].rejected)
    <3> USE DEF TypeOK, Request
    <3>1. ASSUME NEW q \in Requests, ensureToken(q)
          PROVE  ensureToken(r) /\ ~UseCached(req[r].rejected)
      BY <3>1 DEF ensureToken, Goto
    <3>2. ASSUME NEW q \in Requests, RoundTrip(q) \/ Step(q) PROVE FALSE
      BY <3>2 DEF RoundTrip, Step, ResetFailures, recordAuthFailure, Trip, NextAttempt,
                  Authenticated, AuthFailed, LoginFails, Answered, Forbidden,
                  Unauthorized, SendFails, AttemptFailed, Goto
    <3>3. CASE Expire \/ DropSession \/ ChangePassword \/ UNCHANGED vars
      BY <3>3 DEF Expire, DropSession, ChangePassword, vars
    <3>. QED
      BY <3>1, <3>2, <3>3 DEF Next
  <2>. QED
    BY <2>1 DEF UseCached, RejectedInv
<1>. QED
  BY <1>1, TypeCorrect, RejectedCorrect, PTL DEF Spec, NoNeedlessLogin
-----------------------------------------------------------------------------
(* The circuit breaker *)

\* As long as one session at most was dropped, one token at most that was ever given
\* out is no session.
LostInv ==
  /\ lost = 0 => sessions = 1..generation
  /\ lost <= 1 => \A a, b \in 1..generation : a \notin sessions /\ b \notin sessions => a = b

LEMMA LostNext == TypeOK /\ LostInv /\ [Next]_vars => LostInv'
<1> SUFFICES ASSUME TypeOK, LostInv, [Next]_vars PROVE LostInv'
  OBVIOUS
<1> USE DEF LostInv
<1>1. CASE DropSession
  <2>1. PICK t \in sessions : sessions' = sessions \ {t}
    BY <1>1 DEF DropSession
  <2>2. lost' = lost + 1 /\ generation' = generation
    BY <1>1 DEF DropSession, session
  <2>3. lost' # 0 /\ (lost' <= 1 => lost = 0)
    BY <2>2 DEF TypeOK
  <2>. QED
    BY <2>1, <2>2, <2>3
<1>2. ASSUME NEW r \in Requests, Authenticated(r) PROVE LostInv'
  BY <1>2 DEF Authenticated, TypeOK
<1>3. UNCHANGED <<sessions, generation, lost>> \/ DropSession
      \/ \E r \in Requests : Authenticated(r)
  BY DEF Next, Step, RoundTrip, ensureToken, ResetFailures, recordAuthFailure, Trip,
         NextAttempt, AuthFailed, LoginFails, Answered, Forbidden, Unauthorized, SendFails,
         Expire, ChangePassword, vars, session, provider
<1>. QED
  BY <1>1, <1>2, <1>3

\* Requests on their way to recordAuthFailure.
Counting == {r \in Requests : req[r].pc = "count"}

\* Each failure counted or about to be counted is an answer that denied access.
AlarmInv ==
  /\ IsFiniteSet(Counting)
  /\ lost <= 1 =>
       /\ authFailures + Cardinality(Counting) <= denied
       /\ disabled \/ (\E r \in Requests : req[r].pc = "trip") => denied >= maxFails

\* A step of request r moves at most r in or out of Counting.
LEMMA CountingStep ==
  ASSUME NEW r \in Requests, IsFiniteSet(Counting),
         \A q \in Requests : q # r => req'[q].pc = req[q].pc
  PROVE  /\ IsFiniteSet(Counting') /\ Cardinality(Counting) \in Nat
         /\ req[r].pc = "count" /\ req'[r].pc # "count"
              => Cardinality(Counting') = Cardinality(Counting) - 1
         /\ req[r].pc # "count" /\ req'[r].pc = "count"
              => Cardinality(Counting') = Cardinality(Counting) + 1
         /\ (req[r].pc = "count" <=> req'[r].pc = "count")
              => Cardinality(Counting') = Cardinality(Counting)
<1>1. req'[r].pc = "count" => Counting' = Counting \cup {r}
  BY DEF Counting
<1>2. req'[r].pc # "count" => Counting' = Counting \ {r}
  BY DEF Counting
<1>3. req[r].pc = "count" <=> r \in Counting
  BY DEF Counting
<1>4. /\ IsFiniteSet(Counting \cup {r})
      /\ Cardinality(Counting \cup {r}) =
           IF r \in Counting THEN Cardinality(Counting) ELSE Cardinality(Counting) + 1
  BY FS_AddElement
<1>5. /\ IsFiniteSet(Counting \ {r})
      /\ Cardinality(Counting \ {r}) =
           IF r \in Counting THEN Cardinality(Counting) - 1 ELSE Cardinality(Counting)
  BY FS_RemoveElement
<1>6. Cardinality(Counting) \in Nat
  BY FS_CardinalityType
<1>. QED
  BY <1>1, <1>2, <1>3, <1>4, <1>5, <1>6

LEMMA AlarmNext == TypeOK /\ RejectedInv /\ LostInv /\ AlarmInv /\ [Next]_vars => AlarmInv'
<1> SUFFICES ASSUME TypeOK, RejectedInv, LostInv, AlarmInv, [Next]_vars PROVE AlarmInv'
  OBVIOUS
<1> USE DEF AlarmInv
<1>0. /\ authFailures \in Nat /\ denied \in Nat /\ lost \in Nat /\ maxFails \in Nat
      /\ Cardinality(Counting) \in Nat
  BY FS_CardinalityType, TransportAssumption DEF TypeOK, TransportAssumption
\* A request moves on, past neither the counter nor the switch.
<1>1. ASSUME NEW r \in Requests, UNCHANGED <<authFailures, disabled, denied, lost>>,
             \A q \in Requests : q # r => req'[q].pc = req[q].pc,
             req[r].pc # "count", req'[r].pc \notin {"count", "trip"}
      PROVE  AlarmInv'
  <2>1. IsFiniteSet(Counting') /\ Cardinality(Counting') = Cardinality(Counting)
    BY <1>1, CountingStep
  <2>. QED
    BY <1>1, <2>1
<1>2. ASSUME NEW r \in Requests, RoundTrip(r) PROVE AlarmInv'
  <2>1. CASE disabled
    BY <1>2, <2>1 DEF RoundTrip, breaker, provider, Counting
  <2>2. CASE ~disabled
    BY <1>1, <1>2, <2>2 DEF RoundTrip, breaker, provider, TypeOK
  <2>. QED
    BY <2>1, <2>2
<1>3. ASSUME NEW r \in Requests, ensureToken(r) \/ NextAttempt(r) PROVE AlarmInv'
  BY <1>1, <1>3 DEF ensureToken, NextAttempt, Goto, breaker, provider, TypeOK, Request
<1>4. ASSUME NEW r \in Requests, Authenticated(r) \/ LoginFails(r) PROVE AlarmInv'
  BY <1>1, <1>4 DEF Authenticated, LoginFails, AttemptFailed, Goto, breaker, provider, TypeOK, Request
<1>5. ASSUME NEW r \in Requests, Answered(r) \/ SendFails(r) PROVE AlarmInv'
  BY <1>1, <1>5 DEF Answered, SendFails, AttemptFailed, Goto, breaker, provider, TypeOK, Request
<1>6. ASSUME NEW r \in Requests, ResetFailures(r) PROVE AlarmInv'
  <2>1. /\ req[r].pc = "reset" /\ req'[r].pc = "idle"
        /\ \A q \in Requests : q # r => req'[q].pc = req[q].pc
    BY <1>6 DEF ResetFailures, Goto, TypeOK, Request
  <2>2. IsFiniteSet(Counting') /\ Cardinality(Counting') = Cardinality(Counting)
    BY <2>1, CountingStep
  <2>3. authFailures' = 0 /\ UNCHANGED <<disabled, denied, lost>>
    BY <1>6 DEF ResetFailures, provider
  <2>. QED
    BY <1>0, <2>1, <2>2, <2>3
<1>7. ASSUME NEW r \in Requests, recordAuthFailure(r) PROVE AlarmInv'
  <2>1. /\ req[r].pc = "count"
        /\ req'[r].pc = IF authFailures + 1 >= maxFails THEN "trip" ELSE "idle"
        /\ \A q \in Requests : q # r => req'[q].pc = req[q].pc
    BY <1>7 DEF recordAuthFailure, Goto, TypeOK, Request
  <2>2. IsFiniteSet(Counting') /\ Cardinality(Counting') = Cardinality(Counting) - 1
    BY <2>1, CountingStep
  <2>3. authFailures' = authFailures + 1 /\ UNCHANGED <<disabled, denied, lost>>
    BY <1>7 DEF recordAuthFailure, provider
  <2>4. Cardinality(Counting') \in Nat
    BY <2>2, FS_CardinalityType
  <2>5. lost <= 1 => authFailures + 1 <= denied
    BY <1>0, <2>2, <2>4
  <2>. QED
    BY <1>0, <2>1, <2>2, <2>3, <2>5
<1>8. ASSUME NEW r \in Requests, Trip(r) PROVE AlarmInv'
  <2>1. /\ req[r].pc = "trip" /\ req'[r].pc = "idle"
        /\ \A q \in Requests : q # r => req'[q].pc = req[q].pc
    BY <1>8 DEF Trip, Goto, TypeOK, Request
  <2>2. IsFiniteSet(Counting') /\ Cardinality(Counting') = Cardinality(Counting)
    BY <2>1, CountingStep
  <2>3. UNCHANGED <<authFailures, denied, lost>>
    BY <1>8 DEF Trip, provider
  <2>. QED
    BY <2>1, <2>2, <2>3
<1>9. ASSUME NEW r \in Requests, AuthFailed(r) \/ Forbidden(r) PROVE AlarmInv'
  <2>1. /\ req[r].pc # "count" /\ req'[r].pc = "count"
        /\ \A q \in Requests : q # r => req'[q].pc = req[q].pc
    BY <1>9 DEF AuthFailed, Forbidden, Goto, TypeOK, Request
  <2>2. IsFiniteSet(Counting') /\ Cardinality(Counting') = Cardinality(Counting) + 1
    BY <2>1, CountingStep
  <2>3. denied' = denied + 1 /\ UNCHANGED <<authFailures, disabled, lost>>
    BY <1>9 DEF AuthFailed, Forbidden, breaker
  <2>. QED
    BY <1>0, <2>1, <2>2, <2>3
\* The second 401 of an attempt takes a second dropped session.
<1>10. ASSUME NEW r \in Requests, Unauthorized(r) PROVE AlarmInv'
  <2>1. UNCHANGED <<authFailures, disabled, denied, lost>>
    BY <1>10 DEF Unauthorized, breaker, provider
  <2>2. CASE req[r].rejected = 0
    BY <1>1, <1>10, <2>1, <2>2 DEF Unauthorized, TypeOK, Request
  <2>3. CASE req[r].rejected # 0
    <3>1. /\ req[r].pc = "send" /\ req'[r].pc = "count"
          /\ \A q \in Requests : q # r => req'[q].pc = req[q].pc
      BY <1>10, <2>3 DEF Unauthorized, Goto, TypeOK, Request
    <3>2. IsFiniteSet(Counting')
      BY <3>1, CountingStep
    <3>3. /\ req[r].rejected \in 1..generation /\ req[r].rejected \notin sessions
          /\ req[r].token \in 1..generation /\ req[r].token \notin sessions
          /\ req[r].rejected # req[r].token
      BY <1>10, <2>3, <3>1 DEF Unauthorized, RejectedInv, NewerAfterRejection, TypeOK, Request
    <3>4. ~(lost <= 1)
      BY <3>3 DEF LostInv
    <3>. QED
      BY <2>1, <3>2, <3>4
  <2>. QED
    BY <2>2, <2>3
<1>11. CASE DropSession
  <2>1. UNCHANGED <<authFailures, disabled, denied, req>> /\ lost' = lost + 1
    BY <1>11 DEF DropSession, breaker
  <2>. QED
    BY <1>0, <2>1 DEF Counting
<1>12. CASE Expire \/ ChangePassword \/ UNCHANGED vars
  BY <1>12 DEF Expire, ChangePassword, vars, breaker, provider, Counting
<1>. QED
  BY <1>2, <1>3, <1>4, <1>5, <1>6, <1>7, <1>8, <1>9, <1>10, <1>11, <1>12 DEF Next, Step

\* One dropped session never opens the circuit and is never counted, however many
\* requests were using it: the breaker counts denied logins and 403s only.
THEOREM OneLossNoAlarm == Spec => []NoFalseAlarm
<1>1. Init => LostInv
  BY DEF Init, LostInv
<1>2. Init => AlarmInv
  <2> SUFFICES ASSUME Init PROVE AlarmInv
    OBVIOUS
  <2>1. \A r \in Requests : req[r].pc = "idle"
    BY DEF Init
  <2>2. Counting = {}
    BY <2>1 DEF Counting
  <2>. QED
    BY <2>1, <2>2, FS_EmptySet DEF Init, AlarmInv
<1>3. TypeOK /\ AlarmInv => NoFalseAlarm
  BY FS_CardinalityType DEF TypeOK, AlarmInv, NoFalseAlarm
<1>. QED
  BY <1>1, <1>2, <1>3, TypeCorrect, RejectedCorrect, LostNext, AlarmNext, PTL DEF Spec
=============================================================================
