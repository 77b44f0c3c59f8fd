---------------------------- MODULE OriginClient ----------------------------
(***************************************************************************)
(* The transport stack of one origin, as NewOriginClientWithContext builds *)
(* it: circuit breaker, then upstream authentication with an OAuth2 token  *)
(* source, then retries (internal/federation/origin.go, auth_providers.go, *)
(* internal/httpx/transport.go). The breaker is the module CircuitBreaker. *)
(*                                                                         *)
(* A call comes from the origin's http.Client, which sets a deadline, from *)
(* the reverse proxy, which uses the bare transport and sets none, or from *)
(* a health probe, whose stack leaves the breaker out. Deadlines and       *)
(* lifetimes are kept as the time left, which Tick counts down.            *)
(***************************************************************************)
EXTENDS Integers, FiniteSets

CONSTANTS
    Requests, FailureThreshold, OpenBase, OpenMax, HalfOpenProbes, Modulus,
    MaxOpens,        \* of CircuitBreaker; here calls stop once it is reached
    Offers,          \* the kinds of call made: who asks, from where, how
    MaxRetries,
    RetryOn,         \* statuses to retry; none listed means every 5xx
    Statuses,        \* what an origin may answer
    RetryAfter,      \* delays an origin may ask for
    InitialBackoff, MaxBackoff,
    Timeout,         \* of the origin's http.Client
    TokenTimeout,    \* of the token source's http.Client
    Skew,            \* a token is not used in the last 30 s of its life
    ExpiresIn,       \* lifetimes the issuer may state; 0 when it states none
    DefaultLife      \* ... and what is assumed then

VARIABLES
    state, consecFails, reopens, wait, probes, gen, flight,   \* the breaker
    token,      \* life left of the cached token, or NoToken
    fetch,      \* the token request in progress
    pc, via, method,
    left,       \* time left until the caller's deadline
    canceled,   \* the caller's context was cancelled
    attempts,   \* times the request was sent
    pause,      \* time left of a backoff
    bearer,     \* life left of the token in the request's header
    result      \* why the token source failed this call

breaker == <<state, consecFails, reopens, wait, probes, gen, flight>>
source == <<token, fetch>>
calls == <<pc, via, method, left, canceled, attempts, pause, bearer, result>>
vars == <<breaker, source, calls>>

Breaker == INSTANCE CircuitBreaker

Vias == {"client", "proxy", "probe"}
Methods == {"GET", "POST"}
NoToken == -1
NoFetch == [leader |-> "none", left |-> 0]
Failed == 0     \* the status of a call that ended in a transport error

\* Nothing tells lives beyond this one apart.
Ages == -2 .. (DefaultLife + Timeout)

TypeOK ==
    /\ token \in Ages
    /\ fetch = NoFetch \/ fetch \in [leader : Requests, left : 0 .. TokenTimeout]
    /\ pc \in [Requests -> {"idle", "auth", "enter", "wait", "failed", "attempt", "backoff"}]
    /\ via \in [Requests -> Vias]
    /\ method \in [Requests -> Methods]
    /\ left \in [Requests -> 0 .. Timeout]
    /\ canceled \in [Requests -> BOOLEAN]
    /\ attempts \in [Requests -> 0 .. MaxRetries + 1]
    /\ pause \in [Requests -> Nat]
    /\ bearer \in [Requests -> Ages]
    /\ result \in [Requests -> {"none", "canceled", "error"}]

Init ==
    /\ Breaker!Init
    /\ token = NoToken
    /\ fetch = NoFetch
    /\ pc = [r \in Requests |-> "idle"]
    /\ via = [r \in Requests |-> "client"]
    /\ method = [r \in Requests |-> "GET"]
    /\ left = [r \in Requests |-> 0]
    /\ canceled = [r \in Requests |-> FALSE]
    /\ attempts = [r \in Requests |-> 0]
    /\ pause = [r \in Requests |-> 0]
    /\ bearer = [r \in Requests |-> NoToken]
    /\ result = [r \in Requests |-> "none"]

-----------------------------------------------------------------------------
(* Entering the stack, and leaving it.                                       *)

\* A call that the breaker lets pass; a probe does not meet it. A refused call
\* returns ErrCircuitOpen and changes nothing.
Call(r, v, m) ==
    /\ pc[r] = "idle"
    /\ gen < MaxOpens
    /\ IF v = "probe" THEN m = "GET" /\ UNCHANGED breaker ELSE Breaker!Admit(r)
    /\ pc' = [pc EXCEPT ![r] = "auth"]
    /\ via' = [via EXCEPT ![r] = v]
    /\ method' = [method EXCEPT ![r] = m]
    /\ left' = [left EXCEPT ![r] = Timeout]
    /\ UNCHANGED <<source, canceled, attempts, pause, bearer, result>>

Expired(r) == via[r] # "proxy" /\ left[r] = 0
Done(r) == canceled[r] \/ Expired(r)

\* The call is over; the stack forgets it.
Reset(r) ==
    /\ pc' = [pc EXCEPT ![r] = "idle"]
    /\ via' = [via EXCEPT ![r] = "client"]
    /\ method' = [method EXCEPT ![r] = "GET"]
    /\ left' = [left EXCEPT ![r] = 0]
    /\ canceled' = [canceled EXCEPT ![r] = FALSE]
    /\ attempts' = [attempts EXCEPT ![r] = 0]
    /\ pause' = [pause EXCEPT ![r] = 0]
    /\ bearer' = [bearer EXCEPT ![r] = NoToken]
    /\ result' = [result EXCEPT ![r] = "none"]

\* The inner stack returns and the breaker records one outcome, whatever the
\* number of attempts.
Return(r, outcome) ==
    /\ Reset(r)
    /\ IF via[r] = "probe" THEN UNCHANGED breaker
       ELSE \/ Breaker!RecordStale(r)
            \/ outcome = "canceled" /\ Breaker!RecordCanceled(r)
            \/ outcome = "failure" /\ Breaker!RecordFailure(r)
            \/ outcome = "success" /\ Breaker!RecordSuccess(r)

\* The parent of the call's context is cancelled; after the deadline that
\* changes nothing, as a context keeps its first error.
Cancel(r) ==
    /\ pc[r] # "idle"
    /\ ~Done(r)
    /\ canceled' = [canceled EXCEPT ![r] = TRUE]
    /\ UNCHANGED <<breaker, source, pc, via, method, left, attempts, pause, bearer, result>>

-----------------------------------------------------------------------------
(* The token source.                                                         *)

\* Faulty variant: the token is used to the end of its life.
TokenValidToTheEnd == token > 0

TokenValid == token > Skew

\* The request leaves with the token in its header.
Send(r, life) ==
    /\ pc' = [pc EXCEPT ![r] = "attempt"]
    /\ bearer' = [bearer EXCEPT ![r] = life]
    /\ attempts' = [attempts EXCEPT ![r] = 1]

\* getToken: the cached token, or on to the refresh.
GetToken(r) ==
    /\ pc[r] = "auth"
    /\ IF TokenValid THEN Send(r, token)
       ELSE pc' = [pc EXCEPT ![r] = "enter"] /\ UNCHANGED <<bearer, attempts>>
    /\ UNCHANGED <<breaker, source, via, method, left, canceled, pause, result>>

\* refreshOnce finds a refresh in progress. Waiting for it heeds no context.
Join(r) ==
    /\ pc[r] = "enter"
    /\ fetch # NoFetch
    /\ pc' = [pc EXCEPT ![r] = "wait"]
    /\ UNCHANGED <<breaker, source, via, method, left, canceled, attempts, pause, bearer, result>>

\* Faulty variant: the token is not looked at again inside the group.
LeadUnchecked(r) ==
    /\ pc[r] = "enter"
    /\ fetch = NoFetch
    /\ fetch' = [leader |-> r, left |-> TokenTimeout]
    /\ pc' = [pc EXCEPT ![r] = "wait"]
    /\ UNCHANGED <<breaker, token, via, method, left, canceled, attempts, pause, bearer, result>>

\* refreshOnce starts one, unless a refresh that has just ended left a token.
Lead(r) ==
    /\ pc[r] = "enter"
    /\ fetch = NoFetch
    /\ IF TokenValid THEN Send(r, token) /\ UNCHANGED fetch
       ELSE /\ fetch' = [leader |-> r, left |-> TokenTimeout]
            /\ pc' = [pc EXCEPT ![r] = "wait"]
            /\ UNCHANGED <<bearer, attempts>>
    /\ UNCHANGED <<breaker, token, via, method, left, canceled, pause, result>>

Waiting == {r \in Requests : pc[r] = "wait"}

Life(e) == IF e > 0 THEN e ELSE DefaultLife

\* The token is published and every waiting call goes on with it. An answer
\* without an access_token is published like any other.
Grant(life) ==
    /\ token' = life
    /\ fetch' = NoFetch
    /\ pc' = [r \in Requests |-> IF r \in Waiting THEN "attempt" ELSE pc[r]]
    /\ bearer' = [r \in Requests |-> IF r \in Waiting THEN life ELSE bearer[r]]
    /\ attempts' = [r \in Requests |-> IF r \in Waiting THEN 1 ELSE attempts[r]]
    /\ UNCHANGED <<breaker, via, method, left, canceled, pause, result>>

\* The issuer answers 200.
FetchAnswered ==
    /\ fetch # NoFetch
    /\ ~Done(fetch.leader) /\ fetch.left > 0
    /\ Grant(NoToken) \/ \E e \in ExpiresIn : Grant(Life(e))

\* Every waiting call gets the error of the one request they share.
FailWaiting(why) ==
    /\ fetch' = NoFetch
    /\ pc' = [r \in Requests |-> IF r \in Waiting THEN "failed" ELSE pc[r]]
    /\ result' = [r \in Requests |-> IF r \in Waiting THEN why ELSE result[r]]
    /\ UNCHANGED <<breaker, token, via, method, left, canceled, attempts, pause, bearer>>

\* Another status, or a body that does not parse.
FetchRefused ==
    /\ fetch # NoFetch
    /\ FailWaiting("error")

\* Faulty variant: the token client has no timeout of its own.
FetchAbortedByCaller ==
    /\ fetch # NoFetch
    /\ Done(fetch.leader)
    /\ FailWaiting(IF canceled[fetch.leader] THEN "canceled" ELSE "error")

\* The token request runs under the context of the call that started it, and
\* under the token client's own timeout.
FetchAborted ==
    /\ fetch # NoFetch
    /\ \/ canceled[fetch.leader] /\ FailWaiting("canceled")
       \/ (Expired(fetch.leader) \/ fetch.left = 0) /\ FailWaiting("error")

\* authRoundTripper returns the error. One that wraps context.Canceled is
\* neutral for the breaker, whoever was cancelled.
AuthFails(r) ==
    /\ pc[r] = "failed"
    /\ Return(r, IF result[r] = "canceled" THEN "canceled" ELSE "failure")
    /\ UNCHANGED source

-----------------------------------------------------------------------------
(* The retrying transport.                                                   *)

\* methodGatedTransport: only idempotent methods meet the retry layer.
Retried(r) == MaxRetries > 0 /\ method[r] # "POST"

\* checkRetryFunc, for a context that is not done.
ShouldRetry(status) ==
    \/ status = Failed
    \/ IF RetryOn = {} THEN status >= 500 ELSE status \in RetryOn

\* jitteredBackoff: exponential from InitialBackoff, capped and jittered; a
\* Retry-After of a 429 or 503 is honoured exactly.
Backoff(n, status, after) ==
    LET d == InitialBackoff * 2^n
    IN  IF status \in {429, 503} /\ after > 0 THEN {after}
        ELSE Breaker!FullJitter(IF d > MaxBackoff THEN MaxBackoff ELSE d)

\* The retries are used up; the last answer is passed on as it is.
Exhausted(r) == attempts[r] > MaxRetries

\* Faulty variant: every attempt that fails counts against the origin, as it
\* would with the retries outside the breaker.
AnswerCounted(r, status, after) ==
    /\ pc[r] = "attempt"
    /\ ~Done(r)
    /\ IF Retried(r) /\ ShouldRetry(status) /\ ~Exhausted(r)
       THEN /\ pc' = [pc EXCEPT ![r] = "backoff"]
            /\ \E d \in Backoff(attempts[r] - 1, status, after) : pause' = [pause EXCEPT ![r] = d]
            /\ consecFails' = consecFails + 1
            /\ UNCHANGED <<state, reopens, wait, probes, gen, flight>>
            /\ UNCHANGED <<via, method, left, canceled, attempts, bearer, result>>
       ELSE Return(r, IF status = Failed \/ status >= 500 THEN "failure" ELSE "success")
    /\ UNCHANGED source

\* The origin answers the attempt, or the connection fails.
Answer(r, status, after) ==
    /\ pc[r] = "attempt"
    /\ ~Done(r)
    /\ IF Retried(r) /\ ShouldRetry(status) /\ ~Exhausted(r)
       THEN /\ pc' = [pc EXCEPT ![r] = "backoff"]
            /\ \E d \in Backoff(attempts[r] - 1, status, after) : pause' = [pause EXCEPT ![r] = d]
            /\ UNCHANGED <<breaker, via, method, left, canceled, attempts, bearer, result>>
       ELSE Return(r, IF status = Failed \/ status >= 500 THEN "failure" ELSE "success")
    /\ UNCHANGED source

\* The backoff is over: the same request, with the header it already has.
Resend(r) ==
    /\ pc[r] = "backoff"
    /\ pause[r] = 0
    /\ ~Done(r)
    /\ pc' = [pc EXCEPT ![r] = "attempt"]
    /\ attempts' = [attempts EXCEPT ![r] = @ + 1]
    /\ UNCHANGED <<breaker, source, via, method, left, canceled, pause, bearer, result>>

\* The context ends an attempt or a backoff.
ContextEnds(r) ==
    /\ pc[r] \in {"attempt", "backoff"}
    /\ Done(r)
    /\ Return(r, IF canceled[r] THEN "canceled" ELSE "failure")
    /\ UNCHANGED source

-----------------------------------------------------------------------------
Down(n) == IF n > 0 THEN n - 1 ELSE n

Tick ==
    /\ IF wait > 0 THEN Breaker!Tick ELSE UNCHANGED breaker
    /\ token' = Down(token)
    /\ fetch' = IF fetch = NoFetch THEN fetch ELSE [fetch EXCEPT !.left = Down(@)]
    /\ left' = [r \in Requests |-> IF via[r] = "proxy" THEN left[r] ELSE Down(left[r])]
    /\ pause' = [r \in Requests |-> Down(pause[r])]
    /\ bearer' = [r \in Requests |-> Down(bearer[r])]
    /\ UNCHANGED <<pc, via, method, canceled, attempts, result>>

Next ==
    \/ \E r \in Requests :
          \/ \E v \in Vias, m \in Methods : <<r, v, m>> \in Offers /\ Call(r, v, m)
          \/ Cancel(r)
          \/ GetToken(r)
          \/ Join(r)
          \/ Lead(r)
          \/ AuthFails(r)
          \/ \E s \in Statuses \cup {Failed}, d \in RetryAfter : Answer(r, s, d)
          \/ Resend(r)
          \/ ContextEnds(r)
    \/ FetchAnswered
    \/ FetchRefused
    \/ FetchAborted
    \/ Tick

Spec == Init /\ [][Next]_vars

\* Time passes and the code runs on: what is enabled in this process is done.
\* Nothing is assumed of the origin, of the issuer or of the callers.
Fairness ==
    /\ WF_vars(Tick)
    /\ WF_vars(FetchAborted)
    /\ \A r \in Requests :
          WF_vars(GetToken(r) \/ Join(r) \/ Lead(r) \/ AuthFails(r) \/ Resend(r) \/ ContextEnds(r))

FairSpec == Spec /\ Fairness

-----------------------------------------------------------------------------
(***************************************************************************)
(* "One user-visible request = one breaker sample regardless of retry      *)
(* fan-out" (origin.go). A call the breaker admitted holds its admission   *)
(* through token requests, retries and backoffs, and gives it back in the  *)
(* very step in which it ends, cancelled or not; the failure count, the    *)
(* backoff and the generation move in no other step, so neither a failed   *)
(* attempt nor a health probe counts.                                      *)
(***************************************************************************)
CallIsOneSample ==
    [][/\ \A r \in Requests :
             pc[r] # "idle" /\ via[r] # "probe" =>
                (flight'[r] = Breaker!Idle <=> pc'[r] = "idle")
       /\ <<consecFails, reopens, gen>>' # <<consecFails, reopens, gen>> =>
             \E r \in Requests : pc[r] # "idle" /\ via[r] # "probe" /\ pc'[r] = "idle"]_vars

\* Token requests are never spent while a usable token is cached: the callers
\* that found it expired together cause one refresh, and those who come to
\* refreshOnce after it start no second one (the re-check inside the group).
NoNeedlessFetch ==
    [][fetch = NoFetch /\ fetch' # NoFetch => ~TokenValid]_vars

(***************************************************************************)
(* The header is set once per call and not per attempt, so a retry carries *)
(* the token of the first attempt. With a client timeout within the skew   *)
(* (30 s each by default) and lifetimes of at least the timeout, no        *)
(* attempt made before the deadline carries a token that has expired.      *)
(***************************************************************************)
BearerLive ==
    \A r \in Requests :
        pc[r] = "attempt" /\ via[r] # "proxy" /\ ~Expired(r) => bearer[r] # 0

\* A call made through the origin's http.Client, or a probe, comes to an end
\* although waiting for a shared token request heeds no deadline: the token
\* client's own timeout ends that one.
CallsEnd ==
    \A r \in Requests :
        pc[r] # "idle" /\ via[r] # "proxy" ~> pc[r] = "idle"

=============================================================================
