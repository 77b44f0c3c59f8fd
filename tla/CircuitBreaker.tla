--------------------------- MODULE CircuitBreaker ---------------------------
(***************************************************************************)
(* The per-origin circuit breaker of internal/httpx/breaker.go.            *)
(*                                                                         *)
(* BreakerTransport.RoundTrip runs admit() and record() under the mutex,   *)
(* with the upstream call between them and outside it, so any number of    *)
(* admitted requests overlap and their outcomes are recorded in any order. *)
(* Each half under the mutex is one action; a request that is between the  *)
(* two halves is in `flight` with the generation that admitted it.         *)
(*                                                                         *)
(* Time is the distance to openUntil: `wait` = max(0, openUntil - now), so *)
(* time.Now().Before(openUntil) reads wait > 0 and the clock is the action *)
(* Tick.                                                                   *)
(***************************************************************************)
EXTENDS Integers, FiniteSets

CONSTANTS
    Requests,          \* callers of RoundTrip, one call each at a time
    FailureThreshold,  \* consecutive failures that open a closed circuit
    OpenBase,          \* first open period
    OpenMax,           \* longest open period
    HalfOpenProbes,    \* concurrent trial requests while half-open
    Modulus,           \* number of values of the signed integer that holds a
                       \* period (2^64 for time.Duration)
    MaxOpens           \* bound: how often the origin may make it open

ASSUME RequestsAssumption ==
    IsFiniteSet(Requests)

\* What BreakerConfig.withDefaults leaves in cfg.
ASSUME ConfigAssumption ==
    /\ FailureThreshold \in Nat \ {0}
    /\ HalfOpenProbes \in Nat \ {0}
    /\ OpenBase \in Nat \ {0}
    /\ OpenMax \in Nat
    /\ OpenBase =< OpenMax

ASSUME BoundsAssumption ==
    /\ Modulus \in Nat
    /\ 2 * OpenMax < Modulus
    /\ MaxOpens \in Nat

VARIABLES
    state,        \* b.state
    consecFails,  \* b.consecFails
    reopens,      \* b.reopens
    wait,         \* time left until b.openUntil
    probes,       \* b.probes
    gen,          \* b.gen
    flight        \* generation that admitted each request, or Idle

vars == <<state, consecFails, reopens, wait, probes, gen, flight>>

Idle == -1

States == {"closed", "open", "half-open"}

\* The requests whose outcome would count if it arrived now.
Current == {r \in Requests : flight[r] = gen}

TypeOK ==
    /\ state \in States
    /\ consecFails \in Nat
    /\ reopens \in Nat
    /\ wait \in Nat
    /\ probes \in Nat
    /\ gen \in Nat
    /\ flight \in [Requests -> Nat \cup {Idle}]

-----------------------------------------------------------------------------
\* d << k in two's complement with Modulus values.
ShiftLeft(d, k) ==
    LET bits == (d * 2^k) % Modulus
    IN  IF 2 * bits >= Modulus THEN bits - Modulus ELSE bits

\* Faulty variant: the shift overflow is not guarded.
PeriodUnguarded(k) ==
    LET d == ShiftLeft(OpenBase, k)
    IN  IF d > OpenMax THEN OpenMax ELSE d

\* The open period before jitter: a shift that overflowed to zero or below
\* takes the cap.
Period(k) ==
    LET d == ShiftLeft(OpenBase, k)
    IN  IF d > OpenMax \/ d =< 0 THEN OpenMax ELSE d

\* half + rand.N(half+1).
FullJitter(d) ==
    IF d =< 0 THEN {d} ELSE (d \div 2) .. (2 * (d \div 2))

\* Faulty variant: open() forgets gen++.
OpenSameGen(k) ==
    /\ state' = "open"
    /\ \E d \in FullJitter(Period(k)) : wait' = d
    /\ consecFails' = 0
    /\ probes' = 0
    /\ reopens' = k
    /\ UNCHANGED gen

\* open(): the caller has settled reopens.
Open(k) ==
    /\ state' = "open"
    /\ \E d \in FullJitter(Period(k)) : wait' = d
    /\ consecFails' = 0
    /\ probes' = 0
    /\ gen' = gen + 1
    /\ reopens' = k

-----------------------------------------------------------------------------
Init ==
    /\ state = "closed"
    /\ consecFails = 0
    /\ reopens = 0
    /\ wait = 0
    /\ probes = 0
    /\ gen = 0
    /\ flight = [r \in Requests |-> Idle]

\* admit() lets r pass. A refused call returns ErrCircuitOpen and changes
\* nothing.
Admit(r) ==
    /\ flight[r] = Idle
    /\ \/ /\ state = "closed"
          /\ UNCHANGED <<state, probes>>
       \/ /\ state = "open"
          /\ wait = 0
          /\ state' = "half-open"
          /\ probes' = 1
       \/ /\ state = "half-open"
          /\ probes < HalfOpenProbes
          /\ probes' = probes + 1
          /\ UNCHANGED state
    /\ flight' = [flight EXCEPT ![r] = gen]
    /\ UNCHANGED <<consecFails, reopens, wait, gen>>

\* Faulty variant: a stale success is not dropped and closes the circuit.
RecordStaleCounted(r) ==
    /\ flight[r] # Idle
    /\ flight[r] # gen
    /\ flight' = [flight EXCEPT ![r] = Idle]
    /\ state' = "closed"
    /\ consecFails' = 0
    /\ reopens' = 0
    /\ probes' = 0
    /\ UNCHANGED <<wait, gen>>

\* record() of an outcome admitted before the circuit last opened.
RecordStale(r) ==
    /\ flight[r] # Idle
    /\ flight[r] # gen
    /\ flight' = [flight EXCEPT ![r] = Idle]
    /\ UNCHANGED <<state, consecFails, reopens, wait, probes, gen>>

\* Faulty variant: a cancelled probe does not release its slot.
RecordCanceledKeepsSlot(r) ==
    /\ flight[r] # Idle
    /\ flight[r] = gen
    /\ flight' = [flight EXCEPT ![r] = Idle]
    /\ UNCHANGED <<state, consecFails, reopens, wait, probes, gen>>

\* record() of a call whose parent context was cancelled.
RecordCanceled(r) ==
    /\ flight[r] # Idle
    /\ flight[r] = gen
    /\ flight' = [flight EXCEPT ![r] = Idle]
    /\ probes' = IF state = "half-open" /\ probes > 0 THEN probes - 1 ELSE probes
    /\ UNCHANGED <<state, consecFails, reopens, wait, gen>>

ThresholdReached ==
    /\ state = "closed"
    /\ consecFails + 1 >= FailureThreshold

\* record() of a transport error or a 5xx. The origin stops failing once the
\* circuit has opened MaxOpens times.
RecordFailure(r) ==
    /\ flight[r] # Idle
    /\ flight[r] = gen
    /\ gen < MaxOpens
    /\ flight' = [flight EXCEPT ![r] = Idle]
    /\ \/ /\ ThresholdReached
          /\ Open(0)
       \/ /\ state = "half-open"
          /\ Open(reopens + 1)
       \/ /\ ~ThresholdReached
          /\ state # "half-open"
          /\ consecFails' = IF state = "closed" THEN consecFails + 1 ELSE consecFails
          /\ UNCHANGED <<state, reopens, wait, probes, gen>>

\* record() of any other response.
RecordSuccess(r) ==
    /\ flight[r] # Idle
    /\ flight[r] = gen
    /\ flight' = [flight EXCEPT ![r] = Idle]
    /\ state' = "closed"
    /\ consecFails' = 0
    /\ reopens' = 0
    /\ probes' = 0
    /\ UNCHANGED <<wait, gen>>

Tick ==
    /\ wait > 0
    /\ wait' = wait - 1
    /\ UNCHANGED <<state, consecFails, reopens, probes, gen, flight>>

Next ==
    \/ \E r \in Requests :
          \/ Admit(r)
          \/ RecordStale(r)
          \/ RecordCanceled(r)
          \/ RecordFailure(r)
          \/ RecordSuccess(r)
    \/ Tick

Spec == Init /\ [][Next]_vars

\* What a recovering origin and its callers owe the breaker: time passes,
\* callers keep calling, a call that is over is recorded, and calls to an
\* origin that has stopped failing are not all cancelled.
Fairness ==
    /\ WF_vars(Tick)
    /\ \A r \in Requests :
          /\ WF_vars(Admit(r))
          /\ WF_vars(RecordStale(r))
          /\ SF_vars(RecordSuccess(r))

FairSpec == Spec /\ Fairness

-----------------------------------------------------------------------------
(* Safety *)

\* "Same-generation failure while open is impossible" (record, stateOpen):
\* nothing that is still in flight was admitted by the generation of an open
\* circuit, so no outcome can act on it.
OpenIsQuiet ==
    state = "open" => Current = {}

\* While half-open, b.probes counts exactly the admitted requests that have
\* not been recorded, and there are at most HalfOpenProbes of them: a slot is
\* neither leaked by a cancelled call nor released by a stale one.
ProbesAreInFlight ==
    state = "half-open" =>
        /\ probes = Cardinality(Current)
        /\ probes =< HalfOpenProbes

\* Every in-flight generation is one the breaker has had, and a closed circuit
\* is always below its threshold, so the next failure that reaches it opens it.
CountersInStep ==
    /\ \A r \in Requests : flight[r] =< gen
    /\ state = "closed" => consecFails < FailureThreshold
    /\ state # "closed" => consecFails = 0
    /\ state # "open" => wait = 0

\* The inductive invariant: OpenIsQuiet makes the first probe of a half-open
\* circuit the only current request, which ProbesAreInFlight counts from.
BreakerInv ==
    /\ TypeOK
    /\ OpenIsQuiet
    /\ ProbesAreInFlight
    /\ CountersInStep

(***************************************************************************)
(* The open window is served to its end: until openUntil no request is     *)
(* admitted, and no outcome of a request admitted earlier closes the       *)
(* circuit, moves openUntil or touches the backoff (the comment on         *)
(* BreakerTransport.gen).                                                  *)
(***************************************************************************)
OpenWindowStep ==
    state = "open" /\ wait > 0 =>
        /\ state' = "open"
        /\ wait' \in {wait, wait - 1}
        /\ UNCHANGED <<reopens, consecFails, gen>>
        /\ \A r \in Requests : flight'[r] \in {flight[r], Idle}

OpenWindowServed == [][OpenWindowStep]_vars

(***************************************************************************)
(* The period promised by BreakerConfig.OpenBase: "Each re-open (a failed  *)
(* half-open probe) doubles it, capped at OpenMax. Full jitter ([d/2, d])  *)
(* is applied". Stated with unbounded integers, against the shift modulo   *)
(* Modulus that open() really computes.                                 *)
(***************************************************************************)
BackoffAsDocumented ==
    [][gen' # gen =>
          LET doubled == OpenBase * 2^reopens'
              d == IF doubled > OpenMax THEN OpenMax ELSE doubled
          IN  wait' \in (d \div 2) .. d]_vars

\* A circuit that opened closes again once the origin has stopped failing: no
\* lost probe slot or stale generation leaves it fast-failing for good.
Recovers ==
    state # "closed" ~> state = "closed"

=============================================================================
