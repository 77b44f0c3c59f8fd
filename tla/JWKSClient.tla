----------------------------- MODULE JWKSClient -----------------------------
(***************************************************************************)
(* The key cache of internal/middleware/auth/jwks.go: KeyWithAlg as its    *)
(* callers run it, the background refresh, and the fetch they share.       *)
(*                                                                         *)
(* Callers take c.mu for each lookup, check and update on its own, so the  *)
(* steps of several calls interleave. singleflight.Group allows one fetch  *)
(* at a time: `flight`. A deadline d of the code is kept as the time left  *)
(* until it, which Tick counts down: now.After(d) is `left < 0` and        *)
(* now.Before(d) is `left > 0`. A published key is one refresh keeps: a    *)
(* signing key that parses.                                                *)
(***************************************************************************)
EXTENDS Integers

CONSTANTS
    Callers,
    Kids,
    Bg,                  \* the goroutine of maybeKickBackgroundRefresh
    NoKid,
    TTL,
    HardTTL,
    MinRefreshInterval,
    NegativeCacheTTL,
    RefreshTimeout

ASSUME JWKSConfigAssumption ==
    /\ TTL \in Nat \ {0}
    /\ HardTTL \in Nat /\ HardTTL >= TTL
    /\ MinRefreshInterval \in Nat \ {0}
    /\ NegativeCacheTTL \in Nat \ {0}
    /\ RefreshTimeout \in Nat \ {0}
    /\ Bg \notin Callers
    /\ NoKid \notin Kids

VARIABLES
    keys,        \* the cached kids
    softLeft,    \* softExpiry - now, not below -1
    hardLeft,    \* hardExpiry - now, not below -1
    negLeft,     \* negKids[kid] - now, or 0
    floorLeft,   \* lastRefreshAttempt + MinRefreshInterval - now, or 0
    bgRefresh,
    flight,      \* the fetch in progress
    pc,          \* where each caller and the background goroutine is
    kid,         \* the kid each caller asks for
    published,   \* the issuer's keys
    age,         \* history: how long a kid has been published, or gone
    ownFloor     \* history: MinRefreshInterval after a caller's last fetch

clock == <<softLeft, hardLeft, negLeft, floorLeft>>
history == <<age, ownFloor>>
vars == <<keys, clock, bgRefresh, flight, pc, kid, published, history>>

Actors == Callers \cup {Bg}
NoFlight == [phase |-> "none", age |-> 0, answer |-> {}]

\* Bound on the history: time beyond it makes no difference to a property.
MaxAge == HardTTL + RefreshTimeout + 1

Init ==
    /\ keys = {}
    /\ softLeft = 0 /\ hardLeft = 0   \* of no consequence while keys is empty
    /\ negLeft = [k \in Kids |-> 0]
    /\ floorLeft = 0
    /\ bgRefresh = FALSE
    /\ flight = NoFlight
    /\ pc = [a \in Actors |-> "idle"]
    /\ kid = [c \in Callers |-> NoKid]
    /\ published \in SUBSET Kids
    /\ age = [k \in Kids |-> MaxAge]
    /\ ownFloor = [c \in Callers |-> 0]

-----------------------------------------------------------------------------
(* KeyWithAlg.                                                                *)

\* Faulty variant: entries are served past hardExpiry.
HitAnyAge(k) == k \in keys

Hit(k) == hardLeft >= 0 /\ k \in keys

Goto(a, label) == pc' = [pc EXCEPT ![a] = label]

\* The call of c returns.
Exit(c) == Goto(c, "idle") /\ kid' = [kid EXCEPT ![c] = NoKid]

\* A call for kid k: the first lookup. A fresh hit returns at once and changes
\* nothing.
Lookup(c, k) ==
    /\ pc[c] = "idle"
    /\ ~Hit(k) \/ softLeft < 0
    /\ kid' = [kid EXCEPT ![c] = k]
    /\ Goto(c, IF Hit(k) THEN "stale" ELSE "missed")
    /\ UNCHANGED <<keys, clock, bgRefresh, flight, published, history>>

\* maybeKickBackgroundRefresh; then the stale key is returned.
Kick(c) ==
    /\ pc[c] = "stale"
    /\ bgRefresh' = TRUE
    /\ pc' = [pc EXCEPT ![c] = "idle", ![Bg] = IF bgRefresh THEN @ ELSE "enter"]
    /\ kid' = [kid EXCEPT ![c] = NoKid]
    /\ UNCHANGED <<keys, clock, flight, published, history>>

NegativeCached(k) == negLeft[k] > 0

shouldShortCircuit(k) == NegativeCached(k) \/ floorLeft > 0

\* The miss is refused without a fetch ...
Refuse(c) ==
    /\ pc[c] = "missed"
    /\ shouldShortCircuit(kid[c])
    /\ Exit(c)
    /\ UNCHANGED <<keys, clock, bgRefresh, flight, published, history>>

\* ... or goes on to refresh.
PassFloor(c) ==
    /\ pc[c] = "missed"
    /\ ~shouldShortCircuit(kid[c])
    /\ Goto(c, "enter")
    /\ UNCHANGED <<keys, clock, bgRefresh, flight, kid, published, history>>

\* The lookup after a refresh that succeeded; stale or fresh, a hit returns.
LookupAgain(c) ==
    /\ pc[c] = "refreshed"
    /\ IF Hit(kid[c]) THEN Exit(c) ELSE Goto(c, "absent") /\ UNCHANGED kid
    /\ UNCHANGED <<keys, clock, bgRefresh, flight, published, history>>

markNegative(c) ==
    /\ pc[c] = "absent"
    /\ negLeft' = [negLeft EXCEPT ![kid[c]] = NegativeCacheTTL]
    /\ Exit(c)
    /\ UNCHANGED <<keys, softLeft, hardLeft, floorLeft, bgRefresh, flight, published, history>>

-----------------------------------------------------------------------------
(* refresh.                                                                   *)

\* group.Do finds a fetch in progress and waits for its result.
Join(a) ==
    /\ pc[a] = "enter"
    /\ flight # NoFlight
    /\ Goto(a, "wait")
    /\ UNCHANGED <<keys, clock, bgRefresh, flight, kid, published, history>>

\* Faulty variant: only a fetch that succeeds counts as an attempt.
RecordAttemptNever == UNCHANGED floorLeft

RecordAttempt == floorLeft' = MinRefreshInterval

\* group.Do starts one. The attempt is recorded whatever comes of it.
Lead(a) ==
    /\ pc[a] = "enter"
    /\ flight = NoFlight
    /\ RecordAttempt
    /\ flight' = [NoFlight EXCEPT !.phase = "asked"]
    /\ Goto(a, "wait")
    /\ ownFloor' = [c \in Callers |-> IF c = a THEN MinRefreshInterval ELSE ownFloor[c]]
    /\ UNCHANGED <<keys, softLeft, hardLeft, negLeft, bgRefresh, kid, published, age>>

\* The issuer produces the document.
Answer ==
    /\ flight.phase = "asked"
    /\ flight' = [flight EXCEPT !.phase = "answered", !.answer = published]
    /\ UNCHANGED <<keys, clock, bgRefresh, pc, kid, published, history>>

\* group.Do returns to everyone who waits.
Return(label) ==
    /\ pc' = [a \in Actors |-> IF pc[a] # "wait" THEN pc[a]
                               ELSE IF a = Bg THEN "done" ELSE label]
    /\ kid' = [c \in Callers |-> IF pc[c] = "wait" /\ label = "idle" THEN NoKid ELSE kid[c]]

Install ==
    /\ flight.phase = "answered"
    /\ keys' = flight.answer
    /\ softLeft' = TTL
    /\ hardLeft' = HardTTL
    /\ negLeft' = [k \in Kids |-> 0]
    /\ flight' = NoFlight
    /\ Return("refreshed")
    /\ UNCHANGED <<floorLeft, bgRefresh, published, history>>

\* Faulty variant: what a failed fetch decoded replaces the keys.
FailAndDrop ==
    /\ flight # NoFlight
    /\ flight' = NoFlight
    /\ keys' = {}
    /\ Return("idle")
    /\ UNCHANGED <<clock, bgRefresh, published, history>>

\* The issuer is down, answers with an error or not in time, or the request
\* whose context the fetch runs under is cancelled: all who wait get the error.
Fail ==
    /\ flight # NoFlight
    /\ flight' = NoFlight
    /\ Return("idle")
    /\ UNCHANGED <<keys, clock, bgRefresh, published, history>>

\* The background goroutine ends.
Finish ==
    /\ pc[Bg] = "done"
    /\ bgRefresh' = FALSE
    /\ Goto(Bg, "idle")
    /\ UNCHANGED <<keys, clock, flight, kid, published, history>>

-----------------------------------------------------------------------------
(* The issuer and time.                                                       *)

\* The issuer publishes or withdraws k.
Rotate(k) ==
    /\ published' = IF k \in published THEN published \ {k} ELSE published \cup {k}
    /\ age' = [age EXCEPT ![k] = 0]
    /\ UNCHANGED <<keys, clock, bgRefresh, flight, pc, kid, ownFloor>>

Down(left, least) == IF left > least THEN left - 1 ELSE least

\* Faulty variant: negative entries do not expire.
NegativeAfterTickKept(k) == negLeft[k]

NegativeAfterTick(k) == Down(negLeft[k], 0)

\* http.Client.Timeout, from the request to the end of the body, ends a fetch.
Tick ==
    /\ flight # NoFlight => flight.age < RefreshTimeout
    /\ softLeft' = Down(softLeft, -1)
    /\ hardLeft' = Down(hardLeft, -1)
    /\ negLeft' = [k \in Kids |-> NegativeAfterTick(k)]
    /\ floorLeft' = Down(floorLeft, 0)
    /\ flight' = IF flight = NoFlight THEN flight ELSE [flight EXCEPT !.age = @ + 1]
    /\ age' = [k \in Kids |-> IF age[k] < MaxAge THEN age[k] + 1 ELSE MaxAge]
    /\ ownFloor' = [c \in Callers |-> Down(ownFloor[c], 0)]
    /\ UNCHANGED <<keys, bgRefresh, pc, kid, published>>

CallStep(c) ==
    \/ Kick(c)
    \/ Refuse(c)
    \/ PassFloor(c)
    \/ LookupAgain(c)
    \/ markNegative(c)

Next ==
    \/ \E c \in Callers : CallStep(c) \/ \E k \in Kids : Lookup(c, k)
    \/ \E a \in Actors : Join(a) \/ Lead(a)
    \/ Answer \/ Install \/ Fail \/ Finish
    \/ \E k \in Kids : Rotate(k)
    \/ Tick

Spec == Init /\ [][Next]_vars

\* Goroutines run, time passes, clients keep presenting each kid, and the issuer
\* is not down every time it is asked.
Fairness ==
    /\ \A c \in Callers : WF_vars(CallStep(c))
    /\ \A a \in Actors : WF_vars(Join(a) \/ Lead(a))
    /\ \A k \in Kids : SF_vars(\E c \in Callers : Lookup(c, k))
    /\ SF_vars(Answer) /\ SF_vars(Install) /\ WF_vars(Install \/ Fail)
    /\ WF_vars(Finish) /\ WF_vars(Tick)

FairSpec == Spec /\ Fairness

-----------------------------------------------------------------------------
(* Properties.                                                                *)

Labels == {"idle", "missed", "stale", "enter", "wait", "refreshed", "absent"}

\* Every deadline, caller and fetch is in range, and the background goroutine
\* exists exactly while bgRefresh is set.
TypeOK ==
    /\ keys \subseteq Kids
    /\ softLeft \in -1 .. TTL /\ hardLeft \in -1 .. HardTTL
    /\ negLeft \in [Kids -> 0 .. NegativeCacheTTL]
    /\ floorLeft \in 0 .. MinRefreshInterval
    /\ flight \in [phase : {"none", "asked", "answered"}, age : 0 .. RefreshTimeout,
                   answer : SUBSET Kids]
    /\ pc \in [Actors -> Labels \cup {"done"}]
    /\ kid \in [Callers -> Kids \cup {NoKid}]
    /\ \A c \in Callers : pc[c] = "idle" <=> kid[c] = NoKid
    /\ pc[Bg] \in {"idle", "enter", "wait", "done"}
    /\ bgRefresh = (pc[Bg] # "idle")
    /\ published \subseteq Kids
    /\ age \in [Kids -> 0 .. MaxAge]
    /\ ownFloor \in [Callers -> 0 .. MinRefreshInterval]

GoneFor(k) == IF k \in published THEN 0 ELSE age[k]

\* A withdrawn key stops being accepted at the latest HardTTL after the last
\* document that had it, whatever refreshes fail, overlap or arrive late
\* (hardExpiry: "discard entirely after this").
RevocationBounded ==
    \A k \in Kids : Hit(k) => GoneFor(k) =< HardTTL + RefreshTimeout

\* "On IdP outage requests continue to be served from the stale cache until
\* HardTTL elapses": a key the issuer has not withdrawn while the last document
\* was under way stays in the cache, until the document is too old.
KeysSurviveOutage ==
    [][\A k \in Kids : Hit(k) /\ ~Hit(k)' =>
          hardLeft' < 0 \/ k \notin published \/ age[k] =< RefreshTimeout]_vars

\* "singleflight collapses concurrent requests but does nothing for serial
\* bursts": one after the other, the calls of one caller start fetches at least
\* MinRefreshInterval apart, also when these fail.
SerialBurstsThrottled ==
    \A c \in Callers : pc[c] = "enter" => ownFloor[c] = 0

\* The strengthening behind the two invariants and KeysSurviveOutage: how far the
\* cache and a document under way may lag behind the issuer, and that a caller's
\* own floor never outlasts the shared one.
JWKSInv ==
    /\ TypeOK
    /\ flight.phase = "none" => flight = NoFlight
    /\ flight.phase = "answered" => \A k \in Kids :
          /\ k \in flight.answer => GoneFor(k) =< flight.age
          /\ k \in published \ flight.answer => age[k] =< flight.age
    /\ hardLeft >= 0 => \A k \in keys : GoneFor(k) + hardLeft =< HardTTL + RefreshTimeout
    /\ \A c \in Callers : ownFloor[c] =< floorLeft
    /\ SerialBurstsThrottled

\* A key that stays published is accepted again and again, although unknown
\* kids are refused for a while and fetches fail ("so genuine key rotation isn't
\* delayed").
RotationArrives ==
    \A k \in Kids : <>[](k \in published) => []<>Hit(k)

-----------------------------------------------------------------------------
(* What the documentation says and the code does not do.                      *)

\* "if the previous refresh happened within MinRefreshInterval and the kid is
\* still absent, return "kid not found" without a network call" (KeyWithAlg): the
\* floor refuses a kid that a finished refresh did not bring.
FloorRefusesAbsentKids ==
    [][\A c \in Callers :
          Refuse(c) /\ ~NegativeCached(kid[c]) => flight = NoFlight /\ ~Hit(kid[c])]_vars

=============================================================================
