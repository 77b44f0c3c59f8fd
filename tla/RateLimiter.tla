---------------------------- MODULE RateLimiter ----------------------------
(***************************************************************************)
(* The rate-limit middleware over either of its limiters: token buckets in *)
(* an LRU table of this process, or in Redis, shared by all replicas       *)
(* (internal/middleware/ratelimit).                                        *)
(*                                                                         *)
(* A token is worth Cost units and a bucket gains one unit per unit of     *)
(* time, up to Full. Times are kept relative to the present. A replica's   *)
(* clock may run ahead by up to Lead, and a call to Redis takes up to      *)
(* CallTimeout, so scripts run out of the order of the times they carry.   *)
(* So do the reservations in memory: the clock is read outside the lock of *)
(* the bucket, and up to Delay may pass before the time is used.           *)
(***************************************************************************)
EXTENDS Integers, Sequences, FiniteSets, FiniteSetsExt

CONSTANTS
    Requests,
    Deployments,   \* store, table size, failure mode, the clients (principal ID
                   \* and address) and how many of them ask at once
    Cost,          \* time in which one request is earned: Window / Requests
    Burst,
    MaxDebt,       \* a bucket is driven no deeper than this below zero
    Delay,         \* the longest from reading the clock to using the time
    MaxRewound,    \* the account of time credited twice is kept up to this
    CallTimeout,   \* of a call to Redis
    Lead           \* the most a replica's clock is ahead

ASSUME QuotaAssumption ==
    /\ Cost \in Nat \ {0} /\ Burst \in Nat \ {0}
    /\ MaxDebt \in Nat /\ Delay \in Nat /\ MaxRewound \in Nat
    /\ CallTimeout \in Nat /\ Lead \in Nat
    /\ CallTimeout + Lead =< Burst * Cost

VARIABLES
    dep,       \* the deployment
    pc, key,
    table,     \* memory: the cached buckets' keys and ids, latest used first
    bucket,    \* memory: the state of each bucket
    held,      \* memory: the bucket a request works with
    wait,      \* memory: what the reservation a request holds has to wait
    rewound,   \* auxiliary: time by which the buckets of a key were set back
    lag,       \* age of the time the request carries
    stored,    \* Redis: the hash of each key
    owed       \* auxiliary: units taken of each key and not yet earned again

memory == <<table, bucket, held, wait, rewound>>
vars == <<dep, pc, key, memory, lag, stored, owed>>

Full == Burst * Cost
Window == CallTimeout + Lead
DefaultKeyFunc(c) ==
    IF c.id \notin {"", "anonymous"} THEN <<"user", c.id>> ELSE <<"ip", c.ip>>
Keys == {DefaultKeyFunc(c) : c \in UNION {d.clients : d \in Deployments}}
SomeKey == CHOOSE k \in Keys : TRUE

\* A bucket lives while it is cached or held: no more ids are in use at once.
Buckets == 1 .. (Max({d.maxEntries : d \in Deployments}) + Cardinality(Requests))
NoBucket == 0

\* A rate.Limiter: the units it holds (less than 0 if reserved ahead), the age of
\* the time at which it holds them, and when its latest reservation is due; short
\* records that a cancelled reservation was not restored in full.
NewBucket == [units |-> Full, last |-> Delay, event |-> 0, short |-> FALSE]
NoHash == [tokens |-> -1, age |-> 0, ttl |-> 0]

\* The script's PEXPIRE: twice the time a bucket takes to fill.
Expiry == 2 * Full

TypeOK ==
    /\ dep \in Deployments
    /\ pc \in [Requests -> {"idle", "lookup", "create", "clock", "take", "cancel", "call", "admitted", "refused", "unchecked"}]
    /\ key \in [Requests -> Keys]
    /\ Len(table) =< dep.maxEntries
    /\ \A i, j \in DOMAIN table : table[i].key = table[j].key \/ table[i].bucket = table[j].bucket => i = j
    /\ bucket \in [Buckets -> [units : -MaxDebt .. Full, last : 0 .. Delay,
                               event : -2 * Delay .. MaxDebt, short : BOOLEAN]]
    /\ wait \in [Requests -> 0 .. MaxDebt]
    /\ rewound \in [Keys -> 0 .. MaxRewound]
    /\ held \in [Requests -> Buckets \cup {NoBucket}]
    /\ lag \in [Requests -> -Lead .. Max({Delay, CallTimeout})]
    /\ \A k \in Keys : stored[k] = NoHash \/
          /\ stored[k].tokens \in 0 .. Full
          /\ stored[k].ttl \in 1 .. Expiry

Init ==
    /\ dep \in Deployments
    /\ pc = [r \in Requests |-> "idle"]
    /\ key = [r \in Requests |-> SomeKey]
    /\ table = << >>
    /\ bucket = [b \in Buckets |-> NewBucket]
    /\ held = [r \in Requests |-> NoBucket]
    /\ wait = [r \in Requests |-> 0]
    /\ rewound = [k \in Keys |-> 0]
    /\ lag = [r \in Requests |-> 0]
    /\ stored = [k \in Keys |-> NoHash]
    /\ owed = [k \in Keys |-> 0]

\* The table is too small for the keys in use.
Evicts == Cardinality({DefaultKeyFunc(c) : c \in dep.clients}) > dep.maxEntries

\* One burst for each request with what is earned within Delay, and one token
\* for each pair of them.
Overshoot ==
    LET n == dep.callers IN (Full + Delay) * n + Cost * ((n * (n - 1)) \div 2)

\* The accounts of a key. They are kept up to MaxOwed and MaxSetBack, bounds of
\* the model beyond which no property tells amounts apart.
MaxOwed == IF Evicts THEN Full ELSE Overshoot + 2 * MaxRewound + 1
MaxSetBack == IF Evicts THEN 0 ELSE MaxRewound
Owe(k, amount) == owed' = [owed EXCEPT ![k] = Min({MaxOwed, @ + amount})]

\* The middleware asks the limiter. The Redis limiter reads its clock first.
Arrive(r, c) ==
    /\ pc[r] = "idle"
    /\ Cardinality({q \in Requests : pc[q] # "idle"}) < dep.callers
    /\ key' = [key EXCEPT ![r] = DefaultKeyFunc(c)]
    /\ IF dep.store = "memory"
       THEN pc' = [pc EXCEPT ![r] = "lookup"] /\ UNCHANGED lag
       ELSE /\ pc' = [pc EXCEPT ![r] = "call"]
            /\ \E l \in -Lead .. 0 : lag' = [lag EXCEPT ![r] = l]
    /\ UNCHANGED <<dep, memory, stored, owed>>

\* The answer is given: 429 for a refused request, else the next handler.
Leave(r) ==
    /\ pc[r] \in {"admitted", "refused", "unchecked"}
    /\ pc' = [pc EXCEPT ![r] = "idle"]
    /\ key' = [key EXCEPT ![r] = SomeKey]
    /\ UNCHANGED <<dep, memory, lag, stored, owed>>

-----------------------------------------------------------------------------
(* TokenBucketLimiter.                                                       *)

\* The buckets that something refers to, and those of them with a reservation
\* that will be cancelled.
Live == {table[i].bucket : i \in DOMAIN table} \cup {held[r] : r \in Requests}
Awaited == {held[r] : r \in {q \in Requests : pc[q] = "cancel"}}

\* The buckets after a step: the others are collected, and when a reservation
\* was due is forgotten once no cancellation will ask for it.
Kept(f) ==
    [b \in Buckets |-> IF b \notin Live' THEN NewBucket
                       ELSE IF b \notin Awaited' THEN [f[b] EXCEPT !.event = 0]
                       ELSE f[b]]

Entry(k) == {i \in DOMAIN table : table[i].key = k}
Without(k) == SelectSeq(table, LAMBDA e : e.key # k)

\* Faulty variant: a cached bucket is not used again.
LookupMisses(r) ==
    /\ pc[r] = "lookup"
    /\ pc' = [pc EXCEPT ![r] = "create"]
    /\ UNCHANGED <<dep, key, memory, lag, stored, owed>>

\* getOrCreate finds the bucket, which becomes the latest used, or does not.
Lookup(r) ==
    /\ pc[r] = "lookup"
    /\ IF Entry(key[r]) = {}
       THEN pc' = [pc EXCEPT ![r] = "create"] /\ UNCHANGED <<table, held>>
       ELSE LET e == table[CHOOSE i \in Entry(key[r]) : TRUE]
            IN  /\ pc' = [pc EXCEPT ![r] = "clock"]
                /\ held' = [held EXCEPT ![r] = e.bucket]
                /\ table' = <<e>> \o Without(key[r])
    /\ UNCHANGED <<dep, key, bucket, wait, rewound, lag, stored, owed>>

Fresh == Min(Buckets \ Live)

\* The table with a bucket added: it replaces one of the same key, or the
\* bucket that was not used for longest when the table is full.
Added(k, b) ==
    LET t == <<[key |-> k, bucket |-> b]>> \o Without(k)
    IN  SubSeq(t, 1, Min({Len(t), dep.maxEntries}))

\* ... and adds a full one, although another request may have done so since.
Create(r) ==
    /\ pc[r] = "create"
    /\ table' = Added(key[r], Fresh)
    /\ held' = [held EXCEPT ![r] = Fresh]
    /\ pc' = [pc EXCEPT ![r] = "clock"]
    /\ bucket' = Kept([bucket EXCEPT ![Fresh] = NewBucket])
    /\ UNCHANGED <<dep, key, wait, rewound, lag, stored, owed>>

\* Allow reads the clock, without a lock.
ReadClock(r) ==
    /\ pc[r] = "clock"
    /\ pc' = [pc EXCEPT ![r] = "take"]
    /\ UNCHANGED <<dep, key, memory, lag, stored, owed>>

\* Limiter.advance of x/time/rate: what a bucket holds at the time of age l. An
\* earlier time than the last one earns nothing.
Advanced(b, l) == Min({Full, b.units + Max({0, b.last - l})})

\* ReserveN and CancelAt make the time r carries the bucket's last one, also
\* when it is earlier: the time in between will be credited once more.
SetBack(r) ==
    rewound' = [rewound EXCEPT ![key[r]] = Min({MaxSetBack, @ + Max({0, lag[r] - bucket[held[r]].last})})]

\* Allow reserves a token. One that is there is taken; one that will only be
\* there later is given back, under a lock of its own.
Take(r) ==
    LET b == bucket[held[r]]
        left == Advanced(b, lag[r]) - Cost
        delay == Max({0, -left})
    IN  /\ pc[r] = "take"
        /\ left >= -MaxDebt
        /\ wait' = [wait EXCEPT ![r] = delay]
        /\ IF delay = 0
           THEN /\ pc' = [pc EXCEPT ![r] = "admitted"]
                /\ held' = [held EXCEPT ![r] = NoBucket]
                /\ lag' = [lag EXCEPT ![r] = 0]
                /\ Owe(key[r], Cost)
           ELSE /\ pc' = [pc EXCEPT ![r] = "cancel"]
                /\ UNCHANGED <<held, lag, owed>>
        /\ UNCHANGED <<dep, key, table, stored>>
        /\ bucket' = Kept([bucket EXCEPT ![held[r]] =
                             [@ EXCEPT !.units = left, !.last = lag[r], !.event = delay - lag[r]]])
        /\ SetBack(r)

\* The request is refused, and done with its bucket.
Refuse(r) ==
    /\ pc' = [pc EXCEPT ![r] = "refused"]
    /\ held' = [held EXCEPT ![r] = NoBucket]
    /\ wait' = [wait EXCEPT ![r] = 0]
    /\ lag' = [lag EXCEPT ![r] = 0]
    /\ UNCHANGED <<dep, key, table, stored, owed>>

\* Faulty variant: a reservation that has to wait is not cancelled.
CancelNothing(r) ==
    /\ pc[r] = "cancel"
    /\ Refuse(r)
    /\ bucket' = Kept(bucket)
    /\ UNCHANGED rewound

\* CancelAt of x/time/rate, at the time of the reservation: what was reserved
\* after the reservation is not restored with it, even if it is cancelled later.
\* If a later reservation is due before this one, more than this is restored.
Cancel(r) ==
    LET b == bucket[held[r]]
        due == wait[r] - lag[r]
        back == Cost - (b.event - due)
        restored == [b EXCEPT !.units = Min({Full, Advanced(b, lag[r]) + back}),
                              !.last = lag[r],
                              !.event = IF @ = due /\ wait[r] >= Cost THEN @ - Cost ELSE @]
    IN  /\ pc[r] = "cancel"
        /\ Refuse(r)
        /\ bucket' = Kept([bucket EXCEPT ![held[r]] =
                             [IF back > 0 THEN restored ELSE b EXCEPT !.short = @ \/ back < Cost]])
        /\ IF back > 0 THEN SetBack(r) ELSE UNCHANGED rewound

-----------------------------------------------------------------------------
(* RedisLimiter.                                                             *)

\* Faulty variant: the stored time follows the caller's, backwards too.
RefilledAnyTime(h, l) ==
    IF h = NoHash THEN [tokens |-> Full, age |-> l]
    ELSE [tokens |-> Min({Full, h.tokens + Max({h.age - l, 0})}), age |-> l]

\* The hash as the script sees it at the time a request carries: an earlier
\* time than the stored one changes nothing.
Refilled(h, l) ==
    IF h = NoHash THEN [tokens |-> Full, age |-> l]
    ELSE IF h.age > l THEN [tokens |-> Min({Full, h.tokens + (h.age - l)}), age |-> l]
    ELSE [tokens |-> h.tokens, age |-> h.age]

Available(r) == Refilled(stored[key[r]], lag[r]).tokens >= Cost

\* The script, which Redis runs as one step.
Script(r) ==
    LET h == Refilled(stored[key[r]], lag[r])
        paid == IF Available(r) THEN Cost ELSE 0
    IN  /\ stored' = [stored EXCEPT ![key[r]] =
                        [tokens |-> h.tokens - paid, age |-> h.age, ttl |-> Expiry]]
        /\ Owe(key[r], paid)

Decide(r, outcome) ==
    /\ pc' = [pc EXCEPT ![r] = outcome]
    /\ lag' = [lag EXCEPT ![r] = 0]

Call(r) ==
    /\ pc[r] = "call"
    /\ Script(r)
    /\ Decide(r, IF Available(r) THEN "admitted" ELSE "refused")
    /\ UNCHANGED <<dep, key, memory>>

\* The call fails or times out, before Redis ran the script or after; the
\* middleware's failure mode decides.
CallFails(r) ==
    /\ pc[r] = "call"
    /\ Script(r) \/ UNCHANGED <<stored, owed>>
    /\ Decide(r, IF dep.failClosed THEN "refused" ELSE "unchecked")
    /\ UNCHANGED <<dep, key, memory>>

-----------------------------------------------------------------------------
\* A hash ages, and Redis drops it when it has not been touched for Expiry.
Aged(h) ==
    IF h = NoHash \/ h.ttl = 1 THEN NoHash
    ELSE [h EXCEPT !.age = @ + 1, !.ttl = @ - 1]

\* A bucket, one unit of time later: once no request can carry an earlier time
\* than its last one, what it earns is added at once.
Older(b) ==
    LET units == IF b.last = Delay THEN Min({Full, b.units + 1}) ELSE b.units
    IN  [units |-> units, last |-> Min({Delay, b.last + 1}), event |-> b.event - 1,
         short |-> b.short /\ units < Full]

\* Time passes. No call is out for longer than its timeout, and no reading of
\* the clock is used later than Delay after it.
Tick ==
    /\ \A r \in Requests :
          /\ pc[r] \in {"take", "cancel"} => lag[r] < Delay
          /\ pc[r] = "call" => lag[r] < CallTimeout
    /\ lag' = [r \in Requests |-> IF pc[r] \in {"take", "cancel", "call"} THEN lag[r] + 1 ELSE 0]
    /\ stored' = [k \in Keys |-> Aged(stored[k])]
    /\ owed' = [k \in Keys |-> Max({0, owed[k] - 1})]
    /\ rewound' = [k \in Keys |-> IF owed'[k] = 0 THEN 0 ELSE rewound[k]]
    /\ UNCHANGED <<dep, pc, key, table, held, wait>>
    /\ bucket' = Kept([b \in Buckets |-> Older(bucket[b])])

Next ==
    \/ \E r \in Requests :
          \/ \E c \in dep.clients : Arrive(r, c)
          \/ Lookup(r)
          \/ Create(r)
          \/ ReadClock(r)
          \/ Take(r)
          \/ Cancel(r)
          \/ Call(r)
          \/ CallFails(r)
          \/ Leave(r)
    \/ Tick

Spec == Init /\ [][Next]_vars

-----------------------------------------------------------------------------
(***************************************************************************)
(* The refinement mapping for the shared store. The credit of a key is     *)
(* what its hash would hold for the clock that is furthest ahead, without  *)
(* the cap that the script applies only when it runs.                      *)
(***************************************************************************)
Credit(k) ==
    IF dep.store # "redis" \/ stored[k] = NoHash THEN Full + Window
    ELSE Min({Full + Window, stored[k].tokens + stored[k].age + Lead})

Status(r) ==
    IF dep.store # "redis" THEN "idle"
    ELSE CASE pc[r] = "call" -> "asked"
           [] pc[r] = "unchecked" -> "refused"
           [] OTHER -> pc[r]

AbstractKey(r) == IF dep.store = "redis" THEN key[r] ELSE SomeKey

Shared ==
    INSTANCE TokenBucket WITH
        Capacity <- Full + Window,
        credit <- [k \in Keys |-> Credit(k)],
        key <- [r \in Requests |-> AbstractKey(r)],
        status <- [r \in Requests |-> Status(r)]

\* The limiter over Redis is one token bucket per key for all replicas: with
\* scripts that arrive out of order, clocks that differ, answers that are lost
\* and hashes that expire, the requests it admits fit the quota, up to what is
\* earned within the call timeout and the clocks' lead.
RedisIsBucket == Shared!Spec

(***************************************************************************)
(* What the in-memory limiter lets a key overdraw has two sources, as long *)
(* as the table has room for all keys. Requests race to create its bucket: *)
(* each of them is worth one burst, full up to Delay ago, and those who    *)
(* hold a bucket that is replaced take one more token each from it. And a  *)
(* time that was read before another request's but used after it sets the  *)
(* bucket back: the time in between is credited once more, and a           *)
(* cancellation that meets such a bucket restores that much too much.      *)
(* There is no third.                                                      *)
(***************************************************************************)
OvershootBounded ==
    dep.store = "memory" /\ ~Evicts =>
        \A k \in Keys : rewound[k] < MaxRewound => owed[k] =< Overshoot + 2 * rewound[k]

\* A request is refused, for want of tokens.
Refused(r) ==
    \/ pc[r] = "take" /\ pc'[r] = "cancel"
    \/ pc[r] = "call" /\ pc'[r] = "refused" /\ ~dep.failClosed

\* Its bucket lacks what a cancelled reservation kept.
Short(r) == held[r] # NoBucket /\ bucket[held[r]].short

\* How far the times that requests carry may be off.
Skew == IF dep.store = "redis" THEN Window ELSE Delay

\* A key within its quota is not refused by either limiter: not for tokens that
\* evicted buckets had, nor, beyond the skew of the times they carry, for
\* requests that overtook one another. A refused request costs nothing, unless
\* another one of the key reserved between its reservation and its cancellation.
\* (A limiter that fails closed says nothing of the quota when Redis fails.)
WithinQuotaAdmitted ==
    [][\A r \in Requests :
          Refused(r) /\ ~Short(r) => owed[key[r]] + Cost + Skew > Full]_vars

\* "On deny the reservation is cancelled so the bucket isn't permanently held
\* down" (Allow): refused requests cost the key nothing.
RefusalsAreFree ==
    [][\A r \in Requests : Refused(r) /\ dep.store = "memory" => owed[key[r]] + Cost + Skew > Full]_vars

=============================================================================
