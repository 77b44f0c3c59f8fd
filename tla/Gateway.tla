------------------------------ MODULE Gateway ------------------------------
(***************************************************************************)
(* The middleware chain every STAC request passes: authentication, rate    *)
(* limit, authorization, response cache, and the handler behind them (the  *)
(* order of run in cmd/stac-proxy/main.go). Requests run concurrently and  *)
(* share the cache. Authorization is outside the cache: it filters what    *)
(* the cache returns.                                                      *)
(*                                                                         *)
(* The limiter's verdict is free here; the module RateLimiter decides it.  *)
(* The handler is the federation, which answers what was asked, narrowed   *)
(* as it is; less than that when an origin fails; or an error.             *)
(***************************************************************************)
EXTENDS Authorization

CONSTANTS
    Requests,
    AllowAnonymous,
    AllowQueryParam, \* API keys may come in the query
    Credentials,     \* what requests may present
    Routes,          \* what requests may ask for
    Offers,          \* the requests made: who, route, credential, policy's answer
    Deployments,     \* the chain of authentication providers in order, the
                     \* injection switch and what the upstreams can filter
    Catalog,         \* the items of the upstreams
    MaxEntries       \* of the cache

VARIABLES
    dep,         \* this deployment
    pc, route, credential, principal,
    policy,      \* what the policy says of the request
    constraints, \* the constraints as the middleware goes on with them
    search,      \* the parsed search, as narrowed so far
    response,    \* the captured response
    store        \* the cached responses, most recently used first

vars == <<dep, pc, route, credential, principal, policy, constraints, search, response, store>>

NoCredential == [scheme |-> "none", token |-> "none", key |-> "none", keyIn |-> "header",
                 cert |-> "none", user |-> << >>, who |-> "nobody"]
NoSearch == [collections |-> {}, filter |-> NoExpr, limit |-> 0]
NoRoute == [type |-> "none", method |-> "GET", search |-> NoSearch, item |-> "", order |-> 0]

\* A principal's ID is the sequence of the pieces its string is joined from.
\* Who presented the credential is recorded for the properties only.
Principal(id, type, who) == [id |-> id, type |-> type, who |-> who]
Anonymous == Principal(<<"anonymous">>, "anonymous", "nobody")
NoPrincipal == Principal(<< >>, "none", "nobody")
Rejected == Principal(<< >>, "error", "nobody")

\* A response. Recorded for the properties only: whether an origin failed while
\* it was made, and the principal it was made for. The client sees partial.
Answered(status, kind, features, p) ==
    [status |-> status, kind |-> kind, features |-> features, partial |-> FALSE, missing |-> FALSE, for |-> p]
Missing(resp) == [resp EXCEPT !.missing = TRUE]
Failure(status) == Answered(status, "error", {}, NoPrincipal)
NoEntry == Failure(0)
NoAnswer == [allow |-> "undefined", constraints |-> << >>, result |-> << >>]

SearchTypes == {"search", "items"}
Started == {"limit", "authz", "cache", "handle", "store", "filter", "done"}

TypeOK ==
    /\ dep \in Deployments
    /\ pc \in [Requests -> Started \cup {"idle"}]
    /\ route \in [Requests -> Routes \cup {NoRoute}]
    /\ credential \in [Requests -> Credentials \cup {NoCredential}]
    /\ \A r \in Requests : response[r].features \subseteq Catalog
    /\ Len(store) =< MaxEntries
    /\ \A i, j \in DOMAIN store : store[i].key = store[j].key => i = j

Init ==
    /\ dep \in Deployments
    /\ pc = [r \in Requests |-> "idle"]
    /\ route = [r \in Requests |-> NoRoute]
    /\ credential = [r \in Requests |-> NoCredential]
    /\ principal = [r \in Requests |-> NoPrincipal]
    /\ policy = [r \in Requests |-> NoAnswer]
    /\ constraints = [r \in Requests |-> Unconstrained]
    /\ search = [r \in Requests |-> NoSearch]
    /\ response = [r \in Requests |-> NoEntry]
    /\ store = << >>

Finish(r, resp) ==
    /\ pc' = [pc EXCEPT ![r] = "done"]
    /\ response' = [response EXCEPT ![r] = resp]

-----------------------------------------------------------------------------
(* Authentication. A credential says what the request carries: a scheme and  *)
(* token in Authorization, an API key and where it is, a client certificate. *)

\* Where a key is looked for. The query counts when that is switched on.
PresentedKey(c) == c.key # "none" /\ (c.keyIn = "header" \/ AllowQueryParam)

\* ClaimsCredential of each provider.
Claims(p, c) ==
    CASE p \in {"bearer", "oidc"} -> c.scheme = "Bearer"
      [] p = "basic" -> c.scheme = "Basic"
      [] p = "api_key" -> PresentedKey(c)
      [] p = "mtls" -> c.cert # "none"

\* Authenticate of the bearer and OIDC providers: a token is good for the
\* provider whose issuer signed it (its keys, algorithms, issuer, audience and
\* times taken together). Its subject is the principal's ID, which is empty for
\* a token without one.
AuthenticateBearer(c) == IF c.token = "bearer" THEN Principal(c.user, "user", c.who) ELSE Rejected
AuthenticateOIDC(c) == IF c.token = "oidc" THEN Principal(c.user, "user", c.who) ELSE Rejected

\* ... of basic: a user that is known, with the right password.
AuthenticateBasic(c) == IF c.token = "password" THEN Principal(c.user, "user", c.who) ELSE Rejected

\* ... of API keys: disabled keys are not in the table. The principal's ID has
\* a prefix of its own.
AuthenticateAPIKey(c) ==
    IF c.key = "enabled" THEN Principal(<<"apikey:">> \o c.user, "service", c.who) ELSE Rejected

\* ... of client certificates: one from a trusted authority. Without a name in
\* it the ID is empty.
AuthenticateMTLS(c) == IF c.cert = "trusted" THEN Principal(c.user, "certificate", c.who) ELSE Rejected

Verify(p, c) ==
    CASE p = "bearer"  -> AuthenticateBearer(c)
      [] p = "oidc"    -> AuthenticateOIDC(c)
      [] p = "basic"   -> AuthenticateBasic(c)
      [] p = "api_key" -> AuthenticateAPIKey(c)
      [] p = "mtls"    -> AuthenticateMTLS(c)

\* A provider whose credential is absent passes the request on.
Authenticate(p, c) == IF Claims(p, c) THEN Verify(p, c) ELSE NoPrincipal

\* Faulty variant: a rejected credential passes the request on.
AuthenticateAllLax(c) ==
    LET good == {i \in DOMAIN dep.providers : Authenticate(dep.providers[i], c) \notin {NoPrincipal, Rejected}}
    IN  IF good # {} THEN Authenticate(dep.providers[CHOOSE i \in good : \A j \in good : i =< j], c)
        ELSE IF AllowAnonymous THEN Anonymous ELSE Rejected

\* The chain: the first provider that has an opinion decides.
AuthenticateAll(c) ==
    LET said == {i \in DOMAIN dep.providers : Authenticate(dep.providers[i], c) # NoPrincipal}
    IN  IF said # {} THEN Authenticate(dep.providers[CHOOSE i \in said : \A j \in said : i =< j], c)
        ELSE IF AllowAnonymous THEN Anonymous ELSE Rejected

\* A request arrives; the classifier and the search parser have run. What the
\* policy will say of it is a function of the request.
Arrive(r, q, c, d) ==
    LET p == AuthenticateAll(c)
    IN  /\ pc[r] = "idle"
        /\ route' = [route EXCEPT ![r] = q]
        /\ credential' = [credential EXCEPT ![r] = c]
        /\ principal' = [principal EXCEPT ![r] = IF p = Rejected THEN NoPrincipal ELSE p]
        /\ search' = [search EXCEPT ![r] = q.search]
        /\ policy' = [policy EXCEPT ![r] = d]
        /\ IF p = Rejected THEN Finish(r, Failure(401))
           ELSE pc' = [pc EXCEPT ![r] = "limit"] /\ UNCHANGED response
        /\ UNCHANGED <<dep, constraints, store>>

\* The rate limiter admits the request or refuses it. (It refuses with 503 when
\* its backend cannot be reached and it is configured to.)
Limit(r) ==
    /\ pc[r] = "limit"
    /\ \/ pc' = [pc EXCEPT ![r] = "authz"] /\ UNCHANGED response
       \/ Finish(r, Failure(429))
    /\ credential' = [credential EXCEPT ![r] = NoCredential]
    /\ UNCHANGED <<dep, route, principal, policy, constraints, search, store>>

-----------------------------------------------------------------------------
(* Authorization, on the way in.                                             *)

\* The policy denies, or cannot be understood.
Deny(r) ==
    /\ pc[r] = "authz"
    /\ Authorize(policy[r]).verdict # "allow"
    /\ Finish(r, Failure(IF Authorize(policy[r]).verdict = "deny" THEN 403 ELSE 500))
    /\ UNCHANGED <<dep, route, credential, principal, policy, constraints, search, store>>

\* The policy allows with its constraints. A search is narrowed, and where the
\* upstreams can filter, so is its filter.
Allow(r) ==
    LET c == Authorize(policy[r]).constraints
        isSearch == route[r].type \in SearchTypes
        narrowed == ApplyConstraints(search[r], c)
        defaulted == DefaultFilterMode(c)
        inject == isSearch /\ dep.injection /\ dep.filter
        done == InjectCQL2Filter(narrowed, defaulted, dep.spatial)
    IN  /\ pc[r] = "authz"
        /\ Authorize(policy[r]).verdict = "allow"
        /\ IF isSearch /\ narrowed = DenyAll
           THEN Finish(r, Failure(403)) /\ UNCHANGED <<constraints, search>>
           ELSE IF inject /\ done.search.filter = BadExpr
           THEN Finish(r, Failure(IF done.policyError THEN 500 ELSE 400)) /\ UNCHANGED <<constraints, search>>
           ELSE /\ pc' = [pc EXCEPT ![r] = "cache"]
                /\ search' = [search EXCEPT ![r] = IF inject THEN done.search
                                                   ELSE IF isSearch THEN narrowed ELSE @]
                /\ constraints' = [constraints EXCEPT ![r] = IF inject THEN done.constraints
                                                             ELSE IF isSearch THEN defaulted ELSE c]
                /\ UNCHANGED response
        /\ UNCHANGED <<dep, route, credential, principal, policy, store>>

-----------------------------------------------------------------------------
(* The response cache.                                                       *)

\* Faulty variant: one namespace for everybody.
PrincipalClassShared(p) == <<"anonymous">>

\* principalClass: IDs get a prefix, so none can be mistaken for the class of
\* anonymous requests. Principals without an ID are one class.
PrincipalClass(p) ==
    IF p.type = "anonymous" THEN <<"anonymous">>
    ELSE <<"principal:">> \o IF p.id = << >> THEN <<"_unknown">> ELSE p.id

\* normalizeQuery: the order of the parameters does not matter.
NormalizeQuery(q) == [q EXCEPT !.order = 0]

\* ShouldCache and CacheKey.
ShouldCache(q) == q.method = "GET" /\ q.type # "asset"
CacheKey(r) == <<PrincipalClass(principal[r]), NormalizeQuery(route[r])>>

UsesCache(r) == ~HasConstraints(constraints[r]) /\ ShouldCache(route[r])

Others(key) == SelectSeq(store, LAMBDA e : e.key # key)

\* A hit; the entry becomes the most recently used.
Hit(r) ==
    /\ pc[r] = "cache"
    /\ UsesCache(r)
    /\ \E i \in DOMAIN store :
          /\ store[i].key = CacheKey(r)
          /\ response' = [response EXCEPT ![r] = store[i].response]
          /\ store' = <<store[i]>> \o Others(CacheKey(r))
    /\ pc' = [pc EXCEPT ![r] = "filter"]
    /\ UNCHANGED <<dep, route, credential, principal, policy, constraints, search>>

\* No entry, or a request the cache leaves alone. A store that cannot be
\* reached is a miss too.
Miss(r) ==
    /\ pc[r] = "cache"
    /\ pc' = [pc EXCEPT ![r] = "handle"]
    /\ UNCHANGED <<dep, route, credential, principal, policy, constraints, search, response, store>>

CacheableStatuses == {200, 203, 204, 301, 308, 404, 410}

\* Faulty variant: no-store is not honoured.
StorableAny(r) == UsesCache(r) /\ response[r].status \in CacheableStatuses

\* What is stored. Partial answers carry Cache-Control: no-store.
Storable(r) ==
    /\ UsesCache(r)
    /\ response[r].status \in CacheableStatuses
    /\ ~response[r].partial

\* The middleware stores the captured response, evicting the entry that was
\* not used for longest; Set may fail.
Store(r) ==
    /\ pc[r] = "store"
    /\ store' \in IF Storable(r)
                  THEN {store, SubSeq(<<[key |-> CacheKey(r), response |-> response[r]]>> \o Others(CacheKey(r)),
                                      1, Min({MaxEntries, Len(Others(CacheKey(r))) + 1}))}
                  ELSE {store}
    /\ pc' = [pc EXCEPT ![r] = "filter"]
    /\ UNCHANGED <<dep, route, credential, principal, policy, constraints, search, response>>

\* An entry reaches the end of its time to live.
Expire ==
    /\ \E i \in DOMAIN store : store' = Others(store[i].key)
    /\ UNCHANGED <<dep, pc, route, credential, principal, policy, constraints, search, response>>

-----------------------------------------------------------------------------
(* The handler, seen from here, and authorization on the way out.            *)

\* What the search asks for, as a conforming upstream understands it.
Selected(sr) ==
    {i \in Catalog :
        /\ sr.collections # {} => i.collection \in sr.collections
        /\ sr.filter # NoExpr => Truth(sr.filter, i) = True}

\* A page of the answer.
Pages(sr) ==
    IF sr.limit = 0 \/ Cardinality(Selected(sr)) =< sr.limit THEN {Selected(sr)}
    ELSE kSubset(sr.limit, Selected(sr))

\* What the federation may make of the request. A search or the list of
\* collections that misses an origin's part says so (markPartial). Nothing says
\* so in the 404 for an item whose origin failed, nor in the landing page, the
\* conformance classes or the queryables put together without an origin.
HandlerAnswers(r) ==
    LET Made(status, kind, features) == Answered(status, kind, features, principal[r])
        MarkPartial(resp) == [Missing(resp) EXCEPT !.partial = TRUE]
        found == {i \in Catalog : i.id = route[r].item}
    IN  CASE search[r].filter = BadExpr -> {Failure(400)}
          [] search[r].filter # BadExpr /\ route[r].type \in SearchTypes ->
                {Made(200, "collection", page) : page \in Pages(search[r])}
                \cup {MarkPartial(Made(200, "collection", {})), Made(200, "malformed", {})}
          [] route[r].type = "item" ->
                {IF found = {} THEN Made(404, "error", {}) ELSE Made(200, "item", found),
                 Missing(Made(404, "error", {}))}
          [] route[r].type = "collections" -> {Made(200, "other", {}), MarkPartial(Made(200, "other", {}))}
          [] OTHER -> {Made(200, "other", {}), Missing(Made(200, "other", {}))}

\* The handler answers, or no origin could be reached.
Handle(r) ==
    /\ pc[r] = "handle"
    /\ \E resp \in HandlerAnswers(r) \cup {Failure(502)} : response' = [response EXCEPT ![r] = resp]
    /\ pc' = [pc EXCEPT ![r] = "store"]
    /\ UNCHANGED <<dep, route, credential, principal, policy, constraints, search, store>>

\* The post-filter of collections applies when the geofence filters and was
\* not pushed down.
PostFilters(c) == HasFence(c) /\ c.fence.filterMode /\ ~c.pushedDown

Filtered(r) ==
    LET resp == response[r]
        c == constraints[r]
    IN  IF resp.status # 200 THEN resp
        ELSE IF resp.kind = "collection" /\ PostFilters(c)
        THEN [resp EXCEPT !.features = FilterByGeofence(@, c.fence)]
        ELSE IF resp.kind = "malformed" /\ PostFilters(c) /\ GeofenceApplies(c.fence) THEN Failure(502)
        ELSE IF resp.kind = "item" /\ \E i \in resp.features : ~ValidateSingleRecord(i, c)
        THEN Failure(404)
        ELSE resp

Respond(r) ==
    /\ pc[r] = "filter"
    /\ Finish(r, Filtered(r))
    /\ UNCHANGED <<dep, route, credential, principal, policy, constraints, search, store>>

\* The response is out, and the request is forgotten.
Leave(r) ==
    /\ pc[r] = "done"
    /\ pc' = [pc EXCEPT ![r] = "idle"]
    /\ route' = [route EXCEPT ![r] = NoRoute]
    /\ principal' = [principal EXCEPT ![r] = NoPrincipal]
    /\ policy' = [policy EXCEPT ![r] = NoAnswer]
    /\ constraints' = [constraints EXCEPT ![r] = Unconstrained]
    /\ search' = [search EXCEPT ![r] = NoSearch]
    /\ response' = [response EXCEPT ![r] = NoEntry]
    /\ credential' = [credential EXCEPT ![r] = NoCredential]
    /\ UNCHANGED <<dep, store>>

Next ==
    \/ \E r \in Requests :
          \/ \E o \in Offers : o[1] = r /\ Arrive(r, o[2], o[3], o[4])
          \/ Limit(r)
          \/ Deny(r)
          \/ Allow(r)
          \/ Hit(r)
          \/ Miss(r)
          \/ Handle(r)
          \/ Store(r)
          \/ Respond(r)
          \/ Leave(r)
    \/ Expire

Spec == Init /\ [][Next]_vars

-----------------------------------------------------------------------------
(* What the chain promises.                                                  *)

\* The constraints as the policy gave them.
Given(r) == Authorize(policy[r]).constraints
PolicyFilter(r) == AndNonNil(<<Given(r).cql2, RequiredFiltersToCQL2(Given(r).required)>>)

\* The policy allows in so many words.
SaysYes(r) == policy[r].allow = "true" \/ (policy[r].result # << >> /\ policy[r].result.allow = "true")

\* A policy's filters reach a search where the upstreams take them, and its
\* geofence where they take spatial ones too.
FiltersEnforced(r) == route[r].type = "item" \/ (dep.injection /\ dep.filter)
PushedDown(r) == route[r].type \in SearchTypes /\ dep.injection /\ dep.filter /\ dep.spatial

\* Everything in the policy parses.
PolicyParses(r) == PolicyFilter(r) # BadExpr /\ FenceParses(Given(r).fence)

\* What the policy's filters let through. On a search a filter that does not
\* parse lets nothing through. A single item is judged by the evaluator, which
\* keeps to the standard on comparable values, and not at all if any part of
\* the policy does not parse.
FilterAllows(r, i) ==
    \/ ~FiltersEnforced(r)
    \/ PolicyFilter(r) = NoExpr
    \/ route[r].type = "item" /\ (~PolicyParses(r) \/ ~WellTyped(PolicyFilter(r), i))
    \/ PolicyFilter(r) # BadExpr /\ Truth(PolicyFilter(r), i) = True

\* What its geofence lets through. Pushed down, or evaluated on a single item, it
\* excludes whatever meets the denied area. The post-filter excludes only what
\* the denied area covers, runs only with an allowed area or in filter mode, and
\* is switched off by an allowed area that does not parse; a denied one that
\* does not parse is forgotten.
FenceAllows(r, i) ==
    LET f == Given(r).fence
        inside == f.allowed # NoArea => Intersects(i.geometry, f.allowed)
    IN  IF PushedDown(r) THEN FenceParses(f) /\ inside /\ ~Intersects(i.geometry, f.denied)
        ELSE IF route[r].type = "item"
        THEN PolicyParses(r) => inside /\ ~Intersects(i.geometry, f.denied)
        ELSE GeofenceApplies(f) =>
                 /\ inside
                 /\ f.allowed # NoArea \/ f.filterMode => ~Covers(f.denied, i.geometry)

\* The policy of request r lets item i be shown. Collections are not looked at
\* on the route of a single item, and a list of denied ones alone does not
\* narrow a search that names none.
MayShow(r, i) ==
    LET c == Given(r)
    IN  /\ route[r].type \in SearchTypes =>
              /\ c.allowed # {} => i.collection \in c.allowed
              /\ i.collection \in c.denied => route[r].search.collections = {} /\ c.allowed = {}
        /\ FilterAllows(r, i)
        /\ FenceAllows(r, i)

Delivered(r) == pc[r] = "done" /\ response[r].status = 200

(***************************************************************************)
(* Every item a response holds is one the policy of that very request lets *)
(* be shown, as far as the code enforces the policy (FilterAllows,         *)
(* FenceAllows and MayShow say how far), and the policy allowed the        *)
(* request in so many words. This holds whichever way the item took:       *)
(* narrowed and filtered upstream, filtered here afterwards, evaluated     *)
(* here by the CQL2 evaluator for a single item, or taken from the cache.  *)
(***************************************************************************)
PolicyHonoured ==
    \A r \in Requests : Delivered(r) => SaysYes(r) /\ \A i \in response[r].features : MayShow(r, i)

(***************************************************************************)
(* The same as docs/policies.md has it: an item meets the allowed area,    *)
(* does not meet the denied one, and satisfies the filters where they are  *)
(* forwarded or evaluated. The table has no exception for a denied area    *)
(* that stands alone without filter_mode, nor for one that only overlaps.  *)
(***************************************************************************)
PolicyAsDocumented ==
    \A r \in Requests :
        Delivered(r) /\ PolicyParses(r) =>
            \A i \in response[r].features :
                /\ Given(r).fence.allowed # NoArea => Intersects(i.geometry, Given(r).fence.allowed)
                /\ ~Intersects(i.geometry, Given(r).fence.denied)
                /\ FiltersEnforced(r) /\ PolicyFilter(r) # NoExpr => Truth(PolicyFilter(r), i) = True

\* What no clause of the policy touches. On the single-item route this asks for
\* values the evaluator compares as the standard does.
Untouched(r, i) ==
    LET c == Given(r)
    IN  /\ PolicyParses(r)
        /\ MayShow(r, i)
        /\ i.collection \notin c.denied
        /\ HasFence(c) => i.geometry # NoGeometry /\ ~Intersects(i.geometry, c.fence.denied)
        /\ PolicyFilter(r) # NoExpr =>
              /\ Truth(PolicyFilter(r), i) = True
              /\ route[r].type = "item" => WellTyped(PolicyFilter(r), i)

(***************************************************************************)
(* Nothing is withheld: a response to a search without a limit that is not *)
(* marked partial holds every item that was asked for and that no clause   *)
(* of the policy touches, and the single-item route turns such an item     *)
(* into 404 only when an origin failed. In particular no answer that was   *)
(* narrowed for one request is served to another from the cache.           *)
(***************************************************************************)
NothingWithheld ==
    \A r \in Requests :
        /\ Delivered(r) /\ response[r].kind = "collection" /\ ~response[r].partial /\ search[r].limit = 0
           => \A i \in Selected(route[r].search) : Untouched(r, i) => i \in response[r].features
        /\ pc[r] = "done" /\ response[r].status = 404 /\ ~response[r].missing /\ route[r].type = "item"
           => \A i \in Catalog : i.id = route[r].item => ~Untouched(r, i)

(***************************************************************************)
(* The cache answers a principal with an ID only with what the handler     *)
(* made for that ID, and an anonymous request only with what it made for   *)
(* anonymous ones (the cache key digest). Principals are told apart by     *)
(* their IDs only: those without one share a bucket, and so do the holder  *)
(* of an API key and a user whose subject reads like its ID. NeverShared   *)
(* is the stronger statement of the comment on principalClass.             *)
(***************************************************************************)
AnswersAreOwn ==
    \A r \in Requests :
        pc[r] = "done" /\ response[r].for # NoPrincipal =>
            /\ << >> \notin {response[r].for.id, principal[r].id} => response[r].for.id = principal[r].id
            /\ response[r].for = Anonymous <=> principal[r] = Anonymous

\* Whoever gets a response is the one it was made for ("it can never share with
\* either the anonymous bucket or another principal").
NeverShared ==
    \A r \in Requests :
        pc[r] = "done" /\ response[r].for # NoPrincipal => response[r].for.who = principal[r].who

\* What is taken from the cache.
Replayed(r) == pc[r] = "cache" /\ pc'[r] = "filter"

\* A merged list that misses an origin's part (a search, the items of a
\* collection, the collections) is given to the request that met the failure,
\* and to no other: markPartial's no-store keeps it out of the cache.
PartialNotReplayed ==
    [][\A r \in Requests :
          Replayed(r) /\ route[r].type \in SearchTypes \cup {"collections"} => ~response'[r].missing]_vars

\* The same of every response. It fails for the 404 of an item whose origin was
\* down, and for the documents that are merged without a mark.
NoMissReplayed == [][\A r \in Requests : Replayed(r) => ~response'[r].missing]_vars

\* A request goes on as anonymous only when it carries no credential that a
\* provider of the chain takes for its own: a rejected credential is never
\* downgraded, in any order of the providers.
NoDowngrade ==
    \A r \in Requests :
        pc[r] = "limit" /\ principal[r] = Anonymous =>
            \A i \in DOMAIN dep.providers : ~Claims(dep.providers[i], credential[r])

=============================================================================
