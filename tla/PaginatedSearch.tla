--------------------------- MODULE PaginatedSearch ---------------------------
(***************************************************************************)
(* A federated, paginated search: PaginatedSearcher.Search of              *)
(* internal/federation/pagination.go, the page cache in front of it        *)
(* (internal/federation/pagecache), and what handleSearch and              *)
(* buildPaginatedSearchResponse turn its result into.                      *)
(*                                                                         *)
(* The proxy keeps no session. A page hands the client cursors, and the    *)
(* client comes back with one of them. A call to Search reads the page     *)
(* cache in one step (ServeCached, Fetch) and, if it must fan out, answers *)
(* and fills the cache in a later one (Render), so calls of several        *)
(* clients overlap.                                                        *)
(* `trail` is the client's history: the pages it has walked through to the *)
(* one it is looking at.                                                   *)
(***************************************************************************)
EXTENDS FederatedCursor

CONSTANTS
    Clients,
    Principals,    \* who a client may authenticate as, anew for each call
    CacheSize,     \* page_cache.max_entries; 0 when the cache is disabled
    PageTTL,       \* pagecache.Cache.ttl
    Upstream,      \* how origins page: "exact", "lazy" or "ragged"
    Faults,        \* what fetches may do wrong: subset of {"fetch", "capture"}
    FaultHorizon,  \* bound: last page on which a fetch may fail
    MaxSeq,        \* bound: last page a client walks to
    MaxTime        \* bound: last instant

ASSUME ParametersAssumption ==
    /\ PageTTL \in Nat \ {0}
    /\ CacheSize \in Nat
    /\ Upstream \in {"exact", "lazy", "ragged"}
    /\ Faults \subseteq {"fetch", "capture"}
    /\ FaultHorizon \in Nat /\ MaxSeq \in Nat /\ MaxTime \in Nat

VARIABLES
    now,     \* time.Now()
    cache,   \* page cache: cursor -> [page, until]
    call,    \* call[c]: the Search call of c that is fanning out, or None
    trail    \* trail[c]: the pages on the way to, and including, the last one

vars == <<now, cache, call, trail>>

None == [phase |-> "none"]

-----------------------------------------------------------------------------
(* The origins.                                                               *)

MinOf(a, b) == IF a < b THEN a ELSE b

Remaining(o, pos) == Len(Catalog[o]) - pos

Slice(o, pos, n) == {<<o, i>> : i \in (pos + 1) .. (pos + n)}

\* A successful answer. "exact" names a next page iff items are left, "lazy"
\* iff the page is full, and "ragged" may also send fewer items than asked.
Answers(o, pos) ==
    LET left == Remaining(o, pos)
        full == MinOf(Limit, left)
        Answer(n, more) == [ok |-> TRUE, items |-> Slice(o, pos, n), more |-> more]
    IN  CASE Upstream = "exact"  -> {Answer(full, left > Limit)}
          [] Upstream = "lazy"   -> {Answer(full, full = Limit)}
          [] Upstream = "ragged" -> {Answer(n, n < left) : n \in MinOf(1, left) .. full}

\* A fetch that failed brings nothing; one whose answer the pagination adapter
\* could not read (OriginClientSearcher.Search) brings items and an error.
Failures(o, pos) ==
    {[ok |-> FALSE, items |-> {}, more |-> FALSE] : f \in Faults \cap {"fetch"}}
    \cup
    {[a EXCEPT !.ok = FALSE, !.more = FALSE]
        : a \in IF "capture" \in Faults THEN Answers(o, pos) ELSE {}}

\* What origin o may answer when the page of cur is fetched.
Outcomes(cur, o) ==
    Answers(o, cur.org[o].pos)
    \cup (IF cur.seq =< FaultHorizon THEN Failures(o, cur.org[o].pos) ELSE {})

\* fetchFromOrigins: one outcome for each origin to fetch.
Results(cur) ==
    {res \in [ToFetch(cur) -> UNION {Outcomes(cur, o) : o \in ToFetch(cur)}] :
        \A o \in ToFetch(cur) : res[o] \in Outcomes(cur, o)}

-----------------------------------------------------------------------------
(* Search, from the cursor to its result, and the response built from it.     *)

SearchResult(cur, self, res) ==
    LET m == mergeResults(cur, res)
    IN  IF ActiveOrigins(cur) = {}
        THEN [self |-> NoCursor, items |-> {}, total |-> 0, prev |-> NoCursor,
              first |-> NoCursor, next |-> NoCursor, failed |-> {}]
        ELSE [self |-> self, items |-> m.items, total |-> m.cursor.total,
              prev |-> cur.prev, first |-> cur.first,
              next |-> NextCursor(m.cursor, self),
              failed |-> failedFromStatuses(m.cursor)]

\* Every origin failed and there is nothing to show: a 502 in place of the page.
AllFailed(page) == page.items = {} /\ page.failed = Origins /\ Origins # {}

\* The history entry of a page: who saw it, how many pages in a row each origin
\* has failed on, and whether every fetch so far succeeded.
Entry(base, principal, page, res) ==
    LET before == IF base = <<>> THEN [o \in Origins |-> 0] ELSE base[Len(base)].fails
    IN  [page |-> page,
         principal |-> principal,
         fails |-> [o \in Origins |->
                       IF o \notin DOMAIN res THEN before[o]
                       ELSE IF res[o].ok THEN 0 ELSE before[o] + 1],
         clean |-> /\ base # <<>> => base[Len(base)].clean
                   /\ \A o \in DOMAIN res : res[o].ok]

\* The client sees the response; an error leaves it where it was.
Deliver(c, base, principal, page, res) ==
    trail' = IF AllFailed(page) THEN trail
             ELSE [trail EXCEPT ![c] = Append(base, Entry(base, principal, page, res))]

-----------------------------------------------------------------------------
(* The page cache.                                                            *)

Forget(entries, tok) == [t \in DOMAIN entries \ {tok} |-> entries[t]]

\* Faulty variant: the cursor's lifetime does not bound the entry's.
EntryTTLConfigured(remaining) == PageTTL

EntryTTL(remaining) == MinOf(PageTTL, remaining)

\* A page is stored for min(ttl, what is left of the cursor), if anything is
\* left. A full store drops an entry first: the least recently used one, which
\* pages of sessions outside this model make any.
PutToPageCache(tok, expires, page) ==
    LET remaining == expires - now
        others == Forget(cache, tok)
        kept == IF Cardinality(DOMAIN others) < CacheSize THEN {others}
                ELSE {Forget(others, t) : t \in DOMAIN others}
        entry == [page |-> page, until |-> now + EntryTTL(remaining)]
    IN  IF CacheSize > 0 /\ remaining > 0
        THEN \E entries \in kept :
                cache' = [t \in DOMAIN entries \cup {tok} |->
                             IF t = tok THEN entry ELSE entries[t]]
        ELSE UNCHANGED cache

Hit(tok) == tok \in DOMAIN cache /\ now =< cache[tok].until

-----------------------------------------------------------------------------
(* The clients.                                                               *)

Last(c) == trail[c][Len(trail[c])].page

\* The page n steps back from the one c is looking at, without it.
Back(c, n) == SubSeq(trail[c], 1, Len(trail[c]) - n)

\* What c may ask next: the first page, or a link of a page it has, or the
\* `self` link of a page another client is looking at. base is the history
\* the answer belongs to.
FirstLink == {[tok |-> NoCursor, base |-> <<>>]}

NextLink(c) ==
    IF trail[c] = <<>> \/ Last(c).next = NoCursor THEN {}
    ELSE {q \in {[tok |-> Last(c).next, base |-> trail[c]]} : q.tok.seq =< MaxSeq}

PrevLink(c) ==
    IF trail[c] = <<>> \/ Last(c).prev = NoCursor THEN {}
    ELSE {[tok |-> Last(c).prev, base |-> Back(c, 2)]}

SelfLink(c) ==
    IF trail[c] = <<>> \/ Last(c).self = NoCursor THEN {}
    ELSE {[tok |-> Last(c).self, base |-> Back(c, 1)]}

Links(c) == FirstLink \cup NextLink(c) \cup PrevLink(c) \cup UNION {SelfLink(d) : d \in Clients}

-----------------------------------------------------------------------------
Init ==
    /\ now = 0
    /\ cache = <<>>
    /\ call = [c \in Clients |-> None]
    /\ trail = [c \in Clients |-> <<>>]

\* Faulty variant: the cursor is not bound to the principal.
AcceptedAnyone(principal, tok) == tok # NoCursor => now =< tok.expires

\* DecodeCursor accepts tok from principal. A token it refuses is answered with
\* a 400 and changes nothing.
Accepted(principal, tok) ==
    tok # NoCursor => now =< tok.expires /\ tok.principal = principal

\* The page cache answers.
ServeCached(c, principal, q) ==
    /\ call[c] = None
    /\ q.tok # NoCursor
    /\ Accepted(principal, q.tok)
    /\ Hit(q.tok)
    /\ Deliver(c, q.base, principal, cache[q.tok].page, <<>>)
    /\ UNCHANGED <<now, cache, call>>

\* A miss: Search starts its fan-out with the decoded or a new cursor. A stale
\* cache entry is dropped by the lookup.
Fetch(c, principal, q) ==
    /\ call[c] = None
    /\ Accepted(principal, q.tok)
    /\ q.tok # NoCursor => ~Hit(q.tok)
    /\ call' = [call EXCEPT ![c] =
                   [phase |-> "fetching", tok |-> q.tok, base |-> q.base,
                    principal |-> principal,
                    cursor |-> IF q.tok = NoCursor
                               THEN NewFederatedCursor(principal, now)
                               ELSE q.tok]]
    /\ cache' = Forget(cache, q.tok)
    /\ UNCHANGED <<now, trail>>

\* Faulty variant: pages rendered while an origin fails are cached too.
CacheableAlways(page) == page.self # NoCursor

\* Page 0 and pages rendered while an origin is failing are not cached.
Cacheable(page) == page.self # NoCursor /\ page.failed = {}

\* All fetches are in: merge, answer, and cache the page.
RenderWith(c, res) ==
    LET page == SearchResult(call[c].cursor, call[c].tok, res)
    IN  /\ Deliver(c, call[c].base, call[c].principal, page, res)
        /\ IF Cacheable(page)
           THEN PutToPageCache(page.self, call[c].cursor.expires, page)
           ELSE UNCHANGED cache
        /\ call' = [call EXCEPT ![c] = None]
        /\ UNCHANGED now

Render(c) ==
    /\ call[c] # None
    /\ \E res \in Results(call[c].cursor) : RenderWith(c, res)

Tick ==
    /\ now < MaxTime
    /\ now' = now + 1
    /\ UNCHANGED <<cache, call, trail>>

Next ==
    \/ \E c \in Clients :
          \/ \E p \in Principals, q \in Links(c) : ServeCached(c, p, q) \/ Fetch(c, p, q)
          \/ Render(c)
    \/ Tick

Spec == Init /\ [][Next]_vars

\* A client that only goes forward, retrying the page an error kept from it,
\* while no origin fails for ever.
WalkNext ==
    \E c \in Clients :
        \/ \E p \in Principals, q \in IF trail[c] = <<>> THEN FirstLink ELSE NextLink(c) :
              Fetch(c, p, q)
        \/ Render(c)

RenderClean(c) ==
    /\ call[c] # None
    /\ \E res \in Results(call[c].cursor) :
          (\A o \in DOMAIN res : res[o].ok) /\ RenderWith(c, res)

WalkSpec ==
    /\ Init /\ [][WalkNext]_vars
    /\ WF_vars(WalkNext)
    /\ \A c \in Clients : SF_vars(RenderClean(c))

-----------------------------------------------------------------------------
(* Properties.                                                                *)

IsCursor(cur) ==
    /\ cur = [org |-> cur.org, total |-> cur.total, principal |-> cur.principal,
              expires |-> cur.expires, prev |-> cur.prev, first |-> cur.first,
              seq |-> cur.seq]
    /\ cur.org \in [Origins -> OriginCursor]
    /\ \A o \in Origins : cur.org[o].pos =< Len(Catalog[o])
    /\ cur.total \in Nat
    /\ cur.expires \in Nat
    /\ cur.seq \in Nat

IsToken(tok) == tok = NoCursor \/ IsCursor(tok)

IsPage(page) ==
    /\ IsToken(page.self)
    /\ IsToken(page.prev)
    /\ IsToken(page.first)
    /\ IsToken(page.next)
    /\ page.items \subseteq Item
    /\ page.failed \subseteq Origins
    /\ page.total \in Nat

\* Every cursor, page and cache entry is well formed, and no cursor points
\* past the end of what its origin lists.
TypeOK ==
    /\ now \in Nat
    /\ \A tok \in DOMAIN cache : IsPage(cache[tok].page) /\ cache[tok].until \in Nat
    /\ \A c \in Clients :
          /\ call[c] # None => IsToken(call[c].tok) /\ IsCursor(call[c].cursor)
          /\ \A k \in 1 .. Len(trail[c]) : IsPage(trail[c][k].page)

Walked(c) == UNION {trail[c][k].page.items : k \in 1 .. Len(trail[c])}

Stashes(cur) == UNION {cur.org[o].stash : o \in Origins}

Looking(c) == trail[c] # <<>>

\* The cursor a page was rendered from.
CursorOf(page) ==
    IF page.self = NoCursor THEN NewFederatedCursor(NoCursor, 0) ELSE page.self

\* "so the items aren't lost" (OriginCursor.Stash): an upstream item the cursor
\* has moved past was on a page of this walk or is stashed, itself or as a copy
\* from another origin, whatever fetches failed on the way.
NoItemLost ==
    \A c \in Clients : Looking(c) /\ Last(c).next # NoCursor =>
        LET next == Last(c).next
        IN  \A o \in Origins : \A i \in 1 .. next.org[o].pos :
               Key(<<o, i>>) \in Keys(Walked(c) \cup Stashes(next))

\* A walk that is offered no further page has shown every item of every origin
\* that has not failed on maxOriginErrorRetries pages in a row.
WalkEndsComplete ==
    \A c \in Clients : Looking(c) /\ Last(c).next = NoCursor =>
        \A x \in Item :
            \/ trail[c][Len(trail[c])].fails[x[1]] >= maxOriginErrorRetries
            \/ Key(x) \in Keys(Walked(c))

\* No upstream item is shown twice on a walk, not even around failed fetches and
\* retries: TotalCount is the number of distinct items shown.
EachItemOnce ==
    \A c \in Clients : Looking(c) => Last(c).total = Cardinality(Walked(c))

\* Fetching only Limit items per origin, and none from an origin whose stash is
\* full, costs nothing: a page no origin is missing from is the head of the
\* merge of everything the origins still have.
PageIsHeadOfMerge ==
    \A c \in Clients : Looking(c) /\ Last(c).failed = {} /\ Upstream # "ragged" =>
        LET org == CursorOf(Last(c)).org
            left == [o \in Origins |->
                        org[o].stash \cup
                        (IF org[o].exhausted THEN {}
                         ELSE Slice(o, org[o].pos, Remaining(o, org[o].pos)))]
        IN  Last(c).items = Top(mergeItemsFirstWins(left), Limit)

\* Upstream catalogs are in the order the merge sorts by, copies of an item
\* agree on its rank, and origins that list the same two items agree on their
\* order.
CatalogsSorted ==
    /\ \A x, y \in Item : x[1] = y[1] /\ x[2] < y[2] => Rank(x) =< Rank(y)
    /\ \A x, y \in Item : Key(x) = Key(y) => Rank(x) = Rank(y)
    /\ \A x, y, u, v \in Item :
          /\ Key(x) = Key(u) /\ Key(y) = Key(v)
          /\ x[1] = y[1] /\ u[1] = v[1]
          /\ x[2] < y[2]
          => u[2] < v[2]

\* Without failures a walk is one globally sorted listing without repetitions
\* ("required for stable cross-page merge across origins", mergeResults).
CleanWalkSorted ==
    \A c \in Clients :
        Looking(c) /\ trail[c][Len(trail[c])].clean /\ CatalogsSorted /\ Upstream # "ragged" =>
            \A j, k \in 1 .. Len(trail[c]) : j < k =>
                \A x \in trail[c][j].page.items, y \in trail[c][k].page.items :
                    Rank(x) =< Rank(y) /\ Key(x) # Key(y)

\* A client that keeps following `rel: next` gets to a last page once the
\* origins answer again, however unevenly they page and whichever fetches failed
\* before: no origin stays open after its last item. That failures end is
\* assumed (FaultHorizon, WalkSpec); an origin that never answers keeps the
\* session open for ever, against RetryBudgetHonoured.
WalkEnds == \A c \in Clients : <>(Looking(c) /\ Last(c).next = NoCursor)

\* The stash an origin's cursor carries is bounded by the page size.
StashBounded ==
    \A c \in Clients : Looking(c) /\ Last(c).next # NoCursor =>
        \A o \in Origins : Cardinality(Last(c).next.org[o].stash) < 2 * Limit

\* The links of a page lead where they say: `self` is this page's place in the
\* walk and `prev` the page before it, also when the page came from the cache.
LinksFollowWalk ==
    \A c \in Clients : \A k \in 2 .. Len(trail[c]) :
        /\ trail[c][k].page.self.seq = k - 1
        /\ trail[c][k].page.prev = trail[c][k - 1].page.self

\* "The cache is purely an optimisation" (pagecache): what it holds for a cursor
\* is what rendering that cursor again would give, never a page rendered while
\* an origin was failing.
CacheIsFresh ==
    Upstream # "ragged" =>
        \A tok \in DOMAIN cache :
            cache[tok].page =
                SearchResult(tok, tok, [o \in ToFetch(tok) |->
                                           CHOOSE a \in Answers(o, tok.org[o].pos) : TRUE])

\* "entries can never outlive the cursor that keys them" (pagecache), however
\* long the fan-out took.
CacheWithinCursor ==
    \A tok \in DOMAIN cache : cache[tok].until =< tok.expires

\* A page reached through a cursor was rendered for the principal that sees it,
\* with or without the page cache (FederatedCursor.PrincipalHash).
PagesOfOwnPrincipal ==
    \A c \in Clients : \A k \in 2 .. Len(trail[c]) :
        trail[c][k].page.self.principal = trail[c][k].principal

-----------------------------------------------------------------------------
(***************************************************************************)
(* The inductive invariant behind NoItemLost and LinksFollowWalk. A walk,  *)
(* whether it is a client's or the one a running call extends, is a chain: *)
(* each page was rendered from the next cursor of the page before it, and  *)
(* each next cursor keeps every item it moves past. What the cache holds   *)
(* fits any walk its cursor continues, because what a page keeps depends   *)
(* on its own cursor alone.                                                *)
(***************************************************************************)
SoundCursor(cur) ==
    /\ cur = [org |-> cur.org, total |-> cur.total, principal |-> cur.principal,
              expires |-> cur.expires, prev |-> cur.prev, first |-> cur.first,
              seq |-> cur.seq]
    /\ cur.org \in [Origins -> OriginCursor]
    /\ \A o \in Origins :
          /\ cur.org[o].pos =< Len(Catalog[o])
          /\ \A x \in cur.org[o].stash : x[1] = o
    /\ cur.seq \in Nat

\* What cur holds, and what it newly moves past, is on the page or in its next
\* cursor.
Conserves(cur, items, next) ==
    /\ Keys(Stashes(cur)) \subseteq Keys(items \cup Stashes(next))
    /\ \A o \in Origins : \A i \in (cur.org[o].pos + 1) .. next.org[o].pos :
          Key(<<o, i>>) \in Keys(items \cup Stashes(next))

SoundPage(page) ==
    /\ page.prev = IF page.self = NoCursor THEN NoCursor ELSE page.self.prev
    /\ page.next # NoCursor =>
          /\ SoundCursor(page.next)
          /\ HasMore(page.next)
          /\ page.next.prev = page.self
          /\ page.next.seq = CursorOf(page).seq + 1
          /\ Conserves(CursorOf(page), page.items, page.next)

Shown(walk, k) == UNION {walk[j].page.items : j \in 1 .. k}

\* Every item next has moved past was shown or is stashed.
Lossless(next, shown) ==
    \A o \in Origins : \A i \in 1 .. next.org[o].pos :
        Key(<<o, i>>) \in Keys(shown \cup Stashes(next))

SoundWalk(walk) ==
    /\ walk \in Seq({walk[k] : k \in 1 .. Len(walk)})
    /\ \A k \in 1 .. Len(walk) :
          /\ SoundPage(walk[k].page)
          /\ walk[k].page.self = IF k = 1 THEN NoCursor ELSE walk[k - 1].page.next
          /\ k > 1 => walk[k].page.self # NoCursor
          /\ walk[k].page.next # NoCursor =>
                /\ walk[k].page.next.seq = k
                /\ Lossless(walk[k].page.next, Shown(walk, k))

\* tok is the cursor of the page after walk.
Continues(walk, tok) ==
    IF walk = <<>> THEN tok = NoCursor
    ELSE tok # NoCursor /\ tok = walk[Len(walk)].page.next

SearchInv ==
    /\ now \in Nat
    /\ DOMAIN trail = Clients /\ DOMAIN call = Clients
    /\ \A c \in Clients : SoundWalk(trail[c])
    /\ \A c \in Clients : call[c] # None =>
          /\ SoundWalk(call[c].base)
          /\ Continues(call[c].base, call[c].tok)
          /\ call[c].cursor =
                IF call[c].tok = NoCursor
                THEN NewFederatedCursor(call[c].cursor.principal,
                                        call[c].cursor.expires - CursorTTL)
                ELSE call[c].tok
    /\ \A tok \in DOMAIN cache :
          /\ tok # NoCursor
          /\ cache[tok].page.self = tok
          /\ SoundPage(cache[tok].page)

-----------------------------------------------------------------------------
(* What the documentation says and the code does not do.                      *)

\* maxOriginErrorRetries "bounds how many pages an origin may fail on before it
\* is permanently dropped from the session" (cursor.go).
RetryBudgetHonoured ==
    \A c \in Clients : Looking(c) =>
        \A o \in Origins : trail[c][Len(trail[c])].fails[o] =< maxOriginErrorRetries

\* Pagination "guarantees no duplicates ... even when querying heterogeneous
\* backends with different page sizes" (design.md).
NoDuplicates ==
    \A c \in Clients : \A j, k \in 1 .. Len(trail[c]) :
        j # k => Keys(trail[c][j].page.items) \cap Keys(trail[c][k].page.items) = {}

=============================================================================
