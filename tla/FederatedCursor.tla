--------------------------- MODULE FederatedCursor ---------------------------
(***************************************************************************)
(* The cursor of a federated search and the merge that advances it:        *)
(* internal/federation/cursor.go and the pure part of pagination.go and    *)
(* merger.go.                                                              *)
(*                                                                         *)
(* An origin serves its items in a fixed order. The item <<o, i>> is the   *)
(* i-th item of origin o; Catalog says what the proxy can tell about it:   *)
(* its dedup key (collection + ":" + id), its rank in the order            *)
(* (datetime desc, id asc), and the title of a stac_proxy:origin link it   *)
(* already carries when the upstream is itself such a proxy. Sequences the *)
(* code keeps sorted by rank (a page, a stash) are sets here.              *)
(***************************************************************************)
EXTENDS Integers, FiniteSets, Sequences

CONSTANTS
    Origins,    \* configured origins; < is the order of their IDs
    Catalog,    \* Catalog[o][i] = [key, rank, via]
    Limit,      \* page size, part of the query the cursor is bound to
    CursorTTL,  \* CursorConfig.DefaultTTL
    NoCursor    \* the empty cursor string

ASSUME OriginsAssumption ==
    /\ Origins \subseteq Nat \ {0}
    /\ IsFiniteSet(Origins)

ASSUME LimitAssumption ==
    /\ Limit \in Nat \ {0}
    /\ CursorTTL \in Nat \ {0}

\* via of an item that comes without an origin link.
Untagged == 0

Item == UNION {{o} \X (1 .. Len(Catalog[o])) : o \in Origins}

Key(x) == Catalog[x[1]][x[2]].key
Rank(x) == Catalog[x[1]][x[2]].rank
Via(x) == Catalog[x[1]][x[2]].via

Keys(S) == {Key(x) : x \in S}

\* An origin lists an item once.
ASSUME CatalogAssumption ==
    /\ \A o \in Origins : Len(Catalog[o]) \in Nat
    /\ \A x \in Item : Rank(x) \in Nat
    /\ \A x, y \in Item : x[1] = y[1] /\ Key(x) = Key(y) => x = y

\* ItemOriginID of an item mergeItemsFirstWins has tagged: the first origin
\* link wins, and AddItemOriginLink appends.
ItemOriginID(x) == IF Via(x) = Untagged THEN x[1] ELSE Via(x)

-----------------------------------------------------------------------------
(* OriginCursor. pos stands for NextToken, NextURL, NextBody and Offset (where *)
(* the next upstream page starts) and for ItemCount.                          *)

maxOriginErrorRetries == 3

OriginCursor ==
    [pos : Nat, exhausted : BOOLEAN, error : BOOLEAN, errorCount : Nat,
     stash : SUBSET Item]

NewOriginCursor ==
    [pos |-> 0, exhausted |-> FALSE, error |-> FALSE, errorCount |-> 0,
     stash |-> {}]

retired(oc) == oc.error /\ oc.errorCount >= maxOriginErrorRetries

hasMore(oc) == oc.stash # {} \/ (~retired(oc) /\ ~oc.exhausted)

MarkError(oc) == [oc EXCEPT !.error = TRUE, !.errorCount = @ + 1]

\* Faulty variant: the upstream position is not recorded.
UpdateOriginStateStays(oc, n, more) ==
    [oc EXCEPT !.error = FALSE, !.errorCount = 0, !.exhausted = @ \/ ~more]

\* Faulty variant: the position moves by the page size, not by what came.
UpdateOriginStateByLimit(oc, n, more) ==
    [oc EXCEPT !.pos = @ + Limit,
               !.error = FALSE, !.errorCount = 0, !.exhausted = @ \/ ~more]

\* Faulty variant: an answer without a next page does not exhaust the origin.
UpdateOriginStateEndless(oc, n, more) ==
    [oc EXCEPT !.pos = @ + n, !.error = FALSE, !.errorCount = 0]

\* more: the answer named a next page.
UpdateOriginState(oc, n, more) ==
    [oc EXCEPT !.pos = @ + n,
               !.error = FALSE,
               !.errorCount = 0,
               !.exhausted = @ \/ ~more]

-----------------------------------------------------------------------------
(* FederatedCursor. A cursor handed to a client is the value itself: Encode   *)
(* and DecodeCursor of an untampered token are inverse.                       *)

NewFederatedCursor(principal, now) ==
    [org |-> [o \in Origins |-> NewOriginCursor],
     total |-> 0,
     principal |-> principal,
     expires |-> now + CursorTTL,
     prev |-> NoCursor,
     first |-> NoCursor,
     seq |-> 0]

ActiveOrigins(cur) == {o \in Origins : hasMore(cur.org[o])}

HasMore(cur) == \E o \in Origins : hasMore(cur.org[o])

\* The deep copy carries every field of an origin but ErrorCount.
Clone(cur) ==
    [cur EXCEPT !.org = [o \in Origins |-> [cur.org[o] EXCEPT !.errorCount = 0]]]

\* Faulty variant: prev is carried over instead of set to this page's cursor.
NextCursorKeepsPrev(cur, self) ==
    IF HasMore(cur)
    THEN [Clone(cur) EXCEPT !.first = IF cur.seq = 0 THEN self ELSE cur.first,
                            !.seq = cur.seq + 1]
    ELSE NoCursor

\* The cursor of the page after the one that token self produced.
NextCursor(cur, self) ==
    IF HasMore(cur)
    THEN [Clone(cur) EXCEPT !.prev = self,
                            !.first = IF cur.seq = 0 THEN self ELSE cur.first,
                            !.seq = cur.seq + 1]
    ELSE NoCursor

\* Faulty variant: a stash is used up before its origin is queried again.
ToFetchUnstashed(cur) ==
    {o \in ActiveOrigins(cur) :
        /\ ~cur.org[o].exhausted
        /\ ~retired(cur.org[o])
        /\ cur.org[o].stash = {}}

\* Faulty variant: a full stash does not keep its origin from being queried.
ToFetchAlways(cur) ==
    {o \in ActiveOrigins(cur) : ~cur.org[o].exhausted /\ ~retired(cur.org[o])}

\* The origins Search queries for a page.
ToFetch(cur) ==
    {o \in ActiveOrigins(cur) :
        /\ ~cur.org[o].exhausted
        /\ ~retired(cur.org[o])
        /\ Cardinality(cur.org[o].stash) < Limit}

-----------------------------------------------------------------------------
(* The merge. A fetch result is [ok, items, more].                            *)

\* Per-origin input of the merge: the stash, then the fresh items whose key
\* the stash does not already hold.
Combined(cur, results, o) ==
    LET stash == cur.org[o].stash
        fresh == IF o \in DOMAIN results /\ results[o].ok
                 THEN results[o].items ELSE {}
    IN  stash \cup {x \in fresh : Key(x) \notin Keys(stash)}

\* Faulty variant: copies from several origins are all kept.
mergeItemsAll(sources) == UNION {sources[o] : o \in DOMAIN sources}

\* Dedup across origins in the order of their IDs.
mergeItemsFirstWins(sources) ==
    UNION {{x \in sources[o] :
               \A p \in DOMAIN sources : p < o => Key(x) \notin Keys(sources[p])}
           : o \in DOMAIN sources}

\* The order of the stable sort: items of one rank stay in the order of their
\* origins' IDs, and within an origin in the order it listed them.
Before(x, y) ==
    \/ Rank(x) < Rank(y)
    \/ Rank(x) = Rank(y) /\ (x[1] < y[1] \/ (x[1] = y[1] /\ x[2] < y[2]))

\* The first n items in that order.
Top(S, n) == {x \in S : Cardinality({y \in S : Before(y, x)}) < n}

MarkErrors(cur, results) ==
    [cur EXCEPT !.org =
        [o \in Origins |-> IF o \in DOMAIN results /\ ~results[o].ok
                           THEN MarkError(cur.org[o]) ELSE cur.org[o]]]

\* Faulty variant: what does not fit the page is dropped.
NewStashNone(remainder, o) == {}

\* The new stash of o: what did not fit the page and is tagged with o.
NewStash(remainder, o) == {x \in remainder : ItemOriginID(x) = o}

\* mergeResults: the page, and the cursor with fetched origins advanced and
\* the stash of every active origin replaced.
mergeResults(cur, results) ==
    LET marked == MarkErrors(cur, results)
        active == ActiveOrigins(marked)
        merged == mergeItemsFirstWins([o \in active |-> Combined(marked, results, o)])
        emitted == Top(merged, Limit)
        Advance(o) ==
            IF o \in DOMAIN results /\ results[o].ok
            THEN UpdateOriginState(marked.org[o], Cardinality(results[o].items),
                                   results[o].more)
            ELSE marked.org[o]
    IN  [items |-> emitted,
         cursor |-> [marked EXCEPT
             !.total = @ + Cardinality(emitted),
             !.org = [o \in Origins |->
                 IF o \in active
                 THEN [Advance(o) EXCEPT !.stash = NewStash(merged \ emitted, o)]
                 ELSE marked.org[o]]]]

\* The origins whose status carries an error.
failedFromStatuses(cur) == {o \in Origins : cur.org[o].error}

=============================================================================
