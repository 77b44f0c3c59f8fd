----------------------------- MODULE Federation -----------------------------
(***************************************************************************)
(* The federation handler (internal/federation: handler.go, router.go,     *)
(* fanout.go, search.go, catalog.go, merger.go, status.go): one request is *)
(* routed to origins, asked of them in parallel or one after the other,    *)
(* and answered from what came back.                                       *)
(*                                                                         *)
(* Requests share nothing but the configuration, so one at a time shows    *)
(* all there is to see; what runs concurrently is the fan-out of each. The *)
(* client follows a paginated search with the cursor it got last. A        *)
(* collection ID is a sequence of units, a prefix is <<>> or one unit. An  *)
(* item is [coll, id], as the origin that holds it names it.               *)
(***************************************************************************)
EXTENDS PageAdapter, FiniteSets, SequencesExt

CONSTANTS
    Origins,      \* configured origins; < is the order of their IDs
    Deployments,  \* configurations, with what the upstreams hold and clients ask
    ProxyClasses  \* ProxyConformanceFor(caps)

VARIABLES
    dep,       \* the deployment at hand
    pc,        \* "idle", "fan", "scan", "pass" or "sent"; "down" without a process
    req,       \* the request being handled
    names,     \* searchReq.Collections: the slice every shallow copy shares
    tasks,     \* tasks[o]: the goroutine of fanOut for origin o, or its outcome
    todo,      \* origins handleSingleResource has yet to try
    resp,      \* the response
    query,     \* the collections the running session searches
    cursor,    \* cursor[o]: adapter state in the cursor of the session
    received   \* received[o]: the items of o seen in the session

session == <<query, cursor, received>>
vars == <<dep, pc, req, names, tasks, todo, resp, session>>

NoRequest == [kind |-> "none", colls |-> <<>>, limit |-> 0, next |-> FALSE]

\* A response has items, other things with an ID, or neither; marked are the
\* origins its X-Federation headers name.
NoResponse == [status |-> 0, items |-> <<>>, ids |-> {}, marked |-> {}]
Status(code) == [NoResponse EXCEPT !.status = code]
WithItems(items) == [Status(200) EXCEPT !.items = items]
WithIDs(ids) == [Status(200) EXCEPT !.ids = ids]

NoTask == [st |-> "none", slot |-> FALSE, i |-> 0, coll |-> <<>>, sent |-> <<>>, ok |-> FALSE, body |-> NoResponse]

Conf(o) == dep.origins[o]

\* What a reader sees of a name that another goroutine is writing.
Torn == <<"torn", "torn">>

-----------------------------------------------------------------------------
(* The router.                                                               *)

\* NewHandler skips origins that are not enabled; Register adds the others to
\* allOrigins if a search could go to them.
Handled == {o \in Origins : Conf(o).enabled}
AllOrigins == {o \in Handled : Conf(o).searchable \/ Conf(o).collections # {}}

\* Faulty variant: the list is registered under the upstream's names.
ExplicitUnprefixed(id) == {o \in AllOrigins : id \in Conf(o).collections}

\* collectionToOrigins: the list of an origin, under the prefix.
Explicit(id) ==
    {o \in AllOrigins : \E c \in Conf(o).collections : id = Conf(o).prefix \o c}

ImplicitAll == {o \in AllOrigins : Conf(o).collections = {}}

\* Route, whose result has no order: it is collected in a map.
Route(ids) ==
    IF ids = <<>> THEN {o \in AllOrigins : Conf(o).searchable}
    ELSE UNION {Explicit(ids[i]) \cup {o \in ImplicitAll : ids[i] \notin Conf(o).exclude}
                   : i \in DOMAIN ids}

\* primaryOrigin: the one with the greatest priority, the first such.
PrimaryOrigin ==
    CHOOSE o \in AllOrigins :
        \A p \in AllOrigins :
            \/ Conf(p).priority < Conf(o).priority
            \/ Conf(p).priority = Conf(o).priority /\ o =< p

-----------------------------------------------------------------------------
(* The upstreams (external).                                                 *)

CollectionsOf(o) == {Conf(o).holds[i].coll : i \in DOMAIN Conf(o).holds}

\* What a search for the collections ids (all, if none) matches.
Matching(o, ids) ==
    SelectSeq(Conf(o).holds, LAMBDA x : ids = <<>> \/ \E i \in DOMAIN ids : ids[i] = x.coll)

\* Whether it knows what it is asked about; queryables are asked for by the
\* client's name of the collection.
Knows(o) == req.kind = "queryables" /\ names # <<>> => names[1] \in CollectionsOf(o)

Least(a, b) == IF a < b THEN a ELSE b

\* The page from the given place on, with the next link of the upstream's
\* convention if items are left, or, if it is lazy, whenever the page is full.
PageFrom(o, ids, place, n) ==
    LET c == Conf(o).conv
        left == Len(Matching(o, ids)) - place
        count == Least(left, n)
        next == place + count
        more == left > n \/ (c.lazy /\ count = n)
    IN  [items |-> [i \in 1 .. count |-> place + i],
         link |-> IF ~more \/ c.link = NoLink THEN NoLink
                  ELSE [c.link EXCEPT !.at = IF c.link.method = "POST" /\ c.link.params = {} THEN 0 ELSE next,
                                      !.bodyAt = IF c.link.body = "none" THEN 0 ELSE next],
         header |-> IF ~more \/ c.header = NoHeader THEN NoHeader ELSE [c.header EXCEPT !.at = next]]

-----------------------------------------------------------------------------
(* fanOut.                                                                   *)

FanOut(S) == [o \in Origins |-> IF o \in S THEN [NoTask EXCEPT !.st = "queued"] ELSE NoTask]

\* At most maxConcurrent searches run at a time; the other fan-outs and the
\* fetch of a page are unbounded.
Semaphore == IF req.kind = "search" /\ ~dep.cursors THEN dep.maxConcurrent ELSE Cardinality(Origins)

Acquire(o) ==
    /\ pc = "fan" /\ tasks[o].st = "queued"
    /\ Cardinality({p \in Origins : tasks[p].slot}) < Semaphore
    /\ tasks' = [tasks EXCEPT ![o].st = "run", ![o].slot = TRUE, ![o].i = 1]
    /\ UNCHANGED <<dep, pc, req, names, todo, resp, session>>

\* An origin that has a prefix and maps no names strips its prefix in the slice
\* all goroutines share (adaptRequestForOrigin).
InPlace(o) ==
    req.kind = "search" /\ ~dep.cursors /\ Conf(o).prefix # <<>> /\ Conf(o).mapping = <<>>

\* coll[len(prefix):], if it is longer. That it begins with the prefix is not
\* looked at.
Cut(id, prefix) == IF Len(id) > Len(prefix) THEN SubSeq(id, Len(prefix) + 1, Len(id)) ELSE id

\* What o may read at index i: the race with a write shows either value, or one
\* whose pointer and length do not belong together.
Seen(o, i) ==
    {names[i]} \cup (IF \E p \in Origins \ {o} : tasks[p].st = "write" /\ tasks[p].i = i THEN {Torn} ELSE {})

ReadName(o) ==
    /\ pc = "fan" /\ tasks[o].st = "run"
    /\ InPlace(o) /\ tasks[o].i \in DOMAIN names
    /\ \E id \in Seen(o, tasks[o].i) :
          tasks' = IF Len(id) > Len(Conf(o).prefix)
                   THEN [tasks EXCEPT ![o].st = "write", ![o].coll = id]
                   ELSE [tasks EXCEPT ![o].i = @ + 1]
    /\ UNCHANGED <<dep, pc, req, names, todo, resp, session>>

WriteName(o) ==
    /\ pc = "fan" /\ tasks[o].st = "write"
    /\ names' = [names EXCEPT ![tasks[o].i] = Cut(tasks[o].coll, Conf(o).prefix)]
    /\ tasks' = [tasks EXCEPT ![o].st = "run", ![o].i = @ + 1]
    /\ UNCHANGED <<dep, pc, req, todo, resp, session>>

\* adaptRequestForOrigin for the names s: mapped and cut in a copy of its own.
Adapted(o, s) ==
    LET Map(id) == IF id \in DOMAIN Conf(o).mapping THEN Conf(o).mapping[id] ELSE id
    IN  IF Conf(o).mapping = <<>> \/ req.kind # "search" \/ dep.cursors THEN s
        ELSE [i \in DOMAIN s |-> Cut(Map(s[i]), Conf(o).prefix)]

\* Effective limit of a search.
PageLimit ==
    LET l == IF req.limit =< 0 THEN dep.defaultPageSize ELSE req.limit
    IN  IF l > dep.maxPageSize THEN dep.maxPageSize ELSE l

\* The first items, up to the limit, and where they are from.
Tag(o, items) == [i \in 1 .. Least(Len(items), PageLimit) |-> [coll |-> items[i].coll, id |-> items[i].id, from |-> o]]

\* What fn of the fan-out brings back from an origin that answers.
FanBody(o, s) ==
    CASE req.kind = "search" /\ dep.cursors -> PageFrom(o, s, PlaceAsked(cursor[o]), PageLimit)
      [] req.kind = "search"      -> WithItems(Tag(o, Matching(o, s)))
      [] req.kind = "collections" -> WithIDs({Conf(o).prefix \o c : c \in CollectionsOf(o)})
      [] req.kind = "queryables"  -> WithIDs(Conf(o).schema)
      [] req.kind = "conformance" -> WithIDs(Conf(o).classes)

\* The request is marshalled from the names as they are, and answered.
Answer(o) ==
    /\ pc = "fan" /\ tasks[o].st = "run"
    /\ InPlace(o) => tasks[o].i > Len(names)
    /\ Knows(o)
    /\ \E s \in [DOMAIN names -> {names[i] : i \in DOMAIN names} \cup {Torn}] :
          /\ \A i \in DOMAIN names : s[i] \in Seen(o, i)
          /\ tasks' = [tasks EXCEPT ![o].st = "done", ![o].slot = FALSE, ![o].ok = TRUE,
                                    ![o].sent = Adapted(o, s), ![o].body = FanBody(o, Adapted(o, s))]
    /\ UNCHANGED <<dep, pc, req, names, todo, resp, session>>

\* Faulty variant: the slot is not released.
FailKeepsSlot(o) ==
    /\ pc = "fan" /\ tasks[o].st = "run"
    /\ InPlace(o) => tasks[o].i > Len(names)
    /\ tasks' = [tasks EXCEPT ![o].st = "done"]
    /\ UNCHANGED <<dep, pc, req, names, todo, resp, session>>

\* A call that fails, or panics where that is recovered: the result is filled
\* in and the slot released.
Fail(o) ==
    /\ pc = "fan" /\ tasks[o].st = "run"
    /\ InPlace(o) => tasks[o].i > Len(names)
    /\ tasks' = [tasks EXCEPT ![o].st = "done", ![o].slot = FALSE]
    /\ UNCHANGED <<dep, pc, req, names, todo, resp, session>>

\* A panic in the fetch of a page is raised again by onPanic, in a goroutine of
\* its own, and ends the process.
Panic(o) ==
    /\ pc = "fan" /\ tasks[o].st = "run"
    /\ req.kind = "search" /\ dep.cursors
    /\ pc' = "down"
    /\ UNCHANGED <<dep, req, names, tasks, todo, resp, session>>

-----------------------------------------------------------------------------
(* The handlers, up to the point where upstreams are asked.                  *)

Reply(r) == pc' = "sent" /\ resp' = r

\* The request r is answered at once, passed to one origin, or fanned out.
ReplyNow(status) ==
    Reply(Status(status)) /\ UNCHANGED <<tasks, todo>>
PassTo(o) ==
    pc' = "pass" /\ todo' = <<o>> /\ UNCHANGED <<tasks, resp>>
FanOutTo(S) ==
    pc' = "fan" /\ tasks' = FanOut(S) /\ UNCHANGED <<todo, resp>>

Only(S) == CHOOSE o \in S : S = {o}

Accept(r) ==
    /\ pc = "idle"
    /\ req' = r /\ names' = r.colls
    /\ UNCHANGED dep

\* A paginated search: a new session asks every origin of the handler, a
\* cursor of the session those that have a next page. As long as no page was
\* served there is no cursor to follow, and the first page is asked for again.
StartPage(r) ==
    IF r.next
    THEN LET more == {o \in Handled : ~cursor[o].exhausted}
         IN  /\ more # {}
             /\ IF r.colls = query THEN FanOutTo(more) ELSE ReplyNow(400)
             /\ UNCHANGED session
    ELSE /\ FanOutTo(Handled)
         /\ query' = r.colls
         /\ cursor' = [o \in Origins |-> FreshCursor]
         /\ received' = [o \in Origins |-> <<>>]

\* handleSearch, and handleItems, which is a search in one collection.
HandleSearch(r) ==
    /\ r.kind \in {"search", "items"} /\ Accept([r EXCEPT !.kind = "search"])
    /\ LET routed == Route(r.colls)
       IN  CASE routed = {} -> ReplyNow(200) /\ UNCHANGED session
             [] Cardinality(routed) = 1 -> PassTo(Only(routed)) /\ UNCHANGED session
             [] Cardinality(routed) > 1 /\ dep.cursors -> StartPage(r)
             [] OTHER -> FanOutTo(routed) /\ UNCHANGED session

HandleGetCollections(r) ==
    /\ r.kind = "collections" /\ Accept(r)
    /\ IF Cardinality(Handled) = 1 THEN PassTo(PrimaryOrigin) ELSE FanOutTo(Handled)
    /\ UNCHANGED session

\* handleQueryables, of a collection or of all.
HandleQueryables(r) ==
    /\ r.kind = "queryables" /\ Accept(r)
    /\ LET clients == IF r.colls = <<>> THEN Handled ELSE Route(r.colls)
       IN  CASE clients = {} -> ReplyNow(503)
             [] Cardinality(clients) = 1 -> PassTo(Only(clients))
             [] OTHER -> FanOutTo(clients)
    /\ UNCHANGED session

\* handleConformance, and handleLanding, which shows the same classes.
HandleConformance(r) ==
    /\ r.kind = "conformance" /\ Accept(r)
    /\ FanOutTo(Handled)
    /\ UNCHANGED session

HandleGenericProxy(r) ==
    /\ r.kind = "generic" /\ Accept(r)
    /\ IF AllOrigins = {} THEN ReplyNow(503) ELSE PassTo(PrimaryOrigin)
    /\ UNCHANGED session

\* handleSingleResource: the routed origins, in whatever order they come.
HandleSingleResource(r) ==
    /\ r.kind = "resource" /\ Accept(r)
    /\ LET routed == Route(r.colls)
       IN  IF routed = {} THEN ReplyNow(404)
           ELSE pc' = "scan" /\ todo' \in SetToSeqs(routed) /\ UNCHANGED <<tasks, resp>>
    /\ UNCHANGED session

-----------------------------------------------------------------------------
(* What is made of the answers.                                              *)

\* reverseProxyOnce: the origin's answer to the request for ids, a 502 when it
\* is broken or too large, or an error (0).
ReverseProxyOnce(o, ids) ==
    LET held == ids = <<>> \/ ids[1] \in CollectionsOf(o)
        answer == CASE req.kind = "search" -> WithItems(Tag(o, Matching(o, ids)))
                    [] req.kind = "collections" -> WithIDs(CollectionsOf(o))
                    [] req.kind = "queryables" /\ held -> WithIDs(Conf(o).schema)
                    [] req.kind = "resource" /\ held -> WithIDs({o})
                    [] req.kind = "generic" -> WithIDs({o})
                    [] OTHER -> Status(404)
    IN  {answer, Status(502), NoResponse}

\* One origin: its answer is the response. An error is a 502.
PassThrough ==
    /\ pc = "pass"
    /\ \E r \in ReverseProxyOnce(todo[1], names) :
          Reply(IF r.status = 0 THEN Status(502) ELSE r)
    /\ todo' = <<>>
    /\ UNCHANGED <<dep, req, names, tasks, session>>

\* The upstream's name of a collection: the prefix is removed if it is there.
StripCollectionPrefix(o, id) ==
    IF IsPrefix(Conf(o).prefix, id) THEN SubSeq(id, Len(Conf(o).prefix) + 1, Len(id)) ELSE id

\* The next origin of the list answers handleSingleResource, or fails.
Tried(r) ==
    /\ tasks' = [tasks EXCEPT ![todo[1]].st = "done", ![todo[1]].ok = (r.status # 0)]
    /\ todo' = Tail(todo)

\* Faulty variant: an error ends the search.
TryStopsAtError ==
    /\ pc = "scan"
    /\ \E r \in ReverseProxyOnce(todo[1], <<StripCollectionPrefix(todo[1], names[1])>>) :
          /\ CASE r.status = 404 /\ Len(todo) > 1 -> UNCHANGED <<pc, resp>>
               [] r.status \in {0, 404} -> Reply(Status(404))
               [] OTHER -> Reply(r)
          /\ Tried(r)
    /\ UNCHANGED <<dep, req, names, session>>

\* Faulty variant: an origin that failed is tried again after the others.
TryRequeues ==
    /\ pc = "scan"
    /\ \E r \in ReverseProxyOnce(todo[1], <<StripCollectionPrefix(todo[1], names[1])>>) :
          /\ CASE r.status \in {0, 404} /\ Len(todo) > 1 -> UNCHANGED <<pc, resp>>
               [] r.status \in {0, 404} -> Reply(Status(404))
               [] OTHER -> Reply(r)
          /\ tasks' = [tasks EXCEPT ![todo[1]].st = "done", ![todo[1]].ok = (r.status # 0)]
          /\ todo' = IF r.status = 0 THEN Append(Tail(todo), todo[1]) ELSE Tail(todo)
    /\ UNCHANGED <<dep, req, names, session>>

\* One origin after the other: an error or a 404 goes on to the next.
Try ==
    /\ pc = "scan"
    /\ \E r \in ReverseProxyOnce(todo[1], <<StripCollectionPrefix(todo[1], names[1])>>) :
          /\ CASE r.status \in {0, 404} /\ Len(todo) > 1 -> UNCHANGED <<pc, resp>>
               [] r.status \in {0, 404} -> Reply(Status(404))
               [] OTHER -> Reply(r)
          /\ Tried(r)
    /\ UNCHANGED <<dep, req, names, session>>

Asked == {o \in Origins : tasks[o].st # "none"}
Answered == {o \in Asked : tasks[o].ok}
Failed == Asked \ Answered

Key(x) == <<x.coll, x.id>>

MergeItemsFirstWins(items) ==
    FoldLeft(LAMBDA kept, x : IF \E i \in DOMAIN kept : Key(kept[i]) = Key(x) THEN kept ELSE Append(kept, x),
             <<>>, items)

\* Faulty variant: results are merged in the order of the routing.
MergeSearchResultsUnsorted ==
    LET order == SetToSeq(Answered)
        items == MergeItemsFirstWins(FlattenSeq([i \in DOMAIN order |-> tasks[order[i]].body.items]))
    IN  SubSeq(items, 1, Least(Len(items), PageLimit))

\* By (priority, ID), the first copy of an item wins, up to the limit.
MergeSearchResults ==
    LET Before(o, p) == \/ Conf(o).priority < Conf(p).priority
                        \/ Conf(o).priority = Conf(p).priority /\ o < p
        order == SetToSortSeq(Answered, Before)
        items == MergeItemsFirstWins(FlattenSeq([i \in DOMAIN order |-> tasks[order[i]].body.items]))
    IN  SubSeq(items, 1, Least(Len(items), PageLimit))

\* What every schema, or every list of classes, that came back has in common.
InAll(S) == {x \in UNION S : \A T \in S : x \in T}

\* Faulty variant: an origin that failed counts, with nothing.
BodiesOfAsked == {tasks[o].body.ids : o \in Asked}

Bodies == {tasks[o].body.ids : o \in Answered}

\* originFailures, respondIfAllFailed and markPartial around the body.
Federated(body) ==
    [IF Asked # {} /\ Failed = Asked THEN Status(502) ELSE body EXCEPT !.marked = Failed]

GatherSearch ==
    /\ req.kind = "search" /\ ~dep.cursors
    /\ Reply(Federated(WithItems(MergeSearchResults)))
    /\ UNCHANGED session

\* MergeCollections; of two collections with one ID the first is kept.
GatherCollections ==
    /\ req.kind = "collections"
    /\ Reply(Federated(WithIDs(UNION Bodies)))
    /\ UNCHANGED session

\* intersectQueryables over the schemas that came back; failures are skipped.
GatherQueryables ==
    /\ req.kind = "queryables"
    /\ Reply(IF Answered = {} THEN Status(503) ELSE WithIDs(InAll(Bodies)))
    /\ UNCHANGED session

\* advertisedConformance: with no answer at all, the proxy's own classes.
GatherConformance ==
    /\ req.kind = "conformance"
    /\ Reply(WithIDs(InAll(Bodies \cup {ProxyClasses})))
    /\ UNCHANGED session

\* The page's part of mergeResults: the adapter of each origin that answered
\* reads its response; one that cannot counts as failed. The page is the items
\* of the others; which of them are shown now and which are stashed is the
\* subject of PaginatedSearch, as are the errors of earlier pages. When every
\* origin of the cursor has failed, items of an earlier page may still be shown;
\* if there are none, that is a 502.
GatherPage ==
    LET st(o) == Capture(PickAdapter(Conf(o).adapter, cursor[o].name), tasks[o].body)
        good == {o \in Answered : ~st(o).bad}
        bad == Asked \ good
    IN  /\ req.kind = "search" /\ dep.cursors
        /\ cursor' = [o \in Origins |-> IF o \in good THEN Advance(cursor[o], st(o)) ELSE cursor[o]]
        /\ received' = [o \in Origins |->
                            IF o \in good THEN received[o] \o tasks[o].body.items ELSE received[o]]
        /\ UNCHANGED query
        /\ \/ /\ bad = Handled
              /\ Reply([Status(502) EXCEPT !.marked = bad])
           \/ /\ bad # Handled \/ \E o \in Origins : received[o] # <<>>
              /\ Reply([WithItems([o \in good |-> tasks[o].body.items]) EXCEPT !.marked = bad])

\* wg.Wait returns, and the results are turned into the response.
Gather ==
    /\ pc = "fan" /\ \A o \in Asked : tasks[o].st = "done"
    /\ GatherSearch \/ GatherCollections \/ GatherQueryables \/ GatherConformance \/ GatherPage
    /\ UNCHANGED <<dep, req, names, tasks, todo>>

-----------------------------------------------------------------------------
Init ==
    /\ dep \in Deployments
    /\ pc = "idle" /\ req = NoRequest /\ names = <<>>
    /\ tasks = [o \in Origins |-> NoTask] /\ todo = <<>> /\ resp = NoResponse
    /\ query = <<>>
    /\ cursor = [o \in Origins |-> FreshCursor] /\ received = [o \in Origins |-> <<>>]

\* ServeHTTP has written the response, and the next request may come.
Leave ==
    /\ pc = "sent" /\ pc' = "idle"
    /\ req' = NoRequest /\ names' = <<>> /\ todo' = <<>> /\ resp' = NoResponse
    /\ tasks' = [o \in Origins |-> NoTask]
    /\ UNCHANGED <<dep, session>>

Handle ==
    \E r \in dep.requests :
        \/ HandleSearch(r) \/ HandleGetCollections(r) \/ HandleQueryables(r)
        \/ HandleConformance(r) \/ HandleGenericProxy(r) \/ HandleSingleResource(r)

FanWork ==
    \/ \E o \in Origins : Acquire(o) \/ ReadName(o) \/ WriteName(o) \/ Answer(o) \/ Fail(o) \/ Panic(o)
    \/ Gather

\* Nothing follows the end of the process.
Down == pc = "down" /\ UNCHANGED vars

Next == Handle \/ FanWork \/ PassThrough \/ Try \/ Leave \/ Down

\* A goroutine of a fan-out that can go on does: its call has a deadline, that
\* of the origin's client. What goes through the reverse proxy has none, so it
\* may never come back.
Spec == Init /\ [][Next]_vars /\ WF_vars(FanWork)

-----------------------------------------------------------------------------
(* Properties.                                                               *)

\* The state is of its type, and no more searches run than the semaphore of
\* fanOut admits.
TypeOK ==
    /\ pc \in {"idle", "fan", "scan", "pass", "sent", "down"}
    /\ Len(names) = Len(req.colls)
    /\ \A o \in Origins :
          /\ tasks[o].st \in {"none", "queued", "run", "write", "done"}
          /\ tasks[o].slot <=> tasks[o].st \in {"run", "write"}
          /\ received[o] \in Seq(Nat)
    /\ pc = "fan" => Cardinality({o \in Origins : tasks[o].slot}) =< Semaphore
    /\ resp.status \in {0, 200, 400, 404, 502, 503}

\* The collections the client asked for, by the names origin o knows.
OwnNames(o) ==
    LET Map(id) == IF id \in DOMAIN Conf(o).mapping THEN Conf(o).mapping[id] ELSE id
    IN  [i \in DOMAIN req.colls |-> StripCollectionPrefix(o, Map(req.colls[i]))]

\* The keys origin o contributes to the search at hand.
Contribution(o) ==
    LET found == Tag(o, Matching(o, OwnNames(o)))
    IN  {Key(found[i]) : i \in DOMAIN found}

Preferred(o, p) ==
    \/ Conf(o).priority < Conf(p).priority
    \/ Conf(o).priority = Conf(p).priority /\ o =< p

\* A fan-out search accounts for every routed origin, whatever the order in
\* which they answered: the response names exactly those that failed (all of
\* them: a 502), and otherwise shows each item of the others once, from the
\* origin that comes first by (priority, ID), and leaves items out only when
\* the page is full (fanOutSearch, MergeSearchResults, markPartial).
UnmarkedIsComplete ==
    pc = "sent" /\ req.kind = "search" /\ ~dep.cursors /\ Cardinality(Route(req.colls)) > 1 =>
        LET there == Route(req.colls) \ resp.marked
            items == ToSet(resp.items)
        IN  /\ resp.marked \subseteq Route(req.colls)
            /\ resp.status = IF there = {} THEN 502 ELSE 200
            /\ \A x \in items :
                  /\ x.from \in there /\ Key(x) \in Contribution(x.from)
                  /\ \A o \in there : Key(x) \in Contribution(o) => Preferred(x.from, o)
            /\ \A x, y \in items : Key(x) = Key(y) => x = y
            /\ \/ Len(resp.items) = PageLimit
               \/ {Key(x) : x \in items} = UNION {Contribution(o) : o \in there}

\* The configuration lists all collections of an origin or none, and excludes
\* none.
ListsAreComplete ==
    \A o \in Handled :
        /\ Conf(o).collections \in {{}, CollectionsOf(o)}
        /\ Conf(o).collections = {} => Conf(o).searchable /\ Conf(o).prefix = <<>>
        /\ Conf(o).exclude = {}

\* What GET /collections lists, the router finds again: with complete lists,
\* each ID shown is routed to an origin that holds the collection under the name
\* handleSingleResource asks for (handleGetCollections against Register, Route
\* and adaptRequestStripCollectionPrefix).
ListedIsServed ==
    pc = "sent" /\ req.kind = "collections" /\ Cardinality(Handled) > 1 /\ resp.status = 200
        /\ ListsAreComplete =>
        \A id \in resp.ids :
            \E o \in Route(<<id>>) : StripCollectionPrefix(o, id) \in CollectionsOf(o)

\* handleSingleResource answers 404 only after every routed origin was tried
\* and each of those that hold the resource failed: one origin's error or 404
\* does not hide another origin's answer. (A 5xx answer is returned as it is.)
FoundIfHeld ==
    pc = "sent" /\ req.kind = "resource" /\ resp.status = 404 =>
        \A o \in Route(req.colls) :
            /\ o \in Asked
            /\ StripCollectionPrefix(o, req.colls[1]) \in CollectionsOf(o) => o \in Failed

\* A merged schema or list of classes promises nothing that an origin which
\* answered lacks, and a failing origin never makes it smaller: all that every
\* origin and the proxy support is in it (intersectQueryables, Intersect).
AdvertIsCommonGround ==
    pc = "sent" /\ req.kind \in {"queryables", "conformance"} /\ Cardinality(Asked) > 1
        /\ resp.status = 200 =>
        LET Has(o) == IF req.kind = "queryables" THEN Conf(o).schema ELSE Conf(o).classes \cap ProxyClasses
        IN  /\ \A o \in Answered : resp.ids \subseteq Has(o)
            /\ \A x \in UNION {Has(o) : o \in Asked} : (\A o \in Asked : x \in Has(o)) => x \in resp.ids

\* The conventions an adapter is made for.
Understands(a, c) ==
    \/ a \in {"token", "auto"} /\ ("token" \in c.link.params \/ c.link.body = "token")
    \/ a \in {"next_url", "auto"} /\ c.link.method = "GET" /\ c.link.href = "own"
    \/ a = "offset" /\ c.link.href = "own" /\ "offset" \in c.link.params
    \/ a \in {"link_header", "auto"} /\ c.header.href = "own"
    \/ a \in {"post_body", "auto"} /\ c.link.method = "POST" /\ c.link.href = "own" /\ c.link.body # "none"

Feeds == INSTANCE OriginFeeds WITH
    total    <- [o \in Origins |-> Len(Matching(o, query))],
    readable <- [o \in Origins |-> Understands(Conf(o).adapter, Conf(o).conv)],
    ended    <- [o \in Origins |-> cursor[o].exhausted]

\* Through the adapters every origin is the feed PaginatedSearch takes it for:
\* each page goes on where the last one that was read ended, a page that failed
\* or could not be read is asked for again, and the origin is exhausted only
\* when all its items were received, unless its convention is not one the
\* configured adapter is made for.
OriginsAreFeeds == Feeds!Spec

\* An origin has been asked through the reverse proxy.
WaitsFor(o) == pc \in {"scan", "pass"} /\ todo[1] = o

\* Every request is answered, whatever fails: fanOut gives back every slot and
\* wg.Wait returns, and handleSingleResource comes to the end of its list. Two
\* things keep a request from that: a panic in the fetch of a page, which ends
\* the process, and one origin that for ever neither answers nor fails what the
\* reverse proxy sent it.
EveryRequestAnswered ==
    pc # "idle" ~> (pc \in {"sent", "down"} \/ \E o \in Origins : []WaitsFor(o))

\* The search an origin is sent names the collections the client asked for, as
\* the origin knows them: mapped, and without the origin's own prefix
\* (adaptRequestForOrigin).
SentAsNamed ==
    pc = "sent" /\ req.kind = "search" => \A o \in Answered : tasks[o].sent = OwnNames(o)

\* A search goes to no origin but those Route selects for its collections, so
\* that the lists, the exclusions and searchable are honoured (handleSearch).
OnlyRoutedAsked == req.kind = "search" => Asked \subseteq Route(req.colls)

=============================================================================
