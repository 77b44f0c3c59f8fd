---------------------------- MODULE MCFederation ----------------------------
(***************************************************************************)
(* Deployments and requests for Federation.                                *)
(***************************************************************************)
EXTENDS Federation, TLC

a == <<"a">>
b == <<"b">>
pa == <<"p", "a">>
qb == <<"q", "b">>

Items(c, ids) == [i \in DOMAIN ids |-> [coll |-> c, id |-> ids[i]]]

Silent == [link |-> NoLink, header |-> NoHeader, lazy |-> FALSE]

\* An origin without a list that may be asked for anything.
Plain == [enabled |-> TRUE, searchable |-> TRUE, priority |-> 1, prefix |-> <<>>, collections |-> {},
          exclude |-> {}, mapping |-> <<>>, holds |-> Items(a, <<1, 2>>), schema |-> {"x", "y"},
          classes |-> {"core", "sort"}, adapter |-> "auto", conv |-> Silent]

Ask(kind, colls, limit) == [NoRequest EXCEPT !.kind = kind, !.colls = colls, !.limit = limit]
Follow(colls) == [Ask("search", colls, 0) EXCEPT !.next = TRUE]

Base == [origins |-> <<Plain, Plain, Plain>>, maxConcurrent |-> 2, cursors |-> FALSE,
         defaultPageSize |-> 2, maxPageSize |-> 3,
         requests |-> {
             Ask("search", <<>>, 0), Ask("search", <<a>>, 3), Ask("search", <<pa, a>>, 9), Ask("items", <<b>>, 1),
             Ask("collections", <<>>, 0), Ask("generic", <<>>, 0), Ask("conformance", <<>>, 0),
             Ask("resource", <<pa>>, 0), Ask("resource", <<a>>, 0), Ask("resource", <<qb>>, 0),
             Ask("queryables", <<>>, 0), Ask("queryables", <<b>>, 0), Ask("queryables", <<qb>>, 0)}]

\* Three searchable origins that share items; the second is preferred, the
\* third knows a by another name and does not serve b.
Mirrors ==
    [Base EXCEPT !.origins = <<
        [Plain EXCEPT !.priority = 2, !.holds = Items(a, <<1, 2>>) \o Items(b, <<1>>)],
        [Plain EXCEPT !.holds = Items(a, <<2, 3>>), !.schema = {"x"}],
        [Plain EXCEPT !.priority = 2, !.holds = Items(<<"c">>, <<1>>), !.exclude = {b},
                      !.mapping = a :> <<"c">>, !.classes = {"core", "filter"}]>>]

\* Two origins with complete lists, one of them under a prefix, and a third
\* that is switched off.
Prefixed ==
    [Base EXCEPT !.origins = <<
        [Plain EXCEPT !.prefix = <<"p">>, !.collections = {a}, !.mapping = pa :> a],
        [Plain EXCEPT !.collections = {a, b}, !.holds = Items(a, <<1>>) \o Items(b, <<4>>)],
        [Plain EXCEPT !.enabled = FALSE]>>, !.maxConcurrent = 1]

\* A prefix that is stripped from the names of a search, next to an origin that
\* has none of them.
Stripped ==
    [Base EXCEPT !.origins = <<
        [Plain EXCEPT !.prefix = <<"p">>, !.collections = {a}],
        [Plain EXCEPT !.holds = Items(b, <<4>>)],
        [Plain EXCEPT !.holds = Items(b, <<5>>)]>>, !.requests = {Ask("search", <<pa>>, 0)}]

\* No more than one origin.
Off == [Plain EXCEPT !.enabled = FALSE]
Alone == [Base EXCEPT !.origins = <<Plain, Off, Off>>]
Unlisted == [Base EXCEPT !.origins = <<Off, Off, Off>>]

Link(method, href, params, body) ==
    [link |-> [NoLink EXCEPT !.method = method, !.href = href, !.params = params, !.body = body],
     header |-> NoHeader, lazy |-> FALSE]

Tokens == Link("GET", "own", {"token"}, "none")
Replays == Link("POST", "own", {}, "opaque")
Header == [Silent EXCEPT !.header = [href |-> "own", at |-> 0]]

\* The conventions of adapter.go's list, and links that lead elsewhere.
Conventions == {
    Tokens, Replays, Header,
    Link("POST", "own", {}, "token"), Link("GET", "own", {"offset"}, "none"),
    Link("GET", "own", {}, "none"), Link("GET", "foreign", {}, "none"),
    [Link("GET", "own", {}, "none") EXCEPT !.header = [href |-> "own", at |-> 0]],
    [Silent EXCEPT !.header = [href |-> "foreign", at |-> 0]]}

\* Two origins, the first with any adapter and any of these conventions. The
\* second is read by auto; its last page is full and still names a next one.
Paged(adapter, conv, other) ==
    [Base EXCEPT
        !.cursors = TRUE,
        !.requests = {Ask("search", <<>>, 0), Follow(<<>>), Follow(<<a>>)},
        !.origins = <<
            [Plain EXCEPT !.holds = Items(a, <<1, 2, 3, 4, 5>>), !.adapter = adapter, !.conv = conv],
            [Plain EXCEPT !.holds = Items(a, <<6, 7, 8, 9>>), !.conv = [other EXCEPT !.lazy = TRUE]],
            [Plain EXCEPT !.enabled = FALSE]>>]

MCDeployments ==
    {Mirrors, Prefixed, Stripped, Alone, Unlisted}
    \cup {Paged(n, c, d) : n \in Named \cup {"auto"}, c \in Conventions, d \in {Tokens, Replays, Header}}

\* Two origins, each with a prefix of its own.
TwoPrefixes ==
    {[Base EXCEPT !.origins = <<
        [Plain EXCEPT !.prefix = <<"p">>, !.collections = {a}],
        [Plain EXCEPT !.prefix = <<"q">>, !.collections = {b}, !.holds = Items(b, <<1>>)],
        [Plain EXCEPT !.enabled = FALSE]>>, !.requests = {Ask("search", <<pa, qb>>, 0)}]}

\* Paginated search over origins of which one excludes a collection.
Excluding ==
    {[Base EXCEPT !.cursors = TRUE, !.origins = <<Plain, Plain, [Plain EXCEPT !.exclude = {a}]>>,
                  !.requests = {Ask("search", <<a>>, 0)}]}

=============================================================================
