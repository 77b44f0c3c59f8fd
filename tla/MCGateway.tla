----------------------------- MODULE MCGateway -----------------------------
(***************************************************************************)
(* A deployment for Gateway: four items in two collections, one of them    *)
(* without geometry or cloud cover, policies of every kind (some that do   *)
(* not parse), and the credentials that make providers disagree or         *)
(* principals hard to tell apart. The second request only fills and reads  *)
(* the cache.                                                              *)
(***************************************************************************)
EXTENDS Gateway

CONSTANTS r1, r2

Item(id, coll, geom, props) ==
    [id |-> id, collection |-> coll, geometry |-> geom, properties |-> props,
     fields |-> [collection |-> IF coll = "c1" THEN Word(1) ELSE Word(2)]]

MCCatalog ==
    { Item("a", "c1", {1}, [cloud |-> Num(2), grid |-> NumStr(10)]),
      Item("b", "c1", {1, 2}, [cloud |-> Num(5), grid |-> Word(1)]),
      Item("c", "c2", {3}, [cloud |-> Num(2), grid |-> NumStr(9)]),
      Item("d", "c2", NoGeometry, [grid |-> Word(1)]) }

Route(type, method, sr, item, order) ==
    [type |-> type, method |-> method, search |-> sr, item |-> item, order |-> order]
Search(colls, filter, limit) == [collections |-> colls, filter |-> filter, limit |-> limit]

Cloudless == Op("<", <<Prop("cloud"), Lit(Num(3))>>)

AllItems == Route("search", "GET", NoSearch, "", 0)
Collections == Route("collections", "GET", NoSearch, "", 0)
MCRoutes ==
    { AllItems,
      Route("search", "GET", NoSearch, "", 1),
      Route("search", "GET", Search({"c1", "c2"}, Cloudless, 0), "", 0),
      Route("search", "GET", Search({"c1"}, BadExpr, 0), "", 0),
      Route("search", "POST", Search({"c2"}, NoExpr, 2), "", 0),
      Route("items", "GET", Search({"c2"}, NoExpr, 0), "", 0),
      Collections,
      Route("conformance", "GET", NoSearch, "", 0) }
    \cup {Route("item", "GET", NoSearch, id, 0) : id \in {"a", "b", "d", "x"}}

Fence(allowed, denied, mode) == [allowed |-> allowed, denied |-> denied, filterMode |-> mode]
Is(op, v) == [op |-> op, value |-> v]

Yes(c) == [allow |-> "true", constraints |-> c, result |-> << >>]
Plain == Yes(<< >>)

Constrained ==
    {Yes(c) : c \in
      { [allowed |-> {"c1"}, fence |-> Fence({1}, NoArea, FALSE)],
        [allowed |-> {"c1", "c2"}, denied |-> {"c2"}, maxResults |-> 1],
        [fence |-> Fence({1, 2, 3}, {2, 3}, FALSE)],
        [fence |-> Fence(NoArea, {3}, FALSE)],
        [fence |-> Fence(NoArea, {3}, TRUE)],
        [cql2 |-> Cloudless, fence |-> Fence({1, 2}, NoArea, TRUE)],
        [cql2 |-> Cloudless, fence |-> Fence({1}, BadArea, TRUE)],
        [cql2 |-> BadExpr, fence |-> Fence(BadArea, {3}, FALSE)],
        [cql2 |-> Op("or", <<Op("not", <<Cloudless>>), Op("isnull", <<Prop("cloud")>>)>>)],
        [required |-> [grid |-> Is(">=", NumStr(10)), collection |-> Is("=", Word(1))]],
        [required |-> [collection |-> [op |-> "in", values |-> {Word(2), Word(3)}]],
         cql2 |-> Op("=", <<Prop("grid"), Lit(Word(1))>>)] }}

\* Answers of other shapes: the whole package with its result, and those that
\* do not allow.
Shapes ==
    {[allow |-> a, constraints |-> << >>, result |-> Yes([denied |-> {"c2"}])] : a \in {"false", "absent"}}
    \cup {[allow |-> a, constraints |-> << >>, result |-> << >>] :
              a \in {"false", "absent", "undefined", "failed"}}

Cred(scheme, token, key, keyIn, cert, user, who) ==
    [scheme |-> scheme, token |-> token, key |-> key, keyIn |-> keyIn, cert |-> cert, user |-> user, who |-> who]
Nobody == NoCredential
Alice == Cred("Bearer", "bearer", "none", "header", "none", <<"alice">>, "Alice")
AliceKey == Cred("none", "none", "enabled", "header", "none", <<"alice">>, "key")

\* Principals that are hard to tell apart: two without an ID, one whose name is
\* the class of those, and one whose subject reads like the ID of a key.
Lookalikes ==
    { Cred("Bearer", "bearer", "none", "header", "none", << >>, "Dana"),
      Cred("none", "none", "none", "header", "trusted", << >>, "Erin"),
      Cred("Basic", "password", "none", "header", "none", <<"_unknown">>, "Fay"),
      Cred("Bearer", "bearer", "none", "header", "none", <<"apikey:", "alice">>, "Gil") }

MCCredentials ==
    { Nobody, Alice, AliceKey,
      Cred("Bearer", "oidc", "none", "header", "none", <<"alice">>, "Alice"),
      Cred("Bearer", "forged", "enabled", "header", "none", <<"bob">>, "Bob"),
      Cred("none", "none", "disabled", "query", "none", <<"bob">>, "Bob"),
      Cred("Basic", "password", "none", "header", "none", <<"anonymous">>, "Hal"),
      Cred("Basic", "wrong", "none", "header", "trusted", <<"carol">>, "Carol"),
      Cred("none", "none", "none", "header", "untrusted", <<"carol">>, "Carol") }
    \cup Lookalikes

\* The second request reads and fills the cache under the keys of the first.
MCOffers ==
    ({r1} \X {q \in MCRoutes : q.type \in SearchTypes /\ q.order = 0 /\ q.search.filter # BadExpr} \X {Alice}
          \X Constrained)
    \cup ({r1} \X {q \in MCRoutes : q.item \in {"a", "d"}} \X {Alice} \X Constrained)
    \cup ({r1} \X {q \in MCRoutes : q.search.filter = BadExpr} \X {Alice} \X {Plain, Yes([maxResults |-> 1])})
    \cup ({r1} \X {q \in MCRoutes : q.method = "GET" /\ q.search.filter = NoExpr /\ q.item \notin {"a", "d"}}
               \X {Alice} \X {Plain})
    \cup ({r1} \X {AllItems} \X {Nobody} \X {Plain})
    \cup ({r1} \X {Collections} \X MCCredentials \X {Plain})
    \cup ({r1} \X {AllItems} \X {Alice} \X Shapes)
    \cup ({r2} \X {AllItems} \X {Alice} \X {Plain})

\* A denied area on its own, without filter mode.
DeniedOffers == {r1} \X {AllItems} \X {Alice} \X {Yes([fence |-> Fence(NoArea, {3}, FALSE)])}

\* A required filter that compares strings which spell numbers, on one item.
NumericOffers ==
    {r1} \X {Route("item", "GET", NoSearch, "a", 0)} \X {Alice}
         \X {Yes([required |-> [grid |-> Is(">=", NumStr(9))]])}

\* Principals that look alike, and an item and a document that are replayed.
SharedOffers == {r1} \X {AllItems} \X (Lookalikes \cup {AliceKey}) \X {Plain}
ReplayOffers == {r1} \X {q \in MCRoutes : q.type = "conformance" \/ q.item = "b"} \X {Alice} \X {Plain}

\* Three deployments. The order of the providers differs from one to the next.
Deployment(providers, injection, spatial) ==
    [providers |-> providers, injection |-> injection, filter |-> TRUE, spatial |-> spatial]
MCDeployments ==
    { Deployment(<<"mtls", "bearer", "api_key", "basic">>, TRUE, TRUE),
      Deployment(<<"basic", "api_key", "oidc", "mtls">>, TRUE, FALSE),
      Deployment(<<"api_key", "mtls", "basic", "bearer", "oidc">>, FALSE, TRUE) }

=============================================================================
