---------------------------- MODULE PageAdapter ----------------------------
(***************************************************************************)
(* How the proxy finds the next page of an upstream search                 *)
(* (internal/federation/pageadapter and OriginClientSearcher): an adapter  *)
(* captures from a response where the next page is, the cursor carries     *)
(* that to the next request, and the client replays it.                    *)
(*                                                                         *)
(* A place is the number of items that come before a page. What is opaque  *)
(* to the proxy is the place it leads to: a token or a body is that place, *)
(* 0 when empty, and a URL is <<place>>, <<>> when empty.                  *)
(***************************************************************************)
EXTENDS Integers, Sequences

\* rel=next of a feature collection: the method it declares, whether its href
\* is absent, rooted at the origin or elsewhere, the parameters of the href, the
\* body it carries, and the places href and body lead to.
NoLink == [method |-> "none", href |-> "none", params |-> {}, body |-> "none", at |-> 0, bodyAt |-> 0]

\* The href a Link header gives for rel=next.
NoHeader == [href |-> "none", at |-> 0]

\* NextState. bad: Capture returned an error.
NextState == [token |-> 0, url |-> <<>>, body |-> 0, offset |-> 0, done |-> FALSE, name |-> "", bad |-> FALSE]
Done == [NextState EXCEPT !.done = TRUE]
Bad == [NextState EXCEPT !.bad = TRUE]

SameOrigin(href) == href \in {"none", "own"}

\* extractTokenFromNextLink: in the query of the href, then in the body.
ExtractToken(r) ==
    CASE r.link.href # "none" /\ "token" \in r.link.params -> r.link.at
      [] r.link.body = "token" -> r.link.bodyAt
      [] OTHER -> 0

\* A next link without a token is not the end, but nothing is captured.
TokenCapture(r) ==
    IF ExtractToken(r) = 0 THEN [NextState EXCEPT !.done = (r.link = NoLink)]
    ELSE [NextState EXCEPT !.token = ExtractToken(r)]

\* Faulty variant: the href of a POST link is followed too.
NextURLCaptureAnyMethod(r) ==
    CASE r.link.href = "none" -> Done
      [] ~SameOrigin(r.link.href) -> Bad
      [] OTHER -> [NextState EXCEPT !.url = <<r.link.at>>]

\* A POST link is left to post_body.
NextURLCapture(r) ==
    CASE r.link.href = "none" -> Done
      [] r.link.method = "POST" -> NextState
      [] ~SameOrigin(r.link.href) -> Bad
      [] OTHER -> [NextState EXCEPT !.url = <<r.link.at>>]

OffsetCapture(r) ==
    IF r.link.href # "own" \/ "offset" \notin r.link.params THEN Done
    ELSE [NextState EXCEPT !.url = <<r.link.at>>, !.offset = r.link.at]

LinkHeaderCapture(r) ==
    CASE r.header.href = "none" -> Done
      [] ~SameOrigin(r.header.href) -> Bad
      [] OTHER -> [NextState EXCEPT !.url = <<r.header.at>>]

PostBodyCapture(r) ==
    CASE r.link = NoLink -> Done
      [] r.link.method # "POST" -> NextState
      [] r.link.href = "none" -> Done
      [] ~SameOrigin(r.link.href) -> Bad
      [] r.link.body = "none" -> NextState
      [] OTHER -> [NextState EXCEPT !.url = <<r.link.at>>, !.body = r.link.bodyAt]

Named == {"token", "next_url", "offset", "link_header", "post_body"}

NamedCapture(a, r) ==
    CASE a = "token"       -> TokenCapture(r)
      [] a = "next_url"    -> NextURLCapture(r)
      [] a = "offset"      -> OffsetCapture(r)
      [] a = "link_header" -> LinkHeaderCapture(r)
      [] a = "post_body"   -> PostBodyCapture(r)

\* Probe, in hundredths: how sure an adapter is that the response is of its
\* convention. An error or an empty capture is no match.
PostBodyProbe(r)   == IF PostBodyCapture(r).body # 0 THEN 95 ELSE 0
TokenProbe(r)      == IF TokenCapture(r).token # 0 THEN 90 ELSE 0
OffsetProbe(r)     == IF OffsetCapture(r).url # <<>> THEN 70 ELSE 0
NextURLProbe(r)    == IF NextURLCapture(r).url # <<>> THEN 60 ELSE 0
LinkHeaderProbe(r) == IF LinkHeaderCapture(r).url # <<>> THEN 50 ELSE 0

Probe(a, r) ==
    CASE a = "token"       -> TokenProbe(r)
      [] a = "next_url"    -> NextURLProbe(r)
      [] a = "offset"      -> OffsetProbe(r)
      [] a = "link_header" -> LinkHeaderProbe(r)
      [] a = "post_body"   -> PostBodyProbe(r)

\* auto: the surest of the named adapters, whose name is locked; none, no more.
AutoCapture(r) ==
    LET best == CHOOSE a \in Named : \A b \in Named : Probe(b, r) =< Probe(a, r)
    IN  IF Probe(best, r) = 0 THEN Done
        ELSE [NamedCapture(best, r) EXCEPT !.name = best]

\* The adapters NewOriginClientSearcher registers for a locked name.
Registry == Named \ {"post_body"}

\* pickAdapter: the locked adapter if auto is configured and the name is in the
\* registry; otherwise the configured one.
PickAdapter(configured, locked) ==
    IF configured = "auto" /\ locked \in Registry THEN locked ELSE configured

Capture(a, r) == IF a = "auto" THEN AutoCapture(r) ELSE NamedCapture(a, r)

-----------------------------------------------------------------------------
(* The part of an OriginCursor the adapters write, and its way back into a    *)
(* request.                                                                   *)

FreshCursor == [token |-> 0, url |-> <<>>, body |-> 0, name |-> "", exhausted |-> FALSE]

\* UpdateOriginState with what Search returned. mergeResults passes no offset
\* on, and Search nothing of a state that is done. A failed fetch leaves this
\* part of the cursor as it is.
Advance(oc, st) ==
    [oc EXCEPT !.token = st.token,
               !.url = st.url,
               !.body = st.body,
               !.name = IF st.name = "" THEN @ ELSE st.name,
               !.exhausted = @ \/ (st.token = 0 /\ st.url = <<>> /\ st.body = 0)]

\* fetchFromOrigins and OriginClient.Search: the page that is asked for. A URL
\* is fetched verbatim, with the body if there is one (searchByURL,
\* searchByPOST); otherwise the search is posted anew, with the token.
PlaceAsked(oc) ==
    CASE oc.url # <<>> /\ oc.body # 0 -> oc.body
      [] oc.url # <<>> -> oc.url[1]
      [] OTHER -> oc.token

=============================================================================
