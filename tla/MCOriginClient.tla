--------------------------- MODULE MCOriginClient ---------------------------
(***************************************************************************)
(* OriginClient for two callers. Both make calls with a deadline; one also *)
(* proxies requests that must be sent once, the other also probes.         *)
(***************************************************************************)
EXTENDS OriginClient

CONSTANTS r1, r2

MCOffers ==
    { <<r1, "client", "GET">>, <<r1, "proxy", "POST">>,
      <<r2, "client", "GET">>, <<r2, "probe", "GET">> }

=============================================================================
