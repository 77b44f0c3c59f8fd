--------------------------- MODULE MCRateLimiter ---------------------------
(***************************************************************************)
(* RateLimiter over both stores and both failure modes, with two requests  *)
(* at a time in memory and three in Redis.                                 *)
(* The in-memory table serves two keys and is once too small for them; the *)
(* hashes of different keys in Redis have nothing to do with each other.   *)
(***************************************************************************)
EXTENDS RateLimiter, TLC

CONSTANTS r1, r2, r3

Alice == [id |-> "alice", ip |-> "a"]
Someone == [id |-> "anonymous", ip |-> "a"]

MCDeployments ==
    { [store |-> "memory", maxEntries |-> 1, failClosed |-> FALSE, clients |-> {Alice, Someone}, callers |-> 2],
      [store |-> "memory", maxEntries |-> 1, failClosed |-> FALSE, clients |-> {Alice}, callers |-> 2],
      [store |-> "redis", maxEntries |-> 1, failClosed |-> FALSE, clients |-> {Alice}, callers |-> 3],
      [store |-> "redis", maxEntries |-> 1, failClosed |-> TRUE, clients |-> {Alice}, callers |-> 3] }

Symmetry == Permutations({r1, r2, r3})

=============================================================================
