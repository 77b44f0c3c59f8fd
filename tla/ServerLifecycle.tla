-------------------------- MODULE ServerLifecycle --------------------------
(***************************************************************************)
(* From start to exit (cmd/stac-proxy/main.go, internal/server/server.go): *)
(* run serves until a signal makes a goroutine of its own shut the server  *)
(* down, and main exits when run returns. http.Server is external; Serve   *)
(* returns as soon as Shutdown has begun, Shutdown when the connections    *)
(* are idle or its context is done.                                        *)
(***************************************************************************)
EXTENDS Integers

CONSTANTS
    Requests,
    ShutdownTimeout  \* shutdownTimeout, in ticks

VARIABLES
    main,       \* "building", "serving", "returning" or "exited"
    signalled,  \* ctx is done: SIGINT or SIGTERM came
    shutdown,   \* the goroutine of run: "waiting", "draining" or "done"
    waited,     \* ticks since Shutdown was called
    request,    \* request[r]: "outside", "active", "answered" or "cut"
    redisOpen   \* the shared Redis client

vars == <<main, signalled, shutdown, waited, request, redisOpen>>

Init ==
    /\ main = "building" /\ signalled = FALSE /\ shutdown = "waiting" /\ waited = 0
    /\ request = [r \in Requests |-> "outside"]
    /\ redisOpen = TRUE

\* Start binds the port and serves, or fails, and main exits with an error.
Start ==
    /\ main = "building"
    /\ \/ main' = "serving" /\ UNCHANGED redisOpen
       \/ main' = "exited" /\ redisOpen' = FALSE
    /\ UNCHANGED <<signalled, shutdown, waited, request>>

\* net/http accepts connections until Shutdown closes the listener.
Arrive(r) ==
    /\ main = "serving" /\ shutdown = "waiting" /\ request[r] = "outside"
    /\ request' = [request EXCEPT ![r] = "active"]
    /\ UNCHANGED <<main, signalled, shutdown, waited, redisOpen>>

Respond(r) ==
    /\ main # "exited" /\ request[r] = "active"
    /\ request' = [request EXCEPT ![r] = "answered"]
    /\ UNCHANGED <<main, signalled, shutdown, waited, redisOpen>>

Signal ==
    /\ main # "exited" /\ ~signalled /\ signalled' = TRUE
    /\ UNCHANGED <<main, shutdown, waited, request, redisOpen>>

\* The goroutine sees the signal and calls Shutdown.
Shutdown ==
    /\ main # "exited" /\ signalled /\ shutdown = "waiting"
    /\ shutdown' = "draining"
    /\ UNCHANGED <<main, signalled, waited, request, redisOpen>>

\* Shutdown returns.
Drained ==
    /\ main # "exited" /\ shutdown = "draining"
    /\ (\A r \in Requests : request[r] # "active") \/ waited = ShutdownTimeout
    /\ shutdown' = "done"
    /\ UNCHANGED <<main, signalled, waited, request, redisOpen>>

\* Serve returns ErrServerClosed, and run what Start returned.
ServeReturns ==
    /\ main = "serving" /\ shutdown # "waiting" /\ main' = "returning"
    /\ UNCHANGED <<signalled, shutdown, waited, request, redisOpen>>

\* The deferred calls of run, and the end of main: what runs ends with it.
Exit ==
    /\ main = "returning" /\ main' = "exited" /\ redisOpen' = FALSE
    /\ request' = [r \in Requests |-> IF request[r] = "active" THEN "cut" ELSE request[r]]
    /\ UNCHANGED <<signalled, shutdown, waited>>

Tick ==
    /\ main # "exited" /\ shutdown = "draining" /\ waited < ShutdownTimeout
    /\ waited' = waited + 1
    /\ UNCHANGED <<main, signalled, shutdown, request, redisOpen>>

Next ==
    \/ Start \/ Signal \/ Shutdown \/ Drained \/ ServeReturns \/ Exit \/ Tick
    \/ \E r \in Requests : Arrive(r) \/ Respond(r)

Spec == Init /\ [][Next]_vars

-----------------------------------------------------------------------------
\* A shutdown cuts no request off before shutdownTimeout has passed: the
\* process drains what is in flight when the signal comes (run, main).
DrainHonoured == (\E r \in Requests : request[r] = "cut") => waited = ShutdownTimeout

=============================================================================
