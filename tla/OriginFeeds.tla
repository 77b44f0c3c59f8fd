---------------------------- MODULE OriginFeeds ----------------------------
(***************************************************************************)
(* What a paginated search takes its origins to be: lists of items that    *)
(* are read from the front, page by page, each item once, and have ended   *)
(* only when all of them have been read. An origin whose way of paging the *)
(* proxy was not told to understand may end early, and never repeats.      *)
(***************************************************************************)
EXTENDS Integers, Sequences

CONSTANT Origins

VARIABLES
    total,     \* total[o]: how many items the origin holds for the search
    readable,  \* readable[o]: the configured adapter reads its convention
    received,  \* received[o]: the items read in this session, in order
    ended      \* ended[o]: no page is left to ask for

vars == <<total, readable, received, ended>>

Init == \A o \in Origins : received[o] = <<>> /\ ~ended[o]

\* The next n items of an origin, and perhaps its end.
Page(o) ==
    /\ ~ended[o]
    /\ \E n \in 0 .. total[o] - Len(received[o]) :
           received'[o] = received[o] \o [i \in 1 .. n |-> Len(received[o]) + i]
    /\ ended'[o] => Len(received'[o]) = total[o] \/ ~readable[o]

\* Pages are fetched from several origins at once.
Fetch ==
    /\ \A o \in Origins : Page(o) \/ (received'[o] = received[o] /\ ended'[o] = ended[o])
    /\ UNCHANGED <<total, readable>>

\* A client starts a search anew.
Restart == \A o \in Origins : received'[o] = <<>> /\ ~ended'[o]

Next == Fetch \/ Restart

Spec == Init /\ [][Next]_vars

=============================================================================
