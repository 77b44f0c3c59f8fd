---------------------------- MODULE TokenBucket ----------------------------
(***************************************************************************)
(* What a rate limiter promises: the requests it lets pass fit a bucket    *)
(* that holds Capacity, gains one unit with every unit of time, and pays   *)
(* Cost for each of them. Only the upper bound is promised here: the       *)
(* bucket may lose units and a request may be refused at any time.         *)
(***************************************************************************)
EXTENDS Integers

CONSTANTS Requests, Keys, Capacity, Cost

VARIABLES credit, key, status

vars == <<credit, key, status>>

Init ==
    /\ credit = [k \in Keys |-> Capacity]
    /\ key \in [Requests -> Keys]
    /\ status = [r \in Requests |-> "idle"]

Ask(r) ==
    /\ status[r] = "idle"
    /\ status' = [status EXCEPT ![r] = "asked"]
    /\ \E k \in Keys : key' = [key EXCEPT ![r] = k]
    /\ UNCHANGED credit

Pay(k, amount) ==
    /\ credit[k] >= amount
    /\ \E c \in 0 .. credit[k] - amount : credit' = [credit EXCEPT ![k] = c]

Admit(r) ==
    /\ status[r] = "asked"
    /\ status' = [status EXCEPT ![r] = "admitted"]
    /\ Pay(key[r], Cost)
    /\ UNCHANGED key

Refuse(r) ==
    /\ status[r] = "asked"
    /\ status' = [status EXCEPT ![r] = "refused"]
    /\ Pay(key[r], 0)
    /\ UNCHANGED key

Leave(r) ==
    /\ status[r] \in {"admitted", "refused"}
    /\ status' = [status EXCEPT ![r] = "idle"]
    /\ \E k \in Keys : key' = [key EXCEPT ![r] = k]
    /\ UNCHANGED credit

Refill ==
    /\ credit' = [k \in Keys |-> IF credit[k] < Capacity THEN credit[k] + 1 ELSE Capacity]
    /\ UNCHANGED <<key, status>>

Next == Refill \/ \E r \in Requests : Ask(r) \/ Admit(r) \/ Refuse(r) \/ Leave(r)

Spec == Init /\ [][Next]_vars

=============================================================================
