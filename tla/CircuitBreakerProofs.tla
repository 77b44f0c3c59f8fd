------------------------ MODULE CircuitBreakerProofs ------------------------
(***************************************************************************)
(* Proofs about CircuitBreaker for every set of callers and every          *)
(* configuration: BreakerInv is inductive, and with it the open window is  *)
(* always served to its end.                                               *)
(***************************************************************************)
EXTENDS CircuitBreaker, FiniteSetTheorems, TLAPS

\* The open period is an integer between 1 and the cap, whatever the shift
\* in open() overflows to.
LEMMA PeriodBounds ==
    ASSUME NEW k \in Nat
    PROVE  Period(k) \in 1 .. OpenMax
<1>1. ShiftLeft(OpenBase, k) \in Int
  <2>1. 2^k \in Int
    OBVIOUS
  <2>2. OpenBase * 2^k \in Int
    BY <2>1, ConfigAssumption
  <2>3. (OpenBase * 2^k) % Modulus \in Int
    BY <2>2, BoundsAssumption, ConfigAssumption
  <2> QED
    BY <2>3, BoundsAssumption DEF ShiftLeft
<1> QED
  BY <1>1, ConfigAssumption DEF Period

\* Jitter keeps a period a natural number, and never lengthens it.
LEMMA JitterBounds ==
    ASSUME NEW k \in Nat, NEW d \in FullJitter(Period(k))
    PROVE  d \in Nat /\ d =< OpenMax
  BY PeriodBounds, ConfigAssumption DEF FullJitter

\* The current requests are finitely many, so their number is a natural.
LEMMA CurrentFinite ==
    IsFiniteSet(Current) /\ Cardinality(Current) \in Nat
<1>1. Current \subseteq Requests
  BY DEF Current
<1> QED
  BY <1>1, RequestsAssumption, FS_Subset, FS_CardinalityType

\* Opening the circuit leaves no current request and settles every counter:
\* open() establishes the invariant from any well-typed state whose in-flight
\* generations are old ones.
LEMMA OpenEstablishes ==
    ASSUME BreakerInv,
           NEW k \in Nat, Open(k),
           NEW r \in Requests, flight' = [flight EXCEPT ![r] = Idle]
    PROVE  BreakerInv'
<1> USE DEF BreakerInv
<1>1. PICK d \in FullJitter(Period(k)) : wait' = d
  BY DEF Open
<1>2. wait' \in Nat
  BY <1>1, JitterBounds
<1>3. TypeOK'
  BY <1>2 DEF Open, TypeOK, States, Idle
<1>4. \A q \in Requests : flight'[q] =< gen /\ flight'[q] \in Int
  BY DEF TypeOK, CountersInStep, Idle
<1>5. OpenIsQuiet'
  BY <1>4 DEF OpenIsQuiet, Current, Open, TypeOK
<1>6. ProbesAreInFlight'
  BY DEF ProbesAreInFlight, Open
<1>7. CountersInStep'
  BY <1>4 DEF CountersInStep, Open, TypeOK
<1> QED
  BY <1>3, <1>5, <1>6, <1>7


\* When one more request becomes current, or one of them is recorded, their
\* number moves by one.
LEMMA CurrentAddRemove ==
    ASSUME NEW r \in Requests
    PROVE  /\ r \notin Current =>
                 Cardinality(Current \cup {r}) = Cardinality(Current) + 1
           /\ r \in Current =>
                 /\ Cardinality(Current \ {r}) = Cardinality(Current) - 1
                 /\ Cardinality(Current) > 0
<1>1. r \notin Current => Cardinality(Current \cup {r}) = Cardinality(Current) + 1
  BY CurrentFinite, FS_AddElement
<1>2. ASSUME r \in Current
      PROVE  Cardinality(Current \ {r}) = Cardinality(Current) - 1
  BY <1>2, CurrentFinite, FS_RemoveElement
<1>3. ASSUME r \in Current
      PROVE  Cardinality(Current) > 0
  BY <1>3, CurrentFinite, FS_EmptySet
<1> QED
  BY <1>1, <1>2, <1>3

\* The breaker starts closed with nothing in flight.
LEMMA InitEstablishes ==
    Init => BreakerInv
  BY ConfigAssumption
  DEF Init, BreakerInv, TypeOK, States, Idle, OpenIsQuiet, ProbesAreInFlight,
      CountersInStep

\* admit() preserves the invariant: the probe that turns the circuit half-open
\* is alone, and every further one takes a free slot.
LEMMA AdmitPreserves ==
    ASSUME BreakerInv, NEW r \in Requests, Admit(r)
    PROVE  BreakerInv'
<1> USE DEF BreakerInv
<1>1. TypeOK'
  BY DEF Admit, TypeOK, States, Idle
<1>2. CountersInStep'
  BY DEF Admit, TypeOK, States, Idle, CountersInStep
<1>3. OpenIsQuiet'
  BY DEF Admit, OpenIsQuiet, TypeOK, States
<1>4. r \notin Current /\ Current' = Current \cup {r}
  BY DEF Admit, Current, TypeOK, Idle
<1>5. ProbesAreInFlight'
  <2>1. CASE state = "closed"
    BY <2>1 DEF Admit, ProbesAreInFlight
  <2>2. CASE state = "open"
    <3>1. Current' = {r}
      BY <1>4, <2>2 DEF OpenIsQuiet
    <3>2. Cardinality(Current') = 1
      BY <3>1, FS_Singleton
    <3> QED
      BY <3>2, <2>2, ConfigAssumption DEF Admit, ProbesAreInFlight
  <2>3. CASE state = "half-open"
    <3>1. Cardinality(Current') = Cardinality(Current) + 1
      BY <1>4, CurrentAddRemove
    <3>2. /\ probes' = probes + 1
          /\ probes < HalfOpenProbes
      BY <2>3 DEF Admit
    <3> QED
      BY <3>1, <3>2, <2>3, ConfigAssumption DEF ProbesAreInFlight, TypeOK
  <2> QED
    BY <2>1, <2>2, <2>3 DEF TypeOK, States
<1> QED
  BY <1>1, <1>2, <1>3, <1>5

\* A stale outcome leaves the current requests, and with them everything the
\* invariant relates, as they were.
LEMMA StalePreserves ==
    ASSUME BreakerInv, NEW r \in Requests, RecordStale(r)
    PROVE  BreakerInv'
<1> USE DEF BreakerInv
<1>1. TypeOK'
  BY DEF RecordStale, TypeOK, Idle
<1>2. Current' = Current
  BY DEF RecordStale, Current, TypeOK, Idle
<1>3. OpenIsQuiet' /\ ProbesAreInFlight'
  BY <1>2 DEF RecordStale, OpenIsQuiet, ProbesAreInFlight
<1>4. CountersInStep'
  BY DEF RecordStale, CountersInStep, TypeOK, Idle
<1> QED
  BY <1>1, <1>3, <1>4

\* A cancelled call gives back exactly the slot it held.
LEMMA CanceledPreserves ==
    ASSUME BreakerInv, NEW r \in Requests, RecordCanceled(r)
    PROVE  BreakerInv'
<1> USE DEF BreakerInv
<1>1. TypeOK'
  BY DEF RecordCanceled, TypeOK, Idle
<1>2. r \in Current /\ Current' = Current \ {r}
  BY DEF RecordCanceled, Current, TypeOK, Idle
<1>3. OpenIsQuiet'
  BY <1>2 DEF RecordCanceled, OpenIsQuiet
<1>4. ProbesAreInFlight'
  <2>1. CASE state = "half-open"
    <3>1. /\ Cardinality(Current') = Cardinality(Current) - 1
          /\ Cardinality(Current) > 0
      BY <1>2, CurrentAddRemove
    <3>2. probes' = probes - 1
      BY <3>1, <2>1 DEF RecordCanceled, ProbesAreInFlight
    <3> QED
      BY <3>1, <3>2, <2>1, ConfigAssumption
      DEF ProbesAreInFlight, RecordCanceled, TypeOK
  <2>2. CASE state # "half-open"
    BY <2>2 DEF RecordCanceled, ProbesAreInFlight
  <2> QED
    BY <2>1, <2>2
<1>5. CountersInStep'
  BY DEF RecordCanceled, CountersInStep, TypeOK, Idle
<1> QED
  BY <1>1, <1>3, <1>4, <1>5

\* A failure opens the circuit or, below the threshold, counts.
LEMMA FailurePreserves ==
    ASSUME BreakerInv, NEW r \in Requests, RecordFailure(r)
    PROVE  BreakerInv'
<1> USE DEF BreakerInv
<1>1. flight' = [flight EXCEPT ![r] = Idle]
  BY DEF RecordFailure
<1>2. CASE Open(0)
  BY <1>1, <1>2, OpenEstablishes
<1>3. CASE Open(reopens + 1)
  <2>1. reopens + 1 \in Nat
    BY DEF TypeOK
  <2> QED
    BY <1>1, <1>3, <2>1, OpenEstablishes
<1>4. CASE /\ ~ThresholdReached
           /\ state # "half-open"
           /\ consecFails' = IF state = "closed" THEN consecFails + 1 ELSE consecFails
           /\ UNCHANGED <<state, reopens, wait, probes, gen>>
  <2>1. state = "closed"
    BY <1>4 DEF RecordFailure, OpenIsQuiet, Current, TypeOK, States
  <2>2. TypeOK'
    BY <1>1, <1>4 DEF TypeOK, Idle
  <2>3. CountersInStep'
    BY <1>1, <1>4, <2>1, ConfigAssumption
    DEF ThresholdReached, CountersInStep, TypeOK, Idle
  <2> QED
    BY <1>4, <2>1, <2>2, <2>3 DEF OpenIsQuiet, ProbesAreInFlight
<1> QED
  BY <1>2, <1>3, <1>4 DEF RecordFailure

\* A success closes the circuit from any state that can see one.
LEMMA SuccessPreserves ==
    ASSUME BreakerInv, NEW r \in Requests, RecordSuccess(r)
    PROVE  BreakerInv'
<1> USE DEF BreakerInv
<1>1. state # "open"
  BY DEF RecordSuccess, OpenIsQuiet, Current
<1> QED
  BY <1>1, ConfigAssumption
  DEF RecordSuccess, TypeOK, States, Idle, OpenIsQuiet, ProbesAreInFlight,
      CountersInStep

\* The clock only shortens an open window.
LEMMA TickPreserves ==
    ASSUME BreakerInv, Tick
    PROVE  BreakerInv'
  BY DEF BreakerInv, Tick, TypeOK, OpenIsQuiet, ProbesAreInFlight, Current,
         CountersInStep

\* BreakerInv is inductive.
LEMMA NextPreserves ==
    BreakerInv /\ [Next]_vars => BreakerInv'
<1> SUFFICES ASSUME BreakerInv, [Next]_vars
             PROVE  BreakerInv'
  OBVIOUS
<1>1. CASE \E r \in Requests : Admit(r)
  BY <1>1, AdmitPreserves
<1>2. CASE \E r \in Requests : RecordStale(r)
  BY <1>2, StalePreserves
<1>3. CASE \E r \in Requests : RecordCanceled(r)
  BY <1>3, CanceledPreserves
<1>4. CASE \E r \in Requests : RecordFailure(r)
  BY <1>4, FailurePreserves
<1>5. CASE \E r \in Requests : RecordSuccess(r)
  BY <1>5, SuccessPreserves
<1>6. CASE Tick
  BY <1>6, TickPreserves
<1>7. CASE UNCHANGED vars
  BY <1>7
  DEF vars, BreakerInv, TypeOK, OpenIsQuiet, ProbesAreInFlight, Current,
      CountersInStep
<1> QED
  BY <1>1, <1>2, <1>3, <1>4, <1>5, <1>6, <1>7 DEF Next

(***************************************************************************)
(* BreakerTransport keeps BreakerInv: no outcome can reach an open circuit *)
(* (the case record() calls impossible), and b.probes always counts the    *)
(* half-open requests that are in flight, at most HalfOpenProbes of them.  *)
(***************************************************************************)
THEOREM BreakerInvariant == Spec => []BreakerInv
  BY InitEstablishes, NextPreserves, PTL DEF Spec

\* OpenIsQuiet, for every configuration: see record(), case stateOpen.
THEOREM OpenCircuitIsQuiet == Spec => []OpenIsQuiet
<1>1. BreakerInv => OpenIsQuiet
  BY DEF BreakerInv
<1> QED
  BY <1>1, BreakerInvariant, PTL

\* ProbesAreInFlight, for every configuration: admit() and record() agree on
\* the number of half-open slots in use.
THEOREM ProbeSlotsAreExact == Spec => []ProbesAreInFlight
<1>1. BreakerInv => ProbesAreInFlight
  BY DEF BreakerInv
<1> QED
  BY <1>1, BreakerInvariant, PTL

\* OpenWindowServed, for every configuration: admit() refuses and record()
\* ignores everything until openUntil.
THEOREM OpenWindowIsServed == Spec => OpenWindowServed
<1>1. BreakerInv /\ [Next]_vars => [OpenWindowStep]_vars
  <2> SUFFICES ASSUME BreakerInv, Next, state = "open", wait > 0
               PROVE  OpenWindowStep
    BY DEF OpenWindowStep
  <2> USE DEF OpenWindowStep
  <2>1. Current = {}
    BY DEF BreakerInv, OpenIsQuiet
  <2>2. ASSUME NEW r \in Requests, RecordStale(r)
        PROVE  OpenWindowStep
    BY <2>2 DEF RecordStale, BreakerInv, TypeOK
  <2>3. CASE Tick
    BY <2>3 DEF Tick, BreakerInv, TypeOK
  <2>4. ASSUME NEW r \in Requests
        PROVE  ~Admit(r) /\ flight[r] # gen
    BY <2>1 DEF Admit, Current, BreakerInv, TypeOK
  <2> QED
    BY <2>2, <2>3, <2>4 DEF Next, RecordCanceled, RecordFailure, RecordSuccess
<1> QED
  BY <1>1, BreakerInvariant, PTL DEF Spec, OpenWindowServed

=============================================================================
