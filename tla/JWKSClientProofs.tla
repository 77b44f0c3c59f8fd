-------------------------- MODULE JWKSClientProofs --------------------------
(***************************************************************************)
(* JWKSInv is inductive, for any number of callers and kids and any        *)
(* configuration; the safety properties of JWKSClient follow.              *)
(***************************************************************************)
EXTENDS JWKSClient, TLAPS

USE JWKSConfigAssumption

\* NewJWKSClient establishes the invariant.
LEMMA JWKSInvInit == Init => JWKSInv
<1> SUFFICES ASSUME Init PROVE JWKSInv
  OBVIOUS
<1>1. TypeOK
  <2>1. flight \in [phase : {"none", "asked", "answered"}, age : 0 .. RefreshTimeout,
                    answer : SUBSET Kids]
    BY DEF Init, NoFlight
  <2>2. pc \in [Actors -> Labels \cup {"done"}] /\ pc[Bg] = "idle" /\ bgRefresh = FALSE
    BY DEF Init, Actors, Labels
  <2>3. \A c \in Callers : pc[c] = "idle" /\ kid[c] = NoKid
    BY DEF Init, Actors
  <2>4. bgRefresh = (pc[Bg] # "idle")
    BY <2>2, Zenon
  <2>5. negLeft \in [Kids -> 0 .. NegativeCacheTTL] /\ age \in [Kids -> 0 .. MaxAge]
        /\ ownFloor \in [Callers -> 0 .. MinRefreshInterval]
    BY DEF Init, MaxAge
  <2>6. /\ keys \subseteq Kids /\ published \subseteq Kids
        /\ softLeft \in -1 .. TTL /\ hardLeft \in -1 .. HardTTL
        /\ floorLeft \in 0 .. MinRefreshInterval
        /\ kid \in [Callers -> Kids \cup {NoKid}]
    BY DEF Init
  <2> QED
    BY <2>1, <2>2, <2>3, <2>4, <2>5, <2>6, Zenon DEF TypeOK
<1>2. SerialBurstsThrottled
  BY DEF Init, SerialBurstsThrottled
<1> QED
  BY <1>1, <1>2 DEF JWKSInv, Init, NoFlight

\* Steps of calls leave the cache, the clock, the fetch and the history alone;
\* only pc, kid and bgRefresh are left to check.
CallVars == <<keys, softLeft, hardLeft, floorLeft, flight, published, history>>

LEMMA CallPreserves ==
    ASSUME JWKSInv, UNCHANGED CallVars, TypeOK', SerialBurstsThrottled'
    PROVE  JWKSInv'
BY DEF JWKSInv, CallVars, history, GoneFor

\* Every step of a call before and after the fetch.
LEMMA CallStepPreserves ==
    ASSUME JWKSInv, NEW c \in Callers, CallStep(c) \/ \E k \in Kids : Lookup(c, k)
    PROVE  JWKSInv'
<1> USE DEF JWKSInv
<1>0. /\ c \in Actors /\ c # Bg /\ Bg \in Actors
      /\ pc \in [Actors -> Labels \cup {"done"}] /\ kid \in [Callers -> Kids \cup {NoKid}]
      /\ \A d \in Callers : pc[d] = "idle" <=> kid[d] = NoKid
  BY DEF Actors, TypeOK
<1>1. ASSUME NEW label \in Labels, pc[c] # "idle", label = "enter" => floorLeft = 0,
             pc' = [pc EXCEPT ![c] = label],
             kid' = IF label = "idle" THEN [kid EXCEPT ![c] = NoKid] ELSE kid,
             UNCHANGED <<CallVars, bgRefresh>>, negLeft' \in [Kids -> 0 .. NegativeCacheTTL]
      PROVE  JWKSInv'
  <2>1. /\ pc' \in [Actors -> Labels \cup {"done"}]
        /\ kid' \in [Callers -> Kids \cup {NoKid}]
        /\ \A d \in Callers : pc'[d] = "idle" <=> kid'[d] = NoKid
        /\ pc'[Bg] = pc[Bg]
        /\ \A d \in Callers : pc'[d] = IF d = c THEN label ELSE pc[d]
    <3>1. /\ pc' \in [Actors -> Labels \cup {"done"}] /\ pc'[Bg] = pc[Bg]
          /\ \A d \in Callers : pc'[d] = IF d = c THEN label ELSE pc[d]
      BY <1>0, <1>1 DEF Actors
    <3>2. /\ kid' \in [Callers -> Kids \cup {NoKid}]
          /\ \A d \in Callers : kid'[d] = IF d = c /\ label = "idle" THEN NoKid ELSE kid[d]
      BY <1>0, <1>1
    <3> QED
      BY <1>0, <1>1, <3>1, <3>2
  <2>2. TypeOK'
    BY <1>1, <2>1, Zenon DEF TypeOK, CallVars, history
  <2>3. ownFloor[c] \in Nat /\ ownFloor[c] =< floorLeft /\ ownFloor' = ownFloor
    BY <1>1 DEF TypeOK, CallVars, history
  <2>4. SerialBurstsThrottled'
    BY <1>1, <2>1, <2>3 DEF SerialBurstsThrottled
  <2> QED
    BY <1>1, <2>2, <2>4, CallPreserves DEF CallVars
<1>2. negLeft \in [Kids -> 0 .. NegativeCacheTTL] /\ floorLeft \in 0 .. MinRefreshInterval
  BY DEF TypeOK
<1>3. {"idle", "enter", "absent"} \subseteq Labels
  BY DEF Labels
<1>4. ASSUME Refuse(c) PROVE JWKSInv'
  <2>1. UNCHANGED <<CallVars, bgRefresh, negLeft>> /\ pc[c] # "idle"
        /\ pc' = [pc EXCEPT ![c] = "idle"] /\ kid' = [kid EXCEPT ![c] = NoKid]
    BY <1>4 DEF Refuse, Exit, Goto, CallVars, clock
  <2> QED
    BY <1>1, <1>2, <1>3, <2>1
<1>5. ASSUME PassFloor(c) PROVE JWKSInv'
  <2>1. UNCHANGED <<CallVars, bgRefresh, negLeft, kid>> /\ pc[c] # "idle"
        /\ pc' = [pc EXCEPT ![c] = "enter"]
    BY <1>5 DEF PassFloor, Goto, CallVars, clock
  <2>2. floorLeft = 0
    BY <1>2, <1>5 DEF PassFloor, shouldShortCircuit
  <2> QED
    BY <1>1, <1>2, <1>3, <2>1, <2>2
<1>6. ASSUME LookupAgain(c) PROVE JWKSInv'
  <2>1. UNCHANGED <<CallVars, bgRefresh, negLeft>> /\ pc[c] # "idle"
    BY <1>6 DEF LookupAgain, CallVars, clock
  <2>2. CASE Hit(kid[c])
    <3>1. pc' = [pc EXCEPT ![c] = "idle"] /\ kid' = [kid EXCEPT ![c] = NoKid]
      BY <1>6, <2>2 DEF LookupAgain, Exit, Goto
    <3> QED
      BY <1>1, <1>2, <1>3, <2>1, <3>1
  <2>3. CASE ~Hit(kid[c])
    <3>1. pc' = [pc EXCEPT ![c] = "absent"] /\ UNCHANGED kid
      BY <1>6, <2>3 DEF LookupAgain, Goto
    <3> QED
      BY <1>1, <1>2, <1>3, <2>1, <3>1
  <2> QED
    BY <2>2, <2>3
<1>7. ASSUME markNegative(c) PROVE JWKSInv'
  <2>1. UNCHANGED <<CallVars, bgRefresh>> /\ pc[c] # "idle"
        /\ pc' = [pc EXCEPT ![c] = "idle"] /\ kid' = [kid EXCEPT ![c] = NoKid]
    BY <1>7 DEF markNegative, Exit, Goto, CallVars
  <2>2. negLeft' \in [Kids -> 0 .. NegativeCacheTTL]
    <3>1. negLeft' = [negLeft EXCEPT ![kid[c]] = NegativeCacheTTL]
      BY <1>7 DEF markNegative
    <3>2. NegativeCacheTTL \in 0 .. NegativeCacheTTL
      OBVIOUS
    <3> HIDE DEF JWKSInv
    <3> QED
      BY <1>2, <3>1, <3>2, Zenon
  <2> QED
    BY <1>1, <1>3, <2>1, <2>2
<1>8. ASSUME Kick(c) PROVE JWKSInv'
  <2>1. UNCHANGED <<CallVars, negLeft>> /\ bgRefresh' = TRUE /\ pc[c] = "stale"
        /\ kid' = [kid EXCEPT ![c] = NoKid]
        /\ pc' = [pc EXCEPT ![c] = "idle", ![Bg] = IF bgRefresh THEN pc[Bg] ELSE "enter"]
    BY <1>0, <1>8 DEF Kick, CallVars, clock
  <2>2. pc[Bg] \in {"idle", "enter", "wait", "done"} /\ (bgRefresh => pc[Bg] # "idle")
    BY DEF TypeOK
  <2>3. /\ pc'[Bg] \in {"enter", "wait", "done"}
        /\ pc' \in [Actors -> Labels \cup {"done"}]
        /\ \A d \in Callers : pc'[d] = IF d = c THEN "idle" ELSE pc[d]
    BY <1>0, <2>1, <2>2 DEF Labels, Actors
  <2>4. /\ kid' \in [Callers -> Kids \cup {NoKid}]
        /\ \A d \in Callers : kid'[d] = IF d = c THEN NoKid ELSE kid[d]
    BY <1>0, <2>1
  <2>5. \A d \in Callers : pc'[d] = "idle" <=> kid'[d] = NoKid
    BY <1>0, <2>3, <2>4
  <2>6. pc'[Bg] \in {"idle", "enter", "wait", "done"} /\ bgRefresh' = (pc'[Bg] # "idle")
    BY <2>1, <2>3
  <2>7. TypeOK'
    BY <2>1, <2>3, <2>4, <2>5, <2>6, Zenon DEF TypeOK, CallVars, history
  <2>8. SerialBurstsThrottled'
    <3>1. ownFloor' = ownFloor
      BY <2>1 DEF CallVars, history
    <3> QED
      BY <2>3, <3>1 DEF SerialBurstsThrottled
  <2> QED
    BY <2>1, <2>7, <2>8, CallPreserves
<1>9. ASSUME NEW k \in Kids, Lookup(c, k) PROVE JWKSInv'
  <2> DEFINE label == IF Hit(k) THEN "stale" ELSE "missed"
  <2>1. UNCHANGED <<CallVars, bgRefresh, negLeft>>
        /\ kid' = [kid EXCEPT ![c] = k] /\ pc' = [pc EXCEPT ![c] = label]
    BY <1>9 DEF Lookup, Goto, CallVars, clock
  <2>2. label \in Labels /\ label \notin {"idle", "enter"} /\ k # NoKid
    BY DEF Labels
  <2> HIDE DEF label
  <2>3. /\ pc' \in [Actors -> Labels \cup {"done"}] /\ pc'[Bg] = pc[Bg]
        /\ \A d \in Callers : pc'[d] = IF d = c THEN label ELSE pc[d]
    BY <1>0, <2>1, <2>2 DEF Actors
  <2>4. /\ kid' \in [Callers -> Kids \cup {NoKid}]
        /\ \A d \in Callers : kid'[d] = IF d = c THEN k ELSE kid[d]
    BY <1>0, <2>1
  <2>5. \A d \in Callers : pc'[d] = "idle" <=> kid'[d] = NoKid
    BY <1>0, <2>2, <2>3, <2>4
  <2>6. TypeOK'
    BY <2>1, <2>3, <2>4, <2>5, Zenon DEF TypeOK, CallVars, history
  <2>7. SerialBurstsThrottled'
    BY <2>1, <2>2, <2>3 DEF SerialBurstsThrottled, CallVars, history
  <2> QED
    BY <2>1, <2>6, <2>7, CallPreserves
<1> QED
  BY <1>4, <1>5, <1>6, <1>7, <1>8, <1>9 DEF CallStep

\* An actor enters group.Do, behind a fetch in progress or as the one to start it.
LEMMA EnterPreserves ==
    ASSUME JWKSInv, NEW a \in Actors, Join(a) \/ Lead(a)
    PROVE  JWKSInv'
<1> USE DEF JWKSInv
<1>0. /\ pc \in [Actors -> Labels \cup {"done"}] /\ kid \in [Callers -> Kids \cup {NoKid}]
      /\ \A d \in Callers : pc[d] = "idle" <=> kid[d] = NoKid
      /\ pc[Bg] \in {"idle", "enter", "wait", "done"} /\ bgRefresh = (pc[Bg] # "idle")
      /\ Bg \in Actors /\ \A d \in Callers : d \in Actors
  BY DEF Actors, TypeOK
<1>1. pc[a] = "enter" /\ pc' = [pc EXCEPT ![a] = "wait"]
      /\ UNCHANGED <<keys, softLeft, hardLeft, negLeft, bgRefresh, kid, published, age>>
  BY DEF Join, Lead, Goto, clock, history
<1>2. /\ pc' \in [Actors -> Labels \cup {"done"}]
      /\ \A b \in Actors : pc'[b] = IF b = a THEN "wait" ELSE pc[b]
  BY <1>0, <1>1 DEF Labels
<1>3. /\ \A d \in Callers : pc'[d] = "idle" <=> kid'[d] = NoKid
      /\ \A d \in Callers : pc'[d] = "enter" => pc[d] = "enter"
      /\ pc'[Bg] \in {"idle", "enter", "wait", "done"}
      /\ pc'[Bg] # "idle" <=> pc[Bg] # "idle"
  BY <1>0, <1>1, <1>2
<1>4. bgRefresh' = (pc'[Bg] # "idle")
  BY <1>0, <1>1, <1>3, Zenon
<1>5. ASSUME Join(a) PROVE JWKSInv'
  <2>1. UNCHANGED <<floorLeft, flight, ownFloor>>
    BY <1>5 DEF Join, clock, history
  <2>2. TypeOK'
    BY <1>1, <1>2, <1>3, <1>4, <2>1, Zenon DEF TypeOK
  <2>3. SerialBurstsThrottled'
    BY <1>3, <2>1 DEF SerialBurstsThrottled
  <2> QED
    BY <1>1, <2>1, <2>2, <2>3, CallPreserves DEF CallVars, history
<1>6. ASSUME Lead(a) PROVE JWKSInv'
  <2>1. /\ floorLeft' = MinRefreshInterval
        /\ flight' = [phase |-> "asked", age |-> 0, answer |-> {}]
        /\ ownFloor' = [c \in Callers |-> IF c = a THEN MinRefreshInterval ELSE ownFloor[c]]
    BY <1>6 DEF Lead, RecordAttempt, NoFlight
  <2>2. ownFloor \in [Callers -> 0 .. MinRefreshInterval]
    BY DEF TypeOK
  <2>3. ownFloor' \in [Callers -> 0 .. MinRefreshInterval]
        /\ floorLeft' \in 0 .. MinRefreshInterval
        /\ \A c \in Callers : ownFloor'[c] =< floorLeft'
    BY <2>1, <2>2
  <2>4. flight' \in [phase : {"none", "asked", "answered"}, age : 0 .. RefreshTimeout,
                     answer : SUBSET Kids]
    BY <2>1
  <2>5. TypeOK'
    BY <1>1, <1>2, <1>3, <1>4, <2>3, <2>4, Zenon DEF TypeOK
  <2>6. SerialBurstsThrottled'
    <3>1. ASSUME NEW c \in Callers, pc'[c] = "enter" PROVE ownFloor'[c] = 0
      <4>1. c # a /\ pc[c] = "enter"
        BY <1>0, <1>2, <3>1
      <4> QED
        BY <2>1, <4>1 DEF SerialBurstsThrottled
    <3> QED
      BY <3>1 DEF SerialBurstsThrottled
  <2>7. flight'.phase = "asked"
    BY <2>1
  <2>8. hardLeft' >= 0 =>
           \A k \in keys' : GoneFor(k)' + hardLeft' =< HardTTL + RefreshTimeout
    BY <1>1 DEF GoneFor
  <2> QED
    BY <2>3, <2>5, <2>6, <2>7, <2>8
<1> QED
  BY <1>5, <1>6

\* The issuer's document is as old as the fetch at most.
LEMMA AnswerPreserves == ASSUME JWKSInv, Answer PROVE JWKSInv'
<1> USE DEF JWKSInv
<1>1. UNCHANGED <<keys, softLeft, hardLeft, negLeft, floorLeft, bgRefresh, pc, kid,
                  published, age, ownFloor>>
      /\ flight' = [flight EXCEPT !.phase = "answered", !.answer = published]
  BY DEF Answer, clock, history
<1>2. /\ flight \in [phase : {"none", "asked", "answered"}, age : 0 .. RefreshTimeout,
                      answer : SUBSET Kids]
      /\ published \subseteq Kids
  BY DEF TypeOK
<1>3. /\ flight' \in [phase : {"none", "asked", "answered"}, age : 0 .. RefreshTimeout,
                       answer : SUBSET Kids]
      /\ flight'.phase = "answered" /\ flight'.answer = published
      /\ flight'.age = flight.age
  BY <1>1, <1>2
<1>4. TypeOK'
  BY <1>1, <1>3, Zenon DEF TypeOK
<1>5. SerialBurstsThrottled'
  BY <1>1 DEF SerialBurstsThrottled
<1>6. \A k \in Kids : k \in flight'.answer => GoneFor(k)' =< flight'.age
  BY <1>1, <1>2, <1>3 DEF GoneFor
<1>7. hardLeft' >= 0 => \A k \in keys' : GoneFor(k)' + hardLeft' =< HardTTL + RefreshTimeout
  BY <1>1 DEF GoneFor
<1> QED
  BY <1>1, <1>3, <1>4, <1>5, <1>6, <1>7

\* The fetch ends: those who wait go on, and nobody comes to `enter'.
LEMMA ReturnMoves ==
    ASSUME TypeOK, NEW label \in {"refreshed", "idle"}, Return(label), UNCHANGED bgRefresh
    PROVE  /\ pc' \in [Actors -> Labels \cup {"done"}]
           /\ kid' \in [Callers -> Kids \cup {NoKid}]
           /\ \A c \in Callers : pc'[c] = "idle" <=> kid'[c] = NoKid
           /\ pc'[Bg] \in {"idle", "enter", "wait", "done"}
           /\ bgRefresh' = (pc'[Bg] # "idle")
           /\ \A c \in Callers : pc'[c] = "enter" => pc[c] = "enter"
<1>0. /\ pc \in [Actors -> Labels \cup {"done"}] /\ kid \in [Callers -> Kids \cup {NoKid}]
      /\ \A c \in Callers : pc[c] = "idle" <=> kid[c] = NoKid
      /\ pc[Bg] \in {"idle", "enter", "wait", "done"} /\ bgRefresh = (pc[Bg] # "idle")
      /\ Bg \in Actors /\ \A c \in Callers : c \in Actors /\ c # Bg
  BY DEF Actors, TypeOK
<1>1. \A a \in Actors : pc'[a] = IF pc[a] # "wait" THEN pc[a]
                                ELSE IF a = Bg THEN "done" ELSE label
  BY DEF Return
<1>2. \A c \in Callers : kid'[c] = IF pc[c] = "wait" /\ label = "idle" THEN NoKid ELSE kid[c]
  BY DEF Return
<1>3. pc' \in [Actors -> Labels \cup {"done"}] /\ kid' \in [Callers -> Kids \cup {NoKid}]
  BY <1>0 DEF Return, Labels
<1>4. /\ pc'[Bg] \in {"idle", "enter", "wait", "done"}
      /\ pc'[Bg] # "idle" <=> pc[Bg] # "idle"
  BY <1>0, <1>1
<1>5. bgRefresh' = (pc'[Bg] # "idle")
  BY <1>0, <1>4, Zenon
<1>6. ASSUME NEW c \in Callers
      PROVE  (pc'[c] = "idle" <=> kid'[c] = NoKid) /\ (pc'[c] = "enter" => pc[c] = "enter")
  BY <1>0, <1>1, <1>2
<1> QED
  BY <1>3, <1>4, <1>5, <1>6

\* The new document is younger than RefreshTimeout when its HardTTL begins.
LEMMA InstallPreserves == ASSUME JWKSInv, Install PROVE JWKSInv'
<1> USE DEF JWKSInv
<1>1. /\ flight.phase = "answered" /\ keys' = flight.answer
      /\ softLeft' = TTL /\ hardLeft' = HardTTL /\ negLeft' = [k \in Kids |-> 0]
      /\ flight' = NoFlight /\ Return("refreshed")
      /\ UNCHANGED <<floorLeft, bgRefresh, published, age, ownFloor>>
  BY DEF Install, history
<1>2. /\ flight.answer \subseteq Kids /\ flight.age \in 0 .. RefreshTimeout
      /\ age \in [Kids -> 0 .. MaxAge]
  BY DEF TypeOK
<1>3. /\ pc' \in [Actors -> Labels \cup {"done"}]
      /\ kid' \in [Callers -> Kids \cup {NoKid}]
      /\ \A c \in Callers : pc'[c] = "idle" <=> kid'[c] = NoKid
      /\ pc'[Bg] \in {"idle", "enter", "wait", "done"}
      /\ bgRefresh' = (pc'[Bg] # "idle")
      /\ \A c \in Callers : pc'[c] = "enter" => pc[c] = "enter"
  BY <1>1, ReturnMoves
<1>4. /\ softLeft' \in -1 .. TTL /\ hardLeft' \in -1 .. HardTTL /\ keys' \subseteq Kids
      /\ negLeft' \in [Kids -> 0 .. NegativeCacheTTL]
      /\ flight' \in [phase : {"none", "asked", "answered"}, age : 0 .. RefreshTimeout,
                       answer : SUBSET Kids]
      /\ flight'.phase = "none"
  BY <1>1, <1>2 DEF NoFlight
<1>5. TypeOK'
  BY <1>1, <1>3, <1>4, Zenon DEF TypeOK
<1>6. SerialBurstsThrottled'
  BY <1>1, <1>3 DEF SerialBurstsThrottled
<1>7. \A k \in keys' : GoneFor(k)' + hardLeft' =< HardTTL + RefreshTimeout
  <2> SUFFICES ASSUME NEW k \in flight.answer
               PROVE  GoneFor(k)' + HardTTL =< HardTTL + RefreshTimeout
    BY <1>1
  <2>1. GoneFor(k)' = GoneFor(k) /\ GoneFor(k) =< flight.age /\ GoneFor(k) \in Nat
    BY <1>1, <1>2 DEF GoneFor, MaxAge
  <2> QED
    BY <1>2, <2>1
<1> QED
  BY <1>1, <1>4, <1>5, <1>6, <1>7 DEF NoFlight

\* A failed fetch leaves the cache as it was.
LEMMA FailPreserves == ASSUME JWKSInv, Fail PROVE JWKSInv'
<1> USE DEF JWKSInv
<1>1. /\ flight' = NoFlight /\ Return("idle")
      /\ UNCHANGED <<keys, softLeft, hardLeft, negLeft, floorLeft, bgRefresh, published, age,
                     ownFloor>>
  BY DEF Fail, clock, history
<1>2. /\ pc' \in [Actors -> Labels \cup {"done"}]
      /\ kid' \in [Callers -> Kids \cup {NoKid}]
      /\ \A c \in Callers : pc'[c] = "idle" <=> kid'[c] = NoKid
      /\ pc'[Bg] \in {"idle", "enter", "wait", "done"}
      /\ bgRefresh' = (pc'[Bg] # "idle")
      /\ \A c \in Callers : pc'[c] = "enter" => pc[c] = "enter"
  BY <1>1, ReturnMoves
<1>3. /\ flight' \in [phase : {"none", "asked", "answered"}, age : 0 .. RefreshTimeout,
                       answer : SUBSET Kids]
      /\ flight'.phase = "none"
  BY <1>1 DEF NoFlight
<1>4. TypeOK'
  BY <1>1, <1>2, <1>3, Zenon DEF TypeOK
<1>5. SerialBurstsThrottled'
  BY <1>1, <1>2 DEF SerialBurstsThrottled
<1>6. hardLeft' >= 0 => \A k \in keys' : GoneFor(k)' + hardLeft' =< HardTTL + RefreshTimeout
  BY <1>1 DEF GoneFor
<1> QED
  BY <1>1, <1>3, <1>4, <1>5, <1>6 DEF NoFlight

\* The background goroutine's flag goes down with it.
LEMMA FinishPreserves == ASSUME JWKSInv, Finish PROVE JWKSInv'
<1> USE DEF JWKSInv
<1>1. /\ UNCHANGED CallVars /\ UNCHANGED <<negLeft, kid>> /\ bgRefresh' = FALSE
      /\ pc' = [pc EXCEPT ![Bg] = "idle"]
  BY DEF Finish, Goto, CallVars, clock
<1>2. /\ pc \in [Actors -> Labels \cup {"done"}] /\ Bg \in Actors
      /\ \A c \in Callers : c \in Actors /\ c # Bg
  BY DEF TypeOK, Actors
<1>3. /\ pc' \in [Actors -> Labels \cup {"done"}] /\ pc'[Bg] = "idle"
      /\ \A c \in Callers : pc'[c] = pc[c]
  BY <1>1, <1>2 DEF Labels
<1>4. bgRefresh' = (pc'[Bg] # "idle") /\ pc'[Bg] \in {"idle", "enter", "wait", "done"}
  BY <1>1, <1>3, Zenon
<1>5. TypeOK'
  BY <1>1, <1>3, <1>4, Zenon DEF TypeOK, CallVars, history
<1>6. SerialBurstsThrottled'
  BY <1>1, <1>3 DEF SerialBurstsThrottled, CallVars, history
<1> QED
  BY <1>1, <1>5, <1>6, CallPreserves

\* A kid that has just been published or withdrawn is not behind any document.
LEMMA RotatePreserves ==
    ASSUME JWKSInv, NEW r \in Kids, Rotate(r)
    PROVE  JWKSInv'
<1> USE DEF JWKSInv
<1>1. /\ UNCHANGED <<keys, softLeft, hardLeft, negLeft, floorLeft, bgRefresh, flight, pc, kid,
                     ownFloor>>
      /\ age' = [age EXCEPT ![r] = 0]
      /\ published' = IF r \in published THEN published \ {r} ELSE published \cup {r}
  BY DEF Rotate, clock
<1>2. /\ age \in [Kids -> 0 .. MaxAge] /\ published \subseteq Kids /\ keys \subseteq Kids
      /\ hardLeft \in -1 .. HardTTL /\ flight.age \in 0 .. RefreshTimeout /\ MaxAge \in Nat
  BY DEF TypeOK, MaxAge
<1>3. age' \in [Kids -> 0 .. MaxAge] /\ published' \subseteq Kids
  BY <1>1, <1>2
<1>4. ASSUME NEW k \in Kids PROVE GoneFor(k)' = 0 \/ GoneFor(k)' = GoneFor(k)
  BY <1>1, <1>2 DEF GoneFor
<1>5. TypeOK'
  BY <1>1, <1>3, Zenon DEF TypeOK
<1>6. SerialBurstsThrottled'
  BY <1>1 DEF SerialBurstsThrottled
<1>7. flight'.phase = "answered" => \A k \in Kids :
          /\ k \in flight'.answer => GoneFor(k)' =< flight'.age
          /\ k \in published' \ flight'.answer => age'[k] =< flight'.age
  <2> SUFFICES ASSUME flight.phase = "answered", NEW k \in Kids
               PROVE  /\ k \in flight.answer => GoneFor(k)' =< flight.age
                      /\ k \in published' \ flight.answer => age'[k] =< flight.age
    BY <1>1
  <2>1. k \in flight.answer => GoneFor(k)' =< flight.age
    BY <1>2, <1>4
  <2>2. age'[k] = 0 \/ (age'[k] = age[k] /\ (k \in published' => k \in published))
    BY <1>1, <1>2
  <2> QED
    BY <1>2, <2>1, <2>2
<1>8. hardLeft' >= 0 => \A k \in keys' : GoneFor(k)' + hardLeft' =< HardTTL + RefreshTimeout
  BY <1>1, <1>2, <1>4
<1> QED
  BY <1>1, <1>5, <1>6, <1>7, <1>8

\* While time passes, a withdrawn key's absence grows as HardTTL runs down.
LEMMA TickPreserves == ASSUME JWKSInv, Tick PROVE JWKSInv'
<1> USE DEF JWKSInv
<1>0. /\ softLeft \in -1 .. TTL /\ hardLeft \in -1 .. HardTTL
      /\ negLeft \in [Kids -> 0 .. NegativeCacheTTL]
      /\ floorLeft \in 0 .. MinRefreshInterval
      /\ flight \in [phase : {"none", "asked", "answered"}, age : 0 .. RefreshTimeout,
                      answer : SUBSET Kids]
      /\ age \in [Kids -> 0 .. MaxAge] /\ MaxAge \in Nat /\ keys \subseteq Kids
      /\ ownFloor \in [Callers -> 0 .. MinRefreshInterval]
  BY DEF TypeOK, MaxAge
<1>1. /\ UNCHANGED <<keys, bgRefresh, pc, kid, published>>
      /\ softLeft' = Down(softLeft, -1) /\ hardLeft' = Down(hardLeft, -1)
      /\ negLeft' = [k \in Kids |-> Down(negLeft[k], 0)]
      /\ floorLeft' = Down(floorLeft, 0)
      /\ age' = [k \in Kids |-> IF age[k] < MaxAge THEN age[k] + 1 ELSE MaxAge]
      /\ ownFloor' = [c \in Callers |-> Down(ownFloor[c], 0)]
  BY DEF Tick, NegativeAfterTick
<1>2. \/ flight = NoFlight /\ flight' = flight
      \/ /\ flight # NoFlight /\ flight.age < RefreshTimeout
         /\ flight' = [flight EXCEPT !.age = flight.age + 1]
  BY DEF Tick
<1>3. /\ flight' \in [phase : {"none", "asked", "answered"}, age : 0 .. RefreshTimeout,
                       answer : SUBSET Kids]
      /\ flight'.phase = flight.phase /\ flight'.answer = flight.answer
      /\ flight'.phase = "none" => flight' = NoFlight
      /\ flight.phase # "none" => flight'.age = flight.age + 1
  BY <1>0, <1>2 DEF NoFlight
<1>4. /\ softLeft' \in -1 .. TTL /\ hardLeft' \in -1 .. HardTTL
      /\ floorLeft' \in 0 .. MinRefreshInterval
  BY <1>0, <1>1 DEF Down
<1>5. /\ negLeft' \in [Kids -> 0 .. NegativeCacheTTL]
      /\ ownFloor' \in [Callers -> 0 .. MinRefreshInterval]
  BY <1>0, <1>1 DEF Down
<1>6. age' \in [Kids -> 0 .. MaxAge] /\ \A k \in Kids : age'[k] =< age[k] + 1
  BY <1>0, <1>1
<1>7. TypeOK'
  BY <1>1, <1>3, <1>4, <1>5, <1>6, Zenon DEF TypeOK
<1>8. \A c \in Callers : ownFloor'[c] =< floorLeft'
  BY <1>0, <1>1 DEF Down
<1>9. SerialBurstsThrottled'
  BY <1>0, <1>1 DEF SerialBurstsThrottled, Down
<1>10. \A k \in Kids : GoneFor(k)' =< GoneFor(k) + 1
  BY <1>0, <1>1, <1>6 DEF GoneFor
<1>11. flight'.phase = "answered" => \A k \in Kids :
          /\ k \in flight'.answer => GoneFor(k)' =< flight'.age
          /\ k \in published' \ flight'.answer => age'[k] =< flight'.age
  <2> SUFFICES ASSUME flight.phase = "answered", NEW k \in Kids
               PROVE  /\ k \in flight.answer => GoneFor(k)' =< flight.age + 1
                      /\ k \in published \ flight.answer => age'[k] =< flight.age + 1
    BY <1>1, <1>3
  <2>1. GoneFor(k) \in Nat /\ GoneFor(k)' \in Nat /\ age[k] \in Nat /\ age'[k] \in Nat
        /\ flight.age \in Nat
    BY <1>0, <1>1, <1>6 DEF GoneFor
  <2> QED
    BY <1>6, <1>10, <2>1
<1>12. hardLeft' >= 0 => \A k \in keys' : GoneFor(k)' + hardLeft' =< HardTTL + RefreshTimeout
  <2> SUFFICES ASSUME hardLeft' >= 0, NEW k \in keys
               PROVE  GoneFor(k)' + hardLeft' =< HardTTL + RefreshTimeout
    BY <1>1
  <2>1. hardLeft' = hardLeft - 1 /\ hardLeft >= 0
    BY <1>0, <1>1 DEF Down
  <2>2. GoneFor(k) \in Nat /\ GoneFor(k)' \in Nat /\ GoneFor(k)' =< GoneFor(k) + 1
    BY <1>0, <1>1, <1>6, <1>10 DEF GoneFor
  <2> QED
    BY <1>0, <2>1, <2>2
<1> QED
  BY <1>3, <1>7, <1>8, <1>9, <1>11, <1>12

\* Every step preserves JWKSInv.
LEMMA JWKSInvNext == JWKSInv /\ [Next]_vars => JWKSInv'
<1> SUFFICES ASSUME JWKSInv, [Next]_vars PROVE JWKSInv'
  OBVIOUS
<1>1. CASE \E c \in Callers : CallStep(c) \/ \E k \in Kids : Lookup(c, k)
  BY <1>1, CallStepPreserves
<1>2. CASE \E a \in Actors : Join(a) \/ Lead(a)
  BY <1>2, EnterPreserves
<1>3. CASE Answer
  BY <1>3, AnswerPreserves
<1>4. CASE Install
  BY <1>4, InstallPreserves
<1>5. CASE Fail
  BY <1>5, FailPreserves
<1>6. CASE Finish
  BY <1>6, FinishPreserves
<1>7. CASE \E k \in Kids : Rotate(k)
  BY <1>7, RotatePreserves
<1>8. CASE Tick
  BY <1>8, TickPreserves
<1>9. CASE UNCHANGED vars
  <2>1. UNCHANGED CallVars /\ UNCHANGED <<negLeft, bgRefresh, pc, kid>>
    BY <1>9 DEF vars, CallVars, clock
  <2>2. TypeOK'
    BY <2>1, Zenon DEF JWKSInv, TypeOK, CallVars, history
  <2>3. SerialBurstsThrottled'
    BY <2>1 DEF JWKSInv, SerialBurstsThrottled, CallVars, history
  <2> QED
    BY <2>1, <2>2, <2>3, CallPreserves
<1> QED
  BY <1>1, <1>2, <1>3, <1>4, <1>5, <1>6, <1>7, <1>8, <1>9 DEF Next

\* The cache never lags further behind the issuer than JWKSInv says.
THEOREM JWKSInvariant == Spec => []JWKSInv
<1> QED
  BY JWKSInvInit, JWKSInvNext, PTL DEF Spec

\* A withdrawn key is not accepted longer than HardTTL + RefreshTimeout.
THEOREM RevocationIsBounded == Spec => []RevocationBounded
<1>1. JWKSInv => RevocationBounded
  <2> SUFFICES ASSUME JWKSInv, NEW k \in Kids, Hit(k)
               PROVE  GoneFor(k) =< HardTTL + RefreshTimeout
    BY DEF RevocationBounded
  <2>1. /\ k \in keys /\ hardLeft \in Nat
        /\ GoneFor(k) + hardLeft =< HardTTL + RefreshTimeout
    BY DEF JWKSInv, TypeOK, Hit
  <2>2. GoneFor(k) \in Nat
    BY DEF JWKSInv, TypeOK, GoneFor, MaxAge
  <2> QED
    BY <2>1, <2>2
<1> QED
  BY <1>1, JWKSInvariant, PTL

\* Serial calls for unknown kids start fetches MinRefreshInterval apart.
THEOREM BurstsAreThrottled == Spec => []SerialBurstsThrottled
<1>1. JWKSInv => SerialBurstsThrottled
  BY DEF JWKSInv
<1> QED
  BY <1>1, JWKSInvariant, PTL

\* Failed, late and overlapping refreshes cost no key the issuer still publishes.
THEOREM OutagesKeepKeys == Spec => KeysSurviveOutage
<1>1. JWKSInv /\ [Next]_vars =>
         [\A k \in Kids : Hit(k) /\ ~Hit(k)' =>
             hardLeft' < 0 \/ k \notin published \/ age[k] =< RefreshTimeout]_vars
  <2> SUFFICES ASSUME JWKSInv, Next, NEW k \in Kids, k \in keys, ~Hit(k)', ~(hardLeft' < 0),
                      k \in published
               PROVE  age[k] =< RefreshTimeout
    BY DEF Hit
  <2>1. CASE Install
    <3>1. flight.phase = "answered" /\ keys' = flight.answer /\ hardLeft' = HardTTL
      BY <2>1 DEF Install
    <3>2. k \notin flight.answer
      BY <3>1 DEF Hit
    <3>3. age[k] =< flight.age /\ flight.age \in 0 .. RefreshTimeout /\ age[k] \in Nat
      BY <3>1, <3>2 DEF JWKSInv, TypeOK, MaxAge
    <3> QED
      BY <3>3
  <2>2. CASE ~Install
    <3>1. keys' = keys
      BY <2>2 DEF Next, CallStep, Kick, Refuse, PassFloor, LookupAgain, markNegative, Lookup,
                  Join, Lead, Answer, Fail, Finish, Rotate, Tick
    <3>2. hardLeft' \in Int
      <4>1. JWKSInv'
        BY JWKSInvNext
      <4> QED
        BY <4>1 DEF JWKSInv, TypeOK
    <3> QED
      BY <3>1, <3>2 DEF Hit
  <2> QED
    BY <2>1, <2>2
<1> QED
  BY <1>1, JWKSInvariant, PTL DEF Spec, KeysSurviveOutage

=============================================================================
