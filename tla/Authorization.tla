--------------------------- MODULE Authorization ---------------------------
(***************************************************************************)
(* What the authorization middleware does with a policy's decision         *)
(* (internal/middleware/authz): it narrows the parsed search, merges the   *)
(* policy's filters and its geofence into the filter sent upstream, and    *)
(* filters what comes back.                                                *)
(*                                                                         *)
(* A decision's constraints are a record. Absent parts are NoExpr, NoArea, *)
(* {} or 0, and those that do not parse BadExpr and BadArea.               *)
(* RequiredFilters is a function from property names to clauses.           *)
(***************************************************************************)
EXTENDS CQL2Eval, SequencesExt

NoExpr == [op |-> "none"]
BadExpr == [op |-> "unparsable"]
NoArea == {}
BadArea == {0}

\* The constraints of a policy that sets none.
Unconstrained ==
    [allowed |-> {}, denied |-> {}, maxResults |-> 0, required |-> << >>,
     cql2 |-> NoExpr, fence |-> [allowed |-> NoArea, denied |-> NoArea, filterMode |-> FALSE],
     pushedDown |-> FALSE]

\* parseOPAConstraints: the policy's constraints are an object, from which the
\* fields that are there with the right type are taken.
ParseOPAConstraints(raw) ==
    [f \in DOMAIN Unconstrained |-> IF f \in DOMAIN raw THEN raw[f] ELSE Unconstrained[f]]

\* parseEmbeddedResult. The policy's value is a boolean or an object with the
\* members allow, constraints and result; an object under result that has its
\* own allow takes the place of the whole. Without a boolean the policy is in
\* error.
ParseEmbeddedResult(v) ==
    LET w == IF v.result # << >> /\ v.result.allow # "absent" THEN v.result ELSE v
    IN  [verdict |-> CASE w.allow = "true" -> "allow"
                       [] w.allow = "false" -> "deny"
                       [] OTHER -> "error",
         constraints |-> ParseOPAConstraints(w.constraints)]

\* Authorize: a query without a result denies, one that fails is an error.
Authorize(v) ==
    IF v.allow \in {"undefined", "failed"}
    THEN [verdict |-> IF v.allow = "failed" THEN "error" ELSE "deny", constraints |-> Unconstrained]
    ELSE ParseEmbeddedResult(v)

HasFence(c) == c.fence.allowed # NoArea \/ c.fence.denied # NoArea

\* Both areas parse, as geofenceToCQL2 needs them to.
FenceParses(f) == BadArea \notin {f.allowed, f.denied}

\* parseGeofenceAreas leaves something to filter by. Only an allowed area that
\* does not parse is an error there, a denied one counts as absent.
GeofenceApplies(f) == f.allowed # BadArea /\ (f.allowed # NoArea \/ f.denied \notin {NoArea, BadArea})

\* Faulty variant: the policy's filter is not looked at.
HasConstraintsNoFilter(c) ==
    \/ c.allowed # {}
    \/ c.denied # {}
    \/ c.fence.allowed # NoArea
    \/ c.maxResults > 0
    \/ DOMAIN c.required # {}

\* AuthzDecision.HasConstraints. A denied area alone does not count, but the
\* filter it becomes when it is pushed down does.
HasConstraints(c) ==
    \/ c.allowed # {}
    \/ c.denied # {}
    \/ c.fence.allowed # NoArea
    \/ c.maxResults > 0
    \/ DOMAIN c.required # {}
    \/ c.cql2 # NoExpr

-----------------------------------------------------------------------------
(* The request side. A search asks for collections ({} for all of them), a   *)
(* filter and a limit (0 for none).                                          *)

DenyAll == [collections |-> {}, filter |-> BadExpr, limit |-> -1]

\* Faulty variant: a search without collections stays without.
ApplyConstraintsNamedOnly(sr, c) ==
    LET kept == IF c.allowed = {} \/ sr.collections = {} THEN sr.collections
                ELSE sr.collections \cap c.allowed
        left == IF kept = {} THEN {} ELSE kept \ c.denied
    IN  IF sr.collections # {} /\ left = {} THEN DenyAll
        ELSE [sr EXCEPT !.collections = left,
                        !.limit = IF c.maxResults > 0 /\ (@ =< 0 \/ @ > c.maxResults)
                                  THEN c.maxResults ELSE @]

\* applyConstraints on the search: the limit is clamped, the collections are
\* those allowed among those asked for, less those denied. DenyAll stands for
\* errCollectionsDenied. A search without collections is left so by a policy
\* that only denies some.
ApplyConstraints(sr, c) ==
    LET asked == IF c.allowed = {} THEN sr.collections
                 ELSE IF sr.collections = {} THEN c.allowed
                 ELSE sr.collections \cap c.allowed
        left == asked \ c.denied
    IN  IF left = {} /\ (asked # {} \/ sr.collections # {}) THEN DenyAll
        ELSE [sr EXCEPT !.collections = left,
                        !.limit = IF c.maxResults > 0 /\ (@ =< 0 \/ @ > c.maxResults)
                                  THEN c.maxResults ELSE @]

\* ... and on the constraints: an allowed area is a filter by default.
DefaultFilterMode(c) ==
    IF c.fence.allowed # NoArea /\ ~c.pushedDown THEN [c EXCEPT !.fence.filterMode = TRUE] ELSE c

\* andNonNil; an expression that does not parse spoils the whole.
AndNonNil(es) ==
    LET present == SelectSeq(es, LAMBDA e : e # NoExpr)
    IN  IF BadExpr \in {es[i] : i \in DOMAIN es} THEN BadExpr
        ELSE IF present = << >> THEN NoExpr
        ELSE IF Len(present) = 1 THEN present[1]
        ELSE Op("and", present)

\* geofenceToCQL2; an area that does not parse is an error.
GeofenceToCQL2(f) ==
    IF ~FenceParses(f) THEN BadExpr
    ELSE AndNonNil(<<IF f.allowed = NoArea THEN NoExpr ELSE SIntersects(f.allowed),
                     IF f.denied = NoArea THEN NoExpr ELSE Op("not", <<SIntersects(f.denied)>>)>>)

\* requiredFilterClause and requiredFilterMapPredicate: a bare value is an
\* equation, null a null check, and a map has one operator.
RequiredFilterClause(name, clause) ==
    CASE clause.op = "isnull" -> Op("isnull", <<Prop(name)>>)
      [] clause.op = "in" -> InList(name, clause.values)
      [] clause.op \in Comparisons -> Op(clause.op, <<Prop(name), Lit(clause.value)>>)
      [] OTHER -> BadExpr

\* requiredFiltersToCQL2. The keys are joined in a fixed order, which no
\* evaluator can tell from another.
RequiredFiltersToCQL2(rf) ==
    AndNonNil(SetToSeq({RequiredFilterClause(name, rf[name]) : name \in DOMAIN rf}))

\* maybePushDownGeofence: a copy of the constraints whose filter holds the
\* geofence too, or the constraints themselves.
PushDownGeofence(c, spatial) ==
    LET fence == GeofenceToCQL2(c.fence)
    IN  IF ~HasFence(c) \/ c.pushedDown \/ ~spatial THEN c
        ELSE [c EXCEPT !.cql2 = AndNonNil(<<@, fence>>), !.pushedDown = TRUE]

\* injectCQL2Filter: the merged filter, and the constraints to go on with.
InjectCQL2Filter(sr, c, spatial) ==
    LET updated == PushDownGeofence(c, spatial)
        policy == AndNonNil(<<updated.cql2, RequiredFiltersToCQL2(updated.required)>>)
    IN  [constraints |-> updated,
         policyError |-> policy = BadExpr,
         search |-> [sr EXCEPT !.filter = AndNonNil(<<@, policy>>)]]

-----------------------------------------------------------------------------
(* The response side.                                                        *)

\* filterByGeofence on the features of a collection. An item without a
\* geometry is dropped, one that only overlaps the denied area is kept, and
\* everything stays when the filter is not applicable.
FilterByGeofence(features, f) ==
    IF ~GeofenceApplies(f) THEN features
    ELSE {i \in features :
             /\ i.geometry # NoGeometry
             /\ f.allowed # NoArea => Intersects(f.allowed, i.geometry)
             /\ ~Covers(f.denied, i.geometry)}

\* validateSingleRecord: the policy's filters and the geofence, evaluated
\* here. A filter or an area that does not parse lets every item pass.
ValidateSingleRecord(item, c) ==
    LET e == AndNonNil(<<PushDownGeofence(c, TRUE).cql2, RequiredFiltersToCQL2(c.required)>>)
    IN  e \in {NoExpr, BadExpr} \/ Matches(e, item)

=============================================================================
