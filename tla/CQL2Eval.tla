------------------------------ MODULE CQL2Eval ------------------------------
(***************************************************************************)
(* The in-process CQL2 evaluator (internal/stac/cql2_eval.go) over the     *)
(* geometry facade (internal/geo/geo.go), next to CQL2 as an upstream that *)
(* implements the standard evaluates it, with its third truth value.       *)
(*                                                                         *)
(* A value is a pair of a type and an integer. Strings that spell a number *)
(* of one or two digits are a type of their own, because the evaluator     *)
(* parses them; the other strings are words, which sort after them. A      *)
(* geometry is the set of cells it covers. An expression is a record: a    *)
(* literal, a property, or an operator with its arguments.                 *)
(***************************************************************************)
EXTENDS Integers, Sequences, FiniteSets

Num(n)    == <<"num", n>>
NumStr(n) == <<"numstr", n>>
Word(n)   == <<"word", n>>
Bool(b)   == <<"bool", IF b THEN 1 ELSE 0>>
Null      == <<"null", 0>>
Err       == <<"err", 0>>
True      == Bool(TRUE)
False     == Bool(FALSE)
NoGeometry == {}

Lit(v)        == [op |-> "lit", value |-> v]
Prop(p)       == [op |-> "prop", name |-> p]
Op(o, args)   == [op |-> o, args |-> args]
InList(p, vs) == [op |-> "in", name |-> p, values |-> vs]
SIntersects(area) == [op |-> "s_intersects", area |-> area]

Comparisons == {"=", "<>", "<", "<=", ">", ">="}

-----------------------------------------------------------------------------
\* lookupProperty: under properties first, then at the top level; a name that
\* is in neither place is null.
LookupProperty(item, name) ==
    IF name \in DOMAIN item.properties THEN item.properties[name]
    ELSE IF name \in DOMAIN item.fields THEN item.fields[name]
    ELSE Null

\* Intersects and Contains (which is Covers); without a geometry both are false.
Intersects(g, h) == g \cap h # {}
Covers(g, h) == h # NoGeometry /\ h \subseteq g

\* numericCmp and stringCmp, which differ in the order they use only.
Ordered(op, l, r) ==
    CASE op = "="  -> l = r
      [] op = "<>" -> l # r
      [] op = "<"  -> l < r
      [] op = "<=" -> l =< r
      [] op = ">"  -> l > r
      [] op = ">=" -> l >= r

\* toFloat: a string that parses counts as a number.
IsFloat(v) == v[1] \in {"num", "numstr"}
IsString(v) == v[1] \in {"numstr", "word"}

\* Where a string stands in lexicographic order among those of the model: "9"
\* comes after "10", and a word after both.
Lexicographic(v) ==
    IF v[1] = "word" THEN 1000 + v[2]
    ELSE IF v[2] < 10 THEN 11 * v[2]
    ELSE 11 * (v[2] \div 10) + (v[2] % 10) + 1

\* compare: null equals null and differs from the rest; unlike types compare
\* to false under every operator.
Compare(op, l, r) ==
    IF Null \in {l, r} THEN
        CASE op = "="  -> l = r
          [] op = "<>" -> l # r
          [] OTHER     -> FALSE
    ELSE IF IsFloat(l) /\ IsFloat(r) THEN Ordered(op, l[2], r[2])
    ELSE IF IsString(l) /\ IsString(r) THEN Ordered(op, Lexicographic(l), Lexicographic(r))
    ELSE l[1] = "bool" /\ r[1] = "bool" /\ op \in {"=", "<>"} /\ Ordered(op, l[2], r[2])

FirstOther(vals, v) ==
    LET others == {i \in DOMAIN vals : vals[i] # v}
    IN  IF others = {} THEN 0 ELSE CHOOSE i \in others : \A j \in others : i =< j

\* AND and OR go from left to right and stop at the first argument that
\* decides; one that is not boolean before that is an error.
Connective(vals, go, stop) ==
    LET i == FirstOther(vals, go)
    IN  IF i = 0 THEN go ELSE IF vals[i] = stop THEN stop ELSE Err

RECURSIVE Eval(_, _)

\* An item without a geometry is outside every area.
EvalSIntersects(area, item) == Bool(Intersects(item.geometry, area))

EvalOp(e, item) ==
    LET vals == [i \in DOMAIN e.args |-> Eval(e.args[i], item)]
    IN  CASE e.op = "and" -> Connective(vals, True, False)
          [] e.op = "or"  -> Connective(vals, False, True)
          [] e.op = "not" -> IF vals[1] \in {True, False} THEN Bool(vals[1] = False) ELSE Err
          [] e.op = "isnull" -> IF vals[1] = Err THEN Err ELSE Bool(vals[1] = Null)
          [] e.op \in Comparisons ->
                IF Err \in {vals[1], vals[2]} THEN Err ELSE Bool(Compare(e.op, vals[1], vals[2]))
          [] OTHER -> Err

Eval(e, item) ==
    CASE e.op = "lit"  -> e.value
      [] e.op = "prop" -> LookupProperty(item, e.name)
      [] e.op = "in"   -> Bool(\E v \in e.values : Compare("=", LookupProperty(item, e.name), v))
      [] e.op = "s_intersects" -> EvalSIntersects(e.area, item)
      [] OTHER         -> EvalOp(e, item)

\* EvalCQL2, where an error counts as no match for both its callers.
Matches(e, item) == Eval(e, item) = True

-----------------------------------------------------------------------------
(* The standard: comparisons with null are unknown, strings are compared     *)
(* lexicographically whatever they spell, and the connectives are those of   *)
(* Kleene's three-valued logic.                                              *)

Unknown == <<"unknown", 0>>

RECURSIVE Truth(_, _)

Operand(e, item) == IF e.op = "lit" THEN e.value ELSE LookupProperty(item, e.name)

Truth(e, item) ==
    CASE e.op = "and" ->
            LET vals == {Truth(e.args[i], item) : i \in DOMAIN e.args}
            IN  IF False \in vals THEN False ELSE IF Unknown \in vals THEN Unknown ELSE True
      [] e.op = "or" ->
            LET vals == {Truth(e.args[i], item) : i \in DOMAIN e.args}
            IN  IF True \in vals THEN True ELSE IF Unknown \in vals THEN Unknown ELSE False
      [] e.op = "not" ->
            LET v == Truth(e.args[1], item)
            IN  IF v = Unknown THEN v ELSE Bool(v = False)
      [] e.op = "isnull" -> Bool(Operand(e.args[1], item) = Null)
      [] e.op = "in" ->
            IF LookupProperty(item, e.name) = Null THEN Unknown
            ELSE Bool(LookupProperty(item, e.name) \in e.values)
      [] e.op = "s_intersects" ->
            IF item.geometry = NoGeometry THEN Unknown ELSE Bool(item.geometry \cap e.area # {})
      [] OTHER ->
            LET l == Operand(e.args[1], item)
                r == Operand(e.args[2], item)
            IN  IF IsString(l) /\ IsString(r) THEN Bool(Ordered(e.op, Lexicographic(l), Lexicographic(r)))
                ELSE IF Null \in {l, r} \/ l[1] # r[1] THEN Unknown
                ELSE Bool(Ordered(e.op, l[2], r[2]))

\* A pair of values on which the evaluator compares as the standard does: two
\* numbers, two booleans, or two strings that do not both spell a number.
Comparable(l, r) ==
    /\ l # Null
    /\ l[1] = r[1] \/ (IsString(l) /\ IsString(r))
    /\ ~(l[1] = "numstr" /\ r[1] = "numstr")

\* Every comparison of the expression on this item is such a pair.
RECURSIVE WellTyped(_, _)
WellTyped(e, item) ==
    CASE e.op \in {"and", "or", "not"} -> \A i \in DOMAIN e.args : WellTyped(e.args[i], item)
      [] e.op \in Comparisons -> Comparable(Operand(e.args[1], item), Operand(e.args[2], item))
      [] e.op = "in" -> \A v \in e.values : Comparable(LookupProperty(item, e.name), v)
      [] OTHER -> TRUE

=============================================================================
