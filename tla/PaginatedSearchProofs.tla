------------------------ MODULE PaginatedSearchProofs ------------------------
(***************************************************************************)
(* Proofs about PaginatedSearch: no item is lost on a walk and the links   *)
(* of a page lead along it, for every catalog of items that come without   *)
(* an origin link, any number of clients, origins and pages, and any       *)
(* interleaving with failing fetches and the page cache.                   *)
(***************************************************************************)
EXTENDS PaginatedSearch, FiniteSetTheorems, WellFoundedInduction, TLAPS

\* No upstream is itself a proxy of this kind.
AllUntagged == \A x \in Item : Via(x) = Untagged

-----------------------------------------------------------------------------
(* Facts about numbers, sequences and slices.                                 *)

\* A set of numbers in which < is a relation without descending chains has a
\* least element.
LEMMA LeastOfRelation ==
    ASSUME NEW T, T \subseteq Nat, NEW R,
           \E x \in T : \A y \in T : ~ (<<y, x>> \in R),
           \A x, y \in Nat : <<y, x>> \in R <=> y < x
    PROVE  \E m \in T : \A k \in T : m =< k
<1>1. PICK x \in T : \A y \in T : ~ (<<y, x>> \in R)
  OBVIOUS
<1>2. SUFFICES ASSUME NEW k \in T PROVE x =< k
  OBVIOUS
<1>3. x \in Nat /\ k \in Nat
  OBVIOUS
<1>4. ~ (<<k, x>> \in R)
  BY <1>1
<1>5. ~ (k < x)
  BY <1>3, <1>4, Zenon
<1>. QED
  BY <1>3, <1>5

\* A nonempty set of naturals has a least element.
LEMMA LeastNatural ==
    ASSUME NEW T, T \subseteq Nat, T # {}
    PROVE  \E m \in T : \A k \in T : m =< k
<1>1. \E x \in T : \A y \in T : ~ (<<y, x>> \in OpToRel(<,Nat))
  BY NatLessThanWellFounded, WFMin
<1>2. \A x, y \in Nat : <<y, x>> \in OpToRel(<,Nat) <=> y < x
  BY DEF OpToRel
<1>. QED
  BY <1>1, <1>2, LeastOfRelation, Zenon

\* A slice of n items has n members.
LEMMA SliceSize ==
    ASSUME NEW o, NEW pos \in Nat, NEW n \in Nat
    PROVE  Cardinality(Slice(o, pos, n)) = n
<1> DEFINE I == (pos + 1) .. (pos + n)
           f == [i \in I |-> <<o, i>>]
<1>1. f \in Bijection(I, Slice(o, pos, n))
  BY DEF Slice, Bijection, Injection, Surjection, IsInjective
<1>2. ExistsBijection(I, Slice(o, pos, n))
  BY <1>1 DEF ExistsBijection
<1>. QED
  BY <1>2, FS_Interval, FS_Bijection

-----------------------------------------------------------------------------
(* What fetchFromOrigins brings.                                              *)

\* A successful answer is the next n items of its origin, n at most what is left.
LEMMA AnswerIsSlice ==
    ASSUME NEW o \in Origins, NEW pos \in 0 .. Len(Catalog[o]),
           NEW a \in Answers(o, pos)
    PROVE  \E n \in 0 .. (Len(Catalog[o]) - pos) : a.items = Slice(o, pos, n)
<1>1. Len(Catalog[o]) \in Nat /\ Limit \in Nat
  BY CatalogAssumption, LimitAssumption
<1>2. \A n, more : [ok |-> TRUE, items |-> Slice(o, pos, n), more |-> more].items
                      = Slice(o, pos, n)
  OBVIOUS
<1>3. MinOf(Limit, Remaining(o, pos)) \in 0 .. (Len(Catalog[o]) - pos)
  BY <1>1 DEF MinOf, Remaining
<1>4. MinOf(1, Remaining(o, pos)) \in Nat
  BY <1>1 DEF MinOf, Remaining
<1>5. CASE Upstream = "exact"
  BY <1>5, <1>3 DEF Answers
<1>6. CASE Upstream = "lazy"
  BY <1>6, <1>3 DEF Answers
<1>7. CASE Upstream = "ragged"
  <2>1. PICK n \in MinOf(1, Remaining(o, pos)) .. MinOf(Limit, Remaining(o, pos)) :
           a = [ok |-> TRUE, items |-> Slice(o, pos, n), more |-> n < Remaining(o, pos)]
    BY <1>7 DEF Answers
  <2>. QED
    BY <2>1, <1>1, <1>3, <1>4
<1>. QED
  BY <1>5, <1>6, <1>7, ParametersAssumption

\* A failure is not ok.
LEMMA FailuresNotOk ==
    ASSUME NEW o, NEW pos
    PROVE  \A a \in Failures(o, pos) : a.ok = FALSE
<1>1. \A a \in Answers(o, pos) : a = [ok |-> TRUE, items |-> a.items, more |-> a.more]
  BY ParametersAssumption DEF Answers
<1>2. SUFFICES ASSUME NEW b \in Failures(o, pos) PROVE b.ok = FALSE
  OBVIOUS
<1>3. CASE b = [ok |-> FALSE, items |-> {}, more |-> FALSE]
  BY <1>3
<1>4. CASE \E a \in Answers(o, pos) : b = [a EXCEPT !.ok = FALSE, !.more = FALSE]
  <2>1. PICK a \in Answers(o, pos) : b = [a EXCEPT !.ok = FALSE, !.more = FALSE]
    BY <1>4
  <2>2. a = [ok |-> TRUE, items |-> a.items, more |-> a.more]
    BY <1>1
  <2>. QED
    BY <2>1, <2>2
<1>. QED
  BY <1>3, <1>4 DEF Failures

\* A fetch that succeeded brought the next items of an origin that was to be
\* fetched.
LEMMA FetchedSlice ==
    ASSUME NEW cur, SoundCursor(cur), NEW res \in Results(cur),
           NEW o \in DOMAIN res, res[o].ok
    PROVE  /\ o \in ToFetch(cur)
           /\ o \in Origins
           /\ \E n \in 0 .. (Len(Catalog[o]) - cur.org[o].pos) :
                 res[o].items = Slice(o, cur.org[o].pos, n)
<1>1. o \in ToFetch(cur) /\ res[o] \in Outcomes(cur, o)
  BY DEF Results
<1>2. o \in Origins
  BY <1>1 DEF ToFetch, ActiveOrigins
<1>3. res[o] \in Answers(o, cur.org[o].pos)
  BY <1>1, FailuresNotOk DEF Outcomes
<1>4. cur.org[o].pos \in 0 .. Len(Catalog[o])
  <2>1. cur.org[o] \in OriginCursor /\ cur.org[o].pos =< Len(Catalog[o])
    BY <1>2 DEF SoundCursor
  <2>2. Len(Catalog[o]) \in Nat
    BY <1>2, CatalogAssumption
  <2>. QED
    BY <2>1, <2>2 DEF OriginCursor
<1>. QED
  BY <1>1, <1>2, <1>3, <1>4, AnswerIsSlice

-----------------------------------------------------------------------------
(* The merge.                                                                 *)

\* Dedup across origins loses no key: the copy of the first origin that has it
\* is kept.
LEMMA MergeKeepsKeys ==
    ASSUME NEW sources, DOMAIN sources \subseteq Nat,
           NEW o \in DOMAIN sources, NEW x \in sources[o]
    PROVE  Key(x) \in Keys(mergeItemsFirstWins(sources))
<1> DEFINE T == {p \in DOMAIN sources : Key(x) \in Keys(sources[p])}
<1>1. T \subseteq Nat /\ o \in T
  BY DEF Keys
<1>2. PICK m \in T : \A k \in T : m =< k
  BY <1>1, LeastNatural
<1>3. PICK y \in sources[m] : Key(y) = Key(x)
  BY <1>2 DEF Keys
<1>4. \A p \in DOMAIN sources : p < m => Key(y) \notin Keys(sources[p])
  BY <1>1, <1>2, <1>3
<1>5. y \in mergeItemsFirstWins(sources)
  BY <1>2, <1>3, <1>4 DEF mergeItemsFirstWins
<1>. QED
  BY <1>3, <1>5 DEF Keys

\* The merge makes nothing up.
LEMMA MergeFromSources ==
    ASSUME NEW sources, NEW y \in mergeItemsFirstWins(sources)
    PROVE  \E o \in DOMAIN sources : y \in sources[o]
  BY DEF mergeItemsFirstWins

\* MarkError and UpdateOriginState return an OriginCursor and touch no stash.
LEMMA OriginUpdates ==
    ASSUME NEW oc \in OriginCursor, NEW n \in Nat, NEW more
    PROVE  /\ MarkError(oc) \in OriginCursor
           /\ MarkError(oc).pos = oc.pos
           /\ MarkError(oc).stash = oc.stash
           /\ UpdateOriginState(oc, n, more) \in OriginCursor
           /\ UpdateOriginState(oc, n, more).pos = oc.pos + n
           /\ UpdateOriginState(oc, n, more).stash = oc.stash
<1>1. \A e \in BOOLEAN, k \in Nat :
         [oc EXCEPT !.error = e, !.errorCount = k] \in OriginCursor
  BY DEF OriginCursor
<1>2. \A p \in Nat, e \in BOOLEAN, k \in Nat, x \in BOOLEAN :
         [oc EXCEPT !.pos = p, !.error = e, !.errorCount = k, !.exhausted = x]
            \in OriginCursor
  BY DEF OriginCursor
<1>3. /\ oc.errorCount + 1 \in Nat /\ oc.pos + n \in Nat /\ 0 \in Nat
      /\ TRUE \in BOOLEAN /\ FALSE \in BOOLEAN
      /\ (oc.exhausted \/ ~more) \in BOOLEAN
  BY DEF OriginCursor
<1>4. MarkError(oc) \in OriginCursor
  BY <1>1, <1>3, Zenon DEF MarkError
<1>5. UpdateOriginState(oc, n, more) \in OriginCursor
  BY <1>2, <1>3, Zenon DEF UpdateOriginState
<1>6. MarkError(oc).pos = oc.pos
  BY DEF MarkError, OriginCursor
<1>7. MarkError(oc).stash = oc.stash
  BY DEF MarkError, OriginCursor
<1>8. UpdateOriginState(oc, n, more).pos = oc.pos + n
  BY DEF UpdateOriginState, OriginCursor
<1>9. UpdateOriginState(oc, n, more).stash = oc.stash
  BY DEF UpdateOriginState, OriginCursor
<1>. QED
  BY <1>4, <1>5, <1>6, <1>7, <1>8, <1>9

\* Marking failed origins moves no position and drops no stash.
LEMMA MarkErrorsKeeps ==
    ASSUME NEW cur, SoundCursor(cur), NEW res
    PROVE  LET marked == MarkErrors(cur, res)
           IN  /\ SoundCursor(marked)
               /\ marked.seq = cur.seq
               /\ \A o \in Origins : /\ marked.org[o].pos = cur.org[o].pos
                                     /\ marked.org[o].stash = cur.org[o].stash
                                     /\ o \in DOMAIN res /\ res[o].ok =>
                                           marked.org[o] = cur.org[o]
<1> DEFINE marked == MarkErrors(cur, res)
           Org(o) == IF o \in DOMAIN res /\ ~res[o].ok THEN MarkError(cur.org[o])
                     ELSE cur.org[o]
<1>1. marked = [org |-> [o \in Origins |-> Org(o)], total |-> cur.total,
                principal |-> cur.principal, expires |-> cur.expires,
                prev |-> cur.prev, first |-> cur.first, seq |-> cur.seq]
  BY DEF MarkErrors, SoundCursor
<1>2. \A o \in Origins : /\ Org(o) \in OriginCursor
                         /\ Org(o).pos = cur.org[o].pos
                         /\ Org(o).stash = cur.org[o].stash
                         /\ o \in DOMAIN res /\ res[o].ok => Org(o) = cur.org[o]
  BY OriginUpdates DEF SoundCursor
<1> HIDE DEF marked, Org
<1>3. \A o \in Origins : marked.org[o] = Org(o)
  BY <1>1
<1>4. SoundCursor(marked)
  BY <1>1, <1>2, <1>3 DEF SoundCursor
<1>. QED
  BY <1>1, <1>2, <1>3, <1>4 DEF marked

\* The merge keeps every item: what the stashes held and what was fetched is on
\* the page or stashed again, and each position moves by exactly what came.
LEMMA MergeConserves ==
    ASSUME AllUntagged, NEW cur, SoundCursor(cur), NEW res \in Results(cur)
    PROVE  LET m == mergeResults(cur, res)
           IN  /\ SoundCursor(m.cursor)
               /\ m.cursor.seq = cur.seq
               /\ Conserves(cur, m.items, m.cursor)
<1> DEFINE m == mergeResults(cur, res)
           marked == MarkErrors(cur, res)
           active == ActiveOrigins(marked)
           Src(o) == Combined(marked, res, o)
           src == [o \in active |-> Src(o)]
           merged == mergeItemsFirstWins(src)
           emitted == Top(merged, Limit)
           rest == merged \ emitted
           fetched(o) == o \in DOMAIN res /\ res[o].ok
           Adv(o) == IF fetched(o)
                     THEN UpdateOriginState(marked.org[o], Cardinality(res[o].items),
                                            res[o].more)
                     ELSE marked.org[o]
           New(o) == IF o \in active THEN [Adv(o) EXCEPT !.stash = NewStash(rest, o)]
                     ELSE marked.org[o]
<1>1. /\ SoundCursor(marked)
      /\ marked.seq = cur.seq
      /\ \A o \in Origins : /\ marked.org[o].pos = cur.org[o].pos
                            /\ marked.org[o].stash = cur.org[o].stash
                            /\ fetched(o) => marked.org[o] = cur.org[o]
  BY MarkErrorsKeeps
<1>2. /\ m.items = emitted
      /\ m.cursor = [marked EXCEPT !.total = @ + Cardinality(emitted),
                                  !.org = [o \in Origins |-> New(o)]]
  BY DEF mergeResults
<1> HIDE DEF m
<1>3. active \subseteq Origins /\ active \subseteq Nat
  BY OriginsAssumption DEF ActiveOrigins
<1>4. \A o \in Origins : marked.org[o].stash # {} => o \in active
  BY DEF ActiveOrigins, hasMore
<1>5. ASSUME NEW o \in DOMAIN res, res[o].ok
      PROVE  /\ o \in active
             /\ o \in Origins
             /\ \E n \in 0 .. (Len(Catalog[o]) - cur.org[o].pos) :
                  /\ res[o].items = Slice(o, cur.org[o].pos, n)
                  /\ Adv(o).pos = cur.org[o].pos + n
             /\ Adv(o) \in OriginCursor
  <2>1. /\ o \in ToFetch(cur) /\ o \in Origins
        /\ \E n \in 0 .. (Len(Catalog[o]) - cur.org[o].pos) :
               res[o].items = Slice(o, cur.org[o].pos, n)
    BY <1>5, FetchedSlice
  <2>2. PICK n \in 0 .. (Len(Catalog[o]) - cur.org[o].pos) :
               res[o].items = Slice(o, cur.org[o].pos, n)
    BY <2>1
  <2>3. cur.org[o] \in OriginCursor /\ cur.org[o].pos \in Nat
    BY <2>1 DEF SoundCursor, OriginCursor
  <2>4. Cardinality(res[o].items) = n /\ n \in Nat
    BY <2>2, <2>3, SliceSize
  <2>5. marked.org[o] = cur.org[o]
    BY <1>1, <1>5, <2>1
  <2>6. o \in active
    BY <2>1, <2>5 DEF ToFetch, ActiveOrigins
  <2>7. Adv(o) = UpdateOriginState(cur.org[o], n, res[o].more)
    BY <1>5, <2>4, <2>5
  <2> HIDE DEF Adv
  <2>8. Adv(o) \in OriginCursor /\ Adv(o).pos = cur.org[o].pos + n
    <3>1. n \in Nat /\ cur.org[o] \in OriginCursor
      BY <2>3, <2>4
    <3>2. UpdateOriginState(cur.org[o], n, res[o].more) \in OriginCursor
      BY <3>1, OriginUpdates, Zenon
    <3>3. UpdateOriginState(cur.org[o], n, res[o].more).pos = cur.org[o].pos + n
      BY <3>1, OriginUpdates, Zenon
    <3>. QED
      BY <2>7, <3>2, <3>3, Zenon
  <2>. QED
    BY <2>1, <2>2, <2>6, <2>8
<1>6. \A o \in Origins : Adv(o) \in OriginCursor /\ Adv(o).pos =< Len(Catalog[o])
  <2>1. SUFFICES ASSUME NEW o \in Origins
                 PROVE  Adv(o) \in OriginCursor /\ Adv(o).pos =< Len(Catalog[o])
    OBVIOUS
  <2>2. CASE fetched(o)
    <3>1. Adv(o) \in OriginCursor
      BY <1>5, <2>2
    <3>2. PICK n \in 0 .. (Len(Catalog[o]) - cur.org[o].pos) : Adv(o).pos = cur.org[o].pos + n
      BY <1>5, <2>2
    <3>3. cur.org[o].pos \in Nat /\ Len(Catalog[o]) \in Nat
      BY <2>1, CatalogAssumption DEF SoundCursor, OriginCursor
    <3>. QED
      BY <3>1, <3>2, <3>3
  <2>3. CASE ~fetched(o)
    BY <1>1, <2>3 DEF SoundCursor
  <2>. QED
    BY <2>2, <2>3
<1>7. \A o \in active : \A x \in Src(o) : x \in Item /\ x[1] = o
  <2>1. SUFFICES ASSUME NEW o \in active, NEW x \in Src(o) PROVE x \in Item /\ x[1] = o
    OBVIOUS
  <2>2. CASE x \in marked.org[o].stash
    BY <1>1, <1>3, <2>2 DEF SoundCursor, OriginCursor
  <2>3. CASE fetched(o) /\ x \in res[o].items
    <3>1. PICK n \in 0 .. (Len(Catalog[o]) - cur.org[o].pos) :
             res[o].items = Slice(o, cur.org[o].pos, n)
      BY <1>5, <2>3
    <3>2. cur.org[o].pos \in Nat /\ Len(Catalog[o]) \in Nat
      BY <1>3, CatalogAssumption DEF SoundCursor, OriginCursor
    <3>3. PICK i \in (cur.org[o].pos + 1) .. (cur.org[o].pos + n) : x = <<o, i>>
      BY <2>3, <3>1 DEF Slice
    <3>4. i \in 1 .. Len(Catalog[o])
      BY <3>2
    <3>. QED
      BY <1>3, <3>3, <3>4 DEF Item
  <2>. QED
    BY <2>2, <2>3 DEF Combined
<1>8. \A x \in merged : x \in Item /\ x[1] \in active
  <2>1. SUFFICES ASSUME NEW x \in merged PROVE x \in Item /\ x[1] \in active
    OBVIOUS
  <2>2. PICK o \in active : x \in src[o]
    BY MergeFromSources
  <2>. QED
    BY <1>7, <2>2
<1>9. emitted \subseteq merged
  BY DEF Top
<1>10. \A o \in Origins : /\ New(o) \in OriginCursor
                          /\ New(o).pos = Adv(o).pos
                          /\ New(o).stash = IF o \in active THEN NewStash(rest, o) ELSE {}
  <2>1. SUFFICES ASSUME NEW o \in Origins
                 PROVE  /\ New(o) \in OriginCursor
                        /\ New(o).pos = Adv(o).pos
                        /\ New(o).stash = IF o \in active THEN NewStash(rest, o) ELSE {}
    OBVIOUS
  <2>2. CASE o \in active
    <3>1. NewStash(rest, o) \in SUBSET Item
      BY <1>8 DEF NewStash
    <3>2. Adv(o) \in OriginCursor
      BY <1>6
    <3> HIDE DEF Adv, rest
    <3>3. [Adv(o) EXCEPT !.stash = NewStash(rest, o)] \in OriginCursor
      BY <3>1, <3>2 DEF OriginCursor
    <3>4. [Adv(o) EXCEPT !.stash = NewStash(rest, o)].pos = Adv(o).pos
      BY <3>2 DEF OriginCursor
    <3>5. [Adv(o) EXCEPT !.stash = NewStash(rest, o)].stash = NewStash(rest, o)
      BY <3>2 DEF OriginCursor
    <3>. QED
      BY <2>2, <3>3, <3>4, <3>5
  <2>3. CASE o \notin active
    <3>1. ~fetched(o)
      BY <1>5, <2>3
    <3>2. marked.org[o].stash = {}
      BY <1>4, <2>3
    <3>. QED
      BY <1>1, <2>3, <3>1, <3>2 DEF SoundCursor
  <2>. QED
    BY <2>2, <2>3
<1>11. \A x \in Item : ItemOriginID(x) = x[1]
  BY DEF AllUntagged, ItemOriginID
<1>12. m.cursor = [org |-> [o \in Origins |-> New(o)],
                   total |-> marked.total + Cardinality(emitted),
                   principal |-> marked.principal, expires |-> marked.expires,
                   prev |-> marked.prev, first |-> marked.first, seq |-> marked.seq]
  <2> HIDE DEF New, emitted, marked
  <2>. QED
    BY <1>1, <1>2 DEF SoundCursor
<1> HIDE DEF New
<1>13. \A o \in Origins : m.cursor.org[o] = New(o)
  BY <1>12
<1>14. SoundCursor(m.cursor) /\ m.cursor.seq = cur.seq
  <2>1. \A o \in Origins : \A x \in New(o).stash : x[1] = o
    <3>1. SUFFICES ASSUME NEW o \in Origins, NEW x \in New(o).stash PROVE x[1] = o
      OBVIOUS
    <3>2. x \in NewStash(rest, o)
      BY <1>10, <3>1
    <3>3. x \in merged /\ ItemOriginID(x) = o
      BY <3>2 DEF NewStash
    <3>. QED
      BY <1>8, <1>11, <3>3
  <2>2. \A o \in Origins : New(o).pos =< Len(Catalog[o])
    BY <1>6, <1>10
  <2>3. marked.seq \in Nat
    BY <1>1 DEF SoundCursor
  <2> HIDE DEF emitted, marked
  <2>4. m.cursor.org \in [Origins -> OriginCursor]
    <3>1. m.cursor.org = [o \in Origins |-> New(o)]
      BY <1>12
    <3>. QED
      BY <1>10, <3>1, Zenon
  <2>5. m.cursor = [org |-> m.cursor.org, total |-> m.cursor.total,
                    principal |-> m.cursor.principal, expires |-> m.cursor.expires,
                    prev |-> m.cursor.prev, first |-> m.cursor.first,
                    seq |-> m.cursor.seq]
    BY <1>12
  <2>6. m.cursor.seq = cur.seq /\ m.cursor.seq \in Nat
    BY <1>1, <1>12, <2>3
  <2>7. \A o \in Origins : /\ m.cursor.org[o].pos =< Len(Catalog[o])
                           /\ \A x \in m.cursor.org[o].stash : x[1] = o
    BY <1>13, <2>1, <2>2
  <2>. QED
    BY <2>4, <2>5, <2>6, <2>7 DEF SoundCursor
<1>15. merged \subseteq emitted \cup Stashes(m.cursor)
  <2>1. SUFFICES ASSUME NEW x \in rest PROVE x \in Stashes(m.cursor)
    OBVIOUS
  <2>2. x \in Item /\ x[1] \in active /\ x[1] \in Origins
    BY <1>3, <1>8
  <2>3. x \in New(x[1]).stash
    <3>1. x \in NewStash(rest, x[1])
      BY <1>11, <2>2 DEF NewStash
    <3>. QED
      BY <1>10, <2>2, <3>1
  <2>. QED
    BY <1>13, <2>2, <2>3 DEF Stashes
<1>16. \A o \in active : \A x \in Src(o) : Key(x) \in Keys(m.items \cup Stashes(m.cursor))
  <2>1. SUFFICES ASSUME NEW o \in active, NEW x \in Src(o)
                 PROVE  Key(x) \in Keys(m.items \cup Stashes(m.cursor))
    OBVIOUS
  <2>2. DOMAIN src = active /\ src[o] = Src(o)
    OBVIOUS
  <2>3. Key(x) \in Keys(merged)
    <3> HIDE DEF src
    <3>. QED
      BY <1>3, <2>2, MergeKeepsKeys
  <2> HIDE DEF merged, emitted
  <2>. QED
    BY <1>2, <1>15, <2>3 DEF Keys
<1>17. \A o \in Origins : \A x \in cur.org[o].stash :
          Key(x) \in Keys(m.items \cup Stashes(m.cursor))
  BY <1>1, <1>4, <1>16 DEF Combined
<1>18. \A o \in Origins : \A i \in (cur.org[o].pos + 1) .. m.cursor.org[o].pos :
          Key(<<o, i>>) \in Keys(m.items \cup Stashes(m.cursor))
  <2>1. SUFFICES ASSUME NEW o \in Origins,
                        NEW i \in (cur.org[o].pos + 1) .. Adv(o).pos
                 PROVE  Key(<<o, i>>) \in Keys(m.items \cup Stashes(m.cursor))
    BY <1>10, <1>13
  <2>2. cur.org[o].pos \in Nat
    BY DEF SoundCursor, OriginCursor
  <2>3. fetched(o)
    <3>1. SUFFICES ASSUME ~fetched(o) PROVE FALSE
      OBVIOUS
    <3>2. Adv(o).pos = cur.org[o].pos
      BY <1>1, <3>1
    <3> HIDE DEF Adv
    <3>. QED
      BY <2>1, <2>2, <3>2
  <2>4. PICK n \in 0 .. (Len(Catalog[o]) - cur.org[o].pos) :
             /\ res[o].items = Slice(o, cur.org[o].pos, n)
             /\ Adv(o).pos = cur.org[o].pos + n
    BY <1>5, <2>3
  <2>5. <<o, i>> \in res[o].items /\ o \in active
    BY <1>5, <2>1, <2>3, <2>4 DEF Slice
  <2>6. CASE Key(<<o, i>>) \in Keys(marked.org[o].stash)
    BY <1>1, <1>17, <2>6 DEF Keys
  <2>7. CASE Key(<<o, i>>) \notin Keys(marked.org[o].stash)
    <3>1. <<o, i>> \in Src(o)
      BY <2>3, <2>5, <2>7 DEF Combined
    <3>. QED
      BY <1>16, <2>5, <3>1
  <2>. QED
    BY <2>6, <2>7
<1>19. Conserves(cur, m.items, m.cursor)
  <2>1. Keys(Stashes(cur)) \subseteq Keys(m.items \cup Stashes(m.cursor))
    BY <1>17 DEF Keys, Stashes
  <2>. QED
    BY <1>18, <2>1 DEF Conserves
<1>. QED
  BY <1>14, <1>19 DEF m

-----------------------------------------------------------------------------
(* Search.                                                                    *)

\* A new cursor is sound.
LEMMA NewCursorSound ==
    ASSUME NEW p, NEW t
    PROVE  /\ SoundCursor(NewFederatedCursor(p, t))
           /\ NewFederatedCursor(p, t).seq = 0
           /\ NewFederatedCursor(p, t).prev = NoCursor
           /\ NewFederatedCursor(p, t).org = [o \in Origins |-> NewOriginCursor]
<1> DEFINE cur == NewFederatedCursor(p, t)
<1>1. cur = [org |-> [o \in Origins |-> NewOriginCursor], total |-> 0,
             principal |-> p, expires |-> t + CursorTTL, prev |-> NoCursor,
             first |-> NoCursor, seq |-> 0]
  BY DEF NewFederatedCursor
<1>2. NewOriginCursor \in OriginCursor
  BY DEF NewOriginCursor, OriginCursor
<1>3. NewOriginCursor.pos = 0 /\ NewOriginCursor.stash = {}
  BY DEF NewOriginCursor
<1>4. \A o \in Origins : Len(Catalog[o]) \in Nat
  BY CatalogAssumption
<1> HIDE DEF cur
<1>5. SoundCursor(cur)
  BY <1>1, <1>2, <1>3, <1>4 DEF SoundCursor
<1>. QED
  BY <1>1, <1>5 DEF cur

\* The next cursor holds what the merged one does, and still has a page.
LEMMA NextCursorSound ==
    ASSUME NEW cur, SoundCursor(cur), HasMore(cur), NEW self
    PROVE  LET next == NextCursor(cur, self)
           IN  /\ SoundCursor(next)
               /\ HasMore(next)
               /\ next.prev = self
               /\ next.seq = cur.seq + 1
               /\ \A o \in Origins : /\ next.org[o].pos = cur.org[o].pos
                                     /\ next.org[o].stash = cur.org[o].stash
<1> DEFINE next == NextCursor(cur, self)
           Org(o) == [cur.org[o] EXCEPT !.errorCount = 0]
           first == IF cur.seq = 0 THEN self ELSE cur.first
<1> HIDE DEF first
<1>1. next = [org |-> [o \in Origins |-> Org(o)], total |-> cur.total,
              principal |-> cur.principal, expires |-> cur.expires,
              prev |-> self, first |-> first, seq |-> cur.seq + 1]
  BY DEF NextCursor, Clone, SoundCursor, first
<1>2. \A o \in Origins : /\ Org(o) \in OriginCursor
                         /\ Org(o).pos = cur.org[o].pos
                         /\ Org(o).stash = cur.org[o].stash
                         /\ Org(o).exhausted = cur.org[o].exhausted
                         /\ Org(o).errorCount = 0
  BY DEF SoundCursor, OriginCursor
<1> HIDE DEF next, Org
<1>3. \A o \in Origins : next.org[o] = Org(o)
  BY <1>1
<1>4. SoundCursor(next)
  BY <1>1, <1>2, <1>3 DEF SoundCursor
<1>5. HasMore(next)
  <2>1. PICK o \in Origins : hasMore(cur.org[o])
    BY DEF HasMore
  <2>2. hasMore(next.org[o])
    BY <1>2, <1>3, <2>1 DEF hasMore, retired, maxOriginErrorRetries
  <2>. QED
    BY <2>2 DEF HasMore
<1>6. next.prev = self /\ next.seq = cur.seq + 1
  BY <1>1
<1>. QED
  BY <1>2, <1>3, <1>4, <1>5, <1>6 DEF next

\* The cursor of a call made with tok.
CursorFor(tok, p, t) == IF tok = NoCursor THEN NewFederatedCursor(p, t) ELSE tok

\* Whatever the fetches of a call bring, the page it renders is sound and is the
\* page of the token the call was made with.
LEMMA RenderSound ==
    ASSUME AllUntagged, NEW tok, tok # NoCursor => SoundCursor(tok) /\ HasMore(tok),
           NEW p, NEW t, NEW cur,
           cur = CursorFor(tok, p, t),
           NEW res \in Results(cur)
    PROVE  /\ SearchResult(cur, tok, res).self = tok
           /\ SoundPage(SearchResult(cur, tok, res))
<1> DEFINE page == SearchResult(cur, tok, res)
           m == mergeResults(cur, res)
<1>1. SoundCursor(cur)
  BY NewCursorSound DEF CursorFor
<1>2. CASE ActiveOrigins(cur) = {}
  <2>1. tok = NoCursor
    BY <1>2 DEF ActiveOrigins, HasMore, CursorFor
  <2>2. page.self = NoCursor /\ page.prev = NoCursor /\ page.next = NoCursor
    BY <1>2 DEF SearchResult
  <2>. QED
    BY <2>1, <2>2 DEF SoundPage
<1>3. CASE ActiveOrigins(cur) # {}
  <2>1. /\ page.self = tok
        /\ page.items = m.items
        /\ page.prev = cur.prev
        /\ page.next = NextCursor(m.cursor, tok)
    BY <1>3 DEF SearchResult
  <2>2. SoundCursor(m.cursor) /\ m.cursor.seq = cur.seq /\ Conserves(cur, m.items, m.cursor)
    BY <1>1, MergeConserves
  <2> HIDE DEF page, m
  <2>3. page.prev = IF page.self = NoCursor THEN NoCursor ELSE page.self.prev
    BY <2>1, NewCursorSound DEF CursorFor
  <2>4. CursorOf(page).org = cur.org /\ CursorOf(page).seq = cur.seq
    BY <2>1, NewCursorSound DEF CursorOf, CursorFor
  <2>5. ASSUME page.next # NoCursor
        PROVE  /\ SoundCursor(page.next)
               /\ HasMore(page.next)
               /\ page.next.prev = page.self
               /\ page.next.seq = CursorOf(page).seq + 1
               /\ Conserves(CursorOf(page), page.items, page.next)
    <3>1. HasMore(m.cursor)
      BY <2>1, <2>5 DEF NextCursor
    <3>2. /\ SoundCursor(page.next) /\ HasMore(page.next)
          /\ page.next.prev = tok
          /\ page.next.seq = m.cursor.seq + 1
          /\ \A o \in Origins : /\ page.next.org[o].pos = m.cursor.org[o].pos
                                /\ page.next.org[o].stash = m.cursor.org[o].stash
      BY <2>1, <2>2, <3>1, NextCursorSound
    <3>3. Stashes(page.next) = Stashes(m.cursor) /\ Stashes(CursorOf(page)) = Stashes(cur)
      BY <2>4, <3>2 DEF Stashes
    <3>4. Conserves(CursorOf(page), page.items, page.next)
      BY <2>1, <2>2, <2>4, <3>2, <3>3 DEF Conserves
    <3>. QED
      BY <2>1, <2>2, <2>4, <3>2, <3>4
  <2>6. SoundPage(page)
    BY <2>3, <2>5 DEF SoundPage
  <2>. QED
    BY <2>1, <2>6 DEF page
<1>. QED
  BY <1>2, <1>3

-----------------------------------------------------------------------------
(* Walks.                                                                     *)

\* The token that continues a sound walk is a sound cursor that has a page.
LEMMA ContinuingToken ==
    ASSUME NEW walk, SoundWalk(walk), NEW tok, Continues(walk, tok), tok # NoCursor
    PROVE  SoundCursor(tok) /\ HasMore(tok)
<1>1. walk # <<>> /\ tok = walk[Len(walk)].page.next
  BY DEF Continues
<1>2. Len(walk) \in 1 .. Len(walk)
  BY <1>1 DEF SoundWalk
<1>3. SoundPage(walk[Len(walk)].page)
  BY <1>2 DEF SoundWalk
<1>. QED
  BY <1>1, <1>3 DEF SoundPage

\* Going back along a sound walk leaves a sound walk.
LEMMA PrefixSound ==
    ASSUME NEW walk, SoundWalk(walk), NEW n \in 0 .. Len(walk)
    PROVE  SoundWalk(SubSeq(walk, 1, n))
<1> DEFINE w == SubSeq(walk, 1, n)
<1>1. walk \in Seq({walk[k] : k \in 1 .. Len(walk)})
  BY DEF SoundWalk
<1>2. Len(w) = n /\ \A k \in 1 .. n : w[k] = walk[k]
  BY <1>1
<1>3. w \in Seq({w[k] : k \in 1 .. Len(w)})
  <2>1. \A S : \A v \in Seq(S) : v \in Seq({v[k] : k \in 1 .. Len(v)})
    OBVIOUS
  <2>2. w \in Seq({walk[k] : k \in 1 .. Len(walk)})
    BY <1>1
  <2>. QED
    BY <2>1, <2>2
<1> HIDE DEF w
<1>4. n \in Nat /\ \A k \in 1 .. n : k \in 1 .. Len(walk)
  BY <1>1
<1>5. \A k \in 1 .. n : Shown(w, k) = Shown(walk, k)
  <2>1. \A k \in 1 .. n : \A j \in 1 .. k : w[j] = walk[j]
    BY <1>2, <1>4
  <2>. QED
    BY <2>1 DEF Shown
<1>6. \A k \in 1 .. n : k > 1 => w[k - 1] = walk[k - 1]
  BY <1>2, <1>4
<1>7. SoundWalk(w)
  <2>1. SUFFICES ASSUME NEW k \in 1 .. n
                 PROVE  /\ SoundPage(w[k].page)
                        /\ w[k].page.self = IF k = 1 THEN NoCursor ELSE w[k - 1].page.next
                        /\ k > 1 => w[k].page.self # NoCursor
                        /\ w[k].page.next # NoCursor =>
                              /\ w[k].page.next.seq = k
                              /\ Lossless(w[k].page.next, Shown(w, k))
    BY <1>2, <1>3 DEF SoundWalk
  <2>2. /\ SoundPage(walk[k].page)
        /\ walk[k].page.self = IF k = 1 THEN NoCursor ELSE walk[k - 1].page.next
        /\ k > 1 => walk[k].page.self # NoCursor
        /\ walk[k].page.next # NoCursor =>
              /\ walk[k].page.next.seq = k
              /\ Lossless(walk[k].page.next, Shown(walk, k))
    BY <1>4 DEF SoundWalk
  <2>3. /\ w[k] = walk[k] /\ Shown(w, k) = Shown(walk, k)
        /\ k # 1 => w[k - 1] = walk[k - 1]
    BY <1>2, <1>4, <1>5, <1>6
  <2>. QED
    BY <2>2, <2>3
<1>. QED
  BY <1>7 DEF w

\* The page of the token that continues a sound walk extends it to a sound walk.
LEMMA ExtendWalk ==
    ASSUME NEW base, SoundWalk(base), NEW entry, SoundPage(entry.page),
           Continues(base, entry.page.self)
    PROVE  SoundWalk(Append(base, entry))
<1> DEFINE w == Append(base, entry)
           n == Len(base)
           page == entry.page
           from == CursorOf(page)
<1>1. base \in Seq({base[k] : k \in 1 .. Len(base)})
  BY DEF SoundWalk
<1>2. /\ n \in Nat /\ Len(w) = n + 1 /\ w[n + 1] = entry
      /\ \A k \in 1 .. n : w[k] = base[k]
  BY <1>1
<1>3. w \in Seq({w[k] : k \in 1 .. Len(w)})
  <2>1. \A S : \A v \in Seq(S) : v \in Seq({v[k] : k \in 1 .. Len(v)})
    OBVIOUS
  <2>2. w \in Seq({base[k] : k \in 1 .. Len(base)} \cup {entry})
    BY <1>1
  <2>. QED
    BY <2>1, <2>2
<1>4. n = 0 <=> base = <<>>
  BY <1>1
<1> HIDE DEF w, n
<1>5. /\ n = 0 => page.self = NoCursor
      /\ n # 0 => page.self # NoCursor /\ page.self = base[n].page.next
  BY <1>4 DEF Continues, n
<1>6. n # 0 => n \in 1 .. n
  BY <1>2
<1>7. \A k \in 1 .. n : Shown(w, k) = Shown(base, k)
  <2>1. \A k \in 1 .. n : \A j \in 1 .. k : w[j] = base[j]
    BY <1>2
  <2>. QED
    BY <2>1 DEF Shown
<1>8. page.items \subseteq Shown(w, n + 1)
  BY <1>2 DEF Shown
<1>9. n # 0 => Shown(base, n) \subseteq Shown(w, n + 1)
  <2>1. \A j \in 1 .. n : j \in 1 .. n + 1 /\ w[j] = base[j]
    BY <1>2
  <2>. QED
    BY <2>1 DEF Shown
<1>10. n # 0 => /\ from = page.self
               /\ SoundCursor(from)
               /\ from.seq = n
               /\ Lossless(from, Shown(base, n))
  <2>1. SUFFICES ASSUME n # 0
                 PROVE  /\ SoundCursor(page.self)
                        /\ page.self.seq = n
                        /\ Lossless(page.self, Shown(base, n))
    BY <1>5 DEF CursorOf
  <2>2. n \in 1 .. Len(base)
    BY <1>6, <2>1 DEF n
  <2>3. SoundPage(base[n].page) /\ base[n].page.next # NoCursor
    BY <1>5, <2>1, <2>2 DEF SoundWalk
  <2>4. base[n].page.next.seq = n /\ Lossless(base[n].page.next, Shown(base, n))
    BY <2>2, <2>3 DEF SoundWalk
  <2>5. SoundCursor(base[n].page.next)
    BY <2>3 DEF SoundPage
  <2>. QED
    BY <1>5, <2>1, <2>4, <2>5
<1>11. n = 0 => from.seq = 0 /\ \A o \in Origins : from.org[o].pos = 0
  BY <1>5, NewCursorSound DEF CursorOf, NewOriginCursor
<1>12. \A o \in Origins : from.org[o].pos \in Nat
  BY <1>10, <1>11 DEF SoundCursor, OriginCursor
<1>13. ASSUME page.next # NoCursor
       PROVE  page.next.seq = n + 1 /\ Lossless(page.next, Shown(w, n + 1))
  <2>1. /\ SoundCursor(page.next)
        /\ page.next.seq = from.seq + 1
        /\ Conserves(from, page.items, page.next)
    BY <1>13 DEF SoundPage
  <2>2. page.next.seq = n + 1
    BY <1>10, <1>11, <2>1
  <2> DEFINE K == Keys(Shown(w, n + 1) \cup Stashes(page.next))
  <2>3. Keys(page.items \cup Stashes(page.next)) \subseteq K
    BY <1>8 DEF Keys
  <2>4. ASSUME NEW o \in Origins, NEW i \in 1 .. page.next.org[o].pos
        PROVE  Key(<<o, i>>) \in K
    <3>1. page.next.org[o].pos \in Nat
      BY <2>1 DEF SoundCursor, OriginCursor
    <3>2. CASE i > from.org[o].pos
      <4>1. i \in (from.org[o].pos + 1) .. page.next.org[o].pos
        BY <1>12, <2>4, <3>1, <3>2
      <4>. QED
        BY <2>1, <2>3, <4>1 DEF Conserves
    <3>3. CASE i =< from.org[o].pos
      <4>1. n # 0 /\ i \in 1 .. from.org[o].pos
        BY <1>11, <1>12, <2>4, <3>1, <3>3
      <4>2. Key(<<o, i>>) \in Keys(Shown(base, n) \cup Stashes(from))
        BY <1>10, <4>1 DEF Lossless
      <4>3. Keys(Stashes(from)) \subseteq K
        BY <2>1, <2>3 DEF Conserves
      <4>4. Keys(Shown(base, n)) \subseteq K
        BY <1>9, <4>1 DEF Keys
      <4>5. Keys(Shown(base, n) \cup Stashes(from)) = Keys(Shown(base, n)) \cup Keys(Stashes(from))
        BY DEF Keys
      <4>. QED
        BY <4>2, <4>3, <4>4, <4>5
    <3>. QED
      BY <1>12, <2>4, <3>1, <3>2, <3>3
  <2>. QED
    BY <2>2, <2>4 DEF Lossless
<1>14. SoundWalk(w)
  <2>1. SUFFICES ASSUME NEW k \in 1 .. n + 1
                 PROVE  /\ SoundPage(w[k].page)
                        /\ w[k].page.self = IF k = 1 THEN NoCursor ELSE w[k - 1].page.next
                        /\ k > 1 => w[k].page.self # NoCursor
                        /\ w[k].page.next # NoCursor =>
                              /\ w[k].page.next.seq = k
                              /\ Lossless(w[k].page.next, Shown(w, k))
    BY <1>2, <1>3 DEF SoundWalk
  <2>2. CASE k \in 1 .. n
    <3>1. /\ SoundPage(base[k].page)
          /\ base[k].page.self = IF k = 1 THEN NoCursor ELSE base[k - 1].page.next
          /\ k > 1 => base[k].page.self # NoCursor
          /\ base[k].page.next # NoCursor =>
                /\ base[k].page.next.seq = k
                /\ Lossless(base[k].page.next, Shown(base, k))
      BY <2>2 DEF SoundWalk, n
    <3>2. /\ w[k] = base[k] /\ Shown(w, k) = Shown(base, k)
          /\ k # 1 => w[k - 1] = base[k - 1]
      BY <1>2, <1>7, <2>2
    <3>. QED
      BY <3>1, <3>2
  <2>3. CASE k = n + 1
    <3>1. w[k] = entry /\ (k # 1 => w[k - 1] = base[n])
      BY <1>2, <2>3
    <3>2. (k = 1 <=> n = 0) /\ (k > 1 <=> n # 0)
      BY <1>2, <2>3
    <3>. QED
      BY <1>5, <1>13, <2>3, <3>1, <3>2
  <2>. QED
    BY <1>2, <2>1, <2>2, <2>3
<1>. QED
  BY <1>14 DEF w

\* The page before another page of a sound walk: its cursor is the other's prev.
LEMMA WalkPrev ==
    ASSUME NEW walk, SoundWalk(walk), NEW k \in 2 .. Len(walk)
    PROVE  /\ walk[k].page.prev = walk[k - 1].page.self
           /\ walk[k].page.self = walk[k - 1].page.next
           /\ walk[k].page.self # NoCursor
           /\ walk[k].page.self.seq = k - 1
<1>1. /\ k \in Nat /\ k > 1 /\ k # 1
      /\ k \in 1 .. Len(walk) /\ k - 1 \in 1 .. Len(walk)
  BY DEF SoundWalk
<1>2. /\ SoundPage(walk[k].page) /\ SoundPage(walk[k - 1].page)
      /\ walk[k].page.self = walk[k - 1].page.next
      /\ walk[k].page.self # NoCursor
  BY <1>1 DEF SoundWalk
<1>3. walk[k - 1].page.next.seq = k - 1
  BY <1>1, <1>2 DEF SoundWalk
<1>. QED
  BY <1>2, <1>3 DEF SoundPage

\* Every link a client can follow continues the walk its answer belongs to.
LEMMA LinksSound ==
    ASSUME SearchInv, NEW c \in Clients, NEW q \in Links(c)
    PROVE  SoundWalk(q.base) /\ Continues(q.base, q.tok)
<1>1. \A d \in Clients : /\ SoundWalk(trail[d])
                         /\ Len(trail[d]) \in Nat
                         /\ trail[d] # <<>> => Len(trail[d]) # 0
  <2>1. \A S : \A w \in Seq(S) : Len(w) \in Nat /\ (w # <<>> => Len(w) # 0)
    OBVIOUS
  <2>2. \A d \in Clients : SoundWalk(trail[d])
    BY DEF SearchInv
  <2>. QED
    BY <2>1, <2>2, Zenon DEF SoundWalk
<1>2. CASE q \in FirstLink
  <2>1. q.tok = NoCursor /\ q.base = <<>>
    BY <1>2 DEF FirstLink
  <2>2. SoundWalk(<<>>)
    BY DEF SoundWalk
  <2>. QED
    BY <2>1, <2>2 DEF Continues
<1>3. CASE q \in NextLink(c)
  <2>1. /\ trail[c] # <<>> /\ Last(c).next # NoCursor
        /\ q = [tok |-> Last(c).next, base |-> trail[c]]
    BY <1>3 DEF NextLink
  <2>. QED
    BY <1>1, <2>1 DEF Continues, Last
<1>4. ASSUME NEW d \in Clients, NEW k \in 2 .. Len(trail[d]),
             q.tok = trail[d][k].page.self, q.base = SubSeq(trail[d], 1, k - 1)
      PROVE  SoundWalk(q.base) /\ Continues(q.base, q.tok)
  <2>1. k - 1 \in 0 .. Len(trail[d]) /\ k - 1 \in 1 .. Len(trail[d]) /\ k - 1 > 0
    BY <1>1
  <2>2. SoundWalk(q.base)
    BY <1>1, <1>4, <2>1, PrefixSound
  <2>3. trail[d] \in Seq({trail[d][j] : j \in 1 .. Len(trail[d])})
    BY <1>1 DEF SoundWalk
  <2>4. Len(q.base) = k - 1 /\ q.base[k - 1] = trail[d][k - 1] /\ q.base # <<>>
    <3>1. \A S : \A w \in Seq(S) : \A j \in 1 .. Len(w) :
             Len(SubSeq(w, 1, j)) = j /\ SubSeq(w, 1, j)[j] = w[j] /\ SubSeq(w, 1, j) # <<>>
      OBVIOUS
    <3>2. /\ Len(SubSeq(trail[d], 1, k - 1)) = k - 1
          /\ SubSeq(trail[d], 1, k - 1)[k - 1] = trail[d][k - 1]
          /\ SubSeq(trail[d], 1, k - 1) # <<>>
      BY <2>1, <2>3, <3>1
    <3>. QED
      BY <1>4, <3>2
  <2>5. q.tok # NoCursor /\ q.tok = trail[d][k - 1].page.next
    BY <1>1, <1>4, WalkPrev
  <2>. QED
    BY <2>2, <2>4, <2>5 DEF Continues
<1>5. ASSUME NEW d \in Clients, trail[d] # <<>>, Last(d).self # NoCursor
      PROVE  Len(trail[d]) \in 2 .. Len(trail[d])
  <2>1. Len(trail[d]) \in 1 .. Len(trail[d])
    BY <1>1, <1>5
  <2>2. Len(trail[d]) # 1
    BY <1>1, <1>5, <2>1 DEF SoundWalk, Last
  <2>3. \A n \in Nat : n \in 1 .. n /\ n # 1 => n \in 2 .. n
    OBVIOUS
  <2>. QED
    BY <1>1, <2>1, <2>2, <2>3, Zenon
<1>6. CASE q \in PrevLink(c)
  <2>1. /\ trail[c] # <<>> /\ Last(c).prev # NoCursor
        /\ q.tok = Last(c).prev /\ q.base = Back(c, 2)
    BY <1>6 DEF PrevLink
  <2> DEFINE n == Len(trail[c])
  <2>2. n \in 1 .. n
    BY <1>1, <2>1
  <2>3. SoundPage(Last(c))
    BY <1>1, <2>2 DEF SoundWalk, Last
  <2>4. Last(c).self # NoCursor
    BY <2>1, <2>3 DEF SoundPage
  <2>5. n \in 2 .. n
    BY <1>5, <2>1, <2>4
  <2>6. q.tok = trail[c][n - 1].page.self /\ q.tok # NoCursor
    BY <1>1, <2>1, <2>5, WalkPrev DEF Last
  <2>7. n - 1 \in 1 .. n
    BY <2>5
  <2>8. n - 1 # 1
    BY <1>1, <2>6, <2>7 DEF SoundWalk
  <2>9. n - 1 \in 2 .. n /\ (n - 1) - 1 = n - 2
    <3>1. \A j \in Nat : j \in 2 .. j /\ j - 1 # 1 => j - 1 \in 2 .. j /\ (j - 1) - 1 = j - 2
      OBVIOUS
    <3>. QED
      BY <1>1, <2>5, <2>8, <3>1, Zenon
  <2>. QED
    BY <1>4, <2>1, <2>6, <2>9 DEF Back
<1>7. CASE \E d \in Clients : q \in SelfLink(d)
  <2>1. PICK d \in Clients : q \in SelfLink(d)
    BY <1>7
  <2>2. /\ trail[d] # <<>> /\ Last(d).self # NoCursor
        /\ q.tok = Last(d).self /\ q.base = Back(d, 1)
    BY <2>1 DEF SelfLink
  <2>3. Len(trail[d]) \in 2 .. Len(trail[d])
    BY <1>5, <2>2
  <2>. QED
    BY <1>4, <2>2, <2>3 DEF Back, Last
<1>. QED
  BY <1>2, <1>3, <1>6, <1>7 DEF Links

-----------------------------------------------------------------------------
(* The steps.                                                                 *)

\* Delivering a sound page to the walk it belongs to keeps all walks sound.
LEMMA DeliverSound ==
    ASSUME SearchInv, NEW c \in Clients, NEW base, SoundWalk(base), NEW page,
           SoundPage(page), Continues(base, page.self), NEW res,
           NEW p, Deliver(c, base, p, page, res)
    PROVE  DOMAIN trail' = Clients /\ \A d \in Clients : SoundWalk(trail'[d])
<1>1. CASE trail' = trail
  BY <1>1 DEF SearchInv
<1>2. CASE trail' = [trail EXCEPT ![c] = Append(base, Entry(base, p, page, res))]
  <2>1. Entry(base, p, page, res).page = page
    BY DEF Entry
  <2>2. SoundWalk(Append(base, Entry(base, p, page, res)))
    BY <2>1, ExtendWalk
  <2>. QED
    BY <1>2, <2>2 DEF SearchInv
<1>. QED
  BY <1>1, <1>2 DEF Deliver

\* What a call carries while it fans out.
CallSound(cl) ==
    /\ SoundWalk(cl.base)
    /\ Continues(cl.base, cl.tok)
    /\ cl.cursor = IF cl.tok = NoCursor
                   THEN NewFederatedCursor(cl.cursor.principal, cl.cursor.expires - CursorTTL)
                   ELSE cl.tok

\* What a cache entry holds.
CachedSound(tok, page) ==
    /\ tok # NoCursor
    /\ page.self = tok
    /\ SoundPage(page)

\* SearchInv in these terms.
LEMMA SearchInvParts ==
    SearchInv <=> /\ now \in Nat
                  /\ DOMAIN trail = Clients /\ DOMAIN call = Clients
                  /\ \A c \in Clients : SoundWalk(trail[c])
                  /\ \A c \in Clients : call[c] # None => CallSound(call[c])
                  /\ \A tok \in DOMAIN cache : CachedSound(tok, cache[tok].page)
  BY DEF SearchInv, CallSound, CachedSound

\* A page the cache answers with belongs to the walk the link continues.
LEMMA ServeCachedStep ==
    ASSUME SearchInv, NEW c \in Clients, NEW p, NEW q \in Links(c), ServeCached(c, p, q)
    PROVE  SearchInv'
<1>1. SoundWalk(q.base) /\ Continues(q.base, q.tok)
  BY LinksSound
<1>2. CachedSound(q.tok, cache[q.tok].page)
  BY SearchInvParts DEF ServeCached, Hit
<1>3. DOMAIN trail' = Clients /\ \A d \in Clients : SoundWalk(trail'[d])
  BY <1>1, <1>2, DeliverSound DEF ServeCached, CachedSound
<1>. QED
  BY <1>3 DEF ServeCached, SearchInv

\* A call starts with the cursor of the link it follows.
LEMMA FetchStep ==
    ASSUME SearchInv, NEW c \in Clients, NEW p, NEW q \in Links(c), Fetch(c, p, q)
    PROVE  SearchInv'
<1> DEFINE cl == [phase |-> "fetching", tok |-> q.tok, base |-> q.base,
                  principal |-> p,
                  cursor |-> IF q.tok = NoCursor
                             THEN NewFederatedCursor(p, now)
                             ELSE q.tok]
<1>1. SoundWalk(q.base) /\ Continues(q.base, q.tok)
  BY LinksSound
<1>2. now \in Nat /\ CursorTTL \in Nat
  BY LimitAssumption DEF SearchInv
<1>3. CallSound(cl)
  <2>1. LET new == NewFederatedCursor(p, now)
        IN  new.principal = p /\ new.expires - CursorTTL = now
    BY <1>2 DEF NewFederatedCursor
  <2>. QED
    BY <1>1, <2>1 DEF CallSound
<1> HIDE DEF cl
<1>4. /\ call' = [call EXCEPT ![c] = cl]
      /\ cache' = Forget(cache, q.tok)
      /\ now' = now /\ trail' = trail
  BY DEF Fetch, cl
<1>5. DOMAIN call' = Clients /\ \A d \in Clients : call'[d] # None => CallSound(call'[d])
  BY <1>3, <1>4, SearchInvParts
<1>6. \A tok \in DOMAIN cache' : CachedSound(tok, cache'[tok].page)
  BY <1>4, SearchInvParts DEF Forget
<1>. QED
  BY <1>4, <1>5, <1>6, SearchInvParts DEF SearchInv, CallSound, CachedSound

\* A call answers with the page of its token and caches that page under it.
LEMMA RenderStep ==
    ASSUME AllUntagged, SearchInv, NEW c \in Clients, Render(c)
    PROVE  SearchInv'
<1>1. PICK res \in Results(call[c].cursor) : RenderWith(c, res)
  BY DEF Render
<1> DEFINE cl == call[c]
           page == SearchResult(cl.cursor, cl.tok, res)
<1>2. CallSound(cl)
  BY SearchInvParts DEF Render
<1>3. page.self = cl.tok /\ SoundPage(page)
  <2>1. cl.tok # NoCursor => SoundCursor(cl.tok) /\ HasMore(cl.tok)
    BY <1>2, ContinuingToken DEF CallSound
  <2>2. PICK p, t : cl.cursor = CursorFor(cl.tok, p, t)
    BY <1>2 DEF CallSound, CursorFor
  <2> HIDE DEF cl
  <2>3. res \in Results(cl.cursor)
    BY <1>1 DEF cl
  <2>4. \A tok : (tok # NoCursor => SoundCursor(tok) /\ HasMore(tok)) =>
          \A r \in Results(CursorFor(tok, p, t)) :
             /\ SearchResult(CursorFor(tok, p, t), tok, r).self = tok
             /\ SoundPage(SearchResult(CursorFor(tok, p, t), tok, r))
    BY RenderSound
  <2>. QED
    BY <2>1, <2>2, <2>3, <2>4
<1>4. /\ Deliver(c, cl.base, cl.principal, page, res)
      /\ IF Cacheable(page) THEN PutToPageCache(page.self, cl.cursor.expires, page)
         ELSE UNCHANGED cache
      /\ call' = [call EXCEPT ![c] = None]
      /\ now' = now
  BY <1>1 DEF RenderWith
<1> HIDE DEF page, cl
<1>5. DOMAIN trail' = Clients /\ \A d \in Clients : SoundWalk(trail'[d])
  BY <1>2, <1>3, <1>4, DeliverSound DEF CallSound
<1>6. DOMAIN call' = Clients /\ \A d \in Clients : call'[d] # None => CallSound(call'[d])
  BY <1>4, SearchInvParts
<1>7. \A tok \in DOMAIN cache' : CachedSound(tok, cache'[tok].page)
  <2>1. \A tok \in DOMAIN cache : CachedSound(tok, cache[tok].page)
    BY SearchInvParts
  <2>2. CASE UNCHANGED cache
    BY <2>1, <2>2
  <2>3. CASE Cacheable(page) /\ ~ UNCHANGED cache
    <3>1. CachedSound(page.self, page)
      BY <1>3, <2>3 DEF Cacheable, CachedSound
    <3> DEFINE others == Forget(cache, page.self)
               kept == IF Cardinality(DOMAIN others) < CacheSize THEN {others}
                       ELSE {Forget(others, t) : t \in DOMAIN others}
               entry == [page |-> page,
                         until |-> now + EntryTTL(cl.cursor.expires - now)]
    <3>2. PICK entries \in kept :
             cache' = [t \in DOMAIN entries \cup {page.self} |->
                          IF t = page.self THEN entry ELSE entries[t]]
      BY <1>4, <2>3 DEF PutToPageCache
    <3>3. \A t \in DOMAIN entries : t \in DOMAIN cache /\ entries[t] = cache[t]
      BY DEF Forget
    <3>4. entry.page = page
      OBVIOUS
    <3> HIDE DEF entry, kept
    <3>. QED
      BY <2>1, <3>1, <3>2, <3>3, <3>4
  <2>. QED
    BY <1>4, <2>2, <2>3
<1>. QED
  BY <1>4, <1>5, <1>6, <1>7, SearchInvParts DEF SearchInv, CallSound, CachedSound

-----------------------------------------------------------------------------
(* The theorems.                                                              *)

\* A proxy without clients, calls or cached pages satisfies the invariant.
LEMMA SearchInvInit == Init => SearchInv
<1>1. SUFFICES ASSUME Init PROVE SearchInv
  OBVIOUS
<1>2. SoundWalk(<<>>)
  BY DEF SoundWalk
<1>3. /\ now = 0 /\ cache = <<>>
      /\ call = [c \in Clients |-> None] /\ trail = [c \in Clients |-> <<>>]
  BY <1>1 DEF Init
<1>. QED
  BY <1>2, <1>3 DEF SearchInv

\* No step of Search or of time breaks the invariant.
LEMMA SearchInvNext == AllUntagged /\ SearchInv /\ [Next]_vars => SearchInv'
<1>1. SUFFICES ASSUME AllUntagged, SearchInv, [Next]_vars PROVE SearchInv'
  OBVIOUS
<1>2. CASE \E c \in Clients : \E p \in Principals, q \in Links(c) : ServeCached(c, p, q)
  BY <1>1, <1>2, ServeCachedStep
<1>3. CASE \E c \in Clients : \E p \in Principals, q \in Links(c) : Fetch(c, p, q)
  BY <1>1, <1>3, FetchStep
<1>4. CASE \E c \in Clients : Render(c)
  BY <1>1, <1>4, RenderStep
<1>5. CASE Tick
  BY <1>1, <1>5 DEF Tick, SearchInv
<1>6. CASE UNCHANGED vars
  BY <1>1, <1>6 DEF vars, SearchInv
<1>. QED
  BY <1>1, <1>2, <1>3, <1>4, <1>5, <1>6 DEF Next

\* Every walk, running call and cache entry stays sound: pages chain along
\* their cursors and each cursor keeps what it moves past.
THEOREM SearchInvariant == ASSUME AllUntagged PROVE Spec => []SearchInv
<1>1. AllUntagged
  OBVIOUS
<1>. QED
  BY <1>1, SearchInvInit, SearchInvNext, PTL DEF Spec

\* mergeResults and the stash lose nothing: for any catalogs without origin
\* links, page size and number of origins and clients, an item a cursor has
\* moved past was shown on the walk or is stashed.
THEOREM NothingIsLost == ASSUME AllUntagged PROVE Spec => []NoItemLost
<1>1. ASSUME SearchInv PROVE NoItemLost
  <2>1. SUFFICES ASSUME NEW c \in Clients, Looking(c), Last(c).next # NoCursor
                 PROVE  Lossless(Last(c).next, Walked(c))
    BY DEF NoItemLost, Lossless
  <2>2. SoundWalk(trail[c])
    BY <1>1 DEF SearchInv
  <2>3. Len(trail[c]) \in 1 .. Len(trail[c])
    BY <2>1, <2>2 DEF SoundWalk, Looking
  <2>4. Shown(trail[c], Len(trail[c])) = Walked(c)
    BY DEF Shown, Walked
  <2>. QED
    BY <2>1, <2>2, <2>3, <2>4 DEF SoundWalk, Last
<1>. QED
  BY <1>1, SearchInvariant, PTL

\* The cursors Search hands out lead along the walk: `self` is the page's place
\* in it and `prev` the page before, cached or not.
THEOREM LinksAreRight == ASSUME AllUntagged PROVE Spec => []LinksFollowWalk
<1>1. ASSUME SearchInv PROVE LinksFollowWalk
  BY <1>1, WalkPrev DEF SearchInv, LinksFollowWalk
<1>. QED
  BY <1>1, SearchInvariant, PTL

=============================================================================
