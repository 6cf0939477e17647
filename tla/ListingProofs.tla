---------------------------- MODULE ListingProofs ---------------------------
(***************************************************************************)
(* A proof that walking a list by offset misses no more rows than left the *)
(* list, for any tables, page sizes and numbers of writers.  The argument: *)
(* the rows that the reader has passed without seeing them (Passed) are no *)
(* more than the rows that left.  A row that leaves moves the rows behind  *)
(* it one place up, so that one more row slips past the reader; rows that  *)
(* are added move others back, where the reader meets them once more.      *)
(***************************************************************************)
EXTENDS Listing, FiniteSetTheorems, TLAPS

\* The rows of a table, and the reader.
RowType == [owner : Owners \union {"none"}, created : Nat, name : Names \union {"none"},
            status : Status \union {"none"}]

WalkType == [at : {"idle", "reading", "done"}, owner : Owners \union {"none"},
             filter : Status \union {""}, limit : Nat, offset : Nat,
             seen : SUBSET Ids, kept : SUBSET Ids, removed : Nat]

ListTypes == now \in Nat /\ rows \in [Ids -> RowType] /\ walk \in WalkType

\* The place of a row in a list, and the rows of the reader's list that it has
\* passed without seeing them.
Place(list, i) == Cardinality({j \in list : Before(j, i)})

Walked == Listed(walk.owner, walk.filter, rows)

Passed == {i \in walk.kept \ walk.seen : Place(Walked, i) < walk.offset}

WalkInv ==
  /\ ListTypes
  /\ walk.at = "reading" => walk.kept \subseteq Walked /\ Cardinality(Passed) <= walk.removed
  /\ MissedBounded

----------------------------------------------------------------------------
\* created_at and id order the rows.
LEMMA Ordered ==
  ASSUME ListTypes, Ids \subseteq Nat
  PROVE  /\ \A i \in Ids : ~Before(i, i)
         /\ \A i, j \in Ids : i # j => Before(i, j) \/ Before(j, i)
         /\ \A i, j, k \in Ids : Before(i, j) /\ Before(j, k) => Before(i, k)
<1>1. \A i \in Ids : rows[i].created \in Nat /\ i \in Nat
  BY DEF ListTypes, RowType
<1> QED BY <1>1 DEF Before

\* Lists are finite.
LEMMA FiniteLists ==
  ASSUME IsFiniteSet(Ids), NEW list \in SUBSET Ids, NEW i
  PROVE  /\ IsFiniteSet(list) /\ Cardinality(list) \in Nat
         /\ IsFiniteSet({j \in list : Before(j, i)})
         /\ Place(list, i) \in Nat
<1>1. IsFiniteSet(list)
  BY FS_Subset
<1>2. IsFiniteSet({j \in list : Before(j, i)})
  BY <1>1, FS_Subset
<1> QED BY <1>1, <1>2, FS_CardinalityType DEF Place

\* A row comes after every row that sorts before it.
LEMMA PlaceOrder ==
  ASSUME ListTypes, Ids \subseteq Nat, IsFiniteSet(Ids), NEW list \in SUBSET Ids,
         NEW i \in list, NEW j \in list, Before(i, j)
  PROVE  Place(list, i) < Place(list, j)
<1> DEFINE A == {k \in list : Before(k, i)}
           B == {k \in list : Before(k, j)}
<1>1. i \notin A /\ A \union {i} \subseteq B
  BY Ordered
<1>2. IsFiniteSet(A) /\ IsFiniteSet(B) /\ Cardinality(A) \in Nat /\ Cardinality(B) \in Nat
  BY FiniteLists DEF Place
<1> HIDE DEF A, B
<1>3. Cardinality(A \union {i}) = Cardinality(A) + 1
  BY <1>1, <1>2, FS_AddElement
<1>4. Cardinality(A \union {i}) <= Cardinality(B)
  BY <1>1, <1>2, FS_Subset
<1>5. Cardinality(A) < Cardinality(B)
  BY <1>2, <1>3, <1>4
<1> QED BY <1>5 DEF A, B, Place

\* No two rows of a list have one place, and every place is taken.
LEMMA Places ==
  ASSUME ListTypes, Ids \subseteq Nat, IsFiniteSet(Ids), NEW list \in SUBSET Ids
  PROVE  /\ \A i, j \in list : Place(list, i) = Place(list, j) => i = j
         /\ \A i \in list : Place(list, i) < Cardinality(list)
         /\ \A p \in Nat : p < Cardinality(list) => \E i \in list : Place(list, i) = p
<1> DEFINE n == Cardinality(list)
           f == [i \in list |-> Place(list, i)]
           T == 0..(n - 1)
<1>0. n \in Nat /\ IsFiniteSet(list) /\ \A i \in list : Place(list, i) \in Nat
  BY FiniteLists
<1>1. ASSUME NEW i \in list, NEW j \in list, Place(list, i) = Place(list, j) PROVE i = j
  <2>1. CASE Before(i, j)
    BY <1>0, <1>1, <2>1, PlaceOrder
  <2>2. CASE Before(j, i)
    BY <1>0, <1>1, <2>2, PlaceOrder
  <2> QED BY <2>1, <2>2, Ordered
<1>2. ASSUME NEW i \in list PROVE Place(list, i) < n
  <2> DEFINE A == {j \in list : Before(j, i)}
  <2>1. A \subseteq list /\ i \notin A
    BY Ordered
  <2>2. Cardinality(A) <= n /\ (n = Cardinality(A) => list = A)
    BY <1>0, <2>1, FS_Subset
  <2>3. Cardinality(A) # n /\ Cardinality(A) \in Nat
    BY <1>0, <2>1, <2>2 DEF Place
  <2> QED BY <1>0, <2>2, <2>3 DEF Place
<1>3. ASSUME NEW p \in Nat, p < n PROVE \E i \in list : Place(list, i) = p
  <2>1. f \in [list -> T]
    BY <1>0, <1>2
  <2>2. f \in Injection(list, T)
    BY <1>1, <2>1 DEF Injection, IsInjective
  <2>3. IsFiniteSet(T) /\ Cardinality(T) = n
    <3>1. n - 1 \in Int /\ 0 \in Int
      BY <1>0
    <3>2. IsFiniteSet(T) /\ Cardinality(T) = IF 0 > n - 1 THEN 0 ELSE n - 1 - 0 + 1
      BY <3>1, FS_Interval
    <3> QED BY <1>0, <3>2
  <2>4. f \in Surjection(list, T)
    BY <2>2, <2>3, FS_Injection
  <2>5. p \in T
    BY <1>0, <1>3
  <2> QED BY <2>4, <2>5 DEF Surjection
<1> QED BY <1>1, <1>2, <1>3

\* When no more rows come than a page shows, the page is the last.
LEMMA LastPage ==
  ASSUME ListTypes, Ids \subseteq Nat, IsFiniteSet(Ids), NEW list \in SUBSET Ids,
         NEW limit \in Nat, NEW offset \in Nat,
         Cardinality({i \in list : offset <= Place(list, i) /\ Place(list, i) < offset + (limit + 1)})
           <= limit
  PROVE  \A i \in list : Place(list, i) < offset + limit
<1> SUFFICES ASSUME NEW i \in list, ~(Place(list, i) < offset + limit) PROVE FALSE
  OBVIOUS
<1> DEFINE S == {j \in list : offset <= Place(list, j) /\ Place(list, j) < offset + (limit + 1)}
           T == offset..(offset + limit)
           f == [j \in S |-> Place(list, j)]
<1>0. Cardinality(list) \in Nat /\ \A j \in list : Place(list, j) \in Nat
  BY FiniteLists
<1>1. offset + limit < Cardinality(list)
  <2>1. Place(list, i) \in Nat /\ Place(list, i) < Cardinality(list)
    BY <1>0, Places
  <2> QED BY <1>0, <2>1
<1>2. f \in [S -> T]
  <2>1. ASSUME NEW j \in S PROVE Place(list, j) \in T
    BY <1>0
  <2> QED BY <2>1
<1>3. ASSUME NEW p \in T PROVE \E j \in S : f[j] = p
  <2>1. p \in Nat /\ p < Cardinality(list) /\ offset <= p /\ p < offset + (limit + 1)
    BY <1>0, <1>1
  <2>2. PICK j \in list : Place(list, j) = p
    BY <2>1, Places
  <2>3. j \in S
    BY <2>1, <2>2
  <2> QED BY <2>2, <2>3
<1>4. f \in Surjection(S, T)
  BY <1>2, <1>3 DEF Surjection
<1>5. IsFiniteSet(S) /\ Cardinality(S) \in Nat
  <2>1. S \in SUBSET Ids
    OBVIOUS
  <2> QED BY <2>1, FiniteLists
<1>6. Cardinality(T) <= Cardinality(S)
  BY <1>4, <1>5, FS_Surjection
<1>7. Cardinality(T) = limit + 1
  <2>1. offset \in Int /\ offset + limit \in Int
    OBVIOUS
  <2>2. Cardinality(T) = IF offset > offset + limit THEN 0 ELSE (offset + limit) - offset + 1
    BY <2>1, FS_Interval
  <2> QED BY <2>2
<1>8. Cardinality(S) <= limit
  OBVIOUS
<1> HIDE DEF S, T
<1> QED BY <1>5, <1>6, <1>7, <1>8


----------------------------------------------------------------------------
\* A writer replaces one row; a row that was there keeps its time of creation.
LEMMA WriteStep ==
  ASSUME WalkInv, Ids \subseteq Nat, IsFiniteSet(Ids), NEW i \in Ids, NEW row \in RowType,
         Write(i, row), rows[i] # NoRow /\ row # NoRow => row.created = rows[i].created
  PROVE  WalkInv'
<1>0. ListTypes /\ walk \in WalkType /\ rows \in [Ids -> RowType]
  BY DEF WalkInv, ListTypes
<1>1. /\ rows' \in [Ids -> RowType] /\ rows'[i] = row /\ UNCHANGED now
      /\ \A j \in Ids : j # i => rows'[j] = rows[j]
  BY <1>0 DEF Write
<1>2. CASE walk.at # "reading"
  <2>1. UNCHANGED walk
    BY <1>2 DEF Write, Observe
  <2> QED BY <1>1, <1>2, <2>1 DEF WalkInv, ListTypes, MissedBounded
<1>3. CASE walk.at = "reading"
  <2>1. PICK L, N, gone : /\ L = Walked /\ N = Listed(walk.owner, walk.filter, rows')
                          /\ gone = L \ N
    OBVIOUS
  <2>2. walk' = [walk EXCEPT !.kept = walk.kept \ gone,
                             !.removed = walk.removed + Cardinality(gone)]
    BY <1>3, <2>1 DEF Write, Observe, Walked
  <2>3. L \in SUBSET Ids /\ N \in SUBSET Ids /\ L \ {i} = N \ {i}
    BY <1>1, <2>1 DEF Walked, Listed
  <2>4. gone \subseteq {i}
    BY <2>1, <2>3
  <2>5. Cardinality(gone) = IF i \in gone THEN 1 ELSE 0
    <3>1. gone = {i} \/ gone = {}
      BY <2>4
    <3> QED BY <3>1, FS_EmptySet, FS_Singleton
  <2>6. walk.removed \in Nat /\ walk.offset \in Nat /\ walk.kept \subseteq L
        /\ Cardinality(Passed) <= walk.removed
    BY <1>0, <1>3, <2>1 DEF WalkInv, WalkType
  <2>7. /\ walk' \in WalkType /\ walk'.at = "reading"
        /\ walk'.owner = walk.owner /\ walk'.filter = walk.filter
        /\ walk'.offset = walk.offset /\ walk'.seen = walk.seen
        /\ walk'.kept = walk.kept \ gone /\ walk'.removed = walk.removed + Cardinality(gone)
    <3>1. walk.removed + Cardinality(gone) \in Nat
      BY <2>5, <2>6
    <3> QED BY <1>0, <1>3, <2>2, <3>1 DEF WalkType
  <2>8. Walked' = N
    BY <2>1, <2>7 DEF Walked, Listed
  <2>9. walk'.kept \subseteq N
    BY <2>1, <2>6, <2>7
  <2>10. \A j \in Ids : i \in L /\ i \in N => rows'[j].created = rows[j].created
    BY <1>1, <2>1 DEF Walked, Listed
  <2>11. ASSUME NEW j \in L, NEW k \in L, j \in N, k \in N
         PROVE  Before(j, k)' <=> Before(j, k)
    <3>1. rows'[j].created = rows[j].created /\ rows'[k].created = rows[k].created
      BY <1>1, <2>3, <2>10, <2>11
    <3> QED BY <3>1 DEF Before
  <2>12. ASSUME NEW j \in Ids PROVE Place(N, j)' = Cardinality({k \in N : Before(k, j)'})
    BY DEF Place
  <2>13. IsFiniteSet(Passed) /\ Cardinality(Passed) \in Nat
    <3>1. IsFiniteSet(L) /\ Passed \subseteq L
      BY <2>3, <2>6, FiniteLists DEF Passed
    <3> QED BY <3>1, FS_Subset, FS_CardinalityType
  <2>14. Cardinality(Passed') <= walk'.removed
    <3>1. CASE gone = {}
      <4>1. ASSUME NEW j \in L PROVE Place(L, j) <= Place(N, j)'
        <5>1. L \subseteq N
          BY <2>1, <3>1
        <5>2. {k \in L : Before(k, j)} \subseteq {k \in N : Before(k, j)'}
          BY <2>11, <4>1, <5>1
        <5>3. IsFiniteSet({k \in N : Before(k, j)'})
          <6>1. IsFiniteSet(N)
            BY <2>3, FiniteLists
          <6> QED BY <6>1, FS_Subset
        <5> QED BY <5>2, <5>3, FS_Subset DEF Place
      <4>2. Passed' \subseteq Passed
        <5> SUFFICES ASSUME NEW j \in Passed' PROVE j \in Passed
          OBVIOUS
        <5>1. j \in walk.kept \ walk.seen /\ Place(N, j)' < walk.offset
          BY <2>7, <2>8 DEF Passed
        <5>2. j \in L /\ Place(L, j) <= Place(N, j)'
          BY <2>6, <4>1, <5>1
        <5>3. Place(L, j) \in Nat /\ Place(N, j)' \in Nat
          BY <2>3, FiniteLists, FS_Subset, FS_CardinalityType DEF Place
        <5> QED BY <2>1, <2>6, <5>1, <5>2, <5>3 DEF Passed
      <4>3. Cardinality(Passed') <= Cardinality(Passed) /\ Cardinality(Passed') \in Nat
        BY <2>13, <4>2, FS_Subset, FS_CardinalityType
      <4> QED BY <2>5, <2>6, <2>7, <2>13, <3>1, <4>3
    <3>2. CASE gone = {i}
      <4>1. i \in L /\ i \notin N /\ N = L \ {i}
        BY <2>1, <2>3, <3>2
      <4>2. ASSUME NEW j \in N PROVE Place(L, j) <= Place(N, j)' + 1
        <5> DEFINE A == {k \in L : Before(k, j)}
                   B == {k \in N : Before(k, j)'}
        <5>1. A \subseteq B \union {i}
          BY <2>11, <4>1, <4>2
        <5>2. IsFiniteSet(B) /\ i \notin B
          <6>1. IsFiniteSet(N)
            BY <2>3, FiniteLists
          <6> QED BY <4>1, <6>1, FS_Subset
        <5> HIDE DEF A, B
        <5>3. IsFiniteSet(B \union {i}) /\ Cardinality(B \union {i}) = Cardinality(B) + 1
          BY <5>2, FS_AddElement
        <5>4. Cardinality(A) <= Cardinality(B) + 1
          BY <5>1, <5>3, FS_Subset
        <5> QED BY <5>4 DEF A, B, Place
      <4>3. PICK edge \in SUBSET L : \A j \in L : j \in edge <=> Place(L, j) = walk.offset
        <5>1. {j \in L : Place(L, j) = walk.offset} \in SUBSET L
          OBVIOUS
        <5> QED BY <5>1
      <4>4. IsFiniteSet(edge) /\ Cardinality(edge) <= 1
        <5>1. \A j, k \in edge : j = k
          BY <1>0, <2>3, <4>3, Places
        <5>2. CASE edge = {}
          BY <5>2, FS_EmptySet
        <5>3. ASSUME NEW j \in edge PROVE IsFiniteSet(edge) /\ Cardinality(edge) <= 1
          <6>1. edge = {j}
            BY <5>1, <5>3
          <6>2. IsFiniteSet({j}) /\ Cardinality({j}) = 1
            BY FS_Singleton
          <6> QED BY <6>1, <6>2
        <5> QED BY <5>2, <5>3
      <4>5. Passed' \subseteq Passed \union edge
        <5> SUFFICES ASSUME NEW j \in Passed', j \notin edge PROVE j \in Passed
          OBVIOUS
        <5>1. j \in walk.kept \ walk.seen /\ j \in N /\ Place(N, j)' < walk.offset
          BY <2>7, <2>8, <2>9 DEF Passed
        <5>2. j \in L /\ Place(L, j) <= Place(N, j)' + 1 /\ Place(L, j) # walk.offset
          BY <4>1, <4>2, <4>3, <5>1
        <5>3. Place(L, j) \in Nat /\ Place(N, j)' \in Nat
          BY <2>3, FiniteLists, FS_Subset, FS_CardinalityType DEF Place
        <5> QED BY <2>1, <2>6, <5>1, <5>2, <5>3 DEF Passed
      <4>6. Cardinality(Passed \union edge) <= Cardinality(Passed) + 1
        <5>1. /\ Cardinality(Passed \union edge)
                   = Cardinality(Passed) + Cardinality(edge) - Cardinality(Passed \cap edge)
              /\ IsFiniteSet(Passed \cap edge)
          BY <2>13, <4>4, FS_Union, FS_Intersection
        <5>2. Cardinality(Passed \cap edge) \in Nat /\ Cardinality(edge) \in Nat
          BY <4>4, <5>1, FS_CardinalityType
        <5> QED BY <2>13, <4>4, <5>1, <5>2
      <4>7. Cardinality(Passed') <= Cardinality(Passed \union edge)
            /\ Cardinality(Passed') \in Nat /\ Cardinality(Passed \union edge) \in Nat
        BY <2>13, <4>4, <4>5, FS_Union, FS_Subset, FS_CardinalityType
      <4> QED BY <2>5, <2>6, <2>7, <2>13, <3>2, <4>6, <4>7
    <3>3. gone = {} \/ gone = {i}
      BY <2>4
    <3> QED BY <3>1, <3>2, <3>3
  <2> QED BY <1>0, <1>1, <2>7, <2>8, <2>9, <2>14 DEF WalkInv, ListTypes, MissedBounded
<1> QED BY <1>2, <1>3

\* The next page: what the reader passes it has seen, and after the last page it
\* has passed the whole list.
LEMMA ListStep ==
  ASSUME WalkInv, Ids \subseteq Nat, IsFiniteSet(Ids), List
  PROVE  WalkInv'
<1>0. ListTypes /\ walk \in WalkType /\ walk.at = "reading"
  BY DEF WalkInv, ListTypes, List
<1>1. PICK L \in SUBSET Ids : L = Walked
  BY DEF Walked, Listed
<1>2. walk.limit \in Nat /\ walk.offset \in Nat /\ walk.removed \in Nat
  BY <1>0 DEF WalkType
<1>3. walk.kept \subseteq L /\ Cardinality(Passed) <= walk.removed
  BY <1>0, <1>1 DEF WalkInv
<1> DEFINE items == {i \in L : walk.offset <= Place(L, i) /\ Place(L, i) < walk.offset + walk.limit}
           fetched == {i \in L : walk.offset <= Place(L, i)
                                 /\ Place(L, i) < walk.offset + (walk.limit + 1)}
<1>4. /\ Fetch(walk.owner, walk.filter, walk.limit, walk.offset) = items
      /\ Fetch(walk.owner, walk.filter, FetchLimit(walk.limit), walk.offset) = fetched
  BY <1>1 DEF Fetch, FetchLimit, Walked, Place
<1>5. /\ walk' = [walk EXCEPT
                    !.at = IF Cardinality(fetched) > walk.limit THEN "reading" ELSE "done",
                    !.seen = walk.seen \union items,
                    !.offset = walk.offset + walk.limit]
      /\ UNCHANGED <<now, rows>>
  BY <1>4 DEF List
<1>6. /\ walk' \in WalkType
      /\ walk'.owner = walk.owner /\ walk'.filter = walk.filter
      /\ walk'.kept = walk.kept /\ walk'.removed = walk.removed
      /\ walk'.seen = walk.seen \union items
      /\ walk'.offset = walk.offset + walk.limit
      /\ walk'.at = IF Cardinality(fetched) > walk.limit THEN "reading" ELSE "done"
  <2>1. items \subseteq Ids
    OBVIOUS
  <2>2. walk.offset + walk.limit \in Nat
    BY <1>2
  <2> HIDE DEF items, fetched
  <2> QED BY <1>0, <1>5, <2>1, <2>2 DEF WalkType
<1>7. \A i \in L : Place(L, i)' = Place(L, i) /\ Place(L, i) \in Nat
  BY <1>5, FiniteLists DEF Place, Before
<1>8. Walked' = L
  BY <1>1, <1>5, <1>6 DEF Walked, Listed
<1>9. ASSUME NEW i \in walk'.kept \ walk'.seen, Place(L, i) < walk.offset + walk.limit
      PROVE  i \in Passed
  <2>1. i \in L /\ i \in walk.kept \ walk.seen /\ i \notin items
    BY <1>3, <1>6, <1>9
  <2>2. Place(L, i) < walk.offset
    BY <1>2, <1>7, <1>9, <2>1
  <2> QED BY <1>1, <2>1, <2>2 DEF Passed
<1>10. IsFiniteSet(Passed) /\ Cardinality(Passed) \in Nat
  <2>1. IsFiniteSet(L) /\ Passed \subseteq L
    BY <1>3, FiniteLists DEF Passed
  <2> QED BY <2>1, FS_Subset, FS_CardinalityType
<1>11. Cardinality(Passed') <= walk'.removed
  <2>1. Passed' \subseteq Passed
    BY <1>3, <1>6, <1>7, <1>8, <1>9 DEF Passed
  <2>2. Cardinality(Passed') <= Cardinality(Passed) /\ Cardinality(Passed') \in Nat
    BY <1>10, <2>1, FS_Subset, FS_CardinalityType
  <2> QED BY <1>2, <1>3, <1>6, <1>10, <2>2
<1>12. ASSUME walk'.at = "done" PROVE Cardinality(walk'.kept \ walk'.seen) <= walk'.removed
  <2>1. Cardinality(fetched) <= walk.limit
    <3>1. ~(Cardinality(fetched) > walk.limit)
      BY <1>6, <1>12
    <3>2. Cardinality(fetched) \in Nat
      <4>1. fetched \in SUBSET Ids
        OBVIOUS
      <4> QED BY <4>1, FiniteLists
    <3> QED BY <1>2, <3>1, <3>2
  <2>2. \A i \in L : Place(L, i) < walk.offset + walk.limit
    BY <1>0, <1>2, <2>1, LastPage
  <2>3. walk'.kept \ walk'.seen \subseteq Passed
    BY <1>3, <1>6, <1>9, <2>2
  <2> DEFINE missed == walk'.kept \ walk'.seen
  <2>4. Cardinality(missed) <= Cardinality(Passed) /\ Cardinality(missed) \in Nat
    BY <1>10, <2>3, FS_Subset, FS_CardinalityType
  <2> HIDE DEF missed
  <2>5. Cardinality(missed) <= walk'.removed
    BY <1>2, <1>3, <1>6, <1>10, <2>4
  <2> QED BY <2>5 DEF missed
<1>13. walk'.kept \subseteq L
  BY <1>3, <1>6
<1> HIDE DEF items, fetched
<1> QED BY <1>0, <1>5, <1>6, <1>8, <1>11, <1>12, <1>13 DEF WalkInv, ListTypes, MissedBounded

\* A walk begins at the first page, where nothing has been passed.
LEMMA StartStep ==
  ASSUME WalkInv, Ids \subseteq Nat, IsFiniteSet(Ids), MaxLimit \in Nat,
         NEW o \in Owners, StartWalk(o)
  PROVE  WalkInv'
<1>0. PICK filter, limit :
        /\ filter \in {""} \union (IF table = "tasks" THEN Status ELSE {})
        /\ limit \in 0..(MaxLimit + 1)
        /\ walk' = [IdleWalk EXCEPT !.at = "reading", !.owner = o, !.filter = filter,
                                    !.limit = limit, !.kept = Listed(o, filter, rows)]
  BY Zenon DEF StartWalk
<1>1. filter \in Status \union {""} /\ limit \in Nat
  <2>1. filter \in Status \union {""}
    BY <1>0
  <2>2. limit \in 0..(MaxLimit + 1)
    BY <1>0
  <2>3. limit \in Nat
    BY <2>2
  <2> QED BY <2>1, <2>3
<1>2. UNCHANGED <<now, rows>> /\ ListTypes
  BY DEF StartWalk, WalkInv
<1>3. /\ walk' \in WalkType /\ walk'.at = "reading" /\ walk'.offset = 0 /\ walk'.removed = 0
      /\ walk'.owner = o /\ walk'.filter = filter /\ walk'.kept = Listed(o, filter, rows)
  <2>1. Listed(o, filter, rows) \subseteq Ids
    BY DEF Listed
  <2> QED BY <1>0, <1>1, <2>1 DEF IdleWalk, WalkType
<1>4. Walked' = Listed(o, filter, rows)
  BY <1>2, <1>3 DEF Walked, Listed
<1>5. PICK L \in SUBSET Ids : L = Listed(o, filter, rows)
  BY DEF Listed
<1>6. Passed' = {}
  <2> SUFFICES ASSUME NEW i \in Passed' PROVE FALSE
    OBVIOUS
  <2>1. Place(L, i)' < 0
    BY <1>3, <1>4, <1>5 DEF Passed
  <2>2. Place(L, i)' = Place(L, i)
    BY <1>2 DEF Place, Before
  <2>3. Place(L, i) \in Nat
    BY FiniteLists
  <2> QED BY <2>1, <2>2, <2>3
<1>7. Cardinality(Passed') <= walk'.removed
  BY <1>3, <1>6, FS_EmptySet
<1> QED BY <1>2, <1>3, <1>4, <1>7 DEF WalkInv, ListTypes, MissedBounded

\* Every step keeps the invariant.
LEMMA WalkStep ==
  ASSUME Ids \subseteq Nat, IsFiniteSet(Ids), MaxLimit \in Nat, WalkInv, [Next]_vars
  PROVE  WalkInv'
<1>0. ListTypes /\ now \in Nat /\ rows \in [Ids -> RowType] /\ NoRow \in RowType
  BY DEF WalkInv, ListTypes, NoRow, RowType
<1>1. ASSUME NEW o \in Owners, StartWalk(o) PROVE WalkInv'
  BY <1>1, StartStep
<1>2. ASSUME NEW o \in Owners, NEW i \in Ids, CreateProject(o, i) PROVE WalkInv'
  <2>1. PICK n \in Names, began \in 0..now : Write(i, ProjectRow(o, n, began)) /\ rows[i] = NoRow
    BY <1>2 DEF CreateProject
  <2>2. ProjectRow(o, n, began) \in RowType
    BY <1>0 DEF ProjectRow, RowType
  <2> QED BY <2>1, <2>2, WriteStep
<1>3. ASSUME NEW o \in Owners, NEW i \in Ids, UpdateProject(o, i) PROVE WalkInv'
  <2>1. PICK n \in Names : Write(i, [rows[i] EXCEPT !.name = n])
    BY <1>3 DEF UpdateProject
  <2>2. /\ [rows[i] EXCEPT !.name = n] \in RowType
        /\ [rows[i] EXCEPT !.name = n].created = rows[i].created
    BY <1>0 DEF RowType
  <2> QED BY <2>1, <2>2, WriteStep
<1>4. ASSUME NEW o \in Owners, NEW i \in Ids, DeleteProject(o, i) PROVE WalkInv'
  BY <1>0, <1>4, WriteStep DEF DeleteProject
<1>5. ASSUME NEW o \in Owners, NEW i \in Ids, CreateTask(o, i) PROVE WalkInv'
  <2>1. PICK s \in Status, began \in 0..now : Write(i, TaskRow(o, s, began)) /\ rows[i] = NoRow
    BY <1>5 DEF CreateTask
  <2>2. TaskRow(o, s, began) \in RowType
    BY <1>0 DEF TaskRow, RowType
  <2> QED BY <2>1, <2>2, WriteStep
<1>6. ASSUME NEW o \in Owners, NEW i \in Ids, UpdateTask(o, i) PROVE WalkInv'
  <2>1. PICK s \in Status : Write(i, [rows[i] EXCEPT !.status = s])
    BY <1>6 DEF UpdateTask
  <2>2. /\ [rows[i] EXCEPT !.status = s] \in RowType
        /\ [rows[i] EXCEPT !.status = s].created = rows[i].created
    BY <1>0 DEF RowType
  <2> QED BY <2>1, <2>2, WriteStep
<1>7. ASSUME NEW o \in Owners, NEW i \in Ids, DeleteTask(o, i) PROVE WalkInv'
  BY <1>0, <1>7, WriteStep DEF DeleteTask
<1>8. CASE List
  BY <1>8, ListStep
<1>9. CASE EndWalk
  <2>1. walk' = IdleWalk /\ UNCHANGED <<now, rows>> /\ IdleWalk \in WalkType
    BY <1>9 DEF EndWalk, IdleWalk, WalkType
  <2> QED BY <1>0, <2>1 DEF WalkInv, ListTypes, MissedBounded, IdleWalk
<1>10. CASE Tick \/ UNCHANGED vars
  <2>1. UNCHANGED <<rows, walk>> /\ now' \in Nat
    BY <1>0, <1>10 DEF Tick, vars
  <2>2. Walked' = Walked /\ Passed' = Passed
    BY <2>1 DEF Walked, Listed, Passed, Place, Before
  <2> QED BY <2>1, <2>2 DEF WalkInv, ListTypes, MissedBounded
<1> QED BY <1>1, <1>2, <1>3, <1>4, <1>5, <1>6, <1>7, <1>8, <1>9, <1>10 DEF Next

\* A walk to the last page misses no more of the rows that were there all along
\* than left the list meanwhile, wherever rows were added (List, Build).
THEOREM WalksMissFew == Spec => []MissedBounded
<1>1. Ids \subseteq Nat /\ IsFiniteSet(Ids) /\ MaxLimit \in Nat
  BY ListingConstants
<1>2. Init => WalkInv
  <2> SUFFICES ASSUME Init PROVE WalkInv
    OBVIOUS
  <2>1. IdleWalk \in WalkType /\ NoRow \in RowType
    BY DEF IdleWalk, WalkType, NoRow, RowType
  <2> QED BY <2>1 DEF Init, WalkInv, ListTypes, MissedBounded, IdleWalk
<1>3. WalkInv /\ [Next]_vars => WalkInv'
  BY <1>1, WalkStep
<1>4. WalkInv => MissedBounded
  BY DEF WalkInv
<1> QED BY <1>2, <1>3, <1>4, PTL DEF Spec
=============================================================================
