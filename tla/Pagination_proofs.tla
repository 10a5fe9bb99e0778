------------------------- MODULE Pagination_proofs -------------------------
(***************************************************************************)
(* Page by page reads, for every collection, page size, filter and number  *)
(* of writes and failures: what a walk returns and what going back does.   *)
(***************************************************************************)
EXTENDS Pagination, FiniteSetTheorems, Induction

-----------------------------------------------------------------------------
(* Sorting by rank. *)

(* A strict total order of the rows. *)
Order(R) ==
    /\ \A d \in Ids : <<d, d>> \notin R
    /\ \A d, e, f \in Ids : <<d, e>> \in R /\ <<e, f>> \in R => <<d, f>> \in R
    /\ \A d, e \in Ids : d # e => <<d, e>> \in R \/ <<e, d>> \in R

Preceding(S, R, d) == {e \in S : <<e, d>> \in R}

Rank(S, R, d) == Cardinality(Preceding(S, R, d))

LEMMA FiniteRows ==
    ASSUME NEW S \in SUBSET Ids
    PROVE  IsFiniteSet(S) /\ Cardinality(S) \in Nat
<1>1. IsFiniteSet(Ids)
  BY PaginationAssumption, FS_Interval DEF Ids
<1>2. QED
  BY <1>1, FS_Subset, FS_CardinalityType

(* A row that comes before another has the smaller rank. *)
LEMMA RankIsMonotone ==
    ASSUME NEW S \in SUBSET Ids, NEW R, Order(R), NEW d \in S, NEW e \in S, <<d, e>> \in R
    PROVE  Rank(S, R, d) < Rank(S, R, e)
<1>1. Preceding(S, R, d) \in SUBSET Preceding(S, R, e)
  BY DEF Order, Preceding
<1>2. d \in Preceding(S, R, e) /\ d \notin Preceding(S, R, d)
  BY DEF Order, Preceding
<1>3. Preceding(S, R, e) \in SUBSET Ids /\ Preceding(S, R, d) \in SUBSET Ids
  BY DEF Preceding
<1>4. /\ IsFiniteSet(Preceding(S, R, e))
      /\ Cardinality(Preceding(S, R, e)) \in Nat /\ Cardinality(Preceding(S, R, d)) \in Nat
  BY <1>3, FiniteRows
<1>5. QED
  BY <1>1, <1>2, <1>4, FS_Subset DEF Rank

LEMMA RankBounds ==
    ASSUME NEW S \in SUBSET Ids, NEW R, Order(R), NEW d \in S
    PROVE  Rank(S, R, d) \in 0 .. Cardinality(S) - 1
<1>1. Preceding(S, R, d) \in SUBSET S /\ d \notin Preceding(S, R, d)
  BY DEF Order, Preceding
<1>2. IsFiniteSet(S) /\ Cardinality(S) \in Nat
  BY FiniteRows
<1>3. Cardinality(Preceding(S, R, d)) <= Cardinality(S)
      /\ Cardinality(Preceding(S, R, d)) # Cardinality(S)
  BY <1>1, <1>2, FS_Subset
<1>4. Preceding(S, R, d) \in SUBSET Ids
  BY <1>1
<1>5. Cardinality(Preceding(S, R, d)) \in Nat
  BY <1>4, FiniteRows
<1>6. QED
  BY <1>2, <1>3, <1>5 DEF Rank

(* Every rank up to the number of rows is taken, by one row. *)
LEMMA RankIsBijective ==
    ASSUME NEW S \in SUBSET Ids, NEW R, Order(R)
    PROVE  /\ \A d, e \in S : Rank(S, R, d) = Rank(S, R, e) => d = e
           /\ \A i \in 1 .. Cardinality(S) : \E d \in S : Rank(S, R, d) = i - 1
<1> DEFINE n == Cardinality(S)
           f == [d \in S |-> Rank(S, R, d)]
<1>1. n \in Nat
  BY FiniteRows
<1>2. \A d \in S : Rank(S, R, d) \in 0 .. n - 1
  BY RankBounds
<1>3. ASSUME NEW d \in S, NEW e \in S, Rank(S, R, d) = Rank(S, R, e) PROVE d = e
  <2>1. Rank(S, R, d) \in Nat /\ Rank(S, R, e) \in Nat
    BY <1>1, <1>2
  <2>2. ~ (<<d, e>> \in R) /\ ~ (<<e, d>> \in R)
    BY <1>3, <2>1, RankIsMonotone
  <2>3. QED
    BY <2>2 DEF Order
<1>4. f \in Injection(S, 0 .. n - 1)
  BY <1>2, <1>3 DEF Injection, IsInjective
<1>5. IsFiniteSet(0 .. n - 1) /\ Cardinality(0 .. n - 1) = n
  BY <1>1, FS_Interval
<1>6. f \in Surjection(S, 0 .. n - 1)
  <2> HIDE DEF f
  <2>1. QED
    BY <1>4, <1>5, FS_Injection
<1>7. ASSUME NEW i \in 1 .. n PROVE \E d \in S : Rank(S, R, d) = i - 1
  <2>1. i - 1 \in 0 .. n - 1
    BY <1>1
  <2>2. QED
    BY <1>6, <2>1 DEF Surjection
<1>8. QED
  BY <1>3, <1>7

(* Sorted lists every row once, in the order. *)
LEMMA SortedRows ==
    ASSUME NEW S \in SUBSET Ids, NEW R, Order(R)
    PROVE  /\ Sorted(S, R) \in Seq(S) /\ Len(Sorted(S, R)) = Cardinality(S)
           /\ \A i \in 1 .. Cardinality(S) : Rank(S, R, Sorted(S, R)[i]) = i - 1
           /\ \A i, j \in 1 .. Cardinality(S) :
                i < j => <<Sorted(S, R)[i], Sorted(S, R)[j]>> \in R
           /\ \A d \in S : \E i \in 1 .. Cardinality(S) : Sorted(S, R)[i] = d
<1> DEFINE n == Cardinality(S)
           s == Sorted(S, R)
<1>1. n \in Nat
  BY FiniteRows
<1>2. s = [i \in 1 .. n |-> CHOOSE d \in S : Rank(S, R, d) = i - 1]
  BY DEF Sorted, Rank, Preceding
<1> HIDE DEF s, n
<1>3. ASSUME NEW i \in 1 .. n PROVE s[i] \in S /\ Rank(S, R, s[i]) = i - 1
  <2>1. \E d \in S : Rank(S, R, d) = i - 1
    BY RankIsBijective DEF n
  <2>2. QED
    BY <1>2, <2>1
<1>4. s \in [1 .. n -> S]
  BY <1>2, <1>3
<1>5. s \in Seq(S) /\ Len(s) = n
  BY <1>1, <1>4, SeqOfFun
<1>6. ASSUME NEW i \in 1 .. n, NEW j \in 1 .. n, i < j PROVE <<s[i], s[j]>> \in R
  <2>1. s[i] \in S /\ s[j] \in S /\ Rank(S, R, s[i]) < Rank(S, R, s[j])
    BY <1>3, <1>6
  <2>2. ~ (<<s[j], s[i]>> \in R)
    <3>1. SUFFICES ASSUME <<s[j], s[i]>> \in R PROVE FALSE
      OBVIOUS
    <3>2. Rank(S, R, s[j]) < Rank(S, R, s[i])
      BY <2>1, <3>1, RankIsMonotone
    <3>3. QED
      BY <1>3, <2>1, <3>2
  <2>3. s[i] # s[j]
    BY <1>3, <1>6
  <2>4. QED
    BY <2>1, <2>2, <2>3 DEF Order
<1>7. ASSUME NEW d \in S PROVE \E i \in 1 .. n : s[i] = d
  <2> DEFINE i == Rank(S, R, d) + 1
  <2>1. i \in 1 .. n
    BY <1>1, RankBounds DEF n
  <2>2. s[i] \in S /\ Rank(S, R, s[i]) = Rank(S, R, d)
    <3>1. Rank(S, R, d) \in Int
      BY RankBounds, <1>1 DEF n
    <3>2. QED
      BY <1>3, <2>1, <3>1
  <2>3. QED
    BY <2>1, <2>2, RankIsBijective
<1>8. QED
  BY <1>3, <1>5, <1>6, <1>7 DEF s, n

LEMMA IdOrderIsOrder == ASSUME NEW asc \in BOOLEAN PROVE Order(IdOrder(asc))
BY PaginationAssumption DEF Ids, Order, IdOrder

LEMMA TimeOrderIsOrder ==
    ASSUME NEW asc \in BOOLEAN, NEW flip \in BOOLEAN PROVE Order(TimeOrder(asc, flip))
<1>1. \A d \in Ids : Stamp[d] \in Nat /\ d \in Nat
  BY PaginationAssumption DEF Ids
<1>2. \A d, e \in Ids : <<d, e>> \in TimeOrder(asc, flip) <=>
         \/ IF asc THEN Stamp[d] < Stamp[e] ELSE Stamp[e] < Stamp[d]
         \/ Stamp[d] = Stamp[e] /\ IF flip THEN d < e ELSE e < d
  BY DEF TimeOrder
<1>3. \A d \in Ids : <<d, d>> \notin TimeOrder(asc, flip)
  BY <1>1, <1>2
<1>4. \A d, e \in Ids : d # e => \/ <<d, e>> \in TimeOrder(asc, flip)
                                  \/ <<e, d>> \in TimeOrder(asc, flip)
  BY <1>1, <1>2
<1>5. \A d, e, f \in Ids :
         <<d, e>> \in TimeOrder(asc, flip) /\ <<e, f>> \in TimeOrder(asc, flip)
            => <<d, f>> \in TimeOrder(asc, flip)
  BY <1>1, <1>2
<1>6. QED
  BY <1>3, <1>4, <1>5 DEF Order

(* The rows up to one of them, when nothing else lies before it: rows in the *)
(* order, none missing between them, are the first rows of the sorted set.  *)
LEMMA PrefixIsUnique ==
    ASSUME NEW S \in SUBSET Ids, NEW R, Order(R), NEW q \in Seq(S),
           \A i, j \in 1 .. Len(q) : i < j => <<q[i], q[j]>> \in R,
           \A d \in S, i \in 1 .. Len(q) :
               <<d, q[i]>> \in R => \E j \in 1 .. Len(q) : q[j] = d
    PROVE  /\ Len(q) <= Cardinality(S)
           /\ \A i \in 1 .. Len(q) : Sorted(S, R)[i] = q[i]
<1> DEFINE n == Cardinality(S)
           s == Sorted(S, R)
<1>1. n \in Nat /\ Len(q) \in Nat /\ \A i \in 1 .. Len(q) : q[i] \in S
  BY FiniteRows
<1>2. ASSUME NEW i \in 1 .. Len(q) PROVE Rank(S, R, q[i]) = i - 1
  <2> DEFINE f == [j \in 1 .. i - 1 |-> q[j]]
             P == Preceding(S, R, q[i])
  <2>1. ASSUME NEW j \in 1 .. i - 1 PROVE q[j] \in P
    BY <1>1 DEF Preceding
  <2>2. ASSUME NEW j \in 1 .. i - 1, NEW k \in 1 .. i - 1, q[j] = q[k] PROVE j = k
    <3>1. j \in 1 .. Len(q) /\ k \in 1 .. Len(q) /\ q[j] \in Ids
      BY <1>1
    <3>2. ~ (j < k) /\ ~ (k < j)
      BY <2>2, <3>1 DEF Order
    <3>3. QED
      BY <3>1, <3>2
  <2>3. ASSUME NEW d \in P PROVE \E j \in 1 .. i - 1 : q[j] = d
    <3>1. d \in S /\ <<d, q[i]>> \in R
      BY DEF Preceding
    <3>2. PICK j \in 1 .. Len(q) : q[j] = d
      BY <3>1
    <3>3. q[i] \in Ids /\ d \in Ids
      BY <1>1, <3>1
    <3>4. j # i
      BY <3>1, <3>2, <3>3 DEF Order
    <3>5. ~ (i < j)
      BY <3>1, <3>2, <3>3 DEF Order
    <3>6. QED
      BY <1>1, <3>2, <3>4, <3>5
  <2>4. f \in Injection(1 .. i - 1, P) /\ f \in Surjection(1 .. i - 1, P)
    BY <2>1, <2>2, <2>3 DEF Injection, Surjection, IsInjective
  <2>5. IsFiniteSet(1 .. i - 1) /\ Cardinality(1 .. i - 1) = i - 1
    <3>1. 1 \in Int /\ i - 1 \in Int /\ i - 1 >= 0
      BY <1>1
    <3>2. Cardinality(1 .. i - 1) = IF 1 > i - 1 THEN 0 ELSE (i - 1) - 1 + 1
      BY <3>1, FS_Interval
    <3>3. IsFiniteSet(1 .. i - 1)
      BY <3>1, FS_Interval
    <3>4. QED
      BY <3>1, <3>2, <3>3
  <2>6. Cardinality(P) = i - 1
    <3> HIDE DEF f, P
    <3>1. QED
      BY <2>4, <2>5, FS_Surjection
  <2>7. QED
    BY <2>6 DEF Rank
<1>3. ASSUME NEW i \in 1 .. Len(q) PROVE i \in 1 .. n /\ s[i] = q[i]
  <2>1. i - 1 \in 0 .. n - 1
    BY <1>1, <1>2, RankBounds
  <2>2. i \in 1 .. n
    BY <1>1, <2>1
  <2>3. s[i] \in S /\ Rank(S, R, s[i]) = i - 1
    BY <2>2, SortedRows
  <2>4. QED
    BY <1>1, <1>2, <2>2, <2>3, RankIsBijective
<1>4. Len(q) <= n
  <2>1. Len(q) # 0 => Len(q) \in 1 .. Len(q)
    BY <1>1
  <2>2. QED
    BY <1>1, <1>3, <2>1
<1>5. QED
  BY <1>3, <1>4

(* Without equal timestamps the order of equal rows does not matter. *)
LEMMA FlipIsIrrelevant ==
    ASSUME NEW S \in SUBSET Ids, NEW asc \in BOOLEAN, NEW flip \in BOOLEAN,
           \A d, e \in S : d # e => Stamp[d] # Stamp[e]
    PROVE  ByTime(S, asc, flip) = ByTime(S, asc, TRUE)
<1> DEFINE R(x) == TimeOrder(asc, x)
<1>1. \A d, e \in S : <<e, d>> \in R(flip) <=> <<e, d>> \in R(TRUE)
  BY PaginationAssumption DEF TimeOrder
<1>2. \A d \in S : {e \in S : <<e, d>> \in R(flip)} = {e \in S : <<e, d>> \in R(TRUE)}
  BY <1>1
<1>3. \A i \in 1 .. Cardinality(S) :
        (CHOOSE d \in S : Cardinality({e \in S : <<e, d>> \in R(flip)}) = i - 1)
          = (CHOOSE d \in S : Cardinality({e \in S : <<e, d>> \in R(TRUE)}) = i - 1)
  BY <1>2
<1> DEFINE Row(x, i) == CHOOSE d \in S : Cardinality({e \in S : <<e, d>> \in R(x)}) = i - 1
<1>4. Sorted(S, R(flip)) = Sorted(S, R(TRUE))
  <2>1. \A i \in 1 .. Cardinality(S) : Row(flip, i) = Row(TRUE, i)
    BY <1>3
  <2>2. /\ Sorted(S, R(flip)) = [i \in 1 .. Cardinality(S) |-> Row(flip, i)]
        /\ Sorted(S, R(TRUE)) = [i \in 1 .. Cardinality(S) |-> Row(TRUE, i)]
    BY DEF Sorted
  <2> HIDE DEF Row
  <2>3. QED
    BY <2>1, <2>2
<1>5. QED
  BY <1>4 DEF ByTime, TimesSorted

(* The two sorts of the servers. *)
LEMMA ByIdIsSorted ==
    ASSUME NEW S \in SUBSET Ids, NEW asc \in BOOLEAN
    PROVE  ById(S, asc) = Sorted(S, IdOrder(asc))
BY DEF ById, IdsSorted

LEMMA ByTimeIsSorted ==
    ASSUME NEW S \in SUBSET Ids, NEW asc \in BOOLEAN, NEW flip \in BOOLEAN
    PROVE  ByTime(S, asc, flip) = Sorted(S, TimeOrder(asc, flip))
BY DEF ByTime, TimesSorted

-----------------------------------------------------------------------------
(* Pieces of a sequence of rows. *)

LEMMA TakeRows ==
    ASSUME NEW S, NEW s \in Seq(S), NEW n \in Nat
    PROVE  /\ Take(s, n) \in Seq(S)
           /\ Len(Take(s, n)) = IF n < Len(s) THEN n ELSE Len(s)
           /\ \A i \in 1 .. Len(Take(s, n)) : Take(s, n)[i] = s[i]
BY DEF Take

LEMMA DropRows ==
    ASSUME NEW S, NEW s \in Seq(S), NEW n \in Nat
    PROVE  /\ Drop(s, n) \in Seq(S)
           /\ Len(Drop(s, n)) = IF n < Len(s) THEN Len(s) - n ELSE 0
           /\ \A i \in 1 .. Len(Drop(s, n)) : Drop(s, n)[i] = s[n + i]
BY DEF Drop

LEMMA ReverseRows ==
    ASSUME NEW S, NEW s \in Seq(S)
    PROVE  /\ Reverse(s) \in Seq(S) /\ Len(Reverse(s)) = Len(s)
           /\ \A i \in 1 .. Len(s) : Reverse(s)[i] = s[Len(s) - i + 1]
<1>1. Len(s) \in Nat /\ \A i \in 1 .. Len(s) : s[(Len(s) - i) + 1] \in S
  OBVIOUS
<1>2. Reverse(s) \in [1 .. Len(s) -> S]
  BY <1>1 DEF Reverse
<1>3. Reverse(s) \in Seq(S) /\ Len(Reverse(s)) = Len(s)
  BY <1>1, <1>2, SeqOfFun
<1>4. QED
  BY <1>1, <1>3 DEF Reverse

LEMMA ReverseTwice ==
    ASSUME NEW S, NEW s \in Seq(S)
    PROVE  Reverse(Reverse(s)) = s
<1>1. Reverse(s) \in Seq(S) /\ Len(Reverse(s)) = Len(s) /\ Len(s) \in Nat
  BY ReverseRows
<1>2. /\ Reverse(Reverse(s)) \in Seq(S)
      /\ Len(Reverse(Reverse(s))) = Len(Reverse(s))
      /\ \A i \in 1 .. Len(Reverse(s)) :
            Reverse(Reverse(s))[i] = Reverse(s)[Len(Reverse(s)) - i + 1]
  BY <1>1, ReverseRows
<1>3. \A i \in 1 .. Len(s) : Reverse(Reverse(s))[i] = s[i]
  <2>1. TAKE i \in 1 .. Len(s)
  <2>2. Len(s) - i + 1 \in 1 .. Len(s)
    BY <1>1
  <2>3. Reverse(s)[Len(s) - i + 1] = s[Len(s) - (Len(s) - i + 1) + 1]
    BY <2>2, ReverseRows
  <2>4. Len(s) - (Len(s) - i + 1) + 1 = i
    BY <1>1
  <2>5. QED
    BY <1>1, <1>2, <2>3, <2>4
<1>4. QED
  BY <1>1, <1>2, <1>3, SeqEqual

(* What a finder reads: up to limit + 1 rows of a sorted set, the first n of *)
(* them if the iteration breaks off, of which it returns up to limit.       *)
IsPage(S, R, limit, n, rows, items) ==
    /\ rows \in Seq(S) /\ items \in Seq(S) /\ Len(items) \in 0 .. limit
    /\ \A i, j \in 1 .. Len(items) : i < j => <<items[i], items[j]>> \in R
    /\ \A d \in S, i \in 1 .. Len(items) :
         <<d, items[i]>> \in R => \E j \in 1 .. Len(items) : items[j] = d
    /\ Len(rows) > limit =>
         Len(items) = limit /\ n = limit + 1 /\ rows[Len(rows) - 1] = items[Len(items)]
    /\ Len(rows) <= limit => rows = items
    /\ items # <<>> <=> rows # <<>>
    /\ items # <<>> => rows[1] = items[1]
    /\ n = limit + 1 =>
         \A d \in S : \/ \E j \in 1 .. Len(items) : items[j] = d
                      \/ Len(rows) > limit /\ <<items[Len(items)], d>> \in R

LEMMA PageRows ==
    ASSUME NEW S \in SUBSET Ids, NEW R, Order(R), NEW limit \in Nat \ {0},
           NEW n \in 0 .. limit + 1, NEW rows, rows = Take(Sorted(S, R), n),
           NEW items, items = Take(rows, limit)
    PROVE  IsPage(S, R, limit, n, rows, items)
<1> DEFINE s == Sorted(S, R)
           m == Cardinality(S)
<1>1. /\ s \in Seq(S) /\ Len(s) = m /\ m \in Nat /\ limit \in Nat /\ limit >= 1 /\ n \in Nat
      /\ n <= limit + 1
      /\ \A i, j \in 1 .. m : i < j => <<s[i], s[j]>> \in R
      /\ \A d \in S : \E i \in 1 .. m : s[i] = d
  <2>1. m \in Nat /\ limit \in Nat /\ limit >= 1 /\ n \in Nat /\ n <= limit + 1
    BY FiniteRows
  <2>2. /\ s \in Seq(S) /\ Len(s) = m
        /\ \A i, j \in 1 .. m : i < j => <<s[i], s[j]>> \in R
        /\ \A d \in S : \E i \in 1 .. m : s[i] = d
    <3>1. S \in SUBSET Ids /\ Order(R)
      OBVIOUS
    <3>2. QED
      BY SortedRows
  <2>3. QED
    BY ONLY <2>1, <2>2
<1> HIDE DEF s, m
<1>2. /\ rows \in Seq(S) /\ Len(rows) = IF n < m THEN n ELSE m
      /\ \A i \in 1 .. Len(rows) : rows[i] = s[i]
  BY <1>1, TakeRows DEF s
<1>3. /\ items \in Seq(S) /\ Len(items) = IF limit < Len(rows) THEN limit ELSE Len(rows)
      /\ \A i \in 1 .. Len(items) : items[i] = rows[i]
  <2>1. rows \in Seq(S) /\ limit \in Nat /\ items = Take(rows, limit)
    BY <1>1, <1>2
  <2>2. QED
    BY ONLY <2>1, TakeRows
<1>4. /\ Len(items) \in 0 .. limit /\ Len(items) <= m
      /\ \A i \in 1 .. Len(items) : i \in 1 .. m /\ items[i] = s[i]
  BY <1>1, <1>2, <1>3
<1>5. ASSUME NEW i \in 1 .. Len(items), NEW j \in 1 .. Len(items), i < j
      PROVE  <<items[i], items[j]>> \in R
  BY <1>1, <1>4, <1>5
<1>6. ASSUME NEW d \in S, NEW i \in 1 .. Len(items), <<d, items[i]>> \in R
      PROVE  \E j \in 1 .. Len(items) : items[j] = d
  <2>1. PICK j \in 1 .. m : s[j] = d
    BY <1>1
  <2>2. items[i] \in Ids /\ d \in Ids /\ items[i] = s[i] /\ i \in 1 .. m
    BY <1>3, <1>4
  <2>3. j <= i
    <3>1. SUFFICES ASSUME i < j PROVE FALSE
      OBVIOUS
    <3>2. <<items[i], d>> \in R
      BY <1>1, <2>1, <2>2, <3>1
    <3>3. QED
      BY <1>6, <2>2, <3>2 DEF Order
  <2>4. j \in 1 .. Len(items)
    BY <1>4, <2>3
  <2>5. QED
    BY <1>4, <2>1, <2>4
<1>7. ASSUME Len(rows) > limit
      PROVE  Len(items) = limit /\ n = limit + 1 /\ rows[Len(rows) - 1] = items[Len(items)]
  <2>1. Len(items) = limit /\ Len(rows) = limit + 1 /\ n = limit + 1
    BY ONLY <1>1, <1>2, <1>3, <1>7
  <2>2. Len(rows) - 1 = limit /\ limit \in 1 .. Len(items)
    BY ONLY <1>1, <2>1
  <2>3. QED
    BY ONLY <1>3, <2>1, <2>2
<1>8. ASSUME Len(rows) <= limit PROVE rows = items
  BY <1>1, <1>2, <1>3, <1>8, SeqEqual
<1>9. items # <<>> <=> rows # <<>>
  BY <1>1, <1>2, <1>3
<1>10. ASSUME items # <<>> PROVE rows[1] = items[1]
  BY <1>3, <1>10
<1>11. ASSUME n = limit + 1, NEW d \in S
       PROVE  \/ \E j \in 1 .. Len(items) : items[j] = d
              \/ Len(rows) > limit /\ <<items[Len(items)], d>> \in R
  <2>1. PICK j \in 1 .. m : s[j] = d
    BY <1>1
  <2>2. CASE j <= Len(items)
    BY <1>4, <2>1, <2>2
  <2>3. CASE j > Len(items)
    <3>1. Len(rows) > limit /\ Len(items) = limit /\ Len(items) \in 1 .. m
      BY <1>1, <1>2, <1>3, <1>11, <2>3
    <3>2. <<s[Len(items)], s[j]>> \in R
      BY <1>1, <2>3, <3>1
    <3>3. QED
      BY <1>4, <2>1, <3>1, <3>2
  <2>4. QED
    BY <1>4, <2>2, <2>3
<1>12. QED
  BY <1>2, <1>3, <1>4, <1>5, <1>6, <1>7, <1>8, <1>9, <1>10, <1>11 DEF IsPage

-----------------------------------------------------------------------------
(* A cursor walk, whichever finder makes it. *)

(* What a row is sorted by, and which keys lie behind another. *)
KeyOf(d) == IF session.finder \in Tables THEN Stamp[d] ELSE d
Beyond(a, b) == IF session.asc THEN a < b ELSE b < a

(* FindByCursor returns its pages in ascending order, also when the caller *)
(* walks down: the page is then read from its end.                         *)
Turned == session.finder = "FindByCursor" /\ ~session.asc
ReadOf(p) == IF Turned THEN Reverse(p.items) ELSE p.items
MoreOf(p) == IF Turned THEN p.hasPrev ELSE p.hasNext
NextOf(p) == IF Turned THEN p.prev ELSE p.next
PrevOf(p) == IF Turned THEN p.next ELSE p.prev

(* The rows behind a cursor: a Mongo cursor takes the place of what the     *)
(* filter asks of _id.                                                      *)
Asked(c) == IF c = Nil \/ session.finder \in Tables THEN Matching(store) ELSE Uncursored(store)
Found(c) == {d \in Asked(c) : c = Nil \/ Beyond(c, KeyOf(d))}

(* The page p holds rows behind the cursor, in their order, and leads on    *)
(* from the last of them.                                                   *)
IsNextPage(c, p) ==
    LET read == ReadOf(p)
    IN  /\ read \in Seq(Found(c)) /\ MoreOf(p) \in BOOLEAN
        /\ \A i, j \in 1 .. Len(read) : i < j =>
              /\ read[i] # read[j]
              /\ KeyOf(read[i]) = KeyOf(read[j]) \/ Beyond(KeyOf(read[i]), KeyOf(read[j]))
        /\ MoreOf(p) => read # <<>> /\ NextOf(p) = KeyOf(read[Len(read)])

(* ... and leaves out nothing but what lies behind its last row or, in a    *)
(* table, has the timestamp of that row.                                    *)
IsWholePage(c, p) ==
    LET read == ReadOf(p)
    IN  \A d \in Found(c) :
            \/ \E j \in 1 .. Len(read) : read[j] = d
            \/ /\ MoreOf(p)
               /\ \/ Beyond(KeyOf(read[Len(read)]), KeyOf(d))
                  \/ session.finder \in Tables /\ KeyOf(read[Len(read)]) = KeyOf(d)

PagingType ==
    /\ store \in SUBSET Ids /\ steady \in SUBSET store
    /\ session.asc \in BOOLEAN /\ session.perPage \in Nat
    /\ pc = "idle" => session.finder = "none" /\ seen = <<>> /\ prior = <<>>

(* The rows the caller has, or that hide behind one it has. *)
Reached(d) ==
    \/ \E i \in 1 .. Len(seen) : seen[i] = d
    \/ /\ session.finder \in Tables
       /\ \E i \in 1 .. Len(seen) : seen[i] # d /\ Stamp[seen[i]] = Stamp[d]

SeenOrdered ==
    \A i, j \in 1 .. Len(seen) : i < j =>
        /\ seen[i] # seen[j]
        /\ KeyOf(seen[i]) = KeyOf(seen[j]) \/ Beyond(KeyOf(seen[i]), KeyOf(seen[j]))

(* The walk goes on behind the last row the caller has... *)
Position ==
    \/ seen = <<>> /\ page = NoPage
    \/ seen # <<>> /\ NextOf(page) = KeyOf(seen[Len(seen)])

(* ... and what it has not reached lies there. *)
Covered ==
    \A d \in Matching(steady) :
        Reached(d) \/ seen = <<>> \/ Beyond(KeyOf(seen[Len(seen)]), KeyOf(d))

CursorInv ==
    session.finder \in Keyed =>
        /\ pc \in {"ready", "ended", "back"}
        /\ seen \in Seq(Ids)
        /\ SeenOrdered
        /\ pc = "ready" => Position
        /\ pc = "ready" /\ ~cut => Covered
        /\ pc = "ended" /\ ~cut => \A d \in Matching(steady) : Reached(d)

LEMMA KeyType ==
    ASSUME NEW d \in Ids
    PROVE  KeyOf(d) \in Nat /\ KeyOf(d) # Nil /\ d \in Nat
BY PaginationAssumption DEF KeyOf, Nil, Ids

(* A filter chooses among the rows, one by one. *)
LEMMA MatchingRows ==
    ASSUME NEW S, NEW T \in SUBSET S
    PROVE  /\ Matching(S) \in SUBSET S /\ Matching(T) \in SUBSET Matching(S)
           /\ Matching(S) \in SUBSET Uncursored(S) /\ Uncursored(S) \in SUBSET S
BY DEF Matching, Uncursored

LEMMA FoundRows ==
    ASSUME PagingType, NEW c
    PROVE  /\ Found(c) \in SUBSET Ids /\ Matching(store) \in SUBSET Ids
           /\ Matching(store) \in SUBSET Asked(c) /\ Asked(c) \in SUBSET store
BY MatchingRows DEF PagingType, Found, Asked

LEMMA LimitType ==
    ASSUME PagingType
    PROVE  LimitOf(session.perPage) \in Nat \ {0} /\ PerPageOf(session.perPage) \in Nat \ {0}
BY PaginationAssumption DEF PagingType, LimitOf, PerPageOf

(* An order of the rows that follows their keys; only in a table are there *)
(* rows with one key.                                                       *)
Follows(R) ==
    \A d, e \in Ids : <<d, e>> \in R =>
        \/ Beyond(KeyOf(d), KeyOf(e))
        \/ session.finder \in Tables /\ KeyOf(d) = KeyOf(e)

LEMMA IdOrderFollows ==
    ASSUME PagingType, session.finder \notin Tables
    PROVE  Order(IdOrder(session.asc)) /\ Follows(IdOrder(session.asc))
<1>1. Order(IdOrder(session.asc))
  BY IdOrderIsOrder DEF PagingType
<1>2. QED
  BY <1>1 DEF PagingType, Follows, IdOrder, Beyond, KeyOf

LEMMA TimeOrderFollows ==
    ASSUME PagingType, session.finder \in Tables, NEW flip \in BOOLEAN
    PROVE  Order(TimeOrder(session.asc, flip)) /\ Follows(TimeOrder(session.asc, flip))
<1>1. Order(TimeOrder(session.asc, flip))
  BY TimeOrderIsOrder DEF PagingType
<1>2. QED
  BY <1>1 DEF PagingType, Follows, TimeOrder, Beyond, KeyOf

(* Rows read in such an order, the first ones behind the cursor, make a page *)
(* the walk can go on from.                                                 *)
LEMMA ReadIsNextPage ==
    ASSUME PagingType, NEW c, NEW R, Order(R), Follows(R),
           NEW limit \in Nat \ {0}, NEW n \in 0 .. limit + 1,
           NEW rows, rows = Take(Sorted(Found(c), R), n),
           NEW items, items = Take(rows, limit),
           NEW p, ReadOf(p) = items, MoreOf(p) = (Len(rows) > limit),
           MoreOf(p) => NextOf(p) = KeyOf(items[Len(items)])
    PROVE  IsNextPage(c, p) /\ (n = limit + 1 => IsWholePage(c, p))
<1>1. Found(c) \in SUBSET Ids
  BY FoundRows
<1>2. /\ items \in Seq(Found(c)) /\ Len(items) \in 0 .. limit
      /\ \A i, j \in 1 .. Len(items) : i < j => <<items[i], items[j]>> \in R
      /\ Len(rows) > limit => Len(items) = limit
      /\ n = limit + 1 =>
           \A d \in Found(c) : \/ \E j \in 1 .. Len(items) : items[j] = d
                               \/ Len(rows) > limit /\ <<items[Len(items)], d>> \in R
  <2>1. IsPage(Found(c), R, limit, n, rows, items)
    BY <1>1, PageRows
  <2>2. QED
    BY <2>1 DEF IsPage
<1>3. \A i \in 1 .. Len(items) : items[i] \in Ids
  BY <1>1, <1>2
<1>4. ASSUME NEW i \in 1 .. Len(items), NEW j \in 1 .. Len(items), i < j
      PROVE  /\ items[i] # items[j]
             /\ KeyOf(items[i]) = KeyOf(items[j]) \/ Beyond(KeyOf(items[i]), KeyOf(items[j]))
  <2>1. <<items[i], items[j]>> \in R /\ items[i] \in Ids /\ items[j] \in Ids
    BY <1>2, <1>3, <1>4
  <2>2. QED
    BY <2>1 DEF Order, Follows
<1>5. Len(rows) > limit => items # <<>>
  BY <1>2
<1>6. IsNextPage(c, p)
  <2>1. ReadOf(p) \in Seq(Found(c)) /\ MoreOf(p) \in BOOLEAN
    BY <1>2
  <2>2. \A i, j \in 1 .. Len(ReadOf(p)) : i < j =>
          /\ ReadOf(p)[i] # ReadOf(p)[j]
          /\ \/ KeyOf(ReadOf(p)[i]) = KeyOf(ReadOf(p)[j])
             \/ Beyond(KeyOf(ReadOf(p)[i]), KeyOf(ReadOf(p)[j]))
    BY <1>4
  <2>3. MoreOf(p) => ReadOf(p) # <<>> /\ NextOf(p) = KeyOf(ReadOf(p)[Len(ReadOf(p))])
    BY <1>5
  <2>4. QED
    BY <2>1, <2>2, <2>3 DEF IsNextPage
<1>7. ASSUME n = limit + 1 PROVE IsWholePage(c, p)
  <2>1. SUFFICES ASSUME NEW d \in Found(c),
                        ~ \E j \in 1 .. Len(items) : items[j] = d
                 PROVE  /\ MoreOf(p)
                        /\ \/ Beyond(KeyOf(items[Len(items)]), KeyOf(d))
                           \/ /\ session.finder \in Tables
                              /\ KeyOf(items[Len(items)]) = KeyOf(d)
    BY DEF IsWholePage
  <2>2. Len(rows) > limit /\ <<items[Len(items)], d>> \in R
    BY <1>2, <1>7, <2>1
  <2>3. items[Len(items)] \in Ids /\ d \in Ids
    BY <1>1, <1>2, <1>3, <2>2
  <2>4. QED
    BY <2>2, <2>3 DEF Follows
<1>8. QED
  BY <1>6, <1>7

(* Mongo FindByCursor, in the direction of the walk, broken off or not. *)
LEMMA FindByCursorRead ==
    ASSUME PagingType, session.finder = "FindByCursor", NEW c,
           NEW n \in 0 .. LimitOf(session.perPage) + 1, NEW p,
           p = FindByCursor(c, IF session.asc THEN 1 ELSE -1, n)
    PROVE  \E rows, list :
              /\ rows = Take(Sorted(Found(c), IdOrder(session.asc)), n)
              /\ list = Take(rows, LimitOf(session.perPage))
              /\ IsPage(Found(c), IdOrder(session.asc), LimitOf(session.perPage), n, rows, list)
              /\ ReadOf(p) = list /\ p.items \in Seq(Found(c))
              /\ MoreOf(p) = (Len(rows) > LimitOf(session.perPage))
              /\ list # <<>> => NextOf(p) = list[Len(list)] /\ PrevOf(p) = list[1]
<1> DEFINE limit == LimitOf(session.perPage)
           dir   == IF session.asc THEN 1 ELSE -1
           R     == IdOrder(session.asc)
           docs  == CursorDocs(c, dir, n)
           list  == Take(docs, limit)
           back  == Reverse(list)
<1>1. limit \in Nat \ {0} /\ Found(c) \in SUBSET Ids /\ session.asc \in BOOLEAN
  BY LimitType, FoundRows DEF PagingType
<1>2. session.finder \notin Tables
  BY DEF Tables
<1>3. Order(R)
  BY <1>2, IdOrderFollows
<1>4. docs = Take(Sorted(Found(c), R), n)
  <2>1. Found(c) = IF c = Nil THEN Matching(store)
                   ELSE {d \in Uncursored(store) : IF dir = 1 THEN d > c ELSE d < c}
    BY <1>1, <1>2 DEF Found, Asked, Beyond, KeyOf
  <2>2. (dir = 1) = session.asc
    BY <1>1
  <2>3. docs = Take(ById(Found(c), session.asc), n)
    BY <2>1, <2>2 DEF CursorDocs
  <2>4. QED
    BY <1>1, <2>3, ByIdIsSorted
<1> HIDE DEF limit, R, docs, list, back
<1>5. IsPage(Found(c), R, limit, n, docs, list)
  BY <1>1, <1>3, <1>4, PageRows DEF list, limit
<1>6. p = CursorPage(IF dir = 1 THEN list ELSE back, c, dir, Len(docs) > limit)
  BY DEF FindByCursor, docs, list, limit, back
<1>7. /\ list \in Seq(Found(c)) /\ back \in Seq(Found(c)) /\ Reverse(back) = list
      /\ list # <<>> => back # <<>> /\ back[1] = list[Len(list)] /\ back[Len(back)] = list[1]
  <2>1. list \in Seq(Found(c))
    BY <1>5 DEF IsPage
  <2>2. Reverse(back) = list /\ back \in Seq(Found(c))
    BY <2>1, ReverseTwice, ReverseRows DEF back
  <2>3. /\ Len(back) = Len(list) /\ Len(list) \in Nat
        /\ \A i \in 1 .. Len(list) : back[i] = list[Len(list) - i + 1]
    BY <2>1, ReverseRows DEF back
  <2>4. ASSUME list # <<>>
        PROVE  back # <<>> /\ back[1] = list[Len(list)] /\ back[Len(back)] = list[1]
    <3>1. Len(list) >= 1
      BY <2>1, <2>4
    <3>2. QED
      BY <2>2, <2>3, <3>1
  <2>5. QED
    BY <2>1, <2>2, <2>4
<1>8. /\ ReadOf(p) = list /\ p.items \in Seq(Found(c)) /\ MoreOf(p) = (Len(docs) > limit)
      /\ list # <<>> => NextOf(p) = list[Len(list)] /\ PrevOf(p) = list[1]
  <2> DEFINE more  == Len(docs) > limit
             given == IF dir = 1 THEN list ELSE back
  <2>1. p = [items |-> given,
             hasNext |-> IF dir = 1 THEN more ELSE c # Nil,
             hasPrev |-> IF dir = -1 THEN more ELSE c # Nil,
             next |-> IF given = <<>> THEN Nil ELSE given[Len(given)],
             prev |-> IF given = <<>> THEN Nil ELSE given[1]]
    BY <1>6 DEF CursorPage, Page
  <2>2. p.hasNext = (IF dir = 1 THEN more ELSE c # Nil)
    BY <2>1
  <2>3. p.hasPrev = (IF dir = -1 THEN more ELSE c # Nil)
    BY <2>1
  <2>4. /\ p.items = given
        /\ given # <<>> => p.next = given[Len(given)] /\ p.prev = given[1]
    <3> HIDE DEF more, given
    <3>1. QED
      BY <2>1
  <2> HIDE DEF more
  <2>5. CASE session.asc
    <3>1. /\ given = list /\ dir = 1
          /\ ReadOf(p) = p.items /\ MoreOf(p) = p.hasNext /\ NextOf(p) = p.next
          /\ PrevOf(p) = p.prev
      BY <2>5 DEF ReadOf, MoreOf, NextOf, PrevOf, Turned
    <3>2. /\ p.items = list /\ p.hasNext = more
          /\ list # <<>> => p.next = list[Len(list)] /\ p.prev = list[1]
      BY <2>2, <2>4, <3>1
    <3>3. QED
      BY <1>7, <3>1, <3>2 DEF more
  <2>6. CASE ~session.asc
    <3>1. /\ given = back /\ dir = -1
          /\ ReadOf(p) = Reverse(p.items) /\ MoreOf(p) = p.hasPrev /\ NextOf(p) = p.prev
          /\ PrevOf(p) = p.next
      BY <2>6 DEF ReadOf, MoreOf, NextOf, PrevOf, Turned
    <3>2. /\ p.items = back /\ p.hasPrev = more
          /\ back # <<>> => p.prev = back[1] /\ p.next = back[Len(back)]
      BY <2>3, <2>4, <3>1
    <3>3. QED
      BY <1>7, <3>1, <3>2 DEF more
  <2>7. QED
    BY <2>5, <2>6
<1>9. list = Take(docs, limit)
  BY DEF list
<1>10. QED
  BY <1>4, <1>5, <1>8, <1>9 DEF limit, R

LEMMA FindByCursorPage ==
    ASSUME PagingType, session.finder = "FindByCursor", NEW c,
           NEW n \in 0 .. LimitOf(session.perPage) + 1, NEW p,
           p = FindByCursor(c, IF session.asc THEN 1 ELSE -1, n)
    PROVE  IsNextPage(c, p) /\ (n = LimitOf(session.perPage) + 1 => IsWholePage(c, p))
<1> DEFINE limit == LimitOf(session.perPage)
           R     == IdOrder(session.asc)
<1>1. limit \in Nat \ {0} /\ session.finder \notin Tables
  BY LimitType DEF Tables
<1>2. Order(R) /\ Follows(R)
  BY <1>1, IdOrderFollows
<1>3. PICK rows, list :
         /\ rows = Take(Sorted(Found(c), R), n) /\ list = Take(rows, limit)
         /\ IsPage(Found(c), R, limit, n, rows, list)
         /\ ReadOf(p) = list /\ MoreOf(p) = (Len(rows) > limit)
         /\ list # <<>> => NextOf(p) = list[Len(list)]
  BY FindByCursorRead
<1> HIDE DEF limit, R
<1>4. MoreOf(p) => NextOf(p) = KeyOf(list[Len(list)])
  <2>1. Len(rows) > limit => list # <<>>
    BY <1>1, <1>3 DEF IsPage
  <2>2. QED
    BY <1>1, <1>3, <2>1 DEF KeyOf
<1>5. QED
  BY <1>1, <1>2, <1>3, <1>4, ReadIsNextPage DEF limit

(* Mongo FindWithCursor, going forward: its page ends one row before the    *)
(* last of the limit + 1 it read.                                           *)
LEMMA FindWithCursorPage ==
    ASSUME PagingType, session.finder = "FindWithCursor", NEW c
    PROVE  IsNextPage(c, FindWithCursor(c, TRUE)) /\ IsWholePage(c, FindWithCursor(c, TRUE))
<1> DEFINE p     == FindWithCursor(c, TRUE)
           limit == IF session.perPage <= 0 THEN MaxPerPage ELSE session.perPage
           R     == IdOrder(session.asc)
           rows  == Take(ById(buildCursorFilter(c, TRUE), session.asc), limit + 1)
           list  == Take(rows, limit)
           more  == Len(rows) > limit
           last  == IF more THEN rows[Len(rows) - 1] ELSE rows[Len(rows)]
<1>1. limit \in Nat \ {0} /\ Found(c) \in SUBSET Ids /\ session.asc \in BOOLEAN
  BY PaginationAssumption, FoundRows DEF PagingType
<1>2. session.finder \notin Tables /\ ~Turned
  BY DEF Tables, Turned
<1>3. Order(R) /\ Follows(R)
  BY <1>2, IdOrderFollows
<1>4. rows = Take(Sorted(Found(c), R), limit + 1)
  <2>1. Found(c) = buildCursorFilter(c, TRUE)
    BY <1>1, <1>2 DEF Found, Asked, Beyond, KeyOf, buildCursorFilter
  <2>2. QED
    BY <1>1, <2>1, ByIdIsSorted
<1>5. p = IF list = <<>> THEN NoPage
          ELSE Page(list, more, c # Nil, IF more THEN last ELSE Nil,
                    IF c # Nil THEN rows[1] ELSE Nil)
  BY DEF FindWithCursor
<1> HIDE DEF p, limit, R, rows, list
<1>6. limit + 1 \in 0 .. limit + 1
  BY <1>1
<1>7. IsPage(Found(c), R, limit, limit + 1, rows, list)
  BY <1>1, <1>3, <1>4, <1>6, PageRows DEF list
<1>8. /\ list = <<>> => more = FALSE
      /\ more => last = list[Len(list)]
  <2>1. Len(list) \in 0 .. limit /\ limit >= 1 /\ (Len(rows) > limit => Len(list) = limit)
    BY <1>1, <1>7 DEF IsPage
  <2>2. QED
    BY <1>7, <2>1 DEF IsPage
<1>9. ReadOf(p) = p.items /\ MoreOf(p) = p.hasNext /\ NextOf(p) = p.next
  BY <1>2 DEF ReadOf, MoreOf, NextOf
<1>10. /\ p.items = list /\ p.hasNext = more
       /\ more => p.next = list[Len(list)]
  <2>1. CASE list = <<>>
    <3>1. p = NoPage
      BY <1>5, <2>1
    <3>2. NoPage.items = <<>> /\ NoPage.hasNext = FALSE
      BY DEF NoPage, Page
    <3>3. QED
      BY <1>8, <2>1, <3>1, <3>2
  <2>2. CASE list # <<>>
    <3>1. p = [items |-> list, hasNext |-> more, hasPrev |-> c # Nil,
               next |-> IF more THEN last ELSE Nil, prev |-> IF c # Nil THEN rows[1] ELSE Nil]
      BY <1>5, <2>2 DEF Page
    <3>2. p.hasNext = more
      BY <3>1
    <3>3. p.items = list
      BY <3>1
    <3>4. p.next = IF more THEN last ELSE Nil
      BY <3>1
    <3>5. QED
      BY <1>8, <3>2, <3>3, <3>4
  <2>3. QED
    BY <2>1, <2>2
<1>11. /\ ReadOf(p) = list /\ MoreOf(p) = (Len(rows) > limit)
       /\ MoreOf(p) => NextOf(p) = KeyOf(list[Len(list)])
  BY <1>2, <1>9, <1>10 DEF KeyOf
<1>12. IsNextPage(c, p) /\ IsWholePage(c, p)
  BY <1>1, <1>3, <1>4, <1>6, <1>11, ReadIsNextPage DEF list
<1>13. QED
  BY <1>12 DEF p

(* ClickHouse FindByCursor, going forward: rows with equal timestamps come  *)
(* in any order.                                                            *)
LEMMA TableFindByCursorPage ==
    ASSUME PagingType, TimeField, session.finder = "Table.FindByCursor", NEW c, NEW flip \in BOOLEAN
    PROVE  /\ IsNextPage(c, TableFindByCursor(c, TRUE, flip))
           /\ IsWholePage(c, TableFindByCursor(c, TRUE, flip))
<1> DEFINE p     == TableFindByCursor(c, TRUE, flip)
           limit == LimitOf(session.perPage)
           R     == TimeOrder(session.asc, flip)
           rows  == BuildSelect(ByTime({d \in Matching(store) :
                                          \/ c = Nil
                                          \/ IF TRUE = session.asc THEN Stamp[d] > c
                                             ELSE Stamp[d] < c},
                                       session.asc, flip), limit + 1, 0)
           list  == Take(rows, limit)
           more  == Len(rows) > limit
<1>1. limit \in Nat \ {0} /\ Found(c) \in SUBSET Ids /\ session.asc \in BOOLEAN
  BY LimitType, FoundRows DEF PagingType
<1>2. session.finder \in Tables /\ ~Turned
  BY DEF Tables, Turned
<1>3. Order(R) /\ Follows(R)
  BY <1>2, TimeOrderFollows
<1>4. rows = Take(Sorted(Found(c), R), limit + 1)
  <2>1. Found(c) = {d \in Matching(store) :
                      \/ c = Nil
                      \/ IF TRUE = session.asc THEN Stamp[d] > c ELSE Stamp[d] < c}
    BY <1>1, <1>2, FoundRows DEF Found, Asked, Beyond, KeyOf
  <2>2. rows = Take(ByTime(Found(c), session.asc, flip), limit + 1)
    <3>1. limit + 1 > 0 /\ ~ (0 > 0)
      BY <1>1
    <3>2. QED
      BY <2>1, <3>1 DEF BuildSelect
  <2>3. QED
    BY <1>1, <2>2, ByTimeIsSorted
<1>5. p = IF list = <<>> THEN NoPage
          ELSE Page(list, more, c # Nil, Stamp[list[Len(list)]], Stamp[list[1]])
  BY DEF TableFindByCursor, getTimestampFromItem
<1> HIDE DEF p, limit, R, rows, list
<1>6. limit + 1 \in 0 .. limit + 1
  BY <1>1
<1>7. IsPage(Found(c), R, limit, limit + 1, rows, list)
  BY <1>1, <1>3, <1>4, <1>6, PageRows DEF list
<1>8. list = <<>> => more = FALSE
  <2>1. Len(list) \in 0 .. limit /\ limit >= 1 /\ (Len(rows) > limit => Len(list) = limit)
    BY <1>1, <1>7 DEF IsPage
  <2>2. QED
    BY <2>1
<1>9. ReadOf(p) = p.items /\ MoreOf(p) = p.hasNext /\ NextOf(p) = p.next
  BY <1>2 DEF ReadOf, MoreOf, NextOf
<1>10. /\ p.items = list /\ p.hasNext = more
       /\ more => p.next = Stamp[list[Len(list)]]
  <2>1. CASE list = <<>>
    <3>1. p = NoPage
      BY <1>5, <2>1
    <3>2. NoPage.items = <<>> /\ NoPage.hasNext = FALSE
      BY DEF NoPage, Page
    <3>3. QED
      BY <1>8, <2>1, <3>1, <3>2
  <2>2. CASE list # <<>>
    <3>1. p = [items |-> list, hasNext |-> more, hasPrev |-> c # Nil,
               next |-> Stamp[list[Len(list)]], prev |-> Stamp[list[1]]]
      BY <1>5, <2>2 DEF Page
    <3>2. p.hasNext = more
      BY <3>1
    <3>3. p.items = list /\ p.next = Stamp[list[Len(list)]]
      BY <3>1
    <3>4. QED
      BY <3>2, <3>3
  <2>3. QED
    BY <2>1, <2>2
<1>11. /\ ReadOf(p) = list /\ MoreOf(p) = (Len(rows) > limit)
       /\ MoreOf(p) => NextOf(p) = KeyOf(list[Len(list)])
  BY <1>2, <1>9, <1>10 DEF KeyOf
<1>12. IsNextPage(c, p) /\ IsWholePage(c, p)
  BY <1>1, <1>3, <1>4, <1>6, <1>11, ReadIsNextPage DEF list
<1>13. QED
  BY <1>12 DEF p

(* One more page: what the caller has stays in order, the cursor follows its *)
(* last row and, unless the read broke off, nothing is left behind.         *)
LEMMA CursorStep ==
    ASSUME PagingType, CursorInv, session.finder \in Keyed, pc = "ready",
           NEW p, IsNextPage(Cursor(NextOf(page)), p),
           ~cut' => ~cut /\ IsWholePage(Cursor(NextOf(page)), p),
           page' = p, seen' = seen \o ReadOf(p), pc' = IF MoreOf(p) THEN "ready" ELSE "ended",
           UNCHANGED <<session, steady>>
    PROVE  CursorInv'
<1> DEFINE c    == Cursor(NextOf(page))
           read == ReadOf(p)
           new  == seen \o read
           m    == Len(seen)
<1>1. seen \in Seq(Ids) /\ m \in Nat /\ SeenOrdered /\ Position /\ (~cut => Covered)
  BY DEF CursorInv
<1>2. /\ read \in Seq(Found(c)) /\ MoreOf(p) \in BOOLEAN
      /\ \A i, j \in 1 .. Len(read) : i < j =>
            /\ read[i] # read[j]
            /\ KeyOf(read[i]) = KeyOf(read[j]) \/ Beyond(KeyOf(read[i]), KeyOf(read[j]))
      /\ MoreOf(p) => read # <<>> /\ NextOf(p) = KeyOf(read[Len(read)])
  BY DEF IsNextPage
<1>3. Found(c) \in SUBSET Ids /\ session.asc \in BOOLEAN
  BY FoundRows DEF PagingType
<1>4. Len(read) \in Nat /\ \A j \in 1 .. Len(read) : read[j] \in Ids /\ read[j] \in Found(c)
  BY <1>2, <1>3
<1>5. read \in Seq(Ids)
  BY <1>2, <1>3
<1>6. m = 0 => c = Nil
  BY <1>1 DEF Position, Cursor
<1>7. m # 0 => /\ c = KeyOf(seen[m]) /\ seen[m] \in Ids /\ c # Nil
               /\ \A j \in 1 .. Len(read) : Beyond(KeyOf(seen[m]), KeyOf(read[j]))
  <2>1. ASSUME m # 0 PROVE c = KeyOf(seen[m]) /\ seen[m] \in Ids
    BY <1>1, <2>1 DEF Position, Cursor
  <2>2. ASSUME m # 0 PROVE c # Nil
    BY <2>1, <2>2, KeyType
  <2>3. QED
    BY <1>4, <2>1, <2>2 DEF Found
<1> HIDE DEF c, read
<1>8. /\ new \in Seq(Ids) /\ Len(new) = m + Len(read)
      /\ \A i \in 1 .. m : i \in 1 .. Len(new) /\ new[i] = seen[i] /\ seen[i] \in Ids
      /\ \A j \in 1 .. Len(read) : m + j \in 1 .. Len(new) /\ new[m + j] = read[j]
      /\ \A k \in 1 .. Len(new) : k \notin 1 .. m => k - m \in 1 .. Len(read) /\ new[k] = read[k - m]
  BY <1>1, <1>5
<1> HIDE DEF new, m
<1>9. ASSUME NEW i \in 1 .. m, NEW j \in 1 .. Len(read)
      PROVE  Beyond(KeyOf(seen[i]), KeyOf(read[j])) /\ seen[i] # read[j]
  <2>1. i \in Nat /\ m \in Nat /\ m # 0 /\ m \in 1 .. m
    BY <1>1 DEF m
  <2>2. /\ KeyOf(seen[i]) \in Nat /\ KeyOf(seen[m]) \in Nat /\ KeyOf(read[j]) \in Nat
    BY <1>4, <1>8, <2>1, KeyType
  <2>3. KeyOf(seen[i]) = KeyOf(seen[m]) \/ Beyond(KeyOf(seen[i]), KeyOf(seen[m]))
    BY <1>1, <2>1 DEF SeenOrdered, m
  <2>4. Beyond(KeyOf(seen[m]), KeyOf(read[j]))
    BY <1>7, <2>1
  <2>5. Beyond(KeyOf(seen[i]), KeyOf(read[j]))
    BY <2>2, <2>3, <2>4 DEF Beyond
  <2>6. KeyOf(seen[i]) # KeyOf(read[j])
    BY <2>2, <2>5 DEF Beyond
  <2>7. QED
    BY <2>5, <2>6
<1>10. ASSUME NEW i \in 1 .. Len(new), NEW j \in 1 .. Len(new), i < j
       PROVE  /\ new[i] # new[j]
              /\ KeyOf(new[i]) = KeyOf(new[j]) \/ Beyond(KeyOf(new[i]), KeyOf(new[j]))
  <2>1. m \in Nat /\ Len(read) \in Nat
    BY <1>1, <1>4 DEF m
  <2>2. CASE j \in 1 .. m
    <3>1. i \in 1 .. m
      BY <1>10, <2>1, <2>2
    <3>2. QED
      BY <1>1, <1>8, <1>10, <2>2, <3>1 DEF SeenOrdered, m
  <2>3. CASE i \in 1 .. m /\ j \notin 1 .. m
    <3>1. j - m \in 1 .. Len(read) /\ new[j] = read[j - m] /\ new[i] = seen[i]
      BY <1>8, <2>3
    <3>2. Beyond(KeyOf(seen[i]), KeyOf(read[j - m])) /\ seen[i] # read[j - m]
      BY <1>9, <2>3, <3>1
    <3>3. QED
      BY <3>1, <3>2
  <2>4. CASE i \notin 1 .. m
    <3>1. j \notin 1 .. m
      BY <1>10, <2>1, <2>4
    <3>2. /\ i - m \in 1 .. Len(read) /\ new[i] = read[i - m]
          /\ j - m \in 1 .. Len(read) /\ new[j] = read[j - m] /\ i - m < j - m
      BY <1>8, <1>10, <2>1, <2>4, <3>1
    <3>3. QED
      BY <1>2, <3>2
  <2>5. QED
    BY <2>2, <2>3, <2>4
<1>11. MoreOf(p) => new # <<>> /\ NextOf(p) = KeyOf(new[Len(new)]) /\ read # <<>>
                    /\ new[Len(new)] = read[Len(read)]
  <2>1. ASSUME MoreOf(p) PROVE Len(read) \in 1 .. Len(read) /\ new[m + Len(read)] = read[Len(read)]
    BY <1>2, <1>4, <1>5, <1>8, <2>1
  <2>2. QED
    BY <1>2, <1>8, <2>1
<1> DEFINE Has(d) == \/ \E i \in 1 .. Len(new) : new[i] = d
                     \/ /\ session.finder \in Tables
                        /\ \E i \in 1 .. Len(new) : new[i] # d /\ Stamp[new[i]] = Stamp[d]
<1>12. ASSUME ~cut', NEW d \in Matching(steady)
       PROVE  Has(d) \/ (MoreOf(p) /\ Beyond(KeyOf(new[Len(new)]), KeyOf(d)))
  <2>1. Covered /\ IsWholePage(c, p)
    BY <1>1, <1>12 DEF c
  <2>2. d \in Matching(store) /\ d \in Ids
    BY MatchingRows DEF PagingType
  <2>3. CASE Reached(d)
    <3>1. CASE \E i \in 1 .. m : seen[i] = d
      BY <1>8, <3>1
    <3>2. CASE /\ session.finder \in Tables
               /\ \E i \in 1 .. m : seen[i] # d /\ Stamp[seen[i]] = Stamp[d]
      BY <1>8, <3>2
    <3>3. QED
      BY <2>3, <3>1, <3>2 DEF Reached, m
  <2>4. CASE ~Reached(d)
    <3>1. d \in Found(c)
      <4>1. CASE m = 0
        BY <1>6, <2>2, <4>1, FoundRows DEF Found
      <4>2. CASE m # 0
        <5>1. Beyond(KeyOf(seen[m]), KeyOf(d))
          BY <1>1, <2>1, <2>4, <4>2 DEF Covered, m
        <5>2. QED
          BY <1>7, <2>2, <4>2, <5>1, FoundRows DEF Found
      <4>3. QED
        BY <4>1, <4>2
    <3>2. CASE \E j \in 1 .. Len(read) : read[j] = d
      BY <1>8, <3>2
    <3>3. CASE ~ \E j \in 1 .. Len(read) : read[j] = d
      <4>1. /\ MoreOf(p)
            /\ \/ Beyond(KeyOf(read[Len(read)]), KeyOf(d))
               \/ session.finder \in Tables /\ KeyOf(read[Len(read)]) = KeyOf(d)
        BY <2>1, <3>1, <3>3 DEF IsWholePage, read
      <4>2. new[Len(new)] = read[Len(read)]
        BY <1>11, <4>1
      <4>3. CASE Beyond(KeyOf(read[Len(read)]), KeyOf(d))
        BY <4>1, <4>2, <4>3
      <4>4. CASE session.finder \in Tables /\ KeyOf(read[Len(read)]) = KeyOf(d)
        <5>1. Len(read) \in 1 .. Len(read) /\ Len(new) \in 1 .. Len(new)
          BY <1>4, <1>5, <1>8, <1>11, <4>1
        <5>2. read[Len(read)] # d /\ Stamp[read[Len(read)]] = Stamp[d]
          BY <3>3, <4>4, <5>1 DEF KeyOf
        <5>3. QED
          BY <4>2, <4>4, <5>1, <5>2
      <4>5. QED
        BY <4>1, <4>3, <4>4
    <3>4. QED
      BY <3>2, <3>3
  <2>5. QED
    BY <2>3, <2>4
<1>13. seen' = new /\ session' = session /\ steady' = steady
  BY DEF new, read
<1>14. SeenOrdered'
  BY <1>10, <1>13 DEF SeenOrdered, KeyOf, Beyond
<1>15. pc' \in {"ready", "ended", "back"} /\ seen' \in Seq(Ids)
  BY <1>8, <1>13
<1>16. ASSUME pc' = "ready" PROVE Position' /\ MoreOf(p)
  <2>1. MoreOf(p)
    BY <1>16
  <2>2. new # <<>> /\ NextOf(p) = KeyOf(new[Len(new)])
    BY <1>11, <2>1
  <2>3. QED
    BY <1>13, <2>1, <2>2 DEF Position, NextOf, KeyOf, Turned
<1>17. ASSUME ~cut', pc' = "ready" PROVE Covered'
  BY <1>12, <1>13, <1>17 DEF Covered, Matching, Reached, KeyOf, Beyond
<1>18. ASSUME ~cut', pc' = "ended" PROVE (\A d \in Matching(steady) : Reached(d))'
  <2>1. ~MoreOf(p)
    BY <1>18
  <2>2. \A d \in Matching(steady) : Has(d)
    BY <1>12, <1>18, <2>1
  <2>3. QED
    BY <1>13, <2>2 DEF Matching, Reached
<1>19. QED
  BY <1>14, <1>15, <1>16, <1>17, <1>18 DEF CursorInv

-----------------------------------------------------------------------------
(* The steps of the specification, and what a step of each kind leaves alone. *)

CursorSteps == NextByCursor \/ NextWithCursor \/ NextByTime
OffsetSteps == FindByOffset \/ CountDocuments \/ Count \/ TableFindByOffset \/ FindWithFilters
BackSteps   == BackByCursor \/ BackWithCursor \/ BackByTime
WriteSteps  == \/ \E d \in Ids : CreateOne(d) \/ DeleteByID(d)
               \/ \E a, b \in Ids : a < b /\ InsertBatch({a, b})
OpenSteps   == \E f \in CursorFinders \cup OffsetFinders, sort \in {"ASC", "DESC", "other"},
                  n \in PerPages, flt \in Filters : Open(f, sort, n, flt)

LEMMA Steps ==
    ASSUME [Next]_vars
    PROVE  OpenSteps \/ CursorSteps \/ OffsetSteps \/ ReadFails \/ BackSteps \/ WriteSteps
           \/ UNCHANGED vars
BY DEF Next, Walk, OpenSteps, CursorSteps, OffsetSteps, BackSteps, WriteSteps

LEMMA WriteFrame ==
    ASSUME PagingType, WriteSteps
    PROVE  /\ UNCHANGED <<session, pc, half, page, prior, seen, cut, faults>>
           /\ store' \in SUBSET Ids /\ steady' \in SUBSET store' /\ steady' \in SUBSET steady
           /\ ~quiet' /\ pc \in {"ready", "half"}
<1>1. CASE \E d \in Ids : CreateOne(d)
  BY <1>1 DEF CreateOne, Write, PagingType
<1>2. CASE \E d \in Ids : DeleteByID(d)
  BY <1>2 DEF DeleteByID, Write, PagingType
<1>3. CASE \E a, b \in Ids : a < b /\ InsertBatch({a, b})
  BY <1>3 DEF InsertBatch, Write, PagingType
<1>4. QED
  BY <1>1, <1>2, <1>3 DEF WriteSteps

LEMMA CursorFrame ==
    ASSUME CursorSteps
    PROVE  /\ UNCHANGED <<store, session, steady, quiet, half>> /\ pc = "ready"
           /\ pc' \in {"ready", "ended"} /\ session.finder \in CursorFinders
           /\ prior' = page.items
BY DEF CursorSteps, NextByCursor, NextWithCursor, NextByTime, sessionVars, Got, CursorFinders

LEMMA OffsetFrame ==
    ASSUME OffsetSteps
    PROVE  /\ UNCHANGED <<store, session, steady, quiet, prior, cut>>
           /\ pc \in {"ready", "half"} /\ pc' \in {"ready", "half", "ended"}
           /\ session.finder \in OffsetFinders
BY DEF OffsetSteps, FindByOffset, CountDocuments, Count, TableFindByOffset, FindWithFilters,
       TableQuery, GotOffset, sessionVars, OffsetFinders

LEMMA BackFrame ==
    ASSUME BackSteps
    PROVE  /\ UNCHANGED <<store, session, steady, quiet, half, prior, seen, cut>>
           /\ pc' = "back" /\ pc \in {"ready", "ended"} /\ session.finder \in CursorFinders
BY DEF BackSteps, BackByCursor, BackWithCursor, BackByTime, Back, CanGoBack, sessionVars,
       CursorFinders

LEMMA OpenFrame ==
    ASSUME OpenSteps
    PROVE  /\ UNCHANGED <<store, half, prior, seen, quiet, cut>> /\ steady' = store
           /\ pc = "idle" /\ pc' = "ready"
           /\ session'.asc \in BOOLEAN /\ session'.perPage \in Nat
           /\ session'.finder \in CursorFinders => page' = NoPage
           /\ session'.finder \in OffsetFinders => page' = [number |-> 0, total |-> 0]
           /\ session'.finder \in CursorFinders \cup OffsetFinders
<1>1. PICK f \in CursorFinders \cup OffsetFinders, sort \in {"ASC", "DESC", "other"},
           n \in PerPages, flt \in Filters : Open(f, sort, n, flt)
  BY DEF OpenSteps
<1>2. \E a \in BOOLEAN :
         session' = [finder |-> f, perPage |-> n, filter |-> flt, asc |-> a]
  BY <1>1 DEF Open
<1>3. session'.asc \in BOOLEAN /\ session'.perPage \in Nat /\ session'.finder = f
  BY <1>2, PaginationAssumption
<1>4. CursorFinders \cap OffsetFinders = {}
  BY DEF CursorFinders, OffsetFinders
<1>5. QED
  BY <1>1, <1>3, <1>4 DEF Open

LEMMA InitPaging == Init => PagingType /\ CursorInv
BY DEF Init, PagingType, CursorInv, CursorFinders, Keyed

LEMMA NextPagingType ==
    ASSUME PagingType, [Next]_vars
    PROVE  PagingType'
<1>1. CASE OpenSteps
  BY <1>1, OpenFrame DEF PagingType
<1>2. CASE CursorSteps
  BY <1>2, CursorFrame DEF PagingType
<1>3. CASE OffsetSteps
  BY <1>3, OffsetFrame DEF PagingType
<1>4. CASE ReadFails
  BY <1>4 DEF PagingType, ReadFails, sessionVars
<1>5. CASE BackSteps
  BY <1>5, BackFrame DEF PagingType
<1>6. CASE WriteSteps
  BY <1>6, WriteFrame DEF PagingType
<1>7. CASE UNCHANGED vars
  BY <1>7 DEF PagingType, vars
<1>8. QED
  BY <1>1, <1>2, <1>3, <1>4, <1>5, <1>6, <1>7, Steps

LEMMA NextByCursorInv ==
    ASSUME PagingType, CursorInv, NextByCursor PROVE CursorInv'
<1> DEFINE dir   == IF session.asc THEN 1 ELSE -1
           c     == Cursor(NextOf(page))
           limit == LimitOf(session.perPage)
           whole == FindByCursor(c, dir, limit + 1)
<1>1. /\ pc = "ready" /\ session.finder = "FindByCursor" /\ session.finder \in Keyed
      /\ UNCHANGED <<session, steady>>
  BY DEF NextByCursor, sessionVars, CursorFinders, Keyed, Tables
<1>2. c = Cursor(IF session.asc THEN page.next ELSE page.prev)
  BY <1>1 DEF NextOf, Turned
<1>3. PICK n \in 0 .. limit + 1 :
         LET p == FindByCursor(c, dir, n)
         IN  /\ Got(p, IF session.asc THEN p.hasNext ELSE p.hasPrev,
                    IF session.asc THEN p.items ELSE Reverse(p.items))
             /\ cut' = (cut \/ p # whole)
  BY <1>2 DEF NextByCursor
<1> DEFINE p == FindByCursor(c, dir, n)
<1>4. IsNextPage(c, p)
  BY <1>1, FindByCursorPage
<1>5. IsWholePage(c, whole)
  <2>1. limit + 1 \in 0 .. limit + 1
    BY LimitType
  <2>2. QED
    BY <1>1, <2>1, FindByCursorPage
<1> HIDE DEF c, whole, p
<1>6. Got(p, MoreOf(p), ReadOf(p)) /\ cut' = (cut \/ p # whole)
  BY <1>1, <1>3 DEF p, MoreOf, ReadOf, Turned
<1>7. ~cut' => ~cut /\ IsWholePage(c, p)
  BY <1>5, <1>6
<1>8. /\ page' = p /\ seen' = seen \o ReadOf(p)
      /\ pc' = IF MoreOf(p) THEN "ready" ELSE "ended"
  BY <1>6 DEF Got
<1>9. QED
  BY <1>1, <1>4, <1>7, <1>8, CursorStep DEF c

LEMMA NextWithCursorInv ==
    ASSUME PagingType, CursorInv, NextWithCursor PROVE CursorInv'
<1> DEFINE c == Cursor(NextOf(page))
           p == FindWithCursor(c, TRUE)
<1>1. /\ pc = "ready" /\ session.finder = "FindWithCursor" /\ session.finder \in Keyed
      /\ UNCHANGED <<session, steady, cut>> /\ ~Turned
  BY DEF NextWithCursor, sessionVars, CursorFinders, Keyed, Tables, Turned
<1>2. c = Cursor(page.next)
  BY <1>1 DEF NextOf
<1>3. Got(p, p.hasNext, p.items)
  BY <1>2 DEF NextWithCursor
<1>4. IsNextPage(c, p) /\ IsWholePage(c, p)
  BY <1>1, FindWithCursorPage
<1> HIDE DEF c, p
<1>5. Got(p, MoreOf(p), ReadOf(p))
  BY <1>1, <1>3 DEF MoreOf, ReadOf
<1>6. /\ page' = p /\ seen' = seen \o ReadOf(p)
      /\ pc' = IF MoreOf(p) THEN "ready" ELSE "ended"
  BY <1>5 DEF Got
<1>7. ~cut' => ~cut /\ IsWholePage(c, p)
  BY <1>1, <1>4
<1>8. QED
  BY <1>1, <1>4, <1>6, <1>7, CursorStep DEF c

LEMMA NextByTimeInv ==
    ASSUME PagingType, CursorInv, NextByTime PROVE CursorInv'
<1>0. SUFFICES ASSUME TimeField, session.finder \in Keyed PROVE CursorInv'
  <2>1. CASE ~ (session'.finder \in Keyed)
    BY <2>1 DEF CursorInv
  <2>2. session' = session /\ session.finder = "Table.FindByCursor"
    BY DEF NextByTime, sessionVars
  <2>3. session.finder \in Keyed => TimeField
    BY <2>2 DEF Keyed, Tables
  <2>4. QED
    BY <2>1, <2>2, <2>3
<1> DEFINE c == Cursor(NextOf(page))
<1>1. /\ pc = "ready" /\ session.finder = "Table.FindByCursor"
      /\ session.finder \in Keyed /\ UNCHANGED <<session, steady, cut>> /\ ~Turned
  BY <1>0 DEF NextByTime, sessionVars, Turned
<1>2. c = Cursor(page.next)
  BY <1>1 DEF NextOf
<1>3. PICK flip \in BOOLEAN :
         LET p == TableFindByCursor(c, TRUE, flip) IN Got(p, p.hasNext, p.items)
  BY <1>2 DEF NextByTime
<1> DEFINE p == TableFindByCursor(c, TRUE, flip)
<1>4. IsNextPage(c, p) /\ IsWholePage(c, p)
  BY <1>0, <1>1, TableFindByCursorPage
<1> HIDE DEF c, p
<1>5. Got(p, MoreOf(p), ReadOf(p))
  BY <1>1, <1>3 DEF p, MoreOf, ReadOf
<1>6. /\ page' = p /\ seen' = seen \o ReadOf(p)
      /\ pc' = IF MoreOf(p) THEN "ready" ELSE "ended"
  BY <1>5 DEF Got
<1>7. ~cut' => ~cut /\ IsWholePage(c, p)
  BY <1>1, <1>4
<1>8. QED
  BY <1>1, <1>4, <1>6, <1>7, CursorStep DEF c

(* A step that leaves the caller's rows alone, and keeps or ends the walk. *)
LEMMA CursorInvKept ==
    ASSUME CursorInv, UNCHANGED <<session, page, seen, cut>>, steady' \in SUBSET steady,
           pc' = pc \/ pc' = "back" \/ session.finder \notin Keyed
    PROVE  CursorInv'
<1>1. SUFFICES ASSUME session.finder \in Keyed PROVE CursorInv'
  BY DEF CursorInv
<1>2. Matching(steady)' \in SUBSET Matching(steady)
  BY DEF Matching
<1>3. \A d : Reached(d)' <=> Reached(d)
  BY DEF Reached
<1>4. SeenOrdered' <=> SeenOrdered
  BY DEF SeenOrdered, KeyOf, Beyond
<1>5. Position' <=> Position
  BY DEF Position, NextOf, Turned, KeyOf
<1>6. Covered => Covered'
  BY <1>2, <1>3 DEF Covered, KeyOf, Beyond
<1>7. QED
  BY <1>1, <1>2, <1>3, <1>4, <1>5, <1>6 DEF CursorInv

LEMMA NextCursorInv ==
    ASSUME PagingType, CursorInv, [Next]_vars PROVE CursorInv'
<1>1. CASE OpenSteps
  <2>1. SUFFICES ASSUME session'.finder \in Keyed PROVE CursorInv'
    BY DEF CursorInv
  <2>2. seen' = <<>> /\ page' = NoPage /\ pc' = "ready"
    BY <1>1, <2>1, OpenFrame DEF PagingType, Keyed
  <2>3. QED
    BY <2>2 DEF CursorInv, SeenOrdered, Position, Covered
<1>2. CASE CursorSteps
  BY <1>2, NextByCursorInv, NextWithCursorInv, NextByTimeInv DEF CursorSteps
<1>3. CASE OffsetSteps
  <2>1. session'.finder \notin Keyed
    BY <1>3, OffsetFrame DEF CursorFinders, OffsetFinders, Keyed
  <2>2. QED
    BY <2>1 DEF CursorInv
<1>4. CASE ReadFails
  <2>1. UNCHANGED <<session, page, seen, cut, steady>> /\ pc' = "ready" /\ pc \in {"ready", "half"}
    BY <1>4 DEF ReadFails, sessionVars
  <2>2. pc' = pc \/ session.finder \notin Keyed
    BY <2>1 DEF CursorInv
  <2>3. QED
    BY <2>1, <2>2, CursorInvKept
<1>5. CASE BackSteps
  <2>1. SUFFICES ASSUME session.finder \in Keyed PROVE CursorInv'
    BY <1>5, BackFrame DEF CursorInv
  <2>2. UNCHANGED <<session, seen>> /\ pc' = "back"
    BY <1>5, BackFrame
  <2>3. SeenOrdered'
    BY <2>1, <2>2 DEF CursorInv, SeenOrdered, KeyOf, Beyond
  <2>4. QED
    BY <2>1, <2>2, <2>3 DEF CursorInv
<1>6. CASE WriteSteps
  BY <1>6, WriteFrame, CursorInvKept
<1>7. CASE UNCHANGED vars
  BY <1>7, CursorInvKept DEF vars
<1>8. QED
  BY <1>1, <1>2, <1>3, <1>4, <1>5, <1>6, <1>7, Steps

LEMMA CursorInvariant == Spec => [](PagingType /\ CursorInv)
<1>1. Init => PagingType /\ CursorInv
  BY InitPaging
<1>2. PagingType /\ CursorInv /\ [Next]_vars => (PagingType /\ CursorInv)'
  BY NextPagingType, NextCursorInv
<1>3. QED
  BY <1>1, <1>2, PTL DEF Spec

(* A cursor walk (Mongo FindByCursor and FindWithCursor, ClickHouse          *)
(* FindByCursor) never returns a row twice or out of order, whatever is     *)
(* inserted or deleted between two pages, for any page size and filter.     *)
THEOREM WalkIsOrdered == Spec => []WalkOrdered
<1>1. PagingType /\ CursorInv => WalkOrdered
  <2>1. SUFFICES ASSUME PagingType, CursorInv, session.finder \in Keyed,
                        NEW i \in DOMAIN seen, NEW j \in DOMAIN seen, i < j
                 PROVE  /\ seen[i] # seen[j]
                        /\ \/ KeyOf(seen[i]) = KeyOf(seen[j])
                           \/ (KeyOf(seen[i]) < KeyOf(seen[j])) = session.asc
    BY DEF WalkOrdered, KeyOf
  <2>2. i \in 1 .. Len(seen) /\ j \in 1 .. Len(seen) /\ seen[i] \in Ids /\ seen[j] \in Ids
    BY <2>1 DEF CursorInv
  <2>3. KeyOf(seen[i]) \in Nat /\ KeyOf(seen[j]) \in Nat
    BY <2>2, KeyType
  <2>4. /\ seen[i] # seen[j]
        /\ KeyOf(seen[i]) = KeyOf(seen[j]) \/ Beyond(KeyOf(seen[i]), KeyOf(seen[j]))
    BY <2>1, <2>2 DEF CursorInv, SeenOrdered
  <2>5. QED
    BY <2>1, <2>3, <2>4 DEF Beyond, PagingType
<1>2. QED
  BY <1>1, CursorInvariant, PTL

(* A cursor walk that ended returned every matching row that was there all  *)
(* along, up to ClickHouse rows with the timestamp of a returned one and    *)
(* the FindByCursor whose iteration broke off unnoticed.                    *)
THEOREM WalkIsComplete == Spec => []WalkComplete
<1>1. PagingType /\ CursorInv => WalkComplete
  <2>1. SUFFICES ASSUME CursorInv, session.finder \in Keyed, pc = "ended", ~cut,
                        NEW d \in Matching(steady)
                 PROVE  \/ d \in ToSet(seen)
                        \/ /\ session.finder \in Tables
                           /\ \E e \in ToSet(seen) : e # d /\ Stamp[e] = Stamp[d]
    BY DEF WalkComplete
  <2>2. Reached(d) /\ DOMAIN seen = 1 .. Len(seen)
    BY <2>1 DEF CursorInv
  <2>3. QED
    BY <2>2 DEF Reached, ToSet
<1>2. QED
  BY <1>1, CursorInvariant, PTL

-----------------------------------------------------------------------------
(* An offset walk. *)

(* Taking a rows and then the b behind them is taking a + b. *)
LEMMA TakeOn ==
    ASSUME NEW S, NEW s \in Seq(S), NEW a \in Nat, NEW b \in Nat
    PROVE  Take(s, a) \o Take(Drop(s, a), b) = Take(s, a + b)
<1> DEFINE t == Take(s, a)
           u == Take(Drop(s, a), b)
           v == Take(s, a + b)
<1>1. Len(s) \in Nat /\ a + b \in Nat
  OBVIOUS
<1>2. /\ t \in Seq(S) /\ Len(t) = IF a < Len(s) THEN a ELSE Len(s)
      /\ \A i \in 1 .. Len(t) : t[i] = s[i]
  BY TakeRows
<1>3. /\ Drop(s, a) \in Seq(S) /\ Len(Drop(s, a)) = IF a < Len(s) THEN Len(s) - a ELSE 0
      /\ \A i \in 1 .. Len(Drop(s, a)) : Drop(s, a)[i] = s[a + i]
  BY DropRows
<1>4. /\ u \in Seq(S) /\ Len(u) = IF b < Len(Drop(s, a)) THEN b ELSE Len(Drop(s, a))
      /\ \A i \in 1 .. Len(u) : u[i] = Drop(s, a)[i]
  BY <1>3, TakeRows
<1>5. /\ v \in Seq(S) /\ Len(v) = IF a + b < Len(s) THEN a + b ELSE Len(s)
      /\ \A i \in 1 .. Len(v) : v[i] = s[i]
  BY <1>1, TakeRows
<1> HIDE DEF t, u, v
<1> DEFINE w == t \o u
<1>6. /\ Len(t) \in Nat /\ Len(u) \in Nat /\ Len(v) \in Nat
      /\ w \in Seq(S) /\ Len(w) = Len(t) + Len(u)
      /\ \A i \in 1 .. Len(t) + Len(u) : w[i] = IF i <= Len(t) THEN t[i] ELSE u[i - Len(t)]
  <2>1. t \in Seq(S) /\ u \in Seq(S) /\ v \in Seq(S)
    BY <1>2, <1>4, <1>5
  <2>2. QED
    BY <2>1, ConcatProperties, LenProperties
<1> HIDE DEF w
<1>7. Len(w) = Len(v)
  <2>1. CASE a < Len(s)
    BY <1>1, <1>2, <1>3, <1>4, <1>5, <1>6, <2>1
  <2>2. CASE ~ (a < Len(s))
    BY <1>1, <1>2, <1>3, <1>4, <1>5, <1>6, <2>2
  <2>3. QED
    BY <2>1, <2>2
<1>8. ASSUME NEW i \in 1 .. Len(v) PROVE w[i] = v[i]
  <2>1. i \in Nat /\ i \in 1 .. Len(t) + Len(u) /\ v[i] = s[i]
    BY <1>5, <1>6, <1>7
  <2>2. CASE i <= Len(t)
    <3>1. i \in 1 .. Len(t)
      BY <1>6, <2>1, <2>2
    <3>2. QED
      BY <1>2, <1>6, <2>1, <2>2, <3>1
  <2>3. CASE ~ (i <= Len(t))
    <3>1. i - Len(t) \in 1 .. Len(u) /\ w[i] = u[i - Len(t)]
      BY <1>6, <2>1, <2>3
    <3>2. Len(t) = a
      BY <1>1, <1>2, <1>3, <1>4, <1>6, <3>1
    <3>3. i - a \in 1 .. Len(Drop(s, a)) /\ a + (i - a) = i
      BY <1>1, <1>3, <1>4, <2>1, <3>1, <3>2
    <3>4. QED
      BY <1>3, <1>4, <2>1, <3>1, <3>2, <3>3
  <2>4. QED
    BY <2>2, <2>3
<1>9. QED
  BY <1>5, <1>6, <1>7, <1>8, SeqEqual DEF t, u, v, w

(* Pages of P rows, as many as TotalPages says, hold all rows. *)
LEMMA EnoughPages ==
    ASSUME NEW t \in Nat, NEW P \in Nat \ {0}, NEW k \in Nat, (t + P - 1) \div P <= k
    PROVE  t <= k * P
<1> DEFINE q == (t + P - 1) \div P
<1>1. q \in Int /\ t + P - 1 < P * q + P
  OBVIOUS
<1> HIDE DEF q
<1>2. t <= P * q
  BY <1>1
<1>3. P * q <= P * k
  BY <1>1 DEF q
<1>4. QED
  BY <1>1, <1>2, <1>3

(* The rows the walk is over, and the largest offset the finder asks for. *)
Whole == IF session.finder \in Tables THEN ByTime(Matching(store), session.asc, TRUE)
         ELSE ById(Matching(store), session.asc)
Cap   == IF session.finder \in Tables THEN MaxOffset ELSE MaxOffsetSkip

Distinct == session.finder \in Tables =>
               \A d, e \in Matching(store) : d # e => Stamp[d] # Stamp[e]

(* Page by page the caller has the first rows; a read that is under way has *)
(* the count or the next rows, and the walk ends when no row is left.       *)
OffsetInv ==
    LET P == PerPageOf(session.perPage)
        total == Cardinality(Matching(store))
    IN  session.finder \in OffsetFinders =>
          /\ pc \in {"ready", "half", "ended"}
          /\ page.number \in Nat
          /\ quiet =>
               /\ (page.number - 1) * P <= Cap /\ Distinct => seen = Take(Whole, page.number * P)
               /\ pc = "half" => half = IF session.finder \in Tables THEN <<total>>
                                        ELSE Take(Drop(Whole, SkipOf(page.number + 1)), P)
               /\ pc = "ended" => total <= page.number * P

LEMMA AllRows ==
    ASSUME NEW S \in SUBSET Ids, NEW asc \in BOOLEAN
    PROVE  /\ ById(S, asc) \in Seq(S) /\ Len(ById(S, asc)) = Cardinality(S)
           /\ ByTime(S, asc, TRUE) \in Seq(S) /\ Len(ByTime(S, asc, TRUE)) = Cardinality(S)
<1>1. /\ ById(S, asc) = Sorted(S, IdOrder(asc)) /\ Order(IdOrder(asc))
      /\ ByTime(S, asc, TRUE) = Sorted(S, TimeOrder(asc, TRUE)) /\ Order(TimeOrder(asc, TRUE))
  BY ByIdIsSorted, ByTimeIsSorted, IdOrderIsOrder, TimeOrderIsOrder
<1>2. QED
  BY <1>1, SortedRows

LEMMA WholeRows ==
    ASSUME PagingType
    PROVE  /\ Cardinality(Matching(store)) \in Nat
           /\ Whole \in Seq(Matching(store)) /\ Len(Whole) = Cardinality(Matching(store))
<1>1. Matching(store) \in SUBSET Ids /\ session.asc \in BOOLEAN
  BY FoundRows DEF PagingType
<1>2. QED
  BY <1>1, FiniteRows, AllRows DEF Whole

LEMMA SelectIsTake ==
    ASSUME NEW S, NEW s \in Seq(S), NEW P \in Nat \ {0}, NEW off \in Nat
    PROVE  BuildSelect(s, P, off) = Take(Drop(s, off), P)
<1>1. Drop(s, 0) = s
  <2>1. Drop(s, 0) \in Seq(S) /\ Len(Drop(s, 0)) = Len(s) /\ Len(s) \in Nat
    BY DropRows
  <2>2. \A i \in 1 .. Len(Drop(s, 0)) : Drop(s, 0)[i] = s[0 + i]
    BY DropRows
  <2>3. \A i \in 1 .. Len(s) : 0 + i = i
    BY <2>1
  <2>4. QED
    BY <2>1, <2>2, <2>3, SeqEqual
<1>2. off > 0 \/ off = 0
  OBVIOUS
<1>3. QED
  BY <1>1, <1>2 DEF BuildSelect

(* One more page of an offset walk. *)
LEMMA OffsetStep ==
    ASSUME PagingType, OffsetInv, session.finder \in OffsetFinders, NEW list, NEW total,
           GotOffset(list, total),
           quiet => total = Cardinality(Matching(store)),
           quiet /\ Distinct /\ page.number * PerPageOf(session.perPage) <= Cap =>
             list = Take(Drop(Whole, page.number * PerPageOf(session.perPage)),
                         PerPageOf(session.perPage))
    PROVE  OffsetInv'
<1> DEFINE P == PerPageOf(session.perPage)
           k == page.number
           n == Cardinality(Matching(store))
<1>1. P \in Nat \ {0} /\ k \in Nat /\ n \in Nat /\ Whole \in Seq(Matching(store))
  BY LimitType, WholeRows DEF OffsetInv
<1>2. UNCHANGED <<store, session, quiet>>
  BY DEF GotOffset, sessionVars
<1>3. page' = [number |-> k + 1, total |-> TotalPages(total)] /\ seen' = seen \o list
  BY DEF GotOffset
<1>4. page'.number = k + 1 /\ page'.number \in Nat
  BY <1>1, <1>3
<1>5. pc' \in {"ready", "ended"} /\ (pc' = "ended" => ~ (k + 1 < TotalPages(total)))
  BY DEF GotOffset
<1>6. /\ PerPageOf(session.perPage)' = P /\ Cap' = Cap /\ Whole' = Whole
      /\ (Distinct' <=> Distinct) /\ Cardinality(Matching(store))' = n
  BY <1>2 DEF PerPageOf, Cap, Whole, Distinct, Matching
<1>7. ASSUME quiet, k * P <= Cap, Distinct PROVE seen' = Take(Whole, (k + 1) * P)
  <2>1. (k - 1) * P = k * P - P /\ (k + 1) * P = k * P + P /\ k * P \in Nat
    BY <1>1
  <2>2. (k - 1) * P <= Cap
    <3>1. Cap \in Nat
      BY PaginationAssumption DEF Cap
    <3>2. QED
      BY <1>1, <1>7, <2>1, <3>1
  <2>3. seen = Take(Whole, k * P)
    BY <1>7, <2>2 DEF OffsetInv
  <2>4. list = Take(Drop(Whole, k * P), P)
    BY <1>7
  <2>5. Take(Whole, k * P) \o Take(Drop(Whole, k * P), P) = Take(Whole, k * P + P)
    BY <1>1, <2>1, TakeOn
  <2>6. QED
    BY <1>3, <2>1, <2>3, <2>4, <2>5
<1>8. ASSUME quiet, pc' = "ended" PROVE n <= (k + 1) * P
  <2>1. ~ (k + 1 < (n + P - 1) \div P)
    BY <1>5, <1>8 DEF TotalPages
  <2>2. (n + P - 1) \div P \in Int
    BY <1>1
  <2>3. (n + P - 1) \div P <= k + 1 /\ k + 1 \in Nat
    BY <1>1, <2>1, <2>2
  <2>4. QED
    BY <1>1, <2>3, EnoughPages
<1>9. (k + 1) - 1 = k
  BY <1>1
<1> HIDE DEF P, k, n
<1>10. QED
  BY <1>2, <1>4, <1>5, <1>6, <1>7, <1>8, <1>9 DEF OffsetInv, n

LEMMA FindByOffsetInv ==
    ASSUME PagingType, OffsetInv, FindByOffset PROVE OffsetInv'
<1>1. /\ session.finder = "FindByOffset" /\ UNCHANGED <<store, session, page, seen, quiet>>
      /\ pc' = "half"
      /\ half' = Take(Drop(ById(Matching(store), session.asc), SkipOf(page.number + 1)),
                      PerPageOf(session.perPage))
  BY DEF FindByOffset, sessionVars
<1>2. session.finder \in OffsetFinders /\ session.finder \notin Tables
  BY <1>1 DEF OffsetFinders, Tables
<1>3. /\ PerPageOf(session.perPage)' = PerPageOf(session.perPage) /\ Cap' = Cap
      /\ Whole' = Whole /\ (Distinct' <=> Distinct)
      /\ SkipOf(page.number + 1)' = SkipOf(page.number + 1)
  BY <1>1 DEF PerPageOf, Cap, Whole, Distinct, Matching, SkipOf
<1>4. half' = Take(Drop(Whole, SkipOf(page.number + 1)), PerPageOf(session.perPage))
  BY <1>1, <1>2 DEF Whole
<1>5. QED
  BY <1>1, <1>2, <1>3, <1>4 DEF OffsetInv

LEMMA CountDocumentsInv ==
    ASSUME PagingType, OffsetInv, CountDocuments PROVE OffsetInv'
<1> DEFINE P == PerPageOf(session.perPage)
           k == page.number
<1>1. /\ pc = "half" /\ session.finder = "FindByOffset"
      /\ GotOffset(half, Cardinality(Matching(store)))
  BY DEF CountDocuments
<1>2. session.finder \in OffsetFinders /\ session.finder \notin Tables
  BY <1>1 DEF OffsetFinders, Tables
<1>3. ASSUME quiet, k * P <= Cap PROVE half = Take(Drop(Whole, k * P), P)
  <2>1. half = Take(Drop(Whole, SkipOf(k + 1)), P) /\ k \in Nat
    BY <1>1, <1>2, <1>3 DEF OffsetInv
  <2>2. ((k + 1) - 1) * P = k * P /\ k * P \in Int /\ MaxOffsetSkip \in Int
    BY <2>1, LimitType, PaginationAssumption
  <2>3. k * P <= MaxOffsetSkip
    BY <1>2, <1>3 DEF Cap
  <2>4. SkipOf(k + 1) = k * P
    BY <2>2, <2>3 DEF SkipOf
  <2>5. QED
    BY <2>1, <2>4
<1>4. QED
  BY <1>1, <1>2, <1>3, OffsetStep

LEMMA CountInv ==
    ASSUME PagingType, OffsetInv, Count PROVE OffsetInv'
<1>1. /\ session.finder \in OffsetFinders /\ session.finder \in Tables
      /\ UNCHANGED <<store, session, page, seen, quiet>> /\ pc' = "half"
      /\ half' = <<Cardinality(Matching(store))>>
  BY DEF Count, sessionVars, BuildCount
<1>2. /\ PerPageOf(session.perPage)' = PerPageOf(session.perPage) /\ Cap' = Cap
      /\ Whole' = Whole /\ (Distinct' <=> Distinct)
      /\ Cardinality(Matching(store))' = Cardinality(Matching(store))
  BY <1>1 DEF PerPageOf, Cap, Whole, Distinct, Matching
<1>3. QED
  BY <1>1, <1>2 DEF OffsetInv

LEMMA TableQueryInv ==
    ASSUME PagingType, OffsetInv, NEW f \in OffsetFinders \cap Tables, TableQuery(f)
    PROVE  OffsetInv'
<1> DEFINE P == PerPageOf(session.perPage)
           k == page.number
<1>1. pc = "half" /\ session.finder \in OffsetFinders /\ session.finder \in Tables
  BY DEF TableQuery
<1>2. PICK flip \in BOOLEAN :
         GotOffset(BuildSelect(ByTime(Matching(store), session.asc, flip), P, OffsetOf(k + 1)),
                   half[1])
  BY DEF TableQuery
<1> DEFINE list == BuildSelect(ByTime(Matching(store), session.asc, flip), P, OffsetOf(k + 1))
<1>3. quiet => half[1] = Cardinality(Matching(store))
  BY <1>1 DEF OffsetInv
<1>4. ASSUME quiet, Distinct, k * P <= Cap PROVE list = Take(Drop(Whole, k * P), P)
  <2>1. k \in Nat /\ P \in Nat \ {0} /\ Whole \in Seq(Matching(store))
    BY <1>1, LimitType, WholeRows DEF OffsetInv
  <2>2. ((k + 1) - 1) * P = k * P /\ k * P \in Nat /\ MaxOffset \in Int
    BY <2>1, PaginationAssumption
  <2>3. k * P <= MaxOffset
    BY <1>1, <1>4 DEF Cap
  <2>4. OffsetOf(k + 1) = k * P
    BY <2>2, <2>3 DEF OffsetOf
  <2>5. ByTime(Matching(store), session.asc, flip) = Whole
    <3>1. Matching(store) \in SUBSET Ids /\ session.asc \in BOOLEAN
      BY FoundRows DEF PagingType
    <3>2. \A d, e \in Matching(store) : d # e => Stamp[d] # Stamp[e]
      BY <1>1, <1>4 DEF Distinct
    <3>3. ByTime(Matching(store), session.asc, flip) = ByTime(Matching(store), session.asc, TRUE)
      BY <3>1, <3>2, FlipIsIrrelevant
    <3>4. QED
      BY <1>1, <3>3 DEF Whole
  <2>6. QED
    BY <2>1, <2>2, <2>4, <2>5, SelectIsTake
<1> HIDE DEF list
<1>5. GotOffset(list, half[1])
  BY <1>2 DEF list
<1>6. QED
  BY <1>1, <1>3, <1>4, <1>5, OffsetStep

LEMMA NextOffsetInv ==
    ASSUME PagingType, OffsetInv, [Next]_vars PROVE OffsetInv'
<1>1. CASE OpenSteps
  <2>1. SUFFICES ASSUME session'.finder \in OffsetFinders PROVE OffsetInv'
    BY DEF OffsetInv
  <2>2. /\ seen' = <<>> /\ page' = [number |-> 0, total |-> 0] /\ pc' = "ready"
    BY <1>1, <2>1, OpenFrame DEF PagingType
  <2>3. page'.number = 0
    BY <2>2
  <2>4. Take(Whole, page.number * PerPageOf(session.perPage))' = <<>>
    <3>1. PagingType'
      BY NextPagingType
    <3>2. Whole' \in Seq(Matching(store)') /\ PerPageOf(session.perPage)' \in Nat
      <4>1. Whole' \in Seq(Matching(store)')
        <5>1. Matching(store)' \in SUBSET Ids /\ session'.asc \in BOOLEAN
          BY <3>1 DEF PagingType, Matching
        <5>2. QED
          BY <5>1, AllRows DEF Whole
      <4>2. PerPageOf(session.perPage)' \in Nat
        BY <3>1, PaginationAssumption DEF PagingType, PerPageOf
      <4>3. QED
        BY <4>1, <4>2
    <3>3. Take(Whole', 0) = <<>>
      BY <3>2, TakeRows
    <3>4. 0 * PerPageOf(session.perPage)' = 0
      BY <3>2
    <3>5. QED
      BY <2>3, <3>3, <3>4 DEF Take
  <2>5. QED
    BY <2>2, <2>3, <2>4 DEF OffsetInv
<1>2. CASE OffsetSteps
  <2>1. "Table.FindByOffset" \in OffsetFinders \cap Tables
        /\ "Table.FindWithFilters" \in OffsetFinders \cap Tables
    BY DEF OffsetFinders, Tables
  <2>2. QED
    BY <1>2, <2>1, FindByOffsetInv, CountDocumentsInv, CountInv, TableQueryInv
       DEF OffsetSteps, TableFindByOffset, FindWithFilters
<1>3. CASE CursorSteps \/ BackSteps
  <2>1. session'.finder \notin OffsetFinders
    BY <1>3, CursorFrame, BackFrame DEF CursorFinders, OffsetFinders
  <2>2. QED
    BY <2>1 DEF OffsetInv
<1>4. CASE ReadFails
  <2>1. UNCHANGED <<store, session, page, seen, quiet>> /\ pc' = "ready"
    BY <1>4 DEF ReadFails, sessionVars
  <2>2. /\ PerPageOf(session.perPage)' = PerPageOf(session.perPage) /\ Cap' = Cap
        /\ Whole' = Whole /\ (Distinct' <=> Distinct)
    BY <2>1 DEF PerPageOf, Cap, Whole, Distinct, Matching
  <2>3. QED
    BY <2>1, <2>2 DEF OffsetInv
<1>5. CASE WriteSteps
  BY <1>5, WriteFrame DEF OffsetInv
<1>6. CASE UNCHANGED vars
  <2>1. UNCHANGED <<store, session, page, seen, quiet, half, pc>>
    BY <1>6 DEF vars
  <2>2. /\ PerPageOf(session.perPage)' = PerPageOf(session.perPage) /\ Cap' = Cap
        /\ Whole' = Whole /\ (Distinct' <=> Distinct)
        /\ Cardinality(Matching(store))' = Cardinality(Matching(store))
        /\ SkipOf(page.number + 1)' = SkipOf(page.number + 1)
    BY <2>1 DEF PerPageOf, Cap, Whole, Distinct, Matching, SkipOf
  <2>3. QED
    BY <2>1, <2>2 DEF OffsetInv
<1>7. QED
  BY <1>1, <1>2, <1>3, <1>4, <1>5, <1>6, Steps

(* Pages 1 to TotalPages of an offset walk (Mongo FindByOffset, ClickHouse   *)
(* FindByOffset and FindWithFilters) over a collection nobody writes to are *)
(* the sorted collection, cut, if the last page is within the cap on the    *)
(* offset and the sort key tells rows apart.                                *)
THEOREM OffsetPagesPartition == Spec => []OffsetPages
<1>1. Init => OffsetInv
  BY DEF Init, OffsetInv, OffsetFinders
<1>2. PagingType /\ CursorInv /\ OffsetInv /\ [Next]_vars => OffsetInv'
  BY NextOffsetInv
<1>3. PagingType /\ OffsetInv => OffsetPages
  <2>1. SUFFICES ASSUME PagingType, OffsetInv, pc = "ended", session.finder \in OffsetFinders,
                        quiet, (page.number - 1) * PerPageOf(session.perPage) <= Cap, Distinct
                 PROVE  seen = Whole
    BY DEF OffsetPages, Cap, Distinct, Whole
  <2> DEFINE n == page.number * PerPageOf(session.perPage)
  <2>2. seen = Take(Whole, n) /\ Cardinality(Matching(store)) <= n /\ page.number \in Nat
    BY <2>1 DEF OffsetInv
  <2>3. n \in Nat
    BY <2>1, <2>2, LimitType
  <2>4. /\ Whole \in Seq(Matching(store)) /\ Len(Whole) = Cardinality(Matching(store))
        /\ Len(Whole) \in Nat
    BY <2>1, WholeRows
  <2> HIDE DEF n
  <2>5. /\ Take(Whole, n) \in Seq(Matching(store)) /\ Len(Take(Whole, n)) = Len(Whole)
        /\ \A i \in 1 .. Len(Take(Whole, n)) : Take(Whole, n)[i] = Whole[i]
    BY <2>2, <2>3, <2>4, TakeRows
  <2>6. QED
    BY <2>2, <2>4, <2>5, SeqEqual
<1>4. QED
  BY <1>1, <1>2, <1>3, CursorInvariant, PTL DEF Spec
-----------------------------------------------------------------------------
(* Going back with Mongo FindByCursor, in a quiet collection and with a     *)
(* filter that asks nothing of _id.                                         *)

ListOrdered(R, f) == \A i, j \in 1 .. Len(f) : i < j => <<f[i], f[j]>> \in R

In(d, f) == \E i \in 1 .. Len(f) : f[i] = d

(* A full page: limit neighbours among the rows. *)
FullPage(M, R, limit, f) ==
    /\ f \in Seq(M) /\ Len(f) = limit /\ ListOrdered(R, f)
    /\ \A d \in M : In(d, f) \/ <<d, f[1]>> \in R \/ <<f[Len(f)], d>> \in R

(* The full page g is the one right before the page f. *)
PageBefore(M, R, limit, g, f) ==
    /\ f \in Seq(M) /\ f # <<>>
    /\ g \in Seq(M) /\ Len(g) = limit /\ ListOrdered(R, g)
    /\ \A i \in 1 .. Len(g) : <<g[i], f[1]>> \in R
    /\ \A d \in M : <<d, f[1]>> \in R => In(d, g) \/ <<d, g[1]>> \in R

(* A list of rows in the direction of the walk. *)
Facing(s) == IF Turned THEN Reverse(s) ELSE s

(* The walk goes on from a full page, and the page the caller came from is  *)
(* the one right before the last.                                           *)
BackInv ==
    LET M == Matching(store)
        R == IdOrder(session.asc)
        limit == LimitOf(session.perPage)
    IN  session.finder = "FindByCursor" /\ quiet /\ ~OwnId(session.filter) =>
          /\ pc = "ready" =>
               \/ seen = <<>> /\ page = NoPage
               \/ /\ page.items \in Seq(M) /\ FullPage(M, R, limit, Facing(page.items))
                  /\ NextOf(page) = Facing(page.items)[limit]
          /\ pc \in {"ready", "ended"} /\ page.items # <<>> /\ prior # <<>> =>
               /\ prior \in Seq(M)
               /\ PageBefore(M, R, limit, Facing(prior), Facing(page.items))
               /\ PrevOf(page) = Facing(page.items)[1]
          /\ pc = "back" => page.items = prior

(* Such a filter asks the same with a cursor and without one. *)
LEMMA NothingOverwritten ==
    ASSUME ~OwnId(session.filter), NEW c
    PROVE  Uncursored(store) = Matching(store) /\ Asked(c) = Matching(store)
BY DEF OwnId, Uncursored, Matching, Asked

(* The walk's next page, where the rows F it is read from are the last ones. *)
LEMMA NextIsFull ==
    ASSUME NEW M \in SUBSET Ids, NEW R, Order(R), NEW limit \in Nat \ {0}, NEW F \in SUBSET M,
           \A d \in M, e \in F : d \notin F => <<d, e>> \in R,
           NEW n, NEW rows, NEW list, IsPage(F, R, limit, n, rows, list), Len(rows) > limit
    PROVE  FullPage(M, R, limit, list)
<1>1. /\ list \in Seq(F) /\ Len(list) = limit /\ n = limit + 1
      /\ \A i, j \in 1 .. Len(list) : i < j => <<list[i], list[j]>> \in R
      /\ \A d \in F : (\E j \in 1 .. Len(list) : list[j] = d) \/ <<list[Len(list)], d>> \in R
  BY DEF IsPage
<1>2. list \in Seq(M) /\ list[1] \in F
  BY <1>1
<1>3. ASSUME NEW d \in M
      PROVE  In(d, list) \/ <<d, list[1]>> \in R \/ <<list[Len(list)], d>> \in R
  BY <1>1, <1>2 DEF In
<1>4. QED
  BY <1>1, <1>2, <1>3 DEF FullPage, ListOrdered

LEMMA NextHasBefore ==
    ASSUME NEW M \in SUBSET Ids, NEW R, Order(R), NEW limit \in Nat \ {0},
           NEW f, FullPage(M, R, limit, f),
           NEW F \in SUBSET M, \A d \in M : d \in F <=> <<f[limit], d>> \in R,
           NEW n, NEW rows, NEW list, IsPage(F, R, limit, n, rows, list), list # <<>>
    PROVE  PageBefore(M, R, limit, f, list)
<1>1. /\ f \in Seq(M) /\ Len(f) = limit /\ limit \in 1 .. limit
      /\ \A i, j \in 1 .. limit : i < j => <<f[i], f[j]>> \in R
      /\ \A d \in M : In(d, f) \/ <<d, f[1]>> \in R \/ <<f[limit], d>> \in R
  BY DEF FullPage, ListOrdered
<1>2. \A i \in 1 .. limit : f[i] \in M /\ f[i] \in Ids
  BY <1>1
<1>3. /\ list \in Seq(F)
      /\ \A i, j \in 1 .. Len(list) : i < j => <<list[i], list[j]>> \in R
      /\ \A d \in F, i \in 1 .. Len(list) :
            <<d, list[i]>> \in R => \E j \in 1 .. Len(list) : list[j] = d
  BY DEF IsPage
<1>4. list \in Seq(M) /\ 1 \in 1 .. Len(list) /\ list[1] \in F /\ list[1] \in Ids
      /\ <<f[limit], list[1]>> \in R
  <2>1. list \in Seq(M) /\ 1 \in 1 .. Len(list)
    BY <1>3
  <2>2. list[1] \in F
    BY <1>3, <2>1
  <2>3. QED
    BY <2>1, <2>2
<1>5. ASSUME NEW i \in 1 .. limit PROVE <<f[i], list[1]>> \in R
  <2>1. i = limit \/ <<f[i], f[limit]>> \in R
    BY <1>1
  <2>2. QED
    BY <1>1, <1>2, <1>4, <2>1 DEF Order
<1>6. ASSUME NEW d \in M, <<d, list[1]>> \in R PROVE In(d, f) \/ <<d, f[1]>> \in R
  <2>1. ~ (<<f[limit], d>> \in R)
    <3>1. SUFFICES ASSUME <<f[limit], d>> \in R PROVE FALSE
      OBVIOUS
    <3>2. PICK j \in 1 .. Len(list) : list[j] = d
      BY <1>3, <1>4, <1>6, <3>1
    <3>3. d \in Ids /\ (j = 1 \/ <<list[1], d>> \in R)
      BY <1>3, <1>4, <3>2
    <3>4. QED
      BY <1>4, <1>6, <3>2, <3>3 DEF Order
  <2>2. QED
    BY <1>1, <2>1
<1>7. QED
  BY <1>1, <1>3, <1>4, <1>5, <1>6 DEF PageBefore, ListOrdered

(* Reading backwards from a page finds the page before it, last row first. *)
LEMMA BackRead ==
    ASSUME NEW M \in SUBSET Ids, NEW R, Order(R), NEW Q, Order(Q),
           \A d, e \in Ids : <<d, e>> \in Q <=> <<e, d>> \in R,
           NEW limit \in Nat \ {0}, NEW g, NEW f, PageBefore(M, R, limit, g, f),
           NEW F \in SUBSET M, \A d \in M : d \in F <=> <<d, f[1]>> \in R, NEW docs,
           docs = Take(Sorted(F, Q), limit + 1)
    PROVE  Take(docs, limit) = Reverse(g)
<1> DEFINE q == Reverse(g)
           s == Sorted(F, Q)
<1>1. F \in SUBSET Ids
  OBVIOUS
<1>2. \A d, e \in Ids : <<d, e>> \in Q <=> <<e, d>> \in R
  OBVIOUS
<1>3. /\ g \in Seq(M) /\ Len(g) = limit /\ limit \in Nat /\ limit >= 1
      /\ \A i, j \in 1 .. limit : i < j => <<g[i], g[j]>> \in R
      /\ \A i \in 1 .. limit : <<g[i], f[1]>> \in R
      /\ \A d \in M : <<d, f[1]>> \in R => In(d, g) \/ <<d, g[1]>> \in R
  BY DEF PageBefore, ListOrdered
<1> HIDE DEF s
<1>4. \A i \in 1 .. limit : g[i] \in F /\ g[i] \in Ids
  <2>1. \A i \in 1 .. limit : g[i] \in M
    BY <1>3
  <2>2. QED
    BY <1>3, <2>1
<1>5. g \in Seq(F)
  <2>1. g \in [1 .. limit -> F]
    BY <1>3, <1>4
  <2>2. QED
    BY <1>3, <2>1, SeqOfFun
<1>6. /\ q \in Seq(F) /\ Len(q) = limit
      /\ \A i \in 1 .. limit : limit - i + 1 \in 1 .. limit /\ q[i] = g[limit - i + 1]
  BY <1>3, <1>5, ReverseRows
<1> HIDE DEF q
<1>7. \A i, j \in 1 .. Len(q) : i < j => <<q[i], q[j]>> \in Q
  <2>1. SUFFICES ASSUME NEW i \in 1 .. limit, NEW j \in 1 .. limit, i < j
                 PROVE  <<q[i], q[j]>> \in Q
    BY <1>6
  <2>2. <<g[limit - j + 1], g[limit - i + 1]>> \in R
    BY <1>3, <1>6, <2>1
  <2>3. QED
    BY <1>2, <1>4, <1>6, <2>2
<1>8. \A d \in F, i \in 1 .. Len(q) : <<d, q[i]>> \in Q => \E j \in 1 .. Len(q) : q[j] = d
  <2>1. SUFFICES ASSUME NEW d \in F, NEW i \in 1 .. limit, <<d, q[i]>> \in Q
                 PROVE  \E j \in 1 .. limit : q[j] = d
    BY <1>6
  <2>2. PICK k \in 1 .. limit : q[i] = g[k]
    BY <1>6
  <2>3. <<g[k], d>> \in R /\ d \in Ids /\ d \in M /\ <<d, f[1]>> \in R
    BY <1>1, <1>2, <1>4, <2>1, <2>2
  <2>4. 1 \in 1 .. limit /\ (k = 1 \/ <<g[1], g[k]>> \in R)
    BY <1>3
  <2>5. ~ (<<d, g[1]>> \in R)
    BY <1>1, <1>4, <2>3, <2>4 DEF Order
  <2>6. PICK m \in 1 .. limit : g[m] = d
    BY <1>3, <2>3, <2>5 DEF In
  <2>7. limit - m + 1 \in 1 .. limit /\ limit - (limit - m + 1) + 1 = m
    BY <1>3
  <2>8. q[limit - m + 1] = d
    BY <1>6, <2>6, <2>7
  <2>9. QED
    BY <2>7, <2>8
<1>9. limit <= Cardinality(F) /\ \A i \in 1 .. limit : s[i] = q[i]
  <2>1. q \in Seq(F)
    BY <1>6
  <2>2. Len(q) <= Cardinality(F) /\ \A i \in 1 .. Len(q) : Sorted(F, Q)[i] = q[i]
    <3>1. Order(Q) /\ F \in SUBSET Ids
      BY <1>1
    <3>2. QED
      BY ONLY <1>7, <1>8, <2>1, <3>1, PrefixIsUnique
  <2>3. QED
    BY <1>6, <2>2 DEF s
<1>10. s \in Seq(F) /\ Len(s) = Cardinality(F) /\ Cardinality(F) \in Nat
  BY <1>1, SortedRows, FiniteRows DEF s
<1>11. /\ docs \in Seq(F) /\ Len(docs) \in Nat /\ Len(docs) >= limit
       /\ \A i \in 1 .. Len(docs) : docs[i] = s[i]
  <2>1. limit + 1 \in Nat /\ docs = Take(s, limit + 1)
    BY <1>3 DEF s
  <2>2. /\ docs \in Seq(F) /\ Len(docs) = IF limit + 1 < Len(s) THEN limit + 1 ELSE Len(s)
        /\ \A i \in 1 .. Len(docs) : docs[i] = s[i]
    BY <1>10, <2>1, TakeRows
  <2>3. QED
    BY <1>3, <1>9, <1>10, <2>2
<1>12. /\ Take(docs, limit) \in Seq(F) /\ Len(Take(docs, limit)) = limit
       /\ \A i \in 1 .. limit : Take(docs, limit)[i] = docs[i]
  <2>1. /\ Take(docs, limit) \in Seq(F)
        /\ Len(Take(docs, limit)) = IF limit < Len(docs) THEN limit ELSE Len(docs)
        /\ \A i \in 1 .. Len(Take(docs, limit)) : Take(docs, limit)[i] = docs[i]
    BY <1>3, <1>11, TakeRows
  <2>2. QED
    BY <1>3, <1>11, <2>1
<1>13. \A i \in 1 .. limit : Take(docs, limit)[i] = q[i]
  BY <1>3, <1>9, <1>11, <1>12
<1>14. Take(docs, limit) = q
  BY <1>6, <1>12, <1>13, SeqEqual
<1>15. QED
  BY <1>14 DEF q

LEMMA FacingRows ==
    ASSUME NEW S, NEW s \in Seq(S)
    PROVE  /\ Facing(s) \in Seq(S) /\ Len(Facing(s)) = Len(s)
           /\ s # <<>> <=> Facing(s) # <<>>
<1>1. Reverse(s) \in Seq(S) /\ Len(Reverse(s)) = Len(s)
  BY ReverseRows
<1>2. Facing(s) \in Seq(S) /\ Len(Facing(s)) = Len(s)
  BY <1>1 DEF Facing
<1>3. QED
  BY <1>2

LEMMA NextByCursorBack ==
    ASSUME PagingType, BackInv, NextByCursor PROVE BackInv'
<1> DEFINE dir   == IF session.asc THEN 1 ELSE -1
           c     == Cursor(NextOf(page))
           limit == LimitOf(session.perPage)
           M     == Matching(store)
           R     == IdOrder(session.asc)
           F     == Found(c)
<1>1. /\ pc = "ready" /\ session.finder = "FindByCursor" /\ session.finder \notin Tables
      /\ UNCHANGED <<session, store, quiet>>
  BY DEF NextByCursor, sessionVars, Tables
<1>2. c = Cursor(IF session.asc THEN page.next ELSE page.prev)
  BY <1>1 DEF NextOf, Turned
<1>3. PICK n \in 0 .. limit + 1 :
         LET p == FindByCursor(c, dir, n)
         IN  Got(p, IF session.asc THEN p.hasNext ELSE p.hasPrev,
                 IF session.asc THEN p.items ELSE Reverse(p.items))
  BY <1>2 DEF NextByCursor
<1> DEFINE p == FindByCursor(c, dir, n)
<1>0. SUFFICES ASSUME quiet, ~OwnId(session.filter) PROVE BackInv'
  BY <1>1 DEF BackInv
<1>4. /\ limit \in Nat \ {0} /\ M \in SUBSET Ids /\ F \in SUBSET M /\ Order(R)
      /\ session.asc \in BOOLEAN
  <2>1. Order(R)
    BY <1>1, IdOrderFollows
  <2>2. F \in SUBSET M
    BY <1>0, NothingOverwritten DEF Found
  <2>3. QED
    BY <2>1, <2>2, LimitType, FoundRows DEF PagingType
<1>5. PICK rows, list :
         /\ IsPage(F, R, limit, n, rows, list)
         /\ ReadOf(p) = list /\ p.items \in Seq(F)
         /\ MoreOf(p) = (Len(rows) > limit)
         /\ list # <<>> => NextOf(p) = list[Len(list)] /\ PrevOf(p) = list[1]
  BY <1>1, FindByCursorRead
<1>6. Facing(p.items) = list
  BY <1>5 DEF Facing, ReadOf
<1> HIDE DEF p
<1>7. Got(p, MoreOf(p), ReadOf(p))
  BY <1>1, <1>3 DEF p, MoreOf, ReadOf, Turned
<1>8. page' = p /\ prior' = page.items /\ pc' = IF MoreOf(p) THEN "ready" ELSE "ended"
  BY <1>7 DEF Got
<1>9. p.items \in Seq(M) /\ (p.items # <<>> => list # <<>>)
  <2>1. p.items \in Seq(M)
    BY <1>4, <1>5
  <2>2. QED
    BY <1>6, <2>1, FacingRows
<1> DEFINE f == Facing(page.items)
<1>11. \/ seen = <<>> /\ page = NoPage
       \/ page.items \in Seq(M) /\ FullPage(M, R, limit, f) /\ NextOf(page) = f[limit]
  BY <1>0, <1>1 DEF BackInv
<1> HIDE DEF limit, M, R, F, dir
<1>12. /\ MoreOf(p) => FullPage(M, R, limit, list)
       /\ list # <<>> /\ page.items # <<>> =>
             page.items \in Seq(M) /\ PageBefore(M, R, limit, f, list)
  <2>1. CASE seen = <<>> /\ page = NoPage
    <3>1. c = Nil
      BY <2>1 DEF Cursor
    <3>2. F = M
      BY <1>0, <3>1, NothingOverwritten DEF F, Found, M
    <3>3. page.items = <<>>
      BY <2>1 DEF NoPage, Page
    <3>4. ASSUME MoreOf(p) PROVE FullPage(M, R, limit, list)
      BY <1>4, <1>5, <3>2, <3>4, NextIsFull
    <3>5. QED
      BY <3>3, <3>4
  <2>2. CASE page.items \in Seq(M) /\ FullPage(M, R, limit, f) /\ NextOf(page) = f[limit]
    <3>1. f \in Seq(M) /\ Len(f) = limit /\ page.items # <<>> /\ f[limit] \in M
      <4>1. f \in Seq(M) /\ Len(f) = limit
        BY <2>2 DEF FullPage
      <4>2. f # <<>> /\ f[limit] \in M
        BY <1>4, <4>1
      <4>3. QED
        BY <2>2, <4>1, <4>2, FacingRows
    <3>2. page # NoPage
      BY <3>1 DEF NoPage, Page
    <3>3. c = f[limit] /\ c \in Ids /\ c # Nil
      <4>1. c = f[limit]
        BY <2>2, <3>2 DEF Cursor
      <4>2. f[limit] \in Ids
        BY <1>4, <3>1
      <4>3. f[limit] # Nil
        BY <4>2, PaginationAssumption DEF Nil, Ids
      <4>4. QED
        BY <4>1, <4>2, <4>3
    <3>4. \A d \in M : d \in F <=> <<f[limit], d>> \in R
      <4>1. \A d \in M : d \in F <=> Beyond(c, d)
        BY <1>0, <1>1, <3>3, NothingOverwritten DEF F, Found, M, KeyOf
      <4>2. \A d \in Ids : Beyond(c, d) <=> <<c, d>> \in R
        BY <1>4, <3>3 DEF Beyond, R, IdOrder
      <4>3. QED
        BY <1>4, <3>3, <4>1, <4>2
    <3>5. ASSUME NEW d \in M, NEW e \in F, d \notin F PROVE <<d, e>> \in R
      <4>1. d \in Ids /\ e \in Ids /\ f[limit] \in Ids
        BY <1>4, <3>1
      <4>2. <<f[limit], e>> \in R /\ ~ (<<f[limit], d>> \in R)
        BY <1>4, <3>4, <3>5
      <4>3. d = f[limit] \/ <<d, f[limit]>> \in R
        BY <1>4, <4>1, <4>2 DEF Order
      <4>4. QED
        BY <1>4, <4>1, <4>2, <4>3 DEF Order
    <3>6. ASSUME MoreOf(p) PROVE FullPage(M, R, limit, list)
      BY <1>4, <1>5, <3>5, <3>6, NextIsFull
    <3>7. ASSUME list # <<>> PROVE PageBefore(M, R, limit, f, list)
      BY <1>4, <1>5, <2>2, <3>4, <3>7, NextHasBefore
    <3>8. QED
      BY <2>2, <3>6, <3>7
  <2>3. QED
    BY <1>11, <2>1, <2>2
<1>13. MoreOf(p) => list # <<>> /\ list[Len(list)] = list[limit]
  BY <1>4, <1>12 DEF FullPage
<1>14. /\ Matching(store)' = M /\ IdOrder(session.asc)' = R /\ LimitOf(session.perPage)' = limit
       /\ Facing(page.items)' = list /\ Facing(prior)' = f
       /\ NextOf(page)' = NextOf(p) /\ PrevOf(page)' = PrevOf(p)
  <2>1. session' = session /\ store' = store /\ page' = p /\ prior' = page.items
    BY <1>1, <1>8
  <2>2. /\ Matching(store)' = M /\ IdOrder(session.asc)' = R
        /\ LimitOf(session.perPage)' = limit
    BY <2>1 DEF M, R, limit, Matching, IdOrder, LimitOf
  <2>3. Facing(page.items)' = list /\ Facing(prior)' = f
    BY <1>6, <2>1 DEF Facing, Turned
  <2>4. NextOf(page)' = NextOf(p) /\ PrevOf(page)' = PrevOf(p)
    BY <2>1 DEF NextOf, PrevOf, Turned
  <2>5. QED
    BY <2>2, <2>3, <2>4
<1> HIDE DEF f
<1>15. ASSUME pc' = "ready"
       PROVE  /\ page'.items \in Seq(M) /\ FullPage(M, R, limit, list)
              /\ NextOf(page)' = list[limit]
  <2>1. MoreOf(p)
    BY <1>8, <1>15
  <2>2. QED
    BY <1>5, <1>8, <1>9, <1>12, <1>13, <1>14, <2>1
<1>16. ASSUME page'.items # <<>>, prior' # <<>>
       PROVE  /\ prior' \in Seq(M) /\ PageBefore(M, R, limit, f, list)
              /\ PrevOf(page)' = list[1]
  BY <1>5, <1>8, <1>9, <1>12, <1>14, <1>16
<1>17. pc' # "back"
  BY <1>8
<1>18. QED
  BY <1>14, <1>15, <1>16, <1>17 DEF BackInv

LEMMA BackByCursorBack ==
    ASSUME PagingType, BackInv, BackByCursor PROVE BackInv'
<1> DEFINE limit == LimitOf(session.perPage)
           M     == Matching(store)
           R     == IdOrder(session.asc)
           down  == ~session.asc
           Q     == IdOrder(down)
           dir   == IF session.asc THEN -1 ELSE 1
           f     == Facing(page.items)
           g     == Facing(prior)
           c     == PrevOf(page)
           docs  == CursorDocs(c, dir, limit + 1)
           F     == {d \in M : IF dir = 1 THEN d > c ELSE d < c}
<1>1. /\ session.finder = "FindByCursor" /\ session.finder \notin Tables
      /\ pc \in {"ready", "ended"} /\ page.items # <<>> /\ prior # <<>>
      /\ UNCHANGED <<session, store, quiet, prior>> /\ pc' = "back"
      /\ page' = FindByCursor(c, dir, limit + 1)
  BY DEF BackByCursor, CanGoBack, Back, sessionVars, Tables, PrevOf, Turned
<1>2. SUFFICES ASSUME quiet, ~OwnId(session.filter) PROVE page'.items = prior
  BY <1>1 DEF BackInv
<1>3. /\ prior \in Seq(M) /\ PageBefore(M, R, limit, g, f) /\ c = f[1]
  BY <1>1, <1>2 DEF BackInv
<1>4. /\ limit \in Nat \ {0} /\ M \in SUBSET Ids /\ session.asc \in BOOLEAN /\ down \in BOOLEAN
      /\ (dir = 1) = down
  BY LimitType, FoundRows DEF PagingType
<1>5. Order(R) /\ Order(Q)
  BY <1>4, IdOrderIsOrder
<1>6. \A d, e \in Ids : /\ <<d, e>> \in Q <=> <<e, d>> \in R
                        /\ <<d, e>> \in R <=> IF dir = 1 THEN d > e ELSE d < e
  BY <1>4 DEF IdOrder, Ids
<1> HIDE DEF limit, M, R, down, Q, dir, f, g, c, docs, F
<1>7. c \in M /\ c \in Ids /\ c # Nil
  <2>1. f \in Seq(M) /\ f # <<>>
    BY <1>3 DEF PageBefore
  <2>2. c \in M
    BY <1>3, <2>1
  <2>3. QED
    BY <1>4, <2>2, PaginationAssumption DEF Nil, Ids
<1>8. F \in SUBSET M /\ F \in SUBSET Ids /\ \A d \in M : d \in F <=> <<d, f[1]>> \in R
  BY <1>3, <1>4, <1>6, <1>7 DEF F
<1>9. docs = Take(Sorted(F, Q), limit + 1)
  <2>1. Uncursored(store) = M
    BY <1>2, NothingOverwritten DEF M
  <2>2. docs = Take(ById(F, dir = 1), limit + 1)
    BY <1>7, <2>1 DEF docs, CursorDocs, F
  <2>3. docs = Take(ById(F, down), limit + 1)
    BY <1>4, <2>2
  <2>4. QED
    BY <1>4, <1>8, <2>3, ByIdIsSorted DEF Q
<1>10. Take(docs, limit) = Reverse(g)
  BY <1>3, <1>4, <1>5, <1>6, <1>8, <1>9, BackRead
<1>11. page'.items = IF dir = 1 THEN Reverse(g) ELSE Reverse(Reverse(g))
  <2> DEFINE given == IF dir = 1 THEN Reverse(g) ELSE Reverse(Reverse(g))
             more  == Len(docs) > limit
  <2>1. page' = CursorPage(given, c, dir, more)
    BY <1>1, <1>10 DEF FindByCursor, docs, limit
  <2> HIDE DEF given, more
  <2>2. CursorPage(given, c, dir, more).items = given
    BY DEF CursorPage, Page
  <2>3. QED
    BY <2>1, <2>2 DEF given
<1>12. CASE session.asc
  <2>1. dir = -1 /\ g = prior
    BY <1>12 DEF dir, g, Facing, Turned
  <2>2. QED
    BY <1>3, <1>11, <2>1, ReverseTwice
<1>13. CASE ~session.asc
  <2>1. dir = 1 /\ g = Reverse(prior)
    BY <1>1, <1>13 DEF dir, g, Facing, Turned
  <2>2. QED
    BY <1>3, <1>11, <2>1, ReverseTwice
<1>14. QED
  BY <1>12, <1>13

(* A step that leaves the walk alone. *)
LEMMA BackInvKept ==
    ASSUME BackInv, UNCHANGED <<session, store, page, prior, seen, quiet>>,
           pc' = pc \/ session.finder # "FindByCursor"
    PROVE  BackInv'
<1>1. /\ Matching(store)' = Matching(store) /\ IdOrder(session.asc)' = IdOrder(session.asc)
      /\ LimitOf(session.perPage)' = LimitOf(session.perPage)
      /\ Facing(page.items)' = Facing(page.items) /\ Facing(prior)' = Facing(prior)
      /\ NextOf(page)' = NextOf(page) /\ PrevOf(page)' = PrevOf(page)
  BY DEF Matching, IdOrder, LimitOf, Facing, Turned, NextOf, PrevOf
<1>2. QED
  BY <1>1 DEF BackInv

LEMMA NextBackInv ==
    ASSUME PagingType, CursorInv, BackInv, [Next]_vars PROVE BackInv'
<1>1. CASE OpenSteps
  <2>1. SUFFICES ASSUME session'.finder = "FindByCursor" PROVE BackInv'
    BY DEF BackInv
  <2>2. seen' = <<>> /\ prior' = <<>> /\ page' = NoPage /\ pc' = "ready"
    BY <1>1, <2>1, OpenFrame DEF PagingType, CursorFinders
  <2>3. QED
    BY <2>2 DEF BackInv
<1>2. CASE NextByCursor
  BY <1>2, NextByCursorBack
<1>3. CASE BackByCursor
  BY <1>3, BackByCursorBack
<1>4. CASE NextWithCursor \/ NextByTime \/ OffsetSteps \/ BackWithCursor \/ BackByTime
  <2>1. session'.finder # "FindByCursor"
    <3>1. CASE OffsetSteps
      BY <3>1, OffsetFrame DEF OffsetFinders
    <3>2. CASE NextWithCursor \/ NextByTime
      BY <3>2 DEF NextWithCursor, NextByTime, sessionVars
    <3>3. CASE BackWithCursor \/ BackByTime
      BY <3>3 DEF BackWithCursor, BackByTime, Back, sessionVars
    <3>4. QED
      BY <1>4, <3>1, <3>2, <3>3
  <2>2. QED
    BY <2>1 DEF BackInv
<1>5. CASE ReadFails
  <2>1. /\ UNCHANGED <<session, store, page, prior, seen, quiet>>
        /\ pc' = "ready" /\ pc \in {"ready", "half"}
    BY <1>5 DEF ReadFails, sessionVars
  <2>2. pc' = pc \/ session.finder # "FindByCursor"
    BY <2>1 DEF CursorInv, CursorFinders, Keyed, Tables
  <2>3. QED
    BY <2>1, <2>2, BackInvKept
<1>6. CASE WriteSteps
  BY <1>6, WriteFrame DEF BackInv
<1>7. CASE UNCHANGED vars
  BY <1>7, BackInvKept DEF vars
<1>8. QED
  BY <1>1, <1>2, <1>3, <1>4, <1>5, <1>6, <1>7, Steps DEF CursorSteps, BackSteps

(* Mongo FindByCursor: in a collection nobody writes to, going back from a  *)
(* page returns the page the caller came from, in the same order, in both   *)
(* directions, for any page size, any number of failed reads and any filter *)
(* that has no condition on _id.                                            *)
THEOREM BackReturnsThePage == Spec => []BackReturns
<1>1. Init => BackInv
  BY DEF Init, BackInv
<1>2. PagingType /\ CursorInv /\ BackInv /\ [Next]_vars => BackInv'
  BY NextBackInv
<1>3. BackInv => BackReturns
  BY DEF BackInv, BackReturns
<1>4. QED
  BY <1>1, <1>2, <1>3, CursorInvariant, PTL DEF Spec
=============================================================================
