-------------------------- MODULE FragmentsProofs --------------------------
(***************************************************************************)
(* Proofs about Fragments, in three layers.  BoundInv: what is accepted    *)
(* stays acceptable, and a buffer counts the bytes it holds.  WholeInv:    *)
(* every fragment in transit and in a buffer belongs to the one message of *)
(* its stream.  LossInv: what was sent of a message is in its buffer or in *)
(* transit.  Before them the facts about FlattenSeq and SumFunction, by    *)
(* which the model joins and counts fragments.                             *)
(***************************************************************************)
EXTENDS Fragments, WellFoundedInduction, FiniteSetTheorems, SequenceTheorems,
        TLAPS

(* Induction, for sets instead of operators: every non-empty set of natural*)
(* numbers has a least element.                                            *)
LEMMA NatMin ==
  ASSUME NEW T \in SUBSET Nat, T # {}
  PROVE  \E n \in T : \A k \in T : n <= k
  <1> DEFINE R == {ss \in Nat \X Nat : ss[1] < ss[2]}
  <1>1. IsWellFoundedOn(R, Nat)
    BY NatLessThanWellFounded DEF OpToRel
  <1>2. \A k, n \in Nat : k < n => <<k, n>> \in R
    OBVIOUS
  <1> HIDE DEF R
  <1>3. PICK n \in T : \A k \in T : ~ (<<k, n>> \in R)
    BY <1>1, WFMin
  <1>4. ASSUME NEW k \in T
        PROVE  n <= k
    <2>1. k \in Nat /\ n \in Nat
      OBVIOUS
    <2>2. ~ (k < n)
      BY <1>2, <1>3, <2>1
    <2> QED
      BY <2>1, <2>2
  <1> QED
    BY <1>4


(* A set that holds 1, and with each number up to n - 1 the next, holds all*)
(* of 1..n.                                                                *)
LEMMA UpTo ==
  ASSUME NEW n \in Nat, NEW T, 1 \in T,
         \A k \in 2..n : k - 1 \in T => k \in T
  PROVE  \A k \in 1..n : k \in T
  <1> DEFINE Bad == {k \in 1..n : k \notin T}
  <1> SUFFICES ASSUME Bad # {}
               PROVE  FALSE
    OBVIOUS
  <1>1. Bad \in SUBSET Nat
    OBVIOUS
  <1>2. \A k : k \in Bad <=> k \in 1..n /\ k \notin T
    OBVIOUS
  <1> HIDE DEF Bad
  <1>3. PICK k \in Bad : \A j \in Bad : k <= j
    BY <1>1, NatMin
  <1>4. k \in 2..n /\ k - 1 \in 1..n /\ k - 1 < k
    BY <1>2, <1>3
  <1>5. k - 1 \notin Bad
    BY <1>3, <1>4
  <1> QED
    BY <1>2, <1>3, <1>4, <1>5

-----------------------------------------------------------------------------

(* FlattenSeq, by which a complete set is joined.                          *)

FlattenTable(g, s, n) ==
  g = [i \in 1..n |-> IF i = 1 THEN s[i] ELSE g[i - 1] \o s[i]]

TableFacts(g, s, n) ==
  /\ g[1] = s[1] /\ DOMAIN g = 1..n /\ g = [i \in 1..n |-> g[i]]
  /\ \A i \in 2..n : g[i] = g[i - 1] \o s[i]

LEMMA TableValues ==
  ASSUME NEW g, NEW s, NEW n \in Nat \ {0}, FlattenTable(g, s, n)
  PROVE  TableFacts(g, s, n)
  <1> DEFINE F == [i \in 1..n |-> IF i = 1 THEN s[i] ELSE g[i - 1] \o s[i]]
  <1>1. g = F
    BY DEF FlattenTable
  <1>2. \A i \in 1..n : F[i] = IF i = 1 THEN s[i] ELSE g[i - 1] \o s[i]
    OBVIOUS
  <1>3. DOMAIN F = 1..n /\ F = [i \in 1..n |-> F[i]]
    OBVIOUS
  <1> HIDE DEF F
  <1>4. 1 \in 1..n /\ \A i \in 2..n : i \in 1..n /\ i # 1
    OBVIOUS
  <1> QED
    BY <1>1, <1>2, <1>3, <1>4 DEF TableFacts

(* The table that FlattenSeq computes exists.                              *)
LEMMA TableExists ==
  ASSUME NEW s, NEW n \in Nat \ {0}
  PROVE  \E g : FlattenTable(g, s, n)
  <1> DEFINE T == {k \in 1..n : \E g : FlattenTable(g, s, k)}
  <1>1. \A k : k \in T <=> k \in 1..n /\ \E g : FlattenTable(g, s, k)
    OBVIOUS
  <1> HIDE DEF T
  <1>2. 1 \in T
    <2>1. FlattenTable([i \in 1..1 |-> s[i]], s, 1)
      BY DEF FlattenTable
    <2>2. 1 \in 1..n
      OBVIOUS
    <2> QED
      BY <1>1, <2>1, <2>2
  <1>3. ASSUME NEW k \in 2..n, k - 1 \in T
        PROVE  k \in T
    <2>1. PICK h : FlattenTable(h, s, k - 1)
      BY <1>1, <1>3
    <2>2. /\ k - 1 \in 1..k /\ k - 1 # k /\ k \in 1..n /\ k # 1
          /\ k - 1 \in Nat \ {0}
      OBVIOUS
    <2>a. TableFacts(h, s, k - 1)
      BY <2>1, <2>2, TableValues
    <2>3. /\ h[1] = s[1]
          /\ \A i \in 2..(k - 1) : h[i] = h[i - 1] \o s[i]
      BY <2>a DEF TableFacts
    <2> DEFINE g == [i \in 1..k |-> IF i = k THEN h[k - 1] \o s[k] ELSE h[i]]
               gg == [i \in 1..k |-> IF i = 1 THEN s[i] ELSE g[i - 1] \o s[i]]
    <2>4. \A i \in 1..k : g[i] = IF i = k THEN h[k - 1] \o s[k] ELSE h[i]
      OBVIOUS
    <2>5. g = [i \in 1..k |-> g[i]]
      OBVIOUS
    <2> HIDE DEF g
    <2>6. \A i \in 1..k : g[i] = IF i = 1 THEN s[i] ELSE g[i - 1] \o s[i]
      <3> SUFFICES ASSUME NEW i \in 1..k
                   PROVE  g[i] = IF i = 1 THEN s[i] ELSE g[i - 1] \o s[i]
        OBVIOUS
      <3>1. CASE i = k
        BY <2>2, <2>4, <3>1
      <3>2. CASE i = 1
        BY <2>2, <2>3, <2>4, <3>2
      <3>3. CASE i # 1 /\ i # k
        <4>1. i \in 2..(k - 1) /\ i - 1 \in 1..k /\ i - 1 # k
          BY <3>3
        <4> QED
          BY <2>3, <2>4, <3>3, <4>1
      <3> QED
        BY <3>1, <3>2, <3>3
    <2>7. FlattenTable(g, s, k)
      BY <2>5, <2>6 DEF FlattenTable
    <2> QED
      BY <1>1, <2>2, <2>7
  <1>4. n \in 1..n
    OBVIOUS
  <1>5. n \in T
    BY <1>2, <1>3, <1>4, UpTo
  <1> QED
    BY <1>1, <1>5

(* What FlattenSeq returns: the last of the prefixes it joins.             *)
LEMMA FlattenPrefixes ==
  ASSUME NEW S, NEW n \in Nat \ {0}, NEW s \in [1..n -> Seq(S)]
  PROVE  \E g \in [1..n -> Seq(S)] :
           FlattenSeq(s) = g[n] /\ TableFacts(g, s, n)
  <1>1. Len(s) = n
    <2>1. s \in Seq(Seq(S))
      BY SeqDef
    <2>2. DOMAIN s = 1..Len(s) /\ DOMAIN s = 1..n /\ Len(s) \in Nat
      BY <2>1, LenProperties
    <2> QED
      BY <2>2
  <1> DEFINE f == CHOOSE g : FlattenTable(g, s, n)
  <1>2. FlattenTable(f, s, n)
    BY TableExists
  <1>3. FlattenSeq(s) = f[n]
    BY <1>1 DEF FlattenSeq, FlattenTable
  <1> HIDE DEF f
  <1>a. TableFacts(f, s, n)
    BY <1>2, TableValues
  <1>4. /\ f = [i \in 1..n |-> f[i]] /\ f[1] = s[1]
        /\ \A i \in 2..n : f[i] = f[i - 1] \o s[i]
    BY <1>a DEF TableFacts
  <1> DEFINE T == {i \in 1..n : f[i] \in Seq(S)}
  <1>5. \A k : k \in T <=> k \in 1..n /\ f[k] \in Seq(S)
    OBVIOUS
  <1> HIDE DEF T
  <1>6. 1 \in T
    <2>1. 1 \in 1..n
      OBVIOUS
    <2> QED
      BY <1>4, <1>5, <2>1
  <1>7. ASSUME NEW k \in 2..n, k - 1 \in T
        PROVE  k \in T
    <2>1. k \in 1..n
      OBVIOUS
    <2>2. f[k - 1] \in Seq(S) /\ s[k] \in Seq(S) /\ f[k] = f[k - 1] \o s[k]
      BY <1>4, <1>5, <1>7, <2>1
    <2>3. f[k] \in Seq(S)
      BY <2>2, ConcatProperties
    <2> QED
      BY <1>5, <2>1, <2>3
  <1>8. \A i \in 1..n : f[i] \in Seq(S)
    BY <1>5, <1>6, <1>7, UpTo
  <1>9. f \in [1..n -> Seq(S)]
    BY <1>4, <1>8
  <1> QED
    BY <1>3, <1>a, <1>9

(* Joining sequences over a set gives a sequence over it.                  *)
LEMMA FlattenType ==
  ASSUME NEW S, NEW n \in Nat, NEW s \in [1..n -> Seq(S)]
  PROVE  FlattenSeq(s) \in Seq(S)
  <1>1. CASE n = 0
    <2>1. s \in Seq(Seq(S)) /\ s = <<>>
      BY <1>1, SeqDef
    <2> QED
      BY <2>1, EmptySeq DEF FlattenSeq
  <1>2. CASE n # 0
    <2>1. n \in 1..n /\ n \in Nat \ {0}
      BY <1>2
    <2>2. PICK g \in [1..n -> Seq(S)] : FlattenSeq(s) = g[n]
      BY <2>1, FlattenPrefixes
    <2> QED
      BY <2>1, <2>2
  <1> QED
    BY <1>1, <1>2

(* Joining the chunks a payload was cut into gives the payload.            *)
LEMMA FlattenChunks ==
  ASSUME NEW S, NEW p \in Seq(S), NEW c \in Nat \ {0}, NEW n \in Nat \ {0},
         (n - 1) * c < Len(p) \/ n = 1,
         Len(p) <= n * c,
         NEW s \in [1..n -> Seq(S)],
         \A i \in 1..n :
           s[i] = SubSeq(p, (i - 1) * c + 1, Smaller(i * c, Len(p)))
  PROVE  FlattenSeq(s) = p
  <1>a. PICK g \in [1..n -> Seq(S)] : FlattenSeq(s) = g[n] /\ TableFacts(g, s, n)
    BY FlattenPrefixes
  <1>1. /\ FlattenSeq(s) = g[n]
        /\ g[1] = s[1]
        /\ \A i \in 2..n : g[i] = g[i - 1] \o s[i]
    BY <1>a DEF TableFacts
  <1> DEFINE L == Len(p)
             End(i) == Smaller(i * c, L)
             T == {i \in 1..n : g[i] = SubSeq(p, 1, End(i))}
  <1>2. L \in Nat
    BY LenProperties
  <1>3. \A k : k \in T <=> k \in 1..n /\ g[k] = SubSeq(p, 1, End(k))
    OBVIOUS
  <1>4. \A i \in 1..n : s[i] = SubSeq(p, (i - 1) * c + 1, End(i))
    OBVIOUS
  <1> HIDE DEF T, L
  <1>5. 1 \in T
    <2>1. 1 \in 1..n /\ (1 - 1) * c + 1 = 1
      OBVIOUS
    <2> QED
      BY <1>1, <1>3, <1>4, <2>1
  <1>6. ASSUME NEW k \in 2..n, k - 1 \in T
        PROVE  k \in T
    <2> DEFINE a == (k - 1) * c
               b == End(k)
    <2>1. a \in Nat /\ k * c = a + c /\ a < L
      <3>1. a <= (n - 1) * c /\ a \in Nat /\ (n - 1) * c \in Nat /\ n # 1
        OBVIOUS
      <3>2. k * c = a + c
        OBVIOUS
      <3> HIDE DEF a
      <3> QED
        BY <1>2, <3>1, <3>2 DEF L
    <2> HIDE DEF a
    <2>2. b \in a..L
      BY <1>2, <2>1 DEF Smaller
    <2>3. End(k - 1) = a
      BY <1>2, <2>1 DEF Smaller, a
    <2>4. k \in 1..n
      OBVIOUS
    <2>5. /\ g[k - 1] = SubSeq(p, 1, a)
          /\ s[k] = SubSeq(p, a + 1, b)
          /\ g[k] = g[k - 1] \o s[k]
      BY <1>1, <1>3, <1>4, <1>6, <2>3, <2>4 DEF a
    <2> HIDE DEF b, End
    <2>6. 1 \in 1..(L + 1) /\ a \in (1 - 1)..L
      BY <1>2, <2>1
    <2>7. SubSeq(p, 1, a) \o SubSeq(p, a + 1, b) = SubSeq(p, 1, b)
      BY <2>2, <2>6, ConcatAdjacentSubSeq DEF L
    <2> QED
      BY <1>3, <2>4, <2>5, <2>7 DEF b
  <1>7. g[n] = SubSeq(p, 1, L)
    <2>1. n \in 1..n
      OBVIOUS
    <2>2. n \in T
      BY <1>5, <1>6, <2>1, UpTo
    <2>3. End(n) = L
      <3>1. n * c \in Nat /\ L <= n * c
        BY DEF L
      <3> QED
        BY <1>2, <3>1 DEF Smaller
    <2> QED
      BY <1>3, <2>2, <2>3
  <1> QED
    BY <1>1, <1>7, SubSeqFull DEF L

-----------------------------------------------------------------------------
(* SumFunction, by which BuffersBounded counts: a sum of natural numbers is*)
(* the number of cells of a chart with a column of that height for each.   *)

Column(g, x) == {x} \X (1..g[x])
Cells(g, D) == UNION {Column(g, x) : x \in D}

LEMMA ColumnSize ==
  ASSUME NEW g, NEW x, g[x] \in Nat
  PROVE  IsFiniteSet(Column(g, x)) /\ Cardinality(Column(g, x)) = g[x]
  <1>1. IsFiniteSet(1..g[x]) /\ Cardinality(1..g[x]) = g[x]
    <2>1. 1 \in Int /\ g[x] \in Int /\ (1 > g[x] => g[x] = 0)
      OBVIOUS
    <2>2. /\ IsFiniteSet(1..g[x])
          /\ Cardinality(1..g[x]) = IF 1 > g[x] THEN 0 ELSE g[x] - 1 + 1
      BY <2>1, FS_Interval
    <2> QED
      BY <2>1, <2>2
  <1>2. IsFiniteSet({x}) /\ Cardinality({x}) = 1
    BY FS_Singleton
  <1>3. /\ IsFiniteSet({x} \X (1..g[x]))
        /\ Cardinality({x} \X (1..g[x])) = 1 * g[x]
    BY <1>1, <1>2, FS_Product
  <1> QED
    BY <1>3 DEF Column

LEMMA CellsFinite ==
  ASSUME NEW g, NEW D, IsFiniteSet(D), \A x \in D : g[x] \in Nat
  PROVE  IsFiniteSet(Cells(g, D)) /\ Cardinality(Cells(g, D)) \in Nat
  <1> DEFINE col == [x \in D |-> Column(g, x)]
             cols == {Column(g, x) : x \in D}
  <1>1. col \in Surjection(D, cols)
    <2>1. col \in [D -> cols]
      OBVIOUS
    <2>2. \A t \in cols : \E x \in D : col[x] = t
      OBVIOUS
    <2> QED
      BY <2>1, <2>2 DEF Surjection
  <1>2. \A t \in cols : IsFiniteSet(t)
    BY ColumnSize
  <1>3. Cells(g, D) = UNION cols
    BY DEF Cells
  <1> HIDE DEF col, cols
  <1>4. IsFiniteSet(cols)
    BY <1>1, FS_Surjection
  <1> QED
    BY <1>2, <1>3, <1>4, FS_UNION, FS_CardinalityType

(* A column more is so many cells more.                                    *)
LEMMA CellsAdd ==
  ASSUME NEW g, NEW D, IsFiniteSet(D), NEW x, x \notin D, g[x] \in Nat,
         \A i \in D : g[i] \in Nat
  PROVE  Cardinality(Cells(g, D \cup {x})) = Cardinality(Cells(g, D)) + g[x]
  <1>1. Cells(g, D \cup {x}) = Cells(g, D) \cup Column(g, x)
    BY Zenon DEF Cells
  <1>2. Cells(g, D) \cap Column(g, x) = {}
    <2> SUFFICES ASSUME NEW p \in Cells(g, D), p \in Column(g, x)
                 PROVE  FALSE
      OBVIOUS
    <2>1. PICK i \in D : p \in Column(g, i)
      BY DEF Cells
    <2>2. p[1] = i /\ p[1] = x
      BY <2>1 DEF Column
    <2> QED
      BY <2>2
  <1>3. IsFiniteSet(Cells(g, D)) /\ Cardinality(Cells(g, D)) \in Nat
    BY CellsFinite
  <1>4. IsFiniteSet(Column(g, x)) /\ Cardinality(Column(g, x)) = g[x]
    BY ColumnSize
  <1>5. Cardinality(Cells(g, D) \cup Column(g, x))
          = Cardinality(Cells(g, D)) + Cardinality(Column(g, x)) - Cardinality({})
    BY <1>2, <1>3, <1>4, FS_Union
  <1>6. Cardinality({}) = 0
    BY FS_EmptySet
  <1> DEFINE n == Cardinality(Cells(g, D))
             h == g[x]
  <1>7. Cardinality(Cells(g, D \cup {x})) = n + h - 0
    BY <1>1, <1>4, <1>5, <1>6
  <1>8. n \in Nat /\ h \in Nat
    BY <1>3
  <1> HIDE DEF n, h
  <1>9. Cardinality(Cells(g, D \cup {x})) = n + h
    BY <1>7, <1>8
  <1> QED
    BY <1>9 DEF n, h

(* The least set on which two functions on the finite sets differ has no   *)
(* subset on which they do.                                                *)
LEMMA LeastSet ==
  ASSUME NEW D, IsFiniteSet(D), NEW T,
         \A U \in SUBSET D : (\A W \in SUBSET U : W # U => W \in T) => U \in T
  PROVE  D \in T
  <1> DEFINE Bad == {U \in SUBSET D : U \notin T}
             Sizes == {Cardinality(U) : U \in Bad}
  <1>1. \A U : U \in Bad <=> U \in SUBSET D /\ U \notin T
    OBVIOUS
  <1> HIDE DEF Bad
  <1>2. \A U \in SUBSET D : IsFiniteSet(U) /\ Cardinality(U) \in Nat
    BY FS_Subset, FS_CardinalityType
  <1>3. SUFFICES ASSUME Bad # {} PROVE FALSE
    BY <1>1
  <1>4. /\ Sizes \in SUBSET Nat /\ Sizes # {}
        /\ \A U \in Bad : Cardinality(U) \in Sizes
        /\ \A n \in Sizes : \E U \in Bad : Cardinality(U) = n
    BY <1>1, <1>2, <1>3
  <1> HIDE DEF Sizes
  <1>5. PICK n \in Sizes : \A k \in Sizes : n <= k
    BY <1>4, NatMin
  <1>6. PICK U \in Bad : Cardinality(U) = n
    BY <1>4
  <1>7. ASSUME NEW W \in SUBSET U, W # U
        PROVE  W \in T
    <2>1. W \in SUBSET D /\ IsFiniteSet(U) /\ IsFiniteSet(W)
      BY <1>1, <1>2, <1>6
    <2>2. /\ Cardinality(W) <= Cardinality(U)
          /\ Cardinality(W) # Cardinality(U)
      BY <1>7, <2>1, FS_Subset
    <2>3. Cardinality(W) \in Nat /\ n \in Nat /\ ~ (n <= Cardinality(W))
      BY <1>2, <1>4, <1>6, <2>1, <2>2
    <2> QED
      BY <1>1, <1>4, <1>5, <2>1, <2>3
  <1> QED
    BY <1>1, <1>6, <1>7

Picked(U) == CHOOSE x \in U : TRUE

SumTable(it, g, D) ==
  it = [U \in SUBSET D |->
          IF U = {} THEN 0 ELSE g[Picked(U)] + it[U \ {Picked(U)}]]

LEMMA SumTableExists ==
  ASSUME NEW D, IsFiniteSet(D), NEW g, \A x \in D : g[x] \in Nat
  PROVE  SumTable([U \in SUBSET D |-> Cardinality(Cells(g, U))], g, D)
  <1> DEFINE W == [U \in SUBSET D |-> Cardinality(Cells(g, U))]
             V == [U \in SUBSET D |->
                     IF U = {} THEN 0 ELSE g[Picked(U)] + W[U \ {Picked(U)}]]
  <1>1. ASSUME NEW U \in SUBSET D
        PROVE  W[U] = IF U = {} THEN 0 ELSE g[Picked(U)] + W[U \ {Picked(U)}]
    <2>1. CASE U = {}
      <3>1. Cells(g, {}) = {}
        BY DEF Cells
      <3>2. Cardinality({}) = 0
        BY FS_EmptySet
      <3> QED
        BY <2>1, <3>1, <3>2
    <2>2. CASE U # {}
      <3> DEFINE x == Picked(U)
                 R == U \ {x}
      <3>1. x \in U
        BY <2>2 DEF Picked
      <3> HIDE DEF x
      <3>2. /\ R \in SUBSET D /\ x \notin R /\ U = R \cup {x} /\ x \in D
            /\ \A i \in R : i \in D
        BY <3>1
      <3>3. W[U] = Cardinality(Cells(g, U)) /\ W[R] = Cardinality(Cells(g, R))
        BY <3>2
      <3> HIDE DEF W, R
      <3>4. IsFiniteSet(R) /\ g[x] \in Nat /\ \A i \in R : g[i] \in Nat
        BY <3>2, FS_Subset
      <3>5. Cardinality(Cells(g, U)) = Cardinality(Cells(g, R)) + g[x]
        BY <3>2, <3>4, CellsAdd
      <3>6. Cardinality(Cells(g, R)) \in Nat
        BY <3>4, CellsFinite
      <3>7. W[U] = g[x] + W[R]
        BY <3>3, <3>4, <3>5, <3>6
      <3> QED
        BY <2>2, <3>7 DEF x, R
    <2> QED
      BY <2>1, <2>2
  <1>2. W = [U \in SUBSET D |-> W[U]]
    OBVIOUS
  <1> HIDE DEF W
  <1>3. W = V
    BY <1>1, <1>2
  <1>4. SumTable(W, g, D)
    BY <1>3 DEF SumTable
  <1> QED
    BY <1>4 DEF W

LEMMA SumTableUnique ==
  ASSUME NEW D, IsFiniteSet(D), NEW g, NEW it, NEW jt,
         SumTable(it, g, D), SumTable(jt, g, D)
  PROVE  it[D] = jt[D]
  <1> DEFINE T == {U \in SUBSET D : it[U] = jt[U]}
  <1>1. \A U : U \in T <=> U \in SUBSET D /\ it[U] = jt[U]
    OBVIOUS
  <1> HIDE DEF T
  <1>2. ASSUME NEW U \in SUBSET D, \A W \in SUBSET U : W # U => W \in T
        PROVE  U \in T
    <2>1. it[U] = IF U = {} THEN 0 ELSE g[Picked(U)] + it[U \ {Picked(U)}]
      BY Zenon DEF SumTable
    <2>2. jt[U] = IF U = {} THEN 0 ELSE g[Picked(U)] + jt[U \ {Picked(U)}]
      BY Zenon DEF SumTable
    <2>3. CASE U = {}
      BY <1>1, <2>1, <2>2, <2>3
    <2>4. CASE U # {}
      <3>1. Picked(U) \in U
        BY <2>4 DEF Picked
      <3>2. U \ {Picked(U)} \in SUBSET U /\ U \ {Picked(U)} # U
        BY <3>1
      <3>3. it[U \ {Picked(U)}] = jt[U \ {Picked(U)}]
        BY <1>1, <1>2, <3>2
      <3> QED
        BY <1>1, <2>1, <2>2, <2>4, <3>3
    <2> QED
      BY <2>3, <2>4
  <1>3. D \in T
    BY <1>2, LeastSet
  <1> QED
    BY <1>1, <1>3

(* The sum of a function with natural values is a number of cells.         *)
LEMMA SumIsCells ==
  ASSUME NEW D, IsFiniteSet(D), NEW g, DOMAIN g = D, \A x \in D : g[x] \in Nat
  PROVE  SumFunction(g) = Cardinality(Cells(g, D))
  <1> DEFINE it == CHOOSE it : SumTable(it, g, D)
             W == [U \in SUBSET D |-> Cardinality(Cells(g, U))]
  <1>1. SumFunction(g) = it[D]
    BY DEF SumFunction, SumFunctionOnSet, FoldFunctionOnSet, MapThenFoldSet,
           SumTable, Picked
  <1>2. SumTable(W, g, D)
    BY SumTableExists
  <1>3. SumTable(it, g, D)
    BY <1>2
  <1>4. W[D] = Cardinality(Cells(g, D))
    OBVIOUS
  <1> HIDE DEF it, W
  <1> QED
    BY <1>1, <1>2, <1>3, <1>4, SumTableUnique

LEMMA SumEmpty ==
  ASSUME NEW g, DOMAIN g = {}
  PROVE  SumFunction(g) = 0
  <1>1. IsFiniteSet({}) /\ Cardinality({}) = 0
    BY FS_EmptySet
  <1>2. SumFunction(g) = Cardinality(Cells(g, {}))
    BY <1>1, SumIsCells
  <1>3. Cells(g, {}) = {}
    BY DEF Cells
  <1> QED
    BY <1>1, <1>2, <1>3

SumChanges(g, h, old, v) ==
  /\ SumFunction(g) \in Nat /\ old \in Nat /\ old <= SumFunction(g)
  /\ SumFunction(h) = SumFunction(g) - old + v

(* One value set, or set anew, changes the sum by the difference.          *)
LEMMA SumReplace ==
  ASSUME NEW D, IsFiniteSet(D), NEW g, DOMAIN g = D, \A x \in D : g[x] \in Nat,
         NEW k, NEW v \in Nat, NEW h, DOMAIN h = D \cup {k},
         \A i \in D \cup {k} : h[i] = IF i = k THEN v ELSE g[i]
  PROVE  SumChanges(g, h, IF k \in D THEN g[k] ELSE 0, v)
  <1> DEFINE R == D \ {k}
             old == IF k \in D THEN g[k] ELSE 0
             r == Cardinality(Cells(g, R))
  <1>1. /\ IsFiniteSet(R) /\ k \notin R /\ D \cup {k} = R \cup {k}
        /\ (k \in D => D = R \cup {k}) /\ (k \notin D => D = R)
        /\ \A i \in R : i \in D /\ i # k
    BY FS_RemoveElement
  <1> HIDE DEF R
  <1>2. /\ \A i \in R : g[i] \in Nat /\ h[i] = g[i]
        /\ h[k] = v
    BY <1>1
  <1>3. \A i \in R : h[i] \in Nat
    BY <1>2
  <1>4. Cells(h, R) = Cells(g, R)
    <2>1. \A i \in R : Column(h, i) = Column(g, i)
      BY <1>2 DEF Column
    <2> QED
      BY <2>1, Zenon DEF Cells
  <1>5. r \in Nat
    BY <1>1, <1>2, CellsFinite
  <1>6. SumFunction(h) = r + v
    <2>1. Cardinality(Cells(h, R \cup {k})) = Cardinality(Cells(h, R)) + h[k]
      <3>1. h[k] \in Nat
        BY <1>2
      <3> QED
        BY <1>1, <1>3, <3>1, CellsAdd
    <2>2. IsFiniteSet(R \cup {k}) /\ DOMAIN h = R \cup {k}
      BY <1>1, FS_AddElement
    <2>3. \A i \in R \cup {k} : h[i] \in Nat
      BY <1>2
    <2>4. SumFunction(h) = Cardinality(Cells(h, R \cup {k}))
      BY <2>2, <2>3, SumIsCells
    <2> QED
      BY <1>2, <1>4, <2>1, <2>4
  <1>7. SumFunction(g) = r + old /\ old \in Nat
    <2>1. SumFunction(g) = Cardinality(Cells(g, D))
      BY SumIsCells
    <2>2. CASE k \in D
      <3>1. g[k] \in Nat /\ D = R \cup {k}
        BY <1>1, <2>2
      <3>2. Cardinality(Cells(g, R \cup {k})) = r + g[k]
        BY <1>1, <1>2, <3>1, CellsAdd
      <3> QED
        BY <2>1, <2>2, <3>1, <3>2
    <2>3. CASE k \notin D
      BY <1>1, <1>5, <2>1, <2>3
    <2> QED
      BY <2>2, <2>3
  <1> HIDE DEF r, old
  <1>8. /\ SumFunction(g) \in Nat /\ old \in Nat /\ old <= SumFunction(g)
        /\ SumFunction(h) = SumFunction(g) - old + v
    BY <1>5, <1>6, <1>7
  <1> QED
    BY <1>8 DEF old, SumChanges

-----------------------------------------------------------------------------
(* The bounds.  The inductive invariant: what is accepted stays acceptable,*)
(* and every buffer counts the bytes it holds.                             *)

FragmentSets == UNION {[D -> Seq(Bytes)] : D \in SUBSET Nat}

BufferType ==
  [total : Nat, frags : FragmentSets, bytes : Nat, firstSeen : Nat]

CountedBytes(b) ==
  b.bytes = SumFunction([i \in DOMAIN b.frags |-> Len(b.frags[i])])

GoodBuffer(b) ==
  /\ b \in BufferType
  /\ DOMAIN b.frags \subseteq 0..(b.total - 1)
  /\ CountedBytes(b)

Accepted(m) == task[m] \notin {"new", "refused"}

JobInv ==
  \A m \in Messages : Accepted(m) =>
    /\ job[m].chunk \in ChunkSizes /\ Acceptable(m, job[m].chunk)
    /\ job[m].seq <= Total(m, job[m].chunk)
    /\ job[m].stream \in SenderStreams
    /\ job[m].conn <= conn

(* A set of buffers at time t.                                             *)
HoldBuffers(b, t) ==
  /\ IsFiniteSet(DOMAIN b) /\ Cardinality(DOMAIN b) <= MaxStreams
  /\ DOMAIN b \subseteq Nat
  /\ \A s \in DOMAIN b :
       /\ GoodBuffer(b[s]) /\ b[s].bytes <= MaxPayload
       /\ b[s].firstSeen <= t

BufferInv == HoldBuffers(bufs, now)

BoundInv == TypeOK /\ NeverBroken /\ JobInv /\ BufferInv

-----------------------------------------------------------------------------
(* The pieces of a message.                                                *)

LEMMA PayloadFacts ==
  ASSUME NEW m \in Messages
  PROVE  /\ Payload(m) \in Seq(Bytes) /\ Len(Payload(m)) = Size[m]
         /\ Size[m] \in Nat
         /\ \A i \in 1..Size[m] : Payload(m)[i] = <<m, i>>
  <1>1. Size[m] \in Nat
    BY SizeAssumption
  <1>2. \A i \in 1..Size[m] : <<m, i>> \in Bytes
    BY <1>1 DEF Bytes
  <1>3. Payload(m) \in [1..Size[m] -> Bytes]
    BY <1>2 DEF Payload
  <1>4. Payload(m) \in Seq(Bytes)
    BY <1>1, <1>3, SeqDef
  <1>5. DOMAIN Payload(m) = 1..Size[m]
    BY DEF Payload
  <1>6. Len(Payload(m)) = Size[m]
    <2>1. Len(Payload(m)) \in Nat /\ DOMAIN Payload(m) = 1..Len(Payload(m))
      BY <1>4, LenProperties
    <2> QED
      BY <1>1, <1>5, <2>1
  <1> QED
    BY <1>1, <1>4, <1>6 DEF Payload

LEMMA TotalFacts ==
  ASSUME NEW m \in Messages, NEW c \in Nat \ {0}
  PROVE  /\ Total(m, c) \in Nat \ {0}
         /\ (Total(m, c) - 1) * c < Size[m] \/ Total(m, c) = 1
         /\ Size[m] <= Total(m, c) * c
  <1> DEFINE z == Size[m]
             n == (z + c - 1) \div c
  <1>1. z \in Nat
    BY SizeAssumption
  <1> HIDE DEF z
  <1>2. n \in Nat /\ n * c <= z + c - 1 /\ z + c - 1 < n * c + c
    BY <1>1
  <1>3. Total(m, c) = IF n = 0 THEN 1 ELSE n
    BY DEF Total, z
  <1> HIDE DEF n
  <1>4. CASE n = 0
    <2>1. n * c = 0 /\ 1 * c = c
      BY <1>4
    <2> QED
      BY <1>1, <1>2, <1>3, <1>4, <2>1 DEF z
  <1>5. CASE n # 0
    <2>1. (n - 1) * c = n * c - c
      BY <1>2
    <2> DEFINE nc == n * c
    <2>2. nc \in Nat
      BY <1>2
    <2> HIDE DEF nc
    <2>3. nc - c < z /\ z <= nc
      BY <1>1, <1>2, <2>2 DEF nc
    <2> QED
      BY <1>2, <1>3, <1>5, <2>1, <2>3 DEF z, nc
  <1> QED
    BY <1>4, <1>5

LEMMA ChunkFacts ==
  ASSUME NEW m \in Messages, NEW c \in Nat \ {0}, NEW k \in Nat
  PROVE  Chunk(m, c, k) \in Seq(Bytes) /\ Len(Chunk(m, c, k)) <= c
  <1> DEFINE a == k * c
             z == Size[m]
             e == Smaller((k + 1) * c, z)
  <1>1. a \in Nat /\ (k + 1) * c = a + c /\ z \in Nat
    BY SizeAssumption
  <1>2. Chunk(m, c, k) = SubSeq(Payload(m), a + 1, e)
    BY DEF Chunk
  <1>3. e = IF a + c <= z THEN a + c ELSE z
    BY <1>1 DEF Smaller
  <1> HIDE DEF a, z, e
  <1>4. e \in Nat /\ e <= z /\ e <= a + c
    BY <1>1, <1>3
  <1>5. Payload(m) \in Seq(Bytes) /\ Len(Payload(m)) = z
    BY PayloadFacts DEF z
  <1>6. \A i \in (a + 1)..e : i \in 1..z
    BY <1>1, <1>4
  <1>7. /\ SubSeq(Payload(m), a + 1, e) \in Seq(Bytes)
        /\ Len(SubSeq(Payload(m), a + 1, e))
             = IF a + 1 <= e THEN e - (a + 1) + 1 ELSE 0
    BY <1>1, <1>4, <1>5, <1>6, SubSeqProperties
  <1> QED
    BY <1>1, <1>2, <1>4, <1>7

LEMMA AcceptableFacts ==
  ASSUME NEW m \in Messages, NEW c \in Int, Acceptable(m, c)
  PROVE  /\ c \in Nat \ {0} /\ c + HeaderSize <= MaxPayload
         /\ Size[m] <= MaxPayload
         /\ Total(m, c) \in Nat \ {0} /\ Total(m, c) <= MaxTotal
  BY TotalFacts DEF Acceptable

(* The ids that are given out go round without 0.                          *)
LEMMA FollowingFacts ==
  ASSUME NEW id \in 1..(IdSpace - 1)
  PROVE  /\ FollowingId(id) \in 1..(IdSpace - 1)
         /\ FollowingId(id) = IF id = IdSpace - 1 THEN 1 ELSE id + 1
  <1>1. IdSpace \in Nat /\ IdSpace > 1
    BY BoundsAssumption
  <1>2. (id + 1) % IdSpace = IF id = IdSpace - 1 THEN 0 ELSE id + 1
    <2> DEFINE a == id + 1
    <2>1. a \in 1..IdSpace
      BY <1>1
    <2> HIDE DEF a
    <2>2. a % IdSpace = IF a = IdSpace THEN 0 ELSE a
      BY <1>1, <2>1
    <2> QED
      BY <1>1, <2>2 DEF a
  <1> QED
    BY <1>1, <1>2 DEF FollowingId

LEMMA FragmentType ==
  ASSUME NEW m \in Messages, NEW c \in Nat \ {0}, NEW k \in Nat, NEW id \in Nat
  PROVE  FragmentOf(m, c, k, id) \in Fragment
  BY TotalFacts, ChunkFacts DEF FragmentOf, Fragment

-----------------------------------------------------------------------------
(* The buffers.                                                            *)

LEMMA FreshIsGood ==
  ASSUME NEW f \in Fragment, NEW t \in Nat
  PROVE  GoodBuffer([total |-> f.total, frags |-> NoBuffers, bytes |-> 0,
                     firstSeen |-> t])
  <1> DEFINE b == [total |-> f.total, frags |-> NoBuffers, bytes |-> 0,
                   firstSeen |-> t]
  <1>1. NoBuffers \in [{} -> Seq(Bytes)] /\ DOMAIN NoBuffers = {}
    BY DEF NoBuffers
  <1>2. b \in BufferType
    <2>1. NoBuffers \in FragmentSets
      BY <1>1 DEF FragmentSets
    <2> QED
      BY <2>1 DEF BufferType, Fragment
  <1>3. b.bytes = 0 /\ b.frags = NoBuffers
    OBVIOUS
  <1> HIDE DEF b
  <1>4. CountedBytes(b)
    <2>1. DOMAIN [i \in DOMAIN b.frags |-> Len(b.frags[i])] = {}
      BY <1>1, <1>3
    <2> QED
      BY <1>3, <2>1, SumEmpty DEF CountedBytes
  <1> QED
    BY <1>1, <1>2, <1>3, <1>4 DEF GoodBuffer, b

(* What a buffer holds after a fragment was put into it.                   *)
AbsorbedFacts(b, f, c) ==
  /\ c.total = b.total /\ c.firstSeen = b.firstSeen
  /\ DOMAIN c.frags = DOMAIN b.frags \cup {f.seq}
  /\ \A i \in DOMAIN b.frags \cup {f.seq} :
       c.frags[i] = IF i = f.seq THEN f.data ELSE b.frags[i]

LEMMA AbsorbedIsGood ==
  ASSUME NEW b, GoodBuffer(b), NEW f \in Fragment, f.seq < f.total,
         b.total = f.total
  PROVE  GoodBuffer(Absorbed(b, f)) /\ AbsorbedFacts(b, f, Absorbed(b, f))
  <1> DEFINE c == Absorbed(b, f)
             D == DOMAIN b.frags
             fr == [i \in D \cup {f.seq} |->
                      IF i = f.seq THEN f.data ELSE b.frags[i]]
             by == b.bytes - Replaced(b, f.seq) + Len(f.data)
  <1>1. /\ b \in BufferType /\ D \subseteq 0..(b.total - 1)
        /\ b.total \in Nat /\ b.bytes \in Nat
        /\ f.seq \in Nat /\ f.data \in Seq(Bytes) /\ f.total \in Nat
    BY DEF GoodBuffer, BufferType, Fragment
  <1>b. c = [b EXCEPT !.bytes = by, !.frags = fr]
    BY DEF Absorbed
  <1>4. DOMAIN fr = D \cup {f.seq}
        /\ \A i \in D \cup {f.seq} :
             fr[i] = IF i = f.seq THEN f.data ELSE b.frags[i]
    OBVIOUS
  <1>5. \A i \in D : b.frags[i] \in Seq(Bytes)
    <2>1. b.frags \in FragmentSets
      BY <1>1 DEF BufferType
    <2>2. PICK E \in SUBSET Nat : b.frags \in [E -> Seq(Bytes)]
      BY <2>1 DEF FragmentSets
    <2> QED
      BY <2>2
  <1>6. fr \in [D \cup {f.seq} -> Seq(Bytes)]
    BY <1>1, <1>5
  <1> HIDE DEF fr, by, c
  <1>3. c = [total |-> b.total, frags |-> fr, bytes |-> by,
             firstSeen |-> b.firstSeen]
    BY <1>1, <1>b DEF BufferType
  <1>2. c.total = b.total /\ c.firstSeen = b.firstSeen /\ c.frags = fr
        /\ c.bytes = by
    BY <1>3
  <1>7. AbsorbedFacts(b, f, c)
    BY <1>2, <1>4 DEF AbsorbedFacts
  <1> DEFINE g == [i \in D |-> Len(b.frags[i])]
             h == [i \in D \cup {f.seq} |-> Len(fr[i])]
             v == Len(f.data)
             old == IF f.seq \in D THEN g[f.seq] ELSE 0
  <1>8. /\ IsFiniteSet(D) /\ DOMAIN g = D /\ v \in Nat
        /\ DOMAIN h = D \cup {f.seq}
    <2>0. 0 \in Int /\ b.total - 1 \in Int
      BY <1>1
    <2>1. IsFiniteSet(0..(b.total - 1))
      BY <2>0, FS_Interval
    <2> QED
      BY <1>1, <2>1, FS_Subset, LenProperties
  <1>9. \A x \in D : g[x] \in Nat
    BY <1>5, LenProperties
  <1>10. \A i \in D \cup {f.seq} : h[i] = IF i = f.seq THEN v ELSE g[i]
    BY <1>4
  <1>11. b.bytes = SumFunction(g) /\ old = Replaced(b, f.seq)
    BY DEF GoodBuffer, CountedBytes, Replaced
  <1> HIDE DEF g, h, v, D
  <1>12. SumChanges(g, h, old, v)
    BY <1>8, <1>9, <1>10, SumReplace
  <1> HIDE DEF old
  <1>13. by = SumFunction(h) /\ by \in Nat
    BY <1>8, <1>11, <1>12 DEF by, v, SumChanges
  <1>14. CountedBytes(c)
    BY <1>2, <1>4, <1>13 DEF CountedBytes, h, D
  <1>15. DOMAIN fr \subseteq 0..(b.total - 1)
    BY <1>1, <1>4 DEF D
  <1>16. c \in BufferType
    <2>1. D \cup {f.seq} \in SUBSET Nat
      BY <1>1 DEF D
    <2>2. fr \in FragmentSets
      BY <1>6, <2>1 DEF D, FragmentSets
    <2>3. b.firstSeen \in Nat /\ b.total \in Nat
      BY <1>1 DEF BufferType
    <2> QED
      BY <1>3, <1>13, <2>2, <2>3 DEF BufferType
  <1> QED
    BY <1>2, <1>7, <1>14, <1>15, <1>16 DEF GoodBuffer, c

(* A complete buffer holds every fragment, and joins to bytes.             *)
LEMMA CompleteFacts ==
  ASSUME NEW b, GoodBuffer(b), IsComplete(b)
  PROVE  /\ DOMAIN b.frags = 0..(b.total - 1)
         /\ Reassemble(b) \in Seq(Bytes)
  <1> DEFINE n == b.total
             D == DOMAIN b.frags
  <1>1. /\ n \in Nat /\ D \subseteq 0..(n - 1) /\ Cardinality(D) = n
        /\ b.frags \in FragmentSets
    BY DEF GoodBuffer, BufferType, IsComplete
  <1>2. PICK E \in SUBSET Nat : b.frags \in [E -> Seq(Bytes)]
    BY <1>1 DEF FragmentSets
  <1> HIDE DEF n
  <1>3. IsFiniteSet(0..(n - 1)) /\ Cardinality(0..(n - 1)) = n
    <2>1. 0 \in Int /\ n - 1 \in Int
      BY <1>1
    <2>2. /\ IsFiniteSet(0..(n - 1))
          /\ Cardinality(0..(n - 1)) = IF 0 > n - 1 THEN 0 ELSE n - 1 - 0 + 1
      BY <2>1, FS_Interval
    <2> QED
      BY <1>1, <2>2
  <1>4. D = 0..(n - 1)
    BY <1>1, <1>3, FS_Subset
  <1>5. [i \in 1..n |-> b.frags[i - 1]] \in [1..n -> Seq(Bytes)]
    BY <1>1, <1>2, <1>4
  <1>6. FlattenSeq([i \in 1..n |-> b.frags[i - 1]]) \in Seq(Bytes)
    BY <1>1, <1>5, FlattenType
  <1> QED
    BY <1>4, <1>6 DEF Reassemble, n

-----------------------------------------------------------------------------
(* What the receiver does to its buffers keeps them within the bounds.     *)

LEMMA BuffersTyped ==
  ASSUME NEW b, NEW t \in Nat, HoldBuffers(b, t)
  PROVE  /\ DOMAIN b \subseteq Nat
         /\ \A s \in DOMAIN b :
              /\ b[s].total \in Nat /\ b[s].bytes \in Nat
              /\ b[s].firstSeen \in 0..t
              /\ DOMAIN b[s].frags \subseteq 0..(b[s].total - 1)
  BY DEF HoldBuffers, GoodBuffer, BufferType

LEMMA RestrictHolds ==
  ASSUME NEW b, NEW t \in Nat, NEW D \in SUBSET (DOMAIN b), HoldBuffers(b, t)
  PROVE  HoldBuffers(Restrict(b, D), t)
  <1>1. DOMAIN Restrict(b, D) = D /\ \A s \in D : Restrict(b, D)[s] = b[s]
    BY DEF Restrict
  <1>2. IsFiniteSet(D) /\ Cardinality(D) <= Cardinality(DOMAIN b)
    BY FS_Subset DEF HoldBuffers
  <1>3. Cardinality(D) \in Nat /\ Cardinality(DOMAIN b) \in Nat
    BY <1>2, FS_CardinalityType DEF HoldBuffers
  <1>4. Cardinality(D) <= MaxStreams
    BY <1>2, <1>3, BoundsAssumption DEF HoldBuffers
  <1> QED
    BY <1>1, <1>2, <1>4 DEF HoldBuffers

(* Buffer c put in place of that of stream k, or where there is room.      *)
LEMMA PutHolds ==
  ASSUME NEW b, NEW t \in Nat, HoldBuffers(b, t), NEW k \in Nat, NEW c,
         k \in DOMAIN b \/ Cardinality(DOMAIN b) < MaxStreams,
         GoodBuffer(c), c.bytes <= MaxPayload, c.firstSeen <= t
  PROVE  HoldBuffers([s \in DOMAIN b \cup {k} |-> IF s = k THEN c ELSE b[s]], t)
  <1> DEFINE D == DOMAIN b \cup {k}
             g == [s \in D |-> IF s = k THEN c ELSE b[s]]
  <1>1. DOMAIN g = D /\ \A s \in D : g[s] = IF s = k THEN c ELSE b[s]
    OBVIOUS
  <1>2. /\ IsFiniteSet(D)
        /\ Cardinality(D) = IF k \in DOMAIN b THEN Cardinality(DOMAIN b)
                            ELSE Cardinality(DOMAIN b) + 1
    BY FS_AddElement DEF HoldBuffers
  <1>3. Cardinality(DOMAIN b) \in Nat
    BY FS_CardinalityType DEF HoldBuffers
  <1>4. Cardinality(D) <= MaxStreams
    BY <1>2, <1>3, BoundsAssumption DEF HoldBuffers
  <1>5. D \subseteq Nat
    BY DEF HoldBuffers
  <1>6. \A s \in D : /\ GoodBuffer(g[s]) /\ g[s].bytes <= MaxPayload
                     /\ g[s].firstSeen <= t
    <2> SUFFICES ASSUME NEW s \in D
                 PROVE  /\ GoodBuffer(g[s]) /\ g[s].bytes <= MaxPayload
                        /\ g[s].firstSeen <= t
      OBVIOUS
    <2>1. CASE s = k
      BY <1>1, <2>1
    <2>2. CASE s # k
      <3>1. s \in DOMAIN b /\ g[s] = b[s]
        BY <1>1, <2>2
      <3> QED
        BY <3>1 DEF HoldBuffers
    <2> QED
      BY <2>1, <2>2
  <1> HIDE DEF g, D
  <1>7. HoldBuffers(g, t)
    BY <1>1, <1>2, <1>4, <1>5, <1>6 DEF HoldBuffers
  <1> QED
    BY <1>7 DEF g, D

(* The buffer a fragment is put into.                                      *)
LEMMA BufferForFacts ==
  ASSUME BoundInv, NEW f \in Fragment
  PROVE  /\ GoodBuffer(BufferFor(f)) /\ BufferFor(f).firstSeen <= now
         /\ f.stream \in DOMAIN bufs => BufferFor(f) = bufs[f.stream]
         /\ f.stream \notin DOMAIN bufs =>
              /\ BufferFor(f).total = f.total
              /\ DOMAIN BufferFor(f).frags = {}
  <1>1. now \in Nat
    BY DEF BoundInv, TypeOK
  <1>2. CASE f.stream \in DOMAIN bufs
    BY <1>2 DEF BoundInv, BufferInv, HoldBuffers, BufferFor
  <1>3. CASE f.stream \notin DOMAIN bufs
    <2> DEFINE b == [total |-> f.total, frags |-> NoBuffers, bytes |-> 0,
                     firstSeen |-> now]
    <2>1. BufferFor(f) = b
      BY <1>3 DEF BufferFor
    <2>2. GoodBuffer(b)
      BY <1>1, FreshIsGood
    <2>3. b.firstSeen = now /\ b.total = f.total /\ DOMAIN b.frags = {}
      BY DEF NoBuffers
    <2> QED
      BY <1>1, <1>3, <2>1, <2>2, <2>3
  <1> QED
    BY <1>2, <1>3

(* A fragment that is buffered leaves a good buffer.                       *)
LEMMA AbsorbFacts ==
  ASSUME BoundInv, NEW f \in Fragment, f.seq < f.total,
         BufferFor(f).total = f.total
  PROVE  LET b == Absorbed(BufferFor(f), f)
         IN  /\ GoodBuffer(b) /\ b.firstSeen <= now
             /\ AbsorbedFacts(BufferFor(f), f, b)
  BY BufferForFacts, AbsorbedIsGood DEF AbsorbedFacts

(* A step of recv_frame at which nothing but its own state changes.        *)
ReceiverType ==
  /\ phase \in {"outside", "reading"} /\ discarded \subseteq Nat
  /\ delivered \in Seq([stream : Nat, payload : Seq(Bytes)])
  /\ BufferInv

LEMMA PruneHolds ==
  ASSUME BoundInv, NEW b, HoldBuffers(b, now), PruneAndRead(b), now' = now
  PROVE  ReceiverType'
  <1>1. now \in Nat /\ discarded \subseteq Nat
        /\ delivered \in Seq([stream : Nat, payload : Seq(Bytes)])
    BY DEF BoundInv, TypeOK
  <1>2. HoldBuffers(Restrict(b, DOMAIN b \ Stale(b)), now)
    BY <1>1, RestrictHolds
  <1>3. Stale(b) \subseteq Nat
    BY DEF Stale, HoldBuffers
  <1>4. BufferInv'
    BY <1>2 DEF PruneAndRead, BufferInv
  <1> QED
    BY <1>1, <1>3, <1>4 DEF PruneAndRead, ReceiverType

LEMMA DropHolds ==
  ASSUME BoundInv, NEW s \in Nat, now' = now,
         bufs' = Restrict(bufs, DOMAIN bufs \ {s})
  PROVE  BufferInv'
  <1>1. now \in Nat
    BY DEF BoundInv, TypeOK
  <1>2. HoldBuffers(Restrict(bufs, DOMAIN bufs \ {s}), now)
    BY <1>1, RestrictHolds DEF BoundInv, BufferInv
  <1> QED
    BY <1>2 DEF BufferInv

LEMMA ReceiveHolds ==
  ASSUME BoundInv, NEW f \in Fragment, AbsorbFails(f) \/ AbsorbSucceeds(f),
         now' = now
  PROVE  ReceiverType'
  <1>1. /\ now \in Nat /\ discarded \subseteq Nat /\ f.stream \in Nat
        /\ delivered \in Seq([stream : Nat, payload : Seq(Bytes)])
        /\ BufferInv
    BY DEF BoundInv, TypeOK, Fragment
  <1>2. CASE Raise(f.stream)
    BY <1>1, <1>2 DEF Raise, ReceiverType, BufferInv
  <1>3. CASE RaiseDropping(f.stream)
    <2>1. BufferInv'
      BY <1>1, <1>3, DropHolds DEF RaiseDropping
    <2> QED
      BY <1>1, <1>3, <2>1 DEF RaiseDropping, ReceiverType
  <1>4. CASE AbsorbSucceeds(f)
    <2> DEFINE b == Absorbed(BufferFor(f), f)
    <2>1. /\ f.seq < f.total /\ Room(f) /\ BufferFor(f).total = f.total
          /\ b.bytes <= MaxPayload
      BY <1>4 DEF AbsorbSucceeds
    <2>2. GoodBuffer(b) /\ b.firstSeen <= now
      BY <2>1, AbsorbFacts
    <2>3. CASE IsComplete(b)
      <3>1. /\ phase' = "outside" /\ discarded' = discarded
            /\ bufs' = Restrict(bufs, DOMAIN bufs \ {f.stream})
            /\ delivered' = Append(delivered,
                 [stream |-> f.stream, payload |-> Reassemble(b)])
        BY <1>4, <2>3 DEF AbsorbSucceeds
      <3> HIDE DEF b
      <3>2. Reassemble(b) \in Seq(Bytes)
        BY <2>2, <2>3, CompleteFacts
      <3>3. BufferInv'
        BY <1>1, <3>1, DropHolds
      <3>4. delivered' \in Seq([stream : Nat, payload : Seq(Bytes)])
        BY <1>1, <3>1, <3>2, AppendProperties
      <3> QED
        BY <1>1, <3>1, <3>3, <3>4 DEF ReceiverType
    <2>4. CASE ~ IsComplete(b)
      <3> DEFINE g == [s \in DOMAIN bufs \cup {f.stream} |->
                         IF s = f.stream THEN b ELSE bufs[s]]
      <3>1. PruneAndRead(g)
        BY <1>4, <2>4 DEF AbsorbSucceeds
      <3> HIDE DEF b
      <3>2. HoldBuffers(g, now)
        BY <1>1, <2>1, <2>2, PutHolds DEF BufferInv, Room
      <3> HIDE DEF g
      <3> QED
        BY <3>1, <3>2, PruneHolds
    <2> QED
      BY <2>3, <2>4
  <1> QED
    BY <1>2, <1>3, <1>4 DEF AbsorbFails

-----------------------------------------------------------------------------
LEMMA JobFacts ==
  ASSUME BoundInv, NEW m \in Messages, Accepted(m)
  PROVE  /\ job[m].chunk \in Nat \ {0} /\ job[m].seq \in Nat
         /\ job[m].chunk + HeaderSize <= MaxPayload
         /\ Total(m, job[m].chunk) \in Nat \ {0}
         /\ Total(m, job[m].chunk) \in SenderTotals
         /\ job[m].seq <= Total(m, job[m].chunk)
         /\ job[m].stream \in SenderStreams /\ job[m].stream \in Nat
         /\ job[m].conn \in Nat /\ job[m].conn <= conn
  <1>1. job[m] \in [stream : 0..(IdSpace - 1), chunk : Int, seq : Nat, conn : Nat]
    BY DEF BoundInv, TypeOK
  <1>2. /\ job[m].chunk \in ChunkSizes /\ Acceptable(m, job[m].chunk)
        /\ job[m].seq <= Total(m, job[m].chunk)
        /\ job[m].stream \in SenderStreams /\ job[m].conn <= conn
    BY DEF BoundInv, JobInv
  <1>3. job[m].chunk \in Int /\ job[m].seq \in Nat /\ job[m].conn \in Nat
    BY <1>1
  <1>4. job[m].stream \in Nat
    BY <1>2, BoundsAssumption DEF SenderStreams
  <1>5. /\ job[m].chunk \in Nat \ {0}
        /\ job[m].chunk + HeaderSize <= MaxPayload
        /\ Total(m, job[m].chunk) \in Nat \ {0}
        /\ Total(m, job[m].chunk) <= MaxTotal
    BY <1>2, <1>3, AcceptableFacts
  <1>6. Total(m, job[m].chunk) \in SenderTotals
    BY <1>2, <1>5, BoundsAssumption DEF SenderTotals
  <1> QED
    BY <1>2, <1>3, <1>4, <1>5, <1>6

LEMMA BoundInit == Init => BoundInv
  <1> SUFFICES ASSUME Init PROVE BoundInv
    OBVIOUS
  <1> USE DEF Init
  <1>1. IdSpace \in Nat /\ IdSpace > 1
    BY BoundsAssumption
  <1>2. DOMAIN bufs = {}
    BY DEF NoBuffers
  <1>3. TypeOK
    <2>1. job \in [Messages -> [stream : 0..(IdSpace - 1), chunk : Int,
                                seq : Nat, conn : Nat]]
      BY <1>1
    <2>2. wire \in Seq(Fragment)
          /\ delivered \in Seq([stream : Nat, payload : Seq(Bytes)])
      OBVIOUS
    <2> QED
      BY <1>2, <2>1, <2>2 DEF TypeOK
  <1>4. NeverBroken /\ JobInv
    BY DEF NeverBroken, JobInv, Accepted
  <1>5. BufferInv
    BY <1>2, FS_EmptySet, BoundsAssumption DEF BufferInv, HoldBuffers
  <1> QED
    BY <1>3, <1>4, <1>5 DEF BoundInv

-----------------------------------------------------------------------------
(* Each step keeps the bounds.                                             *)

LEMMA SenderBound ==
  ASSUME BoundInv, NEW m \in Messages,
         (\E c \in ChunkSizes : Refuse(m, c) \/ Accept(m, c))
           \/ WriteNext(m) \/ CancelSend(m)
  PROVE  BoundInv'
  <1> USE DEF BoundInv
  <1>1. ASSUME NEW c \in ChunkSizes, Refuse(m, c)
        PROVE  BoundInv'
    <2> USE <1>1 DEF Refuse, connVars, receiverVars
    <2>1. TypeOK'
      BY DEF TypeOK
    <2>2. NeverBroken' /\ JobInv'
      BY DEF TypeOK, NeverBroken, JobInv, Accepted
    <2>3. BufferInv'
      BY DEF BufferInv
    <2> QED
      BY <2>1, <2>2, <2>3
  <1>2. ASSUME NEW c \in ChunkSizes, Accept(m, c)
        PROVE  BoundInv'
    <2> USE <1>2 DEF Accept, connVars, receiverVars
    <2>1. /\ c \in Int /\ Acceptable(m, c) /\ conn \in Nat
          /\ nextId \in 1..(IdSpace - 1) /\ IdSpace \in Nat
      BY ChunkAssumption, BoundsAssumption DEF TypeOK
    <2>2. Total(m, c) \in Nat \ {0}
      BY <2>1, AcceptableFacts
    <2>3. /\ job' = [job EXCEPT ![m] = [stream |-> nextId, chunk |-> c,
                                        seq |-> 0, conn |-> conn]]
          /\ [stream |-> nextId, chunk |-> c, seq |-> 0, conn |-> conn]
               \in [stream : 0..(IdSpace - 1), chunk : Int, seq : Nat,
                    conn : Nat]
      BY <2>1
    <2>4. TypeOK'
      <3>1. nextId' \in 1..(IdSpace - 1)
        BY <2>1, FollowingFacts
      <3>2. job' \in [Messages -> [stream : 0..(IdSpace - 1), chunk : Int,
                                   seq : Nat, conn : Nat]]
        BY <2>3 DEF TypeOK
      <3> QED
        BY <3>1, <3>2 DEF TypeOK
    <2>5. NeverBroken'
      BY DEF TypeOK, NeverBroken
    <2>6. JobInv'
      <3> SUFFICES ASSUME NEW n \in Messages, Accepted(n)'
                   PROVE  /\ job'[n].chunk \in ChunkSizes
                          /\ Acceptable(n, job'[n].chunk)
                          /\ job'[n].seq <= Total(n, job'[n].chunk)
                          /\ job'[n].stream \in SenderStreams
                          /\ job'[n].conn <= conn'
        BY DEF JobInv
      <3>1. CASE n = m
        <4>1. job'[n] = [stream |-> nextId, chunk |-> c, seq |-> 0,
                         conn |-> conn]
          BY <3>1 DEF TypeOK
        <4> QED
          BY <2>1, <2>2, <3>1, <4>1 DEF SenderStreams
      <3>2. CASE n # m
        <4>1. Accepted(n) /\ job'[n] = job[n]
          BY <3>2 DEF TypeOK, Accepted
        <4> QED
          BY <4>1 DEF JobInv
      <3> QED
        BY <3>1, <3>2
    <2>7. BufferInv'
      BY DEF BufferInv
    <2> QED
      BY <2>4, <2>5, <2>6, <2>7
  <1>3. CASE WriteNext(m)
    <2> USE <1>3
    <2> DEFINE f == FragmentOf(m, job[m].chunk, job[m].seq, job[m].stream)
    <2>1. Accepted(m) /\ job[m].seq < Total(m, job[m].chunk)
      BY DEF WriteNext, Unsent, Accepted
    <2>2. /\ job[m].chunk \in Nat \ {0} /\ job[m].seq \in Nat
          /\ job[m].chunk + HeaderSize <= MaxPayload
          /\ Total(m, job[m].chunk) \in Nat
          /\ job[m].stream \in Nat
      BY <2>1, JobFacts
    <2>3. f \in Fragment
      BY <2>2, FragmentType
    <2>4. f.data \in Seq(Bytes) /\ Len(f.data) <= job[m].chunk
      BY <2>2, ChunkFacts DEF FragmentOf
    <2>5. Len(f.data) + HeaderSize <= MaxPayload
      <3>1. Len(f.data) \in Nat /\ HeaderSize \in Nat /\ MaxPayload \in Nat
        BY <2>4, LenProperties, BoundsAssumption
      <3> HIDE DEF f
      <3> QED
        BY <2>2, <2>4, <3>1
    <2>6. /\ wire' = Append(wire, f) /\ task' = task
          /\ job' = [job EXCEPT ![m].seq = @ + 1]
          /\ UNCHANGED <<now, connVars, nextId, strays, receiverVars>>
      BY <2>5 DEF WriteNext
    <2> HIDE DEF f
    <2>7. job'[m] = [job[m] EXCEPT !.seq = @ + 1]
          /\ \A n \in Messages : n # m => job'[n] = job[n]
      BY <2>6 DEF TypeOK
    <2>8. /\ job'[m].stream = job[m].stream /\ job'[m].chunk = job[m].chunk
          /\ job'[m].conn = job[m].conn /\ job'[m].seq = job[m].seq + 1
      BY <2>7 DEF TypeOK
    <2>9. TypeOK'
      <3> DEFINE Job == [stream : 0..(IdSpace - 1), chunk : Int, seq : Nat,
                         conn : Nat]
      <3>3. job \in [Messages -> Job] /\ job[m] \in Job
        BY DEF TypeOK
      <3>4. [job[m] EXCEPT !.seq = @ + 1] \in Job
        BY <2>2, <3>3
      <3> HIDE DEF Job
      <3>5. job' = [job EXCEPT ![m] = [job[m] EXCEPT !.seq = @ + 1]]
        BY <2>6
      <3>6. job' \in [Messages -> Job]
        BY <3>3, <3>4, <3>5
      <3>1. job' \in [Messages -> [stream : 0..(IdSpace - 1), chunk : Int,
                                   seq : Nat, conn : Nat]]
        BY <3>6 DEF Job
      <3>2. wire' \in Seq(Fragment)
        BY <2>3, <2>6, AppendProperties DEF TypeOK
      <3> QED
        BY <2>6, <3>1, <3>2 DEF TypeOK, connVars, receiverVars
    <2>10. NeverBroken'
      BY <2>6 DEF NeverBroken
    <2>11. JobInv'
      <3> SUFFICES ASSUME NEW n \in Messages, Accepted(n)'
                   PROVE  /\ job'[n].chunk \in ChunkSizes
                          /\ Acceptable(n, job'[n].chunk)
                          /\ job'[n].seq <= Total(n, job'[n].chunk)
                          /\ job'[n].stream \in SenderStreams
                          /\ job'[n].conn <= conn'
        BY DEF JobInv
      <3>1. Accepted(n) /\ conn' = conn
        BY <2>6 DEF Accepted, connVars
      <3>2. CASE n = m
        <4>1. /\ job[m].chunk \in ChunkSizes /\ Acceptable(m, job[m].chunk)
              /\ job[m].stream \in SenderStreams /\ job[m].conn <= conn
          BY <2>1 DEF JobInv
        <4> QED
          BY <2>1, <2>2, <2>8, <3>1, <3>2, <4>1
      <3>3. CASE n # m
        BY <2>7, <3>1, <3>3 DEF JobInv
      <3> QED
        BY <3>2, <3>3
    <2>12. BufferInv'
      BY <2>6 DEF BufferInv, receiverVars
    <2> QED
      BY <2>9, <2>10, <2>11, <2>12
  <1>4. CASE CancelSend(m)
    <2> USE <1>4 DEF CancelSend, connVars, receiverVars
    <2>1. TypeOK'
      BY DEF TypeOK
    <2>2. NeverBroken'
      BY DEF TypeOK, NeverBroken
    <2>3. JobInv'
      BY DEF TypeOK, JobInv, Accepted, Unsent
    <2>4. BufferInv'
      BY DEF BufferInv
    <2> QED
      BY <2>1, <2>2, <2>3, <2>4
  <1> QED
    BY <1>1, <1>2, <1>3, <1>4

LEMMA StrayBound ==
  ASSUME BoundInv, NEW f \in strays, StrayArrives(f)
  PROVE  BoundInv'
  <1> USE DEF BoundInv, StrayArrives, connVars, senderVars, receiverVars
  <1>1. f \in Fragment
    BY StraysAssumption DEF TypeOK
  <1>2. TypeOK'
    <2>1. wire' \in Seq(Fragment)
      BY <1>1, AppendProperties DEF TypeOK
    <2> QED
      BY <2>1 DEF TypeOK
  <1>3. NeverBroken' /\ JobInv'
    BY DEF NeverBroken, JobInv, Accepted
  <1>4. BufferInv'
    BY DEF BufferInv
  <1> QED
    BY <1>2, <1>3, <1>4

(* Steps of the receiver, which change nothing of the sender.              *)
LEMMA ReceiverBound ==
  ASSUME BoundInv, ReceiverType', wire' \in Seq(Fragment),
         UNCHANGED <<now, connVars, senderVars, strays>>
  PROVE  BoundInv'
  <1> USE DEF BoundInv, connVars, senderVars
  <1>1. TypeOK'
    <2>1. now' \in Nat
      BY DEF TypeOK
    <2>2. /\ DOMAIN bufs' \subseteq Nat
          /\ \A s \in DOMAIN bufs' :
               /\ bufs'[s].total \in Nat /\ bufs'[s].bytes \in Nat
               /\ bufs'[s].firstSeen \in 0..now'
               /\ DOMAIN bufs'[s].frags \subseteq 0..(bufs'[s].total - 1)
      BY <2>1, BuffersTyped DEF ReceiverType, BufferInv
    <2> QED
      BY <2>2 DEF TypeOK, ReceiverType
  <1>2. NeverBroken' /\ JobInv'
    BY DEF NeverBroken, JobInv, Accepted
  <1>3. BufferInv'
    BY DEF ReceiverType
  <1> QED
    BY <1>1, <1>2, <1>3

LEMMA RecvBound ==
  ASSUME BoundInv, CallRecv \/ CancelRecv \/ ReadFragment
  PROVE  BoundInv'
  <1>1. CASE CallRecv
    <2>1. ReceiverType'
      BY <1>1, PruneHolds DEF CallRecv, BoundInv, BufferInv
    <2> QED
      BY <1>1, <2>1, ReceiverBound DEF CallRecv, BoundInv, TypeOK
  <1>2. CASE CancelRecv
    <2>1. ReceiverType'
      BY <1>2 DEF CancelRecv, ReceiverType, BoundInv, TypeOK, BufferInv
    <2> QED
      BY <1>2, <2>1, ReceiverBound DEF CancelRecv, BoundInv, TypeOK
  <1>3. CASE ReadFragment
    <2>1. wire \in Seq(Fragment) /\ wire # <<>>
      BY <1>3 DEF ReadFragment, BoundInv, TypeOK
    <2>2. Head(wire) \in Fragment /\ Tail(wire) \in Seq(Fragment)
      BY <2>1, HeadTailProperties
    <2>3. ReceiverType'
      BY <1>3, <2>2, ReceiveHolds DEF ReadFragment
    <2> QED
      BY <1>3, <2>2, <2>3, ReceiverBound DEF ReadFragment
  <1> QED
    BY <1>1, <1>2, <1>3

LEMMA ReconnectBound ==
  ASSUME BoundInv, Reconnect
  PROVE  BoundInv'
  <1> USE DEF BoundInv, Reconnect
  <1>1. conn \in Nat /\ IdSpace \in Nat /\ nextId \in 1..(IdSpace - 1)
    BY BoundsAssumption DEF TypeOK
  <1>2. TypeOK'
    <2>1. nextId' \in 1..(IdSpace - 1)
      BY <1>1
    <2>2. task' \in [Messages -> {"new", "refused", "sending", "cancelled",
                                  "broken", "lost"}]
      BY DEF TypeOK
    <2>3. leftover' \subseteq Nat
      BY DEF TypeOK
    <2> QED
      BY <1>1, <2>1, <2>2, <2>3 DEF TypeOK
  <1>3. \A m \in Messages : Accepted(m)' => Accepted(m)
    BY DEF Accepted
  <1>4. NeverBroken'
    BY DEF NeverBroken, TypeOK
  <1>5. JobInv'
    <2> SUFFICES ASSUME NEW m \in Messages, Accepted(m)'
                 PROVE  /\ job[m].chunk \in ChunkSizes
                        /\ Acceptable(m, job[m].chunk)
                        /\ job[m].seq <= Total(m, job[m].chunk)
                        /\ job[m].stream \in SenderStreams
                        /\ job[m].conn <= conn + 1
      BY DEF JobInv
    <2>1. Accepted(m)
      BY <1>3
    <2>2. job[m].conn \in Nat /\ job[m].conn <= conn
      BY <2>1, JobFacts
    <2> QED
      BY <1>1, <2>1, <2>2 DEF JobInv
  <1>6. BufferInv'
    BY DEF BufferInv
  <1> QED
    BY <1>2, <1>4, <1>5, <1>6

LEMMA TickBound ==
  ASSUME BoundInv, Tick
  PROVE  BoundInv'
  <1> USE DEF BoundInv, Tick, connVars, senderVars, receiverVars
  <1>1. now \in Nat /\ now' = now + 1 /\ bufs' = bufs
    BY DEF TypeOK
  <1>2. BufferInv'
    <2>1. \A s \in DOMAIN bufs : bufs[s].firstSeen \in 0..now
      BY DEF TypeOK
    <2>2. HoldBuffers(bufs, now + 1)
      BY <1>1, <2>1 DEF BufferInv, HoldBuffers
    <2> QED
      BY <1>1, <2>2 DEF BufferInv
  <1>3. TypeOK'
    <2>1. \A s \in DOMAIN bufs : bufs[s].firstSeen \in 0..(now + 1)
      BY <1>1 DEF TypeOK
    <2> QED
      BY <1>1, <2>1 DEF TypeOK
  <1>4. NeverBroken' /\ JobInv'
    BY DEF NeverBroken, JobInv, Accepted
  <1> QED
    BY <1>2, <1>3, <1>4

LEMMA BoundStep ==
  ASSUME BoundInv, [Next]_vars
  PROVE  BoundInv'
  <1>1. ASSUME NEW m \in Messages,
               (\E c \in ChunkSizes : Refuse(m, c) \/ Accept(m, c))
                 \/ WriteNext(m) \/ CancelSend(m)
        PROVE  BoundInv'
    BY <1>1, SenderBound
  <1>2. ASSUME NEW f \in strays, StrayArrives(f)
        PROVE  BoundInv'
    BY <1>2, StrayBound
  <1>3. CASE CallRecv \/ CancelRecv \/ ReadFragment
    BY <1>3, RecvBound
  <1>4. CASE Reconnect
    BY <1>4, ReconnectBound
  <1>5. CASE Tick
    BY <1>5, TickBound
  <1>6. CASE UNCHANGED vars
    BY <1>6 DEF vars, connVars, senderVars, receiverVars, BoundInv, TypeOK,
                NeverBroken, JobInv, Accepted, BufferInv
  <1> QED
    BY <1>1, <1>2, <1>3, <1>4, <1>5, <1>6 DEF Next

(* The inductive invariant of the bounds: what send_fragmented accepted    *)
(* stays acceptable, and each buffer of _reassembly counts the bytes it    *)
(* holds.                                                                  *)
THEOREM BoundInvariance == Spec => []BoundInv
  BY BoundInit, BoundStep, PTL DEF Spec

(* Type correctness: the ids that send_fragmented takes from               *)
(* _next_stream_id stay within 32 bits and off 0, and every buffer of      *)
(* _reassembly has the fields that _absorb_fragment reads, its fragments   *)
(* numbered below its total.                                               *)
THEOREM TypesOK == Spec => []TypeOK
  <1>1. BoundInv => TypeOK
    BY DEF BoundInv
  <1> QED
    BY <1>1, BoundInvariance, PTL

(* No message is broken off by pack_frame: what send_fragmented accepts by *)
(* its checks on the payload and the chunk size makes only fragments that  *)
(* fit a frame with their header.                                          *)
THEOREM SendsUnbroken == Spec => []NeverBroken
  <1>1. BoundInv => NeverBroken
    BY DEF BoundInv
  <1> QED
    BY <1>1, BoundInvariance, PTL

(* _reassembly holds at most MAX_REASSEMBLY_STREAMS buffers, each of at    *)
(* most MAX_PAYLOAD bytes, and the byte count it keeps of each is the sum  *)
(* of the fragments it holds, although a fragment may come again.          *)
THEOREM BuffersWithinBounds == Spec => []BuffersBounded
  <1>1. BoundInv => BuffersBounded
    BY DEF BoundInv, BufferInv, HoldBuffers, GoodBuffer, CountedBytes,
           BuffersBounded
  <1> QED
    BY <1>1, BoundInvariance, PTL

-----------------------------------------------------------------------------
(* Whole messages.  The messages of the current connection have stream ids *)
(* of their own; what is in transit and in the buffers is theirs.          *)

Current(m) == Accepted(m) /\ job[m].conn = conn
CurrentMessages == {m \in Messages : Current(m)}

UnsentInv == \A m \in Messages : Unsent(m) => Current(m)

(* How many ids ago id was given out, when next is the next.               *)
Behind(id, next) == IF id < next THEN next - id ELSE next - id + IdSpace - 1

IdInv ==
  /\ \A m \in CurrentMessages :
       Behind(job[m].stream, nextId) <= Cardinality(CurrentMessages)
  /\ \A m, n \in CurrentMessages : job[m].stream = job[n].stream => m = n

(* A fragment that can be part of a message.                               *)
Genuine(f) ==
  f.stream \in SenderStreams /\ f.seq < f.total /\ f.total \in SenderTotals

Harmless(f) == f.seq >= f.total \/ (f.total \notin SenderTotals /\ f.seq > 0)

SentBy(f, m) ==
  /\ Current(m) /\ job[m].stream = f.stream /\ f.seq < job[m].seq
  /\ f.total = Total(m, job[m].chunk) /\ f.data = Chunk(m, job[m].chunk, f.seq)

WireInv ==
  /\ \A i \in DOMAIN wire : wire[i].stream \in SenderStreams =>
       Harmless(wire[i]) \/ \E m \in Messages : SentBy(wire[i], m)
  /\ \A i, j \in DOMAIN wire :
       i < j /\ Genuine(wire[i]) /\ Genuine(wire[j])
         /\ wire[i].stream = wire[j].stream => wire[i].seq < wire[j].seq

(* Buffer b of stream s holds chunks of m, all from before what of m is    *)
(* still in transit on w.                                                  *)
ChunksOf(b, s, m, w) ==
  /\ Current(m) /\ job[m].stream = s /\ b.total = Total(m, job[m].chunk)
  /\ \A k \in DOMAIN b.frags :
       /\ b.frags[k] = Chunk(m, job[m].chunk, k) /\ k < job[m].seq
       /\ \A i \in DOMAIN w :
            Genuine(w[i]) /\ w[i].stream = s => k < w[i].seq

HeldInv ==
  \A s \in DOMAIN bufs : s \in SenderStreams =>
    /\ bufs[s].total \notin SenderTotals => 0 \notin DOMAIN bufs[s].frags
    /\ bufs[s].total \in SenderTotals /\ s \notin leftover =>
         \E m \in Messages : ChunksOf(bufs[s], s, m, wire)

(* Message m is what was returned as d, and none of it is left on w.       *)
ReturnedAs(d, m, w) ==
  /\ Accepted(m) /\ job[m].stream = d.stream /\ d.payload = Payload(m)
  /\ Current(m) =>
       /\ job[m].seq = Total(m, job[m].chunk)
       /\ \A i \in DOMAIN w : ~ (Genuine(w[i]) /\ w[i].stream = d.stream)

ReturnedInv ==
  \A i \in DOMAIN delivered : delivered[i].stream \in SenderStreams \ leftover =>
    /\ \E m \in Messages : ReturnedAs(delivered[i], m, wire)
    /\ \A j \in DOMAIN delivered :
         delivered[i].payload # <<>> /\ delivered[i] = delivered[j] => i = j

WholeInv == UnsentInv /\ IdInv /\ WireInv /\ HeldInv /\ ReturnedInv

LEMMA AppendIndex ==
  ASSUME NEW S, NEW w \in Seq(S), NEW f \in S
  PROVE  /\ \A i \in DOMAIN Append(w, f) :
              \/ i \in DOMAIN w /\ Append(w, f)[i] = w[i]
              \/ i = Len(w) + 1 /\ Append(w, f)[i] = f
         /\ \A i \in DOMAIN w :
              i \in Int /\ i < Len(w) + 1 /\ i \in DOMAIN Append(w, f)
                /\ Append(w, f)[i] = w[i]
         /\ Len(w) + 1 \in DOMAIN Append(w, f)
         /\ Append(w, f)[Len(w) + 1] = f
  <1>1. Len(w) \in Nat /\ DOMAIN w = 1..Len(w)
    BY LenProperties
  <1>2. /\ Append(w, f) \in Seq(S) /\ Len(Append(w, f)) = Len(w) + 1
        /\ \A i \in 1..Len(w) : Append(w, f)[i] = w[i]
        /\ Append(w, f)[Len(w) + 1] = f
    BY AppendProperties
  <1>3. DOMAIN Append(w, f) = 1..(Len(w) + 1)
    BY <1>2, LenProperties
  <1> QED
    BY <1>1, <1>2, <1>3

LEMMA TailIndex ==
  ASSUME NEW S, NEW w \in Seq(S), w # <<>>
  PROVE  /\ 1 \in DOMAIN w /\ Head(w) = w[1]
         /\ \A i \in DOMAIN Tail(w) :
              /\ i \in Int /\ i + 1 \in DOMAIN w /\ 1 < i + 1
              /\ Tail(w)[i] = w[i + 1]
  <1>1. Len(w) \in Nat \ {0} /\ DOMAIN w = 1..Len(w)
    BY LenProperties, EmptySeq
  <1>2. /\ Tail(w) \in Seq(S) /\ Len(Tail(w)) = Len(w) - 1
        /\ \A i \in 1..Len(Tail(w)) : Tail(w)[i] = w[i + 1]
    BY HeadTailProperties
  <1>3. DOMAIN Tail(w) = 1..(Len(w) - 1)
    BY <1>2, LenProperties
  <1>4. Head(w) = w[1]
    OBVIOUS
  <1> QED
    BY <1>1, <1>2, <1>3, <1>4

LEMMA HarmlessNotGenuine ==
  ASSUME NEW f \in Fragment, Harmless(f)
  PROVE  ~ Genuine(f)
  BY BoundsAssumption DEF Fragment, Harmless, Genuine

LEMMA SentIsGenuine ==
  ASSUME BoundInv, NEW f \in Fragment, f.stream \in SenderStreams,
         NEW m \in Messages, SentBy(f, m)
  PROVE  Genuine(f)
  <1>1. /\ Accepted(m) /\ f.seq < job[m].seq
        /\ f.total = Total(m, job[m].chunk)
    BY DEF SentBy, Current
  <1>2. /\ job[m].seq \in Nat /\ Total(m, job[m].chunk) \in Nat
        /\ Total(m, job[m].chunk) \in SenderTotals
        /\ job[m].seq <= Total(m, job[m].chunk) /\ f.seq \in Nat
    BY <1>1, JobFacts DEF Fragment
  <1> QED
    BY <1>1, <1>2 DEF Genuine

(* A genuine fragment in transit is one of a message.                      *)
LEMMA GenuineIsSent ==
  ASSUME BoundInv, WireInv, NEW i \in DOMAIN wire, Genuine(wire[i])
  PROVE  /\ wire[i] \in Fragment
         /\ \E m \in Messages : SentBy(wire[i], m)
  <1>1. wire[i] \in Fragment
    BY DEF BoundInv, TypeOK
  <1> QED
    BY <1>1, HarmlessNotGenuine DEF WireInv, Genuine

(* Current messages are told apart by their streams.                       *)
LEMMA OneCurrent ==
  ASSUME IdInv, NEW m \in Messages, NEW n \in Messages, Current(m), Current(n),
         job[m].stream = job[n].stream
  PROVE  m = n
  BY DEF IdInv, CurrentMessages

-----------------------------------------------------------------------------
(* Steps that leave the jobs, the wire and the buffers as they are.        *)
LEMMA WholeKept ==
  ASSUME WholeInv, \A m \in Messages : Accepted(m)' <=> Accepted(m),
         \A m \in Messages : Unsent(m)' => Unsent(m),
         UNCHANGED <<connVars, nextId, job, wire, bufs, delivered>>
  PROVE  WholeInv'
  <1> USE DEF WholeInv, connVars
  <1>1. \A m \in Messages : Current(m)' <=> Current(m)
    BY DEF Current
  <1>2. IdInv'
    <2>1. CurrentMessages' = CurrentMessages
      BY <1>1 DEF CurrentMessages
    <2> QED
      BY <2>1 DEF IdInv, Behind
  <1>3. WireInv'
    BY <1>1 DEF WireInv, SentBy
  <1>4. HeldInv'
    BY <1>1 DEF HeldInv, ChunksOf
  <1>5. ReturnedInv'
    BY <1>1 DEF ReturnedInv, ReturnedAs
  <1>6. UnsentInv'
    BY <1>1 DEF UnsentInv
  <1> QED
    BY <1>2, <1>3, <1>4, <1>5, <1>6

LEMMA WholeInit == Init => WholeInv
  <1> SUFFICES ASSUME Init PROVE WholeInv
    OBVIOUS
  <1> USE DEF Init
  <1>1. CurrentMessages = {}
    BY DEF CurrentMessages, Current, Accepted
  <1>2. DOMAIN bufs = {} /\ DOMAIN wire = {} /\ DOMAIN delivered = {}
    BY DEF NoBuffers
  <1>3. IdInv
    BY <1>1 DEF IdInv
  <1>4. WireInv
    BY <1>2 DEF WireInv
  <1>5. HeldInv /\ ReturnedInv
    BY <1>2 DEF HeldInv, ReturnedInv
  <1>6. UnsentInv
    BY DEF UnsentInv, Unsent
  <1> QED
    BY <1>3, <1>4, <1>5, <1>6 DEF WholeInv

(* An id given out puts the others one further behind.                     *)
LEMMA BehindFacts ==
  ASSUME NEW x \in 1..(IdSpace - 1), NEW s \in 1..(IdSpace - 1)
  PROVE  /\ Behind(s, x) \in 1..(IdSpace - 1)
         /\ Behind(x, FollowingId(x)) = 1
         /\ Behind(x, x) = IdSpace - 1
         /\ s # x => Behind(s, FollowingId(x)) = Behind(s, x) + 1
  <1>1. IdSpace \in Nat /\ FollowingId(x) = IF x = IdSpace - 1 THEN 1 ELSE x + 1
    BY FollowingFacts, BoundsAssumption
  <1> QED
    BY <1>1 DEF Behind

LEMMA AcceptIds ==
  ASSUME BoundInv, IdInv, NEW m \in Messages, NEW c \in ChunkSizes, Accept(m, c)
  PROVE  IdInv'
  <1> USE DEF Accept, connVars
  <1>1. /\ nextId \in 1..(IdSpace - 1) /\ conn \in Nat
        /\ task \in [Messages -> {"new", "refused", "sending", "cancelled",
                                  "broken", "lost"}]
    BY DEF BoundInv, TypeOK
  <1>2. job'[m].stream = nextId /\ job'[m].conn = conn
    BY DEF BoundInv, TypeOK
  <1>3. \A n \in Messages : n # m => job'[n] = job[n]
    BY DEF BoundInv, TypeOK
  <1>4. CurrentMessages' = CurrentMessages \cup {m} /\ m \notin CurrentMessages
    <2>1. ~ Accepted(m) /\ Accepted(m)'
      BY <1>1 DEF Accepted
    <2>2. \A n \in Messages : n # m => (Accepted(n)' <=> Accepted(n))
      BY <1>1 DEF Accepted
    <2> QED
      BY <1>2, <1>3, <2>1, <2>2 DEF CurrentMessages, Current
  <1> DEFINE k == Cardinality(CurrentMessages)
  <1>5. /\ IsFiniteSet(CurrentMessages) /\ k \in Nat
        /\ Cardinality(CurrentMessages') = k + 1
        /\ k + 1 <= Cardinality(Messages) /\ Cardinality(Messages) \in Nat
    <2>1. CurrentMessages \in SUBSET Messages
          /\ CurrentMessages' \in SUBSET Messages
      BY <1>4 DEF CurrentMessages
    <2>2. IsFiniteSet(CurrentMessages) /\ k \in Nat
          /\ Cardinality(Messages) \in Nat
      BY <2>1, MessagesAssumption, FS_Subset, FS_CardinalityType
    <2>3. Cardinality(CurrentMessages') = k + 1
      BY <1>4, <2>2, FS_AddElement
    <2>4. Cardinality(CurrentMessages') <= Cardinality(Messages)
      BY <2>1, MessagesAssumption, FS_Subset
    <2> QED
      BY <2>2, <2>3, <2>4
  <1> HIDE DEF k
  <1>6. k < IdSpace - 1
    BY <1>5, BoundsAssumption
  <1>7. \A n \in CurrentMessages :
          /\ n \in Messages /\ n # m /\ job'[n] = job[n]
          /\ job[n].stream \in 1..(IdSpace - 1)
          /\ Behind(job[n].stream, nextId) <= k
          /\ Behind(job[n].stream, nextId) \in Int
    <2> SUFFICES ASSUME NEW n \in CurrentMessages
                 PROVE  /\ n \in Messages /\ n # m /\ job'[n] = job[n]
                        /\ job[n].stream \in 1..(IdSpace - 1)
                        /\ Behind(job[n].stream, nextId) <= k
                        /\ Behind(job[n].stream, nextId) \in Int
      OBVIOUS
    <2>1. n \in Messages /\ Accepted(n) /\ n # m
      BY <1>4 DEF CurrentMessages, Current
    <2>2. job[n].stream \in 1..(IdSpace - 1)
      BY <2>1, JobFacts DEF SenderStreams
    <2>3. Behind(job[n].stream, nextId) \in 1..(IdSpace - 1)
      BY <1>1, <2>2, BehindFacts
    <2> QED
      BY <1>3, <2>1, <2>2, <2>3 DEF IdInv, k
  <1>8. \A n \in CurrentMessages :
          job[n].stream # nextId
            /\ Behind(job[n].stream, nextId') = Behind(job[n].stream, nextId) + 1
    <2> SUFFICES ASSUME NEW n \in CurrentMessages
                 PROVE  /\ job[n].stream # nextId
                        /\ Behind(job[n].stream, nextId')
                             = Behind(job[n].stream, nextId) + 1
      OBVIOUS
    <2>1. job[n].stream # nextId
      <3>1. Behind(nextId, nextId) = IdSpace - 1
        BY <1>1, BehindFacts
      <3>2. ~ (IdSpace - 1 <= k)
        BY <1>5, <1>6, BoundsAssumption
      <3> QED
        BY <1>7, <3>1, <3>2
    <2> QED
      BY <1>1, <1>7, <2>1, BehindFacts
  <1>9. Behind(job'[m].stream, nextId') = 1
    BY <1>1, <1>2, BehindFacts
  <1>10. \A n \in CurrentMessages' :
           Behind(job'[n].stream, nextId') <= Cardinality(CurrentMessages')
    BY <1>4, <1>5, <1>7, <1>8, <1>9
  <1>11. \A n, o \in CurrentMessages' : job'[n].stream = job'[o].stream => n = o
    BY <1>2, <1>4, <1>7, <1>8 DEF IdInv
  <1> QED
    BY <1>10, <1>11 DEF IdInv, Behind

-----------------------------------------------------------------------------
(* The sender's steps.                                                     *)

LEMMA AcceptWhole ==
  ASSUME BoundInv, WholeInv, NEW m \in Messages, NEW c \in ChunkSizes,
         Accept(m, c)
  PROVE  WholeInv'
  <1> USE DEF WholeInv
  <1>1. /\ wire' = wire /\ bufs' = bufs /\ delivered' = delivered
        /\ conn' = conn /\ leftover' = leftover
    BY DEF Accept, connVars, receiverVars
  <1>2. \A n \in Messages : Accepted(n) =>
          /\ n # m /\ Accepted(n)' /\ job'[n] = job[n]
          /\ Current(n)' <=> Current(n)
    BY <1>1 DEF Accept, Accepted, Current, BoundInv, TypeOK
  <1>3. IdInv'
    BY AcceptIds
  <1>4. WireInv'
    <2>1. \A i \in DOMAIN wire : \A n \in Messages :
            SentBy(wire[i], n) => SentBy(wire[i], n)'
      BY <1>1, <1>2 DEF SentBy, Current
    <2> QED
      BY <1>1, <2>1 DEF WireInv
  <1>5. HeldInv'
    <2>1. \A s \in DOMAIN bufs : \A n \in Messages :
            ChunksOf(bufs[s], s, n, wire) => ChunksOf(bufs[s], s, n, wire)'
      BY <1>1, <1>2 DEF ChunksOf, Current
    <2> QED
      BY <1>1, <2>1 DEF HeldInv
  <1>6. ReturnedInv'
    <2>1. \A i \in DOMAIN delivered : \A n \in Messages :
            ReturnedAs(delivered[i], n, wire)
              => ReturnedAs(delivered[i], n, wire)'
      BY <1>1, <1>2 DEF ReturnedAs
    <2> QED
      BY <1>1, <2>1 DEF ReturnedInv
  <1>7. UnsentInv'
    <2>1. Current(m)'
      BY <1>1 DEF Accept, Accepted, Current, BoundInv, TypeOK
    <2>2. \A n \in Messages : n # m => (Unsent(n)' <=> Unsent(n))
      BY DEF Accept, Unsent, BoundInv, TypeOK
    <2>3. \A n \in Messages : Unsent(n) => Accepted(n)
      BY DEF Unsent, Accepted
    <2> QED
      BY <1>2, <2>1, <2>2, <2>3 DEF UnsentInv
  <1> QED
    BY <1>3, <1>4, <1>5, <1>6, <1>7

LEMMA WriteWhole ==
  ASSUME BoundInv, WholeInv, NEW m \in Messages, WriteNext(m)
  PROVE  WholeInv'
  <1> USE DEF WholeInv
  <1> DEFINE f == FragmentOf(m, job[m].chunk, job[m].seq, job[m].stream)
  <1>1. CASE UNCHANGED <<wire, job>>
    <2>1. task' = task \/ task' = [task EXCEPT ![m] = "broken"]
      BY DEF WriteNext
    <2>2. \A n \in Messages : /\ Accepted(n)' <=> Accepted(n)
                              /\ Unsent(n)' => Unsent(n)
      BY <1>1, <2>1 DEF WriteNext, Unsent, Accepted, BoundInv, TypeOK
    <2> QED
      BY <1>1, <2>2, WholeKept DEF WriteNext, connVars, receiverVars
  <1>2. CASE ~ UNCHANGED <<wire, job>>
    <2>1. /\ wire' = Append(wire, f) /\ task' = task
          /\ job' = [job EXCEPT ![m].seq = @ + 1]
          /\ conn' = conn /\ leftover' = leftover /\ nextId' = nextId
          /\ bufs' = bufs /\ delivered' = delivered
      BY <1>2 DEF WriteNext, connVars, receiverVars
    <2>2. /\ Accepted(m) /\ Current(m) /\ job[m].seq < Total(m, job[m].chunk)
      BY DEF WriteNext, Unsent, Accepted, UnsentInv
    <2>3. /\ job[m].chunk \in Nat \ {0} /\ job[m].seq \in Nat
          /\ Total(m, job[m].chunk) \in Nat
          /\ Total(m, job[m].chunk) \in SenderTotals
          /\ job[m].stream \in Nat /\ job[m].stream \in SenderStreams
      BY <2>2, JobFacts
    <2>4. f \in Fragment /\ wire \in Seq(Fragment)
      BY <2>3, FragmentType DEF BoundInv, TypeOK
    <2>5. /\ f.stream = job[m].stream /\ f.seq = job[m].seq
          /\ f.total = Total(m, job[m].chunk)
          /\ f.data = Chunk(m, job[m].chunk, job[m].seq)
      BY DEF FragmentOf
    <2> HIDE DEF f
    <2>6. /\ job'[m].stream = job[m].stream /\ job'[m].chunk = job[m].chunk
          /\ job'[m].conn = job[m].conn /\ job'[m].seq = job[m].seq + 1
          /\ \A n \in Messages : n # m => job'[n] = job[n]
      <3>1. /\ job'[m] = [job[m] EXCEPT !.seq = @ + 1]
            /\ \A n \in Messages : n # m => job'[n] = job[n]
        BY <2>1 DEF BoundInv, TypeOK
      <3>2. job[m] \in [stream : 0..(IdSpace - 1), chunk : Int, seq : Nat,
                        conn : Nat]
        BY DEF BoundInv, TypeOK
      <3> QED
        BY <3>1, <3>2
    <2>7. \A n \in Messages :
            /\ Accepted(n)' <=> Accepted(n)
            /\ Current(n)' <=> Current(n)
            /\ job'[n].stream = job[n].stream /\ job'[n].chunk = job[n].chunk
            /\ job'[n].conn = job[n].conn
      BY <2>1, <2>6 DEF Accepted, Current
    <2>8. \A n \in Messages : Accepted(n) =>
            job[n].seq \in Nat /\ job'[n].seq \in Nat /\ job[n].seq <= job'[n].seq
      BY <2>3, <2>6, JobFacts
    <2>9. \A i \in DOMAIN wire' :
            \/ i \in DOMAIN wire /\ wire'[i] = wire[i] /\ i < Len(wire) + 1
                 /\ wire[i] \in Fragment
            \/ i = Len(wire) + 1 /\ wire'[i] = f
      BY <2>1, <2>4, AppendIndex
    <2>10. \A g \in Fragment : \A n \in Messages :
             SentBy(g, n) => SentBy(g, n)'
      <3> SUFFICES ASSUME NEW g \in Fragment, NEW n \in Messages, SentBy(g, n)
                   PROVE  SentBy(g, n)'
        OBVIOUS
      <3>1. /\ Accepted(n) /\ Current(n) /\ job[n].stream = g.stream
            /\ g.seq < job[n].seq /\ g.total = Total(n, job[n].chunk)
            /\ g.data = Chunk(n, job[n].chunk, g.seq)
        BY DEF SentBy, Current
      <3>2. g.seq \in Nat /\ g.seq < job'[n].seq
        BY <2>8, <3>1 DEF Fragment
      <3> QED
        BY <2>7, <3>1, <3>2 DEF SentBy
    <2>11. ASSUME NEW i \in DOMAIN wire, Genuine(wire[i]),
                  wire[i].stream = job[m].stream
           PROVE  wire[i].seq < job[m].seq
      <3>1. PICK n \in Messages : SentBy(wire[i], n)
        BY <2>11, GenuineIsSent
      <3>2. n = m
        BY <2>2, <2>11, <3>1, OneCurrent DEF SentBy
      <3> QED
        BY <3>1, <3>2 DEF SentBy
    <2>12. UnsentInv'
      BY <2>1, <2>2, <2>6, <2>7 DEF UnsentInv, Unsent
    <2>13. IdInv'
      <3>1. CurrentMessages' = CurrentMessages
        BY <2>7 DEF CurrentMessages
      <3>2. \A n \in CurrentMessages : n \in Messages
        BY DEF CurrentMessages
      <3> QED
        BY <2>1, <2>7, <3>1, <3>2 DEF IdInv, Behind
    <2>14. WireInv'
      <3>1. ASSUME NEW i \in DOMAIN wire', wire'[i].stream \in SenderStreams
            PROVE  (Harmless(wire[i]) \/ \E n \in Messages : SentBy(wire[i], n))'
        <4>1. CASE i \in DOMAIN wire /\ wire'[i] = wire[i]
                     /\ wire[i] \in Fragment
          <5>1. CASE Harmless(wire[i])
            BY <4>1, <5>1 DEF Harmless
          <5>2. CASE ~ Harmless(wire[i])
            <6>1. PICK n \in Messages : SentBy(wire[i], n)
              BY <3>1, <4>1, <5>2 DEF WireInv
            <6>2. PICK g \in Fragment : g = wire[i]
              BY <4>1
            <6>3. SentBy(g, n)'
              BY <2>10, <6>1, <6>2
            <6>4. SentBy(wire[i], n)'
              BY <4>1, <6>2, <6>3 DEF SentBy
            <6> QED
              BY <6>4
          <5> QED
            BY <5>1, <5>2
        <4>2. CASE wire'[i] = f
          <5>1. job[m].seq < job'[m].seq
            BY <2>3, <2>6
          <5>2. SentBy(wire[i], m)'
            BY <2>2, <2>5, <2>6, <2>7, <4>2, <5>1 DEF SentBy
          <5> QED
            BY <5>2
        <4> QED
          BY <2>9, <4>1, <4>2
      <3>2. ASSUME NEW i \in DOMAIN wire', NEW j \in DOMAIN wire', i < j,
                   Genuine(wire'[i]), Genuine(wire'[j]),
                   wire'[i].stream = wire'[j].stream
            PROVE  wire'[i].seq < wire'[j].seq
        <4>0. /\ Len(wire) \in Nat
              /\ \A k \in DOMAIN wire : k \in Nat /\ k < Len(wire) + 1
          BY <2>4, LenProperties
        <4>1. i \in DOMAIN wire /\ wire'[i] = wire[i]
          BY <2>9, <3>2, <4>0
        <4>2. CASE j \in DOMAIN wire /\ wire'[j] = wire[j]
          BY <3>2, <4>1, <4>2 DEF WireInv
        <4>3. CASE wire'[j] = f
          BY <2>5, <2>11, <3>2, <4>1, <4>3
        <4> QED
          BY <2>9, <4>2, <4>3
      <3> QED
        BY <3>1, <3>2 DEF WireInv
    <2>15. HeldInv'
      <3> SUFFICES ASSUME NEW s \in DOMAIN bufs, s \in SenderStreams,
                          bufs[s].total \in SenderTotals, s \notin leftover
                   PROVE  (\E n \in Messages : ChunksOf(bufs[s], s, n, wire))'
        BY <2>1 DEF HeldInv
      <3>1. PICK n \in Messages : ChunksOf(bufs[s], s, n, wire)
        BY DEF HeldInv
      <3>2. /\ Accepted(n) /\ Current(n) /\ job[n].stream = s
            /\ bufs[s].total = Total(n, job[n].chunk)
        BY <3>1 DEF ChunksOf, Current
      <3>3. ASSUME NEW k \in DOMAIN bufs[s].frags
            PROVE  /\ bufs[s].frags[k] = Chunk(n, job[n].chunk, k)
                   /\ k < job'[n].seq
                   /\ \A i \in DOMAIN wire' :
                        Genuine(wire'[i]) /\ wire'[i].stream = s
                          => k < wire'[i].seq
        <4>1. /\ bufs[s].frags[k] = Chunk(n, job[n].chunk, k)
              /\ k < job[n].seq
              /\ \A i \in DOMAIN wire :
                   Genuine(wire[i]) /\ wire[i].stream = s => k < wire[i].seq
          BY <3>1 DEF ChunksOf
        <4>2. k \in Nat
          BY BuffersTyped DEF BoundInv, BufferInv, TypeOK
        <4>3. k < job'[n].seq
          BY <2>8, <3>2, <4>1, <4>2
        <4>4. ASSUME NEW i \in DOMAIN wire', Genuine(wire'[i]),
                     wire'[i].stream = s
              PROVE  k < wire'[i].seq
          <5>1. CASE i \in DOMAIN wire /\ wire'[i] = wire[i]
            BY <4>1, <4>4, <5>1
          <5>2. CASE wire'[i] = f
            <6>1. n = m
              BY <2>2, <2>5, <3>2, <4>4, <5>2, OneCurrent
            <6> QED
              BY <2>5, <4>1, <5>2, <6>1
          <5> QED
            BY <2>9, <5>1, <5>2
        <4> QED
          BY <4>1, <4>3, <4>4
      <3>4. ChunksOf(bufs[s], s, n, wire)'
        BY <2>1, <2>7, <3>2, <3>3 DEF ChunksOf
      <3> QED
        BY <3>4
    <2>16. ReturnedInv'
      <3>1. ASSUME NEW i \in DOMAIN delivered, NEW n \in Messages,
                   ReturnedAs(delivered[i], n, wire)
            PROVE  ReturnedAs(delivered[i], n, wire)'
        <4>1. /\ Accepted(n) /\ job[n].stream = delivered[i].stream
              /\ delivered[i].payload = Payload(n)
          BY <3>1 DEF ReturnedAs
        <4>2. ASSUME Current(n)
              PROVE  /\ job'[n].seq = Total(n, job'[n].chunk)
                     /\ \A j \in DOMAIN wire' :
                          ~ (Genuine(wire'[j])
                               /\ wire'[j].stream = delivered[i].stream)
          <5>1. /\ job[n].seq = Total(n, job[n].chunk)
                /\ \A j \in DOMAIN wire :
                     ~ (Genuine(wire[j])
                          /\ wire[j].stream = delivered[i].stream)
            BY <3>1, <4>2 DEF ReturnedAs
          <5>2. n # m
            BY <2>2, <2>3, <5>1
          <5>3. f.stream # delivered[i].stream
            BY <2>2, <2>5, <4>1, <4>2, <5>2, OneCurrent
          <5> QED
            BY <2>6, <2>9, <5>1, <5>2, <5>3
        <4> QED
          BY <2>1, <2>7, <4>1, <4>2 DEF ReturnedAs
      <3> QED
        BY <2>1, <3>1 DEF ReturnedInv
    <2> QED
      BY <2>12, <2>13, <2>14, <2>15, <2>16
  <1> QED
    BY <1>1, <1>2

(* A stray is put on the wire: on the sender's streams it is harmless.     *)
LEMMA StrayWhole ==
  ASSUME HarmlessStrays, BoundInv, WholeInv, NEW f \in strays, StrayArrives(f)
  PROVE  WholeInv'
  <1> USE DEF WholeInv
  <1>1. /\ wire' = Append(wire, f) /\ task' = task /\ job' = job
        /\ conn' = conn /\ leftover' = leftover /\ nextId' = nextId
        /\ bufs' = bufs /\ delivered' = delivered
    BY DEF StrayArrives, connVars, senderVars, receiverVars
  <1>2. f \in Strays /\ f \in Fragment /\ wire \in Seq(Fragment)
    BY StraysAssumption DEF BoundInv, TypeOK
  <1>3. (f.stream \in SenderStreams => Harmless(f)) /\ ~ Genuine(f)
    <2>1. f.stream \in SenderStreams => Harmless(f)
      BY <1>2 DEF HarmlessStrays, Harmless
    <2> QED
      BY <1>2, <2>1, HarmlessNotGenuine DEF Genuine
  <1>4. \A i \in DOMAIN wire' :
          \/ i \in DOMAIN wire /\ wire'[i] = wire[i]
          \/ i = Len(wire) + 1 /\ wire'[i] = f
    BY <1>1, <1>2, AppendIndex
  <1>5. \A i \in DOMAIN wire' : Genuine(wire'[i]) =>
          i \in DOMAIN wire /\ wire'[i] = wire[i]
    BY <1>3, <1>4
  <1>6. UnsentInv' /\ IdInv'
    BY <1>1 DEF UnsentInv, Unsent, IdInv, Behind, CurrentMessages, Current,
                Accepted
  <1>7. WireInv'
    <2>1. ASSUME NEW i \in DOMAIN wire', wire'[i].stream \in SenderStreams
          PROVE  (Harmless(wire[i]) \/ \E n \in Messages : SentBy(wire[i], n))'
      <3>1. CASE i \in DOMAIN wire /\ wire'[i] = wire[i]
        <4>1. CASE Harmless(wire[i])
          BY <3>1, <4>1 DEF Harmless
        <4>2. CASE ~ Harmless(wire[i])
          <5>1. PICK n \in Messages : SentBy(wire[i], n)
            BY <2>1, <3>1, <4>2 DEF WireInv
          <5>2. SentBy(wire[i], n)'
            BY <1>1, <3>1, <5>1 DEF SentBy, Current, Accepted
          <5> QED
            BY <5>2
        <4> QED
          BY <4>1, <4>2
      <3>2. CASE wire'[i] = f
        BY <1>3, <2>1, <3>2 DEF Harmless
      <3> QED
        BY <1>4, <3>1, <3>2
    <2>2. ASSUME NEW i \in DOMAIN wire', NEW j \in DOMAIN wire', i < j,
                 Genuine(wire'[i]), Genuine(wire'[j]),
                 wire'[i].stream = wire'[j].stream
          PROVE  wire'[i].seq < wire'[j].seq
      BY <1>5, <2>2 DEF WireInv
    <2> QED
      BY <2>1, <2>2 DEF WireInv
  <1>8. HeldInv'
    <2> SUFFICES ASSUME NEW s \in DOMAIN bufs, s \in SenderStreams,
                        bufs[s].total \in SenderTotals, s \notin leftover
                 PROVE  (\E n \in Messages : ChunksOf(bufs[s], s, n, wire))'
      BY <1>1 DEF HeldInv
    <2>1. PICK n \in Messages : ChunksOf(bufs[s], s, n, wire)
      BY DEF HeldInv
    <2>2. ChunksOf(bufs[s], s, n, wire)'
      BY <1>1, <1>5, <2>1 DEF ChunksOf, Current, Accepted
    <2> QED
      BY <2>2
  <1>9. ReturnedInv'
    <2>1. ASSUME NEW i \in DOMAIN delivered, NEW n \in Messages,
                 ReturnedAs(delivered[i], n, wire)
          PROVE  ReturnedAs(delivered[i], n, wire)'
      BY <1>1, <1>5, <2>1 DEF ReturnedAs, Current, Accepted
    <2> QED
      BY <1>1, <2>1 DEF ReturnedInv
  <1> QED
    BY <1>6, <1>7, <1>8, <1>9

(* After a reconnection no message is current, and every buffer is left    *)
(* over.                                                                   *)
LEMMA ReconnectWhole ==
  ASSUME BoundInv, WholeInv, Reconnect
  PROVE  WholeInv'
  <1> USE DEF WholeInv
  <1>1. /\ wire' = <<>> /\ conn' = conn + 1 /\ conn \in Nat /\ job' = job
        /\ bufs' = bufs /\ delivered' = delivered
        /\ leftover' = leftover \cup DOMAIN bufs
    BY DEF Reconnect, BoundInv, TypeOK
  <1>2. \A m \in Messages : Accepted(m)' <=> Accepted(m)
    BY DEF Reconnect, Accepted, BoundInv, TypeOK
  <1>3. \A m \in Messages : ~ Current(m)'
    <2> SUFFICES ASSUME NEW m \in Messages, Current(m)'
                 PROVE  FALSE
      OBVIOUS
    <2>1. Accepted(m) /\ job[m].conn = conn + 1
      BY <1>1, <1>2 DEF Current
    <2>2. job[m].conn \in Nat /\ job[m].conn <= conn
      BY <2>1, JobFacts
    <2> QED
      BY <1>1, <2>1, <2>2
  <1>4. IdInv'
    BY <1>3 DEF IdInv, CurrentMessages
  <1>5. WireInv'
    BY <1>1 DEF WireInv
  <1>6. HeldInv'
    BY <1>1 DEF HeldInv
  <1>7. UnsentInv'
    BY DEF UnsentInv, Reconnect, Unsent, Received, BoundInv, TypeOK
  <1>8. ReturnedInv'
    <2>1. ASSUME NEW i \in DOMAIN delivered, NEW m \in Messages,
                 ReturnedAs(delivered[i], m, wire)
          PROVE  ReturnedAs(delivered[i], m, wire)'
      BY <1>1, <1>2, <1>3, <2>1 DEF ReturnedAs
    <2> QED
      BY <1>1, <2>1 DEF ReturnedInv
  <1> QED
    BY <1>4, <1>5, <1>6, <1>7, <1>8

-----------------------------------------------------------------------------
(* The receiver's steps.                                                   *)

(* Buffers are dropped, no more.                                           *)
LEMMA DropWhole ==
  ASSUME WholeInv, NEW D \in SUBSET (DOMAIN bufs), bufs' = Restrict(bufs, D),
         UNCHANGED <<connVars, senderVars, wire, delivered>>
  PROVE  WholeInv'
  <1> USE DEF WholeInv, connVars, senderVars
  <1>1. DOMAIN bufs' = D /\ \A s \in D : bufs'[s] = bufs[s] /\ s \in DOMAIN bufs
    BY DEF Restrict
  <1>2. \A m \in Messages : Current(m)' <=> Current(m)
    BY DEF Current, Accepted
  <1>3. UnsentInv' /\ IdInv'
    BY DEF UnsentInv, Unsent, IdInv, Behind, CurrentMessages, Current, Accepted
  <1>4. WireInv'
    BY <1>2 DEF WireInv, SentBy
  <1>5. HeldInv'
    BY <1>1, <1>2 DEF HeldInv, ChunksOf
  <1>6. ReturnedInv'
    BY <1>2 DEF ReturnedInv, ReturnedAs, Accepted
  <1> QED
    BY <1>3, <1>4, <1>5, <1>6

(* A frame is taken off the wire; what it does to the buffers and to what  *)
(* was returned is seen to apart.                                          *)
LEMMA TailWhole ==
  ASSUME BoundInv, WholeInv, wire # <<>>, wire' = Tail(wire),
         UNCHANGED <<connVars, senderVars>>
  PROVE  /\ UnsentInv' /\ IdInv' /\ WireInv'
         /\ \A m \in Messages :
              (Current(m)' <=> Current(m)) /\ (Accepted(m)' <=> Accepted(m))
         /\ \A i \in DOMAIN wire' :
              i \in Int /\ i + 1 \in DOMAIN wire /\ 1 < i + 1
                /\ wire'[i] = wire[i + 1]
         /\ 1 \in DOMAIN wire /\ Head(wire) = wire[1] /\ wire[1] \in Fragment
  <1> USE DEF WholeInv, connVars, senderVars
  <1>1. wire \in Seq(Fragment)
    BY DEF BoundInv, TypeOK
  <1>2. /\ \A i \in DOMAIN wire' :
             i \in Int /\ i + 1 \in DOMAIN wire /\ 1 < i + 1
               /\ wire'[i] = wire[i + 1]
        /\ 1 \in DOMAIN wire /\ Head(wire) = wire[1]
    BY <1>1, TailIndex
  <1>3. \A m \in Messages :
          (Current(m)' <=> Current(m)) /\ (Accepted(m)' <=> Accepted(m))
    BY DEF Current, Accepted
  <1>4. UnsentInv' /\ IdInv'
    BY DEF UnsentInv, Unsent, IdInv, Behind, CurrentMessages, Current, Accepted
  <1>5. WireInv'
    <2>1. ASSUME NEW i \in DOMAIN wire', wire'[i].stream \in SenderStreams
          PROVE  (Harmless(wire[i]) \/ \E n \in Messages : SentBy(wire[i], n))'
      <3>1. i + 1 \in DOMAIN wire /\ wire'[i] = wire[i + 1]
        BY <1>2
      <3>2. CASE Harmless(wire[i + 1])
        BY <3>1, <3>2 DEF Harmless
      <3>3. CASE ~ Harmless(wire[i + 1])
        <4>1. PICK n \in Messages : SentBy(wire[i + 1], n)
          BY <2>1, <3>1, <3>3 DEF WireInv
        <4>2. SentBy(wire[i], n)'
          BY <1>3, <3>1, <4>1 DEF SentBy
        <4> QED
          BY <4>2
      <3> QED
        BY <3>2, <3>3
    <2>2. ASSUME NEW i \in DOMAIN wire', NEW j \in DOMAIN wire', i < j,
                 Genuine(wire'[i]), Genuine(wire'[j]),
                 wire'[i].stream = wire'[j].stream
          PROVE  wire'[i].seq < wire'[j].seq
      <3>1. /\ i + 1 \in DOMAIN wire /\ wire'[i] = wire[i + 1]
            /\ j + 1 \in DOMAIN wire /\ wire'[j] = wire[j + 1]
            /\ i + 1 < j + 1
        BY <1>2, <2>2
      <3> QED
        BY <2>2, <3>1 DEF WireInv
    <2> QED
      BY <2>1, <2>2 DEF WireInv
  <1> QED
    BY <1>1, <1>2, <1>3, <1>4, <1>5 DEF BoundInv, TypeOK

(* All its chunks in order are the message.                                *)
LEMMA JoinedWhole ==
  ASSUME NEW m \in Messages, NEW c \in Nat \ {0}, NEW b,
         b.total = Total(m, c),
         \A k \in 0..(b.total - 1) : b.frags[k] = Chunk(m, c, k)
  PROVE  Reassemble(b) = Payload(m)
  <1> DEFINE n == Total(m, c)
             p == Payload(m)
             s == [i \in 1..n |-> b.frags[i - 1]]
  <1>1. /\ n \in Nat \ {0} /\ p \in Seq(Bytes) /\ Len(p) = Size[m]
        /\ (n - 1) * c < Len(p) \/ n = 1
        /\ Len(p) <= n * c
    BY TotalFacts, PayloadFacts
  <1>2. Reassemble(b) = FlattenSeq(s)
    BY DEF Reassemble
  <1>3. \A i \in 1..n : s[i] = Chunk(m, c, i - 1)
    BY <1>1
  <1> HIDE DEF n, s
  <1>4. \A i \in 1..n : Chunk(m, c, i - 1) \in Seq(Bytes)
    BY <1>1, ChunkFacts
  <1>5. s \in [1..n -> Seq(Bytes)]
    BY <1>3, <1>4 DEF s
  <1>6. \A i \in 1..n :
          s[i] = SubSeq(p, (i - 1) * c + 1, Smaller(i * c, Len(p)))
    <2> SUFFICES ASSUME NEW i \in 1..n
                 PROVE  Chunk(m, c, i - 1)
                          = SubSeq(p, (i - 1) * c + 1, Smaller(i * c, Len(p)))
      BY <1>3
    <2>1. (i - 1) + 1 = i
      BY <1>1
    <2> QED
      BY <1>1, <2>1 DEF Chunk
  <1> HIDE DEF p
  <1>7. FlattenSeq(s) = p
    BY <1>1, <1>5, <1>6, FlattenChunks
  <1> QED
    BY <1>2, <1>7 DEF p

(* The buffer that the fragment at the head of the wire is put into holds, *)
(* with it, chunks of the message it was sent for.                         *)
LEMMA AbsorbedHeld ==
  ASSUME BoundInv, WholeInv, wire # <<>>, NEW f, f = wire[1],
         f.stream \in SenderStreams, f.seq < f.total,
         BufferFor(f).total = f.total
  PROVE  LET b == Absorbed(BufferFor(f), f)
         IN  /\ b.total \notin SenderTotals => 0 \notin DOMAIN b.frags
             /\ b.total \in SenderTotals /\ f.stream \notin leftover =>
                  \E m \in Messages : /\ ChunksOf(b, f.stream, m, Tail(wire))
                                      /\ SentBy(f, m)
  <1> USE DEF WholeInv
  <1> DEFINE o == BufferFor(f)
             b == Absorbed(o, f)
             w == Tail(wire)
  <1>1. wire \in Seq(Fragment)
    BY DEF BoundInv, TypeOK
  <1>2. /\ \A i \in DOMAIN w : i \in Int /\ i + 1 \in DOMAIN wire /\ 1 < i + 1
                                 /\ w[i] = wire[i + 1]
        /\ 1 \in DOMAIN wire
    BY <1>1, TailIndex
  <1>3. f \in Fragment
    BY <1>1, <1>2
  <1>4. AbsorbedFacts(o, f, b)
    BY <1>3, AbsorbFacts
  <1>5. /\ f.stream \in DOMAIN bufs => o = bufs[f.stream]
        /\ f.stream \notin DOMAIN bufs => DOMAIN o.frags = {}
    BY <1>3, BufferForFacts
  <1> HIDE DEF o, b, w
  <1>6. /\ b.total = f.total /\ o.total = f.total
        /\ DOMAIN b.frags = DOMAIN o.frags \cup {f.seq}
        /\ \A k \in DOMAIN o.frags \cup {f.seq} :
             b.frags[k] = IF k = f.seq THEN f.data ELSE o.frags[k]
    BY <1>4 DEF AbsorbedFacts, o
  <1>7. f.total \in Nat /\ f.seq \in Nat
    BY <1>3 DEF Fragment
  <1>8. ASSUME b.total \notin SenderTotals
        PROVE  0 \notin DOMAIN b.frags
    <2>1. ~ Genuine(f)
      BY <1>6, <1>7, <1>8, BoundsAssumption DEF Genuine
    <2>2. Harmless(f)
      BY <1>2, <1>3, <2>1, SentIsGenuine DEF WireInv
    <2>3. f.seq > 0
      BY <1>7, <2>2 DEF Harmless
    <2>4. 0 \notin DOMAIN o.frags
      BY <1>5, <1>6, <1>8 DEF HeldInv
    <2> QED
      BY <1>6, <2>3, <2>4
  <1>9. ASSUME b.total \in SenderTotals, f.stream \notin leftover
        PROVE  \E m \in Messages : ChunksOf(b, f.stream, m, w) /\ SentBy(f, m)
    <2>1. Genuine(f)
      BY <1>6, <1>9 DEF Genuine
    <2>2. PICK m \in Messages : SentBy(f, m)
      BY <1>2, <2>1, GenuineIsSent
    <2>3. /\ Current(m) /\ job[m].stream = f.stream /\ f.seq < job[m].seq
          /\ f.total = Total(m, job[m].chunk)
          /\ f.data = Chunk(m, job[m].chunk, f.seq)
      BY <2>2 DEF SentBy
    <2>4. ASSUME NEW k \in DOMAIN o.frags
          PROVE  /\ o.frags[k] = Chunk(m, job[m].chunk, k) /\ k < job[m].seq
                 /\ \A i \in DOMAIN wire :
                      Genuine(wire[i]) /\ wire[i].stream = f.stream
                        => k < wire[i].seq
      <3>1. f.stream \in DOMAIN bufs /\ o = bufs[f.stream]
        BY <1>5, <2>4
      <3>2. PICK n \in Messages : ChunksOf(o, f.stream, n, wire)
        BY <1>6, <1>9, <3>1 DEF HeldInv
      <3>3. n = m
        BY <2>3, <3>2, OneCurrent DEF ChunksOf
      <3> QED
        BY <3>2, <3>3 DEF ChunksOf
    <2>5. ASSUME NEW i \in DOMAIN w, Genuine(w[i]), w[i].stream = f.stream
          PROVE  f.seq < w[i].seq
      BY <1>2, <2>1, <2>5 DEF WireInv
    <2>6. \A i \in DOMAIN w : i + 1 \in DOMAIN wire /\ w[i] = wire[i + 1]
      BY <1>2
    <2>7. ASSUME NEW k \in DOMAIN b.frags
          PROVE  /\ b.frags[k] = Chunk(m, job[m].chunk, k) /\ k < job[m].seq
                 /\ \A i \in DOMAIN w :
                      Genuine(w[i]) /\ w[i].stream = f.stream => k < w[i].seq
      <3>1. CASE k = f.seq
        BY <1>6, <2>3, <2>5, <3>1
      <3>2. CASE k # f.seq
        <4>1. k \in DOMAIN o.frags /\ b.frags[k] = o.frags[k]
          BY <1>6, <3>2
        <4> QED
          BY <2>4, <2>6, <4>1
      <3> QED
        BY <3>1, <3>2
    <2>8. ChunksOf(b, f.stream, m, w)
      BY <1>6, <2>3, <2>7 DEF ChunksOf
    <2> QED
      BY <2>2, <2>8
  <1> QED
    BY <1>8, <1>9 DEF b, o, w

(* A complete set on a stream of the sender that no reconnection left a    *)
(* buffer on is the message, and was not returned before.                  *)
LEMMA CompleteIsWhole ==
  ASSUME BoundInv, WholeInv, wire # <<>>, NEW f, f = wire[1],
         f.stream \in SenderStreams, f.seq < f.total,
         BufferFor(f).total = f.total,
         IsComplete(Absorbed(BufferFor(f), f)),
         f.stream \notin leftover
  PROVE  \E m \in Messages :
           /\ SentBy(f, m)
           /\ Reassemble(Absorbed(BufferFor(f), f)) = Payload(m)
           /\ job[m].seq = Total(m, job[m].chunk)
           /\ \A i \in DOMAIN Tail(wire) :
                ~ (Genuine(Tail(wire)[i]) /\ Tail(wire)[i].stream = f.stream)
  <1> DEFINE b == Absorbed(BufferFor(f), f)
             w == Tail(wire)
  <1>1. wire \in Seq(Fragment)
    BY DEF BoundInv, TypeOK
  <1>2. /\ \A i \in DOMAIN w : i + 1 \in DOMAIN wire /\ w[i] = wire[i + 1]
        /\ 1 \in DOMAIN wire
    BY <1>1, TailIndex
  <1>3. f \in Fragment
    BY <1>1, <1>2
  <1>4. GoodBuffer(b) /\ IsComplete(b) /\ b.total = f.total
    BY <1>3, AbsorbFacts DEF AbsorbedFacts
  <1>5. DOMAIN b.frags = 0..(b.total - 1)
    BY <1>4, CompleteFacts
  <1>6. /\ b.total \notin SenderTotals => 0 \notin DOMAIN b.frags
        /\ b.total \in SenderTotals /\ f.stream \notin leftover =>
             \E m \in Messages : ChunksOf(b, f.stream, m, w) /\ SentBy(f, m)
    BY AbsorbedHeld
  <1> HIDE DEF b, w
  <1>7. f.total \in Nat /\ f.seq \in Nat
    BY <1>3 DEF Fragment
  <1>8. b.total \in SenderTotals
    BY <1>4, <1>5, <1>6, <1>7, BoundsAssumption
  <1>9. PICK m \in Messages : ChunksOf(b, f.stream, m, w) /\ SentBy(f, m)
    BY <1>6, <1>8
  <1>10. /\ Current(m) /\ Accepted(m) /\ job[m].stream = f.stream
         /\ b.total = Total(m, job[m].chunk)
         /\ \A k \in DOMAIN b.frags :
              /\ b.frags[k] = Chunk(m, job[m].chunk, k) /\ k < job[m].seq
              /\ \A i \in DOMAIN w :
                   Genuine(w[i]) /\ w[i].stream = f.stream => k < w[i].seq
    BY <1>9 DEF ChunksOf, Current
  <1>11. /\ job[m].chunk \in Nat \ {0} /\ job[m].seq \in Nat
         /\ Total(m, job[m].chunk) \in Nat \ {0}
         /\ job[m].seq <= Total(m, job[m].chunk)
    BY <1>10, JobFacts
  <1>12. b.total - 1 \in DOMAIN b.frags
    BY <1>4, <1>5, <1>7
  <1>13. job[m].seq = Total(m, job[m].chunk)
    BY <1>10, <1>11, <1>12
  <1>14. Reassemble(b) = Payload(m)
    <2>1. \A k \in 0..(b.total - 1) : b.frags[k] = Chunk(m, job[m].chunk, k)
      BY <1>5, <1>10
    <2> QED
      BY <1>10, <1>11, <2>1, JoinedWhole
  <1>15. ASSUME NEW i \in DOMAIN w, Genuine(w[i]), w[i].stream = f.stream
         PROVE  FALSE
    <2>1. PICK j \in DOMAIN wire : w[i] = wire[j]
      BY <1>2
    <2>2. w[i] \in Fragment /\ \E n \in Messages : SentBy(w[i], n)
      BY <1>15, <2>1, GenuineIsSent DEF WholeInv
    <2>3. PICK n \in Messages : SentBy(w[i], n)
      BY <2>2
    <2>4. n = m
      BY <1>10, <1>15, <2>3, OneCurrent DEF SentBy, WholeInv
    <2>5. w[i].total = b.total
      BY <1>10, <2>3, <2>4 DEF SentBy
    <2>6. w[i].seq \in Nat /\ w[i].seq < b.total /\ b.total - 1 < w[i].seq
      BY <1>10, <1>12, <1>15, <2>2, <2>5 DEF Genuine, Fragment
    <2> QED
      BY <1>4, <1>7, <2>6
  <1> QED
    BY <1>9, <1>13, <1>14, <1>15 DEF b, w

(* A fragment is read.                                                     *)
LEMMA ReadWhole ==
  ASSUME BoundInv, WholeInv, ReadFragment
  PROVE  WholeInv'
  <1> DEFINE f == wire[1]
             b == Absorbed(BufferFor(f), f)
             w == Tail(wire)
  <1>1. /\ wire # <<>> /\ wire' = w /\ conn' = conn /\ leftover' = leftover
        /\ job' = job /\ task' = task
        /\ UNCHANGED <<connVars, senderVars>>
    BY DEF ReadFragment, connVars, senderVars
  <1>2. /\ UnsentInv' /\ IdInv' /\ WireInv'
        /\ \A m \in Messages :
             (Current(m)' <=> Current(m)) /\ (Accepted(m)' <=> Accepted(m))
        /\ \A i \in DOMAIN wire' :
             i \in Int /\ i + 1 \in DOMAIN wire /\ 1 < i + 1
               /\ wire'[i] = wire[i + 1]
        /\ 1 \in DOMAIN wire /\ Head(wire) = f /\ f \in Fragment
    BY <1>1, TailWhole
  <1>3. AbsorbFails(f) \/ AbsorbSucceeds(f)
    BY <1>2 DEF ReadFragment
  <1>4. \A s : \A c : \A m \in Messages :
          ChunksOf(c, s, m, wire) => ChunksOf(c, s, m, wire')
    BY <1>2 DEF ChunksOf
  <1> HIDE DEF b, w, f
  <1>5. ASSUME NEW s \in DOMAIN bufs', s \in DOMAIN bufs, bufs'[s] = bufs[s],
               s \in SenderStreams
        PROVE  /\ bufs'[s].total \notin SenderTotals
                    => 0 \notin DOMAIN bufs'[s].frags
               /\ bufs'[s].total \in SenderTotals /\ s \notin leftover =>
                    \E m \in Messages : ChunksOf(bufs'[s], s, m, wire')
    BY <1>4, <1>5 DEF WholeInv, HeldInv
  <1>6. ASSUME NEW i \in DOMAIN delivered,
               delivered[i].stream \in SenderStreams \ leftover
        PROVE  \E m \in Messages :
                 /\ ReturnedAs(delivered[i], m, wire)
                 /\ ReturnedAs(delivered[i], m, wire')
    <2>1. PICK m \in Messages : ReturnedAs(delivered[i], m, wire)
      BY <1>6 DEF WholeInv, ReturnedInv
    <2>2. ReturnedAs(delivered[i], m, wire')
      BY <1>2, <2>1 DEF ReturnedAs
    <2> QED
      BY <2>1, <2>2
  <1>7. HeldInv'
    <2> SUFFICES ASSUME NEW s \in DOMAIN bufs', s \in SenderStreams
                 PROVE  /\ bufs'[s].total \notin SenderTotals
                             => 0 \notin DOMAIN bufs'[s].frags
                        /\ bufs'[s].total \in SenderTotals /\ s \notin leftover =>
                             \E m \in Messages : ChunksOf(bufs'[s], s, m, wire')
      BY <1>1, <1>2 DEF HeldInv, ChunksOf
    <2>1. CASE s \in DOMAIN bufs /\ bufs'[s] = bufs[s]
      BY <1>5, <2>1
    <2>2. CASE ~ (s \in DOMAIN bufs /\ bufs'[s] = bufs[s])
      <3>1. ~ AbsorbFails(f)
        BY <2>2 DEF AbsorbFails, Raise, RaiseDropping, Restrict
      <3>2. AbsorbSucceeds(f)
        BY <1>3, <3>1
      <3>3. f.seq < f.total /\ BufferFor(f).total = f.total
        BY <3>2 DEF AbsorbSucceeds
      <3>4. ~ IsComplete(b)
        BY <2>2, <3>2 DEF AbsorbSucceeds, Restrict, b
      <3> DEFINE g == [t \in DOMAIN bufs \cup {f.stream} |->
                         IF t = f.stream THEN b ELSE bufs[t]]
      <3>5. bufs' = Restrict(g, DOMAIN g \ Stale(g))
        BY <3>2, <3>4 DEF AbsorbSucceeds, PruneAndRead, b
      <3>6. DOMAIN g = DOMAIN bufs \cup {f.stream}
            /\ \A t \in DOMAIN bufs \cup {f.stream} :
                 g[t] = IF t = f.stream THEN b ELSE bufs[t]
        OBVIOUS
      <3> HIDE DEF g
      <3>7. s \in DOMAIN g /\ bufs'[s] = g[s]
        BY <3>5 DEF Restrict
      <3>8. s = f.stream /\ bufs'[s] = b
        BY <2>2, <3>6, <3>7
      <3>9. /\ b.total \notin SenderTotals => 0 \notin DOMAIN b.frags
            /\ b.total \in SenderTotals /\ f.stream \notin leftover =>
                 \E m \in Messages : ChunksOf(b, f.stream, m, w) /\ SentBy(f, m)
        BY <1>1, <3>3, <3>8, AbsorbedHeld DEF b, w, f
      <3> QED
        BY <1>1, <3>8, <3>9
    <2> QED
      BY <2>1, <2>2
  <1>8. ReturnedInv'
    <2> SUFFICES
          ASSUME NEW i \in DOMAIN delivered',
                 delivered'[i].stream \in SenderStreams \ leftover
          PROVE  /\ \E m \in Messages : ReturnedAs(delivered'[i], m, wire')
                 /\ \A j \in DOMAIN delivered' :
                      delivered'[i].payload # <<>>
                        /\ delivered'[i] = delivered'[j] => i = j
      BY <1>1, <1>2 DEF ReturnedInv, ReturnedAs
    <2>1. CASE delivered' = delivered
      <3>1. i \in DOMAIN delivered /\ delivered'[i] = delivered[i]
        BY <2>1
      <3>2. \E m \in Messages : ReturnedAs(delivered'[i], m, wire')
        BY <1>6, <3>1
      <3> QED
        BY <2>1, <3>2 DEF WholeInv, ReturnedInv
    <2>2. CASE delivered' # delivered
      <3> DEFINE d == [stream |-> f.stream, payload |-> Reassemble(b)]
      <3>1. AbsorbSucceeds(f)
        BY <1>3, <2>2 DEF AbsorbFails, Raise, RaiseDropping
      <3>2. /\ f.seq < f.total /\ BufferFor(f).total = f.total /\ IsComplete(b)
            /\ delivered' = Append(delivered, d)
        BY <2>2, <3>1 DEF AbsorbSucceeds, PruneAndRead, b
      <3>3. delivered \in Seq([stream : Nat, payload : Seq(Bytes)])
        BY DEF BoundInv, TypeOK
      <3>4. d \in [stream : Nat, payload : Seq(Bytes)]
        <4>1. GoodBuffer(b)
          BY <1>2, <3>2, AbsorbFacts DEF b
        <4> QED
          BY <1>2, <3>2, <4>1, CompleteFacts DEF Fragment
      <3>5. d.stream = f.stream /\ d.payload = Reassemble(b)
        OBVIOUS
      <3> HIDE DEF d
      <3>6. /\ \A j \in DOMAIN delivered' :
                 \/ j \in DOMAIN delivered /\ delivered'[j] = delivered[j]
                 \/ j = Len(delivered) + 1 /\ delivered'[j] = d
        BY <3>2, <3>3, <3>4, AppendIndex
      <3>7. ASSUME f.stream \in SenderStreams \ leftover
            PROVE  \E m \in Messages :
                     /\ SentBy(f, m) /\ Reassemble(b) = Payload(m)
                     /\ job[m].seq = Total(m, job[m].chunk)
                     /\ \A j \in DOMAIN w :
                          ~ (Genuine(w[j]) /\ w[j].stream = f.stream)
        BY <1>1, <3>2, <3>7, CompleteIsWhole DEF b, w, f
      <3>8. ASSUME NEW j \in DOMAIN delivered, delivered[j] = d,
                   f.stream \in SenderStreams \ leftover, d.payload # <<>>
            PROVE  FALSE
        <4>1. PICK m \in Messages : SentBy(f, m) /\ Reassemble(b) = Payload(m)
          BY <3>7, <3>8
        <4>2. PICK n \in Messages : ReturnedAs(delivered[j], n, wire)
          BY <1>6, <3>5, <3>8
        <4>3. Payload(n) = Payload(m) /\ Payload(m) # <<>>
          BY <3>5, <3>8, <4>1, <4>2 DEF ReturnedAs
        <4>4. n = m
          <5>1. Size[m] \in Nat /\ Len(Payload(m)) = Size[m]
                /\ Payload(m) \in Seq(Bytes)
                /\ Len(Payload(n)) = Size[n]
            BY PayloadFacts
          <5>2. 1 \in 1..Size[m] /\ 1 \in 1..Size[n]
            BY <4>3, <5>1, EmptySeq
          <5>3. Payload(m)[1] = <<m, 1>> /\ Payload(n)[1] = <<n, 1>>
            BY <5>2, PayloadFacts
          <5> QED
            BY <4>3, <5>3
        <4>5. Current(m)
          BY <4>1 DEF SentBy
        <4>6. ~ (Genuine(wire[1]) /\ wire[1].stream = d.stream)
          BY <1>2, <3>8, <4>2, <4>4, <4>5 DEF ReturnedAs
        <4>7. Genuine(f)
          BY <1>2, <3>8, <4>1, SentIsGenuine
        <4> QED
          BY <3>5, <4>6, <4>7 DEF f
      <3>9. CASE i \in DOMAIN delivered /\ delivered'[i] = delivered[i]
        <4>1. \E m \in Messages : ReturnedAs(delivered'[i], m, wire')
          BY <1>6, <3>9
        <4>2. ASSUME NEW j \in DOMAIN delivered', delivered'[i].payload # <<>>,
                     delivered'[i] = delivered'[j]
              PROVE  i = j
          <5>1. CASE j \in DOMAIN delivered /\ delivered'[j] = delivered[j]
            BY <3>9, <4>2, <5>1 DEF WholeInv, ReturnedInv
          <5>2. CASE delivered'[j] = d
            BY <3>5, <3>8, <3>9, <4>2, <5>2
          <5> QED
            BY <3>6, <5>1, <5>2
        <4> QED
          BY <4>1, <4>2
      <3>10. CASE i = Len(delivered) + 1 /\ delivered'[i] = d
        <4>1. PICK m \in Messages :
                /\ SentBy(f, m) /\ Reassemble(b) = Payload(m)
                /\ job[m].seq = Total(m, job[m].chunk)
                /\ \A j \in DOMAIN w :
                     ~ (Genuine(w[j]) /\ w[j].stream = f.stream)
          BY <3>5, <3>7, <3>10
        <4>2. ReturnedAs(delivered'[i], m, wire')
          BY <1>1, <3>5, <3>10, <4>1 DEF ReturnedAs, SentBy, Current
        <4>3. ASSUME NEW j \in DOMAIN delivered', delivered'[i].payload # <<>>,
                     delivered'[i] = delivered'[j]
              PROVE  i = j
          <5>1. CASE j \in DOMAIN delivered /\ delivered'[j] = delivered[j]
            BY <3>5, <3>8, <3>10, <4>3, <5>1
          <5> QED
            BY <3>6, <3>10, <5>1
        <4> QED
          BY <4>2, <4>3
      <3> QED
        BY <3>6, <3>9, <3>10
    <2> QED
      BY <2>1, <2>2
  <1> QED
    BY <1>2, <1>7, <1>8 DEF WholeInv

LEMMA WholeStep ==
  ASSUME HarmlessStrays, BoundInv, WholeInv, [Next]_vars
  PROVE  WholeInv'
  <1> USE DEF connVars, senderVars, receiverVars
  <1>1. ASSUME NEW m \in Messages, NEW c \in ChunkSizes, Refuse(m, c)
        PROVE  WholeInv'
    <2>1. \A n \in Messages : /\ Accepted(n)' <=> Accepted(n)
                              /\ Unsent(n)' => Unsent(n)
      BY <1>1 DEF Refuse, Accepted, Unsent, BoundInv, TypeOK
    <2> QED
      BY <1>1, <2>1, WholeKept DEF Refuse
  <1>2. ASSUME NEW m \in Messages, NEW c \in ChunkSizes, Accept(m, c)
        PROVE  WholeInv'
    BY <1>2, AcceptWhole
  <1>3. ASSUME NEW m \in Messages, WriteNext(m)
        PROVE  WholeInv'
    BY <1>3, WriteWhole
  <1>4. ASSUME NEW m \in Messages, CancelSend(m)
        PROVE  WholeInv'
    <2>1. \A n \in Messages : /\ Accepted(n)' <=> Accepted(n)
                              /\ Unsent(n)' => Unsent(n)
      BY <1>4 DEF CancelSend, Accepted, Unsent, BoundInv, TypeOK
    <2> QED
      BY <1>4, <2>1, WholeKept DEF CancelSend
  <1>5. ASSUME NEW f \in strays, StrayArrives(f)
        PROVE  WholeInv'
    BY <1>5, StrayWhole
  <1>6. CASE CallRecv
    BY <1>6, DropWhole DEF CallRecv, PruneAndRead
  <1>7. CASE CancelRecv \/ Tick \/ UNCHANGED vars
    <2>1. /\ \A n \in Messages : Accepted(n)' <=> Accepted(n)
          /\ \A n \in Messages : Unsent(n)' => Unsent(n)
          /\ UNCHANGED <<connVars, nextId, job, wire, bufs, delivered>>
      BY <1>7 DEF CancelRecv, Tick, vars, Accepted, Unsent
    <2> QED
      BY <2>1, WholeKept
  <1>8. CASE ReadFragment
    BY <1>8, ReadWhole
  <1>9. CASE Reconnect
    BY <1>9, ReconnectWhole
  <1> QED
    BY <1>1, <1>2, <1>3, <1>4, <1>5, <1>6, <1>7, <1>8, <1>9 DEF Next

(* The inductive invariant of the whole messages: the calls of             *)
(* send_fragmented on one connection have streams of their own, and each   *)
(* buffer of recv_frame holds chunks of one of them.                       *)
THEOREM WholeInvariance ==
  ASSUME HarmlessStrays
  PROVE  Spec => []WholeInv
  <1>1. BoundInv /\ WholeInv /\ [Next]_vars => WholeInv'
    BY WholeStep
  <1> QED
    BY <1>1, WholeInit, BoundInvariance, PTL DEF Spec

(* What recv_frame returns on the sender's streams are whole messages,     *)
(* each once, however the fragments of several send_fragmented calls       *)
(* interleave and break off, over reconnections and whatever harmless      *)
(* strays arrive; only a stream with a buffer left over from an earlier    *)
(* connection is excepted.                                                 *)
THEOREM MessagesIntact ==
  ASSUME HarmlessStrays
  PROVE  Spec => []Intact
  <1>1. WholeInv => Intact
    <2> SUFFICES ASSUME WholeInv, NEW s \in SenderStreams \ leftover
                 PROVE  /\ WholeOn(s)
                        /\ \A i, j \in DOMAIN delivered :
                             /\ delivered[i].stream = s
                             /\ delivered[i].payload # <<>>
                             /\ delivered[i] = delivered[j]
                             => i = j
      BY DEF Intact
    <2>1. \A i \in DOMAIN delivered : delivered[i].stream = s =>
            \E m \in Messages : ReturnedAs(delivered[i], m, wire)
      BY DEF WholeInv, ReturnedInv
    <2>2. WholeOn(s)
      BY <2>1 DEF WholeOn, ReturnedAs, Accepted
    <2> QED
      BY <2>2 DEF WholeInv, ReturnedInv
  <1> QED
    BY <1>1, WholeInvariance, PTL

-----------------------------------------------------------------------------
(* No message lost in silence.  On a stream of which nothing was dropped   *)
(* the fragments of a message that was not returned are all there: the     *)
(* first r of them in the buffer, the rest in transit.                     *)

Returned(m) == \E i \in DOMAIN delivered : delivered[i].payload = Payload(m)

(* m was returned, and all of it was received.                             *)
Done(m, w) ==
  /\ Returned(m)
  /\ Current(m) =>
       /\ job[m].seq = Total(m, job[m].chunk)
       /\ \A i \in DOMAIN w : ~ (Genuine(w[i]) /\ w[i].stream = job[m].stream)

(* What w holds of m is the fragments from r on.                           *)
TransitFrom(m, r, w) ==
  /\ \A i \in DOMAIN w :
       Genuine(w[i]) /\ w[i].stream = job[m].stream => w[i].seq >= r
  /\ \A k \in r..(job[m].seq - 1) : \E i \in DOMAIN w :
       Genuine(w[i]) /\ w[i].stream = job[m].stream /\ w[i].seq = k

(* Buffer b holds the fragments of m up to r.                              *)
HeldUpTo(m, r, b) ==
  /\ b.total = Total(m, job[m].chunk)
  /\ \A k \in 0..(r - 1) :
       k \in DOMAIN b.frags /\ b.frags[k] = Chunk(m, job[m].chunk, k)

Arrived(m, r, w) ==
  /\ Current(m) /\ TransitFrom(m, r, w)
  /\ r > 0 => /\ job[m].stream \in DOMAIN bufs
              /\ HeldUpTo(m, r, bufs[job[m].stream])

ArrivedInv ==
  \A m \in Messages : Accepted(m) /\ job[m].stream \notin discarded =>
    \/ Done(m, wire)
    \/ \E r \in 0..job[m].seq : Arrived(m, r, wire)
    \/ job[m].conn < conn /\ task[m] # "sending"

(* The set that a buffer holds is a prefix, and never complete.            *)
HoldsPrefix(b) == \E n \in Nat : n < b.total /\ DOMAIN b.frags = 0..(n - 1)

PrefixInv ==
  \A s \in DOMAIN bufs :
    s \in SenderStreams \ discarded /\ bufs[s].total \in SenderTotals
      => HoldsPrefix(bufs[s])

LossInv == ArrivedInv /\ PrefixInv

(* m is complete in no buffer.                                             *)
LEMMA NeverAllHeld ==
  ASSUME BoundInv, PrefixInv, NEW m \in Messages, Current(m),
         job[m].stream \notin discarded, job[m].stream \in DOMAIN bufs
  PROVE  ~ HeldUpTo(m, Total(m, job[m].chunk), bufs[job[m].stream])
  <1> SUFFICES ASSUME HeldUpTo(m, Total(m, job[m].chunk), bufs[job[m].stream])
               PROVE  FALSE
    OBVIOUS
  <1> DEFINE b == bufs[job[m].stream]
             t == Total(m, job[m].chunk)
  <1>1. t \in Nat \ {0} /\ t \in SenderTotals /\ job[m].stream \in SenderStreams
    BY JobFacts DEF Current
  <1>2. b.total = t /\ \A k \in 0..(t - 1) : k \in DOMAIN b.frags
    BY DEF HeldUpTo
  <1>3. HoldsPrefix(b)
    BY <1>1, <1>2 DEF PrefixInv
  <1> HIDE DEF b, t
  <1>4. PICK n \in Nat : n < b.total /\ DOMAIN b.frags = 0..(n - 1)
    BY <1>3 DEF HoldsPrefix
  <1>5. t - 1 \in 0..(n - 1)
    BY <1>1, <1>2, <1>4
  <1> QED
    BY <1>1, <1>2, <1>4, <1>5

(* A message all of whose fragments are read was returned.                 *)
LEMMA ReceivedIsDone ==
  ASSUME BoundInv, LossInv, NEW m \in Messages, Received(m),
         job[m].stream \notin discarded
  PROVE  Done(m, wire)
  <1>1. Accepted(m) /\ task[m] = "sending"
        /\ ~ (job[m].seq < Total(m, job[m].chunk))
    BY DEF Received, Unsent, Accepted
  <1>2. /\ job[m].seq \in Nat /\ Total(m, job[m].chunk) \in Nat \ {0}
        /\ job[m].seq <= Total(m, job[m].chunk)
    BY <1>1, JobFacts
  <1>3. ASSUME NEW r \in 0..job[m].seq, Arrived(m, r, wire)
        PROVE  FALSE
    <2>1. r = job[m].seq
      <3>1. ~ (r \in r..(job[m].seq - 1))
        BY <1>3 DEF Received, Arrived, TransitFrom
      <3> QED
        BY <1>2, <3>1
    <2>2. r = Total(m, job[m].chunk) /\ r > 0
      BY <1>1, <1>2, <2>1
    <2> QED
      BY <1>3, <2>2, NeverAllHeld DEF Arrived, LossInv
  <1> QED
    BY <1>1, <1>3 DEF LossInv, ArrivedInv

-----------------------------------------------------------------------------
(* Steps that leave the jobs, the buffers and what is genuine in transit.  *)
LEMMA LossKept ==
  ASSUME BoundInv, LossInv,
         \A m \in Messages : Accepted(m)' <=> Accepted(m),
         \A m \in Messages : task'[m] = "sending" => task[m] = "sending",
         UNCHANGED <<connVars, job, wire, bufs, delivered, discarded>>
  PROVE  LossInv'
  <1> USE DEF connVars, LossInv
  <1>1. \A m \in Messages : Current(m)' <=> Current(m)
    BY DEF Current
  <1>2. PrefixInv'
    BY DEF PrefixInv, HoldsPrefix
  <1>3. ASSUME NEW m \in Messages, Accepted(m)', job[m].stream \notin discarded
        PROVE  (\/ Done(m, wire)
                \/ \E r \in 0..job[m].seq : Arrived(m, r, wire)
                \/ job[m].conn < conn /\ task[m] # "sending")'
    <2>1. CASE Done(m, wire)
      BY <1>1, <2>1 DEF Done, Returned
    <2>2. CASE \E r \in 0..job[m].seq : Arrived(m, r, wire)
      BY <1>1, <2>2 DEF Arrived, TransitFrom, HeldUpTo
    <2>3. CASE job[m].conn < conn /\ task[m] # "sending"
      BY <2>3
    <2> QED
      BY <1>3, <2>1, <2>2, <2>3 DEF ArrivedInv
  <1>4. ArrivedInv'
    BY <1>3 DEF ArrivedInv
  <1> QED
    BY <1>2, <1>4

LEMMA LossInit == Init => LossInv
  BY DEF Init, LossInv, ArrivedInv, PrefixInv, Accepted, NoBuffers

LEMMA AcceptLoss ==
  ASSUME BoundInv, WholeInv, LossInv, NEW m \in Messages, NEW c \in ChunkSizes,
         Accept(m, c)
  PROVE  LossInv'
  <1> USE DEF LossInv
  <1>1. /\ wire' = wire /\ bufs' = bufs /\ delivered' = delivered
        /\ conn' = conn /\ discarded' = discarded
    BY DEF Accept, connVars, receiverVars
  <1>2. \A n \in Messages : n # m =>
          /\ job'[n] = job[n] /\ task'[n] = task[n]
          /\ (Accepted(n)' <=> Accepted(n)) /\ (Current(n)' <=> Current(n))
    BY <1>1 DEF Accept, Accepted, Current, BoundInv, TypeOK
  <1>3. Current(m)' /\ job'[m].seq = 0 /\ ~ Accepted(m)
    BY <1>1 DEF Accept, Accepted, Current, BoundInv, TypeOK
  <1>4. PrefixInv'
    BY <1>1 DEF PrefixInv, HoldsPrefix
  <1>5. ASSUME NEW n \in Messages, Accepted(n)', job'[n].stream \notin discarded,
               n # m
        PROVE  (\/ Done(n, wire)
                \/ \E r \in 0..job[n].seq : Arrived(n, r, wire)
                \/ job[n].conn < conn /\ task[n] # "sending")'
    <2>0. Accepted(n) /\ job'[n] = job[n] /\ task'[n] = task[n]
          /\ (Current(n)' <=> Current(n))
      BY <1>2, <1>5
    <2>1. CASE Done(n, wire)
      BY <1>1, <2>0, <2>1 DEF Done, Returned
    <2>2. CASE \E r \in 0..job[n].seq : Arrived(n, r, wire)
      BY <1>1, <2>0, <2>2 DEF Arrived, TransitFrom, HeldUpTo
    <2>3. CASE job[n].conn < conn /\ task[n] # "sending"
      BY <1>1, <2>0, <2>3
    <2> QED
      BY <1>5, <2>0, <2>1, <2>2, <2>3 DEF ArrivedInv
  <1>6. Arrived(m, 0, wire)'
    <2>1. ASSUME NEW i \in DOMAIN wire, Genuine(wire[i]),
                 wire[i].stream = job'[m].stream
          PROVE  FALSE
      <3>1. PICK n \in Messages : SentBy(wire[i], n)
        BY <2>1, GenuineIsSent DEF WholeInv
      <3>2. Current(n) /\ Accepted(n) /\ job[n].stream = job'[m].stream
        BY <2>1, <3>1 DEF SentBy, Current
      <3>3. n # m /\ Current(n)' /\ job'[n].stream = job'[m].stream
        BY <1>2, <1>3, <3>2
      <3>4. n \in CurrentMessages' /\ m \in CurrentMessages'
        BY <1>3, <3>3 DEF CurrentMessages
      <3>5. IdInv'
        BY AcceptIds DEF WholeInv
      <3> QED
        BY <3>3, <3>4, <3>5 DEF IdInv
    <2>2. ~ (0 > 0) /\ 0..(0 - 1) = {}
      OBVIOUS
    <2> QED
      BY <1>1, <1>3, <2>1, <2>2 DEF Arrived, TransitFrom
  <1>7. ArrivedInv'
    <2>1. (\E r \in 0..job[m].seq : Arrived(m, r, wire))'
      <3>1. 0 \in 0..job'[m].seq
        BY <1>3
      <3> QED
        BY <1>6, <3>1
    <2>2. ASSUME NEW n \in Messages, Accepted(n)',
                 job'[n].stream \notin discarded'
          PROVE  (\/ Done(n, wire)
                  \/ \E r \in 0..job[n].seq : Arrived(n, r, wire)
                  \/ job[n].conn < conn /\ task[n] # "sending")'
      <3>1. CASE n = m
        BY <2>1, <3>1
      <3>2. CASE n # m
        BY <1>1, <1>5, <2>2, <3>2
      <3> QED
        BY <3>1, <3>2
    <2> QED
      BY <2>2 DEF ArrivedInv
  <1> QED
    BY <1>4, <1>7

LEMMA WriteLoss ==
  ASSUME BoundInv, WholeInv, LossInv, NEW m \in Messages, WriteNext(m)
  PROVE  LossInv'
  <1> USE DEF LossInv
  <1> DEFINE f == FragmentOf(m, job[m].chunk, job[m].seq, job[m].stream)
  <1>1. CASE UNCHANGED <<wire, job>>
    <2>1. task' = task \/ task' = [task EXCEPT ![m] = "broken"]
      BY DEF WriteNext
    <2>2. \A n \in Messages : /\ Accepted(n)' <=> Accepted(n)
                              /\ task'[n] = "sending" => task[n] = "sending"
      BY <1>1, <2>1 DEF WriteNext, Unsent, Accepted, BoundInv, TypeOK
    <2> QED
      BY <1>1, <2>2, LossKept DEF WriteNext, connVars, receiverVars
  <1>2. CASE ~ UNCHANGED <<wire, job>>
    <2>1. /\ wire' = Append(wire, f) /\ task' = task
          /\ job' = [job EXCEPT ![m].seq = @ + 1]
          /\ conn' = conn /\ bufs' = bufs /\ delivered' = delivered
          /\ discarded' = discarded
      BY <1>2 DEF WriteNext, connVars, receiverVars
    <2>2. Accepted(m) /\ Current(m) /\ job[m].seq < Total(m, job[m].chunk)
      BY DEF WriteNext, Unsent, Accepted, UnsentInv, WholeInv
    <2>3. /\ job[m].chunk \in Nat \ {0} /\ job[m].seq \in Nat
          /\ Total(m, job[m].chunk) \in Nat
          /\ Total(m, job[m].chunk) \in SenderTotals
          /\ job[m].stream \in Nat /\ job[m].stream \in SenderStreams
          /\ job[m].conn = conn
      BY <2>2, JobFacts DEF Current
    <2>4. f \in Fragment /\ wire \in Seq(Fragment)
      BY <2>3, FragmentType DEF BoundInv, TypeOK
    <2>5. /\ f.stream = job[m].stream /\ f.seq = job[m].seq
          /\ f.total = Total(m, job[m].chunk)
      BY DEF FragmentOf
    <2> HIDE DEF f
    <2>6. /\ job'[m].stream = job[m].stream /\ job'[m].chunk = job[m].chunk
          /\ job'[m].conn = job[m].conn /\ job'[m].seq = job[m].seq + 1
          /\ \A n \in Messages : n # m => job'[n] = job[n]
      <3>1. /\ job'[m] = [job[m] EXCEPT !.seq = @ + 1]
            /\ \A n \in Messages : n # m => job'[n] = job[n]
        BY <2>1 DEF BoundInv, TypeOK
      <3>2. job[m] \in [stream : 0..(IdSpace - 1), chunk : Int, seq : Nat,
                        conn : Nat]
        BY DEF BoundInv, TypeOK
      <3> QED
        BY <3>1, <3>2
    <2>7. \A n \in Messages :
            /\ Accepted(n)' <=> Accepted(n)
            /\ Current(n)' <=> Current(n)
            /\ job'[n].stream = job[n].stream /\ job'[n].chunk = job[n].chunk
            /\ job'[n].conn = job[n].conn
      BY <2>1, <2>6 DEF Accepted, Current
    <2>8. /\ \A i \in DOMAIN wire' :
               \/ i \in DOMAIN wire /\ wire'[i] = wire[i]
               \/ i = Len(wire) + 1 /\ wire'[i] = f
          /\ \A i \in DOMAIN wire : i \in DOMAIN wire' /\ wire'[i] = wire[i]
          /\ Len(wire) + 1 \in DOMAIN wire' /\ wire'[Len(wire) + 1] = f
      BY <2>1, <2>4, AppendIndex
    <2>9. Genuine(f)
      BY <2>2, <2>3, <2>5 DEF Genuine
    <2>10. PrefixInv'
      BY <2>1 DEF PrefixInv, HoldsPrefix
    <2>11. ASSUME NEW n \in Messages, Accepted(n)',
                  job'[n].stream \notin discarded
           PROVE  (\/ Done(n, wire)
                   \/ \E r \in 0..job[n].seq : Arrived(n, r, wire)
                   \/ job[n].conn < conn /\ task[n] # "sending")'
      <3>1. /\ Accepted(n) /\ job[n].stream \notin discarded
            /\ (Current(n)' <=> Current(n))
            /\ job'[n].stream = job[n].stream /\ job'[n].chunk = job[n].chunk
            /\ job'[n].conn = job[n].conn
        BY <2>7, <2>11
      <3>2. CASE n = m
        <4>1. ~ Done(m, wire)
          BY <2>2, <2>3 DEF Done
        <4>a. ~ (job[m].conn < conn)
          BY <2>3 DEF BoundInv, TypeOK
        <4>2. PICK r \in 0..job[m].seq : Arrived(m, r, wire)
          BY <3>1, <3>2, <4>1, <4>a DEF ArrivedInv
        <4>3. r \in 0..job'[m].seq /\ r <= job[m].seq
          BY <2>3, <2>6
        <4>4. /\ \A i \in DOMAIN wire' :
                   Genuine(wire'[i]) /\ wire'[i].stream = job'[m].stream
                     => wire'[i].seq >= r
              /\ \A k \in r..(job'[m].seq - 1) : \E i \in DOMAIN wire' :
                   /\ Genuine(wire'[i]) /\ wire'[i].stream = job'[m].stream
                   /\ wire'[i].seq = k
          <5>1. /\ \A i \in DOMAIN wire :
                     Genuine(wire[i]) /\ wire[i].stream = job[m].stream
                       => wire[i].seq >= r
                /\ \A k \in r..(job[m].seq - 1) : \E i \in DOMAIN wire :
                     /\ Genuine(wire[i]) /\ wire[i].stream = job[m].stream
                     /\ wire[i].seq = k
            BY <4>2 DEF Arrived, TransitFrom
          <5>2. ASSUME NEW i \in DOMAIN wire', Genuine(wire'[i]),
                       wire'[i].stream = job'[m].stream
                PROVE  wire'[i].seq >= r
            BY <2>3, <2>5, <2>6, <2>8, <4>3, <5>1, <5>2
          <5>3. ASSUME NEW k \in r..(job'[m].seq - 1)
                PROVE  \E i \in DOMAIN wire' :
                         /\ Genuine(wire'[i]) /\ wire'[i].stream = job'[m].stream
                         /\ wire'[i].seq = k
            <6>1. CASE k = job[m].seq
              <7>1. /\ Genuine(wire'[Len(wire) + 1])
                    /\ wire'[Len(wire) + 1].stream = job'[m].stream
                    /\ wire'[Len(wire) + 1].seq = k
                BY <2>5, <2>6, <2>8, <2>9, <6>1
              <7> QED
                BY <2>8, <7>1
            <6>2. CASE k # job[m].seq
              <7>1. k \in r..(job[m].seq - 1)
                BY <2>3, <2>6, <6>2
              <7> QED
                BY <2>6, <2>8, <5>1, <7>1
            <6> QED
              BY <6>1, <6>2
          <5> QED
            BY <5>2, <5>3
        <4>5. r > 0 => /\ job[m].stream \in DOMAIN bufs
                       /\ HeldUpTo(m, r, bufs[job[m].stream])
          BY <4>2 DEF Arrived
        <4>6. Arrived(m, r, wire)'
          BY <2>1, <2>2, <2>6, <2>7, <4>4, <4>5
             DEF Arrived, TransitFrom, HeldUpTo
        <4> QED
          BY <3>2, <4>3, <4>6
      <3>3. CASE n # m
        <4>0. job'[n] = job[n] /\ task' = task /\ conn' = conn
          BY <2>1, <2>6, <3>3
        <4>1. Current(n) => f.stream # job[n].stream
          BY <2>2, <2>5, <3>3, OneCurrent DEF WholeInv
        <4>2. CASE Done(n, wire)
          BY <2>1, <2>8, <3>1, <4>0, <4>1, <4>2 DEF Done, Returned
        <4>3. CASE \E r \in 0..job[n].seq : Arrived(n, r, wire)
          <5>1. PICK r \in 0..job[n].seq : Arrived(n, r, wire)
            BY <4>3
          <5>2. Current(n) /\ f.stream # job[n].stream
            BY <4>1, <5>1 DEF Arrived
          <5>3. TransitFrom(n, r, wire)'
            BY <2>8, <4>0, <5>1, <5>2 DEF Arrived, TransitFrom
          <5>4. Arrived(n, r, wire)'
            BY <2>1, <3>1, <4>0, <5>1, <5>2, <5>3 DEF Arrived, HeldUpTo
          <5> QED
            BY <4>0, <5>4
        <4>4. CASE job[n].conn < conn /\ task[n] # "sending"
          BY <4>0, <4>4
        <4> QED
          BY <3>1, <4>2, <4>3, <4>4 DEF ArrivedInv
      <3> QED
        BY <3>2, <3>3
    <2>12. ArrivedInv'
      BY <2>1, <2>11 DEF ArrivedInv
    <2> QED
      BY <2>10, <2>12
  <1> QED
    BY <1>1, <1>2

LEMMA StrayLoss ==
  ASSUME HarmlessStrays, BoundInv, LossInv, NEW f \in strays, StrayArrives(f)
  PROVE  LossInv'
  <1> USE DEF LossInv
  <1>1. /\ wire' = Append(wire, f) /\ task' = task /\ job' = job
        /\ conn' = conn /\ bufs' = bufs /\ delivered' = delivered
        /\ discarded' = discarded
    BY DEF StrayArrives, connVars, senderVars, receiverVars
  <1>2. f \in Strays /\ f \in Fragment /\ wire \in Seq(Fragment)
    BY StraysAssumption DEF BoundInv, TypeOK
  <1>3. ~ Genuine(f)
    <2>1. f.stream \in SenderStreams => Harmless(f)
      BY <1>2 DEF HarmlessStrays, Harmless
    <2> QED
      BY <1>2, <2>1, HarmlessNotGenuine DEF Genuine
  <1>4. /\ \A i \in DOMAIN wire' :
             Genuine(wire'[i]) => i \in DOMAIN wire /\ wire'[i] = wire[i]
        /\ \A i \in DOMAIN wire : i \in DOMAIN wire' /\ wire'[i] = wire[i]
    BY <1>1, <1>2, <1>3, AppendIndex
  <1>5. PrefixInv'
    BY <1>1 DEF PrefixInv, HoldsPrefix
  <1>6. ASSUME NEW n \in Messages, Accepted(n)', job[n].stream \notin discarded
        PROVE  (\/ Done(n, wire)
                \/ \E r \in 0..job[n].seq : Arrived(n, r, wire)
                \/ job[n].conn < conn /\ task[n] # "sending")'
    <2>0. Accepted(n) /\ (Current(n)' <=> Current(n))
      BY <1>1, <1>6 DEF Accepted, Current
    <2>1. CASE Done(n, wire)
      BY <1>1, <1>4, <2>0, <2>1 DEF Done, Returned
    <2>2. CASE \E r \in 0..job[n].seq : Arrived(n, r, wire)
      <3>1. PICK r \in 0..job[n].seq : Arrived(n, r, wire)
        BY <2>2
      <3>2. TransitFrom(n, r, wire)'
        BY <1>1, <1>4, <3>1 DEF Arrived, TransitFrom
      <3>3. Arrived(n, r, wire)'
        BY <1>1, <2>0, <3>1, <3>2 DEF Arrived, HeldUpTo
      <3> QED
        BY <1>1, <3>3
    <2>3. CASE job[n].conn < conn /\ task[n] # "sending"
      BY <1>1, <2>3
    <2> QED
      BY <1>6, <2>0, <2>1, <2>2, <2>3 DEF ArrivedInv
  <1>7. ArrivedInv'
    BY <1>1, <1>6 DEF ArrivedInv
  <1> QED
    BY <1>5, <1>7

LEMMA ReconnectLoss ==
  ASSUME BoundInv, LossInv, Reconnect
  PROVE  LossInv'
  <1> USE DEF LossInv
  <1>1. /\ wire' = <<>> /\ conn' = conn + 1 /\ conn \in Nat /\ job' = job
        /\ bufs' = bufs /\ delivered' = delivered /\ discarded' = discarded
    BY DEF Reconnect, BoundInv, TypeOK
  <1>2. \A m \in Messages :
          /\ Accepted(m)' <=> Accepted(m)
          /\ task'[m] = "sending" => task[m] = "sending" /\ Received(m)
    BY DEF Reconnect, Accepted, BoundInv, TypeOK
  <1>3. PrefixInv'
    BY <1>1 DEF PrefixInv, HoldsPrefix
  <1>4. ASSUME NEW m \in Messages, Accepted(m)', job[m].stream \notin discarded
        PROVE  (\/ Done(m, wire)
                \/ \E r \in 0..job[m].seq : Arrived(m, r, wire)
                \/ job[m].conn < conn /\ task[m] # "sending")'
    <2>1. Accepted(m)
      BY <1>2, <1>4
    <2>2. job[m].conn \in Nat /\ job[m].conn < conn + 1
      BY <1>1, <2>1, JobFacts
    <2>3. ~ Current(m)'
      BY <1>1, <2>2 DEF Current
    <2>4. CASE Done(m, wire)
      BY <1>1, <2>3, <2>4 DEF Done, Returned
    <2>5. CASE ~ Done(m, wire)
      BY <1>1, <1>2, <1>4, <2>2, <2>5, ReceivedIsDone
    <2> QED
      BY <2>4, <2>5
  <1>5. ArrivedInv'
    BY <1>1, <1>4 DEF ArrivedInv
  <1> QED
    BY <1>3, <1>5

(* Old buffers are dropped, and the loss is put down.                      *)
LEMMA PruneLoss ==
  ASSUME BoundInv, LossInv, CallRecv
  PROVE  LossInv'
  <1> USE DEF LossInv
  <1>1. /\ wire' = wire /\ conn' = conn /\ job' = job /\ task' = task
        /\ delivered' = delivered
        /\ bufs' = Restrict(bufs, DOMAIN bufs \ Stale(bufs))
        /\ discarded' = discarded \cup Stale(bufs)
    BY DEF CallRecv, PruneAndRead, connVars, senderVars
  <1>2. /\ DOMAIN bufs' = DOMAIN bufs \ Stale(bufs)
        /\ \A s \in DOMAIN bufs' : bufs'[s] = bufs[s]
    BY <1>1 DEF Restrict
  <1>3. PrefixInv'
    BY <1>1, <1>2 DEF PrefixInv, HoldsPrefix
  <1>4. ASSUME NEW m \in Messages, Accepted(m)', job[m].stream \notin discarded'
        PROVE  (\/ Done(m, wire)
                \/ \E r \in 0..job[m].seq : Arrived(m, r, wire)
                \/ job[m].conn < conn /\ task[m] # "sending")'
    <2>0. /\ Accepted(m) /\ (Current(m)' <=> Current(m))
          /\ job[m].stream \notin discarded
          /\ job[m].stream \notin Stale(bufs)
      BY <1>1, <1>4 DEF Accepted, Current
    <2>1. CASE Done(m, wire)
      BY <1>1, <2>0, <2>1 DEF Done, Returned
    <2>2. CASE \E r \in 0..job[m].seq : Arrived(m, r, wire)
      BY <1>1, <1>2, <2>0, <2>2 DEF Arrived, TransitFrom, HeldUpTo
    <2>3. CASE job[m].conn < conn /\ task[m] # "sending"
      BY <1>1, <2>3
    <2> QED
      BY <2>0, <2>1, <2>2, <2>3 DEF ArrivedInv
  <1>5. ArrivedInv'
    BY <1>1, <1>4 DEF ArrivedInv
  <1> QED
    BY <1>3, <1>5

-----------------------------------------------------------------------------
(* A fragment is read.                                                     *)

(* The next fragment of a message that comes is the next of its fragments. *)
LEMMA NextFragment ==
  ASSUME BoundInv, WholeInv, wire # <<>>, Genuine(wire[1]),
         NEW m \in Messages, NEW r \in Nat, Arrived(m, r, wire),
         job[m].stream = wire[1].stream
  PROVE  /\ SentBy(wire[1], m) /\ wire[1].seq = r /\ r < job[m].seq
         /\ TransitFrom(m, r + 1, Tail(wire))
  <1> DEFINE f == wire[1]
             w == Tail(wire)
  <1>1. wire \in Seq(Fragment)
    BY DEF BoundInv, TypeOK
  <1>2. /\ 1 \in DOMAIN wire /\ DOMAIN wire \subseteq Nat \ {0}
        /\ \A i \in DOMAIN wire : wire[i] \in Fragment
        /\ \A i \in DOMAIN w : i + 1 \in DOMAIN wire /\ 1 < i + 1
                                 /\ w[i] = wire[i + 1]
        /\ \A i \in DOMAIN wire :
             i # 1 => i - 1 \in DOMAIN w /\ w[i - 1] = wire[i]
    <2>1. 1 \in DOMAIN wire
          /\ \A i \in DOMAIN w : i + 1 \in DOMAIN wire /\ 1 < i + 1
                                   /\ w[i] = wire[i + 1]
      BY <1>1, TailIndex
    <2>2. /\ DOMAIN wire = 1..Len(wire) /\ Len(wire) \in Nat
          /\ \A i \in DOMAIN wire : wire[i] \in Fragment
      BY <1>1, LenProperties
    <2>3. DOMAIN w = 1..(Len(wire) - 1)
      <3>1. w \in Seq(Fragment) /\ Len(w) = Len(wire) - 1
        BY <1>1, HeadTailProperties
      <3> QED
        BY <3>1, LenProperties
    <2>4. ASSUME NEW i \in DOMAIN wire, i # 1
          PROVE  i - 1 \in DOMAIN w /\ w[i - 1] = wire[i]
      <3>1. i - 1 \in DOMAIN w /\ (i - 1) + 1 = i
        BY <2>2, <2>3, <2>4
      <3> QED
        BY <2>1, <3>1
    <2> QED
      BY <2>1, <2>2, <2>4
  <1> HIDE DEF w
  <1>3. PICK n \in Messages : SentBy(f, n)
    BY <1>2, GenuineIsSent DEF WholeInv
  <1>4. n = m
    BY <1>3, OneCurrent DEF SentBy, Arrived, WholeInv
  <1>5. /\ SentBy(f, m) /\ f.seq < job[m].seq /\ f.seq \in Nat
        /\ job[m].seq \in Nat
    <2>1. Accepted(m)
      BY DEF Arrived, Current
    <2> QED
      BY <1>2, <1>3, <1>4, <2>1, JobFacts DEF SentBy, Fragment
  <1>6. /\ \A i \in DOMAIN wire :
             Genuine(wire[i]) /\ wire[i].stream = f.stream => wire[i].seq >= r
        /\ \A k \in r..(job[m].seq - 1) : \E i \in DOMAIN wire :
             Genuine(wire[i]) /\ wire[i].stream = f.stream /\ wire[i].seq = k
    BY DEF Arrived, TransitFrom
  <1>7. \A i \in DOMAIN wire :
          i # 1 /\ Genuine(wire[i]) /\ wire[i].stream = f.stream
            => f.seq < wire[i].seq
    BY <1>2 DEF WholeInv, WireInv
  <1>8. f.seq = r
    <2>1. f.seq >= r /\ r \in r..(job[m].seq - 1)
      BY <1>2, <1>5, <1>6
    <2>2. PICK i \in DOMAIN wire :
            Genuine(wire[i]) /\ wire[i].stream = f.stream /\ wire[i].seq = r
      BY <1>6, <2>1
    <2>3. i = 1
      BY <1>5, <1>7, <2>1, <2>2
    <2> QED
      BY <2>2, <2>3
  <1>9. TransitFrom(m, r + 1, w)
    <2>1. ASSUME NEW i \in DOMAIN w, Genuine(w[i]), w[i].stream = job[m].stream
          PROVE  w[i].seq >= r + 1
      <3>1. i + 1 \in DOMAIN wire /\ i + 1 # 1 /\ w[i] = wire[i + 1]
            /\ wire[i + 1] \in Fragment
        BY <1>2
      <3> QED
        BY <1>5, <1>7, <1>8, <2>1, <3>1 DEF Fragment
    <2>2. ASSUME NEW k \in (r + 1)..(job[m].seq - 1)
          PROVE  \E i \in DOMAIN w :
                   Genuine(w[i]) /\ w[i].stream = job[m].stream /\ w[i].seq = k
      <3>1. k \in r..(job[m].seq - 1) /\ k # r
        BY <1>5
      <3>2. PICK i \in DOMAIN wire :
              Genuine(wire[i]) /\ wire[i].stream = f.stream /\ wire[i].seq = k
        BY <1>6, <3>1
      <3>3. i - 1 \in DOMAIN w /\ w[i - 1] = wire[i]
        BY <1>2, <1>8, <3>1, <3>2
      <3> QED
        BY <3>2, <3>3
    <2> QED
      BY <2>1, <2>2 DEF TransitFrom
  <1> QED
    BY <1>5, <1>8, <1>9 DEF w

(* Where nothing was dropped, a fragment that can be part of a message is  *)
(* the next of one that has arrived up to there.                           *)
LEMMA GenuineArrived ==
  ASSUME BoundInv, WholeInv, LossInv, wire # <<>>, Genuine(wire[1]),
         wire[1].stream \notin discarded
  PROVE  \E m \in Messages : \E r \in Nat :
           /\ Arrived(m, r, wire) /\ job[m].stream = wire[1].stream
           /\ SentBy(wire[1], m) /\ wire[1].seq = r /\ r < job[m].seq
           /\ TransitFrom(m, r + 1, Tail(wire))
  <1>1. wire \in Seq(Fragment) /\ conn \in Nat
    BY DEF BoundInv, TypeOK
  <1>2. 1 \in DOMAIN wire
    BY <1>1, TailIndex
  <1>3. PICK m \in Messages : SentBy(wire[1], m)
    BY <1>2, GenuineIsSent DEF WholeInv
  <1>4. Current(m) /\ Accepted(m) /\ job[m].stream = wire[1].stream
        /\ job[m].conn = conn
    BY <1>3 DEF SentBy, Current
  <1>5. ~ Done(m, wire)
    BY <1>2, <1>4 DEF Done
  <1>6. PICK r \in 0..job[m].seq : Arrived(m, r, wire)
    BY <1>1, <1>4, <1>5 DEF LossInv, ArrivedInv
  <1>7. r \in Nat
    BY <1>4, JobFacts
  <1> QED
    BY <1>4, <1>6, <1>7, NextFragment

(* With its next fragment the set is again a prefix of a set, and complete *)
(* with the last one only.                                                 *)
LEMMA NextIsPrefix ==
  ASSUME BoundInv, WholeInv, LossInv, wire # <<>>, NEW f, f = wire[1],
         Genuine(f), f.stream \notin discarded,
         BufferFor(f).total = f.total
  PROVE  LET b == Absorbed(BufferFor(f), f)
         IN  /\ ~ IsComplete(b) => HoldsPrefix(b)
             /\ IsComplete(b) => f.seq = f.total - 1
  <1> DEFINE o == BufferFor(f)
             b == Absorbed(o, f)
  <1>1. f \in Fragment
    <2>1. wire \in Seq(Fragment)
      BY DEF BoundInv, TypeOK
    <2> QED
      BY <2>1, TailIndex, LenProperties
  <1>2. f.seq < f.total /\ f.total \in SenderTotals /\ f.stream \in SenderStreams
        /\ f.seq \in Nat /\ f.total \in Nat
    BY <1>1 DEF Genuine, Fragment
  <1>3. PICK m \in Messages, r \in Nat :
          /\ Arrived(m, r, wire) /\ job[m].stream = f.stream /\ f.seq = r
    BY GenuineArrived
  <1>4. /\ f.stream \in DOMAIN bufs => o = bufs[f.stream]
        /\ f.stream \notin DOMAIN bufs => DOMAIN o.frags = {}
    BY <1>1, BufferForFacts
  <1>5. GoodBuffer(b) /\ AbsorbedFacts(o, f, b)
    BY <1>1, <1>2, AbsorbFacts
  <1> HIDE DEF o, b
  <1>6. b.total = f.total /\ o.total = f.total
        /\ DOMAIN b.frags = DOMAIN o.frags \cup {f.seq}
    BY <1>5 DEF AbsorbedFacts, o
  <1>7. PICK n \in Nat : n < f.total /\ DOMAIN o.frags = 0..(n - 1) /\ f.seq <= n
    <2>1. CASE f.stream \in DOMAIN bufs
      <3>1. o = bufs[f.stream]
        BY <1>4, <2>1
      <3>2. HoldsPrefix(o)
        BY <1>2, <1>6, <2>1, <3>1 DEF LossInv, PrefixInv
      <3>3. PICK n \in Nat : n < f.total /\ DOMAIN o.frags = 0..(n - 1)
        BY <1>6, <3>2 DEF HoldsPrefix
      <3>4. r > 0 => r - 1 \in DOMAIN o.frags
        <4>1. r > 0 => HeldUpTo(m, r, o)
          BY <1>3, <3>1 DEF Arrived
        <4>2. r > 0 => r - 1 \in 0..(r - 1)
          BY <1>3
        <4> QED
          BY <4>1, <4>2 DEF HeldUpTo
      <3>5. f.seq <= n
        BY <1>3, <3>3, <3>4
      <3> QED
        BY <3>3, <3>5
    <2>2. CASE f.stream \notin DOMAIN bufs
      <3>1. ~ (r > 0)
        BY <1>3, <2>2 DEF Arrived
      <3>2. f.seq = 0 /\ 0 < f.total /\ 0..(0 - 1) = {}
        BY <1>2, <1>3, <3>1
      <3>3. 0 \in Nat /\ DOMAIN o.frags = 0..(0 - 1) /\ f.seq <= 0
        BY <1>4, <2>2, <3>2
      <3> QED
        BY <3>2, <3>3
    <2> QED
      BY <2>1, <2>2
  <1>8. CASE f.seq < n
    <2>1. DOMAIN b.frags = 0..(n - 1)
      BY <1>2, <1>6, <1>7, <1>8
    <2>2. HoldsPrefix(b)
      BY <1>6, <1>7, <2>1 DEF HoldsPrefix
    <2>3. ~ IsComplete(b)
      <3> SUFFICES ASSUME IsComplete(b)
                   PROVE  FALSE
        OBVIOUS
      <3>1. DOMAIN b.frags = 0..(f.total - 1)
        BY <1>5, <1>6, CompleteFacts
      <3>2. f.total - 1 \in 0..(f.total - 1) /\ f.total - 1 \notin 0..(n - 1)
        BY <1>2, <1>7
      <3> QED
        BY <2>1, <3>1, <3>2
    <2> QED
      BY <2>2, <2>3 DEF b, o
  <1>9. CASE f.seq = n
    <2>1. DOMAIN b.frags = 0..n /\ n + 1 \in Nat /\ (n + 1) - 1 = n
      BY <1>6, <1>7, <1>9
    <2>2. CASE n + 1 < f.total
      <3>1. HoldsPrefix(b)
        BY <1>6, <2>1, <2>2 DEF HoldsPrefix
      <3>2. ~ IsComplete(b)
        <4> SUFFICES ASSUME IsComplete(b)
                     PROVE  FALSE
          OBVIOUS
        <4>1. DOMAIN b.frags = 0..(f.total - 1)
          BY <1>5, <1>6, CompleteFacts
        <4>2. f.total - 1 \in 0..(f.total - 1) /\ f.total - 1 \notin 0..n
          BY <1>2, <1>7, <2>2
        <4> QED
          BY <2>1, <4>1, <4>2
      <3> QED
        BY <3>1, <3>2 DEF b, o
    <2>3. CASE n + 1 = f.total
      <3>1. IsComplete(b)
        <4>1. 0 \in Int /\ n \in Int /\ ~ (0 > n)
          BY <1>7
        <4>2. Cardinality(0..n) = n - 0 + 1
          BY <4>1, FS_Interval
        <4>3. n - 0 + 1 = f.total
          BY <1>7, <2>3
        <4> QED
          BY <1>6, <2>1, <4>2, <4>3 DEF IsComplete
      <3>2. f.seq = f.total - 1
        BY <1>2, <1>7, <1>9, <2>3
      <3> QED
        BY <3>1, <3>2 DEF b, o
    <2> QED
      BY <1>2, <1>7, <2>2, <2>3
  <1> QED
    BY <1>2, <1>7, <1>8, <1>9

(* The fragments of a message up to the one that comes are in its buffer.  *)
LEMMA HeldNext ==
  ASSUME BoundInv, wire # <<>>, NEW f \in Fragment, NEW m \in Messages,
         NEW r \in Nat, Arrived(m, r, wire), SentBy(f, m), f.seq = r,
         f.seq < f.total, BufferFor(f).total = f.total
  PROVE  HeldUpTo(m, r + 1, Absorbed(BufferFor(f), f))
  <1> DEFINE o == BufferFor(f)
             b == Absorbed(o, f)
  <1>1. AbsorbedFacts(o, f, b)
    BY AbsorbFacts
  <1>2. f.stream \in DOMAIN bufs => o = bufs[f.stream]
    BY BufferForFacts
  <1> HIDE DEF o, b
  <1>3. /\ job[m].stream = f.stream /\ f.total = Total(m, job[m].chunk)
        /\ f.data = Chunk(m, job[m].chunk, r)
    BY DEF SentBy
  <1>4. b.total = Total(m, job[m].chunk)
    BY <1>1, <1>3 DEF AbsorbedFacts, o
  <1>5. ASSUME NEW k \in 0..((r + 1) - 1)
        PROVE  k \in DOMAIN b.frags /\ b.frags[k] = Chunk(m, job[m].chunk, k)
    <2>1. CASE k = r
      BY <1>1, <1>3, <2>1 DEF AbsorbedFacts
    <2>2. CASE k # r
      <3>1. r > 0 /\ k \in 0..(r - 1)
        BY <2>2
      <3>2. HeldUpTo(m, r, o)
        BY <1>2, <1>3, <3>1 DEF Arrived
      <3>3. k \in DOMAIN o.frags /\ o.frags[k] = Chunk(m, job[m].chunk, k)
        BY <3>1, <3>2 DEF HeldUpTo
      <3> QED
        BY <1>1, <2>2, <3>3 DEF AbsorbedFacts
    <2> QED
      BY <2>1, <2>2
  <1> QED
    BY <1>4, <1>5 DEF HeldUpTo, b, o

LEMMA ReadLoss ==
  ASSUME BoundInv, WholeInv, LossInv, ReadFragment
  PROVE  LossInv'
  <1> DEFINE f == wire[1]
             b == Absorbed(BufferFor(f), f)
             w == Tail(wire)
  <1>1. /\ wire # <<>> /\ wire' = w /\ conn' = conn /\ job' = job /\ task' = task
        /\ UNCHANGED <<connVars, senderVars>>
    BY DEF ReadFragment, connVars, senderVars
  <1>2. /\ \A m \in Messages :
             (Current(m)' <=> Current(m)) /\ (Accepted(m)' <=> Accepted(m))
        /\ \A i \in DOMAIN w :
             i \in Int /\ i + 1 \in DOMAIN wire /\ 1 < i + 1
               /\ w[i] = wire[i + 1]
        /\ 1 \in DOMAIN wire /\ Head(wire) = f /\ f \in Fragment
    BY <1>1, TailWhole
  <1>3. AbsorbFails(f) \/ AbsorbSucceeds(f)
    BY <1>2 DEF ReadFragment
  <1>4. /\ \A i \in DOMAIN w : \E j \in DOMAIN wire : w[i] = wire[j]
        /\ \A i \in DOMAIN wire : i # 1 => \E j \in DOMAIN w : w[j] = wire[i]
    <2>1. wire \in Seq(Fragment)
      BY DEF BoundInv, TypeOK
    <2>2. DOMAIN wire = 1..Len(wire) /\ Len(wire) \in Nat
      BY <2>1, LenProperties
    <2>3. w \in Seq(Fragment) /\ Len(w) = Len(wire) - 1
      BY <1>1, <2>1, HeadTailProperties
    <2>4. DOMAIN w = 1..(Len(wire) - 1)
      BY <2>3, LenProperties
    <2>5. ASSUME NEW i \in DOMAIN wire, i # 1
          PROVE  \E j \in DOMAIN w : w[j] = wire[i]
      <3>1. i - 1 \in DOMAIN w /\ (i - 1) + 1 = i
        BY <2>2, <2>4, <2>5
      <3>2. w[i - 1] = wire[i]
        BY <1>2, <3>1
      <3> QED
        BY <3>1, <3>2
    <2> QED
      BY <1>2, <2>5
  <1> HIDE DEF b, w, f
  (* A message none of whose fragments was read, and whose buffer stays.     *)
  <1>5. ASSUME NEW m \in Messages, NEW r \in Nat, Arrived(m, r, wire),
               ~ (Genuine(f) /\ f.stream = job[m].stream),
               r > 0 => /\ job[m].stream \in DOMAIN bufs'
                        /\ bufs'[job[m].stream] = bufs[job[m].stream]
        PROVE  Arrived(m, r, wire)'
    <2>1. TransitFrom(m, r, wire)'
      <3>1. ASSUME NEW k \in r..(job[m].seq - 1)
            PROVE  \E j \in DOMAIN w :
                     /\ Genuine(w[j]) /\ w[j].stream = job[m].stream
                     /\ w[j].seq = k
        <4>1. PICK i \in DOMAIN wire :
                /\ Genuine(wire[i]) /\ wire[i].stream = job[m].stream
                /\ wire[i].seq = k
          BY <1>5, <3>1 DEF Arrived, TransitFrom
        <4>2. i # 1
          BY <1>5, <4>1 DEF f
        <4> QED
          BY <1>4, <4>1, <4>2
      <3> QED
        BY <1>1, <1>4, <1>5, <3>1 DEF Arrived, TransitFrom
    <2> QED
      BY <1>1, <1>2, <1>5, <2>1 DEF Arrived, HeldUpTo
  <1>6. ASSUME NEW m \in Messages, Done(m, wire),
               delivered' = delivered \/ \E d : delivered' = Append(delivered, d)
        PROVE  Done(m, wire)'
    <2>1. Returned(m)'
      <3>1. PICK i \in DOMAIN delivered : delivered[i].payload = Payload(m)
        BY <1>6 DEF Done, Returned
      <3>2. delivered \in Seq([stream : Nat, payload : Seq(Bytes)])
        BY DEF BoundInv, TypeOK
      <3>3. i \in 1..Len(delivered) /\ Len(delivered) \in Nat
        BY <3>2, LenProperties
      <3>4. i \in DOMAIN delivered' /\ delivered'[i] = delivered[i]
        BY <1>6, <3>3
      <3> QED
        BY <3>1, <3>4 DEF Returned
    <2> QED
      BY <1>1, <1>2, <1>4, <1>6, <2>1 DEF Done
  <1>7. CASE AbsorbFails(f)
    <2>1. /\ delivered' = delivered /\ discarded' = discarded \cup {f.stream}
          /\ DOMAIN bufs' \subseteq DOMAIN bufs
          /\ \A s \in DOMAIN bufs' : bufs'[s] = bufs[s]
          /\ \A s \in DOMAIN bufs : s # f.stream => s \in DOMAIN bufs'
      <3>1. CASE Raise(f.stream)
        BY <3>1 DEF Raise
      <3>2. CASE RaiseDropping(f.stream)
        BY <3>2 DEF RaiseDropping, Restrict
      <3> QED
        BY <1>7, <3>1, <3>2 DEF AbsorbFails
    <2>2. PrefixInv'
      BY <2>1 DEF LossInv, PrefixInv, HoldsPrefix
    <2>3. ASSUME NEW m \in Messages, Accepted(m)', job[m].stream \notin discarded'
          PROVE  (\/ Done(m, wire)
                  \/ \E r \in 0..job[m].seq : Arrived(m, r, wire)
                  \/ job[m].conn < conn /\ task[m] # "sending")'
      <3>1. /\ Accepted(m) /\ job[m].stream \notin discarded
            /\ job[m].stream # f.stream
        BY <1>2, <2>1, <2>3
      <3>2. CASE Done(m, wire)
        BY <1>6, <2>1, <3>2
      <3>3. CASE \E r \in 0..job[m].seq : Arrived(m, r, wire)
        <4>1. PICK r \in 0..job[m].seq : Arrived(m, r, wire)
          BY <3>3
        <4>2. r \in Nat
          BY <3>1, JobFacts
        <4>3. Arrived(m, r, wire)'
          <5>1. r > 0 => /\ job[m].stream \in DOMAIN bufs'
                         /\ bufs'[job[m].stream] = bufs[job[m].stream]
            BY <2>1, <3>1, <4>1 DEF Arrived
          <5> QED
            BY <1>5, <3>1, <4>1, <4>2, <5>1
        <4> QED
          BY <1>1, <4>3
      <3>4. CASE job[m].conn < conn /\ task[m] # "sending"
        BY <1>1, <3>4
      <3> QED
        BY <3>1, <3>2, <3>3, <3>4 DEF LossInv, ArrivedInv
    <2>4. ArrivedInv'
      BY <1>1, <2>3 DEF ArrivedInv
    <2> QED
      BY <2>2, <2>4 DEF LossInv
  <1>8. CASE AbsorbSucceeds(f)
    <2>1. f.seq < f.total /\ BufferFor(f).total = f.total
      BY <1>8 DEF AbsorbSucceeds
    <2>2. GoodBuffer(b) /\ b.total = f.total /\ f.total \in Nat
      BY <1>2, <2>1, AbsorbFacts DEF AbsorbedFacts, b, Fragment
    (* What is kept of the buffers: on a stream of which nothing is dropped.*)
    <2>3. /\ discarded \subseteq discarded'
          /\ \A s \in DOMAIN bufs : s # f.stream /\ s \notin discarded' =>
               s \in DOMAIN bufs' /\ bufs'[s] = bufs[s]
          /\ \A s \in DOMAIN bufs' : s # f.stream =>
               s \in DOMAIN bufs /\ bufs'[s] = bufs[s]
          /\ f.stream \in DOMAIN bufs' =>
               ~ IsComplete(b) /\ bufs'[f.stream] = b
          /\ ~ IsComplete(b) /\ f.stream \notin discarded' =>
               f.stream \in DOMAIN bufs'
          /\ IsComplete(b) =>
               delivered' = Append(delivered,
                 [stream |-> f.stream, payload |-> Reassemble(b)])
          /\ ~ IsComplete(b) => delivered' = delivered
      <3>1. CASE IsComplete(b)
        BY <1>8, <3>1 DEF AbsorbSucceeds, Restrict, b
      <3>2. CASE ~ IsComplete(b)
        <4> DEFINE g == [s \in DOMAIN bufs \cup {f.stream} |->
                           IF s = f.stream THEN b ELSE bufs[s]]
        <4>1. /\ bufs' = Restrict(g, DOMAIN g \ Stale(g))
              /\ discarded' = discarded \cup Stale(g) /\ delivered' = delivered
          BY <1>8, <3>2 DEF AbsorbSucceeds, PruneAndRead, b
        <4>2. DOMAIN g = DOMAIN bufs \cup {f.stream}
              /\ \A s \in DOMAIN g : g[s] = IF s = f.stream THEN b ELSE bufs[s]
          OBVIOUS
        <4> HIDE DEF g
        <4>3. DOMAIN bufs' = DOMAIN g \ Stale(g)
              /\ \A s \in DOMAIN bufs' : bufs'[s] = g[s]
          BY <4>1 DEF Restrict
        <4> QED
          BY <3>2, <4>1, <4>2, <4>3
      <3> QED
        BY <3>1, <3>2
    <2>4. PrefixInv'
      <3> SUFFICES ASSUME NEW s \in DOMAIN bufs',
                          s \in SenderStreams \ discarded',
                          bufs'[s].total \in SenderTotals
                   PROVE  HoldsPrefix(bufs'[s])
        BY DEF PrefixInv, HoldsPrefix
      <3>1. CASE s = f.stream
        <4>1. bufs'[s] = b /\ ~ IsComplete(b)
          BY <2>3, <3>1
        <4>2. Genuine(f) /\ f.stream \notin discarded
          BY <2>1, <2>2, <2>3, <3>1, <4>1 DEF Genuine
        <4> QED
          BY <1>1, <2>1, <4>1, <4>2, NextIsPrefix DEF b, f
      <3>2. CASE s # f.stream
        BY <2>3, <3>2 DEF LossInv, PrefixInv
      <3> QED
        BY <3>1, <3>2
    <2>5. ASSUME NEW m \in Messages, Accepted(m)', job[m].stream \notin discarded'
          PROVE  (\/ Done(m, wire)
                  \/ \E r \in 0..job[m].seq : Arrived(m, r, wire)
                  \/ job[m].conn < conn /\ task[m] # "sending")'
      <3>1. Accepted(m) /\ job[m].stream \notin discarded
            /\ job[m].seq \in Nat
        BY <1>2, <2>3, <2>5, JobFacts
      <3>2. CASE Done(m, wire)
        BY <1>6, <2>3, <3>2
      <3>3. CASE \E r \in 0..job[m].seq : Arrived(m, r, wire)
        <4>1. PICK r \in 0..job[m].seq : Arrived(m, r, wire)
          BY <3>3
        <4>2. r \in Nat
          BY <3>1
        <4>3. CASE f.stream # job[m].stream
          <5>1. r > 0 => /\ job[m].stream \in DOMAIN bufs'
                         /\ bufs'[job[m].stream] = bufs[job[m].stream]
            BY <2>3, <2>5, <4>1, <4>3 DEF Arrived
          <5>2. Arrived(m, r, wire)'
            BY <1>5, <4>1, <4>2, <4>3, <5>1
          <5> QED
            BY <1>1, <5>2
        <4>4. CASE f.stream = job[m].stream /\ ~ Genuine(f)
          <5>1. f.total \notin SenderTotals
            <6>1. job[m].stream \in SenderStreams
              BY <3>1, JobFacts
            <6> QED
              BY <2>1, <2>2, <4>4, <6>1, BoundsAssumption DEF Genuine
          <5>2. ~ (r > 0)
            <6> SUFFICES ASSUME r > 0
                         PROVE  FALSE
              OBVIOUS
            <6>1. /\ f.stream \in DOMAIN bufs
                  /\ bufs[f.stream].total = Total(m, job[m].chunk)
              BY <4>1, <4>4 DEF Arrived, HeldUpTo
            <6>2. BufferFor(f).total = Total(m, job[m].chunk)
              BY <6>1 DEF BufferFor
            <6>3. Total(m, job[m].chunk) \in Nat
                  /\ Total(m, job[m].chunk) \in SenderTotals
              BY <3>1, JobFacts
            <6> QED
              BY <2>1, <2>2, <5>1, <6>2, <6>3, BoundsAssumption
          <5>3. Arrived(m, r, wire)'
            BY <1>5, <4>1, <4>2, <4>4, <5>2
          <5> QED
            BY <1>1, <5>3
        <4>5. CASE f.stream = job[m].stream /\ Genuine(f)
          <5>1. /\ SentBy(f, m) /\ f.seq = r /\ r < job[m].seq
                /\ TransitFrom(m, r + 1, w)
            BY <1>1, <4>1, <4>2, <4>5, NextFragment DEF f, w
          <5>2. HeldUpTo(m, r + 1, b)
            BY <1>1, <1>2, <2>1, <4>1, <4>2, <5>1, HeldNext DEF b
          <5>3. Current(m) /\ f.total = Total(m, job[m].chunk)
                /\ job[m].chunk \in Nat \ {0}
                /\ job[m].seq <= Total(m, job[m].chunk)
            BY <3>1, <5>1, JobFacts DEF SentBy
          <5>4. CASE IsComplete(b)
            <6>1. r = f.total - 1
              BY <1>1, <2>1, <3>1, <4>5, <5>1, <5>4, NextIsPrefix DEF b, f
            <6>2. Reassemble(b) = Payload(m)
              <7>1. b.total = Total(m, job[m].chunk) /\ (r + 1) - 1 = b.total - 1
                BY <2>2, <4>2, <5>3, <6>1
              <7>2. \A k \in 0..(b.total - 1) :
                      b.frags[k] = Chunk(m, job[m].chunk, k)
                BY <5>2, <7>1 DEF HeldUpTo
              <7> QED
                BY <5>3, <7>1, <7>2, JoinedWhole
            <6>3. Returned(m)'
              <7>1. delivered \in Seq([stream : Nat, payload : Seq(Bytes)])
                BY DEF BoundInv, TypeOK
              <7>2. Len(delivered) \in Nat
                BY <7>1, LenProperties
              <7> DEFINE d == [stream |-> f.stream, payload |-> Reassemble(b)]
              <7>3. d \in [stream : Nat, payload : Seq(Bytes)]
                BY <1>2, <2>2, <5>4, CompleteFacts DEF Fragment
              <7>4. delivered' = Append(delivered, d) /\ d.payload = Payload(m)
                BY <2>3, <5>4, <6>2
              <7> HIDE DEF d
              <7>5. Len(delivered) + 1 \in DOMAIN delivered'
                    /\ delivered'[Len(delivered) + 1] = d
                BY <7>1, <7>3, <7>4, AppendIndex
              <7> QED
                BY <7>4, <7>5 DEF Returned
            <6>4. job[m].seq = Total(m, job[m].chunk)
              BY <2>2, <3>1, <5>1, <5>3, <6>1
            <6>5. ASSUME NEW i \in DOMAIN w, Genuine(w[i]),
                         w[i].stream = job[m].stream
                  PROVE  FALSE
              <7>1. PICK j \in DOMAIN wire : w[i] = wire[j]
                BY <1>4
              <7>2. w[i] \in Fragment /\ \E n \in Messages : SentBy(w[i], n)
                BY <6>5, <7>1, GenuineIsSent DEF WholeInv
              <7>3. PICK n \in Messages : SentBy(w[i], n)
                BY <7>2
              <7>4. n = m
                BY <5>3, <6>5, <7>3, OneCurrent DEF SentBy, WholeInv
              <7>5. w[i].seq \in Nat /\ w[i].seq < job[m].seq /\ w[i].seq >= r + 1
                BY <5>1, <6>5, <7>2, <7>3, <7>4 DEF SentBy, TransitFrom, Fragment
              <7> QED
                BY <2>2, <5>3, <6>1, <6>4, <7>5
            <6> QED
              BY <1>1, <1>2, <6>3, <6>4, <6>5 DEF Done
          <5>5. CASE ~ IsComplete(b)
            <6>1. f.stream \in DOMAIN bufs' /\ bufs'[f.stream] = b
              BY <2>3, <2>5, <4>5, <5>5
            <6>2. TransitFrom(m, r + 1, wire)'
              BY <1>1, <5>1 DEF TransitFrom
            <6>3. HeldUpTo(m, r + 1, bufs[job[m].stream])'
              BY <1>1, <4>5, <5>2, <6>1 DEF HeldUpTo
            <6>4. Arrived(m, r + 1, wire)'
              BY <1>1, <1>2, <4>5, <5>3, <6>1, <6>2, <6>3 DEF Arrived
            <6>5. r + 1 \in 0..job'[m].seq
              BY <1>1, <3>1, <4>2, <5>1
            <6> QED
              BY <6>4, <6>5
          <5> QED
            BY <5>4, <5>5
        <4> QED
          BY <4>3, <4>4, <4>5
      <3>4. CASE job[m].conn < conn /\ task[m] # "sending"
        BY <1>1, <3>4
      <3> QED
        BY <3>1, <3>2, <3>3, <3>4 DEF LossInv, ArrivedInv
    <2>6. ArrivedInv'
      BY <1>1, <2>5 DEF ArrivedInv
    <2> QED
      BY <2>4, <2>6 DEF LossInv
  <1> QED
    BY <1>3, <1>7, <1>8

LEMMA LossStep ==
  ASSUME HarmlessStrays, BoundInv, WholeInv, LossInv, [Next]_vars
  PROVE  LossInv'
  <1> USE DEF connVars, senderVars, receiverVars
  <1>1. ASSUME NEW m \in Messages, NEW c \in ChunkSizes, Refuse(m, c)
        PROVE  LossInv'
    <2>1. \A n \in Messages : /\ Accepted(n)' <=> Accepted(n)
                              /\ task'[n] = "sending" => task[n] = "sending"
      BY <1>1 DEF Refuse, Accepted, BoundInv, TypeOK
    <2> QED
      BY <1>1, <2>1, LossKept DEF Refuse
  <1>2. ASSUME NEW m \in Messages, NEW c \in ChunkSizes, Accept(m, c)
        PROVE  LossInv'
    BY <1>2, AcceptLoss
  <1>3. ASSUME NEW m \in Messages, WriteNext(m)
        PROVE  LossInv'
    BY <1>3, WriteLoss
  <1>4. ASSUME NEW m \in Messages, CancelSend(m)
        PROVE  LossInv'
    <2>1. \A n \in Messages : /\ Accepted(n)' <=> Accepted(n)
                              /\ task'[n] = "sending" => task[n] = "sending"
      BY <1>4 DEF CancelSend, Unsent, Accepted, BoundInv, TypeOK
    <2> QED
      BY <1>4, <2>1, LossKept DEF CancelSend
  <1>5. ASSUME NEW f \in strays, StrayArrives(f)
        PROVE  LossInv'
    BY <1>5, StrayLoss
  <1>6. CASE CallRecv
    BY <1>6, PruneLoss
  <1>7. CASE CancelRecv \/ Tick \/ UNCHANGED vars
    <2>1. /\ \A n \in Messages : Accepted(n)' <=> Accepted(n)
          /\ \A n \in Messages : task'[n] = "sending" => task[n] = "sending"
          /\ UNCHANGED <<connVars, job, wire, bufs, delivered, discarded>>
      BY <1>7 DEF CancelRecv, Tick, vars, Accepted
    <2> QED
      BY <2>1, LossKept
  <1>8. CASE ReadFragment
    BY <1>8, ReadLoss
  <1>9. CASE Reconnect
    BY <1>9, ReconnectLoss
  <1> QED
    BY <1>1, <1>2, <1>3, <1>4, <1>5, <1>6, <1>7, <1>8, <1>9 DEF Next

(* The inductive invariant of the messages on their way: all that was sent *)
(* of one is in the buffer or in transit, and no buffered set is complete. *)
THEOREM LossInvariance ==
  ASSUME HarmlessStrays
  PROVE  Spec => []LossInv
  <1>1. BoundInv /\ WholeInv /\ LossInv /\ [Next]_vars => LossInv'
    BY LossStep
  <1> QED
    BY <1>1, LossInit, BoundInvariance, WholeInvariance, PTL DEF Spec

(* A message whose fragments were all received was returned by recv_frame, *)
(* unless recv_frame raised an error on its stream or pruned it: no        *)
(* complete set of fragments is left in _reassembly, and none disappears.  *)
THEOREM NothingLostInSilence ==
  ASSUME HarmlessStrays
  PROVE  Spec => []NoSilentLoss
  <1>1. BoundInv /\ LossInv => NoSilentLoss
    BY ReceivedIsDone DEF NoSilentLoss, Done, Returned
  <1> QED
    BY <1>1, BoundInvariance, LossInvariance, PTL
=============================================================================
