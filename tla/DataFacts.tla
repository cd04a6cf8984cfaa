--------------------------------- MODULE DataFacts -----------------------------
(***************************************************************************)
(* What the proofs need to know of numbers, orders and sequences, whatever *)
(* the component: the well-ordering of the natural numbers as a fact about *)
(* one set, the ranks of a finite order, FlattenSeq of the community       *)
(* modules, and sequences that hold a given family of values once each.    *)
(***************************************************************************)
EXTENDS SequencesExt, FunctionTheorems, FiniteSetTheorems, SequenceTheorems,
        WellFoundedInduction, TLAPS

--------------------------------------------------------------------------------
(* Numbers and sets *)

\* Every nonempty set of numbers has a least element: a set 0..m that is
\* minimal for inclusion among the sets 0..x, x \in S, ends in it.
LEMMA LeastElementExists ==
    ASSUME NEW S \in SUBSET Nat, S # {}
    PROVE  \E m \in S : \A y \in S : m <= y
<1> DEFINE F == {0..x : x \in S}
<1>1. F \subseteq FiniteSubsetsOf(Nat)
  <2> SUFFICES ASSUME NEW x \in S PROVE 0..x \in FiniteSubsetsOf(Nat)
      OBVIOUS
  <2>1. IsFiniteSet(0..x)
      BY FS_Interval
  <2> QED BY <2>1 DEF FiniteSubsetsOf
<1>2. PICK A \in F : \A B \in F : <<B, A>> \notin StrictSubsetOrdering(Nat)
  <2>1. F # {}
      OBVIOUS
  <2> HIDE DEF F
  <2> QED BY <1>1, <2>1, FS_StrictSubsetOrderingWellFounded, WFMin
<1>3. PICK m \in S : A = 0..m
    OBVIOUS
<1>4. ASSUME NEW y \in S, ~(m <= y)
      PROVE  FALSE
  <2>1. 0..y \in F /\ 0..y \subseteq 0..m /\ m \in 0..m /\ m \notin 0..y
      BY <1>4
  <2>2. <<0..y, 0..m>> \in StrictSubsetOrdering(Nat)
      BY <2>1 DEF StrictSubsetOrdering
  <2> QED BY <1>2, <1>3, <2>1, <2>2
<1> QED BY <1>4

LEMMA IntervalEnd ==
    ASSUME NEW m \in Nat, NEW n \in Nat, 1 .. m = 1 .. n
    PROVE  m = n
<1>1. \A i \in Nat : i \in 1 .. m <=> i \in 1 .. n
    OBVIOUS
<1>2. m \in 1 .. m \/ m = 0
    OBVIOUS
<1>3. n \in 1 .. n \/ n = 0
    OBVIOUS
<1>4. m <= n /\ n <= m
    BY <1>1, <1>2, <1>3
<1> QED BY <1>4

LEMMA DisjointUnion ==
    ASSUME NEW S, IsFiniteSet(S), NEW T, IsFiniteSet(T), S \cap T = {}
    PROVE  IsFiniteSet(S \cup T) /\ Cardinality(S \cup T) = Cardinality(S) + Cardinality(T)
<1>1. /\ IsFiniteSet(S \cup T)
      /\ Cardinality(S \cup T) = Cardinality(S) + Cardinality(T) - Cardinality(S \cap T)
    BY FS_Union
<1>2. Cardinality(S \cap T) = 0
    BY FS_EmptySet
<1>3. Cardinality(S) \in Nat /\ Cardinality(T) \in Nat
    BY FS_CardinalityType
<1> QED BY <1>1, <1>2, <1>3

--------------------------------------------------------------------------------
(* The order of a finite set *)

\* R orders S: it is total, and strict.
Orders(R, S) ==
    /\ \A i \in S : <<i, i>> \notin R
    /\ \A i, j \in S : i # j => <<i, j>> \in R \/ <<j, i>> \in R
    /\ \A i, j, k \in S : <<i, j>> \in R /\ <<j, k>> \in R => <<i, k>> \in R

\* Those of S that come before i, and the elements of S in the order of R.
Before(R, S, i) == {j \in S : <<j, i>> \in R}

Ranked(R, S) ==
    [k \in 1 .. Cardinality(S) |-> CHOOSE i \in S : Cardinality(Before(R, S, i)) = k - 1]

\* Every element has a rank of its own, so each rank is somebody's.
LEMMA RankedFacts ==
    ASSUME NEW S, IsFiniteSet(S), NEW R, Orders(R, S)
    PROVE  /\ Cardinality(S) \in Nat
           /\ Ranked(R, S) \in [1 .. Cardinality(S) -> S]
           /\ \A i \in S : \E k \in 1 .. Cardinality(S) : Ranked(R, S)[k] = i
           /\ \A k, l \in 1 .. Cardinality(S) :
                k < l => <<Ranked(R, S)[k], Ranked(R, S)[l]>> \in R
<1> DEFINE N == Cardinality(S)
           rank(i) == Cardinality(Before(R, S, i))
<1>1. N \in Nat
    BY FS_CardinalityType
<1>2. \A i \in S : IsFiniteSet(Before(R, S, i)) /\ rank(i) \in Nat
    BY FS_Subset, FS_CardinalityType DEF Before
<1>3. ASSUME NEW i \in S
      PROVE  rank(i) \in 0 .. (N - 1)
  <2>1. IsFiniteSet(S \ {i}) /\ Cardinality(S \ {i}) = N - 1
      BY FS_RemoveElement
  <2>2. Before(R, S, i) \in SUBSET (S \ {i})
      BY DEF Before, Orders
  <2>3. rank(i) <= N - 1
      BY <2>1, <2>2, FS_Subset
  <2> QED BY <1>1, <1>2, <2>3
<1>4. ASSUME NEW i \in S, NEW j \in S, <<i, j>> \in R
      PROVE  rank(i) < rank(j)
  <2>1. Before(R, S, i) \in SUBSET Before(R, S, j)
      BY <1>4 DEF Before, Orders
  <2>2. i \in Before(R, S, j) /\ i \notin Before(R, S, i)
      BY <1>4 DEF Before, Orders
  <2>3. rank(i) <= rank(j) /\ rank(i) # rank(j)
      BY <1>2, <2>1, <2>2, FS_Subset
  <2> QED BY <1>2, <2>3
<1>5. ASSUME NEW i \in S, NEW j \in S, rank(i) = rank(j)
      PROVE  i = j
  <2> HIDE DEF rank
  <2>1. ~ (rank(i) < rank(j)) /\ ~ (rank(j) < rank(i))
      BY <1>2, <1>5
  <2> QED BY <1>4, <2>1 DEF Orders
<1>6. ASSUME NEW k \in 1 .. N
      PROVE  \E i \in S : rank(i) = k - 1
  <2> DEFINE f == [i \in S |-> rank(i)]
  <2>1. f \in [S -> 0 .. (N - 1)]
      BY <1>3
  <2>2. f \in Injection(S, 0 .. (N - 1))
    <3> HIDE DEF rank
    <3>1. \A a, b \in S : f[a] = f[b] => a = b
        BY <1>5
    <3> HIDE DEF f
    <3> QED BY <2>1, <3>1, Fun_IsInj
  <2>3. IsFiniteSet(0 .. (N - 1)) /\ Cardinality(0 .. (N - 1)) = N
    <3>1. 0 \in Int /\ N - 1 \in Int /\ N > 0
        BY <1>1
    <3> QED BY <1>1, <3>1, FS_Interval
  <2>4. f \in Surjection(S, 0 .. (N - 1))
    <3> HIDE DEF f
    <3> QED BY <2>2, <2>3, FS_Injection
  <2>5. k - 1 \in 0 .. (N - 1)
      BY <1>1
  <2>6. \E i \in S : f[i] = k - 1
    <3> HIDE DEF f
    <3>1. \A t \in 0 .. (N - 1) : \E i \in S : f[i] = t
        BY <2>4 DEF Surjection
    <3> QED BY <2>5, <3>1
  <2> QED BY <2>6
<1> HIDE DEF rank
<1>7. ASSUME NEW k \in 1 .. N
      PROVE  Ranked(R, S)[k] \in S /\ rank(Ranked(R, S)[k]) = k - 1
  <2>1. Ranked(R, S)[k] = CHOOSE i \in S : rank(i) = k - 1
      BY DEF Ranked, rank
  <2> QED BY <1>6, <2>1
<1>8. Ranked(R, S) \in [1 .. N -> S]
    BY <1>7 DEF Ranked
<1>9. ASSUME NEW i \in S
      PROVE  \E k \in 1 .. N : Ranked(R, S)[k] = i
  <2>1. rank(i) + 1 \in 1 .. N
      BY <1>1, <1>3
  <2>2. Ranked(R, S)[rank(i) + 1] \in S /\ rank(Ranked(R, S)[rank(i) + 1]) = rank(i)
      BY <1>1, <1>3, <1>7, <2>1
  <2> QED BY <1>5, <2>1, <2>2
<1>10. ASSUME NEW k \in 1 .. N, NEW l \in 1 .. N, k < l
       PROVE  <<Ranked(R, S)[k], Ranked(R, S)[l]>> \in R
  <2> DEFINE a == Ranked(R, S)[k]
             b == Ranked(R, S)[l]
  <2>1. a \in S /\ b \in S /\ rank(a) = k - 1 /\ rank(b) = l - 1
      BY <1>7
  <2> HIDE DEF a, b
  <2>2. a # b /\ ~ (rank(b) < rank(a))
      BY <1>1, <1>10, <2>1
  <2>3. <<a, b>> \in R
      BY <1>4, <2>1, <2>2 DEF Orders
  <2> QED BY <2>3 DEF a, b
<1> QED BY <1>1, <1>8, <1>9, <1>10

--------------------------------------------------------------------------------
(* Sequences *)

\* A sequence, of whatever elements.
IsSequence(s) == s \in Seq(ToSet(s))

LEMMA SequenceDomain ==
    ASSUME NEW s, IsSequence(s)
    PROVE  Len(s) \in Nat /\ DOMAIN s = 1 .. Len(s) /\ s \in [1 .. Len(s) -> ToSet(s)]
BY LenProperties DEF IsSequence

\* A sequence is one of its elements.
LEMMA OwnElements ==
    ASSUME NEW A, NEW s \in Seq(A)
    PROVE  IsSequence(s) /\ ToSet(s) \in SUBSET A
<1>1. PICK n \in Nat : n = Len(s) /\ DOMAIN s = 1 .. n /\ s \in [1 .. n -> A]
    BY LenProperties
<1>2. s \in [1 .. n -> ToSet(s)] /\ ToSet(s) \in SUBSET A
    BY <1>1 DEF ToSet
<1>3. s \in Seq(ToSet(s))
    BY <1>2, SeqDef
<1> QED BY <1>2, <1>3 DEF IsSequence

--------------------------------------------------------------------------------
(* FlattenSeq *)

\* F is made of the first m sequences of ss, one after the other: its k-th element
\* is the c[k]-th of the r[k]-th of them.
Flattens(F, ss, m, r, c) ==
    /\ F = [k \in 1 .. Len(F) |-> ss[r[k]][c[k]]]
    /\ r \in [1 .. Len(F) -> 1 .. m] /\ c \in [1 .. Len(F) -> Nat]
    /\ \A k \in 1 .. Len(F) : c[k] \in DOMAIN ss[r[k]]
    /\ \A i \in 1 .. m : \A j \in DOMAIN ss[i] : \E k \in 1 .. Len(F) : r[k] = i /\ c[k] = j
    /\ \A k, l \in 1 .. Len(F) : k < l => r[k] < r[l] \/ (r[k] = r[l] /\ c[k] < c[l])

\* One more sequence at the end.
LEMMA FlattensStep ==
    ASSUME NEW A, NEW m \in Nat, NEW ss, NEW F \in Seq(A), NEW s \in Seq(A), s = ss[m + 1],
           NEW r, NEW c, Flattens(F, ss, m, r, c)
    PROVE  \E q, d : Flattens(F \o s, ss, m + 1, q, d)
<1>1. PICK L \in Nat : L = Len(F) /\ DOMAIN F = 1 .. L
    BY LenProperties
<1>2. PICK M \in Nat : M = Len(s) /\ DOMAIN s = 1 .. M
    BY LenProperties
<1> DEFINE G == F \o s
           q == [k \in 1 .. (L + M) |-> IF k <= L THEN r[k] ELSE m + 1]
           d == [k \in 1 .. (L + M) |-> IF k <= L THEN c[k] ELSE k - L]
<1>3. /\ G \in Seq(A) /\ Len(G) = L + M
      /\ \A k \in 1 .. (L + M) : G[k] = IF k <= L THEN F[k] ELSE s[k - L]
    BY <1>1, <1>2, ConcatProperties
<1>4. /\ r \in [1 .. L -> 1 .. m] /\ c \in [1 .. L -> Nat]
      /\ \A k \in 1 .. L : c[k] \in DOMAIN ss[r[k]] /\ F[k] = ss[r[k]][c[k]]
      /\ \A i \in 1 .. m : \A j \in DOMAIN ss[i] : \E k \in 1 .. L : r[k] = i /\ c[k] = j
      /\ \A k, l \in 1 .. L : k < l => r[k] < r[l] \/ (r[k] = r[l] /\ c[k] < c[l])
    BY <1>1 DEF Flattens
<1>5. ASSUME NEW k \in 1 .. (L + M)
      PROVE  /\ q[k] \in 1 .. (m + 1) /\ d[k] \in Nat
             /\ d[k] \in DOMAIN ss[q[k]] /\ G[k] = ss[q[k]][d[k]]
  <2>1. CASE k <= L
    <3>1. k \in 1 .. L
        BY <2>1
    <3>2. q[k] = r[k] /\ d[k] = c[k] /\ G[k] = F[k]
        BY <1>3, <2>1
    <3>3. r[k] \in 1 .. m /\ c[k] \in Nat
        BY <1>4, <3>1
    <3> QED BY <1>4, <3>1, <3>2, <3>3
  <2>2. CASE ~ (k <= L)
    <3>1. k - L \in 1 .. M /\ q[k] = m + 1 /\ d[k] = k - L /\ G[k] = s[k - L]
        BY <1>3, <2>2
    <3> QED BY <1>2, <3>1
  <2> QED BY <2>1, <2>2
<1>6. ASSUME NEW i \in 1 .. (m + 1), NEW j \in DOMAIN ss[i]
      PROVE  \E k \in 1 .. (L + M) : q[k] = i /\ d[k] = j
  <2>1. CASE i = m + 1
    <3>1. j \in 1 .. M /\ j + L \in 1 .. (L + M)
        BY <1>2, <2>1
    <3>2. q[j + L] = i /\ d[j + L] = j
        BY <2>1, <3>1
    <3> QED BY <3>1, <3>2
  <2>2. CASE i # m + 1
    <3>1. i \in 1 .. m
        BY <2>2
    <3>2. PICK k \in 1 .. L : r[k] = i /\ c[k] = j
        BY <1>4, <3>1
    <3>3. k \in 1 .. (L + M) /\ q[k] = i /\ d[k] = j
        BY <3>2
    <3> QED BY <3>3
  <2> QED BY <2>1, <2>2
<1>7. ASSUME NEW k \in 1 .. (L + M), NEW l \in 1 .. (L + M), k < l
      PROVE  q[k] < q[l] \/ (q[k] = q[l] /\ d[k] < d[l])
  <2>1. CASE l <= L
    <3>1. k \in 1 .. L /\ l \in 1 .. L
        BY <1>7, <2>1
    <3>2. q[k] = r[k] /\ d[k] = c[k] /\ q[l] = r[l] /\ d[l] = c[l]
        BY <3>1
    <3> QED BY <1>4, <1>7, <3>1, <3>2
  <2>2. CASE ~ (l <= L) /\ k <= L
    <3>1. k \in 1 .. L /\ q[k] = r[k] /\ q[l] = m + 1
        BY <2>2
    <3>2. r[k] \in 1 .. m
        BY <1>4, <3>1
    <3> QED BY <3>1, <3>2
  <2>3. CASE ~ (l <= L) /\ ~ (k <= L)
    <3>1. q[k] = m + 1 /\ q[l] = m + 1 /\ d[k] = k - L /\ d[l] = l - L
        BY <2>3
    <3> QED BY <1>7, <3>1
  <2> QED BY <2>1, <2>2, <2>3
<1>8. /\ q \in [1 .. (L + M) -> 1 .. (m + 1)] /\ d \in [1 .. (L + M) -> Nat]
  <2> HIDE DEF G
  <2>1. q = [k \in 1 .. (L + M) |-> q[k]] /\ d = [k \in 1 .. (L + M) |-> d[k]]
      OBVIOUS
  <2> HIDE DEF q, d
  <2> QED BY <1>5, <2>1
<1> HIDE DEF q, d
<1>9. G = [k \in 1 .. (L + M) |-> ss[q[k]][d[k]]]
  <2> HIDE DEF G
  <2>1. DOMAIN G = 1 .. (L + M) /\ G = [k \in DOMAIN G |-> G[k]]
    <3>1. Len(G) \in Nat /\ G \in [1 .. Len(G) -> A]
        BY <1>3, LenProperties
    <3> QED BY <1>3, <3>1
  <2> QED BY <1>5, <2>1
<1> HIDE DEF G
<1>10. Flattens(G, ss, m + 1, q, d)
    BY <1>3, <1>5, <1>6, <1>7, <1>8, <1>9 DEF Flattens
<1> QED BY <1>10 DEF G

\* FlattenSeq's recursion, on the number of sequences.
Joins(f, ss, m) ==
    f = [i \in 1 .. m |-> IF i = 1 THEN ss[i] ELSE f[i - 1] \o ss[i]]

LEMMA JoinsExist ==
    ASSUME NEW ss, NEW n \in Nat
    PROVE  \E f : Joins(f, ss, n)
<1> DEFINE S == {m \in Nat : ~ \E f : Joins(f, ss, m)}
<1> SUFFICES ASSUME S # {} PROVE FALSE
    OBVIOUS
<1>1. PICK m \in S : \A k \in S : m <= k
  <2>1. S \in SUBSET Nat
      OBVIOUS
  <2> HIDE DEF S
  <2> QED BY <2>1, LeastElementExists
<1>2. CASE m = 0
  <2> DEFINE f == [i \in 1 .. 0 |-> <<>>]
  <2>1. Joins(f, ss, 0)
      BY DEF Joins
  <2> QED BY <1>1, <1>2, <2>1
<1>3. CASE m # 0
  <2>1. m - 1 \in Nat /\ m - 1 \notin S /\ m \in Nat
      BY <1>1, <1>3
  <2>2. PICK f : Joins(f, ss, m - 1)
      BY <2>1
  <2> DEFINE last == IF m = 1 THEN ss[m] ELSE f[m - 1] \o ss[m]
             g == [i \in 1 .. m |-> IF i = m THEN last ELSE f[i]]
  <2>3. ASSUME NEW i \in 1 .. m
        PROVE  g[i] = IF i = 1 THEN ss[i] ELSE g[i - 1] \o ss[i]
    <3>1. i # 1 => i - 1 \in 1 .. m /\ i - 1 # m
        BY <2>1
    <3>2. i # 1 => g[i - 1] = f[i - 1]
      <4> HIDE DEF last
      <4> QED BY <3>1
    <3>3. CASE i = m
      <4>1. g[i] = last
          BY <3>3
      <4> QED BY <3>2, <3>3, <4>1
    <3>4. CASE i # m
      <4>1. i \in 1 .. (m - 1) /\ g[i] = f[i]
          BY <2>1, <3>4
      <4>2. f[i] = IF i = 1 THEN ss[i] ELSE f[i - 1] \o ss[i]
          BY <2>2, <4>1 DEF Joins
      <4> HIDE DEF g
      <4> QED BY <3>2, <4>1, <4>2
    <3> QED BY <3>3, <3>4
  <2>4. g = [i \in 1 .. m |-> g[i]]
      OBVIOUS
  <2> HIDE DEF g
  <2>5. Joins(g, ss, m)
      BY <2>3, <2>4 DEF Joins
  <2> QED BY <1>1, <2>5
<1> QED BY <1>2, <1>3

LEMMA FlattenSeqJoins ==
    ASSUME NEW ss, Len(ss) \in Nat, Len(ss) # 0
    PROVE  \E f : Joins(f, ss, Len(ss)) /\ FlattenSeq(ss) = f[Len(ss)]
<1> DEFINE rec(f) == [i \in 1 .. Len(ss) |-> IF i = 1 THEN ss[i] ELSE f[i - 1] \o ss[i]]
           F == CHOOSE f : f = rec(f)
<1>1. PICK f : Joins(f, ss, Len(ss))
    BY JoinsExist
<1>2. f = rec(f)
    BY <1>1 DEF Joins
<1>3. F = rec(F)
    BY <1>2
<1>4. FlattenSeq(ss) = F[Len(ss)]
    BY DEF FlattenSeq
<1> QED BY <1>3, <1>4 DEF Joins

\* FlattenSeq puts its sequences one after the other.
LEMMA FlattenSeqFacts ==
    ASSUME NEW A, NEW ss \in Seq(Seq(A))
    PROVE  /\ FlattenSeq(ss) \in Seq(A)
           /\ \E r, c : Flattens(FlattenSeq(ss), ss, Len(ss), r, c)
<1>1. PICK n \in Nat : n = Len(ss) /\ DOMAIN ss = 1 .. n
    BY LenProperties
<1>2. \A i \in 1 .. n : ss[i] \in Seq(A)
    BY <1>1, ElementOfSeq
<1>3. CASE n = 0
  <2>1. ss = <<>> /\ FlattenSeq(ss) = <<>>
    <3>1. ss = <<>>
        BY <1>1, <1>3, EmptySeq
    <3> QED BY <1>1, <1>3, <3>1 DEF FlattenSeq
  <2>2. Flattens(<<>>, ss, 0, <<>>, <<>>)
      BY DEF Flattens
  <2>3. FlattenSeq(ss) \in Seq(A)
      BY <2>1, EmptySeq
  <2>4. Flattens(FlattenSeq(ss), ss, Len(ss), <<>>, <<>>)
      BY <1>1, <1>3, <2>1, <2>2
  <2> QED BY <2>3, <2>4
<1>4. CASE n # 0
  <2>1. PICK f : Joins(f, ss, n) /\ FlattenSeq(ss) = f[n]
      BY <1>1, <1>4, FlattenSeqJoins
  <2> DEFINE Good(m) == f[m] \in Seq(A) /\ \E r, c : Flattens(f[m], ss, m, r, c)
             S == {m \in 1 .. n : ~ Good(m)}
  <2>2. ASSUME S # {}
        PROVE  FALSE
    <3>1. PICK m \in S : \A k \in S : m <= k
      <4>1. S \in SUBSET Nat
          OBVIOUS
      <4> HIDE DEF S
      <4> QED BY <2>2, <4>1, LeastElementExists
    <3>2. m \in 1 .. n /\ ~ Good(m)
        BY <3>1
    <3>3. CASE m = 1
      <4>1. f[m] = ss[1]
          BY <2>1, <3>2, <3>3 DEF Joins
      <4>2. PICK M \in Nat : M = Len(ss[1]) /\ DOMAIN ss[1] = 1 .. M /\ ss[1] \in [1 .. M -> A]
          BY <1>2, <3>2, <3>3, LenProperties
      <4> DEFINE r == [k \in 1 .. M |-> 1]
                 c == [k \in 1 .. M |-> k]
      <4>3. Flattens(ss[1], ss, 1, r, c)
        <5>1. ss[1] = [k \in 1 .. M |-> ss[r[k]][c[k]]]
            BY <4>2
        <5>2. r \in [1 .. M -> 1 .. 1] /\ c \in [1 .. M -> Nat]
            OBVIOUS
        <5>3. \A k \in 1 .. M : r[k] = 1 /\ c[k] = k
            OBVIOUS
        <5> HIDE DEF r, c
        <5>4. \A k \in 1 .. M : c[k] \in DOMAIN ss[r[k]]
            BY <4>2, <5>3
        <5>5. \A i \in 1 .. 1 : \A j \in DOMAIN ss[i] : \E k \in 1 .. M : r[k] = i /\ c[k] = j
            BY <4>2, <5>3
        <5>6. \A k, l \in 1 .. M : k < l => r[k] < r[l] \/ (r[k] = r[l] /\ c[k] < c[l])
            BY <5>3
        <5> QED BY <4>2, <5>1, <5>2, <5>4, <5>5, <5>6 DEF Flattens
      <4> HIDE DEF r, c
      <4> QED BY <1>2, <3>2, <3>3, <4>1, <4>3
    <3>4. CASE m # 1
      <4>1. PICK j \in 1 .. n : m = j + 1 /\ j \in Nat /\ m - 1 = j
        <5>1. m - 1 \in 1 .. n /\ m = (m - 1) + 1 /\ m - 1 \in Nat
            BY <3>2, <3>4
        <5> QED BY <5>1
      <4>2. Good(j)
        <5>1. ~ (m <= j)
            BY <4>1
        <5> HIDE DEF Good
        <5> QED BY <3>1, <4>1, <5>1
      <4>3. f[m] = f[j] \o ss[m]
          BY <2>1, <3>2, <3>4, <4>1 DEF Joins
      <4>4. ss[m] \in Seq(A)
          BY <1>2, <3>2
      <4>5. PICK r, c : Flattens(f[j], ss, j, r, c)
          BY <4>2
      <4>6. \E q, d : Flattens(f[j] \o ss[m], ss, j + 1, q, d)
          BY <4>1, <4>2, <4>4, <4>5, FlattensStep
      <4>7. f[j] \o ss[m] \in Seq(A)
          BY <4>2, <4>4, ConcatProperties
      <4> QED BY <3>2, <4>1, <4>3, <4>6, <4>7
    <3> QED BY <3>3, <3>4
  <2>3. Good(n)
      BY <1>4, <2>2
  <2> QED BY <1>1, <2>1, <2>3
<1> QED BY <1>3, <1>4

--------------------------------------------------------------------------------
(* Loops that filter *)

\* F is the sequence of the x[i] for the numbers i of I in turn.
Picks(F, x, I, r) ==
    /\ F = [k \in 1 .. Len(F) |-> x[r[k]]]
    /\ r \in [1 .. Len(F) -> I]
    /\ \A i \in I : \E k \in 1 .. Len(F) : r[k] = i
    /\ \A k, l \in 1 .. Len(F) : k < l => r[k] < r[l]

\* A loop that contributes one element or none.
OneOrNone(ss, n, x, I) == ss = [i \in 1 .. n |-> IF i \in I THEN <<x[i]>> ELSE <<>>]

LEMMA FlattenSeqPicks ==
    ASSUME NEW A, NEW n \in Nat, NEW I \in SUBSET (1 .. n), NEW x, \A i \in I : x[i] \in A,
           NEW ss, OneOrNone(ss, n, x, I)
    PROVE  /\ FlattenSeq(ss) \in Seq(A)
           /\ \E r : Picks(FlattenSeq(ss), x, I, r)
<1> DEFINE F == FlattenSeq(ss)
<1>1. ss \in Seq(Seq(A)) /\ Len(ss) = n
  <2>1. \A i \in 1 .. n : ss[i] \in Seq(A)
      BY EmptySeq DEF OneOrNone
  <2> QED BY <2>1, IsASeq DEF OneOrNone
<1>2. \A i \in 1 .. n : \A j \in DOMAIN ss[i] : i \in I /\ j = 1 /\ ss[i][j] = x[i]
    BY DEF OneOrNone
<1>3. \A i \in I : i \in 1 .. n /\ 1 \in DOMAIN ss[i]
    BY DEF OneOrNone
<1>4. F \in Seq(A)
    BY <1>1, FlattenSeqFacts
<1>5. PICK L \in Nat : L = Len(F)
    BY <1>4, LenProperties
<1>6. PICK r, c : Flattens(F, ss, n, r, c)
    BY <1>1, FlattenSeqFacts
<1> HIDE DEF F
<1>7. /\ F = [k \in 1 .. L |-> ss[r[k]][c[k]]]
      /\ r \in [1 .. L -> 1 .. n]
      /\ \A k \in 1 .. L : c[k] \in DOMAIN ss[r[k]]
      /\ \A i \in 1 .. n : \A j \in DOMAIN ss[i] : \E k \in 1 .. L : r[k] = i /\ c[k] = j
      /\ \A k, l \in 1 .. L : k < l => r[k] < r[l] \/ (r[k] = r[l] /\ c[k] < c[l])
    BY <1>5, <1>6 DEF Flattens
<1>8. \A k \in 1 .. L : r[k] \in I /\ c[k] = 1 /\ ss[r[k]][c[k]] = x[r[k]]
    BY <1>2, <1>7
<1>9. F = [k \in 1 .. L |-> x[r[k]]]
    BY <1>7, <1>8
<1>10. r \in [1 .. L -> I]
    BY <1>7, <1>8
<1>11. \A i \in I : \E k \in 1 .. L : r[k] = i
    BY <1>3, <1>7
<1>12. ASSUME NEW k \in 1 .. L, NEW l \in 1 .. L, k < l
       PROVE  r[k] < r[l]
  <2>1. c[k] = 1 /\ c[l] = 1
      BY <1>8
  <2> QED BY <1>7, <1>12, <2>1
<1>13. Picks(F, x, I, r)
    BY <1>5, <1>9, <1>10, <1>11, <1>12 DEF Picks
<1> QED BY <1>4, <1>13 DEF F

\* What a filtering loop picks.
Picked(s, x, I, r) ==
    /\ \A k \in DOMAIN s : r[k] \in I /\ s[k] = x[r[k]]
    /\ \A i \in I : \E k \in DOMAIN s : r[k] = i
    /\ \A k, l \in DOMAIN s : r[k] = r[l] => k = l

LEMMA PicksFacts ==
    ASSUME NEW s, IsSequence(s), NEW x, NEW I \in SUBSET Nat, NEW r, Picks(s, x, I, r)
    PROVE  Picked(s, x, I, r)
<1>1. PICK L \in Nat : L = Len(s) /\ DOMAIN s = 1 .. L
    BY SequenceDomain
<1>2. /\ s = [k \in 1 .. L |-> x[r[k]]] /\ r \in [1 .. L -> I]
      /\ \A i \in I : \E k \in 1 .. L : r[k] = i
      /\ \A k, l \in 1 .. L : k < l => r[k] < r[l]
    BY <1>1 DEF Picks
<1>3. ASSUME NEW k \in 1 .. L, NEW l \in 1 .. L, r[k] = r[l]
      PROVE  k = l
  <2>1. PICK i \in Nat : r[k] = i /\ r[l] = i
      BY <1>2, <1>3
  <2>2. ~ (r[k] < r[l]) /\ ~ (r[l] < r[k])
      BY <2>1
  <2> QED BY <1>2, <2>2
<1>4. \A k \in 1 .. L : r[k] \in I /\ s[k] = x[r[k]]
    BY <1>2
<1> QED BY <1>1, <1>2, <1>3, <1>4 DEF Picked

--------------------------------------------------------------------------------
(* Sequences of values, each once *)

\* The sequence s has each value of g once, at the place q says.
Arranges(s, g, q) ==
    /\ IsSequence(s)
    /\ q \in [1 .. Len(s) -> DOMAIN g]
    /\ \A d \in DOMAIN g : \E k \in 1 .. Len(s) : q[k] = d
    /\ \A k, l \in 1 .. Len(s) : q[k] = q[l] => k = l
    /\ \A k \in 1 .. Len(s) : s[k] = g[q[k]]

\* The lengths of the arrangements of one function are equal.
LEMMA ArrangedLength ==
    ASSUME NEW s, NEW g, NEW q, Arranges(s, g, q)
    PROVE  IsFiniteSet(DOMAIN g) /\ Cardinality(DOMAIN g) = Len(s)
<1>1. PICK L \in Nat : L = Len(s)
    BY SequenceDomain DEF Arranges
<1>2. q \in Bijection(1 .. L, DOMAIN g)
    BY <1>1, Fun_IsBij DEF Arranges
<1>3. 1 \in Int /\ L \in Int
    OBVIOUS
<1>4. IsFiniteSet(1 .. L) /\ Cardinality(1 .. L) = L
    BY <1>3, FS_Interval
<1> QED BY <1>1, <1>2, <1>4, FS_Bijection DEF ExistsBijection

LEMMA PicksArrange ==
    ASSUME NEW s, IsSequence(s), NEW x, NEW I \in SUBSET Nat, NEW r, Picks(s, x, I, r)
    PROVE  Arranges(s, [i \in I |-> x[i]], r)
<1> DEFINE g == [i \in I |-> x[i]]
<1>1. DOMAIN s = 1 .. Len(s)
    BY SequenceDomain
<1>2. r \in [1 .. Len(s) -> I]
    BY DEF Picks
<1>3. \A k \in DOMAIN s : s[k] = g[r[k]]
  <2>1. \A k \in DOMAIN s : r[k] \in I /\ s[k] = x[r[k]]
      BY PicksFacts DEF Picked
  <2> QED BY <2>1
<1>4. DOMAIN g = I
    OBVIOUS
<1>5. Picked(s, x, I, r)
    BY PicksFacts
<1>6. \A i \in I : \E k \in 1 .. Len(s) : r[k] = i
    BY <1>1, <1>5 DEF Picked
<1>7. \A k, l \in 1 .. Len(s) : r[k] = r[l] => k = l
    BY <1>1, <1>5 DEF Picked
<1> HIDE DEF g
<1>8. Arranges(s, g, r)
    BY <1>1, <1>2, <1>3, <1>4, <1>6, <1>7 DEF Arranges
<1> QED BY <1>8 DEF g

\* Two functions on different sets, as one.
Joined(g, h) == [d \in DOMAIN g \cup DOMAIN h |-> IF d \in DOMAIN g THEN g[d] ELSE h[d]]

LEMMA ConcatArranges ==
    ASSUME NEW s, NEW t, NEW g, NEW h, NEW q, NEW r, Arranges(s, g, q), Arranges(t, h, r),
           DOMAIN g \cap DOMAIN h = {}
    PROVE  \E u : Arranges(s \o t, Joined(g, h), u)
<1>1. PICK L \in Nat : L = Len(s) /\ DOMAIN s = 1 .. L /\ s \in [1 .. L -> ToSet(s)]
    BY SequenceDomain DEF Arranges
<1>2. PICK M \in Nat : M = Len(t) /\ DOMAIN t = 1 .. M /\ t \in [1 .. M -> ToSet(t)]
    BY SequenceDomain DEF Arranges
<1> DEFINE A == ToSet(s) \cup ToSet(t)
           u == [k \in 1 .. (L + M) |-> IF k <= L THEN q[k] ELSE r[k - L]]
           st == s \o t
           gh == Joined(g, h)
<1>3. s \in Seq(A) /\ t \in Seq(A)
    BY SeqMonotonic DEF Arranges, IsSequence
<1>4. /\ st \in Seq(A) /\ Len(st) = L + M
      /\ \A k \in 1 .. (L + M) : st[k] = IF k <= L THEN s[k] ELSE t[k - L]
    BY <1>1, <1>2, <1>3, ConcatProperties
<1>5. IsSequence(st)
    BY <1>4, OwnElements
<1>6. /\ q \in [1 .. L -> DOMAIN g] /\ \A d \in DOMAIN g : \E k \in 1 .. L : q[k] = d
      /\ \A k, l \in 1 .. L : q[k] = q[l] => k = l
      /\ \A k \in 1 .. L : s[k] = g[q[k]]
    BY <1>1 DEF Arranges
<1>7. /\ r \in [1 .. M -> DOMAIN h] /\ \A d \in DOMAIN h : \E k \in 1 .. M : r[k] = d
      /\ \A k, l \in 1 .. M : r[k] = r[l] => k = l
      /\ \A k \in 1 .. M : t[k] = h[r[k]]
    BY <1>2 DEF Arranges
<1>8. /\ DOMAIN gh = DOMAIN g \cup DOMAIN h
      /\ \A d \in DOMAIN g : gh[d] = g[d]
      /\ \A d \in DOMAIN h : gh[d] = h[d]
    BY DEF Joined
<1>9. \A k \in 1 .. (L + M) : \/ k \in 1 .. L /\ k <= L
                              \/ k - L \in 1 .. M /\ ~ (k <= L)
    OBVIOUS
<1>10. \A k \in 1 .. (L + M) : u[k] = IF k <= L THEN q[k] ELSE r[k - L]
    OBVIOUS
<1>11. u = [k \in 1 .. (L + M) |-> u[k]]
    OBVIOUS
<1> HIDE DEF u, st, gh
<1>12. ASSUME NEW k \in 1 .. (L + M)
       PROVE  u[k] \in DOMAIN gh /\ st[k] = gh[u[k]]
  <2>1. CASE k \in 1 .. L /\ k <= L
      BY <1>4, <1>6, <1>8, <1>10, <2>1
  <2>2. CASE k - L \in 1 .. M /\ ~ (k <= L)
      BY <1>4, <1>7, <1>8, <1>10, <2>2
  <2> QED BY <1>9, <2>1, <2>2
<1>13. ASSUME NEW d \in DOMAIN gh
       PROVE  \E k \in 1 .. (L + M) : u[k] = d
  <2>1. CASE d \in DOMAIN g
    <3>1. PICK k \in 1 .. L : q[k] = d
        BY <1>6, <2>1
    <3>2. k \in 1 .. (L + M) /\ k <= L
        OBVIOUS
    <3> QED BY <1>10, <3>1, <3>2
  <2>2. CASE d \in DOMAIN h
    <3>1. PICK k \in 1 .. M : r[k] = d
        BY <1>7, <2>2
    <3>2. k + L \in 1 .. (L + M) /\ ~ (k + L <= L) /\ (k + L) - L = k
        OBVIOUS
    <3> QED BY <1>10, <3>1, <3>2
  <2> QED BY <1>8, <2>1, <2>2
<1>14. ASSUME NEW k \in 1 .. (L + M), NEW l \in 1 .. (L + M), u[k] = u[l]
       PROVE  k = l
  <2>1. CASE k \in 1 .. L /\ k <= L /\ l \in 1 .. L /\ l <= L
      BY <1>6, <1>10, <1>14, <2>1
  <2>2. CASE k - L \in 1 .. M /\ ~ (k <= L) /\ l - L \in 1 .. M /\ ~ (l <= L)
    <3>1. k - L = l - L
        BY <1>7, <1>10, <1>14, <2>2
    <3> QED BY <3>1
  <2>3. CASE k \in 1 .. L /\ k <= L /\ l - L \in 1 .. M /\ ~ (l <= L)
      BY <1>6, <1>7, <1>10, <1>14, <2>3
  <2>4. CASE k - L \in 1 .. M /\ ~ (k <= L) /\ l \in 1 .. L /\ l <= L
      BY <1>6, <1>7, <1>10, <1>14, <2>4
  <2> QED BY <1>9, <2>1, <2>2, <2>3, <2>4
<1>15. u \in [1 .. (L + M) -> DOMAIN gh]
    BY <1>11, <1>12
<1>16. Arranges(st, gh, u)
    BY <1>4, <1>5, <1>12, <1>13, <1>14, <1>15 DEF Arranges
<1> QED BY <1>16 DEF st, gh

\* Places renamed: those of g are the names of x.
LEMMA RenamedArranges ==
    ASSUME NEW s, NEW g, NEW q, Arranges(s, g, q), NEW x, NEW h,
           \A d \in DOMAIN g : x[d] \in DOMAIN h /\ h[x[d]] = g[d],
           \A e \in DOMAIN h : \E d \in DOMAIN g : x[d] = e,
           \A d, e \in DOMAIN g : x[d] = x[e] => d = e
    PROVE  \E u : Arranges(s, h, u)
<1> DEFINE u == [k \in 1 .. Len(s) |-> x[q[k]]]
<1>1. \A k \in 1 .. Len(s) : q[k] \in DOMAIN g /\ u[k] = x[q[k]]
    BY DEF Arranges
<1>2. u = [k \in 1 .. Len(s) |-> u[k]]
    OBVIOUS
<1> HIDE DEF u
<1>3. u \in [1 .. Len(s) -> DOMAIN h]
    BY <1>1, <1>2
<1>4. \A e \in DOMAIN h : \E k \in 1 .. Len(s) : u[k] = e
  <2> SUFFICES ASSUME NEW e \in DOMAIN h PROVE \E k \in 1 .. Len(s) : u[k] = e
      OBVIOUS
  <2>1. PICK d \in DOMAIN g : x[d] = e
      OBVIOUS
  <2>2. PICK k \in 1 .. Len(s) : q[k] = d
      BY DEF Arranges
  <2> QED BY <1>1, <2>1, <2>2
<1>5. \A k, l \in 1 .. Len(s) : u[k] = u[l] => k = l
    BY <1>1 DEF Arranges
<1>6. \A k \in 1 .. Len(s) : s[k] = h[u[k]]
    BY <1>1 DEF Arranges
<1>7. IsSequence(s)
    BY DEF Arranges
<1> QED BY <1>3, <1>4, <1>5, <1>6, <1>7 DEF Arranges

\* The same values in the order of o.
Reorders(t, s, L, o) ==
    /\ t = [k \in 1 .. L |-> s[o[k]]]
    /\ o \in [1 .. L -> 1 .. L]
    /\ \A i \in 1 .. L : \E k \in 1 .. L : o[k] = i
    /\ \A k, l \in 1 .. L : o[k] = o[l] => k = l

LEMMA ReorderedArranges ==
    ASSUME NEW s, NEW g, NEW q, Arranges(s, g, q), NEW o, NEW t, Reorders(t, s, Len(s), o)
    PROVE  \E u : Arranges(t, g, u)
<1>a. PICK L \in Nat : L = Len(s)
    BY SequenceDomain DEF Arranges
<1>b. /\ t = [k \in 1 .. L |-> s[o[k]]]
      /\ o \in [1 .. L -> 1 .. L]
      /\ \A i \in 1 .. L : \E k \in 1 .. L : o[k] = i
      /\ \A k, l \in 1 .. L : o[k] = o[l] => k = l
    BY <1>a DEF Reorders
<1> DEFINE u == [k \in 1 .. L |-> q[o[k]]]
<1>1. \A k \in 1 .. L : o[k] \in 1 .. L /\ u[k] = q[o[k]] /\ t[k] = s[o[k]]
    BY <1>b
<1>2. t \in Seq(ToSet(s)) /\ Len(t) = L
  <2>1. DOMAIN s = 1 .. L
      BY <1>a, SequenceDomain DEF Arranges
  <2>2. t \in [1 .. L -> ToSet(s)]
      BY <1>b, <2>1 DEF ToSet
  <2> QED BY <2>2, SeqDef
<1>3. IsSequence(t)
    BY <1>2, OwnElements
<1>4. u = [k \in 1 .. L |-> u[k]]
    OBVIOUS
<1> HIDE DEF u
<1>5. /\ q \in [1 .. L -> DOMAIN g] /\ \A d \in DOMAIN g : \E k \in 1 .. L : q[k] = d
      /\ \A k, l \in 1 .. L : q[k] = q[l] => k = l
      /\ \A k \in 1 .. L : s[k] = g[q[k]]
    BY <1>a DEF Arranges
<1>6. u \in [1 .. L -> DOMAIN g]
    BY <1>1, <1>4, <1>5
<1>7. ASSUME NEW d \in DOMAIN g
      PROVE  \E k \in 1 .. L : u[k] = d
  <2>1. PICK i \in 1 .. L : q[i] = d
      BY <1>5
  <2>2. PICK k \in 1 .. L : o[k] = i
      BY <1>b
  <2> QED BY <1>1, <2>1, <2>2
<1>8. \A k, l \in 1 .. L : u[k] = u[l] => k = l
    BY <1>b, <1>1, <1>5
<1>9. \A k \in 1 .. L : t[k] = g[u[k]]
    BY <1>1, <1>5
<1>10. Arranges(t, g, u)
    BY <1>2, <1>3, <1>6, <1>7, <1>8, <1>9 DEF Arranges
<1> QED BY <1>10

\* Every element of the sequences of ss, by its place.
Cells(ss) == {e \in (DOMAIN ss) \X Nat : e[2] \in DOMAIN ss[e[1]]}

ElementsOf(ss) == [e \in Cells(ss) |-> ss[e[1]][e[2]]]

LEMMA FlattenSeqArranges ==
    ASSUME NEW A, NEW ss \in Seq(Seq(A))
    PROVE  \E q : Arranges(FlattenSeq(ss), ElementsOf(ss), q)
<1> DEFINE F == FlattenSeq(ss)
<1>1. PICK n \in Nat : n = Len(ss) /\ DOMAIN ss = 1 .. n
    BY LenProperties
<1>2. F \in Seq(A) /\ \E r, c : Flattens(F, ss, n, r, c)
    BY <1>1, FlattenSeqFacts
<1>3. PICK L \in Nat : L = Len(F)
    BY <1>2, LenProperties
<1>4. PICK r, c : Flattens(F, ss, n, r, c)
    BY <1>2
<1> HIDE DEF F
<1>5. /\ F = [k \in 1 .. L |-> ss[r[k]][c[k]]]
      /\ r \in [1 .. L -> 1 .. n] /\ c \in [1 .. L -> Nat]
      /\ \A k \in 1 .. L : c[k] \in DOMAIN ss[r[k]]
      /\ \A i \in 1 .. n : \A j \in DOMAIN ss[i] : \E k \in 1 .. L : r[k] = i /\ c[k] = j
      /\ \A k, l \in 1 .. L : k < l => r[k] < r[l] \/ (r[k] = r[l] /\ c[k] < c[l])
    BY <1>3, <1>4 DEF Flattens
<1> DEFINE q == [k \in 1 .. L |-> <<r[k], c[k]>>]
<1>6. ASSUME NEW k \in 1 .. L
      PROVE  q[k] \in Cells(ss) /\ F[k] = ElementsOf(ss)[q[k]]
  <2>1. r[k] \in DOMAIN ss /\ c[k] \in Nat /\ c[k] \in DOMAIN ss[r[k]] /\ F[k] = ss[r[k]][c[k]]
      BY <1>1, <1>5
  <2>2. <<r[k], c[k]>> \in Cells(ss)
      BY <2>1 DEF Cells
  <2> QED BY <2>1, <2>2 DEF ElementsOf
<1>7. ASSUME NEW e \in Cells(ss)
      PROVE  \E k \in 1 .. L : q[k] = e
  <2>1. e = <<e[1], e[2]>> /\ e[1] \in 1 .. n /\ e[2] \in DOMAIN ss[e[1]]
      BY <1>1 DEF Cells
  <2>2. PICK k \in 1 .. L : r[k] = e[1] /\ c[k] = e[2]
      BY <1>5, <2>1
  <2> QED BY <2>1, <2>2
<1>8. ASSUME NEW k \in 1 .. L, NEW l \in 1 .. L, q[k] = q[l]
      PROVE  k = l
  <2>1. r[k] = r[l] /\ c[k] = c[l] /\ r[k] \in Nat /\ c[k] \in Nat
      BY <1>5, <1>8
  <2>2. ~ (r[k] < r[l]) /\ ~ (c[k] < c[l]) /\ ~ (r[l] < r[k]) /\ ~ (c[l] < c[k])
      BY <2>1
  <2>3. ~ (k < l) /\ ~ (l < k)
      BY <1>5, <2>2
  <2> QED BY <2>3
<1>9. q = [k \in 1 .. L |-> q[k]]
    OBVIOUS
<1> HIDE DEF q
<1>10. DOMAIN ElementsOf(ss) = Cells(ss) /\ q \in [1 .. L -> Cells(ss)]
    BY <1>6, <1>9 DEF ElementsOf
<1>11. IsSequence(F)
    BY <1>2, OwnElements
<1>12. Arranges(F, ElementsOf(ss), q)
    BY <1>3, <1>6, <1>7, <1>8, <1>10, <1>11 DEF Arranges
<1> QED BY <1>12 DEF F
================================================================================
