---------------------------- MODULE TreeEngineProofs ----------------------------
(***************************************************************************)
(* The tree of every document, however long: it is what validate() asks    *)
(* for, each heading is below the nearest node that may be its parent, and *)
(* text is in its place and not lost.  The open path is the tree's right   *)
(* edge: its m-th node has depth m - 1 and every later node is deeper.     *)
(***************************************************************************)
EXTENDS TreeEngine, DataFacts

Increasing(s) == \A i, j \in DOMAIN s : i < j => s[i] < s[j]

\* The places in s are in reading order, after lo and up to hi.
Between(s, lo, hi) == Increasing(s) /\ \A k \in DOMAIN s : lo < s[k] /\ s[k] <= hi

StackInv ==
    /\ Len(stack) > 0 /\ stack[1] = 1 /\ stack[Len(stack)] = Len(nodes)
    /\ \A m \in DOMAIN stack : stack[m] \in DOMAIN nodes /\ nodes[stack[m]].depth = m - 1
    /\ \A m \in DOMAIN stack : \A j \in (stack[m] + 1)..Len(nodes) : nodes[j].depth >= m

Children(p) == {j \in 2..Len(nodes) : nodes[j].parent = p}

TreeInv ==
    /\ ValidTree /\ NearestValidAncestor
    /\ \A p \in DOMAIN nodes : nodes[p].children = Cardinality(Children(p))

\* Where the text of the i-th of the nodes ns ends.
End(ns, i) == IF i < Len(ns) THEN ns[i + 1].block - 1 ELSE read

TextsIn(ns) == \A i \in DOMAIN ns : Between(ns[i].body, ns[i].block, End(ns, i))

TextInv ==
    /\ nodes[1].block = 0 /\ nodes[Len(nodes)].block <= read
    /\ \A i \in 1..(Len(nodes) - 1) : nodes[i].block < nodes[i + 1].block
    /\ TextsIn(nodes)
    /\ pc = "reading" => nodes[Len(nodes)].body = <<>>
    /\ Between(parts, nodes[Len(nodes)].block, read)
    /\ Between(preface, 0, read)

Elements(s) == {s[i] : i \in DOMAIN s}

\* The text before the first heading of a document without numbered sections.
Dropped(k) == ~Numbered /\ (Len(nodes) = 1 \/ k < nodes[2].block)

CoverInv ==
    /\ pc # "failed" =>
         \A k \in 1..read :
           k \in Placed \cup skipped \cup Elements(parts) \cup Elements(preface) \/ Dropped(k)
    /\ Len(nodes) > 1 \/ ~Numbered => preface = <<>>
    /\ Numbered /\ Len(nodes) = 1 => parts = <<>>
    /\ pc = "done" => read = Len(document) /\ parts = <<>>
    /\ Len(nodes) = 1 /\ pc = "reading" => skipped = {}

IInv == TypeOK /\ StackInv /\ TreeInv /\ TextInv /\ CoverInv

--------------------------------------------------------------------------------
(* Sequences of places, and nodes field by field *)

LEMMA BetweenEmpty ==
    ASSUME NEW lo, NEW hi
    PROVE  Between(<<>>, lo, hi) /\ Elements(<<>>) = {}
BY DEF Between, Increasing, Elements

LEMMA BetweenWider ==
    ASSUME NEW s \in Seq(Nat), NEW lo \in Nat, NEW hi \in Nat, NEW top \in Nat,
           Between(s, lo, hi), hi <= top
    PROVE  Between(s, lo, top)
BY DEF Between

LEMMA BetweenAppend ==
    ASSUME NEW s \in Seq(Nat), NEW lo \in Nat, NEW hi \in Nat, NEW x \in Nat,
           Between(s, lo, hi), lo < x, hi < x
    PROVE  /\ Append(s, x) \in Seq(Nat)
           /\ Between(Append(s, x), lo, x)
           /\ Elements(Append(s, x)) = Elements(s) \cup {x}
<1> DEFINE t == Append(s, x)
<1> PICK n \in Nat : n = Len(s)
    OBVIOUS
<1>1. /\ t \in Seq(Nat) /\ Len(t) = n + 1 /\ t[n + 1] = x
      /\ \A i \in 1..n : t[i] = s[i] /\ s[i] \in Nat
      /\ DOMAIN t = 1..(n + 1) /\ DOMAIN s = 1..n
    OBVIOUS
<1> HIDE DEF t
<1>2. Increasing(t)
  <2> SUFFICES ASSUME NEW i \in 1..(n + 1), NEW j \in 1..(n + 1), i < j
               PROVE  t[i] < t[j]
      BY <1>1 DEF Increasing
  <2>0. i \in 1..n
      OBVIOUS
  <2>1. i \in 1..n /\ t[i] = s[i] /\ s[i] \in Nat /\ s[i] <= hi
      BY <1>1, <2>0 DEF Between
  <2>2. CASE j \in 1..n
      BY <1>1, <2>1, <2>2 DEF Between, Increasing
  <2>3. CASE j = n + 1
      BY <1>1, <2>1, <2>3
  <2> QED BY <2>2, <2>3
<1>3. \A i \in DOMAIN t : lo < t[i] /\ t[i] <= x
    BY <1>1 DEF Between
<1>4. Elements(t) = Elements(s) \cup {x}
  <2>1. \A i \in DOMAIN s : t[i] = s[i] /\ i \in DOMAIN t
      BY <1>1
  <2>2. \A i \in DOMAIN t : t[i] = x \/ (i \in DOMAIN s /\ t[i] = s[i])
      BY <1>1
  <2>3. n + 1 \in DOMAIN t
      BY <1>1
  <2> QED BY <1>1, <2>1, <2>2, <2>3 DEF Elements
<1> QED BY <1>1, <1>2, <1>3, <1>4 DEF Between, t

LEMMA NodeFields ==
    ASSUME NEW d \in Node
    PROVE  /\ d.block \in Nat /\ d.parent \in Nat /\ d.depth \in 0..MaxDepth
           /\ d.order \in Nat /\ d.children \in Nat /\ d.body \in Seq(Nat)
BY DEF Node

\* The nodes a and b differ at most in their text and the number of their children.
SamePlace(a, b) ==
    a.block = b.block /\ a.parent = b.parent /\ a.depth = b.depth /\ a.order = b.order

LEMMA NodeTexts ==
    ASSUME NEW d \in Node, NEW s \in Seq(Nat), NEW e, e = [d EXCEPT !.body = s]
    PROVE  e \in Node /\ SamePlace(e, d) /\ e.children = d.children /\ e.body = s
BY DEF Node, SamePlace

LEMMA NodeCounts ==
    ASSUME NEW d \in Node, NEW c \in Nat, NEW e, e = [d EXCEPT !.children = c]
    PROVE  e \in Node /\ SamePlace(e, d) /\ e.children = c /\ e.body = d.body
BY DEF Node, SamePlace

LEMMA Appended ==
    ASSUME NEW S, NEW s \in Seq(S), NEW x \in S, NEW t, t = Append(s, x)
    PROVE  /\ t \in Seq(S) /\ Len(t) = Len(s) + 1 /\ t[Len(s) + 1] = x
           /\ \A i \in 1..Len(s) : t[i] = s[i]
OBVIOUS

LEMMA NodeMade ==
    ASSUME NEW b \in Nat, NEW p \in Nat, NEW d \in 0..MaxDepth, NEW o \in Nat
    PROVE  LET e == [block |-> b, parent |-> p, depth |-> d, order |-> o,
                     children |-> 0, body |-> <<>>]
           IN  /\ e \in Node /\ e.block = b /\ e.parent = p /\ e.depth = d
               /\ e.order = o /\ e.children = 0 /\ e.body = <<>>
BY DEF Node

\* ns is the tree of nodes with the text b at the last one.
Settled(ns, b) ==
    /\ ns \in Seq(Node) /\ Len(ns) = Len(nodes)
    /\ \A i \in DOMAIN nodes :
         /\ SamePlace(ns[i], nodes[i]) /\ ns[i].children = nodes[i].children
         /\ i # Len(nodes) => ns[i].body = nodes[i].body
    /\ ns[Len(nodes)].body = b

LEMMA SettledSame ==
    ASSUME nodes \in Seq(Node)
    PROVE  Settled(nodes, nodes[Len(nodes)].body)
BY DEF Settled, SamePlace

LEMMA SettledPut ==
    ASSUME nodes \in Seq(Node), Len(nodes) > 0, NEW b \in Seq(Nat),
           NEW ns, ns = [nodes EXCEPT ![Len(nodes)].body = b]
    PROVE  Settled(ns, b)
<1> PICK n \in Nat : n = Len(nodes)
    OBVIOUS
<1> DEFINE e == [nodes[n] EXCEPT !.body = b]
<1>1. nodes[n] \in Node
    OBVIOUS
<1>2. e \in Node /\ SamePlace(e, nodes[n]) /\ e.children = nodes[n].children /\ e.body = b
    BY <1>1, NodeTexts
<1>3. ns = [nodes EXCEPT ![n] = e]
    OBVIOUS
<1> HIDE DEF e
<1>4. /\ ns \in Seq(Node) /\ Len(ns) = n /\ ns[n] = e
      /\ \A i \in 1..n : i # n => ns[i] = nodes[i]
    BY <1>2, <1>3
<1> QED BY <1>2, <1>4 DEF Settled, SamePlace

--------------------------------------------------------------------------------
(* The introduction: Kept, by the least length at which a fact would fail *)

\* What the n-th block of the preface adds to s.
Step(n, s) == IF document[preface[n]].cover THEN s ELSE Append(s, preface[n])

\* f is Kept up to n.
Computes(f, n) == f = [k \in 0..n |-> IF k = 0 THEN <<>> ELSE Step(k, f[k - 1])]

\* A definition by recursion on the length of what has been read of the preface.
LEMMA KeptExists ==
    ASSUME NEW N \in Nat
    PROVE  \E f : Computes(f, N)
<1> DEFINE S == {k \in Nat : ~ \E f : Computes(f, k)}
<1> SUFFICES ASSUME S # {} PROVE FALSE
    OBVIOUS
<1>1. S \in SUBSET Nat
    OBVIOUS
<1>2. PICK m \in S : \A k \in S : m <= k
  <2> HIDE DEF S
  <2> QED BY <1>1, LeastElementExists
<1>3. CASE m = 0
  <2> DEFINE f == [k \in 0..0 |-> <<>>]
  <2>1. Computes(f, 0)
      BY DEF Computes
  <2> QED BY <1>2, <1>3, <2>1
<1>4. CASE m # 0
  <2>1. m - 1 \in Nat /\ m - 1 \notin S /\ m \in Nat
      BY <1>2, <1>4
  <2>2. PICK f : Computes(f, m - 1)
      BY <2>1
  <2> DEFINE g == [k \in 0..m |-> IF k = m THEN Step(m, f[m - 1]) ELSE f[k]]
  <2>3. ASSUME NEW k \in 0..m
        PROVE  g[k] = IF k = 0 THEN <<>> ELSE Step(k, g[k - 1])
    <3>1. CASE k = m
      <4>1. g[m - 1] = f[m - 1] /\ g[k] = Step(m, f[m - 1])
          BY <2>1, <3>1
      <4> QED BY <1>4, <3>1, <4>1
    <3>2. CASE k # m
      <4>1. k \in 0..(m - 1) /\ g[k] = f[k]
          BY <2>1, <3>2
      <4>2. k # 0 => k - 1 \in 0..m /\ k - 1 # m
          BY <2>1, <4>1
      <4>3. k # 0 => g[k - 1] = f[k - 1]
          BY <4>2
      <4>4. f[k] = IF k = 0 THEN <<>> ELSE Step(k, f[k - 1])
          BY <2>2, <4>1 DEF Computes
      <4> QED BY <4>1, <4>3, <4>4
    <3> QED BY <3>1, <3>2
  <2>4. g = [k \in 0..m |-> g[k]]
      OBVIOUS
  <2> HIDE DEF g
  <2>5. Computes(g, m)
      BY <2>3, <2>4 DEF Computes
  <2> QED BY <1>2, <2>5
<1> QED BY <1>3, <1>4

LEMMA KeptComputes ==
    ASSUME Len(preface) \in Nat
    PROVE  Computes(Kept, Len(preface))
<1> DEFINE N == Len(preface)
           rec(f) == [n \in 0..N |-> IF n = 0 THEN <<>>
                        ELSE IF document[preface[n]].cover THEN f[n - 1]
                        ELSE Append(f[n - 1], preface[n])]
<1>1. PICK f : Computes(f, N)
    BY KeptExists
<1>2. f = rec(f)
    BY <1>1 DEF Computes, Step
<1>3. Kept = CHOOSE g : g = rec(g)
    BY DEF Kept
<1>4. Kept = rec(Kept)
    BY <1>2, <1>3
<1> QED BY <1>4 DEF Computes, Step

LEMMA KeptFacts ==
    ASSUME preface \in Seq(Nat), NEW hi \in Nat, Between(preface, 0, hi)
    PROVE  /\ Prose \in Seq(Nat) /\ Between(Prose, 0, hi)
           /\ Elements(Prose) \subseteq Elements(preface)
<1> PICK N \in Nat : N = Len(preface)
    OBVIOUS
<1> DEFINE Good(n) ==
        /\ Kept[n] \in Seq(Nat)
        /\ Between(Kept[n], 0, IF n = 0 THEN 0 ELSE preface[n])
        /\ Elements(Kept[n]) \subseteq Elements(preface)
           S == {n \in 0..N : ~Good(n)}
<1>1. \A n \in 0..N : Kept[n] = IF n = 0 THEN <<>> ELSE Step(n, Kept[n - 1])
  <2>1. Computes(Kept, N)
      BY KeptComputes
  <2>2. PICK f : f = Kept
      OBVIOUS
  <2>3. f = [k \in 0..N |-> IF k = 0 THEN <<>> ELSE Step(k, f[k - 1])]
      BY <2>1, <2>2 DEF Computes
  <2> QED BY <2>2, <2>3
<1>2. \A n \in 1..N : preface[n] \in Nat /\ 0 < preface[n] /\ preface[n] <= hi
    BY DEF Between
<1>3. ASSUME S # {} PROVE FALSE
  <2>1. S \in SUBSET Nat
      OBVIOUS
  <2>2. PICK m \in S : \A k \in S : m <= k
    <3> HIDE DEF S
    <3> QED BY <1>3, <2>1, LeastElementExists
  <2>3. m \in 0..N /\ ~Good(m)
      OBVIOUS
  <2>4. CASE m = 0
    <3>1. Kept[m] = <<>>
        BY <1>1, <2>4
    <3> QED BY <2>3, <2>4, <3>1, BetweenEmpty
  <2>5. CASE m # 0
    <3>1. m - 1 \in 0..N /\ m \in 1..N /\ m - 1 \notin S
        BY <2>2, <2>3, <2>5
    <3>2. PICK s : s = Kept[m - 1]
        OBVIOUS
    <3>3. PICK lo \in Nat : lo = IF m - 1 = 0 THEN 0 ELSE preface[m - 1]
        BY <1>2, <3>1
    <3>4. s \in Seq(Nat) /\ Between(s, 0, lo) /\ Elements(s) \subseteq Elements(preface)
        BY <3>1, <3>2, <3>3
    <3>5. preface[m] \in Nat /\ lo < preface[m] /\ 0 < preface[m] /\ preface[m] \in Elements(preface)
      <4>1. m \in DOMAIN preface /\ (m - 1 # 0 => m - 1 \in DOMAIN preface /\ m - 1 < m)
          BY <3>1
      <4>2. m - 1 # 0 => preface[m - 1] < preface[m]
          BY <4>1 DEF Between, Increasing
      <4>3. preface[m] \in Elements(preface)
          BY <4>1 DEF Elements
      <4> QED BY <1>2, <3>1, <3>3, <4>2, <4>3
    <3>6. Kept[m] = IF document[preface[m]].cover THEN s ELSE Append(s, preface[m])
        BY <1>1, <2>5, <3>1, <3>2 DEF Step
    <3>7. Kept[m] \in Seq(Nat) /\ Between(Kept[m], 0, preface[m])
            /\ Elements(Kept[m]) \subseteq Elements(preface)
      <4>1. CASE document[preface[m]].cover
        <5>1. lo <= preface[m]
            BY <3>5
        <5> QED BY <3>4, <3>5, <3>6, <4>1, <5>1, BetweenWider
      <4>2. CASE ~document[preface[m]].cover
          BY <3>4, <3>5, <3>6, <4>2, BetweenAppend
      <4> QED BY <4>1, <4>2
    <3> QED BY <2>3, <2>5, <3>7
  <2> QED BY <2>4, <2>5
<1>4. Good(N)
    BY <1>3
<1>5. Prose = Kept[N]
    BY DEF Prose
<1>6. PICK lo \in Nat : lo = IF N = 0 THEN 0 ELSE preface[N]
    BY <1>2
<1>7. lo <= hi
    BY <1>2, <1>6
<1>8. Prose \in Seq(Nat) /\ Between(Prose, 0, lo) /\ Elements(Prose) \subseteq Elements(preface)
    BY <1>4, <1>5, <1>6
<1> QED BY <1>7, <1>8, BetweenWider

--------------------------------------------------------------------------------
(* Popping, flushing and opening *)

\* A heading that asks for depth target goes below the k-th node of the open path.
GoesBelow(k, target) ==
    /\ k \in DOMAIN stack
    /\ k = 1 \/ k - 1 < target
    /\ k = Len(stack) \/ k >= target

LEMMA NodesNonempty ==
    ASSUME TypeOK, StackInv
    PROVE  /\ Len(nodes) \in Nat \ {0} /\ DOMAIN nodes = 1..Len(nodes)
           /\ Len(stack) \in Nat \ {0} /\ DOMAIN stack = 1..Len(stack)
<1>1. Len(nodes) \in Nat /\ DOMAIN nodes = 1..Len(nodes)
    BY DEF TypeOK
<1>2. Len(stack) \in Nat \ {0} /\ DOMAIN stack = 1..Len(stack)
    BY DEF TypeOK, StackInv
<1>3. stack[1] \in DOMAIN nodes
    BY <1>2 DEF StackInv
<1> QED BY <1>1, <1>2, <1>3

\* What is popped ends at the last node of the open path of a lesser depth.
LEMMA PoppedFacts ==
    ASSUME TypeOK, StackInv, NEW target \in Nat, target > 0
    PROVE  \E k \in Nat : GoesBelow(k, target) /\ Popped(target) = SubSeq(stack, 1, k)
<1> PICK n \in Nat : n = Len(stack)
    BY DEF TypeOK
<1>1. n > 0 /\ DOMAIN stack = 1..n /\ \A m \in 1..n : nodes[stack[m]].depth = m - 1
  <2>1. n > 0 /\ DOMAIN stack = 1..n
      BY DEF TypeOK, StackInv
  <2> QED BY <2>1 DEF StackInv
<1> DEFINE P(k) == /\ k = 1 \/ nodes[stack[k]].depth < target
                   /\ \A j \in (k + 1)..n : nodes[stack[j]].depth >= target
<1>2. \E k \in 1..n : P(k)
  <2>1. CASE n <= target
      BY <1>1, <2>1
  <2>2. CASE ~(n <= target)
    <3>1. P(target)
        BY <1>1, <2>2
    <3> QED BY <2>2, <3>1
  <2> QED BY <2>1, <2>2
<1>3. PICK k \in 1..n : k = CHOOSE m \in 1..n : P(m)
    BY <1>2
<1>4. P(k)
  <2> HIDE DEF P
  <2> QED BY <1>2, <1>3
<1>5. GoesBelow(k, target)
  <2>1. k # n => k + 1 \in (k + 1)..n /\ k + 1 \in 1..n
      OBVIOUS
  <2> QED BY <1>1, <1>4, <2>1 DEF GoesBelow
<1>6. Popped(target) = SubSeq(stack, 1, k)
    BY <1>1, <1>3 DEF Popped
<1> QED BY <1>5, <1>6

\* The text since the last heading goes to that heading, unless it is the root.
LEMMA FlushedFacts ==
    ASSUME TypeOK, StackInv, TextInv, pc = "reading"
    PROVE  \E b \in Seq(Nat) :
             /\ Settled(Flushed(stack), b)
             /\ b = <<>> \/ b = parts
             /\ Len(nodes) > 1 => b = parts
<1> USE DEF TypeOK
<1>1. Len(nodes) > 0 /\ nodes[Len(nodes)].body = <<>> /\ stack[Len(stack)] = Len(nodes)
    BY DEF StackInv, TextInv
<1>2. Len(nodes) > 1 => Len(stack) > 1
    BY DEF StackInv
<1>3. CASE parts = <<>> \/ Len(stack) <= 1
  <2>1. Flushed(stack) = nodes
      BY <1>3 DEF Flushed
  <2>2. Settled(nodes, <<>>)
      BY <1>1, SettledSame
  <2>3. <<>> \in Seq(Nat) /\ (Len(nodes) > 1 => <<>> = parts)
      BY <1>2, <1>3
  <2> QED BY <2>1, <2>2, <2>3
<1>4. CASE ~(parts = <<>> \/ Len(stack) <= 1)
  <2>1. Flushed(stack) = [nodes EXCEPT ![Len(nodes)].body = nodes[Len(nodes)].body \o parts]
      BY <1>1, <1>4 DEF Flushed, Top
  <2>2. <<>> \o parts = parts
      OBVIOUS
  <2>3. Settled(Flushed(stack), parts)
      BY <1>1, <2>1, <2>2, SettledPut
  <2> QED BY <2>3
<1> QED BY <1>3, <1>4

\* The k-th node of the open path gets a child, and the last node the text b.
Grown(k, b) ==
    /\ nodes' \in Seq(Node) /\ Len(nodes') = Len(nodes) + 1
    /\ \A i \in DOMAIN nodes :
         /\ SamePlace(nodes'[i], nodes[i])
         /\ nodes'[i].children = nodes[i].children + IF i = stack[k] THEN 1 ELSE 0
         /\ i # Len(nodes) => nodes'[i].body = nodes[i].body
    /\ nodes'[Len(nodes)].body = b
    /\ nodes'[Len(nodes) + 1].block = read + 1
    /\ nodes'[Len(nodes) + 1].parent = stack[k]
    /\ nodes'[Len(nodes) + 1].depth = k
    /\ nodes'[Len(nodes) + 1].order = nodes[stack[k]].children
    /\ nodes'[Len(nodes) + 1].children = 0
    /\ nodes'[Len(nodes) + 1].body = <<>>
    /\ stack' = Append(SubSeq(stack, 1, k), Len(nodes) + 1)
    /\ UNCHANGED pc

Failed == pc' = "failed" /\ UNCHANGED <<nodes, stack>>

LEMMA OpenFacts ==
    ASSUME TypeOK, StackInv, NEW b \in Seq(Nat), NEW ns, Settled(ns, b), NEW k \in DOMAIN stack,
           NEW path, path = SubSeq(stack, 1, k), NEW target, Open(ns, path, target)
    PROVE  Failed \/ Grown(k, b)
<1> PICK n \in Nat : n = Len(nodes)
    BY DEF TypeOK
<1> PICK p \in Nat : p = stack[k]
    BY DEF TypeOK
<1>1. p \in 1..n /\ nodes[p].depth = k - 1 /\ read \in Nat /\ k \in Nat \ {0}
  <2>1. DOMAIN nodes = 1..n /\ read \in Nat /\ k \in Nat \ {0}
      BY DEF TypeOK
  <2> QED BY <2>1 DEF StackInv
<1>2. path[Len(path)] = p
    BY DEF TypeOK
<1>3. /\ ns \in Seq(Node) /\ Len(ns) = n /\ ns[p] \in Node /\ nodes[p] \in Node
      /\ SamePlace(ns[p], nodes[p]) /\ ns[p].children = nodes[p].children
    BY <1>1 DEF Settled, TypeOK
<1>4. ns[p].depth + 1 = k /\ nodes[p].children \in Nat /\ nodes[p].depth + 1 = k
    BY <1>1, <1>3, NodeFields DEF SamePlace
<1> PICK o \in Nat : o = nodes[p].children
    BY <1>4
<1> PICK q : q = ns[p]
    OBVIOUS
<1> DEFINE d == [block |-> read + 1, parent |-> p, depth |-> k, order |-> o,
                 children |-> 0, body |-> <<>>]
           e == [q EXCEPT !.children = o + 1]
<1>5. CASE ~Allowed(k)
    BY <1>2, <1>4, <1>5 DEF Open, Top, ActualDepth, Failed
<1>6. CASE Allowed(k)
  <2>1. /\ nodes' = Append([ns EXCEPT ![p] = e], d)
        /\ stack' = Append(path, n + 1) /\ UNCHANGED pc
      BY <1>2, <1>3, <1>4, <1>6 DEF Open, Top, ActualDepth
  <2>2. k \in 0..MaxDepth /\ o \in Nat /\ o + 1 \in Nat /\ read + 1 \in Nat
      BY <1>1, <1>4, <1>6, TreeAssumption DEF Allowed
  <2>3. e \in Node /\ SamePlace(e, ns[p]) /\ e.children = o + 1 /\ e.body = ns[p].body
    <3>1. q \in Node
        BY <1>3, <2>2
    <3>2. e \in Node /\ SamePlace(e, q) /\ e.children = o + 1 /\ e.body = q.body
        BY <2>2, <3>1, NodeCounts
    <3> QED BY <3>2
  <2>4. /\ d \in Node /\ d.block = read + 1 /\ d.parent = p /\ d.depth = k
        /\ d.order = o /\ d.children = 0 /\ d.body = <<>>
      BY <2>2, NodeMade
  <2> HIDE DEF d, e
  <2>5. /\ nodes' \in Seq(Node) /\ Len(nodes') = n + 1 /\ nodes'[n + 1] = d /\ nodes'[p] = e
        /\ \A i \in 1..n : i # p => nodes'[i] = ns[i]
    <3>1. PICK ms : ms = [ns EXCEPT ![p] = e]
        OBVIOUS
    <3>2. /\ ms \in Seq(Node) /\ Len(ms) = n /\ ms[p] = e
          /\ \A i \in 1..n : i # p => ms[i] = ns[i]
        BY <1>1, <1>3, <2>3, <3>1
    <3>3. nodes' = Append(ms, d)
        BY <2>1, <3>1
    <3>4. d \in Node
        BY <2>4
    <3>5. ms \in Seq(Node)
        BY <3>2
    <3>6. /\ nodes' \in Seq(Node) /\ Len(nodes') = Len(ms) + 1 /\ nodes'[Len(ms) + 1] = d
          /\ \A i \in 1..Len(ms) : nodes'[i] = ms[i]
        BY <3>3, <3>4, <3>5, Appended
    <3> QED BY <1>1, <3>2, <3>6
  <2>6. ASSUME NEW i \in 1..n
        PROVE  /\ SamePlace(nodes'[i], nodes[i]) /\ nodes'[i].body = ns[i].body
               /\ nodes'[i].children = nodes[i].children + IF i = p THEN 1 ELSE 0
    <3>1. SamePlace(ns[i], nodes[i]) /\ ns[i].children = nodes[i].children
            /\ nodes[i].children \in Nat
      <4>1. nodes[i] \in Node
          BY DEF TypeOK
      <4> QED BY <4>1, NodeFields DEF Settled
    <3>2. CASE i = p
        BY <2>3, <2>5, <3>1, <3>2 DEF SamePlace
    <3>3. CASE i # p
        BY <2>5, <3>1, <3>3
    <3> QED BY <3>2, <3>3
  <2>7. \A i \in 1..n : i # n => ns[i].body = nodes[i].body
      BY DEF Settled
  <2>8. n \in 1..n /\ ns[n].body = b
      BY <1>1 DEF Settled
  <2>9. DOMAIN nodes = 1..n
      BY DEF TypeOK
  <2> QED BY <2>1, <2>4, <2>5, <2>6, <2>7, <2>8, <2>9 DEF Grown
<1> QED BY <1>5, <1>6

--------------------------------------------------------------------------------
(* The steps of Next in two shapes *)

\* The depth the block at hand asks for as a heading.
Asked == IF Numbered THEN Current.number ELSE Current.level

\* A heading opens a node below the k-th of the open path; b is the text that
\* the last node gets.
Opens(k, b) ==
    /\ Reading /\ Read /\ k \in DOMAIN stack
    /\ IF Asked = 0 THEN k = Len(stack) ELSE GoesBelow(k, Asked)
    /\ Failed \/ Grown(k, b)
    /\ parts' = <<>> /\ preface' = <<>>
    /\ b \in Seq(Nat) /\ Between(b, nodes[Len(nodes)].block, read)
    /\ Elements(parts) \subseteq Elements(b) \/ (~Numbered /\ Len(nodes) = 1)
    /\ Elements(preface) \subseteq skipped' \cup Elements(b)
    /\ skipped \subseteq skipped' /\ skipped' \subseteq Nat

\* A block of text waits for the next heading.
Waits ==
    /\ Reading /\ Read /\ UNCHANGED <<nodes, stack, skipped, pc>>
    /\ \/ /\ FoundFirstSection \/ ~Numbered
          /\ parts' = Append(parts, read + 1) /\ UNCHANGED preface
       \/ /\ ~FoundFirstSection /\ Numbered
          /\ preface' = Append(preface, read + 1) /\ UNCHANGED parts

LEMMA BlockAtHand ==
    ASSUME TypeOK, Reading
    PROVE  /\ Current \in Block /\ read \in Nat /\ read + 1 \in 1..Len(document)
           /\ Current.number \in Nat /\ Current.level \in Nat
           /\ Len(document) \in Nat
<1>1. read \in Nat /\ read + 1 \in 1..Len(document) /\ Len(document) \in Nat
    BY DEF TypeOK, Reading
<1>2. Current \in Block
    BY <1>1, TreeAssumption DEF TypeOK, Current
<1> QED BY <1>1, <1>2 DEF Block

LEMMA SectionOpens ==
    ASSUME IInv, Section
    PROVE  \E k, b : Opens(k, b)
<1> USE DEF IInv
<1>1. /\ Reading /\ Read /\ Numbered /\ parts' = <<>> /\ Asked = Current.number
      /\ Current.number \in Nat /\ Current.number > 0 /\ pc = "reading"
    BY BlockAtHand DEF Section, Asked, Reading
<1>2. PICK k \in Nat : GoesBelow(k, Current.number)
                         /\ Popped(Current.number) = SubSeq(stack, 1, k)
    BY <1>1, PoppedFacts
<1>3. k \in DOMAIN stack
    BY <1>2 DEF GoesBelow
<1>4. CASE FoundFirstSection
  <2>1. /\ Open(Flushed(stack), Popped(Current.number), Current.number)
        /\ UNCHANGED <<preface, skipped>>
      BY <1>4 DEF Section
  <2>2. PICK b \in Seq(Nat) : /\ Settled(Flushed(stack), b) /\ (b = <<>> \/ b = parts)
                              /\ (Len(nodes) > 1 => b = parts)
      BY <1>1, FlushedFacts
  <2>3. Failed \/ Grown(k, b)
      BY <1>2, <1>3, <2>1, <2>2, OpenFacts
  <2>4. b = parts /\ Between(b, nodes[Len(nodes)].block, read)
      BY <1>4, <2>2 DEF FoundFirstSection, TextInv
  <2>5. preface = <<>> /\ Elements(preface) = {}
      BY <1>4, BetweenEmpty DEF FoundFirstSection, CoverInv
  <2>6. skipped' \subseteq Nat
      BY <2>1 DEF TypeOK
  <2>7. Asked # 0
      BY <1>1
  <2>8. Elements(parts) \subseteq Elements(b)
      BY <2>4
  <2> QED BY <1>1, <1>2, <1>3, <2>1, <2>3, <2>4, <2>5, <2>6, <2>7, <2>8 DEF Opens
<1>5. CASE ~FoundFirstSection
  <2>1. /\ Open([nodes EXCEPT ![1].body = Prose], Popped(Current.number), Current.number)
        /\ skipped' = {preface[i] : i \in DOMAIN preface} \ {Prose[i] : i \in DOMAIN Prose}
        /\ preface' = <<>>
      BY <1>5 DEF Section
  <2>2. Len(nodes) = 1 /\ nodes[1].block = 0
    <3>1. PICK n \in Nat \ {0} : n = Len(nodes)
        BY NodesNonempty
    <3>2. Len(nodes) = 1
        BY <1>5, <3>1 DEF FoundFirstSection
    <3> QED BY <3>2 DEF TextInv
  <2>3. read \in Nat /\ preface \in Seq(Nat) /\ Between(preface, 0, read)
      BY DEF TypeOK, TextInv
  <2>4. PICK b : b = Prose
      OBVIOUS
  <2>5. b \in Seq(Nat) /\ Between(b, 0, read)
      BY <2>3, <2>4, KeptFacts
  <2>6. PICK ns : ns = [nodes EXCEPT ![1].body = b]
      OBVIOUS
  <2>7. Settled(ns, b)
    <3>1. nodes \in Seq(Node) /\ Len(nodes) > 0 /\ ns = [nodes EXCEPT ![Len(nodes)].body = b]
        BY <2>2, <2>6 DEF TypeOK
    <3> QED BY <2>5, <3>1, SettledPut
  <2>8. Failed \/ Grown(k, b)
      BY <1>2, <1>3, <2>1, <2>4, <2>5, <2>6, <2>7, OpenFacts
  <2>9. parts = <<>> /\ Elements(parts) = {}
      BY <1>1, <2>2, BetweenEmpty DEF CoverInv
  <2>10. skipped = {}
      BY <1>1, <2>2 DEF CoverInv
  <2>11. Elements(preface) \subseteq skipped' \cup Elements(b) /\ skipped' \subseteq Nat
      BY <2>1, <2>3, <2>4 DEF Elements
  <2>12. Asked # 0
      BY <1>1
  <2> QED BY <1>1, <1>2, <1>3, <2>1, <2>2, <2>5, <2>8, <2>9, <2>10, <2>11, <2>12 DEF Opens
<1> QED BY <1>4, <1>5

LEMMA SubHeadingOpens ==
    ASSUME IInv, SubHeading
    PROVE  \E k, b : Opens(k, b)
<1> USE DEF IInv
<1>1. /\ Reading /\ Read /\ Numbered /\ parts' = <<>> /\ Asked = 0 /\ Len(nodes) > 1
      /\ Open(Flushed(stack), stack, nodes[Top(stack)].depth + 1)
      /\ UNCHANGED <<preface, skipped>> /\ pc = "reading"
    BY DEF SubHeading, Asked, Reading, FoundFirstSection
<1>2. Len(stack) \in DOMAIN stack /\ stack = SubSeq(stack, 1, Len(stack))
    BY DEF TypeOK, StackInv
<1>3. PICK b \in Seq(Nat) : Settled(Flushed(stack), b) /\ (Len(nodes) > 1 => b = parts)
    BY <1>1, FlushedFacts
<1>4. Failed \/ Grown(Len(stack), b)
    BY <1>1, <1>2, <1>3, OpenFacts
<1>5. b = parts /\ Between(b, nodes[Len(nodes)].block, read)
    BY <1>1, <1>3 DEF TextInv
<1>6. preface = <<>> /\ Elements(preface) = {}
    BY <1>1, BetweenEmpty DEF CoverInv
<1>7. skipped' \subseteq Nat
    BY <1>1 DEF TypeOK
<1> QED BY <1>1, <1>2, <1>4, <1>5, <1>6, <1>7 DEF Opens

LEMMA HeadingOpens ==
    ASSUME IInv, Heading
    PROVE  \E k, b : Opens(k, b)
<1> USE DEF IInv
<1>1. /\ Reading /\ Read /\ ~Numbered /\ parts' = <<>> /\ Asked = Current.level
      /\ Current.level \in Nat /\ Current.level > 0 /\ pc = "reading"
      /\ Open(Flushed(stack), Popped(Current.level), Current.level)
      /\ UNCHANGED <<preface, skipped>>
    BY BlockAtHand DEF Heading, Asked, Reading
<1>2. PICK k \in Nat : GoesBelow(k, Current.level)
                         /\ Popped(Current.level) = SubSeq(stack, 1, k)
    BY <1>1, PoppedFacts
<1>3. k \in DOMAIN stack
    BY <1>2 DEF GoesBelow
<1>4. PICK b \in Seq(Nat) : /\ Settled(Flushed(stack), b) /\ (b = <<>> \/ b = parts)
                            /\ (Len(nodes) > 1 => b = parts)
    BY <1>1, FlushedFacts
<1>5. Failed \/ Grown(k, b)
    BY <1>1, <1>2, <1>3, <1>4, OpenFacts
<1>6. Between(b, nodes[Len(nodes)].block, read)
    BY <1>4, BetweenEmpty DEF TextInv
<1>7. Elements(parts) \subseteq Elements(b) \/ Len(nodes) = 1
  <2>1. PICK n \in Nat \ {0} : n = Len(nodes)
      BY NodesNonempty
  <2>2. Len(nodes) > 1 \/ Len(nodes) = 1
      BY <2>1
  <2> QED BY <1>4, <2>2
<1>8. preface = <<>> /\ Elements(preface) = {}
    BY <1>1, BetweenEmpty DEF CoverInv
<1>9. skipped' \subseteq Nat
    BY <1>1 DEF TypeOK
<1>10. Asked # 0
    BY <1>1
<1> QED BY <1>1, <1>2, <1>3, <1>5, <1>6, <1>7, <1>8, <1>9, <1>10 DEF Opens

LEMMA NextShapes ==
    ASSUME IInv, Next
    PROVE  Waits \/ (\E k, b : Opens(k, b)) \/ Finish \/ UNCHANGED vars
<1>1. CASE Section
    BY <1>1, SectionOpens
<1>2. CASE SubHeading
    BY <1>2, SubHeadingOpens
<1>3. CASE SectionText
    BY <1>3 DEF SectionText, Waits
<1>4. CASE BeforeFirstSection
    BY <1>4 DEF BeforeFirstSection, Waits
<1>5. CASE Heading
    BY <1>5, HeadingOpens
<1>6. CASE Text
    BY <1>6 DEF Text, Waits
<1> QED BY <1>1, <1>2, <1>3, <1>4, <1>5, <1>6 DEF Next, Ended

--------------------------------------------------------------------------------
(* A node below the open path *)

\* The n nodes are as they were; p, the k-th of the open path, has a new child.
Below(k, n, p) ==
    /\ n \in Nat \ {0} /\ n = Len(nodes) /\ DOMAIN nodes = 1..n
    /\ p \in 1..n /\ p = stack[k] /\ nodes[p].depth = k - 1
    /\ k \in Nat \ {0} /\ k \in DOMAIN stack /\ stack[Len(stack)] = n
    /\ Len(nodes') = n + 1 /\ DOMAIN nodes' = 1..(n + 1)
    /\ \A i \in 1..n : nodes[i] \in Node /\ SamePlace(nodes'[i], nodes[i])
    /\ nodes'[n + 1].parent = p /\ nodes'[n + 1].depth = k

LEMMA GrownBelow ==
    ASSUME IInv, NEW k, NEW b, Opens(k, b), Grown(k, b)
    PROVE  \E n, p : Below(k, n, p)
<1>1. /\ Len(nodes) \in Nat \ {0} /\ DOMAIN nodes = 1..Len(nodes)
      /\ Len(stack) \in Nat \ {0} /\ DOMAIN stack = 1..Len(stack)
    BY NodesNonempty DEF IInv
<1>2. k \in 1..Len(stack) /\ stack[k] \in DOMAIN nodes /\ nodes[stack[k]].depth = k - 1
    BY <1>1 DEF Opens, IInv, StackInv
<1>3. nodes' \in Seq(Node) /\ DOMAIN nodes' = 1..Len(nodes')
    BY DEF Grown
<1>4. \A i \in DOMAIN nodes : nodes[i] \in Node
    BY DEF IInv, TypeOK
<1>5. stack[Len(stack)] = Len(nodes)
    BY DEF IInv, StackInv
<1>6. Below(k, Len(nodes), stack[k])
    BY <1>1, <1>2, <1>3, <1>4, <1>5 DEF Grown, Below
<1> QED BY <1>6

LEMMA GrownTypes ==
    ASSUME IInv, NEW k, NEW b, Opens(k, b), Grown(k, b)
    PROVE  TypeOK'
<1>1. /\ document \in Seq(Blocks) /\ stack \in Seq(Nat) /\ pc \in {"reading", "done", "failed"}
    BY DEF IInv, TypeOK
<1>2. read + 1 \in 0..Len(document) /\ read' = read + 1 /\ document' = document
    BY BlockAtHand DEF IInv, Opens, Read
<1>3. stack' \in Seq(Nat)
  <2>1. SubSeq(stack, 1, k) \in Seq(Nat) /\ Len(nodes) + 1 \in Nat
    <3>1. Len(nodes) \in Nat \ {0} /\ Len(stack) \in Nat \ {0} /\ DOMAIN stack = 1..Len(stack)
        BY NodesNonempty DEF IInv
    <3> QED BY <1>1, <3>1 DEF Opens
  <2> QED BY <2>1, Appended DEF Grown
<1>4. parts' \in Seq(Nat) /\ preface' \in Seq(Nat) /\ skipped' \subseteq Nat
    BY DEF Opens
<1>5. nodes' \in Seq(Node) /\ pc' = pc
    BY DEF Grown
<1> QED BY <1>1, <1>2, <1>3, <1>4, <1>5 DEF TypeOK

\* The open path of the new tree.
LEMMA GrownPath ==
    ASSUME IInv, NEW k, NEW b, Opens(k, b), Grown(k, b)
    PROVE  StackInv'
<1> PICK n, p : Below(k, n, p)
    BY GrownBelow
<1> USE DEF Below
<1>1. stack \in Seq(Nat) /\ k \in 1..Len(stack)
    BY DEF IInv, TypeOK, Opens
<1>2. /\ Len(stack') = k + 1 /\ DOMAIN stack' = 1..(k + 1) /\ stack'[k + 1] = n + 1
      /\ \A m \in 1..k : stack'[m] = stack[m] /\ m \in DOMAIN stack
  <2>1. PICK s : s = SubSeq(stack, 1, k)
      OBVIOUS
  <2>2. s \in Seq(Nat) /\ Len(s) = k /\ \A m \in 1..k : s[m] = stack[m] /\ m \in DOMAIN stack
      BY <1>1, <2>1
  <2>3. stack' = Append(s, n + 1) /\ n + 1 \in Nat
      BY <2>1 DEF Grown
  <2>4. stack' \in Seq(Nat)
      BY <2>2, <2>3, Appended
  <2> QED BY <2>2, <2>3, <2>4, Appended
<1>3. stack[1] = 1
    BY DEF IInv, StackInv
<1>4. \A i \in 1..n : nodes'[i].depth = nodes[i].depth /\ nodes[i].depth \in Nat
  <2> TAKE i \in 1..n
  <2>1. nodes[i] \in Node
      OBVIOUS
  <2> QED BY <2>1, NodeFields DEF SamePlace
<1>5. ASSUME NEW m \in 1..(k + 1)
      PROVE  /\ stack'[m] \in DOMAIN nodes' /\ nodes'[stack'[m]].depth = m - 1
             /\ \A j \in (stack'[m] + 1)..(n + 1) : nodes'[j].depth >= m
  <2>1. CASE m = k + 1
      BY <1>2, <2>1
  <2>2. CASE m # k + 1
    <3>1. m \in 1..k /\ m \in DOMAIN stack /\ stack'[m] = stack[m]
        BY <1>2, <2>2
    <3>2. /\ stack[m] \in 1..n /\ nodes[stack[m]].depth = m - 1
          /\ \A j \in (stack[m] + 1)..n : nodes[j].depth >= m
        BY <3>1 DEF IInv, StackInv
    <3>3. ASSUME NEW j \in (stack[m] + 1)..(n + 1)
          PROVE  nodes'[j].depth >= m
      <4>1. CASE j = n + 1
          BY <3>1, <4>1
      <4>2. CASE j # n + 1
        <5>1. j \in (stack[m] + 1)..n /\ j \in 1..n
            BY <3>2, <4>2
        <5> QED BY <1>4, <3>2, <5>1
      <4> QED BY <4>1, <4>2
    <3> QED BY <1>4, <3>1, <3>2, <3>3
  <2> QED BY <2>1, <2>2
<1>6. Len(stack') > 0 /\ stack'[1] = 1 /\ stack'[Len(stack')] = Len(nodes')
  <2>1. 1 \in 1..k /\ k + 1 > 0
      OBVIOUS
  <2> QED BY <1>2, <1>3, <2>1
<1> QED BY <1>2, <1>5, <1>6 DEF StackInv

\* Every node of the new tree has the children it counts.
LEMMA GrownChildren ==
    ASSUME IInv, NEW k, NEW b, Opens(k, b), Grown(k, b), NEW n, NEW p, Below(k, n, p)
    PROVE  /\ \A i \in 1..n : /\ nodes'[i].block = nodes[i].block
                              /\ nodes'[i].parent = nodes[i].parent
                              /\ nodes'[i].depth = nodes[i].depth
                              /\ nodes'[i].order = nodes[i].order
                              /\ nodes[i].depth \in Nat
           /\ \A i \in 2..n : nodes[i].parent \in 1..(i - 1)
           /\ \A q \in DOMAIN nodes' : nodes'[q].children = Cardinality(Children(q)')
           /\ nodes'[n + 1].order = Cardinality(Children(p))
<1> USE DEF Below
<1>1. \A i \in 1..n : /\ nodes'[i].block = nodes[i].block
                      /\ nodes'[i].parent = nodes[i].parent
                      /\ nodes'[i].depth = nodes[i].depth
                      /\ nodes'[i].order = nodes[i].order
                      /\ nodes[i].depth \in Nat
  <2> TAKE i \in 1..n
  <2>1. nodes[i] \in Node
      OBVIOUS
  <2> QED BY <2>1, NodeFields DEF SamePlace
<1>2. \A i \in 2..n : nodes[i].parent \in 1..(i - 1)
    BY DEF IInv, TreeInv, ValidTree
<1>3. \A q \in 1..n : nodes[q].children = Cardinality(Children(q)) /\ IsFiniteSet(Children(q))
  <2> TAKE q \in 1..n
  <2>1. Children(q) \subseteq 2..n
      BY DEF Children
  <2>2. IsFiniteSet(2..n)
      BY FS_Interval
  <2>3. IsFiniteSet(Children(q))
      BY <2>1, <2>2, FS_Subset
  <2> QED BY <2>3 DEF IInv, TreeInv
<1>4. ASSUME NEW q \in 1..n
      PROVE  Children(q)' = Children(q) \cup IF q = p THEN {n + 1} ELSE {}
  <2>1. Children(q)' = {j \in 2..(n + 1) : nodes'[j].parent = q}
      BY DEF Children
  <2>2. Children(q) = {j \in 2..n : nodes[j].parent = q}
      BY DEF Children
  <2>3. \A j \in 2..n : nodes'[j].parent = nodes[j].parent
      BY <1>1
  <2>4. nodes'[n + 1].parent = p /\ n + 1 \in 2..(n + 1)
      OBVIOUS
  <2>5. \A j \in 2..(n + 1) : j \in 2..n \/ j = n + 1
      OBVIOUS
  <2>6. 2..n \subseteq 2..(n + 1)
      OBVIOUS
  <2> QED BY <2>1, <2>2, <2>3, <2>4, <2>5, <2>6
<1>5. Children(n + 1)' = {}
  <2> SUFFICES ASSUME NEW j \in 2..(n + 1), nodes'[j].parent = n + 1
               PROVE  FALSE
      BY DEF Children
  <2>1. CASE j = n + 1
      BY <2>1
  <2>2. CASE j # n + 1
    <3>1. j \in 1..n /\ j \in 2..n
        BY <2>2
    <3> QED BY <1>1, <1>2, <3>1
  <2> QED BY <2>1, <2>2
<1>6. ASSUME NEW q \in 1..(n + 1)
      PROVE  nodes'[q].children = Cardinality(Children(q)')
  <2>1. CASE q = n + 1
      BY <1>5, <2>1, FS_EmptySet DEF Grown
  <2>2. CASE q = p
    <3>1. n + 1 \notin Children(p)
        BY DEF Children
    <3>2. Cardinality(Children(p) \cup {n + 1}) = Cardinality(Children(p)) + 1
        BY <1>3, <3>1, FS_AddElement
    <3>3. Children(q)' = Children(p) \cup {n + 1}
        BY <1>4, <2>2
    <3>4. nodes'[q].children = nodes[p].children + 1
        BY <2>2 DEF Grown
    <3> QED BY <1>3, <3>2, <3>3, <3>4
  <2>3. CASE q # n + 1 /\ q # p
    <3>1. q \in 1..n
        BY <2>3
    <3>2. Children(q)' = Children(q)
        BY <1>4, <2>3, <3>1
    <3>3. nodes[q].children \in Nat /\ nodes'[q].children = nodes[q].children + 0
      <4>1. nodes[q] \in Node
          BY <3>1
      <4> QED BY <2>3, <3>1, <4>1, NodeFields DEF Grown
    <3> QED BY <1>3, <3>1, <3>2, <3>3
  <2> QED BY <2>1, <2>2, <2>3
<1>7. nodes'[n + 1].order = Cardinality(Children(p))
    BY <1>3 DEF Grown
<1> QED BY <1>1, <1>2, <1>6, <1>7

LEMMA GrownTree ==
    ASSUME IInv, NEW k, NEW b, Opens(k, b), Grown(k, b)
    PROVE  TreeInv'
<1> PICK n, p : Below(k, n, p)
    BY GrownBelow
<1> USE DEF Below
<1>1. /\ \A i \in 1..n : /\ nodes'[i].block = nodes[i].block
                         /\ nodes'[i].parent = nodes[i].parent
                         /\ nodes'[i].depth = nodes[i].depth
                         /\ nodes'[i].order = nodes[i].order
                         /\ nodes[i].depth \in Nat
      /\ \A i \in 2..n : nodes[i].parent \in 1..(i - 1)
      /\ \A q \in DOMAIN nodes' : nodes'[q].children = Cardinality(Children(q)')
      /\ nodes'[n + 1].order = Cardinality(Children(p))
    BY GrownChildren
<1>2. ASSUME NEW i \in 2..(n + 1)
      PROVE  /\ nodes'[i].parent \in 1..(i - 1)
             /\ nodes'[i].depth = nodes'[nodes'[i].parent].depth + 1
             /\ nodes'[i].order =
                  Cardinality({j \in 2..(i - 1) : nodes'[j].parent = nodes'[i].parent})
  <2>1. CASE i = n + 1
    <3>1. nodes'[i].parent = p /\ nodes'[i].depth = k /\ nodes'[p].depth = k - 1
        BY <1>1, <2>1
    <3>2. Children(p) = {j \in 2..(i - 1) : nodes'[j].parent = p}
        BY <1>1, <2>1 DEF Children
    <3>3. nodes'[i].order =
            Cardinality({j \in 2..(i - 1) : nodes'[j].parent = nodes'[i].parent})
        BY <1>1, <2>1, <3>1, <3>2
    <3>4. p \in 1..(i - 1) /\ k = (k - 1) + 1
        BY <2>1
    <3> QED BY <3>1, <3>3, <3>4
  <2>2. CASE i # n + 1
    <3>1. i \in 2..n /\ i \in 1..n /\ nodes[i].parent \in 1..(i - 1) /\ nodes[i].parent \in 1..n
        BY <1>1, <2>2
    <3>2. /\ nodes[i].depth = nodes[nodes[i].parent].depth + 1
          /\ nodes[i].order =
               Cardinality({j \in 2..(i - 1) : nodes[j].parent = nodes[i].parent})
        BY <3>1 DEF IInv, TreeInv, ValidTree
    <3>3. {j \in 2..(i - 1) : nodes[j].parent = nodes[i].parent}
             = {j \in 2..(i - 1) : nodes'[j].parent = nodes'[i].parent}
        BY <1>1, <3>1
    <3> QED BY <1>1, <3>1, <3>2, <3>3
  <2> QED BY <2>1, <2>2
<1>3. ValidTree'
    BY <1>2 DEF ValidTree
<1>4. /\ \A i \in 1..n : Target(i)' = Target(i)
      /\ Target(n + 1)' = Asked
  <2>1. document' = document /\ Numbered' = Numbered /\ nodes'[n + 1].block = read + 1
      BY DEF Opens, Read, Numbered, Grown
  <2> QED BY <1>1, <2>1 DEF Target, Asked, Current
<1>5. ASSUME NEW i \in 2..(n + 1)
      PROVE  IF Target(i)' = 0 THEN nodes'[i].parent = i - 1
             ELSE /\ nodes'[i].parent < i
                  /\ nodes'[i].parent = 1 \/ nodes'[nodes'[i].parent].depth < Target(i)'
                  /\ \A j \in (nodes'[i].parent + 1)..(i - 1) : nodes'[j].depth >= Target(i)'
  <2>1. CASE i = n + 1
    <3>1. nodes'[i].parent = p /\ nodes'[p].depth = k - 1 /\ Target(i)' = Asked
        BY <1>1, <1>4, <2>1
    <3>2. CASE Asked = 0
      <4>1. p = n
          BY <3>2 DEF Opens
      <4> QED BY <2>1, <3>1, <3>2, <4>1
    <3>3. CASE Asked # 0
      <4>1. GoesBelow(k, Asked) /\ Asked \in Nat
          BY <3>3, BlockAtHand DEF Opens, Asked, IInv
      <4>2. p = 1 \/ k - 1 < Asked
          BY <4>1 DEF GoesBelow, IInv, StackInv
      <4>3. ASSUME NEW j \in (p + 1)..n
            PROVE  nodes'[j].depth >= Asked
        <5>1. k >= Asked
            BY <4>1 DEF GoesBelow
        <5>2. j \in 1..n /\ nodes[j].depth >= k
            BY DEF IInv, StackInv
        <5> QED BY <1>1, <4>1, <5>1, <5>2
      <4> QED BY <2>1, <3>1, <3>3, <4>2, <4>3
    <3> QED BY <3>2, <3>3
  <2>2. CASE i # n + 1
    <3>1. i \in 2..n /\ i \in 1..n /\ nodes[i].parent \in 1..(i - 1) /\ nodes[i].parent \in 1..n
        BY <1>1, <2>2
    <3>2. IF Target(i) = 0 THEN nodes[i].parent = i - 1
          ELSE /\ nodes[i].parent < i
               /\ nodes[i].parent = 1 \/ nodes[nodes[i].parent].depth < Target(i)
               /\ \A j \in (nodes[i].parent + 1)..(i - 1) : nodes[j].depth >= Target(i)
        BY <3>1 DEF IInv, TreeInv, NearestValidAncestor
    <3>3. \A j \in (nodes[i].parent + 1)..(i - 1) : j \in 1..n
        BY <3>1
    <3> QED BY <1>1, <1>4, <3>1, <3>2, <3>3
  <2> QED BY <2>1, <2>2
<1>6. NearestValidAncestor'
    BY <1>5 DEF NearestValidAncestor
<1> QED BY <1>1, <1>3, <1>6 DEF TreeInv

\* The text of the last node ends before the new one, which has none yet.
LEMMA GrownText ==
    ASSUME IInv, NEW k, NEW b, Opens(k, b), Grown(k, b)
    PROVE  TextInv'
<1> PICK n, p : Below(k, n, p)
    BY GrownBelow
<1> USE DEF Below
<1>1. /\ read \in Nat /\ read' = read + 1 /\ \A i \in 1..n : nodes'[i].block = nodes[i].block
      /\ \A i \in 1..n : nodes[i].block \in Nat /\ nodes[i].body \in Seq(Nat)
  <2>1. \A i \in 1..n : nodes[i].block \in Nat /\ nodes[i].body \in Seq(Nat)
      BY NodeFields
  <2>2. read \in Nat /\ read' = read + 1
      BY BlockAtHand DEF IInv, Opens, Read
  <2> QED BY <2>1, <2>2 DEF SamePlace
<1>2. /\ nodes'[n + 1].block = read + 1 /\ nodes'[n + 1].body = <<>> /\ nodes'[n].body = b
      /\ \A i \in 1..n : i # n => nodes'[i].body = nodes[i].body
    BY DEF Grown
<1>3. /\ nodes[1].block = 0 /\ nodes[n].block <= read
      /\ \A i \in 1..(n - 1) : nodes[i].block < nodes[i + 1].block
      /\ \A i \in 1..n : Between(nodes[i].body, nodes[i].block, End(nodes, i))
    BY DEF IInv, TextInv, TextsIn
<1>4. nodes'[1].block = 0
    BY <1>1, <1>3
<1>5. nodes'[n + 1].block <= read'
    BY <1>1, <1>2
<1>6. ASSUME NEW i \in 1..n
      PROVE  nodes'[i].block < nodes'[i + 1].block
  <2>1. CASE i = n
      BY <1>1, <1>2, <1>3, <2>1
  <2>2. CASE i # n
    <3>1. i \in 1..(n - 1) /\ i + 1 \in 1..n
        BY <2>2
    <3> QED BY <1>1, <1>3, <3>1
  <2> QED BY <2>1, <2>2
<1>7. ASSUME NEW i \in 1..(n + 1)
      PROVE  Between(nodes'[i].body, nodes'[i].block, End(nodes, i)')
  <2>1. CASE i = n + 1
      BY <1>2, <2>1, BetweenEmpty
  <2>2. CASE i = n
    <3>1. End(nodes, i)' = read
        BY <1>1, <1>2, <2>2 DEF End
    <3>2. nodes'[i].body = b /\ nodes'[i].block = nodes[n].block
        BY <1>1, <1>2, <2>2
    <3> QED BY <3>1, <3>2 DEF Opens
  <2>3. CASE i # n /\ i # n + 1
    <3>1. i \in 1..n /\ i + 1 \in 1..n /\ i < n /\ i < n + 1
        BY <2>3
    <3>2. End(nodes, i)' = End(nodes, i)
        BY <1>1, <3>1 DEF End
    <3>3. nodes'[i].body = nodes[i].body
        BY <1>2, <2>3, <3>1
    <3> QED BY <1>1, <1>3, <3>1, <3>2, <3>3
  <2> QED BY <2>1, <2>2, <2>3
<1>8. TextsIn(nodes)'
    BY <1>7 DEF TextsIn
<1>9. Between(parts', nodes'[n + 1].block, read') /\ Between(preface', 0, read')
    BY BetweenEmpty DEF Opens
<1> QED BY <1>2, <1>4, <1>5, <1>6, <1>8, <1>9 DEF TextInv

LEMMA PlacedMembers ==
    /\ \A x : x \in Placed <=>
         \E i \in DOMAIN nodes : x = nodes[i].block \/ x \in Elements(nodes[i].body)
    /\ \A x : x \in Placed' <=>
         \E i \in DOMAIN nodes' : x = nodes'[i].block \/ x \in Elements(nodes'[i].body)
<1>1. Placed = {nodes[i].block : i \in DOMAIN nodes}
                 \cup UNION {Elements(nodes[i].body) : i \in DOMAIN nodes}
    BY DEF Placed, Elements
<1>2. Placed' = {nodes'[i].block : i \in DOMAIN nodes'}
                  \cup UNION {Elements(nodes'[i].body) : i \in DOMAIN nodes'}
    BY DEF Placed, Elements
<1>3. \A x : x \in Placed <=>
        \E i \in DOMAIN nodes : x = nodes[i].block \/ x \in Elements(nodes[i].body)
    BY <1>1
<1>4. \A x : x \in Placed' <=>
        \E i \in DOMAIN nodes' : x = nodes'[i].block \/ x \in Elements(nodes'[i].body)
    BY <1>2
<1> QED BY <1>3, <1>4

\* The block at hand is placed, and what was waiting is placed or skipped.
LEMMA GrownCover ==
    ASSUME IInv, NEW k, NEW b, Opens(k, b), Grown(k, b)
    PROVE  CoverInv'
<1> PICK n, p : Below(k, n, p)
    BY GrownBelow
<1> USE DEF Below
<1>1. /\ read \in Nat /\ read' = read + 1 /\ document' = document /\ Numbered' = Numbered
      /\ pc = "reading" /\ pc' = "reading"
    BY BlockAtHand DEF IInv, Opens, Read, Reading, Grown, Numbered
<1>2. /\ nodes'[n + 1].block = read + 1 /\ nodes'[n].body = b
      /\ \A i \in 1..n : nodes'[i].block = nodes[i].block
      /\ \A i \in 1..n : i # n => nodes'[i].body = nodes[i].body
    BY DEF Grown, SamePlace
<1>3. nodes[n].body = <<>> /\ nodes[n].block \in Nat
    BY <1>1, NodeFields DEF IInv, TextInv
<1>4. Placed \subseteq Placed'
  <2> SUFFICES ASSUME NEW i \in 1..n, NEW x, x = nodes[i].block \/ x \in Elements(nodes[i].body)
               PROVE  x \in Placed'
      BY PlacedMembers
  <2>1. i \in DOMAIN nodes'
      OBVIOUS
  <2>2. CASE x = nodes[i].block
      BY <1>2, <2>1, <2>2, PlacedMembers
  <2>3. CASE x \in Elements(nodes[i].body)
    <3>1. i # n
        BY <1>3, <2>3, BetweenEmpty
    <3> QED BY <1>2, <2>1, <2>3, <3>1, PlacedMembers
  <2> QED BY <2>2, <2>3
<1>5. Elements(b) \subseteq Placed' /\ read + 1 \in Placed'
  <2>1. n \in DOMAIN nodes' /\ n + 1 \in DOMAIN nodes'
      OBVIOUS
  <2> QED BY <1>2, <2>1, PlacedMembers
<1>6. ASSUME NEW j \in 1..(read + 1)
      PROVE  j \in Placed' \cup skipped' \/ Dropped(j)'
  <2>1. CASE j = read + 1
      BY <1>5, <2>1
  <2>2. CASE j # read + 1
    <3>1. j \in 1..read
        BY <1>1, <2>2
    <3>2. j \in Placed \cup skipped \cup Elements(parts) \cup Elements(preface) \/ Dropped(j)
        BY <1>1, <3>1 DEF IInv, CoverInv
    <3>3. CASE Dropped(j)
      <4>1. 2 \in 1..(n + 1) /\ (n # 1 => 2 \in 1..n) /\ ~Numbered'
          BY <1>1, <3>3 DEF Dropped
      <4>2. j < nodes'[2].block
          BY <1>1, <1>2, <3>1, <3>3, <4>1 DEF Dropped
      <4> QED BY <4>1, <4>2 DEF Dropped
    <3>4. CASE j \in Elements(parts)
      <4>1. CASE Elements(parts) \subseteq Elements(b)
          BY <1>5, <3>4, <4>1
      <4>2. CASE ~Numbered /\ n = 1
        <5>1. nodes'[2].block = read + 1 /\ ~Numbered' /\ j < read + 1
            BY <1>1, <1>2, <3>1, <4>2
        <5> QED BY <5>1 DEF Dropped
      <4> QED BY <4>1, <4>2 DEF Opens
    <3>5. CASE j \in Elements(preface)
        BY <1>5, <3>5 DEF Opens
    <3>6. CASE j \in Placed \cup skipped
        BY <1>4, <3>6 DEF Opens
    <3> QED BY <3>2, <3>3, <3>4, <3>5, <3>6
  <2> QED BY <2>1, <2>2
<1>7. parts' = <<>> /\ preface' = <<>> /\ n + 1 # 1
    BY DEF Opens
<1> QED BY <1>1, <1>6, <1>7 DEF CoverInv

\* Reading on moves the end of the last text only.
LEMMA TextsStay ==
    ASSUME IInv, Reading, UNCHANGED nodes, read' = read + 1
    PROVE  /\ TextsIn(nodes)' /\ nodes'[Len(nodes')].block <= read' /\ nodes'[1].block = 0
           /\ \A i \in 1..(Len(nodes') - 1) : nodes'[i].block < nodes'[i + 1].block
           /\ nodes[Len(nodes)].block \in Nat /\ nodes[Len(nodes)].block <= read
<1>1. read \in Nat /\ read' = read + 1 /\ nodes' = nodes
    BY BlockAtHand DEF IInv
<1>2. Len(nodes) \in Nat \ {0} /\ DOMAIN nodes = 1..Len(nodes)
    BY NodesNonempty DEF IInv
<1>3. ASSUME NEW i \in DOMAIN nodes
      PROVE  Between(nodes[i].body, nodes[i].block, End(nodes, i)')
  <2>1. nodes[i] \in Node /\ Between(nodes[i].body, nodes[i].block, End(nodes, i))
      BY DEF IInv, TypeOK, TextInv, TextsIn
  <2>2. CASE i < Len(nodes)
    <3>1. End(nodes, i)' = End(nodes, i)
        BY <1>1, <2>2 DEF End
    <3> QED BY <2>1, <3>1
  <2>3. CASE ~(i < Len(nodes))
    <3>1. End(nodes, i)' = read + 1 /\ End(nodes, i) = read /\ read <= read + 1
            /\ read + 1 \in Nat
        BY <1>1, <2>3 DEF End
    <3> QED BY <1>1, <2>1, <3>1, NodeFields, BetweenWider
  <2> QED BY <2>2, <2>3
<1>4. TextsIn(nodes)'
    BY <1>1, <1>3 DEF TextsIn
<1>5. nodes[Len(nodes)] \in Node /\ nodes[Len(nodes)].block \in Nat
    BY <1>2, NodeFields DEF IInv, TypeOK
<1>6. nodes[Len(nodes)].block <= read
    BY DEF IInv, TextInv
<1>7. nodes'[Len(nodes')].block <= read'
    BY <1>1, <1>5, <1>6
<1>8. /\ nodes'[1].block = 0
      /\ \A i \in 1..(Len(nodes') - 1) : nodes'[i].block < nodes'[i + 1].block
    BY <1>1 DEF IInv, TextInv
<1> QED BY <1>4, <1>5, <1>6, <1>7, <1>8

\* Beyond the depth limit nothing of the tree changes.
LEMMA FailedKeeps ==
    ASSUME IInv, NEW k, NEW b, Opens(k, b), Failed
    PROVE  IInv'
<1>1. /\ nodes' = nodes /\ stack' = stack /\ pc' = "failed" /\ read' = read + 1
      /\ document' = document /\ Numbered' = Numbered /\ parts' = <<>> /\ preface' = <<>>
    BY DEF Failed, Opens, Read, Numbered
<1>2. read \in Nat /\ read + 1 \in 0..Len(document)
    BY BlockAtHand DEF IInv, Opens
<1>3. TypeOK'
    BY <1>1, <1>2 DEF IInv, TypeOK, Opens
<1>4. StackInv'
    BY <1>1 DEF IInv, StackInv
<1>5. TreeInv'
    BY <1>1 DEF IInv, TreeInv, ValidTree, NearestValidAncestor, Target, Children
<1>6. TextInv'
  <2>1. /\ TextsIn(nodes)' /\ nodes'[Len(nodes')].block <= read' /\ nodes'[1].block = 0
        /\ \A i \in 1..(Len(nodes') - 1) : nodes'[i].block < nodes'[i + 1].block
      BY <1>1, TextsStay DEF Opens
  <2>2. Between(parts', nodes'[Len(nodes')].block, read') /\ Between(preface', 0, read')
      BY <1>1, BetweenEmpty
  <2> QED BY <1>1, <2>1, <2>2 DEF TextInv
<1>7. CoverInv'
    BY <1>1 DEF IInv, CoverInv
<1> QED BY <1>3, <1>4, <1>5, <1>6, <1>7 DEF IInv

LEMMA WaitsKeeps ==
    ASSUME IInv, Waits
    PROVE  IInv'
<1>1. /\ nodes' = nodes /\ stack' = stack /\ pc' = pc /\ skipped' = skipped
      /\ read' = read + 1 /\ document' = document /\ Numbered' = Numbered /\ Reading
    BY DEF Waits, Read, Numbered
<1>2. /\ read \in Nat /\ read + 1 \in 0..Len(document) /\ read < read + 1
      /\ 0 < read + 1 /\ read + 1 \in Nat
    BY BlockAtHand DEF IInv, Waits
<1>3. /\ TextsIn(nodes)' /\ nodes'[Len(nodes')].block <= read' /\ nodes'[1].block = 0
      /\ \A i \in 1..(Len(nodes') - 1) : nodes'[i].block < nodes'[i + 1].block
      /\ nodes[Len(nodes)].block \in Nat /\ nodes[Len(nodes)].block <= read
    BY <1>1, TextsStay
<1>4. PICK lo \in Nat : lo = nodes[Len(nodes)].block
    BY <1>3
<1>5. /\ parts \in Seq(Nat) /\ preface \in Seq(Nat)
      /\ Between(parts, lo, read) /\ Between(preface, 0, read)
    BY <1>4 DEF IInv, TypeOK, TextInv
<1>6. /\ parts' \in Seq(Nat) /\ preface' \in Seq(Nat)
      /\ Between(parts', lo, read + 1) /\ Between(preface', 0, read + 1)
      /\ Elements(parts) \subseteq Elements(parts')
      /\ Elements(preface) \subseteq Elements(preface')
      /\ read + 1 \in Elements(parts') \cup Elements(preface')
  <2>1. lo < read + 1 /\ read <= read + 1
      BY <1>2, <1>3, <1>4
  <2>2. CASE parts' = Append(parts, read + 1) /\ UNCHANGED preface
    <3>1. /\ parts' \in Seq(Nat) /\ Between(parts', lo, read + 1)
          /\ Elements(parts') = Elements(parts) \cup {read + 1}
        BY <1>2, <1>5, <2>1, <2>2, BetweenAppend
    <3>2. Between(preface', 0, read + 1)
        BY <1>2, <1>5, <2>1, <2>2, BetweenWider
    <3> QED BY <1>5, <2>2, <3>1, <3>2
  <2>3. CASE preface' = Append(preface, read + 1) /\ UNCHANGED parts
    <3>1. /\ preface' \in Seq(Nat) /\ Between(preface', 0, read + 1)
          /\ Elements(preface') = Elements(preface) \cup {read + 1}
        BY <1>2, <1>5, <2>3, BetweenAppend
    <3>2. Between(parts', lo, read + 1)
        BY <1>2, <1>5, <2>1, <2>3, BetweenWider
    <3> QED BY <1>5, <2>3, <3>1, <3>2
  <2> QED BY <2>2, <2>3 DEF Waits
<1>7. TypeOK'
    BY <1>1, <1>2, <1>6 DEF IInv, TypeOK
<1>8. StackInv'
    BY <1>1 DEF IInv, StackInv
<1>9. TreeInv'
    BY <1>1 DEF IInv, TreeInv, ValidTree, NearestValidAncestor, Target, Children
<1>10. TextInv'
    BY <1>1, <1>3, <1>4, <1>6 DEF IInv, TextInv
<1>11. CoverInv'
  <2>1. ASSUME NEW k \in 1..(read + 1)
        PROVE  k \in Placed' \cup skipped' \cup Elements(parts') \cup Elements(preface')
                 \/ Dropped(k)'
    <3>1. Placed' = Placed /\ (Dropped(k) => Dropped(k)')
        BY <1>1 DEF Placed, Dropped
    <3>2. CASE k = read + 1
        BY <1>6, <3>2
    <3>3. CASE k # read + 1
      <4>1. k \in 1..read /\ pc # "failed"
          BY <1>1, <1>2, <3>3 DEF Reading
      <4>2. k \in Placed \cup skipped \cup Elements(parts) \cup Elements(preface) \/ Dropped(k)
          BY <4>1 DEF IInv, CoverInv
      <4> QED BY <1>1, <1>6, <3>1, <4>2
    <3> QED BY <3>2, <3>3
  <2>2. Len(nodes) > 1 \/ ~Numbered => preface' = <<>>
      BY DEF IInv, CoverInv, Waits, FoundFirstSection
  <2>3. Numbered /\ Len(nodes) = 1 => parts' = <<>>
      BY DEF IInv, CoverInv, Waits, FoundFirstSection
  <2>4. pc = "reading" /\ (Len(nodes) = 1 => skipped = {})
      BY <1>1 DEF IInv, CoverInv, Reading
  <2> QED BY <1>1, <2>1, <2>2, <2>3, <2>4 DEF CoverInv
<1> QED BY <1>7, <1>8, <1>9, <1>10, <1>11 DEF IInv

\* The last text goes to the last heading.
LEMMA FinishKeeps ==
    ASSUME IInv, Finish
    PROVE  IInv'
<1>1. /\ pc = "reading" /\ read = Len(document) /\ pc' = "done" /\ nodes' = Flushed(stack)
      /\ parts' = <<>> /\ document' = document /\ read' = read /\ stack' = stack
      /\ preface' = preface /\ skipped' = skipped /\ Numbered' = Numbered
    BY DEF Finish, Numbered
<1>2. PICK b \in Seq(Nat) : /\ Settled(nodes', b) /\ (b = <<>> \/ b = parts)
                            /\ (Len(nodes) > 1 => b = parts)
    BY <1>1, FlushedFacts DEF IInv
<1>3. PICK n \in Nat \ {0} : n = Len(nodes) /\ DOMAIN nodes = 1..n
    BY NodesNonempty DEF IInv
<1>4. /\ nodes' \in Seq(Node) /\ Len(nodes') = n /\ DOMAIN nodes' = 1..n
    BY <1>2, <1>3 DEF Settled
<1>5. /\ \A i \in 1..n : /\ nodes'[i].block = nodes[i].block
                         /\ nodes'[i].parent = nodes[i].parent
                         /\ nodes'[i].depth = nodes[i].depth
                         /\ nodes'[i].order = nodes[i].order
                         /\ nodes'[i].children = nodes[i].children
      /\ \A i \in 1..n : i # n => nodes'[i].body = nodes[i].body
      /\ nodes'[n].body = b
    BY <1>2, <1>3 DEF Settled, SamePlace
<1>6. TypeOK'
    BY <1>1, <1>4 DEF IInv, TypeOK
<1>7. StackInv'
  <2>1. /\ Len(stack) > 0 /\ stack[1] = 1 /\ stack[Len(stack)] = n
        /\ \A m \in DOMAIN stack : stack[m] \in 1..n /\ nodes[stack[m]].depth = m - 1
        /\ \A m \in DOMAIN stack : \A j \in (stack[m] + 1)..n : nodes[j].depth >= m
      BY <1>3 DEF IInv, StackInv
  <2>2. \A m \in DOMAIN stack : \A j \in (stack[m] + 1)..n : j \in 1..n
      BY <2>1
  <2>3. \A m \in DOMAIN stack : nodes'[stack[m]].depth = m - 1
      BY <1>5, <2>1
  <2>4. \A m \in DOMAIN stack : \A j \in (stack[m] + 1)..n : nodes'[j].depth >= m
      BY <1>5, <2>1, <2>2
  <2> QED BY <1>1, <1>4, <2>1, <2>3, <2>4 DEF StackInv
<1>8. TreeInv'
  <2>1. \A i \in 2..n : i \in 1..n /\ nodes[i].parent \in 1..(i - 1) /\ nodes[i].parent \in 1..n
    <3> TAKE i \in 2..n
    <3>1. nodes[i].parent \in 1..(i - 1)
        BY <1>3 DEF IInv, TreeInv, ValidTree
    <3> QED BY <3>1
  <2>2. ASSUME NEW i \in 2..n
        PROVE  /\ nodes'[i].parent \in 1..(i - 1)
               /\ nodes'[i].depth = nodes'[nodes'[i].parent].depth + 1
               /\ nodes'[i].order =
                    Cardinality({j \in 2..(i - 1) : nodes'[j].parent = nodes'[i].parent})
    <3>1. /\ nodes[i].depth = nodes[nodes[i].parent].depth + 1
          /\ nodes[i].order =
               Cardinality({j \in 2..(i - 1) : nodes[j].parent = nodes[i].parent})
        BY <1>3 DEF IInv, TreeInv, ValidTree
    <3>2. {j \in 2..(i - 1) : nodes[j].parent = nodes[i].parent}
             = {j \in 2..(i - 1) : nodes'[j].parent = nodes'[i].parent}
        BY <1>5, <2>1
    <3> QED BY <1>5, <2>1, <3>1, <3>2
  <2>3. ValidTree'
      BY <1>4, <2>2 DEF ValidTree
  <2>4. \A i \in 1..n : Target(i)' = Target(i)
      BY <1>1, <1>5 DEF Target
  <2>5. ASSUME NEW i \in 2..n
        PROVE  IF Target(i)' = 0 THEN nodes'[i].parent = i - 1
               ELSE /\ nodes'[i].parent < i
                    /\ nodes'[i].parent = 1 \/ nodes'[nodes'[i].parent].depth < Target(i)'
                    /\ \A j \in (nodes'[i].parent + 1)..(i - 1) : nodes'[j].depth >= Target(i)'
    <3>1. IF Target(i) = 0 THEN nodes[i].parent = i - 1
          ELSE /\ nodes[i].parent < i
               /\ nodes[i].parent = 1 \/ nodes[nodes[i].parent].depth < Target(i)
               /\ \A j \in (nodes[i].parent + 1)..(i - 1) : nodes[j].depth >= Target(i)
        BY <1>3 DEF IInv, TreeInv, NearestValidAncestor
    <3>2. \A j \in (nodes[i].parent + 1)..(i - 1) : j \in 1..n
        BY <2>1
    <3> QED BY <1>5, <2>1, <2>4, <3>1, <3>2
  <2>6. NearestValidAncestor'
      BY <1>4, <2>5 DEF NearestValidAncestor
  <2>7. ASSUME NEW q \in 1..n
        PROVE  nodes'[q].children = Cardinality(Children(q)')
    <3>1. Children(q)' = Children(q)
        BY <1>3, <1>4, <1>5, <2>1 DEF Children
    <3> QED BY <1>3, <1>5, <3>1 DEF IInv, TreeInv
  <2> QED BY <1>4, <2>3, <2>6, <2>7 DEF TreeInv
<1>9. TextInv'
  <2>1. ASSUME NEW i \in 1..n
        PROVE  Between(nodes'[i].body, nodes'[i].block, End(nodes, i)')
    <3>1. Between(nodes[i].body, nodes[i].block, End(nodes, i))
        BY <1>3 DEF IInv, TextInv, TextsIn
    <3>2. CASE i = n
      <4>1. End(nodes, i)' = read /\ nodes'[i].block = nodes[n].block /\ nodes'[i].body = b
          BY <1>1, <1>4, <1>5, <3>2 DEF End
      <4>2. Between(b, nodes[n].block, read)
          BY <1>2, <1>3, BetweenEmpty DEF IInv, TextInv
      <4> QED BY <4>1, <4>2
    <3>3. CASE i # n
      <4>1. i < n /\ i + 1 \in 1..n
          BY <3>3
      <4>2. End(nodes, i)' = End(nodes, i)
          BY <1>3, <1>4, <1>5, <4>1 DEF End
      <4> QED BY <1>5, <3>1, <3>3, <4>2
    <3> QED BY <3>2, <3>3
  <2>2. TextsIn(nodes)'
      BY <1>4, <2>1 DEF TextsIn
  <2>3. /\ nodes[1].block = 0 /\ nodes[n].block <= read
        /\ \A i \in 1..(n - 1) : nodes[i].block < nodes[i + 1].block
        /\ Between(preface, 0, read)
      BY <1>3 DEF IInv, TextInv
  <2>4. 1 \in 1..n /\ n \in 1..n /\ \A i \in 1..(n - 1) : i \in 1..n /\ i + 1 \in 1..n
      OBVIOUS
  <2>5. \A i \in 1..(n - 1) : nodes'[i].block < nodes'[i + 1].block
      BY <1>5, <2>3, <2>4
  <2>6. nodes'[1].block = 0 /\ nodes'[n].block <= read
      BY <1>5, <2>3, <2>4
  <2>7. Between(parts', nodes'[n].block, read)
      BY <1>1, BetweenEmpty
  <2> QED BY <1>1, <1>4, <2>2, <2>3, <2>5, <2>6, <2>7 DEF TextInv
<1>10. CoverInv'
  <2>1. nodes[n].body = <<>>
      BY <1>1, <1>3 DEF IInv, TextInv
  <2>2. Placed \cup Elements(b) \subseteq Placed'
    <3>1. ASSUME NEW i \in 1..n, NEW x,
                 x = nodes[i].block \/ x \in Elements(nodes[i].body)
          PROVE  x \in Placed'
      <4>1. i = n => x \notin Elements(nodes[i].body)
          BY <2>1, BetweenEmpty
      <4> QED BY <1>4, <1>5, <3>1, <4>1, PlacedMembers
    <3>2. n \in DOMAIN nodes'
        BY <1>4
    <3> QED BY <1>3, <1>5, <3>1, <3>2, PlacedMembers
  <2>3. ASSUME NEW k \in 1..read
        PROVE  k \in Placed' \cup skipped \cup Elements(preface) \/ Dropped(k)'
    <3>1. k \in Placed \cup skipped \cup Elements(parts) \cup Elements(preface) \/ Dropped(k)
        BY <1>1 DEF IInv, CoverInv
    <3>2. Dropped(k) => Dropped(k)'
      <4>1. n # 1 => 2 \in 1..n
          OBVIOUS
      <4> QED BY <1>1, <1>3, <1>4, <1>5, <4>1 DEF Dropped
    <3>3. CASE k \in Elements(parts)
      <4>1. CASE n = 1
        <5>1. ~Numbered
            BY <1>3, <3>3, <4>1, BetweenEmpty DEF IInv, CoverInv
        <5> QED BY <1>1, <1>4, <4>1, <5>1 DEF Dropped
      <4>2. CASE n # 1
        <5>1. b = parts
            BY <1>2, <1>3, <4>2
        <5> QED BY <2>2, <3>3, <5>1
      <4> QED BY <4>1, <4>2
    <3> QED BY <2>2, <3>1, <3>2, <3>3
  <2> QED BY <1>1, <1>3, <1>4, <2>3 DEF IInv, CoverInv
<1> QED BY <1>6, <1>7, <1>8, <1>9, <1>10 DEF IInv

LEMMA UnchangedKeeps ==
    ASSUME IInv, UNCHANGED vars
    PROVE  IInv'
<1> USE DEF vars
<1>1. TypeOK' /\ StackInv'
    BY DEF IInv, TypeOK, StackInv
<1>2. Numbered' = Numbered /\ Placed' = Placed
    BY DEF Numbered, Placed
<1>3. TreeInv'
    BY <1>2 DEF IInv, TreeInv, ValidTree, NearestValidAncestor, Target, Children
<1>4. TextInv'
    BY DEF IInv, TextInv, TextsIn, End
<1>5. CoverInv'
    BY <1>2 DEF IInv, CoverInv, Dropped
<1> QED BY <1>1, <1>3, <1>4, <1>5 DEF IInv

LEMMA InitHolds ==
    ASSUME Init
    PROVE  IInv
<1>1. /\ document \in Seq(Blocks) /\ read = 0 /\ nodes = <<Root>> /\ stack = <<1>>
      /\ parts = <<>> /\ preface = <<>> /\ skipped = {} /\ pc = "reading"
    BY TreeAssumption DEF Init
<1>2. /\ Root \in Node /\ Root.block = 0 /\ Root.depth = 0 /\ Root.children = 0
      /\ Root.body = <<>>
  <2>1. 0 \in 0..MaxDepth
      BY TreeAssumption
  <2> QED BY <2>1, NodeMade DEF Root
<1> HIDE DEF Root
<1>3. nodes \in Seq(Node) /\ Len(nodes) = 1 /\ DOMAIN nodes = 1..1 /\ nodes[1] = Root
    BY <1>1, <1>2
<1>4. TypeOK
  <2>1. Len(document) \in Nat
      BY <1>1
  <2> QED BY <1>1, <1>3, <2>1 DEF TypeOK
<1>5. StackInv
  <2>1. Len(stack) = 1 /\ DOMAIN stack = 1..1 /\ stack[1] = 1
      BY <1>1
  <2> QED BY <1>2, <1>3, <2>1 DEF StackInv
<1>6. TreeInv
  <2>1. ValidTree /\ NearestValidAncestor
      BY <1>3 DEF ValidTree, NearestValidAncestor
  <2>2. Children(1) = {}
      BY <1>3 DEF Children
  <2>3. Cardinality(Children(1)) = 0
      BY <2>2, FS_EmptySet
  <2>4. \A p \in DOMAIN nodes : p = 1
      BY <1>3
  <2> QED BY <1>2, <1>3, <2>1, <2>3, <2>4 DEF TreeInv
<1>7. TextInv
  <2>1. Between(<<>>, 0, 0)
      BY BetweenEmpty
  <2>2. End(nodes, 1) = 0
      BY <1>1, <1>3 DEF End
  <2>3. TextsIn(nodes)
      BY <1>2, <1>3, <2>1, <2>2 DEF TextsIn
  <2> QED BY <1>1, <1>2, <1>3, <2>1, <2>3 DEF TextInv
<1>8. CoverInv
    BY <1>1, <1>3 DEF CoverInv
<1> QED BY <1>4, <1>5, <1>6, <1>7, <1>8 DEF IInv

\* The inductive invariant.
THEOREM InductiveInvariant == Spec => []IInv
<1>1. Init => IInv
    BY InitHolds
<1>2. IInv /\ [Next]_vars => IInv'
  <2> SUFFICES ASSUME IInv, [Next]_vars PROVE IInv'
      OBVIOUS
  <2>1. CASE UNCHANGED vars
      BY <2>1, UnchangedKeeps
  <2>2. CASE Next
    <3>1. ASSUME NEW k, NEW b, Opens(k, b)
          PROVE  IInv'
      <4>1. CASE Failed
          BY <3>1, <4>1, FailedKeeps
      <4>2. CASE Grown(k, b)
          BY <3>1, <4>2, GrownTypes, GrownPath, GrownTree, GrownText, GrownCover DEF IInv
      <4> QED BY <3>1, <4>1, <4>2 DEF Opens
    <3> QED BY <2>1, <2>2, <3>1, NextShapes, WaitsKeeps, FinishKeeps
  <2> QED BY <2>1, <2>2
<1> QED BY <1>1, <1>2, PTL DEF Spec

\* No node of a document, however deep its headings ask to be, is beyond the
\* depth its model allows, and the locals of build_tree have their types.
THEOREM TypeCorrect == Spec => []TypeOK
<1>1. IInv => TypeOK
    BY DEF IInv
<1> QED BY <1>1, InductiveInvariant, PTL

\* validate() finds nothing wrong with any tree: parents come first, depths
\* grow by one, and the orders of siblings have no gap.
THEOREM TreesValid == Spec => []ValidTree
<1>1. IInv => ValidTree
    BY DEF IInv, TreeInv
<1> QED BY <1>1, InductiveInvariant, PTL

\* Popping the stack finds, for every heading, the nearest node before it that
\* may be its parent.
THEOREM NearestParents == Spec => []NearestValidAncestor
<1>1. IInv => NearestValidAncestor
    BY DEF IInv, TreeInv
<1> QED BY <1>1, InductiveInvariant, PTL

\* The text that _flush_body hands out is, in reading order, the text between
\* its heading and the next.
THEOREM TextsInPlace == Spec => []TextInPlace
<1>1. IInv => TextInPlace
  <2> SUFFICES ASSUME IInv, NEW i \in DOMAIN nodes, NEW k \in DOMAIN nodes[i].body
               PROVE  /\ nodes[i].body[k] > nodes[i].block
                      /\ i < Len(nodes) => nodes[i].body[k] < nodes[i + 1].block
                      /\ k > 1 => nodes[i].body[k - 1] < nodes[i].body[k]
      BY DEF TextInPlace
  <2>1. PICK n \in Nat \ {0} : n = Len(nodes) /\ DOMAIN nodes = 1..n
      BY NodesNonempty DEF IInv
  <2>2. \A j \in 1..n : nodes[j].block \in Nat /\ nodes[j].body \in Seq(Nat)
      BY <2>1, NodeFields DEF IInv, TypeOK
  <2>3. PICK s \in Seq(Nat) : s = nodes[i].body
      BY <2>1, <2>2
  <2>4. k \in DOMAIN s /\ s[k] \in Nat /\ (k > 1 => k - 1 \in DOMAIN s /\ k - 1 < k)
      BY <2>3
  <2>5. Between(s, nodes[i].block, End(nodes, i))
      BY <2>3 DEF IInv, TextInv, TextsIn
  <2>6. s[k] > nodes[i].block /\ s[k] <= End(nodes, i) /\ (k > 1 => s[k - 1] < s[k])
      BY <2>1, <2>2, <2>4, <2>5 DEF Between, Increasing
  <2>7. i < n => s[k] < nodes[i + 1].block
    <3> SUFFICES ASSUME i < n PROVE s[k] < nodes[i + 1].block
        OBVIOUS
    <3>1. End(nodes, i) = nodes[i + 1].block - 1 /\ nodes[i + 1].block \in Nat
        BY <2>1, <2>2 DEF End
    <3> QED BY <2>4, <2>6, <3>1
  <2> QED BY <2>1, <2>3, <2>6, <2>7
<1> QED BY <1>1, InductiveInvariant, PTL

\* No block is lost once a document has a heading, whatever was popped, flushed
\* or skipped on the way.
THEOREM BlocksKept == Spec => []NothingLost
<1>1. IInv => NothingLost
  <2> SUFFICES ASSUME IInv, pc = "done", Len(nodes) > 1, NEW k \in DOMAIN document
               PROVE  k \in Placed \cup skipped \/ (~Numbered /\ k < nodes[2].block)
      BY DEF NothingLost
  <2>1. read = Len(document) /\ parts = <<>> /\ preface = <<>>
      BY DEF IInv, CoverInv
  <2>2. k \in 1..read /\ Elements(parts) = {} /\ Elements(preface) = {}
      BY <2>1, BetweenEmpty DEF IInv, TypeOK
  <2>3. k \in Placed \cup skipped \cup Elements(parts) \cup Elements(preface) \/ Dropped(k)
      BY <2>2 DEF IInv, CoverInv
  <2>4. PICK n \in Nat \ {0} : n = Len(nodes)
      BY NodesNonempty DEF IInv
  <2>5. Len(nodes) # 1
      BY <2>4
  <2> QED BY <2>2, <2>3, <2>5 DEF Dropped
<1> QED BY <1>1, InductiveInvariant, PTL
================================================================================
