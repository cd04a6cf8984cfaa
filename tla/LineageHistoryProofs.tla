-------------------------- MODULE LineageHistoryProofs --------------------------
(***************************************************************************)
(* Proofs about LineageMatcher and LineageHistory, for all trees and any   *)
(* number of versions.                                                     *)
(***************************************************************************)
EXTENDS LineageHistory, DataFacts

--------------------------------------------------------------------------------
(* The strategy for one node *)

\* A nonempty set of candidates has a first one.
LEMMA FirstOfIsIn ==
    ASSUME NEW C \in SUBSET Nat, C # {}
    PROVE  FirstOf(C) \in C
BY LeastElementExists DEF FirstOf

LEMMA SiblingIndexType ==
    ASSUME NEW t, NEW i \in Nat
    PROVE  SiblingIndex(t, i) \in Nat
<1> DEFINE S == {j \in 1..(i - 1) : /\ t[j].depth = t[i].depth
                                    /\ \A k \in j..i : t[k].depth >= t[i].depth}
<1>1. IsFiniteSet(1..(i - 1))
    BY FS_Interval
<1>2. S \in SUBSET (1..(i - 1))
    OBVIOUS
<1> HIDE DEF S
<1>3. Cardinality(S) \in Nat
    BY <1>1, <1>2, FS_Subset, FS_CardinalityType
<1> QED BY <1>3 DEF SiblingIndex, S

LEMMA DistanceType ==
    ASSUME NEW t, NEW i \in Nat, NEW j \in Nat
    PROVE  Distance(t, i, j) \in Nat
BY SiblingIndexType DEF Distance, Abs, RebuiltIndex

\* min finds a candidate: some distance is the least.
LEMMA BestPositionalIsIn ==
    ASSUME NEW t, NEW i \in Nat, NEW C \in SUBSET Nat, C # {}
    PROVE  BestPositional(t, i, C) \in C
<1> DEFINE D == {Distance(t, i, j) : j \in C}
           B == {j \in C : \A k \in C : Distance(t, i, j) <= Distance(t, i, k)}
<1>1. D \in SUBSET Nat /\ D # {}
    BY DistanceType
<1>2. PICK d \in D : \A e \in D : d <= e
  <2> HIDE DEF D
  <2> QED BY <1>1, LeastElementExists
<1>3. B \in SUBSET Nat /\ B # {}
  <2>1. PICK j \in C : d = Distance(t, i, j)
      OBVIOUS
  <2>2. j \in B
      BY <1>2, <2>1
  <2> QED BY <2>2
<1> HIDE DEF B
<1>4. FirstOf(B) \in B
    BY <1>3, FirstOfIsIn
<1> QED BY <1>4 DEF B, BestPositional

\* max finds a candidate: a score is at most 3, so 3 - score has a least value.
LEMMA BestHeadingIsIn ==
    ASSUME NEW t, NEW i \in Nat, NEW prev, NEW C \in SUBSET Nat, C # {}
    PROVE  BestHeading(t, i, prev, C) \in C
<1> DEFINE sc(j) == HeadingScore(t, i, prev, j)
           D == {3 - sc(j) : j \in C}
           B == {j \in C : \A k \in C : sc(j) >= sc(k)}
<1>1. \A j \in C : sc(j) \in 0..3
    BY DEF HeadingScore
<1> HIDE DEF sc
<1>2. D \in SUBSET Nat /\ D # {}
  <2>1. \A j \in C : 3 - sc(j) \in Nat
      BY <1>1
  <2> QED BY <2>1
<1>3. PICK d \in D : \A e \in D : d <= e
  <2> HIDE DEF D
  <2> QED BY <1>2, LeastElementExists
<1>4. PICK j \in C : d = 3 - sc(j)
    OBVIOUS
<1>5. \A k \in C : sc(j) >= sc(k)
    BY <1>1, <1>3, <1>4
<1>6. B \in SUBSET Nat /\ B # {}
    BY <1>4, <1>5
<1> HIDE DEF B
<1>7. FirstOf(B) \in B
    BY <1>6, FirstOfIsIn
<1> QED BY <1>7 DEF B, BestHeading, sc

\* Whatever tier answers, the lineage is that of a previous node that no earlier
\* node of the new tree has taken, or the node's own.
LEMMA MatchNodeTakesFree ==
    ASSUME NEW t, NEW i \in Nat, NEW prev \in Seq(Node), NEW taken
    PROVE  LET m == MatchNode(t, i, prev, taken)
           IN  \/ m.strategy = "new" /\ m.lineage = t[i].lineage
               \/ /\ m.strategy # "new"
                  /\ \E j \in DOMAIN prev : m.lineage = prev[j].lineage
                  /\ m.lineage \notin taken
<1> DEFINE E == ExactCandidates(t[i], prev, taken)
           H == HeadingCandidates(t[i], prev, taken)
           P == PositionalCandidates(t[i], prev, taken)
           F == Unmatched(prev, taken)
<1>1. F \in SUBSET Nat /\ F \subseteq DOMAIN prev
      /\ \A j \in F : prev[j].lineage \notin taken
    BY DEF Unmatched
<1>2. E \subseteq F /\ H \subseteq F /\ P \subseteq F
    BY DEF ExactCandidates, HeadingCandidates, PositionalCandidates
<1> HIDE DEF E, H, P, F
<1>3. E # {} => FirstOf(E) \in F
    BY <1>1, <1>2, FirstOfIsIn
<1>4. H # {} => BestHeading(t, i, prev, H) \in F
    BY <1>1, <1>2, BestHeadingIsIn
<1>5. P # {} => BestPositional(t, i, P) \in F
    BY <1>1, <1>2, BestPositionalIsIn
<1> DEFINE m == MatchNode(t, i, prev, taken)
<1>6. CASE E # {}
  <2>1. m.strategy = "exact" /\ m.lineage = prev[FirstOf(E)].lineage
      BY <1>6 DEF MatchNode, Match, E
  <2> QED BY <1>1, <1>3, <1>6, <2>1
<1>7. CASE E = {} /\ H # {}
  <2>1. m.strategy = "heading" /\ m.lineage = prev[BestHeading(t, i, prev, H)].lineage
      BY <1>7 DEF MatchNode, Match, E, H
  <2> QED BY <1>1, <1>4, <1>7, <2>1
<1>8. CASE E = {} /\ H = {} /\ P # {}
  <2>1. m.strategy = "positional" /\ m.lineage = prev[BestPositional(t, i, P)].lineage
      BY <1>8 DEF MatchNode, Match, E, H, P
  <2> QED BY <1>1, <1>5, <1>8, <2>1
<1>9. CASE E = {} /\ H = {} /\ P = {}
  <2>1. m.strategy = "new" /\ m.lineage = t[i].lineage
      BY <1>9 DEF MatchNode, Match, E, H, P
  <2> QED BY <2>1
<1> QED BY <1>6, <1>7, <1>8, <1>9

LEMMA OverlapType ==
    ASSUME NEW g \in Headings, NEW h \in Headings
    PROVE  Overlap(g, h) \in Nat
<1>1. IsFiniteSet(Words[g] \cup Words[h]) /\ IsFiniteSet(Words[g] \cap Words[h])
    BY WordsAssumption, FS_Union, FS_Intersection
<1>2. Cardinality(Words[g] \cup Words[h]) \in Nat
      /\ Cardinality(Words[g] \cap Words[h]) \in Nat
    BY <1>1, FS_CardinalityType
<1>3. Words[g] \cup Words[h] # {} => Cardinality(Words[g] \cup Words[h]) # 0
    BY <1>1, FS_EmptySet
<1>4. \A a, b \in Nat : b # 0 => (240 * a) \div b \in Nat
    OBVIOUS
<1> QED BY <1>2, <1>3, <1>4 DEF Overlap

\* No tier leaves the scale of the confidences: the caps hold.
LEMMA MatchNodeType ==
    ASSUME NEW t \in Seq(Node), NEW i \in DOMAIN t, NEW prev \in Seq(Node), NEW taken
    PROVE  MatchNode(t, i, prev, taken) \in LineageMatch
<1> DEFINE H == HeadingCandidates(t[i], prev, taken)
           P == PositionalCandidates(t[i], prev, taken)
           m == MatchNode(t, i, prev, taken)
<1>0. /\ \A j \in DOMAIN prev : prev[j] \in Node
      /\ t[i] \in Node /\ i \in Nat
      /\ Unmatched(prev, taken) \subseteq DOMAIN prev /\ DOMAIN prev \subseteq Nat
    BY DEF Unmatched
<1>a. H \subseteq Unmatched(prev, taken) /\ P \subseteq Unmatched(prev, taken)
    BY DEF HeadingCandidates, PositionalCandidates
<1> HIDE DEF H, P, m
<1>1. m.lineage \in Lineage
  <2>1. \A n \in Node : n.lineage \in Lineage
      BY DEF Node
  <2>2. m.lineage = t[i].lineage \/ \E j \in DOMAIN prev : m.lineage = prev[j].lineage
      BY <1>0, MatchNodeTakesFree DEF m
  <2> QED BY <1>0, <2>1, <2>2
<1>2. \A j \in DOMAIN prev : HeadingConfidence(t, i, prev, j) \in Confidence
    BY DEF HeadingConfidence, AtMost, Confidence
<1>3. \A j \in DOMAIN prev : PositionalConfidence(t, i, prev, j) \in Confidence
  <2> SUFFICES ASSUME NEW j \in DOMAIN prev
               PROVE  PositionalConfidence(t, i, prev, j) \in Confidence
      OBVIOUS
  <2>1. t[i].heading \in Headings /\ prev[j].heading \in Headings
      BY <1>0 DEF Node
  <2>2. Overlap(t[i].heading, prev[j].heading) \in Nat
      BY <2>1, OverlapType
  <2>3. RawPositionalConfidence(t, i, prev, j) \in Nat
      BY <2>2 DEF RawPositionalConfidence
  <2>4. PICK x \in Nat : x = RawPositionalConfidence(t, i, prev, j)
      BY <2>3
  <2>5. AtMost(840, x) \in Confidence
      BY DEF AtMost, Confidence
  <2> QED BY <2>4, <2>5 DEF PositionalConfidence
<1>4. \A c : Status(c) \in {"matched", "needs_review", "new"}
    BY DEF Status
<1>5. H # {} => BestHeading(t, i, prev, H) \in DOMAIN prev
  <2>1. H \in SUBSET Nat /\ H \subseteq DOMAIN prev
      BY <1>0, <1>a
  <2> QED BY <1>0, <2>1, BestHeadingIsIn
<1>6. P # {} => BestPositional(t, i, P) \in DOMAIN prev
  <2>1. P \in SUBSET Nat /\ P \subseteq DOMAIN prev
      BY <1>0, <1>a
  <2> QED BY <1>0, <2>1, BestPositionalIsIn
<1>7. \A l \in Lineage, s \in {"exact", "heading", "positional", "new"},
         c \in Confidence, st \in {"matched", "needs_review", "new"} :
          Match(l, s, c, st) \in LineageMatch
    BY DEF Match, LineageMatch
<1>b. 1200 \in Confidence
    BY DEF Confidence
<1>8. t[i].lineage \in Lineage /\ \A j \in DOMAIN prev : prev[j].lineage \in Lineage
    BY <1>0 DEF Node
<1>9. CASE ExactCandidates(t[i], prev, taken) # {}
  <2> DEFINE f == FirstOf(ExactCandidates(t[i], prev, taken))
  <2>1. m = Match(prev[f].lineage, "exact", 1200, "matched")
      BY <1>9 DEF MatchNode, m
  <2>2. prev[f].lineage \in Lineage
      BY <1>1, <2>1 DEF Match
  <2> HIDE DEF f
  <2> QED BY <1>7, <1>b, <2>1, <2>2 DEF m
<1>10. CASE ExactCandidates(t[i], prev, taken) = {} /\ H # {}
  <2> DEFINE h == BestHeading(t, i, prev, H)
             c == HeadingConfidence(t, i, prev, h)
  <2>1. m = Match(prev[h].lineage, "heading", c, Status(c))
      BY <1>10 DEF MatchNode, m, H
  <2>2. h \in DOMAIN prev
      BY <1>10, <1>5
  <2>3. c \in Confidence /\ Status(c) \in {"matched", "needs_review", "new"}
      BY <1>2, <1>4, <2>2
  <2> HIDE DEF h, c
  <2> QED BY <1>7, <1>8, <2>1, <2>2, <2>3 DEF m
<1>11. CASE ExactCandidates(t[i], prev, taken) = {} /\ H = {} /\ P # {}
  <2> DEFINE p == BestPositional(t, i, P)
             c == PositionalConfidence(t, i, prev, p)
  <2>1. m = Match(prev[p].lineage, "positional", c, Status(c))
      BY <1>11 DEF MatchNode, m, H, P
  <2>2. p \in DOMAIN prev
      BY <1>11, <1>6
  <2>3. c \in Confidence /\ Status(c) \in {"matched", "needs_review", "new"}
      BY <1>3, <1>4, <2>2
  <2> HIDE DEF p, c
  <2> QED BY <1>7, <1>8, <2>1, <2>2, <2>3 DEF m
<1>12. CASE ExactCandidates(t[i], prev, taken) = {} /\ H = {} /\ P = {}
  <2>1. m = Match(t[i].lineage, "new", 1200, "new")
      BY <1>12 DEF MatchNode, m, H, P
  <2> QED BY <1>7, <1>8, <1>b, <2>1 DEF m
<1> QED BY <1>9, <1>10, <1>11, <1>12

--------------------------------------------------------------------------------
(* The inductive invariant *)

\* A stored lineage was born in its version or before, no version has it twice,
\* and a version has it from the version before or newborn.
StoredInv ==
    /\ \A v \in DOMAIN history : \A i \in DOMAIN history[v] :
          history[v][i].lineage[1] \in 1..v
    /\ LineageUnique
    /\ \A v \in 1..(Len(history) - 1) : \A i \in DOMAIN history[v + 1] :
          \/ history[v + 1][i].lineage \in Lineages(v)
          \/ history[v + 1][i].lineage[1] = v + 1

\* Halfway through a new tree: every node's own lineage is newborn, a node that
\* was matched took a lineage of the latest version, and no two nodes share one.
MatchingInv ==
    /\ \A i \in DOMAIN new : new[i].lineage = <<Len(history) + 1, i>>
    /\ \A i \in DOMAIN matches :
          \/ matches[i].strategy = "new" /\ matches[i].lineage = new[i].lineage
          \/ matches[i].strategy # "new" /\ matches[i].lineage \in matched
    /\ matched # {} => history # <<>>
    /\ \A l \in matched : l \in Lineages(Len(history))
    /\ \A i, j \in DOMAIN matches : matches[i].lineage = matches[j].lineage => i = j

IInv == TypeOK /\ StoredInv /\ MatchingInv

LEMMA InitInv == Init => IInv
BY DEF Init, IInv, TypeOK, StoredInv, LineageUnique, MatchingInv

\* A fresh tree is one of nodes whose lineages are newborn.
LEMMA FreshType ==
    ASSUME NEW t \in Trees, NEW v \in Nat
    PROVE  /\ Fresh(t, v) \in Seq(Node) /\ Len(Fresh(t, v)) > 0
           /\ \A i \in DOMAIN Fresh(t, v) : Fresh(t, v)[i].lineage = <<v, i>>
<1>1. t \in Seq(ParsedNode) /\ Len(t) > 0
    BY TreesAssumption
<1>2. \A i \in DOMAIN t :
          [heading |-> t[i].heading, body |-> t[i].body,
           depth |-> t[i].depth, lineage |-> <<v, i>>] \in Node
  <2>1. \A i \in DOMAIN t : /\ t[i].heading \in Headings /\ t[i].body \in Bodies
                           /\ t[i].depth \in Nat /\ i \in Nat
    <3>1. \A i \in DOMAIN t : t[i] \in ParsedNode /\ i \in Nat
        BY <1>1
    <3> QED BY <3>1 DEF ParsedNode
  <2> QED BY <2>1 DEF Node, Lineage
<1>3. DOMAIN t = 1..Len(t) /\ Len(t) \in Nat
    BY <1>1
<1>4. Fresh(t, v) \in [1..Len(t) -> Node]
    BY <1>2, <1>3 DEF Fresh
<1>5. Fresh(t, v) \in Seq(Node) /\ Len(Fresh(t, v)) = Len(t)
    BY <1>3, <1>4
<1> QED BY <1>1, <1>5 DEF Fresh

LEMMA BuildTreeInv ==
    ASSUME IInv, NEW t \in Trees, BuildTree(t)
    PROVE  IInv'
<1>1. /\ new' = Fresh(t, Len(history) + 1) /\ new = <<>>
      /\ UNCHANGED <<history, matches, matched>> /\ Len(history) \in Nat
    BY DEF BuildTree, IInv, TypeOK
<1>2. matches = <<>>
    BY <1>1 DEF IInv, TypeOK
<1>3. /\ new' \in Seq(Node) /\ Len(new') > 0
      /\ \A i \in DOMAIN new' : new'[i].lineage = <<Len(history) + 1, i>>
    BY <1>1, FreshType
<1>4. TypeOK'
    BY <1>1, <1>2, <1>3 DEF IInv, TypeOK
<1>5. StoredInv'
    BY <1>1 DEF IInv, StoredInv, LineageUnique, Lineages
<1>6. MatchingInv'
    BY <1>1, <1>2, <1>3 DEF IInv, MatchingInv, Lineages
<1> QED BY <1>4, <1>5, <1>6 DEF IInv

\* One more match, by whatever tier: it shares its lineage with no earlier one.
LEMMA AppendMatchInv ==
    ASSUME IInv, Pending, NEW m \in LineageMatch, UNCHANGED <<history, new>>,
           matches' = Append(matches, m),
           \/ /\ m.strategy = "new" /\ m.lineage = new[Len(matches) + 1].lineage
              /\ matched' = matched
           \/ /\ m.strategy # "new" /\ m.lineage \notin matched
              /\ history # <<>> /\ m.lineage \in Lineages(Len(history))
              /\ matched' = matched \cup {m.lineage}
    PROVE  IInv'
<1> DEFINE n == Len(matches) + 1
<1>1. /\ matches \in Seq(LineageMatch) /\ new \in Seq(Node) /\ history \in Seq(Seq(Node))
      /\ Len(matches) \in Nat /\ Len(history) \in Nat /\ n \in DOMAIN new
      /\ DOMAIN matches = 1..(n - 1) /\ DOMAIN matches' = 1..n /\ matches'[n] = m
      /\ \A i \in 1..(n - 1) : matches'[i] = matches[i]
      /\ Len(matches') <= Len(new) /\ matches' \in Seq(LineageMatch)
    BY DEF IInv, TypeOK, Pending
<1>a. \A i \in 1..n : i \in DOMAIN new /\ new[i].lineage = <<Len(history) + 1, i>>
    BY <1>1 DEF IInv, MatchingInv, Pending
<1>b. \A i \in 1..(n - 1) :
          \/ matches[i].strategy = "new" /\ matches[i].lineage = <<Len(history) + 1, i>>
          \/ matches[i].strategy # "new" /\ matches[i].lineage \in matched
    BY <1>1, <1>a DEF IInv, MatchingInv
<1>2. TypeOK'
    BY <1>1 DEF IInv, TypeOK, LineageMatch
<1>3. StoredInv'
    BY DEF IInv, StoredInv, LineageUnique, Lineages
<1>4. \A l \in matched' : l \in Lineages(Len(history)) /\ history # <<>>
    BY DEF IInv, MatchingInv
<1>5. \A l \in Lineages(Len(history)) : history # <<>> => l[1] <= Len(history)
    BY <1>1 DEF IInv, StoredInv, Lineages
<1>6. \A i \in 1..n : \/ /\ matches'[i].strategy = "new"
                        /\ matches'[i].lineage = <<Len(history) + 1, i>>
                     \/ /\ matches'[i].strategy # "new"
                        /\ matches'[i].lineage \in matched'
    BY <1>1, <1>a, <1>b
<1>7. \A i \in 1..(n - 1) : matches'[i].lineage # m.lineage
  <2> SUFFICES ASSUME NEW i \in 1..(n - 1), matches[i].lineage = m.lineage
               PROVE  FALSE
      BY <1>1
  <2>1. \/ matches[i].strategy = "new" /\ matches[i].lineage = <<Len(history) + 1, i>>
        \/ matches[i].strategy # "new" /\ matches[i].lineage \in matched
      BY <1>b
  <2>2. \A l \in matched : l[1] <= Len(history)
      BY <1>4, <1>5
  <2>3. CASE m.strategy = "new"
    <3>1. m.lineage = <<Len(history) + 1, n>>
        BY <1>1, <2>3 DEF IInv, MatchingInv
    <3>2. m.lineage \notin matched
        BY <1>1, <2>2, <3>1
    <3> QED BY <1>1, <2>1, <3>1, <3>2
  <2>4. CASE m.strategy # "new"
    <3>1. m.lineage \notin matched /\ m.lineage[1] <= Len(history)
        BY <1>5, <2>4
    <3> QED BY <1>1, <2>1, <3>1
  <2> QED BY <2>3, <2>4
<1>8. \A i, j \in DOMAIN matches' : matches'[i].lineage = matches'[j].lineage => i = j
    BY <1>1, <1>7 DEF IInv, MatchingInv
<1>9. MatchingInv'
    BY <1>1, <1>4, <1>6, <1>8 DEF IInv, MatchingInv, Lineages
<1> QED BY <1>2, <1>3, <1>9 DEF IInv

LEMMA MarkNewInv ==
    ASSUME IInv, MarkNew
    PROVE  IInv'
<1> DEFINE m == Match(new[Len(matches) + 1].lineage, "new", 1200, "new")
<1>1. new \in Seq(Node) /\ Len(matches) + 1 \in DOMAIN new
    BY DEF IInv, TypeOK, MarkNew, Pending
<1>2. new[Len(matches) + 1].lineage \in Lineage
  <2>1. new[Len(matches) + 1] \in Node
      BY <1>1
  <2> QED BY <2>1 DEF Node
<1>3. m \in LineageMatch /\ m.strategy = "new"
      /\ m.lineage = new[Len(matches) + 1].lineage
    BY <1>2 DEF Match, LineageMatch, Confidence
<1>4. /\ Pending /\ UNCHANGED <<history, new, matched>>
      /\ matches' = Append(matches, m)
    BY DEF MarkNew
<1> HIDE DEF m
<1> QED BY <1>3, <1>4, AppendMatchInv

LEMMA MatchNextInv ==
    ASSUME IInv, MatchNext
    PROVE  IInv'
<1> DEFINE i == Len(matches) + 1
           prev == Previous(history)
           m == MatchNode(new, i, prev, matched)
<1>1. /\ new \in Seq(Node) /\ i \in DOMAIN new /\ i \in Nat
      /\ history \in Seq(Seq(Node)) /\ history # <<>> /\ Pending
      /\ UNCHANGED <<history, new>> /\ matches' = Append(matches, m)
      /\ matched' = IF m.strategy # "new" THEN matched \cup {m.lineage} ELSE matched
    BY DEF IInv, TypeOK, MatchNext, Pending
<1>2. prev = history[Len(history)] /\ prev \in Seq(Node)
    BY <1>1 DEF Previous
<1>3. m \in LineageMatch
    BY <1>1, <1>2, MatchNodeType
<1>4. \/ m.strategy = "new" /\ m.lineage = new[i].lineage
      \/ /\ m.strategy # "new" /\ m.lineage \notin matched
         /\ \E j \in DOMAIN prev : m.lineage = prev[j].lineage
    BY <1>1, <1>2, MatchNodeTakesFree
<1>5. (\E j \in DOMAIN prev : m.lineage = prev[j].lineage)
        => m.lineage \in Lineages(Len(history))
    BY <1>2 DEF Lineages
<1> HIDE DEF m, prev
<1> QED BY <1>1, <1>3, <1>4, <1>5, AppendMatchInv

LEMMA PersistInv ==
    ASSUME IInv, Persist
    PROVE  IInv'
<1> DEFINE n == Len(history) + 1
           stored == Applied(new, matches)
<1>1. /\ history \in Seq(Seq(Node)) /\ new \in Seq(Node) /\ matches \in Seq(LineageMatch)
      /\ Len(matches) = Len(new) /\ n \in Nat /\ n > 0
      /\ new' = <<>> /\ matches' = <<>> /\ matched' = {}
      /\ history' = Append(history, stored)
    BY DEF IInv, TypeOK, Persist, Pending
<1>2. \A i \in DOMAIN new : /\ new[i] \in Node /\ matches[i].lineage \in Lineage
                           /\ [new[i] EXCEPT !.lineage = matches[i].lineage] \in Node
  <2>1. \A i \in DOMAIN new : new[i] \in Node /\ matches[i] \in LineageMatch
      BY <1>1
  <2>2. \A q \in Node, l \in Lineage : [q EXCEPT !.lineage = l] \in Node
      BY DEF Node
  <2>3. \A k \in LineageMatch : k.lineage \in Lineage
      BY DEF LineageMatch
  <2> QED BY <2>1, <2>2, <2>3
<1>3. /\ stored \in Seq(Node) /\ DOMAIN stored = DOMAIN new
      /\ \A i \in DOMAIN new : stored[i].lineage = matches[i].lineage
  <2>1. DOMAIN new = 1..Len(new) /\ Len(new) \in Nat
      BY <1>1
  <2>2. stored \in [1..Len(new) -> Node]
      BY <1>2, <2>1 DEF Applied
  <2>3. \A i \in DOMAIN new : stored[i].lineage = matches[i].lineage
      BY <1>2 DEF Applied, Node
  <2> QED BY <2>1, <2>2, <2>3 DEF Applied
<1> HIDE DEF stored
<1>4. /\ history' \in Seq(Seq(Node)) /\ DOMAIN history' = 1..n /\ Len(history') = n
      /\ DOMAIN history = 1..(n - 1)
      /\ history'[n] = stored /\ \A v \in 1..(n - 1) : history'[v] = history[v]
    BY <1>1, <1>3
<1>5. TypeOK'
    BY <1>1, <1>4 DEF TypeOK
<1>6. MatchingInv'
    BY <1>1 DEF MatchingInv
<1>7. \A i \in DOMAIN stored : \/ history # <<>> /\ stored[i].lineage \in Lineages(n - 1)
                              \/ stored[i].lineage = <<n, i>>
  <2> SUFFICES ASSUME NEW i \in DOMAIN stored
               PROVE  \/ history # <<>> /\ matches[i].lineage \in Lineages(n - 1)
                      \/ matches[i].lineage = <<n, i>>
      BY <1>3
  <2>1. i \in DOMAIN matches /\ i \in DOMAIN new /\ n - 1 = Len(history)
      BY <1>1, <1>3
  <2> QED BY <2>1 DEF IInv, MatchingInv
<1>8. \A v \in DOMAIN history' : \A i \in DOMAIN history'[v] :
          history'[v][i].lineage[1] \in 1..v
  <2>1. \A v \in 1..(n - 1) : \A i \in DOMAIN history[v] :
            history[v][i].lineage[1] \in 1..v
      BY <1>4 DEF IInv, StoredInv
  <2>2. \A l \in Lineages(n - 1) : history # <<>> => l[1] \in 1..n
      BY <1>1, <1>4, <2>1 DEF Lineages
  <2>3. \A i \in DOMAIN stored : stored[i].lineage[1] \in 1..n
      BY <1>1, <1>7, <2>2
  <2> SUFFICES ASSUME NEW v \in 1..n, NEW i \in DOMAIN history'[v]
               PROVE  history'[v][i].lineage[1] \in 1..v
      BY <1>4
  <2>4. CASE v = n
      BY <1>4, <2>3, <2>4
  <2>5. CASE v # n
    <3>1. v \in 1..(n - 1)
        BY <1>1, <2>5
    <3> QED BY <1>4, <2>1, <3>1
  <2> QED BY <2>4, <2>5
<1>9. LineageUnique'
  <2>1. \A i, j \in DOMAIN stored : stored[i].lineage = stored[j].lineage => i = j
    <3>1. DOMAIN stored = DOMAIN matches
        BY <1>1, <1>3
    <3> QED BY <1>3, <3>1 DEF IInv, MatchingInv
  <2> QED BY <1>4, <2>1 DEF IInv, StoredInv, LineageUnique
<1>10. \A v \in 1..(Len(history') - 1) : \A i \in DOMAIN history'[v + 1] :
          \/ history'[v + 1][i].lineage \in Lineages(v)'
          \/ history'[v + 1][i].lineage[1] = v + 1
  <2>1. \A v \in 1..(n - 1) : Lineages(v)' = Lineages(v)
      BY <1>4 DEF Lineages
  <2> SUFFICES ASSUME NEW v \in 1..(n - 1), NEW i \in DOMAIN history'[v + 1]
               PROVE  \/ history'[v + 1][i].lineage \in Lineages(v)
                      \/ history'[v + 1][i].lineage[1] = v + 1
      BY <1>4, <2>1
  <2>2. CASE v = n - 1
    <3>1. history'[v + 1] = stored /\ v + 1 = n
        BY <1>1, <1>4, <2>2
    <3> QED BY <1>7, <2>2, <3>1
  <2>3. CASE v # n - 1
    <3>1. Len(history) = n - 1 /\ v + 1 \in 1..(n - 1) /\ v \in 1..((n - 1) - 1)
        BY <1>1, <2>3
    <3>2. v \in 1..(Len(history) - 1) /\ history'[v + 1] = history[v + 1]
        BY <1>4, <3>1
    <3> QED BY <3>2 DEF IInv, StoredInv
  <2> QED BY <2>2, <2>3
<1> QED BY <1>5, <1>6, <1>8, <1>9, <1>10 DEF IInv, StoredInv

--------------------------------------------------------------------------------
(* Theorems *)

LEMMA NextInv == IInv /\ [Next]_vars => IInv'
<1> SUFFICES ASSUME IInv, [Next]_vars PROVE IInv'
    OBVIOUS
<1>1. CASE UNCHANGED vars
    BY <1>1 DEF vars, IInv, TypeOK, StoredInv, LineageUnique, MatchingInv, Lineages
<1> QED BY <1>1, BuildTreeInv, MarkNewInv, MatchNextInv, PersistInv DEF Next, Full

\* The inductive invariant holds in every reachable state.
THEOREM InductiveInvariant == Spec => []IInv
BY InitInv, NextInv, PTL DEF Spec

\* Trees, matches and confidences keep their types, for all trees and versions.
THEOREM TypeCorrect == Spec => []TypeOK
BY InductiveInvariant, PTL DEF IInv

\* No version ever has two nodes of one lineage.
THEOREM UniqueLineages == Spec => []LineageUnique
BY InductiveInvariant, PTL DEF IInv, StoredInv

\* A lineage that is in a later and an earlier version is in all between: going
\* back from the later one, the first version to have it is its birth version.
LEMMA Contiguous ==
    ASSUME IInv
    PROVE  LineageNeverReturns
<1> SUFFICES ASSUME NEW u \in DOMAIN history, NEW v \in DOMAIN history,
                    NEW w \in DOMAIN history, u < v, v < w,
                    NEW l \in Lineages(u) \cap Lineages(w), l \notin Lineages(v)
             PROVE  FALSE
    BY DEF LineageNeverReturns
<1> DEFINE S == {x \in (v + 1)..w : l \in Lineages(x)}
<1>1. DOMAIN history = 1..Len(history) /\ Len(history) \in Nat
    BY DEF IInv, TypeOK
<1>2. l[1] \in 1..u
    BY DEF IInv, StoredInv, Lineages
<1>3. S \in SUBSET Nat /\ w \in S
    BY <1>1
<1>4. PICK m \in S : \A x \in S : m <= x
  <2> HIDE DEF S
  <2> QED BY <1>3, LeastElementExists
<1>5. /\ m - 1 \in 1..(Len(history) - 1) /\ (m - 1) + 1 = m
      /\ m - 1 \in v..w /\ l[1] # m
    BY <1>1, <1>2, <1>4
<1>6. PICK i \in DOMAIN history[m] : l = history[m][i].lineage
    BY <1>4 DEF Lineages
<1>7. l \in Lineages(m - 1)
  <2>1. history[(m - 1) + 1] = history[m]
      BY <1>5
  <2> QED BY <1>5, <1>6, <2>1 DEF IInv, StoredInv
<1>8. m - 1 # v
    BY <1>7
<1>9. m - 1 \in S
    BY <1>1, <1>5, <1>7, <1>8
<1> QED BY <1>1, <1>4, <1>9

\* What a version has lost is never taken up again.
THEOREM RemovedStaysRemoved == Spec => []LineageNeverReturns
BY InductiveInvariant, Contiguous, PTL

--------------------------------------------------------------------------------
(* The refinement *)

\* The history as the routes read it.
Read == [v \in DOMAIN history |-> NodesOf(history[v])]

\* It is a sequence as long as the history, of functions on the lineages.
LEMMA ReadType ==
    ASSUME history \in Seq(Seq(Node))
    PROVE  /\ Len(Read) = Len(history) /\ DOMAIN Read = 1..Len(history)
           /\ \A v \in DOMAIN history : DOMAIN Read[v] = Lineages(v)
<1> DEFINE R == {NodesOf(history[v]) : v \in DOMAIN history}
<1>1. PICK n \in Nat : n = Len(history) /\ DOMAIN history = 1..n
    OBVIOUS
<1>2. Read \in [1..n -> R]
    BY <1>1 DEF Read
<1> HIDE DEF R
<1>3. Read \in Seq(R)
    BY <1>2, SeqDef
<1>4. Len(Read) = n /\ DOMAIN Read = 1..n
    BY <1>1, <1>2, <1>3
<1>5. \A v \in DOMAIN history : DOMAIN Read[v] = Lineages(v)
    BY DEF Read, NodesOf, Lineages
<1> QED BY <1>1, <1>4, <1>5

LEMMA RefinementInit == Init => Stored!Init
<1> SUFFICES ASSUME Init PROVE Read = <<>>
    BY DEF Stored!Init, Read
<1>1. Len(Read) = 0 /\ DOMAIN Read = {} /\ history = <<>>
    BY ReadType DEF Init
<1> QED BY <1>1 DEF Read

\* Persist appends a version that takes up no lost lineage; the other steps
\* leave the history alone.
LEMMA RefinementStep ==
    ASSUME IInv, IInv', [Next]_vars
    PROVE  [Stored!Next]_Read
<1>1. CASE UNCHANGED history
    BY <1>1 DEF Read, NodesOf
<1>2. CASE Persist
  <2>0. PICK n \in Nat : n = Len(history)
      BY DEF IInv, TypeOK
  <2>1. history \in Seq(Seq(Node)) /\ history' \in Seq(Seq(Node))
      BY DEF IInv, TypeOK
  <2>2. Len(history) = n /\ Len(history') = n + 1 /\ DOMAIN history = 1..n
        /\ DOMAIN history' = 1..(n + 1)
      BY <1>2, <2>0, <2>1 DEF Persist
  <2>3. \A v \in 1..n : history'[v] = history[v]
      BY <1>2, <2>1, <2>2 DEF Persist
  <2>4. /\ Len(Read) = n /\ DOMAIN Read = 1..n
        /\ \A v \in 1..n : DOMAIN Read[v] = Lineages(v)
      BY <2>1, <2>2, ReadType
  <2>5. (history \in Seq(Seq(Node)) => /\ Len(Read) = Len(history)
           /\ DOMAIN Read = 1..Len(history)
           /\ \A v \in DOMAIN history : DOMAIN Read[v] = Lineages(v))'
      BY ReadType, PTL
  <2>6. /\ Len(Read') = n + 1
        /\ \A v \in 1..(n + 1) : DOMAIN Read'[v] = Lineages(v)'
      BY <2>1, <2>2, <2>5
  <2>7. \A v \in 1..n : Read'[v] = Read[v]
      BY <2>2, <2>3 DEF Read, NodesOf
  <2>8. \A v \in 1..n : Lineages(v)' = Lineages(v)
      BY <2>3 DEF Lineages
  <2>9. LineageNeverReturns'
      BY Contiguous, PTL
  <2>10. n # 0 => Lineages(n + 1)' \cap UNION {Lineages(v) : v \in 1..n} \subseteq Lineages(n)
    <3> SUFFICES ASSUME n # 0, NEW u \in 1..n,
                        NEW l \in Lineages(n + 1)' \cap Lineages(u)
                 PROVE  l \in Lineages(n)
        OBVIOUS
    <3>1. CASE u = n
        BY <3>1
    <3>2. CASE u < n
      <4>1. /\ u \in DOMAIN history' /\ n \in DOMAIN history' /\ n + 1 \in DOMAIN history'
            /\ n < n + 1
          BY <2>2
      <4>2. l \in Lineages(u)' \cap Lineages(n + 1)'
          BY <2>8
      <4>3. Lineages(u)' \cap Lineages(n + 1)' \subseteq Lineages(n)'
          BY <2>9, <3>2, <4>1 DEF LineageNeverReturns
      <4>4. Lineages(n)' = Lineages(n)
          BY <2>2, <2>8
      <4> QED BY <4>2, <4>3, <4>4
    <3> QED BY <2>2, <3>1, <3>2
  <2>11. Stored!Used = UNION {Lineages(v) : v \in 1..n}
      BY <2>4 DEF Stored!Used, Read
  <2>12. Stored!Admissible(Read'[n + 1])
    <3>1. DOMAIN Read'[n + 1] = Lineages(n + 1)'
        BY <2>6
    <3>2. n = 0 => Read = <<>>
        BY <2>2, <2>4 DEF Read
    <3>3. n # 0 => DOMAIN Read[n] = Lineages(n)
        BY <2>4
    <3> QED BY <2>4, <2>10, <2>11, <3>1, <3>2, <3>3 DEF Stored!Admissible, Read
  <2>13. /\ Len(Read') = Len(Read) + 1
         /\ \A v \in DOMAIN Read : Read'[v] = Read[v]
         /\ Stored!Admissible(Read'[Len(Read')])
      BY <2>4, <2>6, <2>7, <2>12
  <2> QED BY <2>13 DEF Stored!Next, Read
<1> QED BY <1>1, <1>2 DEF Next, BuildTree, MarkNew, MatchNext, Full, vars

\* The histories of the matcher are what the routes rely on: versions are only
\* appended and a new one takes up no lineage the latest has lost.
THEOREM HistoryImplementsDocumentVersions == Spec => ImplementsDocumentVersions
<1>1. IInv /\ IInv' /\ [Next]_vars => [Stored!Next]_Read
    BY RefinementStep
<1> QED BY <1>1, InductiveInvariant, RefinementInit, PTL
    DEF Spec, ImplementsDocumentVersions, Stored!Spec, Read

--------------------------------------------------------------------------------
(* Which node the strategy picks *)

\* i is the first node of prev with the content of t[x] that is not taken.
FirstSame(t, x, prev, taken, i) ==
    /\ i \in DOMAIN prev /\ Hash(prev[i]) = Hash(t[x]) /\ prev[i].lineage \notin taken
    /\ \A j \in DOMAIN prev :
         Hash(prev[j]) = Hash(t[x]) /\ prev[j].lineage \notin taken => i <= j

\* It is the one that is matched.
LEMMA FirstExact ==
    ASSUME NEW t, NEW x, NEW prev \in Seq(Node), NEW taken, NEW i,
           FirstSame(t, x, prev, taken, i)
    PROVE  /\ MatchNode(t, x, prev, taken).strategy = "exact"
           /\ MatchNode(t, x, prev, taken).lineage = prev[i].lineage
<1> DEFINE E == ExactCandidates(t[x], prev, taken)
<1>1. i \in E /\ E \subseteq DOMAIN prev /\ E \in SUBSET Nat
    BY DEF ExactCandidates, Unmatched, FirstSame
<1>2. \A j \in E : i <= j
    BY DEF ExactCandidates, Unmatched, FirstSame
<1> HIDE DEF E
<1>3. FirstOf(E) \in E
    BY <1>1, FirstOfIsIn
<1>4. \A k \in E : FirstOf(E) <= k
  <2>1. \E j \in E : \A k \in E : j <= k
      BY <1>1, <1>2
  <2> QED BY <2>1 DEF FirstOf
<1>5. FirstOf(E) = i
    BY <1>1, <1>2, <1>3, <1>4
<1> QED BY <1>1, <1>5 DEF MatchNode, Match, E

\* A node without a section of its own content or heading among the previous ones
\* left gets a positional match, which stays below the threshold; the other tiers
\* find one, and stay above it.
LEMMA MatchFlagged ==
    ASSUME NEW t \in Seq(Node), NEW i \in DOMAIN t, NEW prev \in Seq(Node), NEW taken,
           \A k, l \in DOMAIN prev : prev[k].lineage = prev[l].lineage => k = l,
           NEW j \in DOMAIN prev,
           MatchNode(t, i, prev, taken).strategy # "new",
           MatchNode(t, i, prev, taken).lineage = prev[j].lineage
    PROVE  MatchNode(t, i, prev, taken).status = "needs_review"
             <=> ~SameSection(t[i], prev[j])
<1> DEFINE E == ExactCandidates(t[i], prev, taken)
           H == HeadingCandidates(t[i], prev, taken)
           P == PositionalCandidates(t[i], prev, taken)
           F == Unmatched(prev, taken)
           m == MatchNode(t, i, prev, taken)
<1>0. i \in Nat /\ F \in SUBSET Nat /\ F \subseteq DOMAIN prev
    BY DEF Unmatched
<1>a. \A k : Status(HeadingConfidence(t, i, prev, k)) = "matched"
    BY DEF HeadingConfidence, AtMost, Status, Threshold
<1>b. ASSUME NEW k \in DOMAIN prev
      PROVE  Status(PositionalConfidence(t, i, prev, k)) = "needs_review"
  <2>1. t[i].heading \in Headings /\ prev[k].heading \in Headings
    <3>1. t[i] \in Node /\ prev[k] \in Node
        OBVIOUS
    <3> QED BY <3>1 DEF Node
  <2>2. RawPositionalConfidence(t, i, prev, k) \in Nat
      BY <2>1, OverlapType DEF RawPositionalConfidence
  <2>3. PICK x \in Nat : x = RawPositionalConfidence(t, i, prev, k)
      BY <2>2
  <2>4. AtMost(840, x) <= 840
      BY DEF AtMost
  <2> QED BY <2>3, <2>4 DEF PositionalConfidence, Status, Threshold, AtMost
<1>1. /\ E \subseteq F /\ H \subseteq F /\ P \subseteq F
      /\ \A k \in F : k \in E <=> Hash(prev[k]) = Hash(t[i])
      /\ \A k \in F : k \in H <=> /\ Key[t[i].heading] # ""
                                /\ Key[prev[k].heading] = Key[t[i].heading]
    BY Zenon DEF ExactCandidates, HeadingCandidates, PositionalCandidates
<1>2. \A k \in F : SameSection(t[i], prev[k]) <=> k \in E \/ k \in H
    BY <1>1, Zenon DEF SameSection
<1>3. \A k \in F : m.lineage = prev[k].lineage => k = j
    BY <1>0
<1> HIDE DEF F
<1>4. CASE E # {}
  <2> DEFINE k == FirstOf(E)
  <2>1. m.status = "matched" /\ m.lineage = prev[k].lineage
      BY <1>4 DEF MatchNode, Match
  <2> HIDE DEF m, E
  <2>2. k \in E
      BY <1>0, <1>1, <1>4, FirstOfIsIn
  <2> QED BY <1>1, <1>2, <1>3, <2>1, <2>2 DEF m
<1>5. CASE E = {} /\ H # {}
  <2> DEFINE k == BestHeading(t, i, prev, H)
  <2>1. m.status = "matched" /\ m.lineage = prev[k].lineage
      BY <1>a, <1>5 DEF MatchNode, Match
  <2> HIDE DEF m, H, E
  <2>2. k \in H
      BY <1>0, <1>1, <1>5, BestHeadingIsIn
  <2> QED BY <1>1, <1>2, <1>3, <2>1, <2>2 DEF m
<1>6. CASE E = {} /\ H = {} /\ P # {}
  <2> DEFINE k == BestPositional(t, i, P)
  <2>1. /\ m.status = Status(PositionalConfidence(t, i, prev, k))
        /\ m.lineage = prev[k].lineage
      BY <1>6 DEF MatchNode, Match
  <2> HIDE DEF m, H, E, P
  <2>2. k \in P
      BY <1>0, <1>1, <1>6, BestPositionalIsIn
  <2>3. m.status = "needs_review"
      BY <1>0, <1>1, <1>b, <2>1, <2>2
  <2> QED BY <1>1, <1>2, <1>3, <1>6, <2>1, <2>2, <2>3 DEF m
<1>7. CASE E = {} /\ H = {} /\ P = {}
  <2>1. m.strategy = "new"
      BY <1>7 DEF MatchNode, Match
  <2> QED BY <2>1
<1> QED BY <1>4, <1>5, <1>6, <1>7

\* The headings that are matched by their key.
Keyed(h) == Key[h] # ""

\* The root is matched with the root: its own content is found first, and if its
\* body has changed no candidate by heading scores higher.
LEMMA RootMatched ==
    ASSUME NEW t \in Seq(Node), Len(t) > 0, NEW prev \in Seq(Node), Len(prev) > 0,
           NEW taken, taken = {},
           prev[1].heading = t[1].heading, prev[1].depth = t[1].depth,
           Keyed(t[1].heading),
           \A j \in 2..Len(prev) : prev[j].heading # prev[1].heading
    PROVE  MatchNode(t, 1, prev, taken).lineage = prev[1].lineage
<1> DEFINE E == ExactCandidates(t[1], prev, taken)
           H == HeadingCandidates(t[1], prev, taken)
           sc(j) == HeadingScore(t, 1, prev, j)
           B == {j \in H : \A k \in H : sc(j) >= sc(k)}
<1>0. /\ DOMAIN prev \subseteq Nat /\ 1 \in DOMAIN prev
      /\ \A j \in DOMAIN prev : 1 <= j /\ (j = 1 \/ j \in 2..Len(prev))
  <2>1. PICK n \in Nat : n = Len(prev) /\ n > 0
      OBVIOUS
  <2>2. DOMAIN prev = 1..n
      BY <2>1
  <2> QED BY <2>1, <2>2
<1>1. CASE Hash(prev[1]) = Hash(t[1])
  <2>1. FirstSame(t, 1, prev, taken, 1)
      BY <1>0, <1>1 DEF FirstSame
  <2> QED BY <2>1, FirstExact
<1>2. CASE Hash(prev[1]) # Hash(t[1])
  <2>1. E = {}
    <3>1. \A j \in DOMAIN prev : Hash(prev[j]) # Hash(t[1])
      <4>1. \A a, b, c, d : <<a, b>> = <<c, d>> => a = c
          BY SMT
      <4>2. \A j \in 2..Len(prev) : Hash(prev[j]) # Hash(t[1])
          BY <4>1 DEF Hash
      <4> QED BY <1>0, <1>2, <4>2
    <3> QED BY <3>1 DEF ExactCandidates, Unmatched
  <2>2. 1 \in H /\ H \subseteq DOMAIN prev
      BY <1>0, Zenon DEF HeadingCandidates, Unmatched, Keyed
  <2>3. Distance(t, 1, 1) = 0
    <3>1. SiblingIndex(t, 1) = Cardinality({})
      <4>1. {j \in 1..(1 - 1) : /\ t[j].depth = t[1].depth
                               /\ \A k \in j..1 : t[k].depth >= t[1].depth} = {}
          OBVIOUS
      <4> QED BY <4>1 DEF SiblingIndex
    <3>2. SiblingIndex(t, 1) = 0
        BY <3>1, FS_EmptySet
    <3>3. RebuiltIndex(1) = 0 /\ Abs(0 - 0) = 0
        BY DEF RebuiltIndex, Abs
    <3> QED BY <3>2, <3>3 DEF Distance
  <2>4. sc(1) = 3
      BY <2>3 DEF HeadingScore
  <2>9. \A j : sc(j) \in 0..3
      BY DEF HeadingScore
  <2> HIDE DEF sc, H
  <2>5. 1 \in B /\ \A j \in B : 1 <= j
      BY <1>0, <2>2, <2>4, <2>9
  <2>6. B \in SUBSET Nat
      BY <1>0, <2>2
  <2> HIDE DEF B
  <2>7. FirstOf(B) = 1
    <3>1. FirstOf(B) \in B /\ B # {}
        BY <2>5, <2>6, FirstOfIsIn
    <3>2. \A k \in B : FirstOf(B) <= k
      <4>1. \E j \in B : \A k \in B : j <= k
          BY <2>5
      <4> QED BY <4>1 DEF FirstOf
    <3>3. PICK f \in Nat : f = FirstOf(B)
        BY <2>6, <3>1
    <3>4. f <= 1 /\ 1 <= f
        BY <2>5, <3>1, <3>2, <3>3
    <3> QED BY <3>3, <3>4
  <2>8. BestHeading(t, 1, prev, H) = 1
      BY <2>7 DEF BestHeading, B, sc
  <2> QED BY <2>1, <2>2, <2>8 DEF MatchNode, Match, E, H
<1> QED BY <1>1, <1>2

--------------------------------------------------------------------------------
(* The invariants *)

\* The nodes matched so far have the content of the latest version's, one by one.
AgreesSoFar ==
    \A k \in DOMAIN matches :
        k \in DOMAIN Previous(history) /\ Hash(new[k]) = Hash(Previous(history)[k])

\* As long as a new tree agrees with the latest version, each node takes the
\* lineage of the node at its place, and these are the lineages taken.
AgreementInv ==
    history # <<>> /\ AgreesSoFar =>
      /\ \A k \in DOMAIN matches : matches[k].lineage = Previous(history)[k].lineage
      /\ matched = {Previous(history)[k].lineage : k \in DOMAIN matches}

\* Every tree has the parser's root.
RootsAlike ==
    /\ new # <<>> => Trees # {}
    /\ \A t \in Trees :
      /\ \A v \in DOMAIN history :
           /\ Len(history[v]) > 0
           /\ history[v][1].heading = t[1].heading /\ history[v][1].depth = t[1].depth
      /\ new # <<>> => new[1].heading = t[1].heading /\ new[1].depth = t[1].depth

RootIsAlone ==
    \A v \in DOMAIN history : \A i \in 2..Len(history[v]) :
        history[v][i].heading # history[v][1].heading

RootInv ==
    RootIsAlone =>
      /\ \A v \in DOMAIN history : history[v][1].lineage = <<1, 1>>
      /\ matches # <<>> => matches[1].lineage = <<1, 1>>

StableInv ==
    /\ IInv /\ IdenticalKeepsLineage /\ AgreementInv /\ FlaggedIfOtherSection
    /\ RootsAlike /\ RootInv

\* Without matches no lineage is taken.
LEMMA NothingTaken ==
    ASSUME IInv, AgreementInv, matches = <<>>
    PROVE  matched = {}
<1>1. DOMAIN matches = {}
    OBVIOUS
<1>2. history # <<>> => matched = {Previous(history)[k].lineage : k \in {}}
    BY <1>1 DEF AgreementInv, AgreesSoFar
<1>3. history = <<>> => matched = {}
    BY DEF IInv, MatchingInv
<1> QED BY <1>2, <1>3

LEMMA StableInit == Init => StableInv
<1> SUFFICES ASSUME Init PROVE StableInv
    OBVIOUS
<1>1. history = <<>> /\ matches = <<>> /\ new = <<>> /\ IInv
    BY InitInv DEF Init
<1>2. DOMAIN history = {} /\ DOMAIN matches = {} /\ Len(history) = 0
    BY <1>1
<1>3. IdenticalKeepsLineage
    BY <1>2 DEF IdenticalKeepsLineage
<1> QED
    BY <1>1, <1>2, <1>3
    DEF StableInv, AgreementInv, FlaggedIfOtherSection, RootsAlike, RootInv

\* The properties of stored versions need a look only when one is stored.
LEMMA StoredKept ==
    ASSUME StableInv, UNCHANGED history
    PROVE  IdenticalKeepsLineage' /\ RootIsAlone' = RootIsAlone
<1>1. IdenticalKeepsLineage'
    BY DEF StableInv, IdenticalKeepsLineage, SameTree, Hash
<1>2. RootIsAlone' = RootIsAlone
    BY DEF RootIsAlone
<1> QED BY <1>1, <1>2

LEMMA BuildTreeStable ==
    ASSUME StableInv, IInv', NEW t \in Trees, BuildTree(t)
    PROVE  StableInv'
<1>1. /\ new' = Fresh(t, Len(history) + 1) /\ new = <<>>
      /\ UNCHANGED <<history, matches, matched>>
    BY DEF BuildTree
<1>2. matches = <<>> /\ DOMAIN matches = {}
    BY <1>1 DEF StableInv, IInv, TypeOK
<1>3. AgreementInv'
  <2>1. matched = {}
      BY <1>2, NothingTaken DEF StableInv
  <2> QED BY <1>1, <1>2, <2>1 DEF AgreementInv
<1>4. RootsAlike'
  <2>1. t \in Seq(ParsedNode) /\ Len(t) > 0
      BY TreesAssumption
  <2>2. new'[1].heading = t[1].heading /\ new'[1].depth = t[1].depth
      BY <1>1, <2>1 DEF Fresh
  <2> HIDE <1>1
  <2>3. \A s \in Trees : s[1].heading = t[1].heading /\ s[1].depth = t[1].depth
      BY TreesAssumption, Zenon
  <2> QED BY <1>1, <2>2, <2>3 DEF StableInv, RootsAlike
<1>5. RootInv'
    BY <1>1, <1>2, StoredKept DEF StableInv, RootInv
<1>6. FlaggedIfOtherSection'
  <2>1. DOMAIN matches' = {}
      BY <1>1, <1>2
  <2> QED BY <2>1 DEF FlaggedIfOtherSection
<1> QED BY <1>1, <1>3, <1>4, <1>5, <1>6, StoredKept DEF StableInv

LEMMA MarkNewStable ==
    ASSUME StableInv, IInv', MarkNew
    PROVE  StableInv'
<1> DEFINE m == Match(new[Len(matches) + 1].lineage, "new", 1200, "new")
<1>1. /\ history = <<>> /\ UNCHANGED <<history, new, matched>>
      /\ matches' = Append(matches, m) /\ matches \in Seq(LineageMatch)
      /\ new \in Seq(Node) /\ Len(matches) < Len(new)
    BY DEF MarkNew, Pending, StableInv, IInv, TypeOK
<1>2. m.lineage = new[Len(matches) + 1].lineage /\ m.strategy = "new" /\ m.status = "new"
    BY DEF Match
<1> HIDE DEF m
<1>3. FlaggedIfOtherSection'
    BY <1>1, <1>2 DEF StableInv, FlaggedIfOtherSection
<1>4. RootInv'
  <2> SUFFICES ASSUME RootIsAlone PROVE matches'[1].lineage = <<1, 1>>
    <3>1. DOMAIN history' = {}
        BY <1>1
    <3> QED BY <1>1, <3>1, StoredKept DEF RootInv
  <2>1. CASE matches = <<>>
    <3>1. matches'[1] = m /\ Len(matches) + 1 = 1 /\ 1 \in DOMAIN new
        BY <1>1, <2>1
    <3> QED BY <1>1, <1>2, <3>1 DEF StableInv, IInv, MatchingInv
  <2>2. CASE matches # <<>>
    <3>1. matches'[1] = matches[1]
        BY <1>1, <2>2
    <3> QED BY <2>2, <3>1 DEF StableInv, RootInv
  <2> QED BY <2>1, <2>2
<1>5. AgreementInv' /\ RootsAlike'
    BY <1>1 DEF StableInv, AgreementInv, RootsAlike
<1> QED BY <1>1, <1>3, <1>4, <1>5, StoredKept DEF StableInv

LEMMA MatchNextStable ==
    ASSUME StableInv, IInv', MatchNext
    PROVE  StableInv'
<1> DEFINE i == Len(matches) + 1
           prev == Previous(history)
           m == MatchNode(new, i, prev, matched)
<1>1. /\ new \in Seq(Node) /\ i \in DOMAIN new /\ i \in Nat
      /\ history \in Seq(Seq(Node)) /\ history # <<>>
      /\ UNCHANGED <<history, new>> /\ matches' = Append(matches, m)
      /\ matched' = IF m.strategy # "new" THEN matched \cup {m.lineage} ELSE matched
      /\ matches \in Seq(LineageMatch)
    BY DEF StableInv, IInv, TypeOK, MatchNext, Pending
<1>2. prev = history[Len(history)] /\ prev \in Seq(Node) /\ Len(history) \in DOMAIN history
    BY <1>1 DEF Previous
<1>3. /\ DOMAIN matches = 1..(i - 1) /\ DOMAIN matches' = 1..i
      /\ matches'[i] = m /\ \A k \in 1..(i - 1) : matches'[k] = matches[k]
    BY <1>1
<1>4. Previous(history)' = prev
    BY <1>1 DEF Previous
<1>5. AgreementInv'
  <2> SUFFICES ASSUME AgreesSoFar'
               PROVE  /\ \A k \in 1..i : matches'[k].lineage = prev[k].lineage
                      /\ matched' = {prev[k].lineage : k \in 1..i}
      BY <1>3, <1>4 DEF AgreementInv
  <2> HIDE DEF m, prev
  <2>1. \A k \in 1..i : k \in DOMAIN prev /\ Hash(new[k]) = Hash(prev[k])
      BY <1>1, <1>3, <1>4 DEF AgreesSoFar, Hash
  <2>2. /\ \A k \in 1..(i - 1) : matches[k].lineage = prev[k].lineage
        /\ matched = {prev[k].lineage : k \in 1..(i - 1)}
    <3>1. AgreesSoFar
        BY <1>1, <1>3, <2>1 DEF AgreesSoFar, prev
    <3> QED BY <1>1, <1>3, <3>1 DEF StableInv, AgreementInv, prev
  <2>3. \A j, k \in DOMAIN prev : prev[j].lineage = prev[k].lineage => j = k
      BY <1>2 DEF StableInv, IInv, StoredInv, LineageUnique
  <2>4. FirstSame(new, i, prev, matched, i)
    <3>1. i \in DOMAIN prev /\ Hash(prev[i]) = Hash(new[i])
        BY <1>1, <2>1
    <3>2. prev[i].lineage \notin matched
        BY <1>1, <2>1, <2>2, <2>3, <3>1
    <3>3. ASSUME NEW j \in DOMAIN prev, prev[j].lineage \notin matched PROVE i <= j
      <4>1. j \in Nat /\ j >= 1
          BY <1>2
      <4>2. j \notin 1..(i - 1)
          BY <2>2, <3>3
      <4> QED BY <1>1, <4>1, <4>2
    <3> QED BY <3>1, <3>2, <3>3 DEF FirstSame
  <2>5. m.strategy = "exact" /\ m.lineage = prev[i].lineage
    <3>1. m = MatchNode(new, i, prev, matched)
        BY DEF m
    <3> QED BY <1>2, <2>4, <3>1, FirstExact
  <2>6. matched' = matched \cup {prev[i].lineage}
      BY <1>1, <2>5
  <2>7. \A k \in 1..i : k = i \/ k \in 1..(i - 1)
      BY <1>1
  <2>8. 1..(i - 1) \subseteq 1..i /\ i \in 1..i
      BY <1>1
  <2> HIDE DEF i
  <2>9. matched' = {prev[k].lineage : k \in 1..i}
      BY <2>2, <2>6, <2>7, <2>8
  <2> QED BY <1>3, <2>2, <2>5, <2>7, <2>9
<1>6. FlaggedIfOtherSection'
  <2> SUFFICES ASSUME NEW k \in 1..i, NEW j \in DOMAIN prev,
                      matches'[k].lineage = prev[j].lineage
               PROVE  matches'[k].status = "needs_review" <=> ~SameSection(new[k], prev[j])
    <3> HIDE DEF m, prev
    <3> QED BY <1>1, <1>3, <1>4, Zenon DEF FlaggedIfOtherSection
  <2>1. CASE k = i
    <3>1. \A a, b \in DOMAIN prev : prev[a].lineage = prev[b].lineage => a = b
        BY <1>2 DEF StableInv, IInv, StoredInv, LineageUnique
    <3>2. m.strategy # "new"
      <4>1. new[i].lineage[1] = Len(history) + 1
          BY <1>1 DEF StableInv, IInv, MatchingInv
      <4>2. prev[j].lineage[1] \in 1..Len(history)
          BY <1>2 DEF StableInv, IInv, StoredInv
      <4>3. new[i].lineage # prev[j].lineage
          BY <1>1, <4>1, <4>2
      <4>4. m.strategy = "new" => m.lineage = new[i].lineage
          BY <1>1, <1>2, MatchNodeTakesFree
      <4> HIDE DEF m, prev
      <4> QED BY <1>3, <2>1, <4>3, <4>4
    <3>3. m.lineage = prev[j].lineage
        BY <1>3, <2>1
    <3>4. m.status = "needs_review" <=> ~SameSection(new[i], prev[j])
        BY <1>1, <1>2, <3>1, <3>2, <3>3, MatchFlagged
    <3> HIDE DEF m, prev
    <3> QED BY <1>3, <2>1, <3>4
  <2>2. CASE k # i
    <3>1. k \in 1..(i - 1)
        BY <1>1, <2>2
    <3> QED BY <1>1, <1>3, <3>1 DEF StableInv, FlaggedIfOtherSection
  <2> QED BY <2>1, <2>2
<1>7. RootInv'
  <2> SUFFICES ASSUME RootIsAlone PROVE matches'[1].lineage = <<1, 1>>
    <3>1. \A v \in DOMAIN history : RootIsAlone => history[v][1].lineage = <<1, 1>>
        BY DEF StableInv, RootInv
    <3> QED BY <1>1, <3>1, StoredKept DEF RootInv
  <2>1. CASE matches = <<>>
    <3>1. i = 1 /\ matched = {} /\ Len(new) > 0 /\ new # <<>>
        BY <1>1, <2>1, NothingTaken DEF StableInv
    <3>2. PICK t \in Trees : TRUE
        BY <3>1 DEF StableInv, RootsAlike
    <3>3. /\ Len(prev) > 0
          /\ prev[1].heading = new[1].heading /\ prev[1].depth = new[1].depth
          /\ new[1].heading = t[1].heading
        BY <1>2, <3>1, <3>2 DEF StableInv, RootsAlike
    <3>4. Keyed(new[1].heading)
        BY <3>2, <3>3, TreesAssumption, Zenon DEF Keyed
    <3>5. \A j \in 2..Len(prev) : prev[j].heading # prev[1].heading
        BY <1>2 DEF RootIsAlone
    <3>6. MatchNode(new, 1, prev, matched).lineage = prev[1].lineage
      <4> HIDE DEF prev
      <4> QED BY <1>1, <1>2, <3>1, <3>3, <3>4, <3>5, RootMatched
    <3>7. matches'[1] = m /\ m.lineage = prev[1].lineage
        BY <1>3, <3>1, <3>6
    <3> QED BY <1>2, <3>7 DEF StableInv, RootInv
  <2>2. CASE matches # <<>>
    <3>1. 1 \in 1..(i - 1)
        BY <1>1, <2>2
    <3> QED BY <1>3, <2>2, <3>1 DEF StableInv, RootInv
  <2> QED BY <2>1, <2>2
<1>8. RootsAlike'
    BY <1>1 DEF StableInv, RootsAlike
<1> QED BY <1>1, <1>5, <1>6, <1>7, <1>8, StoredKept DEF StableInv

LEMMA PersistStable ==
    ASSUME StableInv, IInv', Persist
    PROVE  StableInv'
<1> DEFINE n == Len(history) + 1
           stored == Applied(new, matches)
           prev == Previous(history)
<1>1. /\ history \in Seq(Seq(Node)) /\ new \in Seq(Node) /\ new # <<>>
      /\ Len(matches) = Len(new) /\ matches \in Seq(LineageMatch) /\ n \in Nat /\ n > 0
      /\ new' = <<>> /\ matches' = <<>> /\ matched' = {}
      /\ history' = Append(history, stored)
    BY DEF StableInv, IInv, TypeOK, Persist, Pending
<1>2. /\ DOMAIN stored = DOMAIN new /\ DOMAIN matches = DOMAIN new
      /\ \A i \in DOMAIN new : /\ stored[i].lineage = matches[i].lineage
                               /\ stored[i].heading = new[i].heading
                               /\ stored[i].depth = new[i].depth
                               /\ Hash(stored[i]) = Hash(new[i])
  <2>1. ASSUME NEW i \in DOMAIN new
        PROVE  /\ stored[i].lineage = matches[i].lineage
               /\ stored[i].heading = new[i].heading
               /\ stored[i].depth = new[i].depth
               /\ stored[i].body = new[i].body
    <3>1. new[i] \in Node /\ stored[i] = [new[i] EXCEPT !.lineage = matches[i].lineage]
        BY <1>1 DEF Applied
    <3> HIDE DEF stored
    <3> QED BY <3>1 DEF Node
  <2>2. DOMAIN stored = DOMAIN new /\ DOMAIN matches = DOMAIN new
      BY <1>1 DEF Applied
  <2> HIDE DEF stored
  <2> QED BY <2>1, <2>2 DEF Hash
<1>3. stored \in Seq(Node) /\ Len(stored) = Len(new)
  <2>1. history'[n] = stored /\ n \in DOMAIN history' /\ history' \in Seq(Seq(Node))
      BY <1>1 DEF IInv, TypeOK, Applied
  <2>2. stored \in Seq(Node)
      BY <2>1
  <2> HIDE DEF stored
  <2> QED BY <1>1, <1>2, <2>2
<1> HIDE DEF stored
<1>4. /\ DOMAIN history' = 1..n /\ Len(history') = n /\ DOMAIN history = 1..(n - 1)
      /\ history'[n] = stored /\ \A v \in 1..(n - 1) : history'[v] = history[v]
    BY <1>1, <1>3
<1>5. IdenticalKeepsLineage'
  <2> SUFFICES ASSUME NEW v \in 1..(n - 1), SameTree(history'[v], history'[v + 1]),
                      NEW i \in DOMAIN history'[v]
               PROVE  history'[v + 1][i].lineage = history'[v][i].lineage
      BY <1>4 DEF IdenticalKeepsLineage, SameTree, Hash
  <2>1. CASE v = n - 1
    <3>1. history'[v] = prev /\ history'[v + 1] = stored /\ history # <<>>
        BY <1>1, <1>4, <2>1 DEF Previous
    <3> HIDE DEF prev
    <3>2. DOMAIN prev = DOMAIN new /\ \A k \in DOMAIN new : Hash(new[k]) = Hash(prev[k])
        BY <1>2, <3>1 DEF SameTree
    <3>3. AgreesSoFar
        BY <1>2, <3>2 DEF AgreesSoFar, prev
    <3>4. \A k \in DOMAIN matches : matches[k].lineage = prev[k].lineage
        BY <3>1, <3>3 DEF StableInv, AgreementInv, prev
    <3> QED BY <1>2, <3>1, <3>2, <3>4
  <2>2. CASE v # n - 1
    <3>1. v \in 1..(Len(history) - 1) /\ v \in 1..(n - 1) /\ v + 1 \in 1..(n - 1)
        BY <1>1, <2>2
    <3>2. history'[v] = history[v] /\ history'[v + 1] = history[v + 1]
        BY <1>4, <3>1
    <3>3. SameTree(history[v], history[v + 1])
        BY <3>2
    <3> QED BY <3>1, <3>2, <3>3 DEF StableInv, IdenticalKeepsLineage
  <2> QED BY <2>1, <2>2
<1>6. AgreementInv' /\ FlaggedIfOtherSection'
  <2>1. DOMAIN matches' = {}
      BY <1>1
  <2> QED BY <1>1, <2>1 DEF AgreementInv, FlaggedIfOtherSection
<1>7. 1 \in DOMAIN new /\ Len(stored) > 0 /\ matches # <<>>
    BY <1>1, <1>3
<1>8. RootsAlike'
  <2> SUFFICES ASSUME NEW t \in Trees, NEW v \in 1..n
               PROVE  /\ Len(history'[v]) > 0
                      /\ history'[v][1].heading = t[1].heading
                      /\ history'[v][1].depth = t[1].depth
      BY <1>1, <1>4 DEF RootsAlike
  <2>1. CASE v = n
      BY <1>1, <1>2, <1>4, <1>7, <2>1 DEF StableInv, RootsAlike
  <2>2. CASE v # n
    <3>1. v \in 1..(n - 1)
        BY <1>1, <2>2
    <3> QED BY <1>4, <3>1 DEF StableInv, RootsAlike
  <2> QED BY <2>1, <2>2
<1>9. RootInv'
  <2> SUFFICES ASSUME RootIsAlone', NEW v \in 1..n
               PROVE  history'[v][1].lineage = <<1, 1>>
      BY <1>1, <1>4 DEF RootInv
  <2>1. RootIsAlone
    <3>1. \A u \in 1..(n - 1) : u \in 1..n
        BY <1>1
    <3> QED BY <1>4, <3>1 DEF RootIsAlone
  <2>2. CASE v = n
      BY <1>2, <1>4, <1>7, <2>1, <2>2 DEF StableInv, RootInv
  <2>3. CASE v # n
    <3>1. v \in 1..(n - 1)
        BY <1>1, <2>3
    <3> QED BY <1>4, <2>1, <3>1 DEF StableInv, RootInv
  <2> QED BY <2>2, <2>3
<1> QED BY <1>5, <1>6, <1>8, <1>9 DEF StableInv

--------------------------------------------------------------------------------
(* Theorems *)

LEMMA StableNext == StableInv /\ IInv' /\ [Next]_vars => StableInv'
<1> SUFFICES ASSUME StableInv, IInv', [Next]_vars PROVE StableInv'
    OBVIOUS
<1>1. CASE UNCHANGED vars
  <2>1. UNCHANGED history
      BY <1>1 DEF vars
  <2>2. AgreementInv' /\ RootsAlike' /\ RootInv'
      BY <1>1, <2>1, StoredKept
      DEF vars, StableInv, AgreementInv, AgreesSoFar, Previous, RootsAlike, RootInv, Hash
  <2>3. FlaggedIfOtherSection'
    <3>1. new' = new /\ matches' = matches /\ Previous(history)' = Previous(history)
        BY <1>1 DEF vars, Previous
    <3> QED BY <2>1, <3>1, Zenon DEF StableInv, FlaggedIfOtherSection, SameSection, Hash
  <2> QED BY <2>1, <2>2, <2>3, StoredKept DEF StableInv
<1> QED
    BY <1>1, BuildTreeStable, MarkNewStable, MatchNextStable, PersistStable DEF Next, Full

\* The matches made so far and the stored versions satisfy StableInv for ever.
THEOREM StableInvariant == Spec => []StableInv
<1>1. StableInv /\ IInv' /\ [Next]_vars => StableInv'
    BY StableNext
<1> QED BY <1>1, StableInit, InductiveInvariant, PTL DEF Spec

\* A re-upload with the same sections keeps every lineage, also where sections
\* repeat word for word: each takes the first of its content not yet taken, and
\* that is the one at its own place.
THEOREM IdenticalStays == Spec => []IdenticalKeepsLineage
<1>1. StableInv => IdenticalKeepsLineage
    BY DEF StableInv
<1> QED BY <1>1, StableInvariant, PTL

\* The root keeps its lineage through every version, whatever its body becomes
\* and also next to a section whose heading has its key.
THEOREM RootStays == Spec => []RootKeepsLineage
<1>1. StableInv => RootKeepsLineage
    BY DEF StableInv, RootInv, RootIsAlone, RootKeepsLineage
<1> QED BY <1>1, StableInvariant, PTL

\* _apply_lineage_matches stores guesses like the others; what tells them apart is
\* the review flag, which a node has exactly if it took the lineage of a section
\* with another content and another heading.
THEOREM GuessesFlagged == Spec => []FlaggedIfOtherSection
<1>1. StableInv => FlaggedIfOtherSection
    BY DEF StableInv
<1> QED BY <1>1, StableInvariant, PTL
================================================================================
