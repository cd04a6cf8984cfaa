---------------------------- MODULE LineageMatcher ----------------------------
(***************************************************************************)
(* The three-tier strategy of versioning/lineage_matcher.py for one node.  *)
(*                                                                         *)
(* A tree is the sequence of its nodes in pre-order, the root first, each  *)
(* with its heading, body, depth and lineage id.  A heading is a member of *)
(* Headings; Key is heading.strip().lower() and Words the set of its words.*)
(* Confidences are in units of 1/1200: 0.75 is 900.  All are exact but the *)
(* share of the words two headings have in common, which Overlap rounds    *)
(* down to a unit: it only raises a confidence that stays below 0.75.      *)
(***************************************************************************)
EXTENDS Integers, Sequences, FiniteSets

CONSTANTS Headings, Bodies,
          Key,        \* [Headings -> STRING]
          Words       \* [Headings -> finite sets]

ASSUME WordsAssumption == \A h \in Headings : IsFiniteSet(Words[h])

\* The SHA-256 of heading and body.
Hash(n) == <<n.heading, n.body>>

\* order_index in a tree from the tree engine: the place among the siblings.
SiblingIndex(t, i) ==
    Cardinality({j \in 1..(i - 1) : /\ t[j].depth = t[i].depth
                                    /\ \A k \in j..i : t[k].depth >= t[i].depth})

\* order_index in a tree rebuilt from the database: the place in pre-order.
RebuiltIndex(j) == j - 1

Abs(x) == IF x < 0 THEN -x ELSE x

Distance(new, i, j) == Abs(RebuiltIndex(j) - SiblingIndex(new, i))

--------------------------------------------------------------------------------
(* Candidates: the nodes of the previous version still to be matched *)

AllNodes(prev, matched) == DOMAIN prev                                \* mutant
Unmatched(prev, matched) == {j \in DOMAIN prev : prev[j].lineage \notin matched}

ExactCandidates(n, prev, matched) ==
    {j \in Unmatched(prev, matched) : Hash(prev[j]) = Hash(n)}

HeadingCandidates(n, prev, matched) ==
    {j \in Unmatched(prev, matched) : /\ Key[n.heading] # ""
                                      /\ Key[prev[j].heading] = Key[n.heading]}

PositionalCandidates(n, prev, matched) ==
    {j \in Unmatched(prev, matched) : prev[j].depth = n.depth}

\* The first of a nonempty set of candidates, in pre-order.
LastOf(C) == CHOOSE j \in C : \A k \in C : j >= k                     \* mutant
FirstOf(C) == CHOOSE j \in C : \A k \in C : j <= k

HeadingScore(new, i, prev, j) ==
    (IF prev[j].depth = new[i].depth THEN 2 ELSE 0)
    + (IF Distance(new, i, j) <= 1 THEN 1 ELSE 0)

\* max and min keep the first of equals.
LastHeading(new, i, prev, C) == LastOf(C)                             \* mutant
BestHeading(new, i, prev, C) ==
    FirstOf({j \in C : \A k \in C :
               HeadingScore(new, i, prev, j) >= HeadingScore(new, i, prev, k)})

BestPositional(new, i, C) ==
    FirstOf({j \in C : \A k \in C : Distance(new, i, j) <= Distance(new, i, k)})

--------------------------------------------------------------------------------
(* Confidence *)

AtMost(bound, x) == IF x < bound THEN x ELSE bound

HeadingConfidence(new, i, prev, j) ==
    AtMost(1140, 960 + (IF prev[j].depth = new[i].depth THEN 120 ELSE 0)
                     + (IF Distance(new, i, j) <= 1 THEN 60 ELSE 0))

\* Jaccard similarity of the words, worth up to 0.2, rounded down to 1/1200.
Overlap(g, h) ==
    IF Words[g] \cup Words[h] = {} THEN 0
    ELSE (240 * Cardinality(Words[g] \cap Words[h]))
           \div Cardinality(Words[g] \cup Words[h])

RawPositionalConfidence(new, i, prev, j) ==
    600 + (IF Distance(new, i, j) = 0 THEN 180 ELSE 0)
        + Overlap(new[i].heading, prev[j].heading)
Uncapped(new, i, prev, j) == RawPositionalConfidence(new, i, prev, j) \* mutant
PositionalConfidence(new, i, prev, j) ==
    AtMost(840, RawPositionalConfidence(new, i, prev, j))

Threshold == 900
Status(confidence) == IF confidence < Threshold THEN "needs_review" ELSE "matched"

--------------------------------------------------------------------------------

Match(lineage, strategy, confidence, status) ==
    [lineage |-> lineage, strategy |-> strategy,
     confidence |-> confidence, status |-> status]

MatchNode(new, i, prev, matched) ==
    LET exact      == ExactCandidates(new[i], prev, matched)
        heading    == HeadingCandidates(new[i], prev, matched)
        positional == PositionalCandidates(new[i], prev, matched)
        h == BestHeading(new, i, prev, heading)
        p == BestPositional(new, i, positional)
    IN  IF exact # {} THEN
            Match(prev[FirstOf(exact)].lineage, "exact", 1200, "matched")
        ELSE IF heading # {} THEN
            Match(prev[h].lineage, "heading", HeadingConfidence(new, i, prev, h),
                  Status(HeadingConfidence(new, i, prev, h)))
        ELSE IF positional # {} THEN
            Match(prev[p].lineage, "positional", PositionalConfidence(new, i, prev, p),
                  Status(PositionalConfidence(new, i, prev, p)))
        ELSE Match(new[i].lineage, "new", 1200, "new")
================================================================================
