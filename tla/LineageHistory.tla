---------------------------- MODULE LineageHistory ----------------------------
(***************************************************************************)
(* The lineages of one document through its versions: each new tree is     *)
(* matched node by node, in pre-order, against the tree rebuilt from the   *)
(* latest version (LineageMatcher.match_lineage), the result is written    *)
(* into the tree and the tree becomes the next version (main.py, ingest).  *)
(* What precedes which version when uploads race is IngestStore's matter;  *)
(* here they are ingested one after the other.                             *)
(***************************************************************************)
EXTENDS LineageMatcher

CONSTANTS Trees,        \* the trees the parser may build from an upload
          MaxVersions   \* bound on the versions of the document

ParsedNode == [heading : Headings, body : Bodies, depth : Nat]

\* A tree is its nodes in pre-order: the root, then nodes at most one deeper
\* than the node before them.  All have the tree engine's root.
ASSUME TreesAssumption ==
    /\ \A t \in Trees : t \in Seq(ParsedNode) /\ Len(t) > 0
    /\ \A t \in Trees : Key[t[1].heading] # ""
    /\ \A s, t \in Trees : s[1].heading = t[1].heading /\ s[1].depth = t[1].depth

VARIABLES history,   \* the stored versions: their trees, with lineages
          new,       \* the tree being ingested, <<>> between two ingests
          matches,   \* its LineageMatches so far, one per node
          matched    \* matched_prev_ids

vars == <<history, new, matches, matched>>

Init == history = <<>> /\ new = <<>> /\ matches = <<>> /\ matched = {}

\* The tree engine gives every node a fresh lineage id: here its version and
\* its place in it.
Fresh(t, v) ==
    [i \in DOMAIN t |-> [heading |-> t[i].heading, body |-> t[i].body,
                         depth |-> t[i].depth, lineage |-> <<v, i>>]]

FirstVersion(h) == h[1]                                               \* mutant
Previous(h) == h[Len(h)]

BuildTree(t) ==
    /\ new = <<>> /\ Len(history) < MaxVersions
    /\ new' = Fresh(t, Len(history) + 1)
    /\ UNCHANGED <<history, matches, matched>>

Pending == Len(matches) < Len(new)

\* The first version is not matched: its nodes keep their own lineages.
MarkNew ==
    /\ Pending /\ history = <<>>
    /\ matches' = Append(matches, Match(new[Len(matches) + 1].lineage, "new",
                                        1200, "new"))
    /\ UNCHANGED <<history, new, matched>>

MatchNext ==
    LET m == MatchNode(new, Len(matches) + 1, Previous(history), matched)
    IN  /\ Pending /\ history # <<>>
        /\ matches' = Append(matches, m)
        /\ matched' = IF m.strategy # "new" THEN matched \cup {m.lineage} ELSE matched
        /\ UNCHANGED <<history, new>>

\* The match's lineage goes into the node whatever its status.
Applied(t, ms) == [i \in DOMAIN t |-> [t[i] EXCEPT !.lineage = ms[i].lineage]]

\* The per-document state of the matcher is not reset.
PersistAndKeep ==                                                     \* mutant
    /\ new # <<>> /\ ~Pending
    /\ history' = Append(history, Applied(new, matches))
    /\ new' = <<>> /\ UNCHANGED <<matches, matched>>

Persist ==
    /\ new # <<>> /\ ~Pending
    /\ history' = Append(history, Applied(new, matches))
    /\ new' = <<>> /\ matches' = <<>> /\ matched' = {}

Full == Len(history) = MaxVersions /\ new = <<>> /\ UNCHANGED vars

Next == (\E t \in Trees : BuildTree(t)) \/ MarkNew \/ MatchNext \/ Persist \/ Full

Spec == Init /\ [][Next]_vars

--------------------------------------------------------------------------------
(* Properties *)

Lineage == Nat \X Nat
Node == [heading : Headings, body : Bodies, depth : Nat, lineage : Lineage]
Confidence == 0..1200
LineageMatch == [lineage : Lineage,
                 strategy : {"exact", "heading", "positional", "new"},
                 confidence : Confidence,
                 status : {"matched", "needs_review", "new"}]

\* Trees hold nodes, and each match is one of the four strategies' results.
TypeOK ==
    /\ history \in Seq(Seq(Node))
    /\ new \in Seq(Node)
    /\ matches \in Seq(LineageMatch)
    /\ matched \subseteq Lineage
    /\ Len(matches) <= Len(new)

\* No version has two nodes of one lineage: the staleness route looks up "the"
\* node of a lineage in the latest version.
LineageUnique ==
    \A v \in DOMAIN history : \A i, j \in DOMAIN history[v] :
        history[v][i].lineage = history[v][j].lineage => i = j

Lineages(v) == {history[v][i].lineage : i \in DOMAIN history[v]}

\* A lineage that a version has lost is never taken up again: what a client was
\* told is removed stays removed.
LineageNeverReturns ==
    \A u, v, w \in DOMAIN history :
        u < v /\ v < w => Lineages(u) \cap Lineages(w) \subseteq Lineages(v)

\* What the routes read of a tree: the content hash of each lineage.
NodesOf(t) == [l \in {t[i].lineage : i \in DOMAIN t} |->
                 Hash(t[CHOOSE i \in DOMAIN t : t[i].lineage = l])]

\* The stored versions are those that DocumentVersions promises the routes.
Stored == INSTANCE DocumentVersions WITH
            versions <- [v \in DOMAIN history |-> NodesOf(history[v])]
ImplementsDocumentVersions == Stored!Spec

SameTree(t, s) ==
    /\ DOMAIN t = DOMAIN s
    /\ \A i \in DOMAIN t : Hash(t[i]) = Hash(s[i]) /\ t[i].depth = s[i].depth

\* A re-upload whose bytes differ but whose sections do not keeps every lineage,
\* also where sections repeat word for word.
IdenticalKeepsLineage ==
    \A v \in 1..(Len(history) - 1) :
        SameTree(history[v], history[v + 1]) =>
            \A i \in DOMAIN history[v] :
                history[v + 1][i].lineage = history[v][i].lineage

\* The root stays the root, whatever its body becomes: no section takes its
\* lineage and it takes no section's, also when one is titled "Root".  (One that
\* is titled "root" has the root's hash as soon as it has its body.)
RootKeepsLineage ==
    (\A v \in DOMAIN history : \A i \in 2..Len(history[v]) :
        history[v][i].heading # history[v][1].heading)
    => \A v \in DOMAIN history : history[v][1].lineage = <<1, 1>>

SameSection(n, m) ==
    \/ Hash(n) = Hash(m)
    \/ Key[n.heading] # "" /\ Key[n.heading] = Key[m.heading]

\* A node that takes over a previous node's lineage is flagged for review exactly
\* if the two are different sections, by content and by heading, also where their
\* headings have the same words (match_lineage): what is not flagged is never a
\* guess, and what goes by content or heading is never flagged.
FlaggedIfOtherSection ==
    history # <<>> =>
      \A i \in DOMAIN matches, j \in DOMAIN Previous(history) :
        matches[i].lineage = Previous(history)[j].lineage =>
          (matches[i].status = "needs_review"
             <=> ~SameSection(new[i], Previous(history)[j]))

\* docs/decision_log.md:9 says of a positional match with a wrong node that its
\* confidence is above the threshold "if the headings share words" and that it is
\* reported "matched".
SharedWordsAccepted ==
    history # <<>> =>
      \A i \in DOMAIN matches, j \in DOMAIN Previous(history) :
        /\ matches[i].lineage = Previous(history)[j].lineage
        /\ matches[i].strategy = "positional"
        /\ Words[new[i].heading] \cap Words[Previous(history)[j].heading] # {}
        => matches[i].status = "matched"

OnceIn(t, hash) == Cardinality({i \in DOMAIN t : Hash(t[i]) = hash}) = 1

\* lineage_matcher.py:9 and tests/test_versioning.py:126: the tiers are strictly
\* ordered and "exact match always wins", so a section whose heading and body
\* are in both versions exactly once keeps its lineage.
UnchangedKeepsLineage ==
    \A v \in 1..(Len(history) - 1) :
        \A i \in DOMAIN history[v], k \in DOMAIN history[v + 1] :
            /\ Hash(history[v][i]) = Hash(history[v + 1][k])
            /\ OnceIn(history[v], Hash(history[v][i]))
            /\ OnceIn(history[v + 1], Hash(history[v][i]))
            => history[v + 1][k].lineage = history[v][i].lineage
================================================================================
