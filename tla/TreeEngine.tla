------------------------------ MODULE TreeEngine ------------------------------
(***************************************************************************)
(* TreeEngine.build_tree (parser/tree_engine.py): the content blocks of a  *)
(* document, in reading order, become the nodes of a tree.                 *)
(*                                                                         *)
(* A node's children are appended in reading order, so the nodes in the    *)
(* order of their creation are the tree in pre-order.  Text is the place   *)
(* of its block in the document.  A block is what the regular expressions  *)
(* and length tests tell apart:                                            *)
(*   number   the depth its section number suggests, where                 *)
(*            _is_section_heading accepts it, and 0 otherwise;             *)
(*   signal   whether it makes _has_numbered_sections true;                *)
(*   level    its level where the parser classified it as a heading, or 0; *)
(*   short    whether it is shorter than 80 characters;                    *)
(*   cover    whether _is_cover_page_content takes it for metadata.        *)
(* Blocks of white space do not come out of the parser.                    *)
(***************************************************************************)
EXTENDS Naturals, Sequences, FiniteSets

CONSTANTS Blocks,       \* the blocks a document may have
          Documents,    \* sequences of them: what the parser may return
          MaxDepth      \* DocumentNode.depth: Field(ge=0, le=10)

Block == [number : Nat, signal : BOOLEAN, level : Nat,
          short : BOOLEAN, cover : BOOLEAN]

ASSUME TreeAssumption ==
    /\ Blocks \subseteq Block /\ Documents \subseteq Seq(Blocks)
    /\ MaxDepth \in Nat \ {0}
    /\ \A b \in Blocks : b.number > 0 => b.signal

VARIABLES document,   \* content.blocks
          read,       \* how many of them have been handled
          nodes,      \* the tree in pre-order
          stack,      \* the open path from the root: places in nodes
          parts,      \* current_body_parts
          preface,    \* pre_section_content
          skipped,    \* the blocks skipped as cover-page metadata
          pc

vars == <<document, read, nodes, stack, parts, preface, skipped, pc>>

\* block is the heading's place in the document, 0 for the root; children is
\* the entry of child_counters.
Node == [block : Nat, parent : Nat, depth : 0..MaxDepth, order : Nat,
         children : Nat, body : Seq(Nat)]

Root == [block |-> 0, parent |-> 0, depth |-> 0, order |-> 0,
         children |-> 0, body |-> <<>>]

Init ==
    /\ document \in Documents /\ read = 0
    /\ nodes = <<Root>> /\ stack = <<1>>
    /\ parts = <<>> /\ preface = <<>> /\ skipped = {}
    /\ pc = "reading"

--------------------------------------------------------------------------------

\* _has_numbered_sections
Numbered == \E k \in DOMAIN document : document[k].signal

Top(s) == s[Len(s)]

\* _flush_body: at the root alone the text goes nowhere.
Flushed(path) ==
    IF parts = <<>> \/ Len(path) <= 1 THEN nodes
    ELSE [nodes EXCEPT ![Top(path)].body = @ \o parts]

\* while len(stack) > 1 and stack[-1].depth >= target: stack.pop()
PopDeeper(target) ==                                                  \* mutant
    SubSeq(stack, 1, CHOOSE k \in DOMAIN stack :
        /\ k = 1 \/ nodes[stack[k]].depth <= target
        /\ \A j \in (k + 1)..Len(stack) : nodes[stack[j]].depth > target)
Popped(target) ==
    SubSeq(stack, 1, CHOOSE k \in DOMAIN stack :
        /\ k = 1 \/ nodes[stack[k]].depth < target
        /\ \A j \in (k + 1)..Len(stack) : nodes[stack[j]].depth >= target)

SuggestedDepth(parent, target) == target                              \* mutant
ActualDepth(parent, target) == nodes[parent].depth + 1

Unlimited(depth) == TRUE                                              \* mutant
Allowed(depth) == depth <= MaxDepth

\* Opens a node for the heading at hand under the top of path.  Beyond the
\* depth limit the node's model does not validate: the upload fails.
Open(ns, path, target) ==
    LET p == Top(path)
        node == [block |-> read + 1, parent |-> p,
                 depth |-> ActualDepth(p, target), order |-> ns[p].children,
                 children |-> 0, body |-> <<>>]
    IN  IF Allowed(node.depth)
        THEN /\ nodes' = Append([ns EXCEPT ![p].children = @ + 1], node)
             /\ stack' = Append(path, Len(ns) + 1)
             /\ UNCHANGED pc
        ELSE pc' = "failed" /\ UNCHANGED <<nodes, stack>>

Reading == pc = "reading" /\ read < Len(document)

Current == document[read + 1]

Read == read' = read + 1 /\ UNCHANGED document

--------------------------------------------------------------------------------
(* Documents with numbered sections *)

FoundFirstSection == Len(nodes) > 1

\* What is left of the first n blocks of the preface without the metadata.
Kept[n \in 0..Len(preface)] ==
    IF n = 0 THEN <<>>
    ELSE IF document[preface[n]].cover THEN Kept[n - 1]
    ELSE Append(Kept[n - 1], preface[n])

Prose == Kept[Len(preface)]

\* The first section settles what came before it; the text since the last
\* heading goes to that heading.
Section ==
    LET target == Current.number IN
    /\ Reading /\ Numbered /\ target > 0
    /\ Read
    /\ IF FoundFirstSection
       THEN /\ Open(Flushed(stack), Popped(target), target)
            /\ UNCHANGED <<preface, skipped>>
       ELSE /\ Open([nodes EXCEPT ![1].body = Prose], Popped(target), target)
            /\ skipped' = {preface[i] : i \in DOMAIN preface}
                            \ {Prose[i] : i \in DOMAIN Prose}
            /\ preface' = <<>>
    /\ parts' = <<>>

IsSubHeading(b) == b.level > 0 /\ b.short

\* An unnumbered heading opens a node below whatever heading came last.
SubHeading ==
    /\ Reading /\ Numbered /\ Current.number = 0 /\ FoundFirstSection
    /\ IsSubHeading(Current)
    /\ Read
    /\ Open(Flushed(stack), stack, nodes[Top(stack)].depth + 1)
    /\ parts' = <<>>
    /\ UNCHANGED <<preface, skipped>>

SectionText ==
    /\ Reading /\ Numbered /\ Current.number = 0 /\ FoundFirstSection
    /\ ~IsSubHeading(Current)
    /\ Read
    /\ parts' = Append(parts, read + 1)
    /\ UNCHANGED <<nodes, stack, preface, skipped, pc>>

BeforeFirstSection ==
    /\ Reading /\ Numbered /\ Current.number = 0 /\ ~FoundFirstSection
    /\ Read
    /\ preface' = Append(preface, read + 1)
    /\ UNCHANGED <<nodes, stack, parts, skipped, pc>>

--------------------------------------------------------------------------------
(* Documents without: the headings' levels *)

LateFlush ==                                                          \* mutant
    LET target == Current.level IN
    /\ Reading /\ ~Numbered /\ target > 0
    /\ Read
    /\ Open(Flushed(Popped(target)), Popped(target), target)
    /\ parts' = <<>>
    /\ UNCHANGED <<preface, skipped>>
Heading ==
    LET target == Current.level IN
    /\ Reading /\ ~Numbered /\ target > 0
    /\ Read
    /\ Open(Flushed(stack), Popped(target), target)
    /\ parts' = <<>>
    /\ UNCHANGED <<preface, skipped>>

Text ==
    /\ Reading /\ ~Numbered /\ Current.level = 0
    /\ Read
    /\ parts' = Append(parts, read + 1)
    /\ UNCHANGED <<nodes, stack, preface, skipped, pc>>

--------------------------------------------------------------------------------

FinishUnflushed ==                                                    \* mutant
    /\ pc = "reading" /\ read = Len(document)
    /\ pc' = "done" /\ parts' = <<>>
    /\ UNCHANGED <<document, read, nodes, stack, preface, skipped>>
Finish ==
    /\ pc = "reading" /\ read = Len(document)
    /\ pc' = "done" /\ nodes' = Flushed(stack) /\ parts' = <<>>
    /\ UNCHANGED <<document, read, stack, preface, skipped>>

Ended == pc # "reading" /\ UNCHANGED vars

Next ==
    \/ Section \/ SubHeading \/ SectionText \/ BeforeFirstSection
    \/ Heading \/ Text
    \/ Finish \/ Ended

Spec == Init /\ [][Next]_vars

--------------------------------------------------------------------------------
(* Properties *)

\* The tree and the locals have their types; no node is beyond the depth limit.
TypeOK ==
    /\ document \in Seq(Blocks) /\ read \in 0..Len(document)
    /\ nodes \in Seq(Node)
    /\ stack \in Seq(Nat) /\ parts \in Seq(Nat) /\ preface \in Seq(Nat)
    /\ skipped \subseteq Nat
    /\ pc \in {"reading", "done", "failed"}

\* What validate() looks for is never there: every node has its parent before
\* it and is one deeper, and siblings are numbered without a gap.
ValidTree ==
    \A i \in 2..Len(nodes) :
        /\ nodes[i].parent \in 1..(i - 1)
        /\ nodes[i].depth = nodes[nodes[i].parent].depth + 1
        /\ nodes[i].order =
             Cardinality({j \in 2..(i - 1) : nodes[j].parent = nodes[i].parent})

\* The depth a heading asks for by its section number or its level.
Target(i) == LET b == document[nodes[i].block]
             IN  IF Numbered THEN b.number ELSE b.level

\* A heading that asks for a depth goes below the last node of a lesser depth,
\* wherever levels are skipped or taken up again, and an unnumbered one in a
\* numbered document below the heading before it.
NearestValidAncestor ==
    \A i \in 2..Len(nodes) :
        IF Target(i) = 0 THEN nodes[i].parent = i - 1
        ELSE /\ nodes[i].parent < i
             /\ nodes[i].parent = 1 \/ nodes[nodes[i].parent].depth < Target(i)
             /\ \A j \in (nodes[i].parent + 1)..(i - 1) : nodes[j].depth >= Target(i)

\* The text of a node lies between its heading and the next, in reading order;
\* the root's lies before the first heading.
TextInPlace ==
    \A i \in DOMAIN nodes : \A k \in DOMAIN nodes[i].body :
        /\ nodes[i].body[k] > nodes[i].block
        /\ i < Len(nodes) => nodes[i].body[k] < nodes[i + 1].block
        /\ k > 1 => nodes[i].body[k - 1] < nodes[i].body[k]

Placed == {nodes[i].block : i \in DOMAIN nodes}
            \cup UNION {{nodes[i].body[k] : k \in DOMAIN nodes[i].body} : i \in DOMAIN nodes}

\* Once a document has a section, every block from it on is in the tree, and
\* in a numbered document every block before it too or it was skipped.
NothingLost ==
    pc = "done" /\ Len(nodes) > 1 =>
        \A k \in DOMAIN document :
            k \in Placed \cup skipped \/ (~Numbered /\ k < nodes[2].block)

\* README.md:73: the tree engine "preserves introductory content unless it is
\* classified as metadata".
IntroductionKept ==
    pc = "done" => \A k \in DOMAIN document : ~document[k].cover => k \in Placed
================================================================================
