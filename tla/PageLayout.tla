------------------------------- MODULE PageLayout -------------------------------
(***************************************************************************)
(* PyMuPDFParser._extract_page_blocks (parser/pymupdf_parser.py): the      *)
(* content blocks of one page, classified and in reading order.            *)
(*                                                                         *)
(* A page is what PyMuPDF finds on it: text blocks with a bounding box and *)
(* lines, and tables.  Coordinates and font sizes are in halves of a       *)
(* point.  A line has the text of its spans (Blank for white space), its   *)
(* place, the size of its largest font, the sizes of those of its spans    *)
(* that are not blank, whether one of its fonts is bold, its number of     *)
(* characters, and whether it reads as a list item.  A table has content   *)
(* unless it is empty or its extraction raises; find_tables raising is a   *)
(* page without tables.                                                    *)
(***************************************************************************)
EXTENDS Naturals, Sequences, FiniteSets, SequencesExt

CONSTANT Blank   \* the text of a line of white space

Point == 2

IsLine(l) == l.x \in Nat /\ l.y \in Nat

IsBlock(b) ==
    /\ b.x0 \in Nat /\ b.lines \in Seq(ToSet(b.lines))
    /\ \A j \in DOMAIN b.lines : IsLine(b.lines[j])

IsTable(t) == t.x0 \in Nat /\ t.y0 \in Nat /\ t.boxed \in BOOLEAN /\ t.content \in BOOLEAN

IsPage(page) ==
    /\ page.width \in Nat
    /\ page.blocks \in Seq(ToSet(page.blocks))
    /\ \A i \in DOMAIN page.blocks : IsBlock(page.blocks[i])
    /\ page.tables \in Seq(ToSet(page.tables))
    /\ \A i \in DOMAIN page.tables : IsTable(page.tables[i])

Least(S) == CHOOSE x \in S : \A y \in S : x <= y
Greater(x, y) == IF x > y THEN x ELSE y
Smaller(x, y) == IF x < y THEN x ELSE y

\* The elements of S in the order of before, which is total and strict.
InOrderOf(S, before(_, _)) ==
    [k \in 1 .. Cardinality(S) |->
       CHOOSE i \in S : Cardinality({j \in S : before(j, i)}) = k - 1]

--------------------------------------------------------------------------------
(* Columns *)

LeftEdges(page) ==
    InOrderOf({page.blocks[i].x0 : i \in DOMAIN page.blocks}, LAMBDA x, y : x < y)

\* Loops that pass over an element contribute nothing for it.
Unless(skip, s) == IF skip THEN <<>> ELSE s

\* Where an edge lies more than a tenth of the width behind the one before it,
\* a column starts.
GapFromFirst(edges, i) == edges[i] - edges[1]                         \* mutant
Gap(edges, i) == edges[i] - edges[i - 1]

ColumnStarts(page) ==
    LET edges == LeftEdges(page) IN
      IF edges = <<>> THEN <<0>>
      ELSE FlattenSeq([i \in DOMAIN edges |->
             Unless(i # 1 /\ 10 * Gap(edges, i) <= page.width, <<edges[i]>>)])

\* A column ends a point before the next: what starts in between, or left of
\* all columns, counts as the first.
ColumnOf(page, x) ==
    LET starts == ColumnStarts(page)
        end(i) == IF i < Len(starts) THEN starts[i + 1] - Point ELSE page.width
        within == {i \in DOMAIN starts : starts[i] <= x /\ x <= end(i)}
    IN  IF within = {} THEN 1 ELSE Least(within)

\* Whatever has no bounding box comes first.
SortKey(page, item) ==
    IF item.boxed THEN <<ColumnOf(page, item.x), item.y, item.x>> ELSE <<1, 0, 0>>

Precedes(k, l) ==
    \/ k[1] < l[1]
    \/ k[1] = l[1] /\ k[2] < l[2]
    \/ k[1] = l[1] /\ k[2] = l[2] /\ k[3] < l[3]

\* list.sort is stable.
StableOrder(key) ==
    InOrderOf(DOMAIN key, LAMBDA i, j : Precedes(key[i], key[j]) \/ (key[i] = key[j] /\ i < j))

Sorted(page, items) ==
    LET order == StableOrder([i \in DOMAIN items |-> SortKey(page, items[i])]) IN
      [i \in DOMAIN items |-> items[order[i]]]

--------------------------------------------------------------------------------
(* Text and tables *)

Overlap(a0, a1, b0, b1) ==
    IF Smaller(a1, b1) > Greater(a0, b0) THEN Smaller(a1, b1) - Greater(a0, b0) ELSE 0

\* More than half of the block lies under one table.
Covers(t, b) ==
    LET area == (b.x1 - b.x0) * (b.y1 - b.y0) IN
      area > 0 /\ 2 * Overlap(b.x0, b.x1, t.x0, t.x1) * Overlap(b.y0, b.y1, t.y0, t.y1) > area

OverlapsTable(page, b) ==
    \E t \in ToSet(page.tables) : t.content /\ t.boxed /\ Covers(t, b)

\* size / median >= n / 100
Ratio(line, median, n) == 100 * line.size >= n * median

Level(line, median) ==
    IF line.bold
      THEN IF Ratio(line, median, 160) THEN 1
           ELSE IF Ratio(line, median, 135) THEN 2
           ELSE IF Ratio(line, median, 115) /\ line.chars < 120 THEN 3
           ELSE IF Ratio(line, median, 100) /\ line.chars < 80 THEN 4
           ELSE 0
      ELSE IF Ratio(line, median, 130) /\ line.chars < 100 THEN 5 ELSE 0

Classify(line, median) ==
    IF line.listed THEN <<"list_item", 0>>
    ELSE IF Level(line, median) > 0 THEN <<"heading", Level(line, median)>>
    ELSE <<"body", 0>>

Item(text, class, boxed, x, y) ==
    [text |-> text, kind |-> class[1], level |-> class[2], boxed |-> boxed, x |-> x, y |-> y]

TextItem(l, median) == Item(l.text, Classify(l, median), TRUE, l.x, l.y)
TableItem(t) == Item(t.text, <<"table", 0>>, t.boxed, t.x0, t.y0)

TextItems(b, median) ==
    FlattenSeq([j \in DOMAIN b.lines |->
      Unless(b.lines[j].text = Blank, <<TextItem(b.lines[j], median)>>)])

PageText(page, median) ==
    FlattenSeq([i \in DOMAIN page.blocks |->
      Unless(OverlapsTable(page, page.blocks[i]), TextItems(page.blocks[i], median))])

PageTables(page) ==
    FlattenSeq([i \in DOMAIN page.tables |->
      Unless(~page.tables[i].content, <<TableItem(page.tables[i])>>)])

\* The tables come after the text where their keys tie.
PageBlocks(page, median) == Sorted(page, PageText(page, median) \o PageTables(page))

--------------------------------------------------------------------------------
(* The font size of body text *)

SpanSizes(page) ==
    FlattenSeq([i \in DOMAIN page.blocks |->
      LET lines == page.blocks[i].lines IN
        FlattenSeq([j \in DOMAIN lines |-> lines[j].sizes])])

\* The middle one of the sizes found, 12 points where there are none.
Median(pages) ==
    LET sizes == FlattenSeq([n \in DOMAIN pages |-> SpanSizes(pages[n])])
        order == InOrderOf(DOMAIN sizes,
                   LAMBDA i, j : sizes[i] < sizes[j] \/ (sizes[i] = sizes[j] /\ i < j))
    IN  IF sizes = <<>> THEN 12 * Point ELSE sizes[order[Len(sizes) \div 2 + 1]]
================================================================================
