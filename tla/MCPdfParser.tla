------------------------------- MODULE MCPdfParser -------------------------------
(***************************************************************************)
(* Small documents for PdfParser.  Pages are 100 points wide and high, so  *)
(* a tenth of the width is 20 units and the margins end at 24 and 176.     *)
(***************************************************************************)
EXTENDS PdfParser

CONSTANT Main   \* the parse that gets the documents with a layout

Page(blocks, tables, trouble) ==
    [width |-> 200, height |-> 200, blocks |-> blocks, tables |-> tables, trouble |-> trouble]

Line(text, x, y, size, bold, listed) ==
    [text |-> text, x |-> x, y |-> y, size |-> size,
     sizes |-> IF text = Blank THEN <<>> ELSE <<size>>,
     bold |-> bold, chars |-> 30, listed |-> listed]

TwoSpans(line, sizes) == [line EXCEPT !.sizes = sizes]

Block(x, y, width, lines) ==
    [x0 |-> x, y0 |-> y, x1 |-> x + width, y1 |-> y + 20, lines |-> lines]

\* A bold title, an item of a list, and body text with a blank and an indented
\* line, on a grid with steps below and above the threshold.
Places == {0, 16, 32, 120} \X {20, 40}
Title(at) == Block(at[1], at[2], 60, <<Line("title", at[1], at[2], 40, TRUE, FALSE)>>)
Listed(at) == Block(at[1], at[2], 60, <<Line("item", at[1], at[2], 24, FALSE, TRUE)>>)
Body(at) == Block(at[1], at[2], 60, <<Line("body", at[1], at[2], 24, FALSE, FALSE),
                                     Line(Blank, at[1], at[2], 24, FALSE, FALSE),
                                     TwoSpans(Line("more", at[1] + 30, at[2] + 10, 24, FALSE,
                                                   FALSE), <<24, 16>>)>>)

Table(x, y, content, boxed) ==
    [x0 |-> x, y0 |-> y, x1 |-> x + 70, y1 |-> y + 20, content |-> content,
     boxed |-> boxed, text |-> "table"]

TableSets == {<<>>, <<Table(0, 20, TRUE, TRUE)>>, <<Table(0, 20, FALSE, TRUE)>>,
              <<Table(119, 35, TRUE, TRUE), Table(0, 0, TRUE, FALSE)>>}

Document(trouble, pages) == [trouble |-> trouble, pages |-> pages]

Layouts ==
    {Document("none", <<Page(<<Title(a), Listed(b), Body(c)>>, tables, "none")>>) :
        a \in Places, b \in {<<16, 20>>, <<120, 20>>}, c \in Places,
        tables \in TableSets}

\* Three pages with one block each, and one in the middle of the last page.
Running1(text, y) == Block(0, y, 60, <<Line(text, 0, y, 24, FALSE, FALSE)>>)
Margins == {Running1(t, y) : t \in {"head", "foot"}, y \in {10, 24, 25, 176}}
Repeats ==
    {Document("none", <<Page(<<a>>, <<>>, "none"), Page(<<b>>, <<>>, "none"),
                        Page(<<c, Running1("head", 100)>>, <<>>, "none")>>) :
        a \in Margins, b \in Margins, c \in {Running1("head", y) : y \in {10, 24, 25, 176}}}

Plain == Page(<<Running1("text", 100)>>, <<>>, "none")
Empty(trouble) == Page(<<>>, <<>>, trouble)
\* Bold print that draws its text twice.
Twice == Page(<<Running1("text", 100), Running1("text", 100)>>, <<>>, "none")
TwoPages == Document("none", <<Plain, Plain>>)
Hanging == Document("none", <<Plain, Empty("hangs")>>)

Rejected == {Document("large", <<>>), Document("notPdf", <<>>)}
Troubled == {Document("damaged", <<>>), Document("deep", <<>>), Document("none", <<>>),
             Document("none", <<Twice>>), Document("none", <<Plain, Empty("heavy")>>),
             Document("none", <<Plain, Empty("fails")>>),
             Document("none", <<Plain, Plain, Empty("fails")>>)}

\* One document with a layout, or several that share the pool.
Alone(documents) ==
    {[p \in Parses |-> IF p = Main THEN d ELSE Document("notPdf", <<>>)] : d \in documents}

SmallUploads ==
    Alone(Layouts \cup Repeats \cup Rejected \cup Troubled) \cup [Parses -> {TwoPages, Hanging}]
================================================================================
