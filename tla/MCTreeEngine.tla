----------------------------- MODULE MCTreeEngine -----------------------------
(***************************************************************************)
(* Small instances of TreeEngine.                                          *)
(***************************************************************************)
EXTENDS TreeEngine

CONSTANT MaxBlocks    \* bound on the length of a document

Line(number, level) == [number |-> number, signal |-> number > 0, level |-> level,
                        short |-> TRUE, cover |-> FALSE]

Prose1 == [Line(0, 0) EXCEPT !.short = FALSE]
Metadata == [Line(0, 0) EXCEPT !.cover = TRUE]
\* A heading too long for a sub-heading, and a numbered line that ends in a
\* colon: it makes the document numbered without being a section.
LongHeading == [Line(0, 2) EXCEPT !.short = FALSE]
Colon == [Prose1 EXCEPT !.signal = TRUE]

AllKinds == {Line(1, 0), Line(2, 1), Line(3, 0), Line(0, 1), Line(0, 2), Line(0, 3),
             Prose1, Metadata, LongHeading, Colon}
UpTo(n, kinds) == UNION {[1..k -> kinds] : k \in 0..n}

MCDocuments == UpTo(MaxBlocks, Blocks)
================================================================================
