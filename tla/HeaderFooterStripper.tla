-------------------------- MODULE HeaderFooterStripper --------------------------
(***************************************************************************)
(* strip_headers_footers (parser/header_footer_stripper.py): what of a     *)
(* document's pages is a running header or footer.                         *)
(*                                                                         *)
(* A page is the sequence of its extracted blocks.  A block's text stands  *)
(* for its stripped, lower-case content; y is its top edge, where it has a *)
(* bounding box.                                                           *)
(***************************************************************************)
EXTENDS Naturals, Sequences, FiniteSets, SequencesExt

\* The first and the last 12% of the height of the first page.
Zone(b, height) ==
    IF ~b.boxed THEN "none"
    ELSE IF 100 * b.y <= 12 * height THEN "top"
    ELSE IF 100 * b.y >= 88 * height THEN "bottom"
    ELSE "body"

Texts(page, zone, height) ==
    {page[i].text : i \in {j \in DOMAIN page : Zone(page[j], height) = zone}}

\* One page more: it continues the run at hand, or ends it.
NextRun(run, here) ==
    LET now == IF here THEN run.now + 1 ELSE 0 IN
      [now |-> now, longest |-> IF now > run.longest THEN now ELSE run.longest]

\* The longest run of consecutive pages with the text in the zone.
RunsJoined(pages, zone, height, text) ==                               \* mutant
    Cardinality({n \in DOMAIN pages : text \in Texts(pages[n], zone, height)})
LongestRun(pages, zone, height, text) ==
    FoldLeft(LAMBDA run, page : NextRun(run, text \in Texts(page, zone, height)),
             [now |-> 0, longest |-> 0], pages).longest

FindConsecutiveRepeats(pages, zone, height) ==
    {t \in UNION {Texts(pages[n], zone, height) : n \in DOMAIN pages} :
        LongestRun(pages, zone, height, t) >= 2}

Repeated(pages, height) ==
    IF Len(pages) < 2 THEN {}
    ELSE FindConsecutiveRepeats(pages, "top", height)
           \cup FindConsecutiveRepeats(pages, "bottom", height)

\* Every block with a repeated text goes, wherever it stands.
Without(texts, page) ==
    FlattenSeq([i \in DOMAIN page |-> IF page[i].text \in texts THEN <<>> ELSE <<page[i]>>])

Strip(pages, height) ==
    LET repeated == Repeated(pages, height) IN
      [n \in DOMAIN pages |-> Without(repeated, pages[n])]

StrippedCount(pages, height) ==
    LET repeated == Repeated(pages, height)
        all == FlattenSeq(pages)
    IN  Cardinality({k \in DOMAIN all : all[k].text \in repeated})
================================================================================
