-------------------------------- MODULE PdfParser --------------------------------
(***************************************************************************)
(* PyMuPDFParser.parse (parser/pymupdf_parser.py): parses of one process,  *)
(* each awaited under wait_for while a thread of the event loop's default  *)
(* executor extracts the document.                                         *)
(*                                                                         *)
(* wait_for cancels an extraction that still waits for a thread; one that  *)
(* runs goes on and its outcome is dropped.  Clocks are two facts per      *)
(* parse: late, that wait_for's deadline is over, and over, that the       *)
(* thread has used up the same time counted from its own start.            *)
(***************************************************************************)
EXTENDS PageLayout, HeaderFooterStripper

CONSTANTS Parses,       \* the parses asked for
          Uploads,      \* which documents they may be about: functions on Parses
          PoolSize,     \* threads of the default executor
          SampleLimit   \* pages the median is taken of (10 in the code)

\* What is wrong with a document (in the order it is noticed) or a page.
DocumentTrouble == {"none", "large", "notPdf", "damaged", "deep"}
PageTrouble == {"none", "heavy", "fails", "hangs"}

ASSUME ParserAssumption ==
    /\ PoolSize \in Nat \ {0} /\ SampleLimit \in Nat
    /\ \A u \in Uploads :
         /\ DOMAIN u = Parses
         /\ \A p \in Parses :
              /\ u[p].trouble \in DocumentTrouble /\ u[p].pages \in Seq(ToSet(u[p].pages))
              /\ \A n \in DOMAIN u[p].pages : IsPage(u[p].pages[n])

VARIABLES doc,      \* the documents
          parse,    \* the coroutines: where they are, and their answer
          thread,   \* the extractions
          queue     \* extractions that wait for a thread

vars == <<doc, parse, thread, queue>>

Outcomes == {"ok", "large", "notPdf", "pathological", "timeout", "error"}

Parse == [pc : {"idle", "waiting", "done"}, late : BOOLEAN,
          answer : Outcomes \cup {"none"}]

\* sampled counts the pages in the median, read those extracted: together with
\* the document they say what the thread has extracted (Pages).
Stages == {"none", "queued", "open", "sample", "pages", "stuck", "strip", "ended",
           "cancelled"}
Running == {"open", "sample", "pages", "stuck", "strip"}

Init ==
    /\ doc \in Uploads
    /\ parse = [p \in Parses |-> [pc |-> "idle", late |-> FALSE, answer |-> "none"]]
    /\ thread = [p \in Parses |-> [stage |-> "none", over |-> FALSE, sampled |-> 0,
                                   read |-> 0, outcome |-> "none"]]
    /\ queue = <<>>

--------------------------------------------------------------------------------
(* The coroutine *)

Answer(p, a) == parse' = [parse EXCEPT ![p].pc = "done", ![p].answer = a]

\* _validate_input raises before there is a thread.
Submit(p) ==
    /\ parse[p].pc = "idle"
    /\ IF doc[p].trouble \in {"large", "notPdf"}
         THEN Answer(p, doc[p].trouble) /\ UNCHANGED <<thread, queue>>
         ELSE /\ parse' = [parse EXCEPT ![p].pc = "waiting"]
              /\ thread' = [thread EXCEPT ![p].stage = "queued"]
              /\ queue' = Append(queue, p)
    /\ UNCHANGED doc

\* wait_for returns the result or raises what the thread raised.
Deliver(p) ==
    /\ parse[p].pc = "waiting" /\ thread[p].stage = "ended"
    /\ Answer(p, thread[p].outcome)
    /\ UNCHANGED <<doc, thread, queue>>

DeadlinePasses(p) ==
    /\ parse[p].pc = "waiting" /\ ~parse[p].late
    /\ parse' = [parse EXCEPT ![p].late = TRUE]
    /\ UNCHANGED <<doc, thread, queue>>

\* Only what has no thread yet can be cancelled.
Cancel(p) ==
    IF thread[p].stage = "queued"
      THEN /\ thread' = [thread EXCEPT ![p].stage = "cancelled"]
           /\ \E i \in DOMAIN queue : queue[i] = p /\ queue' = RemoveAt(queue, i)
      ELSE UNCHANGED <<thread, queue>>

WaitAgain(p) ==                                                       \* mutant
    /\ parse[p].pc = "waiting" /\ parse[p].late
    /\ IF thread[p].stage \in Running
         THEN parse' = [parse EXCEPT ![p].late = FALSE] /\ UNCHANGED <<thread, queue>>
         ELSE Answer(p, "timeout") /\ Cancel(p)
    /\ UNCHANGED doc
TimesOut(p) ==
    /\ parse[p].pc = "waiting" /\ parse[p].late
    /\ Answer(p, "timeout")
    /\ Cancel(p)
    /\ UNCHANGED doc

--------------------------------------------------------------------------------
(* The thread: _extract_content *)

OneMoreFree == Cardinality({p \in Parses : thread[p].stage \in Running}) <= PoolSize  \* mutant
Free == Cardinality({p \in Parses : thread[p].stage \in Running}) < PoolSize

Enter(p, stage) == thread' = [thread EXCEPT ![p].stage = stage]
End(p, outcome) ==
    thread' = [thread EXCEPT ![p].stage = "ended", ![p].outcome = outcome]

Start(p) ==
    /\ queue # <<>> /\ Head(queue) = p /\ Free
    /\ Enter(p, "open")
    /\ queue' = Tail(queue)
    /\ UNCHANGED <<doc, parse>>

\* fitz.open and the depth of the outline.
Open(p) ==
    /\ thread[p].stage = "open"
    /\ CASE doc[p].trouble = "damaged" -> End(p, "error")
         [] doc[p].trouble = "deep" -> End(p, "pathological")
         [] OTHER -> Enter(p, "sample")
    /\ UNCHANGED <<doc, parse, queue>>

\* The thread's budget began after wait_for's.
BudgetPasses(p) ==
    /\ thread[p].stage \in {"open", "sample", "pages"}
    /\ parse[p].late /\ ~thread[p].over
    /\ thread' = [thread EXCEPT ![p].over = TRUE]
    /\ UNCHANGED <<doc, parse, queue>>

SampleSize(p) == Smaller(Len(doc[p].pages), SampleLimit)

\* What is wrong with a page may show here (get_text, line 220), or not before it
\* is extracted.
SamplePage(p, n) ==
    \/ thread' = [thread EXCEPT ![p].sampled = n]
    \/ doc[p].pages[n].trouble = "fails" /\ End(p, "error")
    \/ doc[p].pages[n].trouble = "hangs" /\ Enter(p, "stuck")

SampleSpins(p) ==                                                     \* mutant
    LET n == thread[p].sampled + 1 IN
      /\ thread[p].stage = "sample"
      /\ IF n > SampleSize(p) THEN Enter(p, "pages")
         ELSE IF thread[p].over THEN UNCHANGED thread
         ELSE SamplePage(p, n)
      /\ UNCHANGED <<doc, parse, queue>>

\* One page for the median; out of time, the median is that of fewer pages.
Sample(p) ==
    LET n == thread[p].sampled + 1 IN
      /\ thread[p].stage = "sample"
      /\ IF n > SampleSize(p) \/ thread[p].over THEN Enter(p, "pages")
         ELSE SamplePage(p, n)
      /\ UNCHANGED <<doc, parse, queue>>

MedianSize(p) == Median(SubSeq(doc[p].pages, 1, thread[p].sampled))

Pages(p) ==
    [n \in 1 .. thread[p].read |-> PageBlocks(doc[p].pages[n], MedianSize(p))]

\* One page; the library may never come back from it.
Extract(p, n) ==
    CASE doc[p].pages[n].trouble = "heavy" -> End(p, "pathological")
      [] doc[p].pages[n].trouble = "fails" -> End(p, "error")
      [] doc[p].pages[n].trouble = "hangs" -> Enter(p, "stuck")
      [] OTHER -> thread' = [thread EXCEPT ![p].read = n]

\* Out of time before a page, the document is given up, unlike the sample.
StopThere(p) == Enter(p, "strip")                                     \* mutant
GiveUp(p) == End(p, "timeout")

ReadPage(p) ==
    LET n == thread[p].read + 1 IN
      /\ thread[p].stage = "pages" /\ n <= Len(doc[p].pages)
      /\ IF thread[p].over THEN GiveUp(p) ELSE Extract(p, n)
      /\ UNCHANGED <<doc, parse, queue>>

PagesRead(p) ==
    /\ thread[p].stage = "pages" /\ thread[p].read = Len(doc[p].pages)
    /\ Enter(p, "strip")
    /\ UNCHANGED <<doc, parse, queue>>

\* The height of the first page, A4 where there is none.
Height(p) == IF doc[p].pages = <<>> THEN 842 * Point ELSE doc[p].pages[1].height

StripMargins(p) ==
    /\ thread[p].stage = "strip"
    /\ End(p, "ok")
    /\ UNCHANGED <<doc, parse, queue>>

\* The content that a thread that ended well returns.
Result(p) == Strip(Pages(p), Height(p))

ThreadStep(p) ==
    Start(p) \/ Open(p) \/ Sample(p) \/ ReadPage(p) \/ PagesRead(p) \/ StripMargins(p)

Coroutine(p) == Submit(p) \/ Deliver(p) \/ DeadlinePasses(p) \/ TimesOut(p)

\* All parses are answered, and no thread goes on.
Finished ==
    /\ \A p \in Parses : /\ parse[p].pc = "done"
                         /\ thread[p].stage \in {"none", "stuck", "ended", "cancelled"}
    /\ UNCHANGED vars

Next == (\E p \in Parses : Coroutine(p) \/ ThreadStep(p) \/ BudgetPasses(p)) \/ Finished

Spec == Init /\ [][Next]_vars

\* The event loop and its timers run, and so do threads that are not stuck in
\* the library.  Nobody owes an upload.
FairSpec ==
    /\ Spec
    /\ \A p \in Parses : WF_vars(DeadlinePasses(p)) /\ WF_vars(TimesOut(p) \/ Deliver(p))
                         /\ WF_vars(ThreadStep(p))

--------------------------------------------------------------------------------
(* reporting.py *)

Count(blocks, kind) == Cardinality({i \in DOMAIN blocks : blocks[i].kind = kind})

ParserReport(blocks) ==
    [headings |-> Count(blocks, "heading"), tables |-> Count(blocks, "table"),
     list_items |-> Count(blocks, "list_item"), body |-> Count(blocks, "body"),
     total |-> Len(blocks)]

ReconciliationReport(extracted, blocks, stripped) ==
    [total |-> extracted, mapped |-> Len(blocks), unmapped |-> stripped]

--------------------------------------------------------------------------------
(* Properties *)

Successful(p) == parse[p].answer = "ok"

TypeOK ==
    /\ DOMAIN doc = Parses
    /\ parse \in [Parses -> Parse]
    /\ \A p \in Parses :
         /\ thread[p].stage \in Stages /\ thread[p].over \in BOOLEAN
         /\ thread[p].sampled \in 0 .. SampleSize(p)
         /\ thread[p].outcome \in Outcomes \cup {"none"}
         /\ thread[p].outcome # "none" <=> thread[p].stage = "ended"
         /\ thread[p].read \in 0 .. Len(doc[p].pages)
    /\ ToSet(queue) = {p \in Parses : thread[p].stage = "queued"}
    /\ Cardinality({p \in Parses : thread[p].stage \in Running}) <= PoolSize

\* What the thread does to the whole of a document, all at once.
Whole(p) ==
    LET pages == doc[p].pages
        median == Median(SubSeq(pages, 1, SampleSize(p)))
    IN  Strip([n \in DOMAIN pages |-> PageBlocks(pages[n], median)], Height(p))

\* A successful parse is that of the whole document, with all pages and the
\* median of the whole sample, although the thread may run out of time in the
\* sample, which it does not report, or at any page (_extract_content).
ResultComplete == \A p \in Parses : Successful(p) => Result(p) = Whole(p)

\* What a reader sees of a line, a table or a block: its text and its place.
LineMark(l) == <<l.text, TRUE, l.x, l.y>>
TableMark(t) == <<t.text, t.boxed, t.x0, t.y0>>
Mark(b) == <<b.text, b.boxed, b.x, b.y>>

\* The lines and tables of a page, each by where it was found and its mark, save
\* lines of blocks that lie mostly under a table whose content was extracted.
Source(page) ==
    {[at |-> <<0, i>>, mark |-> TableMark(page.tables[i])] :
        i \in {k \in DOMAIN page.tables : page.tables[k].content}}
      \cup UNION {{[at |-> <<i, j>>, mark |-> LineMark(page.blocks[i].lines[j])] :
                     j \in {k \in DOMAIN page.blocks[i].lines :
                              page.blocks[i].lines[k].text # Blank}} :
                    i \in {k \in DOMAIN page.blocks :
                             ~\E t \in ToSet(page.tables) :
                                t.content /\ t.boxed /\ Covers(t, page.blocks[k])}}

\* A text in the same margin of two pages in a row.
RunningText(p, text) ==
    \E n \in 1 .. (Len(doc[p].pages) - 1) : \E zone \in {"top", "bottom"} :
      \A k \in {n, n + 1} : \E s \in Source(doc[p].pages[k]) :
        s.mark[1] = text /\ Zone([boxed |-> s.mark[2], y |-> s.mark[4]], Height(p)) = zone

\* Nothing vanishes unexplained, and nothing is made up or repeated: a page of a
\* successful parse has each mark as often as the page's lines and tables do,
\* unless a table took its place or its text runs in a margin
\* (_extract_page_blocks, strip_headers_footers).
MarksKept(p) ==
    \A n \in DOMAIN doc[p].pages :
      LET page == Result(p)[n]
          kept == {s \in Source(doc[p].pages[n]) : ~RunningText(p, s.mark[1])}
      IN  \A m \in {s.mark : s \in kept} \cup {Mark(page[i]) : i \in DOMAIN page} :
            Cardinality({i \in DOMAIN page : Mark(page[i]) = m})
              = Cardinality({s \in kept : s.mark = m})

\* The reports of reporting.py add up: extracted = kept + stripped, and the kinds
\* account for all that was kept.
ReportsAddUp(p) ==
    LET kept == FlattenSeq(Result(p))
        report == ReconciliationReport(Len(FlattenSeq(Pages(p))), kept,
                                       StrippedCount(Pages(p), Height(p)))
        counts == ParserReport(kept)
    IN  /\ report.total = report.mapped + report.unmapped
        /\ counts.total = counts.headings + counts.tables + counts.list_items + counts.body

NothingVanishes == \A p \in Parses : Successful(p) => MarksKept(p) /\ ReportsAddUp(p)

\* Two left edges belong to one column if no gap of more than a tenth of the
\* width separates them.
SameColumn(page, e, f) ==
    LET edges == {b.x0 : b \in ToSet(page.blocks)} IN
      \A g \in edges : e < g /\ g <= f =>
        \E h \in edges : h < g /\ 10 * (g - h) <= page.width

\* The block starts at the left edge of a text block, on the page.
Aligned(page, b) ==
    b.boxed /\ b.x <= page.width /\ \E c \in ToSet(page.blocks) : c.x0 = b.x

\* Columns are read from left to right and each from top to bottom, as far as
\* text and tables start at the left edge of a text block (_detect_columns).  On
\* a page of less than ten points, columns may be closer than the point by which
\* their ranges are kept apart.
ColumnsInOrder ==
    \A p \in Parses : Successful(p) =>
      \A n \in DOMAIN doc[p].pages :
        LET page == doc[p].pages[n]
            result == Result(p)[n]
        IN  page.width >= 10 * Point =>
              \A i, j \in DOMAIN result :
                i < j /\ Aligned(page, result[i]) /\ Aligned(page, result[j]) =>
                  LET a == result[i]  b == result[j] IN
                    \/ a.x <= b.x /\ ~SameColumn(page, a.x, b.x)
                    \/ a.x <= b.x /\ SameColumn(page, a.x, b.x) /\ a.y <= b.y
                    \/ b.x <= a.x /\ SameColumn(page, b.x, a.x) /\ a.y <= b.y

\* Every parse is answered, though all threads be stuck in pages (parse).
ParseEnds == \A p \in Parses : parse[p].pc = "waiting" ~> parse[p].pc = "done"

\* A thread whose parse timed out comes back to the pool by itself, if its
\* document has no page that hangs: nothing else can stop it (line 86).
ThreadsFreed ==
    \A p \in Parses :
      thread[p].stage \in Running
        /\ (\A n \in DOMAIN doc[p].pages : doc[p].pages[n].trouble # "hangs")
        ~> thread[p].stage = "ended"
================================================================================
