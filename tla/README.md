# CT200 QA traceability: a verification project in TLA+

The service in `src/ct200-qa-traceability` ingests PDF manuals as versioned
trees of sections, follows each section through the versions of its document by
a *lineage*, lets a client pin sections of one version as a *selection*, asks an
LLM (the NVIDIA NIM API) for test cases about a selection, and reports later
whether those test cases are stale. This directory models the parts of it that
keep state or decide something, checks them with TLC on small instances and
proves the main safety properties with TLAPS.

Paths below are relative to `src/ct200-qa-traceability/src/ct200/` unless they
start with `src/`.

## 1. Inventory

| Component | State | Operations | Hard parts | Correct means |
|---|---|---|---|---|
| Ingestion and storage: `main.py` 60-107, `database.py` | SQLite rows of documents, versions and nodes; SQLite's write lock; one event loop per worker | upload: parse, read the latest tree, match, `ingest_document` | several workers between any two SQL statements, an awaited parse before the reads, lock timeouts, death of a worker, retries of a client | versions numbered without a gap, no bytes twice in a document, a version visible with all its nodes, answers that are true and repeatable |
| Lineage matching: `versioning/lineage_matcher.py`, `main.py` 138-200 | the claimed lineages of one run | three tiers per node (hash, heading, position), confidence, status | greedy order, ties, the index of a rebuilt tree is another than that of a parsed one | a lineage names at most one node per version and never comes back once it is gone; identical content keeps its lineages |
| Tree construction: `parser/tree_engine.py` | open path, text not yet flushed, preface | numbered and heading mode | skipped levels, flush points, text before the first section | a valid tree, text under its own heading, nothing lost |
| Selections, generations, reports: `main.py` 274-423, 505-602 | rows of selections and generations; handlers between two commits | `create_selection`, `create_generation`, `get_staleness` | an `await` between two commits, crash or failing commit after it, reports that read while uploads commit | pinned sources, answers that agree with rows, a report about one version |
| NIM client: `generation/nim_client.py` | timestamps of the limiter and its lock; attempt counters | `generate` with limiter, backoff, schema retry | coroutines interleaved in the limiter, time | the limit holds, retries are all used and end, the right error is raised |
| Browse, diff and search routes: `main.py` 203-271, 426-497, 610-666 | none | read-only queries | versions committed since a report | a node's diff agrees with what was reported of it |
| PDF parser: `parser/pymupdf_parser.py` | the event loop's thread pool; page, median and blocks of the extraction at hand | validation, extraction in a thread under `wait_for`; columns, classification, tables | a thread outlives its timeout, two clocks, a sample broken off, columns guessed from left edges | a success is the whole document, nothing vanishes, columns in order, threads come back |
| Header and footer stripper: `parser/header_footer_stripper.py` | none | removal of repeated margins | consecutive pages, scope of the removal | only running texts are removed |
| Engine and session factory: `database.py` 121-159 | two module globals | `get_engine`, `get_session` | no lock around the globals, `CREATE`s of several threads and processes interleave, a crash leaves half a schema | the schema gets complete, whoever lost the race |
| Parser report: `parser/reporting.py` | none | counts, reconciliation | - | extracted = kept + stripped |
| Markdown renderer, prompt templates, schemas, migrations | none | formatting, declarations | - | - |

How they interact: the upload route calls the parser, the tree engine, the
matcher and the store in that order, in one coroutine; the generation route
reads the store, commits a pending row, awaits the client and commits the
outcome; the staleness route only reads. Everything the routes share is in
SQLite. The Dockerfile starts one uvicorn worker; `docs/decision_log.md`
discusses concurrent uploads, so several workers are modelled as well.

`PROJECT.json` lists the hazards of this code, each at its line, with the
properties that would catch it going wrong.

## 2. Modules and how they correspond to the code

| Module | Models | Notes |
|---|---|---|
| `VersionLog` | what ingestion promises a client | abstract; a set of published (name, number, bytes) |
| `IngestStore` | the upload route over SQLite | one action per SQL statement or await of a request |
| `LineageMatcher` | the matcher's decision for one node | pure operators |
| `LineageHistory` | the versions of one document through the matcher | one action per node matched, then the commit |
| `DocumentVersions` | what the routes rely on of stored versions | abstract; implemented by `LineageHistory`, extended by `QaService` |
| `QaService` | selections, generations, staleness reports | one action per commit, await or query |
| `NimClient` | `NIMClient.generate` in one event loop | explicit seconds |
| `TreeEngine` | `build_tree` | one action per kind of block |
| `EngineInit` | `get_engine`, `get_session` in threads of several processes | one action per test of a global, query or `CREATE` |
| `PageLayout` | the blocks of one page in reading order | pure operators |
| `HeaderFooterStripper` | `strip_headers_footers` | pure operators |
| `PdfParser` | `parse`, its thread and the pool; the counts of `reporting.py` | extends the two above |
| `DataFacts` | numbers, orders, sequences | no states; lemmas every proof may cite |
| `IngestStoreProofs`, `LineageHistoryProofs`, `QaServiceProofs`, `NimClientProofs`, `TreeEngineProofs`, `EngineInitProofs`, `PdfParserProofs` | proofs | section 5 |
| `MC*` | instances for TLC | constants, symmetry |

**IngestStore.** A request goes from `parsing` to `done`. `Resume` is the return
of the awaited parse: from there to its answer the coroutine has no other
`await`, so it holds its worker's event loop (`loop`), and only requests of
other workers interleave with it. A SELECT reads the committed rows (pysqlite
opens no transaction for it); the first INSERT takes `lock`. `tx` holds what is
flushed and not committed. `InsertVersion` meets the unique index on
(document, hash) and answers 500 where it is violated. `WriteFails` is any other
error of a writing statement or of the COMMIT (disk full, I/O error): the
route's `finally` closes the session, which rolls back, and the answer is 500.
`Crash` loses a worker's requests and rolls their transaction back. Row ids stand for UUIDs: a version's
id is the request that inserts it. `base` records the version a tree was matched
against; the code does not store it.

**LineageMatcher, LineageHistory.** A tree is the sequence of its nodes in
pre-order. `SiblingIndex` and `RebuiltIndex` are the two meanings that
`order_index` has: the place among the siblings in a parsed tree, the place in
the whole tree in one rebuilt from the database (`main.py` 164). Headings are
members of a set with their lower-case key and their words, a hash is the pair
it is computed from, confidences are integers (0.75 is 900 of 1200). `Overlap`
rounds the share of common words down to one of these units, which decides
nothing: it only raises a confidence that is capped below the threshold.
`LineageHistory` ingests the uploads of one
document one after the other, as `IngestStore`'s `MatchedAgainstPredecessor`
says one worker does.

**QaService.** Versions are those of `DocumentVersions`: functions from lineages
to hashes. `CreateGeneration` ends with the commit of the pending row,
`NimReturns` is the await, `Save` the commit of the outcome and `Reply` the
answer. `SaveFails` covers both the failing commit of an error branch and the
catch-all branch that commits again in a session that needs a rollback: either
way the row stays pending and the answer is 500. A report reads the latest
version once and compares node by node; uploads commit in between. `first` and
`last` record how many versions there were when it was asked for and answered.
`History` and `GenerationsOf` are the two read routes about one node.

**NimClient.** A timestamp is kept as its age, a sleep or wait as the seconds
left. The limiter's lock is held across its sleep. `Piece` is a wait of a
request that ends in time: httpx applies its timeout to each of them anew. A
transient status falls through to `NIMClientError` on the last attempt, a
transport error to `NIMTransientError`. `round` is the schema attempt.

**TreeEngine.** A block is what the regular expressions and length tests make of
it: the depth its section number asks for, its heading level, whether it is
short, whether it reads as metadata. Text is the place of its block in the
document. `Open` fails where the node's depth exceeds the limit of its model
(`Field(ge=0, le=10)`), which fails the upload. The nodes in creation order are
the tree in pre-order.

**EngineInit.** The schema's objects are numbered in creation order: each table,
then its indexes, `nodes_fts` last. `Assign` sets the global `_engine` before
`create_all` runs (`database.py` 131-132); `Inspect` is `create_all`'s query for
one table, `Create` one CREATE TABLE or CREATE INDEX. pysqlite commits each of
them on its own, so that others see half a schema, and one that exists already
raises and drops the rest of the plan. `Fails` is any other error of a statement;
`Crash` replaces a process, whose globals are gone while the file stays.
`disturbed` records that one of the two happened. `Query` is the route's first
query: a thread that found the engine set may get "no such table".

**PageLayout, HeaderFooterStripper, PdfParser.** A page is what PyMuPDF finds:
boxes, lines with font, size and length, tables with or without content.
Coordinates are natural numbers of halves of a point, so that the code's `- 1.0`
is exact; the page's corner is 0. A loop with `continue` is the `FlattenSeq` of what each
element contributes, and the stable `list.sort` is the order of the positions by
key and then by position (`StableOrder`). `Classify` has the thresholds of
`_classify_line` (a list pattern is a fact about the line);
`ColumnStarts` and `SortKey` give the order. `PdfParser` has the coroutine
(`Submit` to `TimesOut`) and the thread (`Start` to `StripMargins`). There are two
clocks with the same limit: `late` is `wait_for`'s, `over` the thread's own, which
starts later, so `BudgetPasses` needs `late`. `TimesOut` cancels what still waits
in the pool's queue; a running thread goes on and its outcome is dropped. Out of
time in the sample the thread goes on with the median so far (line 217), out of
time before a page it raises (line 167). A page that `hangs` is one the library
never returns from (`stuck`); what is wrong with a page may show when its font
sizes are sampled or only when it is extracted. State keeps only how far a thread is; `Pages` and
`Result` say what it has extracted by then.

## 3. Runs

| Run | Instance | What it shows |
|---|---|---|
| `ingest_one_worker` | 1 worker, 4 uploads, 2 names, 3 contents, symmetry | The Dockerfile's deployment implements `VersionLog`; each version was matched against its predecessor although the parse is awaited before; retried uploads get the same answer, also after a crash between commit and answer. |
| `ingest_workers` | 2 workers, 3 uploads, 1 name, 2 contents | Races between SELECT and INSERT, lock timeouts and crashes break neither the uniqueness of bytes in a document row nor the completeness of versions nor the truth of answers; the write lock is given up on every path. |
| `ingest_duplicates` | 2 workers, 2 uploads | *Violated*: the same bytes stored twice under a new filename. |
| `lineage_versions` | every tree of a root and up to 2 sections (3 headings, 4 labels, depths 1-2), 3 versions | Lineages are unique, never return, stay the root's, survive an identical re-upload; a lineage taken from a section of another content and heading is flagged, and no other; `DocumentVersions` is implemented. |
| `lineage_unchanged` | the same, 2 versions | *Violated*: an unchanged section loses its lineage to an earlier node. |
| `lineage_accepted` | the same, 2 versions | *Violated*: a positional match whose headings share all words is flagged, not accepted. |
| `qa_service` | 2 lineages, 2 hashes, 1 selection, 1 generation, 2 reports, 3 versions, symmetry | Pinned sources, answers that agree with rows, reports about one version, removed stays removed, a node's diff and generations agree with the reports before them. |
| `nim_calls` | 2 calls, 1 client, 2 requests per 4 seconds, 2 retries | The limiter holds; retries are all used; every call ends. |
| `tree_shapes` | every document of up to 5 blocks of 10 kinds, depth limit 3 | A valid tree, nearest ancestors, text in its place, nothing lost after the first section. |
| `tree_introduction` | documents of up to 3 blocks | *Violated*: text before the first heading is dropped. |
| `engine_init` | 2 processes, 3 requests, 2 tables with an index each and `nodes_fts` | Whatever is missing is in the plan of a request that runs, unless a statement fails or a process dies; the schema gets complete; whoever ran `get_engine` to its end has every table, also after crashes. |
| `pdf_parser` | 2 parses, 1 thread; every title, list item and body block on a grid with four sets of tables; every repetition of margins on 3 pages; damaged, heavy, failing, hanging, rejected documents | A success is the whole document's parse although time may run out anywhere; every line and table is there as often as it was drawn, also when two are drawn at one place, unless a table covers it or it runs in a margin; columns in order; every parse is answered; a thread comes back unless the library hangs. |

Bounds and why they are enough. Two uploads race for one row, a third makes the
document exist before the race, and a fourth retries: four uploads and three
contents reach every branch of `ingest_document` with a predecessor of the
predecessor in place. A lineage can return only in a third version. Two sections
suffice for a duplicate, for a nested section and for one that claims another's
predecessor; the labels are chosen so that headings agree by key ("Root" and the
root), by words only ("A B", "B A") and by heading with another body. A client
with two calls of up to six requests each fills a window of two several times
over. Two tables with an index each let one request create a table while another is
between a table and its index, and a third request arrives after both; two
processes race with each other and each with itself. In `pdf_parser` the left
edges lie below, at and above a tenth of the width from each other, so that
edges chain into one column as well as split; text and tables meet in
one column, in two, and without a box; the margins' first and last points are
both inside and outside; three pages tell consecutive from repeated. One thread
for two parses makes one wait for the other; a sample of two of three pages makes
the median that of a part. Five blocks reach a fourth level, so the depth limit of 3 stands for the
code's 10. Deadlock is checked in every run; the stutters of finished instances
(`Finished` and its like) say where the system may stop.

Every property of a passing run has a *mutant* in the modules (marked
`\* mutant`): a plausible bug in the code, such as a dropped filter or a flush
after the pop, under which the run finds the property violated.

## 4. Fairness

Safety runs assume none. `IngestStore.FairSpec`: weak fairness of each request's
steps; the event loop keeps running what it holds, a parse is under `wait_for`,
a statement that waits for the lock is under `busy_timeout`. No fairness for
crashes. `NimClient.FairSpec`: time passes and the event loop runs what is ready
(`EnforceRateLimit`, `Admit`, `Retry`, `TimesOut`); the API owes no answer. That
responses are finite (`MaxPieces`) is an assumption: an API that sends a piece
of a response every few seconds for ever does keep a call for ever.
`EngineInit.FairSpec`: the threads run; no failure and no crash is owed.
`PdfParser.FairSpec`: the event loop's timers fire and the coroutine they wake
runs (`DeadlinePasses`, `TimesOut` or `Deliver`), and a thread that is not stuck
inside the library goes on. A stuck one has no step at all, which is why
`ThreadsFreed` is about documents without a page that hangs.

## 5. Proofs

All theorems hold for every value of the constants under the assumptions the
modules name (`NoneAssumption`, `WordsAssumption`, `TreesAssumption`,
`QaAssumption`, `NimAssumption`, `TreeAssumption`, `SchemaAssumption`,
`ParserAssumption`).

* `IngestStoreProofs`: `TypeCorrect`, `NoDuplicateContent`, `CompleteVersions`
  and `TruthfulAnswers`, all from `InductiveInvariant`. The unique index alone is
  not inductive: a request checks it when it flushes and commits later. `IInv`
  adds that whoever is past the flush holds the lock (`LocalsInv`), that the
  open transaction is exactly the row of the lock's holder and no duplicate
  (`TxInv`), and that a request's document is a committed row of its name or the
  one it is inserting. One lemma per conjunct, in each one step per action.
  For one worker (`OneWorker`, an assumption of the theorems, not of the model)
  also `LineagesFollow`, `AnswersIdempotent` and `StoreImplementsVersionLog`.
  `LoopInv` says that whoever is between its parse and its answer has the event
  loop, so with one loop it runs alone, and `RunInv` that what it has read (the
  latest version, its document, that its bytes are new, the next number) still
  holds when it commits. A commit is then a step of `VersionLog`
  (`CommitIsPublish`) and no other step changes the log. With two workers the
  first read may be stale, as `ingest_duplicates` shows.
* `LineageHistoryProofs`: `TypeCorrect`, `UniqueLineages`, `RemovedStaysRemoved`
  and `HistoryImplementsDocumentVersions`, from `InductiveInvariant`. `IInv` says
  that a stored lineage was born in its version or came from the version before
  (`StoredInv`), and of a run half done that a matched node took a lineage of the
  latest version nobody else took and an unmatched one has a newborn one
  (`MatchingInv`). `MatchNodeTakesFree` is the fact about the three tiers all of
  it rests on. "Never returns" needs a lineage's versions to be contiguous
  (`Contiguous`), which follows from `StoredInv`.
  In its second half `IdenticalStays`, `RootStays` and `GuessesFlagged`, from
  `StableInvariant`. `AgreementInv` follows the matcher through a tree: while
  the new tree agrees with the latest version, the lineages taken are those of
  the nodes already passed, so the first exact candidate left is the node at the
  same place (`FirstExact`). The root is always first, and no candidate by heading
  scores more than the root's 3 (`RootMatched`). It rests on what the tree engine
  makes of every document: one root, whose key is not empty (`TreesAssumption`).
* `EngineInitProofs`: `TypeCorrect`, `SchemaCompleteOrUnderway` and
  `InitialisedComplete`, from `InductiveInvariant`. "Somebody has it in the plan"
  is not inductive, because a request that meets an existing object drops its
  whole plan. `Held` names for each missing object a request whose plan has no
  existing object before it (`Holder`). When such a request is about to be
  stopped, the one that created the object in its way takes over (`TakesOver`):
  it has the table's indexes (`PlannedTogether`), nobody else goes on to them
  (`OneCreator`), and tables appear in order (`InOrder`). The last holds only
  undisturbed; `TablesInv`, on which `InitialisedComplete` rests, holds always.
* `QaServiceProofs`: every invariant of the `qa_service` run, from
  `InductiveInvariant`. `HandlersInv` ties each step of a handler to the status of
  its row, `SelectionsInv` says that a selection names stored nodes of its
  version, and `Founded` and `Judged` say what a report half done has found out:
  its nodes were stored before it was asked for, and each one judged so far is
  judged against the one version the report read. All of it survives uploads
  because rows are only added (`RowsKept`). `Contiguous` relates reports of
  different versions: a lineage lost between a node's version and the compared
  one is not in any later version (`RemovedForGood`, `AgreeingRoutes`).
* `NimClientProofs`: `TypeCorrect`, `NeverAboveRate` and `NoRetryGivenUp`.
  `RateLimited` alone does not survive the sleep in the limiter: `Throttled` says
  that the sleeper holds the lock, that exactly `Rpm` timestamps are left and that
  the oldest is out of the window when the sleep is over. At most `Rpm` are left
  because the list is in order (`RecentFacts`), the fact for which `Recent`, the
  code's filter, can be the end of the list.
* `TreeEngineProofs`: every invariant of the `tree_shapes` run, from
  `InductiveInvariant`. `StackInv` says what the stack is: the tree's right edge,
  its m-th node of depth m - 1 and every node after that one deeper, so that what
  is popped is just what may not be the parent (`PoppedFacts`). `TextInv` keeps
  waiting text between the last heading and the block at hand; `CoverInv` follows
  each block read: placed, skipped, waiting, or before the first heading of an
  unnumbered document. `Next` has two shapes, a block that waits (`Waits`) and a
  heading that opens a node (`Opens`), and each conjunct is proved for the two.
  What `Kept` leaves of the introduction is shown by its least bad length
  (`KeptFacts`), in place of an induction.
* `PdfParserProofs`: every invariant of the `pdf_parser` run. `TypeCorrect` and
  `CompleteResults` follow from `InductiveInvariant`: `Sound` relates a document,
  its coroutine and its thread (what is read is read with the whole sample's
  median, or by a thread that is out of time and has a page left to find that
  out at), `QueueInv` says that an extraction without a thread waits in one place
  of the pool's queue, which cancelling one in the middle must keep, and
  `PoolInv` that no more threads run than the pool has.
  `AccountedFor` (`NothingVanishes`) is about what the operators compute for
  every document. The same lines and tables are followed from the page to the
  result as a family of items named by where they were drawn: a sequence
  `Arranges` a family if it has each of its items once, and each stage of the
  code is shown to arrange what it should: the loops over lines, blocks and
  tables (`PageTextArranges`, `PageTablesArrange`), the sort (`PageBlocksFacts`),
  the stripper (`WithoutFacts`). Then marks are counted (`MarksCounted`), and what
  runs in a margin is what the stripper's counter finds (`LongestRunFacts`).
  That the reports add up needs the same for all pages at once (`StrippedCounted`).
  `ReadingOrder` (`ColumnsInOrder`): a left edge starts a column if no other lies
  close before it, `ColumnStarts` finds just those (`ColumnsStart`), the column of an edge is
  the last that does not start behind it (`ColumnOfFacts`), and two edges share
  it when no wider gap is between them (`ColumnsCompare`). `ColumnOfFacts` is
  where a page needs ten points: the code ends a column one point before the
  next, and on a narrower page the next may start within that point.
* `DataFacts`: a nonempty set of numbers has a least element, the fact behind
  every `.first()` and what stands in for induction in all of these proofs; the
  order of a finite set by counting what comes before (`RankedFacts`);
  `FlattenSeq` puts its sequences one after the other (`FlattenSeqFacts`), from
  the recursive function the community module defines it by; and the lemmas
  about `Arranges`.

Model-checked only: liveness (`LockReleased`, `CallsEnd`, `EventuallyComplete`,
`ParseEnds`, `ThreadsFreed`), which is beyond the prover. Every safety property
of a passing run is proved, the refinements of `VersionLog` and
`DocumentVersions` included.

## 6. Where the documents and the code disagree

Shown by the *violated* runs, with the quotations in `PROJECT.json`:
duplicate documents (`docs/decision_log.md` 13), greedy matching
(`lineage_matcher.py` 9, `tests/test_versioning.py` 126), positional matches that
share words (`docs/decision_log.md` 9, `docs/APPROACH.md` 37), the introduction
(`README.md` 73).

The two documents about positional matches count on some that are above the
threshold and accepted as "matched". The cap of 0.7 (`lineage_matcher.py` 241) is
below the threshold of 0.75 (line 44; `main.py` 94 takes the default), so every
positional match is flagged and no match by heading ever is
(`FlaggedIfOtherSection`): the threshold decides nothing else. What the documents
warn of remains, because a flagged lineage is stored like the others (the first
point below).

Seen while modelling and not the subject of a run:

* `src/Architecture.md` 294 says matches below the threshold "are never
  auto-accepted"; `_apply_lineage_matches` (`main.py` 192) never looks at the
  status and stores them like the others.
* `nim_client.py` 216 promises `NIMTransientError` after all retries; a transient
  status on the last attempt falls through to `NIMClientError` (line 168). Only
  transport errors end as promised.
* `nim_client.py` 7 says "Hard timeout of 60 seconds"; `httpx.Timeout(60)` bounds
  each wait of a request anew (`Piece`), so a slow response keeps one request
  going for longer.
* `get_engine` "returns the singleton engine": two threads in the first call may
  each make one, and the second of them, or one that finds the global set, may
  meet "already exists" or "no such table" and answer 500.
* `_engine` is set before `create_all`: when that fails, the process keeps an
  engine without its tables until it restarts.
* A crash between CREATE TABLE and CREATE INDEX loses the index for good:
  `create_all` looks for tables only. Without the unique index on
  (document_id, content_hash), `ContentUniquePerDocument` has nothing to rest on.
* `nodes_fts` is created and never filled: `README.md` 58 lists the search as
  available, it finds nothing.
* `node_diff` orders the history by version id, a random UUID, not by number.
* `version=0` asks `get_nodes` for the latest version.
* `docs/decision_log.md` 17 says a parse error is answered 422; the ingest route
  lets it pass, which is 500.
* `pymupdf_parser.py` 4 and 63 promise the document's order. A left edge more than
  a tenth of the width behind the one before it makes a column (line 326) whether
  or not blocks stand side by side: a centred title over text of the page's full
  width is read after that text. `ColumnsInOrder` says what order there is.
* The stripper's docstring identifies blocks "positioned at the top or bottom of
  the page"; what it removes is every block with such a text, in the middle of a
  page as well (line 85).
* A table that starts less than a point left of a column, or left of all text,
  counts as the first column (`_sort_key`).
* When every thread of the pool is stuck in the library, later uploads time out
  without having been looked at; nothing but a restart frees the threads.
* Two workers that upload different bytes of one document can give both versions
  the same number; `ingest_one_worker` shows that one worker cannot.
* Every generation makes its own `NIMClient` (`main.py` 377), so the limiter
  never sees more than the requests of one generation.
* In a numbered document unnumbered headings nest one below the other whatever
  their level (`tree_engine.py` 331); the tenth in a row exceeds the depth limit
  and fails the upload.
* A line such as `1 ...:` with more than 60 characters makes a document numbered
  without being a section; if there is no other, all its text stays in the
  preface and the tree is the root alone.
* A section titled exactly "root" has the hash of a root with the same body.
* A generation whose process dies, or whose outcome cannot be committed, stays
  `pending`; nothing repairs it at the next start (`AnswerMatchesRow` says when).
* Re-uploading an old content answers with its old version and leaves the latest
  where it is.

## 7. Not modelled, and why

`get_nodes`, `get_generation`, `get_generations_for_selection` and `search_nodes`
(a row or two, as they are); PyMuPDF's extraction (a library); the markdown
renderer and `generate_validation_report` (formatting, no route calls them);
prompts, schemas, settings and migrations (declarations; `alembic/env.py` imports
a module the repository does not have); `reset_engine` (tests). In the
modelled components: warnings, logging, the wording of answers, the
normalisation of body text, `parsed_number`, token counts, the patterns of list
items and the markdown of tables.

## 8. Plan

In order of importance; all of it is done but 10.

1. `VersionLog`, `IngestStore` and its proofs: the store everything rests on.
2. `LineageMatcher`, `LineageHistory` and their proofs.
3. `DocumentVersions`, and that the history implements it.
4. `QaService` over `DocumentVersions`, and its proofs.
5. `NimClient` and its proofs.
6. `TreeEngine` and its proofs.
7. `EngineInit` and its proofs.
8. `PageLayout`, `HeaderFooterStripper` and `PdfParser`.
9. `DataFacts` and the proofs about `PdfParser`, `PageLayout` and
   `HeaderFooterStripper`.
10. Left: a measure for each liveness property that every fair step decreases and
    no other step increases, proved as an action property, so that of
    `CallsEnd`, `ParseEnds` and `ThreadsFreed` only the fairness argument itself
    stays with TLC.
