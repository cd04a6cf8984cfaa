------------------------------ MODULE IngestStore ------------------------------
(***************************************************************************)
(* POST /api/v1/documents as uvicorn workers run it over one SQLite file:  *)
(* the ingest route (main.py) and ingest_document (database.py).           *)
(*                                                                         *)
(* A request awaits the upload and the parse, where its worker's event     *)
(* loop serves other requests, and then runs to its answer without another *)
(* await: it holds the loop.  Other workers are other processes, so their  *)
(* steps fall between any two SQL statements.  A SELECT sees the committed *)
(* rows and the session's own; the first INSERT of a session opens its     *)
(* transaction and takes SQLite's write lock, which COMMIT or the close of *)
(* the session releases.                                                   *)
(***************************************************************************)
EXTENDS Naturals, Sequences, FiniteSets

CONSTANTS Workers,    \* uvicorn processes (the Dockerfile starts one)
          Requests,   \* uploads
          Names,      \* filenames
          Contents,   \* PDF bytes, which stand for their SHA-256
          None        \* Python's None

ASSUME NoneAssumption == None \notin Requests \cup Names

VARIABLES documents,  \* committed documents rows, in row order: their names
          versions,   \* committed versions rows
          nodes,      \* the versions that have committed nodes rows
          tx,         \* rows of the open write transaction
          lock,       \* the request whose session holds the write lock
          loop,       \* the request each event loop is running
          req         \* the requests' progress and locals

vars == <<documents, versions, nodes, tx, lock, loop, req>>

\* A row's id is the request that creates it; a document's is its row number.
Version == [id : Requests, doc : Nat \ {0}, number : Nat \ {0},
            content : Contents, base : Requests \cup {None}]

PC == {"idle", "parsing", "lookup", "insertDocument", "check", "number",
       "insertVersion", "insertNodes", "commit", "reply", "done"}

\* base is the version whose tree the lineages were matched against; status,
\* version and number are the answer, with status 0 while there is none.
Request == [pc : PC, worker : Workers, name : Names, content : Contents,
            base : Requests \cup {None}, doc : Nat, status : {0, 200, 201, 500},
            version : Requests \cup {None}, number : Nat]

NewRequest(w, n, c) ==
    [pc |-> "idle", worker |-> w, name |-> n, content |-> c, base |-> None,
     doc |-> 0, status |-> 0, version |-> None, number |-> 0]

EmptyTx == [document |-> None, versions |-> {}, nodes |-> {}]

Init ==
    /\ documents = <<>> /\ versions = {} /\ nodes = {}
    /\ tx = EmptyTx /\ lock = None
    /\ loop = [w \in Workers |-> None]
    /\ req \in [Requests -> {NewRequest(w, n, c) :
                               w \in Workers, n \in Names, c \in Contents}]

--------------------------------------------------------------------------------
(* Queries *)

\* .first() without ORDER BY: the first row of a table scan.
DocumentsNamed(n) == {d \in DOMAIN documents : documents[d] = n}
FirstDocument(n) == CHOOSE d \in DocumentsNamed(n) :
                      \A e \in DocumentsNamed(n) : d <= e

VersionsOf(d) == {v \in versions : v.doc = d}

\* ORDER BY version_number DESC, first(): any of them where numbers tie.
OldestFirst(v, u) == v.number <= u.number                             \* mutant
LatestFirst(v, u) == v.number >= u.number
Latest(d) == {v \in VersionsOf(d) : \A u \in VersionsOf(d) : LatestFirst(v, u)}

AnyExisting(d, c) == VersionsOf(d)                                    \* mutant
Existing(d, c) == {v \in VersionsOf(d) : v.content = c}

\* The unique index ix_version_doc_hash.
NoUniqueIndex(d, c) == FALSE                                          \* mutant
ViolatesUnique(d, c) == \E v \in versions : v.doc = d /\ v.content = c

ZeroBased == 0                                                        \* mutant
FirstNumber == 1

--------------------------------------------------------------------------------
(* Sessions and event loops *)

AlwaysFree(w) == TRUE                                                 \* mutant
LoopFree(w) == loop[w] = None

CanWrite(r) == lock \in {None, r}

\* session.close() in the route's finally rolls back what was not committed.
SessionLeaked(r) == UNCHANGED <<tx, lock>>                            \* mutant
CloseSession(r) ==
    /\ lock' = IF lock = r THEN None ELSE lock
    /\ tx' = IF lock = r THEN EmptyTx ELSE tx

\* The response leaves the handler and the loop is free again.
Answer(r, status, version, number) ==
    /\ req' = [req EXCEPT ![r].pc = "done", ![r].status = status,
                          ![r].version = version, ![r].number = number]
    /\ loop' = [loop EXCEPT ![req[r].worker] = None]

--------------------------------------------------------------------------------
(* The steps of a request *)

\* The request arrives; file.read and parser.parse are awaited.
Upload(r) ==
    /\ req[r].pc = "idle"
    /\ req' = [req EXCEPT ![r].pc = "parsing"]
    /\ UNCHANGED <<documents, versions, nodes, tx, lock, loop>>

\* A parsing error or timeout is not handled by the app: status 500.
ParseFails(r) ==
    /\ req[r].pc = "parsing" /\ LoopFree(req[r].worker)
    /\ Answer(r, 500, None, 0)
    /\ UNCHANGED <<documents, versions, nodes, tx, lock>>

\* Back from the parse, the route reads the latest version's tree.
Resume(r) ==
    LET prev == IF DocumentsNamed(req[r].name) = {} THEN {}
                ELSE Latest(FirstDocument(req[r].name))
    IN  /\ req[r].pc = "parsing" /\ LoopFree(req[r].worker)
        /\ loop' = [loop EXCEPT ![req[r].worker] = r]
        /\ \E b \in IF prev = {} THEN {None} ELSE {v.id : v \in prev} :
              req' = [req EXCEPT ![r].pc = "lookup", ![r].base = b]
        /\ UNCHANGED <<documents, versions, nodes, tx, lock>>

LookupDocument(r) ==
    /\ req[r].pc = "lookup"
    /\ req' = IF DocumentsNamed(req[r].name) = {}
              THEN [req EXCEPT ![r].pc = "insertDocument"]
              ELSE [req EXCEPT ![r].pc = "check",
                               ![r].doc = FirstDocument(req[r].name)]
    /\ UNCHANGED <<documents, versions, nodes, tx, lock, loop>>

InsertDocument(r) ==
    /\ req[r].pc = "insertDocument" /\ CanWrite(r)
    /\ lock' = r
    /\ tx' = [tx EXCEPT !.document = req[r].name]
    /\ req' = [req EXCEPT ![r].pc = "check", ![r].doc = Len(documents) + 1]
    /\ UNCHANGED <<documents, versions, nodes, loop>>

CheckExisting(r) ==
    /\ req[r].pc = "check"
    /\ IF Existing(req[r].doc, req[r].content) = {}
       THEN /\ req' = [req EXCEPT ![r].pc = "number"]
            /\ UNCHANGED <<tx, lock, loop>>
       ELSE /\ \E v \in Existing(req[r].doc, req[r].content) :
                  Answer(r, 200, v.id, v.number)
            /\ CloseSession(r)
    /\ UNCHANGED <<documents, versions, nodes>>

ReadLatest(r) ==
    /\ req[r].pc = "number"
    /\ \E n \in IF Latest(req[r].doc) = {} THEN {FirstNumber}
                ELSE {v.number + 1 : v \in Latest(req[r].doc)} :
          req' = [req EXCEPT ![r].pc = "insertVersion", ![r].number = n]
    /\ UNCHANGED <<documents, versions, nodes, tx, lock, loop>>

Row(r) == [id |-> r, doc |-> req[r].doc, number |-> req[r].number,
           content |-> req[r].content, base |-> req[r].base]

\* commit() where the code has flush(): the row is durable without its nodes.
InsertVersionAndCommit(r) ==                                          \* mutant
    /\ req[r].pc = "insertVersion" /\ CanWrite(r)
    /\ ~ViolatesUnique(req[r].doc, req[r].content)
    /\ documents' = IF tx.document = None THEN documents
                    ELSE Append(documents, tx.document)
    /\ versions' = versions \cup {Row(r)}
    /\ tx' = EmptyTx /\ lock' = None
    /\ req' = [req EXCEPT ![r].pc = "insertNodes"]
    /\ UNCHANGED <<nodes, loop>>

\* The flush of the version row: an integrity error is answered 500.
InsertVersion(r) ==
    /\ req[r].pc = "insertVersion" /\ CanWrite(r)
    /\ IF ViolatesUnique(req[r].doc, req[r].content)
       THEN Answer(r, 500, None, 0) /\ CloseSession(r)
       ELSE /\ lock' = r
            /\ tx' = [tx EXCEPT !.versions = {Row(r)}]
            /\ req' = [req EXCEPT ![r].pc = "insertNodes"]
            /\ UNCHANGED loop
    /\ UNCHANGED <<documents, versions, nodes>>

InsertNodes(r) ==
    /\ req[r].pc = "insertNodes" /\ CanWrite(r)
    /\ lock' = r
    /\ tx' = [tx EXCEPT !.nodes = {r}]
    /\ req' = [req EXCEPT ![r].pc = "commit"]
    /\ UNCHANGED <<documents, versions, nodes, loop>>

Commit(r) ==
    /\ req[r].pc = "commit"
    /\ documents' = IF tx.document = None THEN documents
                    ELSE Append(documents, tx.document)
    /\ versions' = versions \cup tx.versions
    /\ nodes' = nodes \cup tx.nodes
    /\ tx' = EmptyTx /\ lock' = None
    /\ req' = [req EXCEPT ![r].pc = "reply"]
    /\ UNCHANGED loop

\* The rows are durable before the client hears of them.
Reply(r) ==
    /\ req[r].pc = "reply"
    /\ Answer(r, 201, r, req[r].number)
    /\ UNCHANGED <<documents, versions, nodes, tx, lock>>

\* A statement that writes fails (a full disk, an I/O error): 500.
WriteFails(r) ==
    /\ req[r].pc \in {"insertDocument", "insertVersion", "insertNodes", "commit"}
    /\ CanWrite(r)
    /\ Answer(r, 500, None, 0) /\ CloseSession(r)
    /\ UNCHANGED <<documents, versions, nodes>>

\* busy_timeout runs out while another session writes: OperationalError, 500.
LockTimeout(r) ==
    /\ req[r].pc \in {"insertDocument", "insertVersion"} /\ ~CanWrite(r)
    /\ Answer(r, 500, None, 0)
    /\ UNCHANGED <<documents, versions, nodes, tx, lock>>

--------------------------------------------------------------------------------
InFlight(r) == req[r].pc \notin {"idle", "done"}

\* A worker process dies: its requests get no answer, SQLite recovers.
Crash(w) ==
    LET lost == {r \in Requests : req[r].worker = w /\ InFlight(r)}
    IN  /\ lost # {}
        /\ req' = [r \in Requests |->
                     IF r \in lost THEN [req[r] EXCEPT !.pc = "done"] ELSE req[r]]
        /\ loop' = [loop EXCEPT ![w] = None]
        /\ lock' = IF lock \in lost THEN None ELSE lock
        /\ tx' = IF lock \in lost THEN EmptyTx ELSE tx
        /\ UNCHANGED <<documents, versions, nodes>>

Step(r) ==
    \/ Upload(r) \/ ParseFails(r) \/ Resume(r) \/ LookupDocument(r)
    \/ InsertDocument(r) \/ CheckExisting(r) \/ ReadLatest(r)
    \/ InsertVersion(r) \/ InsertNodes(r) \/ Commit(r) \/ Reply(r)
    \/ WriteFails(r) \/ LockTimeout(r)

\* Every upload of the instance has been answered or lost.
Finished == (\A r \in Requests : req[r].pc = "done") /\ UNCHANGED vars

Next == (\E r \in Requests : Step(r)) \/ (\E w \in Workers : Crash(w)) \/ Finished

Spec == Init /\ [][Next]_vars

\* A worker keeps running its requests: a parse returns or times out, and a
\* statement that waits for the lock gets it or times out.
FairSpec == Spec /\ \A r \in Requests : WF_vars(Step(r))

--------------------------------------------------------------------------------
(* Properties *)

\* The rows and the requests' locals have their types.
TypeOK ==
    /\ documents \in Seq(Names)
    /\ versions \subseteq Version
    /\ nodes \subseteq Requests
    /\ tx \in [document : Names \cup {None}, versions : SUBSET Version,
               nodes : SUBSET Requests]
    /\ lock \in Requests \cup {None}
    /\ loop \in [Workers -> Requests \cup {None}]
    /\ req \in [Requests -> Request]

\* No document row holds the same bytes twice, however many workers race from
\* the SELECT of ingest_document to its INSERT.
ContentUniquePerDocument ==
    \A u, v \in versions : u.doc = v.doc /\ u.content = v.content => u = v

\* A version is never visible without its document and its nodes, nor the
\* nodes without their version, whichever worker dies between two flushes.
VersionsComplete ==
    /\ \A v \in versions : v.doc \in DOMAIN documents
    /\ nodes = {v.id : v \in versions}

\* A 200 or 201 answer names a committed version of that filename with those
\* bytes under that number, and 201 one that this very request created.
ResponseTruthful ==
    \A r \in Requests : req[r].status \in {200, 201} =>
        \E v \in versions :
            /\ v.id = req[r].version /\ v.number = req[r].number
            /\ v.content = req[r].content
            /\ v.doc \in DOMAIN documents /\ documents[v.doc] = req[r].name
            /\ (req[r].status = 201) = (v.id = r)

\* One worker: a version's lineages were matched against the version that
\* precedes it in its document, although the parse was awaited before.
MatchedAgainstPredecessor ==
    \A v \in versions :
        IF v.number = 1 THEN v.base = None
        ELSE \E u \in versions : /\ u.id = v.base /\ u.doc = v.doc
                                 /\ u.number + 1 = v.number

\* One worker: uploads of the same bytes under the same filename that succeed
\* are told of the same version, and at most one of them that it is new, also
\* when the worker died between a commit and its answer and the client retries.
IdempotentAnswers ==
    \A r, s \in Requests :
        (/\ req[r].status \in {200, 201} /\ req[s].status \in {200, 201}
         /\ req[r].name = req[s].name /\ req[r].content = req[s].content)
        => /\ req[r].version = req[s].version
           /\ req[r].status = 201 /\ req[s].status = 201 => r = s

\* docs/decision_log.md, section 2: the unique index catches a concurrent
\* upload of the same bytes "rather than silent duplication".
NoSilentDuplication ==
    \A u, v \in versions :
        documents[u.doc] = documents[v.doc] /\ u.content = v.content => u = v

\* The write lock is never kept: every session that opens a transaction ends
\* it, on the error paths too.
LockReleased == \A r \in Requests : lock = r ~> lock # r

\* With one worker the rows are the version log that VersionLog promises.
Log == INSTANCE VersionLog WITH
         log <- {[name |-> documents[v.doc], number |-> v.number,
                  content |-> v.content] : v \in versions}
ImplementsVersionLog == Log!Spec
================================================================================
