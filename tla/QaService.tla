------------------------------- MODULE QaService -------------------------------
(***************************************************************************)
(* The selection, generation and staleness routes of main.py over the      *)
(* stored versions of one document, while uploads go on committing new     *)
(* ones (DocumentVersions).                                                *)
(*                                                                         *)
(* create_generation is a coroutine that awaits NIMClient.generate between *)
(* the commit of its pending row and the commit of the outcome.  The other *)
(* two run in threads: the staleness report is a series of SELECTs, each   *)
(* of which sees what is committed by then.  A node's id is its version    *)
(* and its lineage.                                                        *)
(***************************************************************************)
EXTENDS DocumentVersions

CONSTANTS Lineages, Hashes,
          Selections, Generations, Reports,   \* the requests, and their ids
          MaxVersions,                        \* bound on the versions
          None

VARIABLES selections,    \* the selections rows
          generations,   \* the generations rows
          handler,       \* the create_generation calls
          report         \* the get_staleness calls

rows == <<versions, selections, generations>>
vars == <<versions, selections, generations, handler, report>>

NodeId == (1..MaxVersions) \X Lineages
\* A version has its root at least.
Contents == UNION {[S -> Hashes] : S \in (SUBSET Lineages) \ {{}}}

SelectionRow == [version : 1..MaxVersions, nodes : SUBSET NodeId]
\* source_hashes_json: the selected nodes' hashes.
Sources == UNION {[N -> Hashes] : N \in SUBSET NodeId}
GenerationRow == [selection : Selections, status : {"pending", "completed", "failed"},
                  sources : Sources]

ASSUME QaAssumption ==
    /\ MaxVersions \in Nat
    /\ None \notin SelectionRow \cup GenerationRow

\* NIMClient.generate returns its output, times out or raises another error.
Outcome == {"output", "timeout", "error"}

\* answer is the HTTP status, 0 while there is none.
Handler == [pc : {"idle", "calling", "saving", "reply", "done", "died"},
            result : Outcome \cup {"none"}, answer : {0, 201, 404, 500, 502, 504}]

\* first and last are the document's number of versions when the report was
\* asked for and answered: they record, the code does not keep them.
NodeStatus == {"unchanged", "changed", "removed"}
Statuses == UNION {[N -> NodeStatus \cup {"todo"}] : N \in SUBSET NodeId}
Report == [pc : {"idle", "started", "comparing", "done", "died"},
           generation : Generations \cup {None}, latest : 0..MaxVersions,
           status : Statuses,
           stale : BOOLEAN, first : 0..MaxVersions, last : 0..MaxVersions]

QaInit ==
    /\ Init
    /\ selections = [s \in Selections |-> None]
    /\ generations = [g \in Generations |-> None]
    /\ handler = [g \in Generations |->
                    [pc |-> "idle", result |-> "none", answer |-> 0]]
    /\ report = [q \in Reports |->
                   [pc |-> "idle", generation |-> None, latest |-> 0,
                    status |-> <<>>, stale |-> FALSE, first |-> 0, last |-> 0]]

--------------------------------------------------------------------------------
(* Uploads *)

AnyLineages(f) == TRUE                                                \* mutant
Inherits(f) == Admissible(f)

\* A version becomes visible with all its nodes.
Ingest ==
    /\ Len(versions) < MaxVersions
    /\ \E f \in Contents : Inherits(f) /\ versions' = Append(versions, f)
    /\ UNCHANGED <<selections, generations, handler, report>>

--------------------------------------------------------------------------------
(* POST /selections *)

NodeRows == {n \in NodeId : n[1] \in DOMAIN versions /\ n[2] \in DOMAIN versions[n[1]]}

MissingAnywhere(v, ids) == {n \in ids : n \notin NodeRows}            \* mutant
Missing(v, ids) == {n \in ids : n \notin NodeRows \/ n[1] # v}

\* A request with missing nodes is answered 422.
CreateSelection(s) ==
    /\ selections[s] = None
    /\ \E v \in DOMAIN versions, ids \in (SUBSET NodeRows) \ {{}} :
          /\ Missing(v, ids) = {}
          /\ selections' = [selections EXCEPT ![s] = [version |-> v, nodes |-> ids]]
    /\ UNCHANGED <<versions, generations, handler, report>>

--------------------------------------------------------------------------------
(* POST /generations *)

Answer(g, status) ==
    handler' = [handler EXCEPT ![g].pc = "done", ![g].result = "none",
                               ![g].answer = status]

SelectionMissing(g) ==
    /\ handler[g].pc = "idle" /\ \E s \in Selections : selections[s] = None
    /\ Answer(g, 404)
    /\ UNCHANGED <<rows, report>>

Fetched(s) == {n \in selections[s].nodes :
                 n \in NodeRows /\ n[1] = selections[s].version}

\* The pending row is committed before the NIM API is called.
CreateGeneration(g) ==
    /\ handler[g].pc = "idle"
    /\ \E s \in Selections :
          /\ selections[s] # None
          /\ IF Fetched(s) = {}
             THEN Answer(g, 404) /\ UNCHANGED generations
             ELSE /\ generations' = [generations EXCEPT ![g] =
                       [selection |-> s, status |-> "pending",
                        sources |-> [n \in Fetched(s) |-> versions[n[1]][n[2]]]]]
                  /\ handler' = [handler EXCEPT ![g].pc = "calling"]
    /\ UNCHANGED <<versions, selections, report>>

\* The pending row cannot be written: 500, and there is no row.
InsertFails(g) ==
    /\ handler[g].pc = "idle" /\ \E s \in Selections : selections[s] # None
    /\ Answer(g, 500)
    /\ UNCHANGED <<rows, report>>

NimReturns(g) ==
    /\ handler[g].pc = "calling"
    /\ \E r \in Outcome :
          handler' = [handler EXCEPT ![g].pc = "saving", ![g].result = r]
    /\ UNCHANGED <<rows, report>>

RawStatus(r) == r                                                     \* mutant
FinalStatus(r) == IF r = "output" THEN "completed" ELSE "failed"

\* The error branches raise without their commit.
SaveOutputOnly(g) ==                                                  \* mutant
    /\ handler[g].pc = "saving"
    /\ IF handler[g].result # "output" THEN UNCHANGED generations
       ELSE generations' = [generations EXCEPT ![g].status = "completed"]
    /\ handler' = [handler EXCEPT ![g].pc = "reply"]
    /\ UNCHANGED <<versions, selections, report>>

Save(g) ==
    /\ handler[g].pc = "saving"
    /\ generations' = [generations EXCEPT ![g].status = FinalStatus(handler[g].result)]
    /\ handler' = [handler EXCEPT ![g].pc = "reply"]
    /\ UNCHANGED <<versions, selections, report>>

\* The commit fails.  On the output path the catch-all branch commits a second
\* time, in a session that needs a rollback first; either way the answer is 500
\* and the row stays pending.
SaveFails(g) ==
    /\ handler[g].pc = "saving"
    /\ Answer(g, 500)
    /\ UNCHANGED <<rows, report>>

AnswerTo(r) == CASE r = "output" -> 201 [] r = "timeout" -> 504 [] OTHER -> 502

Reply(g) ==
    /\ handler[g].pc = "reply"
    /\ Answer(g, AnswerTo(handler[g].result))
    /\ UNCHANGED <<rows, report>>

--------------------------------------------------------------------------------
(* GET /generations/{gen_id}/staleness *)

\* Any generation, whatever its status.
StartReport(q) ==
    /\ report[q].pc = "idle"
    /\ \E g \in Generations :
          /\ generations[g] # None
          /\ report' = [report EXCEPT
               ![q].pc = "started", ![q].generation = g,
               ![q].status = [n \in DOMAIN generations[g].sources |-> "todo"],
               ![q].first = Len(versions)]
    /\ UNCHANGED <<rows, handler>>

ReadLatest(q) ==
    /\ report[q].pc = "started"
    /\ report' = [report EXCEPT ![q].pc = "comparing", ![q].latest = Len(versions)]
    /\ UNCHANGED <<rows, handler>>

LatestNow(q) == Len(versions)                                         \* mutant
Baseline(q) == report[q].latest

StatusIn(v, lineage, hash) ==
    IF lineage \notin DOMAIN versions[v] THEN "removed"
    ELSE IF versions[v][lineage] # hash THEN "changed" ELSE "unchanged"

\* The original node is found whenever it is looked up: no row is ever deleted.
CompareNode(q) ==
    /\ report[q].pc = "comparing"
    /\ \E n \in DOMAIN report[q].status :
          LET found == StatusIn(Baseline(q), n[2],
                                generations[report[q].generation].sources[n])
          IN  /\ report[q].status[n] = "todo"
              /\ report' = [report EXCEPT
                   ![q].status = [@ EXCEPT ![n] = found],
                   ![q].stale = @ \/ found # "unchanged"]
    /\ UNCHANGED <<rows, handler>>

FinishReport(q) ==
    /\ report[q].pc = "comparing"
    /\ \A n \in DOMAIN report[q].status : report[q].status[n] # "todo"
    /\ report' = [report EXCEPT ![q].pc = "done", ![q].last = Len(versions)]
    /\ UNCHANGED <<rows, handler>>

--------------------------------------------------------------------------------
(* GET /nodes/{node_id}/diff and GET /nodes/{node_id}/generations.  Both only *)
(* read; the diff's rows come in the order of random version ids: a set.      *)

HistoryToItself(n) ==                                                 \* mutant
    {<<v, versions[v][n[2]]>> : v \in {u \in 1..n[1] : n[2] \in DOMAIN versions[u]}}
History(n) ==
    {<<v, versions[v][n[2]]>> : v \in {u \in DOMAIN versions : n[2] \in DOMAIN versions[u]}}

GenerationsOf(n) ==
    {g \in Generations : generations[g] # None /\ n \in DOMAIN generations[g].sources}

--------------------------------------------------------------------------------

\* The server process dies; what is committed stays.
Crash ==
    /\ handler' = [g \in Generations |->
         IF handler[g].pc \in {"idle", "done"} THEN handler[g]
         ELSE [handler[g] EXCEPT !.pc = "died"]]
    /\ report' = [q \in Reports |->
         IF report[q].pc \in {"idle", "done"} THEN report[q]
         ELSE [report[q] EXCEPT !.pc = "died"]]
    /\ UNCHANGED rows

GenerationStep(g) ==
    \/ SelectionMissing(g) \/ CreateGeneration(g) \/ InsertFails(g)
    \/ NimReturns(g) \/ Save(g) \/ SaveFails(g) \/ Reply(g)

ReportStep(q) ==
    StartReport(q) \/ ReadLatest(q) \/ CompareNode(q) \/ FinishReport(q)

QaNext ==
    \/ Ingest
    \/ \E s \in Selections : CreateSelection(s)
    \/ \E g \in Generations : GenerationStep(g)
    \/ \E q \in Reports : ReportStep(q)
    \/ Crash

QaSpec == QaInit /\ [][QaNext]_vars

--------------------------------------------------------------------------------
(* Properties *)

\* The rows and the requests have their types.
TypeOK ==
    /\ versions \in Seq(Contents) /\ Len(versions) <= MaxVersions
    /\ selections \in [Selections -> SelectionRow \cup {None}]
    /\ generations \in [Generations -> GenerationRow \cup {None}]
    /\ handler \in [Generations -> Handler]
    /\ report \in [Reports -> Report]

\* A generation is about exactly the nodes its selection names, with the hashes
\* they had in the pinned version, however many versions follow.
SourcesPinned ==
    \A g \in Generations : generations[g] # None =>
        LET row == generations[g]
            sel == selections[row.selection]
        IN  /\ sel # None /\ DOMAIN row.sources = sel.nodes
            /\ \A n \in sel.nodes : /\ n[1] = sel.version
                                    /\ row.sources[n] = versions[n[1]][n[2]]

\* The client's answer and the row agree, and a row is still pending only while
\* its handler runs, or where the process died or the outcome was not saved.
AnswerMatchesRow ==
    \A g \in Generations :
        /\ handler[g].answer = 201 => generations[g].status = "completed"
        /\ handler[g].answer \in {502, 504} => generations[g].status = "failed"
        /\ generations[g] # None /\ generations[g].status = "pending" =>
              \/ handler[g].pc \in {"calling", "saving", "died"}
              \/ handler[g].answer = 500

\* A report compares every node with one and the same version, which was the
\* latest at some moment between the request and its answer.
ReportOfOneVersion ==
    \A q \in Reports : report[q].pc = "done" =>
        LET sources == generations[report[q].generation].sources
        IN  /\ \E v \in report[q].first..report[q].last :
                  report[q].status = [n \in DOMAIN sources |-> StatusIn(v, n[2], sources[n])]
            /\ report[q].stale = (\E n \in DOMAIN sources : report[q].status[n] # "unchanged")

\* A node that one report calls removed is removed in every report asked for
\* after that answer.
RemovedStaysRemoved ==
    \A p, q \in Reports :
        (/\ report[p].pc = "done" /\ report[q].pc = "done"
         /\ report[p].generation = report[q].generation
         /\ report[p].last <= report[q].first)
        => \A n \in DOMAIN report[p].status :
              report[p].status[n] = "removed" => report[q].status[n] = "removed"

\* The routes tell one story: what a report says of a node can be read off the
\* node's diff, now and after any later upload (a removed node has no row from
\* the compared version on), and the node's generations name the report's.
RoutesAgree ==
    \A q \in Reports : report[q].pc = "done" =>
        LET g == report[q].generation
            from == report[q].latest
        IN  \A n \in DOMAIN report[q].status :
                LET then == {row \in History(n) : row[1] = from}
                IN  /\ report[q].status[n] = "unchanged"
                           <=> then = {<<from, generations[g].sources[n]>>}
                    /\ report[q].status[n] = "removed"
                           <=> \A row \in History(n) : row[1] < from
                    /\ g \in GenerationsOf(n)
================================================================================
