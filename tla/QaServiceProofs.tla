---------------------------- MODULE QaServiceProofs ----------------------------
(***************************************************************************)
(* For any lineages, requests and number of versions: what the routes      *)
(* answer agrees with the stored rows.  The invariant says that a          *)
(* selection names nodes of its version, that a generation's row and its   *)
(* handler are in step, and what a report has found out so far; that no    *)
(* lineage comes back (Contiguous) is what relates reports of different    *)
(* versions.                                                               *)
(***************************************************************************)
EXTENDS QaService, TLAPS

PCs == {"idle", "calling", "saving", "reply", "done", "died"}
Codes == {0, 201, 404, 500, 502, 504}
ReportPCs == {"idle", "started", "comparing", "done", "died"}

\* A lineage that a version has lost does not come back.
Contiguous ==
    \A u, v, w \in DOMAIN versions :
      u <= v /\ v <= w => DOMAIN versions[u] \cap DOMAIN versions[w] \subseteq DOMAIN versions[v]

\* A selection names stored nodes of its version.
SelectionsInv ==
    \A s \in Selections : selections[s] # None =>
      /\ selections[s].nodes # {} /\ selections[s].nodes \subseteq NodeRows
      /\ \A n \in selections[s].nodes : n[1] = selections[s].version

\* A handler and its row are in step.
HandlersInv ==
    \A g \in Generations :
      /\ handler[g].pc = "idle" => generations[g] = None
      /\ handler[g].pc \in {"calling", "saving"} =>
           generations[g] # None /\ generations[g].status = "pending"
      /\ handler[g].pc = "saving" => handler[g].result \in Outcome
      /\ handler[g].pc = "reply" =>
           /\ generations[g] # None /\ handler[g].result \in Outcome
           /\ generations[g].status = FinalStatus(handler[g].result)
      /\ handler[g].pc # "done" => handler[g].answer = 0

\* What a report has found out of the nodes is so in the version it compares.
Judged(q) ==
    LET sources == generations[report[q].generation].sources
        status == report[q].status
    IN  /\ report[q].latest \in DOMAIN versions
        /\ report[q].first <= report[q].latest
        /\ \A n \in DOMAIN status :
             status[n] \in {"todo", StatusIn(report[q].latest, n[2], sources[n])}
        /\ report[q].stale <=> \E n \in DOMAIN status : status[n] \notin {"todo", "unchanged"}

\* A report is about a generation's nodes, which were stored when it was asked for.
Founded(q) ==
    /\ report[q].generation \in Generations /\ generations[report[q].generation] # None
    /\ DOMAIN report[q].status = DOMAIN generations[report[q].generation].sources
    /\ report[q].first <= Len(versions)
    /\ \A n \in DOMAIN report[q].status : n[1] <= report[q].first

Untouched(q) ==
    (\A n \in DOMAIN report[q].status : report[q].status[n] = "todo") /\ ~report[q].stale

Finished(q) ==
    /\ \A n \in DOMAIN report[q].status : report[q].status[n] # "todo"
    /\ report[q].latest <= report[q].last /\ report[q].last <= Len(versions)

ReportsInv ==
    \A q \in Reports :
      /\ report[q].pc = "idle" => ~report[q].stale
      /\ report[q].pc \in {"started", "comparing", "done"} => Founded(q)
      /\ report[q].pc = "started" => Untouched(q)
      /\ report[q].pc \in {"comparing", "done"} => Judged(q)
      /\ report[q].pc = "done" => Finished(q)

IInv ==
    /\ TypeOK /\ Contiguous /\ SelectionsInv /\ SourcesPinned
    /\ HandlersInv /\ AnswerMatchesRow /\ ReportsInv

--------------------------------------------------------------------------------
(* The fields of the rows and the requests, one at a time *)

LEMMA HandlerFields ==
    ASSUME NEW h \in Handler
    PROVE  h.pc \in PCs /\ h.result \in Outcome \cup {"none"}
BY DEF Handler, PCs

LEMMA HandlerUpdates ==
    ASSUME NEW h \in Handler
    PROVE  /\ \A c \in PCs : [h EXCEPT !.pc = c] \in Handler
           /\ \A r \in Outcome \cup {"none"} : [h EXCEPT !.result = r] \in Handler
           /\ \A a \in Codes : [h EXCEPT !.answer = a] \in Handler
BY DEF Handler, PCs, Codes

LEMMA ReportFields ==
    ASSUME NEW r \in Report
    PROVE  /\ r.pc \in ReportPCs /\ r.generation \in Generations \cup {None}
           /\ r.latest \in 0..MaxVersions /\ r.status \in Statuses
           /\ r.stale \in BOOLEAN /\ r.first \in 0..MaxVersions
           /\ r.last \in 0..MaxVersions
BY DEF Report, ReportPCs

LEMMA ReportUpdates ==
    ASSUME NEW r \in Report
    PROVE  /\ \A c \in ReportPCs : [r EXCEPT !.pc = c] \in Report
           /\ \A g \in Generations : [r EXCEPT !.generation = g] \in Report
           /\ \A v \in 0..MaxVersions : [r EXCEPT !.latest = v] \in Report
           /\ \A s \in Statuses : [r EXCEPT !.status = s] \in Report
           /\ \A b \in BOOLEAN : [r EXCEPT !.stale = b] \in Report
           /\ \A v \in 0..MaxVersions : [r EXCEPT !.first = v] \in Report
           /\ \A v \in 0..MaxVersions : [r EXCEPT !.last = v] \in Report
BY DEF Report, ReportPCs

LEMMA GenerationFields ==
    ASSUME NEW r \in GenerationRow
    PROVE  /\ r.selection \in Selections /\ r.sources \in Sources
           /\ r.status \in {"pending", "completed", "failed"}
BY DEF GenerationRow

LEMMA SelectionFields ==
    ASSUME NEW r \in SelectionRow
    PROVE  r.version \in 1..MaxVersions /\ r.nodes \in SUBSET NodeId
BY DEF SelectionRow

\* A stored node has a hash.
LEMMA StoredHash ==
    ASSUME TypeOK, NEW n \in NodeRows
    PROVE  versions[n[1]][n[2]] \in Hashes
<1>1. versions[n[1]] \in Contents
    BY DEF TypeOK, NodeRows
<1>2. PICK S \in SUBSET Lineages : versions[n[1]] \in [S -> Hashes]
    BY <1>1 DEF Contents
<1> QED BY <1>2 DEF NodeRows

--------------------------------------------------------------------------------
(* Types *)

LEMMA TypeInit == ASSUME QaInit PROVE TypeOK
<1> USE DEF QaInit, Init
<1>1. versions \in Seq(Contents) /\ Len(versions) <= MaxVersions
    BY QaAssumption
<1>2. handler \in [Generations -> Handler]
    BY DEF Handler
<1>3. report \in [Reports -> Report]
  <2>1. <<>> \in Statuses
    <3>1. <<>> \in [{} -> NodeStatus \cup {"todo"}]
        OBVIOUS
    <3> QED BY <3>1 DEF Statuses
  <2> QED BY <2>1, QaAssumption DEF Report
<1> QED BY <1>1, <1>2, <1>3 DEF TypeOK

LEMMA Answered ==
    ASSUME NEW h \in Handler
    PROVE  \A status \in Codes :
             [h EXCEPT !.pc = "done", !.result = "none", !.answer = status] \in Handler
<1>1. [h EXCEPT !.pc = "done"] \in Handler
    BY HandlerUpdates DEF PCs
<1>2. [h EXCEPT !.pc = "done", !.result = "none"] \in Handler
    BY <1>1, HandlerUpdates
<1> QED BY <1>2, HandlerUpdates

LEMMA AnswerType ==
    ASSUME TypeOK, NEW g \in Generations, NEW status \in Codes,
           Answer(g, status)
    PROVE  handler' \in [Generations -> Handler]
<1>1. [handler[g] EXCEPT !.pc = "done", !.result = "none", !.answer = status] \in Handler
    BY Answered DEF TypeOK
<1> QED BY <1>1 DEF Answer, TypeOK

\* The row of a new generation.
LEMMA CreatedRow ==
    ASSUME TypeOK, NEW s \in Selections
    PROVE  [selection |-> s, status |-> "pending",
            sources |-> [n \in Fetched(s) |-> versions[n[1]][n[2]]]] \in GenerationRow
<1> DEFINE hashes == [n \in Fetched(s) |-> versions[n[1]][n[2]]]
<1>1. \A n \in Fetched(s) : n \in NodeId /\ versions[n[1]][n[2]] \in Hashes
    BY StoredHash DEF Fetched, NodeRows
<1>2. hashes \in Sources
    BY <1>1 DEF Sources
<1> HIDE DEF hashes
<1>3. [selection |-> s, status |-> "pending", sources |-> hashes] \in GenerationRow
    BY <1>2 DEF GenerationRow
<1> QED BY <1>3 DEF hashes

LEMMA TypeStep == ASSUME TypeOK, HandlersInv, [QaNext]_vars PROVE TypeOK'
<1> USE DEF rows
<1>1. CASE Ingest
  <2>1. PICK f \in Contents : Len(versions) < MaxVersions /\ versions' = Append(versions, f)
      BY <1>1 DEF Ingest
  <2>2. versions' \in Seq(Contents) /\ Len(versions') <= MaxVersions
      BY <2>1, QaAssumption DEF TypeOK
  <2> QED BY <1>1, <2>2 DEF Ingest, TypeOK
<1>2. ASSUME NEW s \in Selections, CreateSelection(s) PROVE TypeOK'
  <2>1. PICK v \in DOMAIN versions, ids \in SUBSET NodeRows :
            selections' = [selections EXCEPT ![s] = [version |-> v, nodes |-> ids]]
      BY <1>2 DEF CreateSelection
  <2>2. [version |-> v, nodes |-> ids] \in SelectionRow
      BY QaAssumption DEF SelectionRow, NodeRows, TypeOK
  <2> QED BY <1>2, <2>1, <2>2 DEF CreateSelection, TypeOK
<1>3. ASSUME NEW g \in Generations, SelectionMissing(g) \/ InsertFails(g) \/ SaveFails(g)
      PROVE  TypeOK'
    BY <1>3, AnswerType DEF Codes, SelectionMissing, InsertFails, SaveFails, TypeOK
<1>4. ASSUME NEW g \in Generations, CreateGeneration(g) PROVE TypeOK'
  <2>1. PICK s \in Selections :
          /\ selections[s] # None
          /\ IF Fetched(s) = {}
             THEN Answer(g, 404) /\ UNCHANGED generations
             ELSE /\ generations' = [generations EXCEPT ![g] =
                       [selection |-> s, status |-> "pending",
                        sources |-> [n \in Fetched(s) |-> versions[n[1]][n[2]]]]]
                  /\ handler' = [handler EXCEPT ![g].pc = "calling"]
      BY <1>4 DEF CreateGeneration
  <2>2. CASE Fetched(s) = {}
      BY <1>4, <2>1, <2>2, AnswerType DEF Codes, CreateGeneration, TypeOK
  <2>3. CASE Fetched(s) # {}
    <3> DEFINE row == [selection |-> s, status |-> "pending",
                       sources |-> [n \in Fetched(s) |-> versions[n[1]][n[2]]]]
    <3>3. row \in GenerationRow
        BY CreatedRow
    <3>4. generations' \in [Generations -> GenerationRow \cup {None}]
      <4> HIDE DEF row
      <4>1. generations' = [generations EXCEPT ![g] = row]
          BY <2>1, <2>3 DEF row
      <4> QED BY <3>3, <4>1 DEF TypeOK
    <3>5. [handler[g] EXCEPT !.pc = "calling"] \in Handler
        BY HandlerUpdates DEF TypeOK, PCs
    <3>6. handler' \in [Generations -> Handler]
        BY <2>1, <2>3, <3>5 DEF TypeOK
    <3> QED BY <1>4, <3>4, <3>6 DEF CreateGeneration, TypeOK
  <2> QED BY <2>2, <2>3
<1>5. ASSUME NEW g \in Generations, NimReturns(g) PROVE TypeOK'
  <2>1. PICK r \in Outcome :
            handler' = [handler EXCEPT ![g].pc = "saving", ![g].result = r]
      BY <1>5 DEF NimReturns
  <2>2. [handler[g] EXCEPT !.pc = "saving"] \in Handler
      BY HandlerUpdates DEF TypeOK, PCs
  <2>3. [handler[g] EXCEPT !.pc = "saving", !.result = r] \in Handler
      BY <2>2, HandlerUpdates
  <2> QED BY <1>5, <2>1, <2>3 DEF NimReturns, TypeOK
<1>6. ASSUME NEW g \in Generations, Save(g) PROVE TypeOK'
  <2>1. generations[g] \in GenerationRow
      BY <1>6 DEF Save, HandlersInv, TypeOK
  <2>2. [handler[g] EXCEPT !.pc = "reply"] \in Handler
      BY HandlerUpdates DEF TypeOK, PCs
  <2>3. [generations[g] EXCEPT !.status = FinalStatus(handler[g].result)] \in GenerationRow
      BY <2>1 DEF GenerationRow, FinalStatus
  <2> QED BY <1>6, <2>2, <2>3 DEF Save, TypeOK
<1>7. ASSUME NEW g \in Generations, Reply(g) PROVE TypeOK'
  <2>1. AnswerTo(handler[g].result) \in Codes
      BY DEF AnswerTo, Codes
  <2> QED BY <1>7, <2>1, AnswerType DEF Reply, TypeOK
<1>8. ASSUME NEW q \in Reports, StartReport(q) PROVE TypeOK'
  <2>1. PICK g \in Generations :
          /\ generations[g] # None
          /\ report' = [report EXCEPT
               ![q].pc = "started", ![q].generation = g,
               ![q].status = [n \in DOMAIN generations[g].sources |-> "todo"],
               ![q].first = Len(versions)]
      BY <1>8 DEF StartReport
  <2> DEFINE todo == [n \in DOMAIN generations[g].sources |-> "todo"]
  <2>2. generations[g].sources \in Sources
      BY <2>1, GenerationFields DEF TypeOK
  <2>3. todo \in Statuses
      BY <2>2 DEF Sources, Statuses
  <2>4. Len(versions) \in 0..MaxVersions
      BY QaAssumption DEF TypeOK
  <2> HIDE DEF todo
  <2>5. [report[q] EXCEPT !.pc = "started"] \in Report
      BY ReportUpdates DEF TypeOK, ReportPCs
  <2>6. [report[q] EXCEPT !.pc = "started", !.generation = g] \in Report
      BY <2>5, ReportUpdates
  <2>7. [report[q] EXCEPT !.pc = "started", !.generation = g, !.status = todo] \in Report
      BY <2>3, <2>6, ReportUpdates
  <2>8. [report[q] EXCEPT !.pc = "started", !.generation = g, !.status = todo,
                          !.first = Len(versions)] \in Report
      BY <2>4, <2>7, ReportUpdates
  <2>9. report' = [report EXCEPT ![q].pc = "started", ![q].generation = g,
                                 ![q].status = todo, ![q].first = Len(versions)]
      BY <2>1 DEF todo
  <2> QED BY <1>8, <2>8, <2>9 DEF StartReport, TypeOK
<1>9. ASSUME NEW q \in Reports, ReadLatest(q) PROVE TypeOK'
  <2>1. Len(versions) \in 0..MaxVersions
      BY QaAssumption DEF TypeOK
  <2>2. [report[q] EXCEPT !.pc = "comparing"] \in Report
      BY ReportUpdates DEF TypeOK, ReportPCs
  <2>3. [report[q] EXCEPT !.pc = "comparing", !.latest = Len(versions)] \in Report
      BY <2>1, <2>2, ReportUpdates
  <2> QED BY <1>9, <2>3 DEF ReadLatest, TypeOK
<1>10. ASSUME NEW q \in Reports, CompareNode(q) PROVE TypeOK'
  <2>1. PICK n \in DOMAIN report[q].status, found \in NodeStatus :
          report' = [report EXCEPT ![q].status = [@ EXCEPT ![n] = found],
                                   ![q].stale = @ \/ found # "unchanged"]
      BY <1>10 DEF CompareNode, StatusIn, NodeStatus
  <2> DEFINE status == [report[q].status EXCEPT ![n] = found]
             stale == report[q].stale \/ found # "unchanged"
  <2>2. report[q] \in Report /\ report[q].status \in Statuses /\ report[q].stale \in BOOLEAN
      BY ReportFields DEF TypeOK
  <2>3. status \in Statuses
      BY <2>2 DEF Statuses
  <2>4. stale \in BOOLEAN
      BY <2>2
  <2>5. report' = [report EXCEPT ![q].status = status, ![q].stale = stale]
      BY <2>1
  <2> HIDE DEF status, stale
  <2>6. [report[q] EXCEPT !.status = status] \in Report
      BY <2>2, <2>3, ReportUpdates
  <2>7. [report[q] EXCEPT !.status = status, !.stale = stale] \in Report
      BY <2>4, <2>6, ReportUpdates
  <2> QED BY <1>10, <2>5, <2>7 DEF CompareNode, TypeOK
<1>11. ASSUME NEW q \in Reports, FinishReport(q) PROVE TypeOK'
  <2>1. Len(versions) \in 0..MaxVersions
      BY QaAssumption DEF TypeOK
  <2>2. [report[q] EXCEPT !.pc = "done"] \in Report
      BY ReportUpdates DEF TypeOK, ReportPCs
  <2>3. [report[q] EXCEPT !.pc = "done", !.last = Len(versions)] \in Report
      BY <2>1, <2>2, ReportUpdates
  <2> QED BY <1>11, <2>3 DEF FinishReport, TypeOK
<1>12. CASE Crash
  <2>1. \A g \in Generations : [handler[g] EXCEPT !.pc = "died"] \in Handler
      BY HandlerUpdates DEF TypeOK, PCs
  <2>2. \A q \in Reports : [report[q] EXCEPT !.pc = "died"] \in Report
      BY ReportUpdates DEF TypeOK, ReportPCs
  <2>3. handler' \in [Generations -> Handler]
      BY <1>12, <2>1 DEF Crash, TypeOK
  <2>4. report' \in [Reports -> Report]
      BY <1>12, <2>2 DEF Crash, TypeOK
  <2> QED BY <1>12, <2>3, <2>4 DEF Crash, TypeOK
<1>13. CASE UNCHANGED vars
    BY <1>13 DEF vars, TypeOK
<1> QED
    BY <1>1, <1>2, <1>3, <1>4, <1>5, <1>6, <1>7, <1>8, <1>9, <1>10, <1>11, <1>12, <1>13
    DEF QaNext, GenerationStep, ReportStep

--------------------------------------------------------------------------------
(* The rows only grow *)

Kept ==
    /\ \A v \in DOMAIN versions : v \in DOMAIN versions' /\ versions'[v] = versions[v]
    /\ Len(versions) <= Len(versions')
    /\ \A s \in Selections : selections[s] # None => selections'[s] = selections[s]
    /\ \A g \in Generations : generations[g] # None =>
         /\ generations'[g] # None
         /\ generations'[g].selection = generations[g].selection
         /\ generations'[g].sources = generations[g].sources

LEMMA StatusUpdate ==
    ASSUME NEW r \in GenerationRow, NEW a \in {"pending", "completed", "failed"}
    PROVE  /\ [r EXCEPT !.status = a] # None
           /\ [r EXCEPT !.status = a].selection = r.selection
           /\ [r EXCEPT !.status = a].sources = r.sources
           /\ [r EXCEPT !.status = a].status = a
<1>1. [r EXCEPT !.status = a] \in GenerationRow
    BY DEF GenerationRow
<1>2. [r EXCEPT !.status = a] # None
    BY <1>1, QaAssumption
<1> QED BY <1>2 DEF GenerationRow

\* Versions and selections do not change, generations only in their status.
LEMMA RowsKept == ASSUME TypeOK, HandlersInv, [QaNext]_vars PROVE Kept
<1> USE DEF rows
<1>1. CASE Ingest
  <2>1. PICK f \in Contents : versions' = Append(versions, f)
      BY <1>1 DEF Ingest
  <2>2. /\ \A v \in DOMAIN versions : v \in DOMAIN versions' /\ versions'[v] = versions[v]
        /\ Len(versions) <= Len(versions')
      BY <2>1 DEF TypeOK
  <2> QED BY <1>1, <2>2 DEF Ingest, Kept
<1>2. CASE UNCHANGED versions
  <2>1. ASSUME NEW s \in Selections, CreateSelection(s) PROVE Kept
      BY <1>2, <2>1 DEF CreateSelection, Kept, TypeOK
  <2>2. ASSUME NEW g \in Generations, CreateGeneration(g) PROVE Kept
    <3>1. generations[g] = None
        BY <2>2 DEF CreateGeneration, HandlersInv
    <3>2. \A x \in Generations : x # g => generations'[x] = generations[x]
        BY <2>2 DEF CreateGeneration, TypeOK
    <3> QED BY <1>2, <2>2, <3>1, <3>2 DEF CreateGeneration, Kept, TypeOK
  <2>3. ASSUME NEW g \in Generations, Save(g) PROVE Kept
    <3>1. generations[g] \in GenerationRow
        BY <2>3 DEF Save, HandlersInv, TypeOK
    <3>2. /\ generations'[g] = [generations[g] EXCEPT !.status = FinalStatus(handler[g].result)]
          /\ \A x \in Generations : x # g => generations'[x] = generations[x]
        BY <2>3 DEF Save, TypeOK
    <3>3. FinalStatus(handler[g].result) \in {"pending", "completed", "failed"}
        BY DEF FinalStatus
    <3>4. /\ generations'[g] # None /\ generations'[g].sources = generations[g].sources
          /\ generations'[g].selection = generations[g].selection
        BY <3>1, <3>2, <3>3, StatusUpdate
    <3>5. UNCHANGED <<versions, selections>>
        BY <2>3 DEF Save
    <3>6. Len(versions) <= Len(versions)
        BY DEF TypeOK
    <3> QED BY <3>2, <3>4, <3>5, <3>6 DEF Kept
  <2>4. ASSUME NEW g \in Generations,
               SelectionMissing(g) \/ InsertFails(g) \/ NimReturns(g) \/ SaveFails(g) \/ Reply(g)
        PROVE  Kept
      BY <2>4 DEF SelectionMissing, InsertFails, NimReturns, SaveFails, Reply, Kept, TypeOK
  <2>5. ASSUME NEW q \in Reports, ReportStep(q) PROVE Kept
    <3>1. UNCHANGED rows
        BY <2>5 DEF ReportStep, StartReport, ReadLatest, CompareNode, FinishReport
    <3> QED BY <3>1 DEF Kept, TypeOK
  <2>6. CASE Crash \/ UNCHANGED vars
      BY <2>6 DEF Crash, vars, Kept, TypeOK
  <2>7. CASE Ingest
      BY <1>1, <2>7
  <2> QED BY <2>1, <2>2, <2>3, <2>4, <2>5, <2>6, <2>7 DEF QaNext, GenerationStep
<1>3. Ingest \/ UNCHANGED versions
    BY DEF QaNext, GenerationStep, ReportStep, CreateSelection, SelectionMissing,
           CreateGeneration, InsertFails, NimReturns, Save, SaveFails, Reply,
           StartReport, ReadLatest, CompareNode, FinishReport, Crash, vars
<1> QED BY <1>1, <1>2, <1>3

LEMMA NodesKept == ASSUME Kept PROVE NodeRows \subseteq NodeRows'
BY DEF Kept, NodeRows

--------------------------------------------------------------------------------
(* The rows *)

LEMMA ContiguousStep == ASSUME TypeOK, Contiguous, [QaNext]_vars PROVE Contiguous'
<1>1. CASE Ingest
  <2>1. PICK f \in Contents : Admissible(f) /\ versions' = Append(versions, f)
      BY <1>1 DEF Ingest, Inherits
  <2>2. /\ DOMAIN versions' = 1..(Len(versions) + 1)
        /\ \A v \in DOMAIN versions : versions'[v] = versions[v]
        /\ versions'[Len(versions) + 1] = f
        /\ DOMAIN versions = 1..Len(versions) /\ Len(versions) \in Nat
      BY <2>1 DEF TypeOK
  <2> SUFFICES ASSUME NEW u \in DOMAIN versions', NEW v \in DOMAIN versions',
                      NEW w \in DOMAIN versions', u <= v, v <= w,
                      NEW l \in DOMAIN versions'[u] \cap DOMAIN versions'[w]
               PROVE  l \in DOMAIN versions'[v]
      BY DEF Contiguous
  <2>3. CASE w \in DOMAIN versions
    <3>1. u \in DOMAIN versions /\ v \in DOMAIN versions
        BY <2>2, <2>3
    <3> QED BY <2>2, <2>3, <3>1 DEF Contiguous
  <2>4. CASE w = Len(versions) + 1 /\ v \in DOMAIN versions
    <3>1. u \in DOMAIN versions /\ Len(versions) \in DOMAIN versions /\ v <= Len(versions)
        BY <2>2, <2>4
    <3>2. l \in DOMAIN versions[u] /\ l \in DOMAIN f
        BY <2>2, <2>4, <3>1
    <3>3. l \in Used /\ versions # <<>>
        BY <3>1, <3>2 DEF Used
    <3>4. l \in DOMAIN versions[Len(versions)]
        BY <2>1, <3>2, <3>3 DEF Admissible
    <3>5. l \in DOMAIN versions[v]
        BY <2>4, <3>1, <3>2, <3>4 DEF Contiguous
    <3> QED BY <2>2, <2>4, <3>5
  <2>5. CASE w = Len(versions) + 1 /\ v = Len(versions) + 1
      BY <2>5
  <2> QED BY <2>2, <2>3, <2>4, <2>5
<1>2. CASE UNCHANGED versions
    BY <1>2 DEF Contiguous
<1> QED
    BY <1>1, <1>2
    DEF QaNext, GenerationStep, ReportStep, CreateSelection, SelectionMissing,
        CreateGeneration, InsertFails, NimReturns, Save, SaveFails, Reply,
        StartReport, ReadLatest, CompareNode, FinishReport, Crash, vars, rows

\* A row that was not there before is the one created.
LEMMA SelectionsStep ==
    ASSUME TypeOK, HandlersInv, SelectionsInv, [QaNext]_vars PROVE SelectionsInv'
<1> USE RowsKept DEF rows
<1> SUFFICES ASSUME NEW s \in Selections, selections'[s] # None
             PROVE  /\ selections'[s].nodes # {} /\ selections'[s].nodes \subseteq NodeRows'
                    /\ \A n \in selections'[s].nodes : n[1] = selections'[s].version
    BY DEF SelectionsInv
<1>1. CASE selections[s] # None
    BY <1>1, NodesKept DEF Kept, SelectionsInv
<1>2. CASE selections[s] = None
  <2>1. CreateSelection(s)
      BY <1>2 DEF QaNext, GenerationStep, ReportStep, Ingest, CreateSelection, SelectionMissing,
           CreateGeneration, InsertFails, NimReturns, Save, SaveFails, Reply,
           StartReport, ReadLatest, CompareNode, FinishReport, Crash, vars, TypeOK
  <2>2. PICK v \in DOMAIN versions, ids \in (SUBSET NodeRows) \ {{}} :
          /\ Missing(v, ids) = {}
          /\ selections' = [selections EXCEPT ![s] = [version |-> v, nodes |-> ids]]
      BY <2>1 DEF CreateSelection
  <2>3. selections'[s] = [version |-> v, nodes |-> ids]
      BY <2>2 DEF TypeOK
  <2>4. \A n \in ids : n[1] = v
      BY <2>2 DEF Missing
  <2>5. selections'[s].nodes = ids /\ selections'[s].version = v
      BY <2>3
  <2>6. ids # {} /\ ids \subseteq NodeRows'
    <3>1. Kept
        BY RowsKept
    <3> QED BY <2>2, <3>1, NodesKept
  <2> QED BY <2>4, <2>5, <2>6
<1> QED BY <1>1, <1>2

LEMMA SourcesStep ==
    ASSUME TypeOK, HandlersInv, SelectionsInv, SourcesPinned, [QaNext]_vars
    PROVE  SourcesPinned'
<1>0. Kept
    BY RowsKept
<1> SUFFICES ASSUME NEW g \in Generations, generations'[g] # None
             PROVE  LET row == generations'[g]
                        sel == selections'[row.selection]
                    IN  /\ sel # None /\ DOMAIN row.sources = sel.nodes
                        /\ \A n \in sel.nodes :
                             n[1] = sel.version /\ row.sources[n] = versions'[n[1]][n[2]]
    BY DEF SourcesPinned
<1>1. CASE generations[g] # None
  <2> DEFINE s == generations[g].selection
  <2>1. s \in Selections
      BY <1>1, GenerationFields DEF TypeOK
  <2>2. /\ generations'[g].selection = s /\ generations'[g].sources = generations[g].sources
        /\ selections[s] # None /\ selections'[s] = selections[s]
        /\ DOMAIN generations[g].sources = selections[s].nodes
      BY <1>0, <1>1, <2>1 DEF Kept, SourcesPinned
  <2>3. ASSUME NEW n \in selections[s].nodes
        PROVE  n[1] = selections[s].version /\ generations[g].sources[n] = versions'[n[1]][n[2]]
    <3>1. n[1] = selections[s].version /\ generations[g].sources[n] = versions[n[1]][n[2]]
        BY <1>1 DEF SourcesPinned
    <3>2. n[1] \in DOMAIN versions
        BY <2>1, <2>2 DEF SelectionsInv, NodeRows
    <3> QED BY <1>0, <3>1, <3>2 DEF Kept
  <2> QED BY <2>2, <2>3
<1>2. CASE generations[g] = None
  <2>1. CreateGeneration(g)
    <3>1. \A x \in Generations \ {g} :
            CreateGeneration(x) \/ Save(x) => generations'[g] = generations[g]
        BY DEF CreateGeneration, Save, TypeOK
    <3>2. ~Save(g)
        BY <1>2 DEF Save, HandlersInv
    <3> QED
        BY <1>2, <3>1, <3>2
        DEF QaNext, GenerationStep, ReportStep, Ingest, CreateSelection, SelectionMissing,
            InsertFails, NimReturns, SaveFails, Reply, StartReport, ReadLatest,
            CompareNode, FinishReport, Crash, vars, rows
  <2>2. PICK s \in Selections :
          /\ selections[s] # None
          /\ IF Fetched(s) = {}
             THEN Answer(g, 404) /\ UNCHANGED generations
             ELSE /\ generations' = [generations EXCEPT ![g] =
                       [selection |-> s, status |-> "pending",
                        sources |-> [n \in Fetched(s) |-> versions[n[1]][n[2]]]]]
                  /\ handler' = [handler EXCEPT ![g].pc = "calling"]
      BY <2>1 DEF CreateGeneration
  <2>3. /\ Fetched(s) = selections[s].nodes
        /\ \A n \in selections[s].nodes : n[1] = selections[s].version /\ n[1] \in DOMAIN versions
      BY <2>2 DEF Fetched, SelectionsInv, NodeRows
  <2> DEFINE hashes == [n \in Fetched(s) |-> versions[n[1]][n[2]]]
  <2>4. generations'[g] = [selection |-> s, status |-> "pending", sources |-> hashes]
      BY <1>2, <2>2 DEF TypeOK
  <2>5. DOMAIN hashes = selections[s].nodes
        /\ \A n \in selections[s].nodes : hashes[n] = versions[n[1]][n[2]]
      BY <2>3
  <2> HIDE DEF hashes
  <2>6. generations'[g].selection = s /\ generations'[g].sources = hashes
      BY <2>4
  <2>7. selections'[s] = selections[s] /\ \A v \in DOMAIN versions : versions'[v] = versions[v]
      BY <1>0, <2>2 DEF Kept
  <2> QED BY <2>2, <2>3, <2>5, <2>6, <2>7
<1> QED BY <1>1, <1>2

--------------------------------------------------------------------------------
(* The handlers *)

\* A step concerns one generation's handler and row, or the process dies.
LEMMA HandlerSteps ==
    ASSUME TypeOK, [QaNext]_vars, NEW g \in Generations
    PROVE  \/ handler'[g] = handler[g] /\ generations'[g] = generations[g]
           \/ GenerationStep(g)
           \/ Crash
<1>1. ASSUME NEW x \in Generations, GenerationStep(x), x # g
      PROVE  handler'[g] = handler[g] /\ generations'[g] = generations[g]
    BY <1>1 DEF GenerationStep, SelectionMissing, CreateGeneration, InsertFails, NimReturns,
                Save, SaveFails, Reply, Answer, TypeOK, rows
<1>2. CASE Ingest \/ (\E s \in Selections : CreateSelection(s))
             \/ (\E q \in Reports : ReportStep(q)) \/ UNCHANGED vars
    BY <1>2 DEF Ingest, CreateSelection, ReportStep, StartReport, ReadLatest, CompareNode,
                FinishReport, vars, rows
<1> QED BY <1>1, <1>2 DEF QaNext

LEMMA HandlersStep ==
    ASSUME TypeOK, HandlersInv, AnswerMatchesRow, [QaNext]_vars
    PROVE  HandlersInv' /\ AnswerMatchesRow'
<1> DEFINE h(g) == handler'[g]
           row(g) == generations'[g]
           InStep(g) ==
             /\ h(g).pc = "idle" => row(g) = None
             /\ h(g).pc \in {"calling", "saving"} => row(g) # None /\ row(g).status = "pending"
             /\ h(g).pc = "saving" => h(g).result \in Outcome
             /\ h(g).pc = "reply" =>
                  /\ row(g) # None /\ h(g).result \in Outcome
                  /\ row(g).status = FinalStatus(h(g).result)
             /\ h(g).pc # "done" => h(g).answer = 0
           Told(g) ==
             /\ h(g).answer = 201 => row(g).status = "completed"
             /\ h(g).answer \in {502, 504} => row(g).status = "failed"
             /\ row(g) # None /\ row(g).status = "pending" =>
                  h(g).pc \in {"calling", "saving", "died"} \/ h(g).answer = 500
<1> SUFFICES ASSUME NEW g \in Generations PROVE InStep(g) /\ Told(g)
    BY DEF HandlersInv, AnswerMatchesRow
<1>0. handler \in [Generations -> Handler] /\ generations \in [Generations -> GenerationRow \cup {None}]
    BY DEF TypeOK
<1>a. handler[g] \in Handler
    BY <1>0
<1>1. CASE handler'[g] = handler[g] /\ generations'[g] = generations[g]
    BY <1>1 DEF HandlersInv, AnswerMatchesRow
<1>2. CASE SelectionMissing(g) \/ InsertFails(g)
  <2>1. handler'[g].pc = "done" /\ handler'[g].answer \in {404, 500}
        /\ generations'[g] = None
      BY <1>0, <1>a, <1>2 DEF SelectionMissing, InsertFails, Answer, HandlersInv, Handler, rows
  <2> QED BY <2>1
<1>3. CASE CreateGeneration(g)
  <2>1. generations[g] = None /\ handler[g].pc = "idle" /\ handler[g].answer = 0
      BY <1>3 DEF CreateGeneration, HandlersInv
  <2>2. PICK s \in Selections :
          IF Fetched(s) = {}
          THEN Answer(g, 404) /\ UNCHANGED generations
          ELSE /\ generations' = [generations EXCEPT ![g] =
                    [selection |-> s, status |-> "pending",
                     sources |-> [n \in Fetched(s) |-> versions[n[1]][n[2]]]]]
               /\ handler' = [handler EXCEPT ![g].pc = "calling"]
      BY <1>3 DEF CreateGeneration
  <2>3. CASE Fetched(s) = {}
    <3>1. handler'[g].pc = "done" /\ handler'[g].answer = 404 /\ generations'[g] = None
        BY <1>0, <1>a, <2>1, <2>2, <2>3 DEF Answer, Handler
    <3> QED BY <3>1
  <2>4. CASE Fetched(s) # {}
    <3>1. handler'[g].pc = "calling" /\ handler'[g].answer = 0
        BY <1>0, <1>a, <2>1, <2>2, <2>4 DEF Handler
    <3> DEFINE new == [selection |-> s, status |-> "pending",
                       sources |-> [n \in Fetched(s) |-> versions[n[1]][n[2]]]]
    <3>2. new \in GenerationRow
        BY CreatedRow
    <3>3. generations'[g] = new
        BY <1>0, <2>2, <2>4
    <3>4. new.status = "pending"
        OBVIOUS
    <3> HIDE DEF new
    <3> QED BY <3>1, <3>2, <3>3, <3>4, QaAssumption
  <2> QED BY <2>3, <2>4
<1>4. CASE NimReturns(g)
  <2>1. /\ handler'[g].pc = "saving" /\ handler'[g].result \in Outcome /\ handler'[g].answer = 0
        /\ generations'[g] = generations[g]
      BY <1>0, <1>a, <1>4 DEF NimReturns, HandlersInv, Handler, rows
  <2> QED BY <1>4, <2>1 DEF NimReturns, HandlersInv
<1>5. CASE Save(g)
  <2>1. /\ handler[g].pc = "saving" /\ handler[g].result \in Outcome /\ handler[g].answer = 0
        /\ generations[g] \in GenerationRow
      BY <1>0, <1>5 DEF Save, HandlersInv
  <2>2. /\ handler'[g].pc = "reply" /\ handler'[g].result = handler[g].result
        /\ handler'[g].answer = 0
        /\ generations'[g] = [generations[g] EXCEPT !.status = FinalStatus(handler[g].result)]
      BY <1>0, <1>a, <1>5, <2>1 DEF Save, Handler
  <2>3. FinalStatus(handler[g].result) \in {"completed", "failed"}
      BY DEF FinalStatus
  <2>4. generations'[g] # None /\ generations'[g].status = FinalStatus(handler[g].result)
      BY <2>1, <2>2, <2>3, StatusUpdate
  <2> QED BY <2>1, <2>2, <2>3, <2>4
<1>6. CASE SaveFails(g)
  <2>1. handler'[g].pc = "done" /\ handler'[g].answer = 500
      BY <1>0, <1>a, <1>6 DEF SaveFails, Answer, Handler
  <2> QED BY <2>1
<1>7. CASE Reply(g)
  <2>1. /\ generations[g] # None /\ handler[g].result \in Outcome
        /\ generations[g].status = FinalStatus(handler[g].result)
        /\ generations'[g] = generations[g]
      BY <1>7 DEF Reply, HandlersInv, rows
  <2>2. handler'[g].pc = "done" /\ handler'[g].answer = AnswerTo(handler[g].result)
      BY <1>0, <1>a, <1>7 DEF Reply, Answer, Handler
  <2> QED BY <2>1, <2>2 DEF FinalStatus, AnswerTo, Outcome
<1>8. CASE Crash
  <2>1. generations'[g] = generations[g]
        /\ \/ handler'[g] = handler[g]
           \/ /\ handler[g].pc \notin {"idle", "done"}
              /\ handler'[g] = [handler[g] EXCEPT !.pc = "died"]
      BY <1>0, <1>8 DEF Crash, rows
  <2>2. CASE handler'[g] = handler[g]
      BY <1>1, <2>1, <2>2
  <2>3. CASE /\ handler[g].pc \notin {"idle", "done"}
             /\ handler'[g] = [handler[g] EXCEPT !.pc = "died"]
    <3>1. handler[g].answer = 0
        BY <2>3 DEF HandlersInv
    <3>2. handler'[g].pc = "died" /\ handler'[g].answer = 0
        BY <1>a, <2>3, <3>1 DEF Handler
    <3> QED BY <3>2
  <2> QED BY <2>1, <2>2, <2>3
<1> QED
    BY <1>1, <1>2, <1>3, <1>4, <1>5, <1>6, <1>7, <1>8, HandlerSteps DEF GenerationStep

--------------------------------------------------------------------------------
(* The reports *)

LEMMA ReportSteps ==
    ASSUME TypeOK, [QaNext]_vars, NEW q \in Reports
    PROVE  \/ report'[q] = report[q]
           \/ ReportStep(q) /\ UNCHANGED rows
           \/ report'[q].pc = "died"
<1>1. ASSUME NEW x \in Reports, ReportStep(x), x # q PROVE report'[q] = report[q]
    BY <1>1 DEF ReportStep, StartReport, ReadLatest, CompareNode, FinishReport, TypeOK
<1>2. ASSUME ReportStep(q) PROVE UNCHANGED rows
    BY <1>2 DEF ReportStep, StartReport, ReadLatest, CompareNode, FinishReport
<1>3. CASE Ingest \/ (\E s \in Selections : CreateSelection(s))
             \/ (\E g \in Generations : GenerationStep(g)) \/ UNCHANGED vars
    BY <1>3 DEF Ingest, CreateSelection, GenerationStep, SelectionMissing, CreateGeneration,
                InsertFails, NimReturns, Save, SaveFails, Reply, vars
<1>4. CASE Crash
  <2>1. report'[q] = report[q] \/ report'[q] = [report[q] EXCEPT !.pc = "died"]
      BY <1>4 DEF Crash
  <2>2. report[q] \in Report
      BY DEF TypeOK
  <2> QED BY <2>1, <2>2 DEF Report
<1> QED BY <1>1, <1>2, <1>3, <1>4 DEF QaNext

\* A generation's nodes are stored, and there is one.
LEMMA StoredSources ==
    ASSUME TypeOK, SelectionsInv, SourcesPinned, NEW g \in Generations, generations[g] # None
    PROVE  /\ DOMAIN generations[g].sources # {}
           /\ \A n \in DOMAIN generations[g].sources :
                n \in NodeRows /\ n[1] \in DOMAIN versions /\ n[2] \in DOMAIN versions[n[1]]
<1> DEFINE s == generations[g].selection
<1>1. s \in Selections
    BY GenerationFields DEF TypeOK
<1>2. selections[s] # None /\ DOMAIN generations[g].sources = selections[s].nodes
    BY DEF SourcesPinned
<1> QED BY <1>1, <1>2 DEF SelectionsInv, NodeRows

\* What is said of a report that stays stays true when rows are added.
LEMMA ReportKept ==
    ASSUME TypeOK, TypeOK', ReportsInv, Kept, NEW q \in Reports, report'[q] = report[q]
    PROVE  /\ report'[q].pc = "idle" => ~report'[q].stale
           /\ report'[q].pc \in {"started", "comparing", "done"} => Founded(q)'
           /\ report'[q].pc = "started" => Untouched(q)'
           /\ report'[q].pc \in {"comparing", "done"} => Judged(q)'
           /\ report'[q].pc = "done" => Finished(q)'
<1> DEFINE g == report[q].generation
<1>0. /\ Len(versions) \in Nat /\ Len(versions') \in Nat
      /\ report[q].first \in Nat /\ report[q].last \in Nat
    BY ReportFields DEF TypeOK
<1>1. report[q].pc \in {"started", "comparing", "done"} =>
        /\ Founded(q) /\ generations'[g] # None /\ generations'[g].sources = generations[g].sources
    BY DEF ReportsInv, Founded, Kept
<1>2. Len(versions) <= Len(versions')
    BY DEF Kept
<1>3. Founded(q) /\ generations'[g] # None /\ generations'[g].sources = generations[g].sources
        => Founded(q)'
    BY <1>0, <1>2 DEF Founded
<1>4. Untouched(q) => Untouched(q)'
    BY DEF Untouched
<1>5. ASSUME Judged(q), generations'[g].sources = generations[g].sources PROVE Judged(q)'
  <2>1. report[q].latest \in DOMAIN versions'
        /\ versions'[report[q].latest] = versions[report[q].latest]
      BY <1>5 DEF Judged, Kept
  <2> QED BY <1>5, <2>1 DEF Judged, StatusIn
<1>6. Finished(q) => Finished(q)'
    BY <1>0, <1>2 DEF Finished
<1> QED BY <1>1, <1>3, <1>4, <1>5, <1>6 DEF ReportsInv

LEMMA ReportsStep ==
    ASSUME TypeOK, TypeOK', SelectionsInv, SourcesPinned, HandlersInv, ReportsInv, [QaNext]_vars
    PROVE  ReportsInv'
<1> SUFFICES ASSUME NEW q \in Reports
             PROVE  /\ report'[q].pc = "idle" => ~report'[q].stale
                    /\ report'[q].pc \in {"started", "comparing", "done"} => Founded(q)'
                    /\ report'[q].pc = "started" => Untouched(q)'
                    /\ report'[q].pc \in {"comparing", "done"} => Judged(q)'
                    /\ report'[q].pc = "done" => Finished(q)'
    BY DEF ReportsInv
<1>0. report[q] \in Report /\ report \in [Reports -> Report]
    BY DEF TypeOK
<1>1. CASE report'[q] = report[q]
    BY <1>1, RowsKept, ReportKept
<1>2. CASE report'[q].pc = "died"
    BY <1>2
<1> DEFINE g == report[q].generation
           sources == generations[g].sources
<1>3. Len(versions) \in Nat /\ DOMAIN versions = 1..Len(versions) /\ report[q].first \in Nat
    BY <1>0, ReportFields DEF TypeOK
<1>4. CASE StartReport(q) /\ UNCHANGED rows
  <2>1. PICK x \in Generations :
          /\ generations[x] # None
          /\ report' = [report EXCEPT
               ![q].pc = "started", ![q].generation = x,
               ![q].status = [n \in DOMAIN generations[x].sources |-> "todo"],
               ![q].first = Len(versions)]
      BY <1>4 DEF StartReport
  <2> DEFINE todo == [n \in DOMAIN generations[x].sources |-> "todo"]
  <2>2. /\ report'[q].pc = "started" /\ report'[q].generation = x
        /\ report'[q].status = todo /\ report'[q].first = Len(versions)
        /\ report'[q].stale = report[q].stale
      BY <1>0, <2>1 DEF Report
  <2>3. ~report[q].stale
      BY <1>4 DEF StartReport, ReportsInv
  <2>4. \A n \in DOMAIN generations[x].sources : n[1] <= Len(versions)
      BY <1>3, <2>1, StoredSources
  <2>5. DOMAIN todo = DOMAIN generations[x].sources /\ \A n \in DOMAIN todo : todo[n] = "todo"
      OBVIOUS
  <2> HIDE DEF todo
  <2>6. Founded(q)'
    <3>1. UNCHANGED <<versions, generations>>
        BY <1>4 DEF rows
    <3>2. generations'[x] = generations[x] /\ versions' = versions
        BY <3>1
    <3>3. \A n \in DOMAIN todo : n[1] <= Len(versions)
        BY <2>4, <2>5
    <3>4. Len(versions) <= Len(versions)
        BY <1>3
    <3> QED BY <2>1, <2>2, <2>5, <3>2, <3>3, <3>4 DEF Founded
  <2>7. Untouched(q)'
      BY <2>2, <2>3, <2>5 DEF Untouched
  <2> QED BY <2>2, <2>6, <2>7
<1>5. CASE ReadLatest(q) /\ UNCHANGED rows
  <2>1. /\ report'[q].pc = "comparing" /\ report'[q].generation = g
        /\ report'[q].status = report[q].status /\ report'[q].first = report[q].first
        /\ report'[q].stale = report[q].stale /\ report'[q].latest = Len(versions)
      BY <1>0, <1>5 DEF ReadLatest, Report
  <2>2. Founded(q) /\ Untouched(q)
      BY <1>5 DEF ReadLatest, ReportsInv
  <2>3. Founded(q)'
      BY <1>5, <2>1, <2>2 DEF Founded, rows
  <2>4. Len(versions) \in DOMAIN versions
      BY <1>3, <2>2, StoredSources DEF Founded
  <2>5. Judged(q)'
      BY <1>5, <2>1, <2>2, <2>4 DEF Judged, Founded, Untouched, rows
  <2> QED BY <2>1, <2>3, <2>5
<1>6. CASE CompareNode(q) /\ UNCHANGED rows
  <2>1. PICK n \in DOMAIN report[q].status :
          /\ report[q].status[n] = "todo"
          /\ report' = [report EXCEPT
               ![q].status = [@ EXCEPT ![n] = StatusIn(Baseline(q), n[2], sources[n])],
               ![q].stale = @ \/ StatusIn(Baseline(q), n[2], sources[n]) # "unchanged"]
      BY <1>6 DEF CompareNode
  <2> DEFINE found == StatusIn(report[q].latest, n[2], sources[n])
  <2>2. /\ report'[q].pc = "comparing" /\ report'[q].generation = g
        /\ report'[q].status = [report[q].status EXCEPT ![n] = found]
        /\ report'[q].first = report[q].first /\ report'[q].latest = report[q].latest
        /\ report'[q].stale = (report[q].stale \/ found # "unchanged")
      BY <1>0, <1>6, <2>1 DEF CompareNode, Baseline, Report
  <2>3. Founded(q) /\ Judged(q)
      BY <1>6 DEF CompareNode, ReportsInv
  <2>4. /\ DOMAIN report'[q].status = DOMAIN report[q].status
        /\ report'[q].status[n] = found
        /\ \A m \in DOMAIN report[q].status : m # n => report'[q].status[m] = report[q].status[m]
    <3>1. PICK N \in SUBSET NodeId : report[q].status \in [N -> NodeStatus \cup {"todo"}]
        BY <1>0, ReportFields DEF Statuses
    <3> HIDE DEF found
    <3> QED BY <2>2, <3>1
  <2>5. Founded(q)'
      BY <1>6, <2>2, <2>3, <2>4 DEF Founded, rows
  <2>6. \A m \in DOMAIN report[q].status :
          report'[q].status[m] \in {"todo", StatusIn(report[q].latest, m[2], sources[m])}
      BY <2>3, <2>4 DEF Judged
  <2>7. found # "todo"
      BY DEF StatusIn
  <2>8. report'[q].stale <=>
          \E m \in DOMAIN report[q].status : report'[q].status[m] \notin {"todo", "unchanged"}
    <3> HIDE DEF found
    <3> QED BY <2>1, <2>2, <2>3, <2>4, <2>7 DEF Judged
  <2>9. Judged(q)'
    <3>1. versions' = versions /\ generations' = generations
        BY <1>6 DEF rows
    <3>2. generations'[report'[q].generation].sources = sources
        BY <2>2, <3>1
    <3>4. report'[q].latest \in DOMAIN versions' /\ report'[q].first <= report'[q].latest
        BY <2>2, <2>3, <3>1 DEF Judged
    <3>5. ASSUME NEW m \in DOMAIN report'[q].status
          PROVE  report'[q].status[m]
                   \in {"todo", StatusIn(report[q].latest, m[2], sources[m])'}
      <4>1. report'[q].status[m] \in {"todo", StatusIn(report[q].latest, m[2], sources[m])}
          BY <2>4, <2>6
      <4>2. StatusIn(report[q].latest, m[2], sources[m])' = StatusIn(report[q].latest, m[2], sources[m])
          BY <2>2, <3>1, <3>2 DEF StatusIn
      <4> QED BY <4>1, <4>2
    <3>6. report'[q].stale <=>
            \E m \in DOMAIN report'[q].status : report'[q].status[m] \notin {"todo", "unchanged"}
        BY <2>4, <2>8
    <3> QED BY <3>4, <3>5, <3>6 DEF Judged
  <2> QED BY <2>2, <2>5, <2>9
<1>7. CASE FinishReport(q) /\ UNCHANGED rows
  <2>1. /\ report'[q].pc = "done" /\ report'[q].generation = g
        /\ report'[q].status = report[q].status /\ report'[q].first = report[q].first
        /\ report'[q].stale = report[q].stale /\ report'[q].latest = report[q].latest
        /\ report'[q].last = Len(versions)
      BY <1>0, <1>7 DEF FinishReport, Report
  <2>2. /\ Founded(q) /\ Judged(q)
        /\ \A n \in DOMAIN report[q].status : report[q].status[n] # "todo"
      BY <1>7 DEF FinishReport, ReportsInv
  <2>3. Founded(q)' /\ Judged(q)'
      BY <1>7, <2>1, <2>2 DEF Founded, Judged, StatusIn, rows
  <2>4. Finished(q)'
      BY <1>3, <1>7, <2>1, <2>2 DEF Finished, Judged, rows
  <2> QED BY <2>1, <2>3, <2>4
<1> QED BY <1>1, <1>2, <1>4, <1>5, <1>6, <1>7, ReportSteps DEF ReportStep

--------------------------------------------------------------------------------
(* The inductive invariant *)

LEMMA IInvInit == ASSUME QaInit PROVE IInv
<1>1. DOMAIN versions = {}
    BY DEF QaInit, Init
<1>2. Contiguous
    BY <1>1 DEF Contiguous
<1>3. \A g \in Generations : generations[g] = None /\ handler[g].pc = "idle" /\ handler[g].answer = 0
    BY DEF QaInit
<1>4. SelectionsInv /\ SourcesPinned
    BY <1>3 DEF QaInit, SelectionsInv, SourcesPinned
<1>5. HandlersInv /\ AnswerMatchesRow
    BY <1>3 DEF HandlersInv, AnswerMatchesRow
<1>6. ReportsInv
    BY DEF QaInit, ReportsInv
<1> QED BY <1>2, <1>4, <1>5, <1>6, TypeInit DEF IInv

LEMMA IInvStep == ASSUME IInv, [QaNext]_vars PROVE IInv'
<1> USE DEF IInv
<1>1. TypeOK'
    BY TypeStep
<1>2. Contiguous' /\ SelectionsInv'
    BY ContiguousStep, SelectionsStep
<1>3. SourcesPinned'
    BY <1>1, SourcesStep
<1>4. HandlersInv' /\ AnswerMatchesRow'
    BY HandlersStep
<1>5. ReportsInv'
    BY <1>1, ReportsStep
<1> QED BY <1>1, <1>2, <1>3, <1>4, <1>5

\* Stored rows, running requests and what the reports have found stay in step
\* through every step of an upload, a request or a crash.
THEOREM InductiveInvariant == QaSpec => []IInv
<1>1. QaInit => IInv
    BY IInvInit
<1>2. IInv /\ [QaNext]_vars => IInv'
    BY IInvStep
<1> QED BY <1>1, <1>2, PTL DEF QaSpec

\* The rows of the tables and the variables of the routes have their types.
THEOREM TypeCorrect == QaSpec => []TypeOK
<1>1. IInv => TypeOK
    BY DEF IInv
<1> QED BY <1>1, InductiveInvariant, PTL

\* create_generation stores exactly its selection's nodes, with the hashes of the
\* pinned version, whatever is uploaded before, meanwhile and afterwards.
THEOREM PinnedSources == QaSpec => []SourcesPinned
<1>1. IInv => SourcesPinned
    BY DEF IInv
<1> QED BY <1>1, InductiveInvariant, PTL

\* create_generation answers what the row it committed says, and leaves a row
\* pending only where the process died or the outcome was not saved.
THEOREM AnswersMatchRows == QaSpec => []AnswerMatchesRow
<1>1. IInv => AnswerMatchesRow
    BY DEF IInv
<1> QED BY <1>1, InductiveInvariant, PTL

--------------------------------------------------------------------------------
(* What the reports say *)

\* An answered report holds, for each node, its status in the compared version.
LEMMA DoneReport ==
    ASSUME IInv, NEW q \in Reports, report[q].pc = "done"
    PROVE  LET sources == generations[report[q].generation].sources
               status == report[q].status
           IN  /\ Founded(q) /\ Judged(q) /\ Finished(q)
               /\ DOMAIN status = DOMAIN sources
               /\ \A n \in DOMAIN status :
                    /\ status[n] = StatusIn(report[q].latest, n[2], sources[n])
                    /\ n \in NodeRows /\ n[1] \in DOMAIN versions
                    /\ n[2] \in DOMAIN versions[n[1]]
                    /\ n[1] <= report[q].latest
<1> DEFINE g == report[q].generation
<1>1. Founded(q) /\ Judged(q) /\ Finished(q)
    BY DEF IInv, ReportsInv
<1>2. g \in Generations /\ generations[g] # None
      /\ DOMAIN report[q].status = DOMAIN generations[g].sources
    BY <1>1 DEF Founded
<1>3. \A n \in DOMAIN report[q].status :
        report[q].status[n] = StatusIn(report[q].latest, n[2], generations[g].sources[n])
    BY <1>1 DEF Judged, Finished
<1>4. \A n \in DOMAIN report[q].status :
        n \in NodeRows /\ n[1] \in DOMAIN versions /\ n[2] \in DOMAIN versions[n[1]]
    BY <1>2, StoredSources DEF IInv
<1>5. report[q].first \in Nat /\ report[q].latest \in Nat /\ DOMAIN versions \subseteq Nat
    BY ReportFields DEF IInv, TypeOK
<1>6. \A n \in DOMAIN report[q].status : n[1] <= report[q].latest
    BY <1>1, <1>4, <1>5 DEF Founded, Judged
<1> QED BY <1>1, <1>2, <1>3, <1>4, <1>6

\* get_staleness reads the latest version once: however the uploads fall between
\* its SELECTs, the report is the comparison with one version.
THEOREM ReportsOfOneVersion == QaSpec => []ReportOfOneVersion
<1>1. ASSUME IInv PROVE ReportOfOneVersion
  <2> SUFFICES ASSUME NEW q \in Reports, report[q].pc = "done"
               PROVE  LET sources == generations[report[q].generation].sources
                      IN  /\ \E v \in report[q].first..report[q].last :
                                report[q].status = [n \in DOMAIN sources |->
                                                      StatusIn(v, n[2], sources[n])]
                          /\ report[q].stale = (\E n \in DOMAIN sources :
                                                   report[q].status[n] # "unchanged")
      BY DEF ReportOfOneVersion
  <2> DEFINE sources == generations[report[q].generation].sources
             v == report[q].latest
             status == report[q].status
  <2>1. /\ Judged(q) /\ Finished(q) /\ DOMAIN status = DOMAIN sources
        /\ \A n \in DOMAIN status : status[n] = StatusIn(v, n[2], sources[n])
      BY <1>1, DoneReport
  <2>2. v \in report[q].first..report[q].last
    <3>1. report[q].first \in Nat /\ v \in Nat /\ report[q].last \in Nat
        BY <1>1, ReportFields DEF IInv, TypeOK
    <3> QED BY <2>1, <3>1 DEF Judged, Finished
  <2>3. PICK N \in SUBSET NodeId : status \in [N -> NodeStatus \cup {"todo"}]
    <3>1. status \in Statuses
        BY <1>1, ReportFields DEF IInv, TypeOK
    <3> QED BY <3>1 DEF Statuses
  <2>4. status = [n \in DOMAIN sources |-> StatusIn(v, n[2], sources[n])]
      BY <2>1, <2>3
  <2>5. report[q].stale \in BOOLEAN
      BY <1>1, ReportFields DEF IInv, TypeOK
  <2>6. report[q].stale <=> \E n \in DOMAIN sources : status[n] # "unchanged"
    <3>1. \A n \in DOMAIN status : status[n] # "todo"
        BY <2>1 DEF Finished
    <3> QED BY <2>1, <3>1 DEF Judged
  <2> QED BY <2>2, <2>4, <2>5, <2>6
<1> QED BY <1>1, InductiveInvariant, PTL

\* A node reported removed stays removed: no upload gives its lineage to a later
\* version, so the comparison with any of them ends the same way.
THEOREM RemovedForGood == QaSpec => []RemovedStaysRemoved
<1>1. ASSUME IInv PROVE RemovedStaysRemoved
  <2> SUFFICES ASSUME NEW p \in Reports, NEW q \in Reports,
                      report[p].pc = "done", report[q].pc = "done",
                      report[p].generation = report[q].generation,
                      report[p].last <= report[q].first,
                      NEW n \in DOMAIN report[p].status, report[p].status[n] = "removed"
               PROVE  report[q].status[n] = "removed"
      BY DEF RemovedStaysRemoved
  <2> DEFINE earlier == report[p].latest
             later == report[q].latest
             hash == generations[report[p].generation].sources[n]
  <2>1. /\ Judged(p) /\ Finished(p) /\ report[p].status[n] = StatusIn(earlier, n[2], hash)
        /\ n[1] \in DOMAIN versions /\ n[2] \in DOMAIN versions[n[1]] /\ n[1] <= earlier
      BY <1>1, DoneReport
  <2>2. /\ Judged(q) /\ n \in DOMAIN report[q].status
        /\ report[q].status[n] = StatusIn(later, n[2], hash)
      BY <1>1, DoneReport
  <2>3. n[2] \notin DOMAIN versions[earlier]
      BY <2>1 DEF StatusIn
  <2>4. earlier \in DOMAIN versions /\ later \in DOMAIN versions
      BY <2>1, <2>2 DEF Judged
  <2>5. earlier <= later
    <3>1. /\ earlier \in Nat /\ report[p].last \in Nat
          /\ report[q].first \in Nat /\ later \in Nat
        BY <1>1, ReportFields DEF IInv, TypeOK
    <3>2. earlier <= report[p].last /\ report[q].first <= later
        BY <2>1, <2>2 DEF Judged, Finished
    <3> QED BY <3>1, <3>2
  <2>6. n[2] \notin DOMAIN versions[later]
    <3>1. DOMAIN versions[n[1]] \cap DOMAIN versions[later] \subseteq DOMAIN versions[earlier]
        BY <1>1, <2>1, <2>4, <2>5 DEF IInv, Contiguous
    <3> QED BY <2>1, <2>3, <3>1
  <2> QED BY <2>2, <2>6 DEF StatusIn
<1> QED BY <1>1, InductiveInvariant, PTL

\* get_staleness, get_node_diff and get_node_generations never contradict one
\* another, in whatever order they are asked and whatever is uploaded in between.
THEOREM AgreeingRoutes == QaSpec => []RoutesAgree
<1>1. ASSUME IInv PROVE RoutesAgree
  <2> SUFFICES
        ASSUME NEW q \in Reports, report[q].pc = "done", NEW n \in DOMAIN report[q].status
        PROVE  LET g == report[q].generation
                   from == report[q].latest
                   then == {row \in History(n) : row[1] = from}
               IN  /\ report[q].status[n] = "unchanged"
                         <=> then = {<<from, generations[g].sources[n]>>}
                   /\ report[q].status[n] = "removed"
                         <=> \A row \in History(n) : row[1] < from
                   /\ g \in GenerationsOf(n)
      BY DEF RoutesAgree
  <2> DEFINE g == report[q].generation
             from == report[q].latest
             hash == generations[g].sources[n]
             l == n[2]
             then == {row \in History(n) : row[1] = from}
  <2>1. /\ Founded(q) /\ Judged(q) /\ report[q].status[n] = StatusIn(from, l, hash)
        /\ n \in DOMAIN generations[g].sources
        /\ n[1] \in DOMAIN versions /\ l \in DOMAIN versions[n[1]] /\ n[1] <= from
      BY <1>1, DoneReport
  <2>2. from \in DOMAIN versions /\ DOMAIN versions \subseteq Nat
      BY <1>1, <2>1 DEF Judged, IInv, TypeOK
  <2>3. \A r : r \in History(n) <=>
          \E v \in DOMAIN versions : l \in DOMAIN versions[v] /\ r = <<v, versions[v][l]>>
      BY DEF History
  <2>4. g \in GenerationsOf(n)
      BY <2>1 DEF Founded, GenerationsOf
  <2>5. CASE l \in DOMAIN versions[from]
    <3>1. <<from, versions[from][l]>> \in History(n)
        BY <2>2, <2>3, <2>5
    <3>2. then = {<<from, versions[from][l]>>}
        BY <2>3, <3>1
    <3>3. report[q].status[n] = "unchanged" <=> versions[from][l] = hash
        BY <2>1, <2>5 DEF StatusIn
    <3>4. then = {<<from, hash>>} <=> versions[from][l] = hash
      <4> HIDE DEF from, hash, then
      <4>1. \A a, b : <<from, a>> = <<from, b>> => a = b
          BY SMT
      <4>2. \A x, y : {x} = {y} => x = y
          BY Zenon
      <4> QED BY <3>2, <4>1, <4>2
    <3>5. report[q].status[n] # "removed"
        BY <2>1, <2>5 DEF StatusIn
    <3>6. ~(\A row \in History(n) : row[1] < from)
        BY <2>2, <3>1
    <3> QED BY <2>4, <3>3, <3>4, <3>5, <3>6
  <2>6. CASE l \notin DOMAIN versions[from]
    <3>1. report[q].status[n] = "removed"
        BY <2>1, <2>6 DEF StatusIn
    <3>2. then = {}
        BY <2>3, <2>6
    <3>3. ASSUME NEW row \in History(n) PROVE row[1] < from
      <4>1. PICK v \in DOMAIN versions : l \in DOMAIN versions[v] /\ row = <<v, versions[v][l]>>
          BY <2>3
      <4>2. ~(from <= v)
        <5>1. n[1] <= from /\ from <= v =>
                DOMAIN versions[n[1]] \cap DOMAIN versions[v] \subseteq DOMAIN versions[from]
            BY <1>1, <2>1, <2>2 DEF IInv, Contiguous
        <5> QED BY <2>1, <2>6, <4>1, <5>1
      <4>3. row[1] = v
          BY <4>1
      <4> QED BY <2>2, <4>2, <4>3
    <3> QED BY <2>4, <3>1, <3>2, <3>3
  <2> QED BY <2>5, <2>6
<1> QED BY <1>1, InductiveInvariant, PTL
================================================================================
