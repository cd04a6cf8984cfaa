------------------------------- MODULE EngineInit -------------------------------
(***************************************************************************)
(* get_engine and get_session (database.py): the first requests of a       *)
(* deployment create the schema in the SQLite file, with no lock around    *)
(* the two module globals.                                                 *)
(*                                                                         *)
(* Requests run in the threads of several processes, and their statements  *)
(* interleave anywhere.  create_all looks for every table first and then   *)
(* creates the missing ones, each with its indexes; pysqlite commits each  *)
(* CREATE on its own, so another connection sees half a schema.            *)
(***************************************************************************)
EXTENDS Naturals

CONSTANTS Processes,   \* processes that serve requests
          Requests,    \* requests, each in a thread of its own
          LastObject,  \* the schema's objects are 1 .. LastObject in creation order
          TableOf      \* the table of each object; a table's is itself

\* The last object is nodes_fts, which create_all knows nothing of.
Created == 1 .. (LastObject - 1)

ASSUME SchemaAssumption ==
    /\ LastObject \in Nat \ {0}
    /\ TableOf \in [Created -> Created]
    /\ \A o \in Created : TableOf[o] <= o /\ TableOf[TableOf[o]] = TableOf[o]
    /\ \A o, u \in Created : o <= u => TableOf[o] <= TableOf[u]

Objects == 1 .. LastObject
Tables == {o \in Created : TableOf[o] = o}

\* A table and its indexes, whose CREATE INDEX follow its CREATE TABLE.
OnlyTheTable(t) == {t}                                                \* mutant
FtsMapped(t) == {o \in Created : TableOf[o] = t} \cup {LastObject}     \* mutant
ObjectsOf(t) == {o \in Created : TableOf[o] = t}

VARIABLES objects,    \* what exists in the database file
          engine,     \* per process: _engine is set
          factory,    \* per process: _SessionLocal is set
          req,        \* the requests' progress and locals
          disturbed   \* history: a statement failed or a process died

vars == <<objects, engine, factory, req, disturbed>>

PC == {"idle", "session", "engine", "assign", "inspect", "create", "fts",
       "bind", "query", "done"}

\* toInspect and plan are create_all's tables still to look for and objects to
\* create; made says that this request ran all of get_engine's body; answer is
\* the outcome: a result, "no such table", "already exists", another error.
Request == [pc : PC, process : Processes, toInspect : SUBSET Tables,
            plan : SUBSET Created, made : BOOLEAN,
            answer : {"none", "ok", "missing", "exists", "error", "lost"}]

NewRequest(p) == [pc |-> "idle", process |-> p, toInspect |-> {}, plan |-> {},
                  made |-> FALSE, answer |-> "none"]

Init ==
    /\ objects = {} /\ disturbed = FALSE
    /\ engine = [p \in Processes |-> FALSE]
    /\ factory = [p \in Processes |-> FALSE]
    /\ req \in [Requests -> {NewRequest(p) : p \in Processes}]

--------------------------------------------------------------------------------
(* The steps of a request *)

At(r, pc) == req[r].pc = pc
Go(r, pc) == req' = [req EXCEPT ![r].pc = pc]
Answer(r, a) == req' = [req EXCEPT ![r].pc = "done", ![r].answer = a]

First(S) == CHOOSE o \in S : \A u \in S : o <= u

\* A route asks for a session.
Arrive(r) ==
    /\ At(r, "idle")
    /\ Go(r, "session")
    /\ UNCHANGED <<objects, engine, factory, disturbed>>

\* if _SessionLocal is None
CheckFactory(r) ==
    /\ At(r, "session")
    /\ Go(r, IF factory[req[r].process] THEN "query" ELSE "engine")
    /\ UNCHANGED <<objects, engine, factory, disturbed>>

\* if _engine is None
CheckEngine(r) ==
    /\ At(r, "engine")
    /\ Go(r, IF engine[req[r].process] THEN "bind" ELSE "assign")
    /\ UNCHANGED <<objects, engine, factory, disturbed>>

\* The global is set before anything is created.
Assign(r) ==
    /\ At(r, "assign")
    /\ engine' = [engine EXCEPT ![req[r].process] = TRUE]
    /\ req' = [req EXCEPT ![r].pc = "inspect", ![r].toInspect = Tables]
    /\ UNCHANGED <<objects, factory, disturbed>>

\* One has_table query of create_all: what it misses it will create.
FirstTableOnly(t) == t > 1 \/ t \in objects                           \* mutant
Found(t) == t \in objects

Inspect(r) ==
    LET t == First(req[r].toInspect) IN
      /\ At(r, "inspect") /\ req[r].toInspect # {}
      /\ req' = [req EXCEPT ![r].toInspect = @ \ {t},
                            ![r].plan = IF Found(t) THEN @ ELSE @ \cup ObjectsOf(t)]
      /\ UNCHANGED <<objects, engine, factory, disturbed>>

Inspected(r) ==
    /\ At(r, "inspect") /\ req[r].toInspect = {}
    /\ Go(r, "create")
    /\ UNCHANGED <<objects, engine, factory, disturbed>>

\* The next CREATE TABLE or CREATE INDEX, which another thread may have run.
Create(r) ==
    LET o == First(req[r].plan) IN
      /\ At(r, "create") /\ req[r].plan # {}
      /\ \/ /\ o \notin objects
            /\ objects' = objects \cup {o}
            /\ req' = [req EXCEPT ![r].plan = @ \ {o}]
         \/ /\ o \in objects
            /\ req' = [req EXCEPT ![r].pc = "done", ![r].answer = "exists",
                                  ![r].plan = {}]
            /\ UNCHANGED objects
      /\ UNCHANGED <<engine, factory, disturbed>>

CreatedAll(r) ==
    /\ At(r, "create") /\ req[r].plan = {}
    /\ Go(r, "fts")
    /\ UNCHANGED <<objects, engine, factory, disturbed>>

\* CREATE VIRTUAL TABLE IF NOT EXISTS nodes_fts
FtsForgotten == objects                                               \* mutant
FtsAdded == objects \cup {LastObject}

CreateFts(r) ==
    /\ At(r, "fts")
    /\ objects' = FtsAdded
    /\ req' = [req EXCEPT ![r].pc = "bind", ![r].made = TRUE]
    /\ UNCHANGED <<engine, factory, disturbed>>

\* _SessionLocal = sessionmaker(bind=engine)
Bind(r) ==
    /\ At(r, "bind")
    /\ factory' = [factory EXCEPT ![req[r].process] = TRUE]
    /\ Go(r, "query")
    /\ UNCHANGED <<objects, engine, disturbed>>

\* The route's query of a table, nodes_fts included.
Query(r) ==
    /\ At(r, "query")
    /\ \E t \in Tables \cup {LastObject} :
         Answer(r, IF t \in objects THEN "ok" ELSE "missing")
    /\ UNCHANGED <<objects, engine, factory, disturbed>>

\* Any other error of a statement, "database is locked" included.  Nothing
\* resets the globals: the process keeps an engine it did not finish.
Fails(r) ==
    /\ req[r].pc \in {"inspect", "create", "fts", "query"}
    /\ req' = [req EXCEPT ![r].pc = "done", ![r].answer = "error", ![r].plan = {},
                          ![r].toInspect = {}]
    /\ disturbed' = TRUE
    /\ UNCHANGED <<objects, engine, factory>>

\* The process dies and a new one takes its place; the file stays.
Crash(p) ==
    /\ engine' = [engine EXCEPT ![p] = FALSE]
    /\ factory' = [factory EXCEPT ![p] = FALSE]
    /\ req' = [r \in Requests |->
                 IF req[r].process = p /\ req[r].pc \notin {"idle", "done"}
                   THEN [req[r] EXCEPT !.pc = "done", !.answer = "lost", !.plan = {},
                                       !.toInspect = {}]
                   ELSE req[r]]
    /\ disturbed' = TRUE
    /\ UNCHANGED objects

Step(r) ==
    \/ Arrive(r) \/ CheckFactory(r) \/ CheckEngine(r) \/ Assign(r)
    \/ Inspect(r) \/ Inspected(r) \/ Create(r) \/ CreatedAll(r) \/ CreateFts(r)
    \/ Bind(r) \/ Query(r)

\* All requests are answered.
Finished == (\A r \in Requests : At(r, "done")) /\ UNCHANGED vars

Next ==
    \/ \E r \in Requests : Step(r) \/ Fails(r)
    \/ \E p \in Processes : Crash(p)
    \/ Finished

Spec == Init /\ [][Next]_vars

\* Threads run; none owes a failure or a death.
FairSpec == Spec /\ \A r \in Requests : WF_vars(Step(r))

--------------------------------------------------------------------------------
(* Properties *)

TypeOK ==
    /\ objects \subseteq Objects
    /\ engine \in [Processes -> BOOLEAN]
    /\ factory \in [Processes -> BOOLEAN]
    /\ req \in [Requests -> Request]
    /\ disturbed \in BOOLEAN

\* What a request inside get_engine is still going to create.
Pending(r) ==
    IF At(r, "inspect")
      THEN req[r].plan \cup {LastObject} \cup UNION {ObjectsOf(t) : t \in req[r].toInspect}
    ELSE IF At(r, "create") THEN req[r].plan \cup {LastObject}
    ELSE IF At(r, "fts") THEN {LastObject}
    ELSE {}

\* However many threads and processes race through the first calls, and
\* although all but one of them may stop at "already exists" (line 132): once
\* an engine is set, somebody is going to create whatever is still missing,
\* unless a statement fails or a process dies.
CompleteOrUnderway ==
    (\E p \in Processes : engine[p]) /\ ~disturbed =>
        \A o \in Objects \ objects : \E r \in Requests : o \in Pending(r)

\* A request that went through get_engine's body has all tables, whatever
\* half a schema a dead process or a failed statement left in the file.  (An
\* index whose table exists is never looked for again.)
InitialisedHasTables ==
    \A r \in Requests : req[r].made => Tables \cup {LastObject} \subseteq objects

\* The README (line 280): tables and nodes_fts are created on the first access.
EventuallyComplete ==
    (\E p \in Processes : engine[p]) ~> (objects = Objects \/ disturbed)
================================================================================
