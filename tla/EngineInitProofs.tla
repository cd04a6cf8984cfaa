---------------------------- MODULE EngineInitProofs ----------------------------
(***************************************************************************)
(* For any number of processes, requests and objects: the race for the     *)
(* first get_engine never leaves an object that nobody is going to create. *)
(* "Somebody still has it in the plan" is not inductive, since a request   *)
(* drops its whole plan when an object already exists.  The invariant      *)
(* names a request whose plan has no existing object before the missing    *)
(* one (Holder); whoever creates an object takes over from the requests    *)
(* that this will stop.                                                    *)
(***************************************************************************)
EXTENDS EngineInit, DataFacts

Inside(r) == req[r].pc \in {"inspect", "create"}

\* Plans exist inside create_all only.
PlansInv ==
    \A r \in Requests :
      /\ ~Inside(r) => req[r].plan = {}
      /\ ~At(r, "inspect") => req[r].toInspect = {}

\* A missing table is in the plan of everyone inside, or will be.
TablesInv ==
    \A r \in Requests :
      /\ Inside(r) => Tables \subseteq objects \cup req[r].plan \cup req[r].toInspect
      /\ At(r, "fts") => Tables \subseteq objects
      /\ req[r].made => Tables \cup {LastObject} \subseteq objects

\* A table is planned with all its indexes; it is dropped when it exists.
PlannedTogether ==
    \A r \in Requests, o \in Created :
      /\ o \in req[r].plan /\ TableOf[o] \in req[r].plan =>
           ObjectsOf(TableOf[o]) \subseteq req[r].plan
      /\ o \in req[r].plan /\ TableOf[o] \notin req[r].plan => TableOf[o] \in objects

\* Only the creator of a table goes on to its indexes.
OneCreator ==
    \A r, x \in Requests, o \in Created :
      r # x /\ o \in req[r].plan /\ o \in req[x].plan =>
        TableOf[o] \in req[r].plan \/ TableOf[o] \in req[x].plan

\* Undisturbed, tables appear in order and only through an engine that is set.
InOrder ==
    /\ \A t \in Tables \ objects, o \in objects : o < t
    /\ (objects # {} \/ \E r \in Requests : Inside(r) \/ At(r, "fts")) =>
          \E p \in Processes : engine[p]

Unobstructed(r, u) == \A o \in req[r].plan \cap objects : u < o

Holder(r, u) ==
    \/ At(r, "create") /\ (u \in req[r].plan \/ u = LastObject) /\ Unobstructed(r, u)
    \/ At(r, "inspect") /\ (u = LastObject \/ TableOf[u] \notin objects) /\ Unobstructed(r, u)
    \/ At(r, "fts") /\ u = LastObject

Held ==
    (\E p \in Processes : engine[p]) =>
        \A u \in Objects \ objects : \E r \in Requests : Holder(r, u)

IInv ==
    /\ TypeOK /\ PlansInv /\ TablesInv /\ PlannedTogether /\ OneCreator
    /\ ~disturbed => InOrder /\ Held

--------------------------------------------------------------------------------
(* What a step does to the locals of the requests *)

Same(x) == req'[x] = req[x]

\* r has new locals and the other requests have theirs.
Becomes(r, pc, toInspect, plan, made) ==
    /\ req'[r].pc = pc /\ req'[r].toInspect = toInspect /\ req'[r].plan = plan
    /\ req'[r].made = made /\ req'[r].process = req[r].process
    /\ \A x \in Requests \ {r} : Same(x)

\* Only the place of r changes.
Moves(r, pc) == Becomes(r, pc, req[r].toInspect, req[r].plan, req[r].made)

LEMMA FirstIsLeast ==
    ASSUME NEW S \in SUBSET Created, S # {}
    PROVE  First(S) \in S /\ \A u \in S : First(S) <= u
<1>1. S \in SUBSET Nat
    BY DEF Created
<1>2. PICK m \in S : \A y \in S : m <= y
    BY <1>1, LeastElementExists
<1> QED BY <1>2 DEF First

LEMMA Effects ==
    ASSUME TypeOK, NEW r \in Requests
    PROVE  /\ Arrive(r) => Moves(r, "session")
           /\ CheckFactory(r) => Moves(r, "query") \/ Moves(r, "engine")
           /\ CheckEngine(r) => \/ Moves(r, "bind") /\ engine[req[r].process]
                               \/ Moves(r, "assign")
           /\ Assign(r) => Becomes(r, "inspect", Tables, req[r].plan, req[r].made)
           /\ Inspect(r) =>
                LET t == First(req[r].toInspect) IN
                  Becomes(r, "inspect", req[r].toInspect \ {t},
                          IF t \in objects THEN req[r].plan
                                           ELSE req[r].plan \cup ObjectsOf(t),
                          req[r].made)
           /\ Inspected(r) => Moves(r, "create")
           /\ Create(r) =>
                LET o == First(req[r].plan) IN
                  IF o \in objects
                    THEN Becomes(r, "done", req[r].toInspect, {}, req[r].made)
                    ELSE Becomes(r, "create", req[r].toInspect, req[r].plan \ {o}, req[r].made)
           /\ CreatedAll(r) => Moves(r, "fts")
           /\ CreateFts(r) => Becomes(r, "bind", req[r].toInspect, req[r].plan, TRUE)
           /\ Bind(r) => Moves(r, "query")
           /\ Query(r) => Moves(r, "done")
           /\ Fails(r) => Becomes(r, "done", {}, {}, req[r].made)
<1> USE DEF TypeOK, Request, PC, Moves, Becomes, Same, Go, At
<1>1. Arrive(r) => Moves(r, "session")
    BY DEF Arrive
<1>2. CheckFactory(r) => Moves(r, "query") \/ Moves(r, "engine")
    BY DEF CheckFactory
<1>3. CheckEngine(r) => \/ Moves(r, "bind") /\ engine[req[r].process]
                        \/ Moves(r, "assign")
    BY DEF CheckEngine
<1>4. Assign(r) => Becomes(r, "inspect", Tables, req[r].plan, req[r].made)
    BY DEF Assign
<1>5. Inspect(r) =>
        LET t == First(req[r].toInspect) IN
          Becomes(r, "inspect", req[r].toInspect \ {t},
                  IF t \in objects THEN req[r].plan ELSE req[r].plan \cup ObjectsOf(t),
                  req[r].made)
    BY DEF Inspect, Found
<1>6. Inspected(r) => Moves(r, "create")
    BY DEF Inspected
<1>7. Create(r) =>
        LET o == First(req[r].plan) IN
          IF o \in objects
            THEN Becomes(r, "done", req[r].toInspect, {}, req[r].made)
            ELSE Becomes(r, "create", req[r].toInspect, req[r].plan \ {o}, req[r].made)
    BY DEF Create
<1>8. CreatedAll(r) => Moves(r, "fts")
    BY DEF CreatedAll
<1>9. CreateFts(r) => Becomes(r, "bind", req[r].toInspect, req[r].plan, TRUE)
    BY DEF CreateFts
<1>10. Bind(r) => Moves(r, "query")
    BY DEF Bind
<1>11. Query(r) => Moves(r, "done")
    BY DEF Query, Answer
<1>12. Fails(r) => Becomes(r, "done", {}, {}, req[r].made)
    BY DEF Fails
<1> QED BY <1>1, <1>2, <1>3, <1>4, <1>5, <1>6, <1>7, <1>8, <1>9, <1>10, <1>11, <1>12

\* A dying process drops its requests' plans and finishes nothing.
LEMMA CrashEffect ==
    ASSUME TypeOK, NEW p \in Processes, Crash(p), NEW x \in Requests
    PROVE  \/ Same(x)
           \/ /\ req'[x].pc = "done" /\ req'[x].toInspect = {} /\ req'[x].plan = {}
              /\ req'[x].made = req[x].made
BY DEF TypeOK, Request, Crash, Same

--------------------------------------------------------------------------------
(* Types *)

\* The records the steps leave in req, field by field.
LEMMA RequestUpdates ==
    /\ \A q \in Request, c \in PC : [q EXCEPT !.pc = c] \in Request
    /\ \A q \in Request, S \in SUBSET Tables : [q EXCEPT !.toInspect = S] \in Request
    /\ \A q \in Request, S \in SUBSET Created : [q EXCEPT !.plan = S] \in Request
    /\ \A q \in Request : [q EXCEPT !.made = TRUE] \in Request
    /\ \A q \in Request, a \in {"ok", "missing", "exists", "error", "lost"} :
          [q EXCEPT !.answer = a] \in Request
BY DEF Request

LEMMA PCs == PC = {"idle", "session", "engine", "assign", "inspect", "create",
                   "fts", "bind", "query", "done"}
BY DEF PC

LEMMA Fields ==
    ASSUME NEW q \in Request
    PROVE  /\ q.pc \in PC /\ q.process \in Processes /\ q.made \in BOOLEAN
           /\ q.toInspect \in SUBSET Tables /\ q.plan \in SUBSET Created
BY DEF Request

LEMMA TypeInit == ASSUME Init PROVE TypeOK
<1>1. \A p \in Processes : NewRequest(p) \in Request
    BY DEF NewRequest, Request, PC
<1> QED BY <1>1 DEF Init, TypeOK

LEMMA TypeStep == ASSUME TypeOK, [Next]_vars PROVE TypeOK'
<1> USE DEF TypeOK, Go, At
<1>0. \A r \in Requests, c \in PC :
         [req EXCEPT ![r].pc = c] \in [Requests -> Request]
    BY RequestUpdates
<1>1. ASSUME NEW r \in Requests, Arrive(r) \/ CheckFactory(r) \/ CheckEngine(r) PROVE TypeOK'
  <2>1. CASE Arrive(r)
      BY <1>0, <2>1, PCs DEF Arrive
  <2>2. CASE CheckFactory(r)
      BY <1>0, <2>2, PCs DEF CheckFactory
  <2>3. CASE CheckEngine(r)
      BY <1>0, <2>3, PCs DEF CheckEngine
  <2> QED BY <1>1, <2>1, <2>2, <2>3
<1>2. ASSUME NEW r \in Requests, Assign(r) PROVE TypeOK'
  <2>1. [req[r] EXCEPT !.pc = "inspect"] \in Request
      BY RequestUpdates, PCs
  <2>2. [req[r] EXCEPT !.pc = "inspect", !.toInspect = Tables] \in Request
      BY <2>1, RequestUpdates
  <2> QED BY <1>2, <2>2 DEF Assign
<1>3. ASSUME NEW r \in Requests, Inspect(r) PROVE TypeOK'
  <2> DEFINE t == First(req[r].toInspect)
             todo == req[r].toInspect \ {t}
             plan == IF Found(t) THEN req[r].plan ELSE req[r].plan \cup ObjectsOf(t)
  <2>1. todo \in SUBSET Tables /\ plan \in SUBSET Created
      BY Fields DEF ObjectsOf
  <2>2. [req[r] EXCEPT !.toInspect = todo] \in Request
      BY <2>1, RequestUpdates
  <2>3. [req[r] EXCEPT !.toInspect = todo, !.plan = plan] \in Request
    <3> HIDE DEF todo, plan
    <3> QED BY <2>1, <2>2, RequestUpdates
  <2>4. req' = [req EXCEPT ![r].toInspect = todo, ![r].plan = plan]
      BY <1>3 DEF Inspect
  <2>5. req' \in [Requests -> Request]
    <3> HIDE DEF todo, plan
    <3> QED BY <2>3, <2>4
  <2> QED BY <1>3, <2>5 DEF Inspect
<1>4. ASSUME NEW r \in Requests, Inspected(r) \/ CreatedAll(r) PROVE TypeOK'
    BY <1>0, <1>4, PCs DEF Inspected, CreatedAll
<1>5. ASSUME NEW r \in Requests, Create(r) PROVE TypeOK'
  <2> DEFINE o == First(req[r].plan)
  <2>1. o \in Objects
      BY <1>5, Fields, FirstIsLeast, SchemaAssumption DEF Create, Created, Objects
  <2>2. req[r].plan \ {o} \in SUBSET Created
      BY Fields
  <2>3. CASE o \in objects
    <3>1. [req[r] EXCEPT !.pc = "done"] \in Request
        BY RequestUpdates, PCs
    <3>2. [req[r] EXCEPT !.pc = "done", !.answer = "exists"] \in Request
        BY <3>1, RequestUpdates
    <3>3. [req[r] EXCEPT !.pc = "done", !.answer = "exists", !.plan = {}] \in Request
        BY <3>2, RequestUpdates
    <3> QED BY <1>5, <2>3, <3>3 DEF Create
  <2>4. CASE o \notin objects
    <3>1. [req[r] EXCEPT !.plan = req[r].plan \ {o}] \in Request
        BY <2>2, RequestUpdates
    <3> QED BY <1>5, <2>1, <2>4, <3>1 DEF Create
  <2> QED BY <2>3, <2>4
<1>6. ASSUME NEW r \in Requests, CreateFts(r) PROVE TypeOK'
  <2>1. [req[r] EXCEPT !.pc = "bind"] \in Request
      BY RequestUpdates, PCs
  <2>2. [req[r] EXCEPT !.pc = "bind", !.made = TRUE] \in Request
      BY <2>1, RequestUpdates
  <2>3. objects' \subseteq Objects
      BY <1>6, SchemaAssumption DEF CreateFts, FtsAdded, Objects
  <2> QED BY <1>6, <2>2, <2>3 DEF CreateFts
<1>7. ASSUME NEW r \in Requests, Bind(r) PROVE TypeOK'
    BY <1>0, <1>7, PCs DEF Bind
<1>8. ASSUME NEW r \in Requests, Query(r) PROVE TypeOK'
  <2>1. [req[r] EXCEPT !.pc = "done"] \in Request
      BY RequestUpdates, PCs
  <2>2. \A a \in {"ok", "missing"} : [req[r] EXCEPT !.pc = "done", !.answer = a] \in Request
      BY <2>1, RequestUpdates
  <2> QED BY <1>8, <2>2 DEF Query, Answer
<1>9. ASSUME NEW r \in Requests, Fails(r) PROVE TypeOK'
  <2>1. [req[r] EXCEPT !.pc = "done"] \in Request
      BY RequestUpdates, PCs
  <2>2. [req[r] EXCEPT !.pc = "done", !.answer = "error"] \in Request
      BY <2>1, RequestUpdates
  <2>3. [req[r] EXCEPT !.pc = "done", !.answer = "error", !.plan = {}] \in Request
      BY <2>2, RequestUpdates
  <2>4. [req[r] EXCEPT !.pc = "done", !.answer = "error", !.plan = {},
                       !.toInspect = {}] \in Request
      BY <2>3, RequestUpdates
  <2> QED BY <1>9, <2>4 DEF Fails
<1>10. ASSUME NEW p \in Processes, Crash(p) PROVE TypeOK'
  <2>1. ASSUME NEW r \in Requests
        PROVE  [req[r] EXCEPT !.pc = "done", !.answer = "lost", !.plan = {},
                              !.toInspect = {}] \in Request
    <3>1. [req[r] EXCEPT !.pc = "done"] \in Request
        BY RequestUpdates, PCs
    <3>2. [req[r] EXCEPT !.pc = "done", !.answer = "lost"] \in Request
        BY <3>1, RequestUpdates
    <3>3. [req[r] EXCEPT !.pc = "done", !.answer = "lost", !.plan = {}] \in Request
        BY <3>2, RequestUpdates
    <3> QED BY <3>3, RequestUpdates
  <2> QED BY <1>10, <2>1 DEF Crash
<1>11. CASE UNCHANGED vars
    BY <1>11 DEF vars
<1> QED BY <1>1, <1>2, <1>3, <1>4, <1>5, <1>6, <1>7, <1>8, <1>9, <1>10, <1>11
        DEF Next, Step, Finished

\* The request types always hold.
THEOREM TypeCorrect == Spec => []TypeOK
<1> QED BY TypeInit, TypeStep, PTL DEF Spec

--------------------------------------------------------------------------------
(* The kinds of steps the invariant is about *)

\* A step outside create_all and the creation of nodes_fts.
Idles(r) ==
    /\ ~Inside(r) /\ ~At(r, "fts")
    /\ \E c \in PC \ {"inspect", "create", "fts"} : Moves(r, c)
    /\ UNCHANGED <<objects, disturbed, engine>>

\* An error or a death: some requests drop what they had.
Loses ==
    /\ \A x \in Requests :
         \/ Same(x)
         \/ /\ req'[x].pc = "done" /\ req'[x].toInspect = {} /\ req'[x].plan = {}
            /\ req'[x].made = req[x].made
    /\ disturbed' = TRUE
    /\ UNCHANGED objects

Loads(r) ==
    /\ ~Inside(r) /\ ~At(r, "fts")
    /\ Becomes(r, "inspect", Tables, req[r].plan, req[r].made)
    /\ engine'[req[r].process] = TRUE
    /\ UNCHANGED <<objects, disturbed>>

Finds(r, t) ==
    /\ At(r, "inspect") /\ t \in req[r].toInspect
    /\ Becomes(r, "inspect", req[r].toInspect \ {t},
               IF t \in objects THEN req[r].plan ELSE req[r].plan \cup ObjectsOf(t),
               req[r].made)
    /\ UNCHANGED <<objects, disturbed, engine>>

Plans(r) ==
    /\ At(r, "inspect") /\ req[r].toInspect = {}
    /\ Moves(r, "create")
    /\ UNCHANGED <<objects, disturbed, engine>>

Adds(r, o) ==
    /\ At(r, "create")
    /\ o \in req[r].plan /\ o \notin objects /\ \A u \in req[r].plan : o <= u
    /\ Becomes(r, "create", req[r].toInspect, req[r].plan \ {o}, req[r].made)
    /\ objects' = objects \cup {o}
    /\ UNCHANGED <<disturbed, engine>>

Stops(r, o) ==
    /\ At(r, "create")
    /\ o \in req[r].plan /\ o \in objects /\ \A u \in req[r].plan : o <= u
    /\ Becomes(r, "done", req[r].toInspect, {}, req[r].made)
    /\ UNCHANGED <<objects, disturbed, engine>>

Ends(r) ==
    /\ At(r, "create") /\ req[r].plan = {}
    /\ Moves(r, "fts")
    /\ UNCHANGED <<objects, disturbed, engine>>

AddsFts(r) ==
    /\ At(r, "fts")
    /\ Becomes(r, "bind", req[r].toInspect, req[r].plan, TRUE)
    /\ objects' = objects \cup {LastObject}
    /\ UNCHANGED <<disturbed, engine>>

\* Every step is of one of these kinds.
LEMMA Kinds ==
    ASSUME TypeOK, [Next]_vars
    PROVE  \/ \E r \in Requests : Idles(r) \/ Loads(r) \/ Plans(r) \/ Ends(r) \/ AddsFts(r)
           \/ \E r \in Requests : \E t \in Tables : Finds(r, t)
           \/ \E r \in Requests : \E o \in Created : Adds(r, o) \/ Stops(r, o)
           \/ Loses
           \/ UNCHANGED vars
<1>1. ASSUME NEW r \in Requests,
             Arrive(r) \/ CheckFactory(r) \/ CheckEngine(r) \/ Bind(r) \/ Query(r)
      PROVE  Idles(r)
    BY <1>1, Effects DEF Arrive, CheckFactory, CheckEngine, Bind, Query, Idles, Inside,
       At, PC
<1>2. ASSUME NEW r \in Requests, Assign(r) PROVE Loads(r)
    BY <1>2, Effects DEF Assign, Loads, TypeOK, Request, Inside, At
<1>3. ASSUME NEW r \in Requests, Inspect(r) PROVE \E t \in Tables : Finds(r, t)
  <2>1. First(req[r].toInspect) \in req[r].toInspect /\ req[r].toInspect \subseteq Tables
      BY <1>3, Fields, FirstIsLeast DEF Inspect, TypeOK, Tables
  <2> QED BY <1>3, <2>1, Effects DEF Inspect, Finds
<1>4. ASSUME NEW r \in Requests, Inspected(r) PROVE Plans(r)
    BY <1>4, Effects DEF Inspected, Plans
<1>5. ASSUME NEW r \in Requests, Create(r)
      PROVE  \E o \in Created : Adds(r, o) \/ Stops(r, o)
  <2> DEFINE o == First(req[r].plan)
  <2>1. o \in req[r].plan /\ o \in Created /\ \A u \in req[r].plan : o <= u
      BY <1>5, Fields, FirstIsLeast DEF Create, TypeOK
  <2>2. CASE o \in objects
    <3>1. Stops(r, o)
        BY <1>5, <2>1, <2>2, Effects DEF Create, Stops
    <3> QED BY <2>1, <3>1
  <2>3. CASE o \notin objects
    <3>1. Adds(r, o)
        BY <1>5, <2>1, <2>3, Effects DEF Create, Adds
    <3> QED BY <2>1, <3>1
  <2> QED BY <2>2, <2>3
<1>6. ASSUME NEW r \in Requests, CreatedAll(r) PROVE Ends(r)
    BY <1>6, Effects DEF CreatedAll, Ends
<1>7. ASSUME NEW r \in Requests, CreateFts(r) PROVE AddsFts(r)
    BY <1>7, Effects DEF CreateFts, AddsFts, FtsAdded
<1>8. ASSUME NEW r \in Requests, Fails(r) PROVE Loses
    BY <1>8, Effects DEF Fails, Loses, Becomes
<1>9. ASSUME NEW p \in Processes, Crash(p) PROVE Loses
  <2>1. disturbed' = TRUE /\ UNCHANGED objects
      BY <1>9 DEF Crash
  <2> QED BY <1>9, <2>1, CrashEffect DEF Loses
<1> QED BY <1>1, <1>2, <1>3, <1>4, <1>5, <1>6, <1>7, <1>8, <1>9
        DEF Next, Step, Finished

LEMMA PlansStep == ASSUME TypeOK, PlansInv, [Next]_vars PROVE PlansInv'
<1> USE DEF PlansInv, Inside, At, Becomes, Moves, Same
<1>1. ASSUME NEW r \in Requests, Idles(r) \/ Loads(r) \/ Plans(r) \/ Ends(r) \/ AddsFts(r)
      PROVE  PlansInv'
    BY <1>1 DEF Idles, Loads, Plans, Ends, AddsFts
<1>2. ASSUME NEW r \in Requests, NEW t \in Tables, Finds(r, t) PROVE PlansInv'
    BY <1>2 DEF Finds
<1>3. ASSUME NEW r \in Requests, NEW o \in Created, Adds(r, o) \/ Stops(r, o) PROVE PlansInv'
    BY <1>3 DEF Adds, Stops
<1>4. CASE Loses
    BY <1>4 DEF Loses
<1>5. CASE UNCHANGED vars
    BY <1>5 DEF vars
<1> QED BY <1>1, <1>2, <1>3, <1>4, <1>5, Kinds

LEMMA TablesStep == ASSUME TypeOK, PlansInv, TablesInv, [Next]_vars PROVE TablesInv'
<1> USE DEF TablesInv, PlansInv, Inside, At, Becomes, Moves, Same
<1>1. ASSUME NEW r \in Requests, Idles(r) \/ Loads(r) \/ Plans(r) \/ Ends(r) PROVE TablesInv'
    BY <1>1 DEF Idles, Loads, Plans, Ends
<1>2. ASSUME NEW r \in Requests, AddsFts(r) PROVE TablesInv'
    BY <1>2 DEF AddsFts
<1>3. ASSUME NEW r \in Requests, NEW t \in Tables, Finds(r, t) PROVE TablesInv'
  <2>1. t \in Created /\ t \in ObjectsOf(t)
      BY DEF Tables, ObjectsOf
  <2> QED BY <1>3, <2>1 DEF Finds
<1>4. ASSUME NEW r \in Requests, NEW o \in Created, Adds(r, o) \/ Stops(r, o) PROVE TablesInv'
    BY <1>4 DEF Adds, Stops
<1>5. CASE Loses
    BY <1>5 DEF Loses
<1>6. CASE UNCHANGED vars
    BY <1>6 DEF vars
<1> QED BY <1>1, <1>2, <1>3, <1>4, <1>5, <1>6, Kinds

LEMMA PlannedStep ==
    ASSUME TypeOK, PlansInv, PlannedTogether, [Next]_vars
    PROVE  PlannedTogether'
<1> USE DEF PlannedTogether, Becomes, Moves, Same
<1>1. ASSUME NEW r \in Requests, Idles(r) \/ Loads(r) \/ Plans(r) \/ Ends(r) \/ AddsFts(r)
      PROVE  PlannedTogether'
    BY <1>1 DEF Idles, Loads, Plans, Ends, AddsFts
<1>2. ASSUME NEW r \in Requests, NEW t \in Tables, Finds(r, t) PROVE PlannedTogether'
  <2>1. t \in Created /\ TableOf[t] = t /\ t \in ObjectsOf(t)
        /\ \A o \in ObjectsOf(t) : TableOf[o] = t
      BY DEF Tables, ObjectsOf
  <2>2. ASSUME NEW u \in Created, u \in req'[r].plan, t \notin objects
        PROVE  /\ TableOf[u] \in req'[r].plan => ObjectsOf(TableOf[u]) \subseteq req'[r].plan
               /\ TableOf[u] \notin req'[r].plan => TableOf[u] \in objects
    <3>1. req'[r].plan = req[r].plan \cup ObjectsOf(t)
        BY <1>2, <2>2 DEF Finds
    <3>2. CASE TableOf[u] = t
        BY <3>1, <3>2, <2>1
    <3>3. CASE TableOf[u] # t
      <4>1. u \in req[r].plan
          BY <2>1, <2>2, <3>1, <3>3
      <4>2. TableOf[u] \notin ObjectsOf(t)
          BY <2>1, <3>3, SchemaAssumption
      <4> QED BY <4>1, <4>2, <3>1
    <3> QED BY <3>2, <3>3
  <2>3. t \in objects => Same(r) \/ req'[r].plan = req[r].plan
      BY <1>2 DEF Finds
  <2>4. objects' = objects /\ \A x \in Requests \ {r} : req'[x].plan = req[x].plan
      BY <1>2 DEF Finds
  <2>5. ASSUME NEW x \in Requests, NEW u \in Created, u \in req'[x].plan
        PROVE  /\ TableOf[u] \in req'[x].plan => ObjectsOf(TableOf[u]) \subseteq req'[x].plan
               /\ TableOf[u] \notin req'[x].plan => TableOf[u] \in objects'
      BY <2>2, <2>3, <2>4, <2>5
  <2> QED BY <2>5 DEF ObjectsOf
<1>3. ASSUME NEW r \in Requests, NEW o \in Created, Adds(r, o) PROVE PlannedTogether'
  <2> SUFFICES ASSUME NEW x \in Requests, NEW u \in Created, u \in req'[x].plan
               PROVE  /\ TableOf[u] \in req'[x].plan => ObjectsOf(TableOf[u]) \subseteq req'[x].plan
                      /\ TableOf[u] \notin req'[x].plan => TableOf[u] \in objects'
      BY DEF ObjectsOf
  <2>1. CASE x # r
      BY <1>3, <2>1 DEF Adds
  <2>2. CASE x = r
    <3>1. req'[r].plan = req[r].plan \ {o} /\ objects' = objects \cup {o}
          /\ \A v \in req[r].plan : o <= v
        BY <1>3 DEF Adds
    <3>2. \A v \in ObjectsOf(TableOf[u]) : TableOf[u] = TableOf[v] /\ TableOf[v] <= v
        BY SchemaAssumption DEF ObjectsOf
    <3>3. TableOf[u] \in Created /\ TableOf[u] \in Nat /\ o \in Nat
        BY SchemaAssumption DEF Created
    <3>4. TableOf[u] \in req'[r].plan => o < TableOf[u]
        BY <3>1, <3>3
    <3>5. ObjectsOf(TableOf[u]) \subseteq Nat
        BY DEF ObjectsOf, Created
    <3>6. TableOf[u] \in req'[r].plan => o \notin ObjectsOf(TableOf[u])
        BY <3>2, <3>3, <3>4, <3>5
    <3> QED BY <2>2, <3>1, <3>6
  <2> QED BY <2>1, <2>2
<1>4. ASSUME NEW r \in Requests, NEW o \in Created, Stops(r, o) PROVE PlannedTogether'
    BY <1>4 DEF Stops
<1>5. CASE Loses
    BY <1>5 DEF Loses
<1>6. CASE UNCHANGED vars
    BY <1>6 DEF vars
<1> QED BY <1>1, <1>2, <1>3, <1>4, <1>5, <1>6, Kinds

LEMMA OneCreatorStep ==
    ASSUME TypeOK, PlansInv, PlannedTogether, OneCreator, [Next]_vars
    PROVE  OneCreator'
<1> USE DEF OneCreator, Becomes, Moves, Same
<1>1. ASSUME NEW r \in Requests, Idles(r) \/ Loads(r) \/ Plans(r) \/ Ends(r) \/ AddsFts(r)
      PROVE  OneCreator'
    BY <1>1 DEF Idles, Loads, Plans, Ends, AddsFts
<1>2. ASSUME NEW r \in Requests, NEW t \in Tables, Finds(r, t) PROVE OneCreator'
  <2>1. t \in ObjectsOf(t) /\ \A o \in ObjectsOf(t) : TableOf[o] = t
      BY DEF Tables, ObjectsOf
  <2> QED BY <1>2, <2>1 DEF Finds
<1>3. ASSUME NEW r \in Requests, NEW o \in Created, Adds(r, o) PROVE OneCreator'
    BY <1>3 DEF Adds, PlannedTogether
<1>4. ASSUME NEW r \in Requests, NEW o \in Created, Stops(r, o) PROVE OneCreator'
    BY <1>4 DEF Stops
<1>5. CASE Loses
    BY <1>5 DEF Loses
<1>6. CASE UNCHANGED vars
    BY <1>6 DEF vars
<1> QED BY <1>1, <1>2, <1>3, <1>4, <1>5, <1>6, Kinds

LEMMA InOrderStep ==
    ASSUME TypeOK, PlansInv, TablesInv, InOrder, [Next]_vars, ~disturbed'
    PROVE  InOrder'
<1> USE DEF InOrder, Inside, At, Becomes, Moves, Same
<1>1. ASSUME NEW r \in Requests, Idles(r) \/ Plans(r) \/ Ends(r) PROVE InOrder'
    BY <1>1 DEF Idles, Plans, Ends
<1>2. ASSUME NEW r \in Requests, Loads(r) PROVE InOrder'
  <2>1. req[r].process \in Processes
      BY Fields DEF TypeOK
  <2> QED BY <1>2, <2>1 DEF Loads
<1>3. ASSUME NEW r \in Requests, AddsFts(r) PROVE InOrder'
    BY <1>3 DEF AddsFts, TablesInv
<1>4. ASSUME NEW r \in Requests, NEW t \in Tables, Finds(r, t) PROVE InOrder'
    BY <1>4 DEF Finds
<1>5. ASSUME NEW r \in Requests, NEW o \in Created, Adds(r, o) PROVE InOrder'
  <2>1. ASSUME NEW t \in Tables, t \notin objects' PROVE o < t
    <3>1. t \in req[r].plan /\ t # o /\ t \in Nat /\ o \in Nat
        BY <1>5, <2>1 DEF Adds, TablesInv, PlansInv, Tables, Created
    <3> QED BY <1>5, <3>1 DEF Adds
  <2> QED BY <1>5, <2>1 DEF Adds
<1>6. ASSUME NEW r \in Requests, NEW o \in Created, Stops(r, o) PROVE InOrder'
    BY <1>6 DEF Stops
<1>7. CASE Loses
    BY <1>7 DEF Loses
<1>8. CASE UNCHANGED vars
    BY <1>8 DEF vars
<1> QED BY <1>1, <1>2, <1>3, <1>4, <1>5, <1>6, <1>7, <1>8, Kinds

--------------------------------------------------------------------------------
(* Whoever creates an object takes over what others planned behind it *)

LEMMA TakesOver ==
    ASSUME TypeOK, PlansInv, TablesInv, PlannedTogether, OneCreator, InOrder,
           NEW r \in Requests, NEW x \in Requests, r # x,
           NEW o \in Created, Adds(x, o),
           NEW u \in Objects \ objects', Holder(r, u), ~Holder(r, u)'
    PROVE  Holder(x, u)'
<1> USE SchemaAssumption
<1>1. /\ At(x, "create") /\ o \in req[x].plan /\ o \notin objects
      /\ \A v \in req[x].plan : o <= v
      /\ req'[x].pc = "create" /\ req'[x].plan = req[x].plan \ {o}
      /\ req'[r] = req[r] /\ objects' = objects \cup {o}
    BY DEF Adds, Becomes, Same
<1>2. u \notin objects /\ u # o /\ u \in Nat /\ o \in Nat /\ o < LastObject /\ LastObject \in Nat
    BY <1>1 DEF Objects, Created
<1>3. req[r].plan \subseteq Created /\ req[x].plan \subseteq Created /\ Created \subseteq Nat
    BY Fields DEF TypeOK, Created
<1>4. Unobstructed(r, u) /\ ~At(r, "fts")
    BY <1>1 DEF Holder, At
\* Either r planned o before u, or r has not looked yet for the table o of u.
<1>5. \/ o \in req[r].plan /\ o < u
      \/ At(r, "inspect") /\ u # LastObject /\ TableOf[u] = o
  <2>1. SUFFICES ASSUME o \in req[r].plan => ~(o < u),
                        At(r, "inspect") /\ u # LastObject => TableOf[u] # o
                 PROVE  Holder(r, u)'
      OBVIOUS
  <2>2. Unobstructed(r, u)'
      BY <1>1, <1>2, <1>3, <1>4, <2>1 DEF Unobstructed
  <2> QED BY <1>1, <1>4, <2>1, <2>2 DEF Holder, At
<1>6. CASE TableOf[o] = o
  <2>1. o \in Tables /\ \A v \in objects : v < o
      BY <1>1, <1>6 DEF InOrder, Tables
  <2>2. Unobstructed(x, u)'
    <3>1. ASSUME NEW v \in req'[x].plan PROVE v \notin objects'
      <4>1. v \in Nat /\ o <= v /\ v # o
          BY <1>1, <1>3
      <4> QED BY <1>1, <1>2, <2>1, <4>1
    <3> QED BY <3>1 DEF Unobstructed
  <2>3. u \in req[x].plan \/ u = LastObject
    <3>1. SUFFICES ASSUME u # LastObject PROVE u \in req[x].plan
        OBVIOUS
    <3>2. u \in Created /\ TableOf[u] \in Created /\ TableOf[u] \in Tables
          /\ TableOf[u] \in Nat
        BY <3>1 DEF Objects, Created, Tables
    <3>3. TableOf[u] \notin objects
      <4>1. CASE At(r, "inspect")
          BY <4>1, <3>1 DEF Holder, At
      <4>2. CASE At(r, "create")
        <5>1. o < u
            BY <1>5, <4>2 DEF At
        <5>2. TableOf[o] <= TableOf[u]
            BY <1>2, <3>2, <5>1
        <5> QED BY <1>2, <1>6, <2>1, <3>2, <5>2
      <4> QED BY <1>4, <4>1, <4>2 DEF Holder
    <3>4. TableOf[u] \in req[x].plan
        BY <1>1, <3>2, <3>3 DEF TablesInv, PlansInv, Inside, At
    <3>5. ObjectsOf(TableOf[u]) \subseteq req[x].plan
        BY <3>2, <3>4 DEF PlannedTogether
    <3> QED BY <3>2, <3>5 DEF ObjectsOf
  <2> QED BY <1>1, <1>2, <2>2, <2>3 DEF Holder, At
<1>7. CASE TableOf[o] # o
  <2>1. TableOf[o] \in Created /\ TableOf[o] \in Nat /\ TableOf[o] < o
      BY <1>7, <1>2 DEF Created
  <2>2. TableOf[o] \notin req[x].plan /\ TableOf[o] \in objects
      BY <1>1, <1>2, <2>1 DEF PlannedTogether
  <2>3. o \in req[r].plan /\ o < u
    <3>1. TableOf[u] = o /\ u # LastObject => FALSE
        BY <1>7 DEF Objects, Created
    <3> QED BY <1>5, <3>1
  <2>4. TableOf[o] \notin req[r].plan
      BY <1>2, <1>4, <2>1, <2>2, <2>3 DEF Unobstructed
  <2> QED BY <1>1, <2>2, <2>3, <2>4 DEF OneCreator
<1> QED BY <1>6, <1>7

LEMMA HeldStep ==
    ASSUME TypeOK, PlansInv, TablesInv, PlannedTogether, OneCreator, InOrder, Held,
           [Next]_vars, ~disturbed'
    PROVE  Held'
<1> USE DEF Held
\* Steps under which everyone goes on holding what he holds.
<1>1. ASSUME \A r \in Requests, u \in Objects : Holder(r, u) => Holder(r, u)',
             UNCHANGED <<objects, engine>>
      PROVE  Held'
    BY <1>1
<1>2. ASSUME NEW r \in Requests, Idles(r) \/ Plans(r) \/ Ends(r) PROVE Held'
  <2>1. \A x \in Requests, u \in Objects : Holder(x, u) => Holder(x, u)'
    <3> SUFFICES ASSUME NEW x \in Requests, NEW u \in Objects, Holder(x, u)
                 PROVE  Holder(x, u)'
        OBVIOUS
    <3>1. objects' = objects /\ req'[x].plan = req[x].plan
        BY <1>2 DEF Idles, Plans, Ends, Becomes, Moves, Same
    <3>2. CASE x # r
      <4>1. req'[x] = req[x]
          BY <1>2, <3>2 DEF Idles, Plans, Ends, Becomes, Moves, Same
      <4> QED BY <3>1, <4>1 DEF Holder, Unobstructed, At
    <3>3. CASE x = r /\ Idles(r)
        BY <3>3 DEF Idles, Holder, Inside, At
    <3>4. CASE x = r /\ Plans(r)
      <4>1. req'[r].pc = "create" /\ At(r, "inspect") /\ req[r].toInspect = {}
          BY <3>4 DEF Plans, Moves, Becomes
      <4>2. u # LastObject => u \in Created /\ TableOf[u] \in Tables /\ u \in ObjectsOf(TableOf[u])
          BY SchemaAssumption DEF Objects, Created, Tables, ObjectsOf
      <4>3. u # LastObject => u \in req[r].plan
        <5>1. u # LastObject => TableOf[u] \in req[r].plan
            BY <3>4, <4>1, <4>2 DEF TablesInv, Inside, Holder, At
        <5>2. u # LastObject => ObjectsOf(TableOf[u]) \subseteq req[r].plan
            BY <4>2, <5>1, SchemaAssumption DEF PlannedTogether, Tables
        <5> QED BY <4>2, <5>2
      <4> QED BY <3>1, <3>4, <4>1, <4>3 DEF Holder, Unobstructed, At
    <3>5. CASE x = r /\ Ends(r)
      <4>1. req'[r].pc = "fts" /\ At(r, "create") /\ req[r].plan = {}
          BY <3>5 DEF Ends, Moves, Becomes
      <4> QED BY <3>5, <4>1 DEF Holder, At
    <3> QED BY <1>2, <3>2, <3>3, <3>4, <3>5
  <2>2. UNCHANGED <<objects, engine>>
      BY <1>2 DEF Idles, Plans, Ends
  <2> QED BY <1>1, <2>1, <2>2
\* The first to set an engine holds everything.
<1>3. ASSUME NEW r \in Requests, Loads(r) PROVE Held'
  <2>1. /\ objects' = objects /\ req[r].plan = {} /\ ~Inside(r) /\ ~At(r, "fts")
        /\ req'[r].pc = "inspect" /\ req'[r].plan = {}
        /\ \A x \in Requests \ {r} : req'[x] = req[x]
      BY <1>3 DEF Loads, Becomes, Same, PlansInv
  <2>2. CASE \E p \in Processes : engine[p]
    <3>1. \A x \in Requests, u \in Objects : Holder(x, u) => x # r
        BY <2>1 DEF Holder, Inside, At
    <3>2. \A x \in Requests, u \in Objects : Holder(x, u) => Holder(x, u)'
        BY <2>1, <3>1 DEF Holder, Unobstructed, At
    <3> QED BY <2>1, <2>2, <3>2
  <2>3. CASE ~\E p \in Processes : engine[p]
    <3>1. objects = {}
        BY <2>3 DEF InOrder
    <3>2. \A u \in Objects : Holder(r, u)'
        BY <2>1, <3>1 DEF Holder, Unobstructed, At
    <3> QED BY <3>2
  <2> QED BY <2>2, <2>3
<1>4. ASSUME NEW r \in Requests, NEW t \in Tables, Finds(r, t) PROVE Held'
  <2>1. /\ At(r, "inspect") /\ req'[r].pc = "inspect" /\ objects' = objects
        /\ req'[r].plan = IF t \in objects THEN req[r].plan
                                           ELSE req[r].plan \cup ObjectsOf(t)
        /\ \A x \in Requests \ {r} : req'[x] = req[x]
      BY <1>4 DEF Finds, Becomes, Same
  <2>2. t \notin objects => objects \cap ObjectsOf(t) = {}
    <3>1. \A o \in ObjectsOf(t) : t <= o /\ o \in Nat /\ t \in Nat
        BY SchemaAssumption DEF ObjectsOf, Tables, Created
    <3>2. t \notin objects => \A o \in objects : o < t
        BY DEF InOrder
    <3> QED BY <3>1, <3>2
  <2>3. req'[r].plan \cap objects' = req[r].plan \cap objects
      BY <2>1, <2>2
  <2>4. \A x \in Requests, u \in Objects : Holder(x, u) => Holder(x, u)'
    <3> SUFFICES ASSUME NEW x \in Requests, NEW u \in Objects, Holder(x, u)
                 PROVE  Holder(x, u)'
        OBVIOUS
    <3>1. CASE x = r
        BY <2>1, <2>3, <3>1 DEF Holder, Unobstructed, At
    <3>2. CASE x # r
        BY <2>1, <3>2 DEF Holder, Unobstructed, At
    <3> QED BY <3>1, <3>2
  <2>5. UNCHANGED <<objects, engine>>
      BY <1>4 DEF Finds
  <2> QED BY <1>1, <2>4, <2>5
<1>5. ASSUME NEW x \in Requests, NEW o \in Created, Adds(x, o) PROVE Held'
  <2> SUFFICES ASSUME \E p \in Processes : engine'[p], NEW u \in Objects \ objects'
               PROVE  \E r \in Requests : Holder(r, u)'
      OBVIOUS
  <2>1. /\ engine' = engine /\ objects' = objects \cup {o}
        /\ At(x, "create") /\ req'[x].pc = "create"
        /\ req'[x].plan = req[x].plan \ {o}
      BY <1>5 DEF Adds, Becomes
  <2>2. PICK r \in Requests : Holder(r, u)
      BY <2>1
  <2>3. CASE r = x
    <3>1. req'[x].plan \cap objects' = req[x].plan \cap objects
        BY <1>5, <2>1 DEF Adds
    <3>2. Holder(x, u)'
        BY <2>1, <2>2, <2>3, <3>1 DEF Holder, Unobstructed, At
    <3> QED BY <3>2
  <2>4. CASE r # x
    <3>1. CASE Holder(r, u)'
        BY <3>1
    <3>2. CASE ~Holder(r, u)'
      <4>1. Holder(x, u)'
          BY <1>5, <2>2, <2>4, <3>2, TakesOver
      <4> QED BY <4>1
    <3> QED BY <3>1, <3>2
  <2> QED BY <2>3, <2>4
\* Who stops held nothing.
<1>6. ASSUME NEW r \in Requests, NEW o \in Created, Stops(r, o) PROVE Held'
  <2>1. /\ At(r, "create") /\ o \in req[r].plan /\ o \in objects /\ objects' = objects
        /\ \A v \in req[r].plan : o <= v
        /\ \A x \in Requests \ {r} : req'[x] = req[x]
        /\ engine' = engine
      BY <1>6 DEF Stops, Becomes, Same
  <2>2. ASSUME NEW u \in Objects \ objects, Holder(r, u) PROVE FALSE
    <3>1. u < o
        BY <2>1, <2>2 DEF Holder, Unobstructed, At
    <3>2. u \in req[r].plan \/ u = LastObject
        BY <2>1, <2>2 DEF Holder, At
    <3>3. o \in Nat /\ o < LastObject /\ u \in Nat
        BY SchemaAssumption DEF Created, Objects
    <3> QED BY <2>1, <3>1, <3>2, <3>3, SchemaAssumption
  <2>3. \A x \in Requests, u \in Objects \ objects : Holder(x, u) => Holder(x, u)'
      BY <2>1, <2>2 DEF Holder, Unobstructed, At
  <2> QED BY <2>1, <2>3
<1>7. ASSUME NEW r \in Requests, AddsFts(r) PROVE Held'
  <2>1. /\ At(r, "fts") /\ objects' = objects \cup {LastObject} /\ engine' = engine
        /\ \A x \in Requests \ {r} : req'[x] = req[x]
      BY <1>7 DEF AddsFts, Becomes, Same
  <2>2. ASSUME NEW x \in Requests, NEW u \in Objects \ objects', Holder(x, u)
        PROVE  Holder(x, u)'
    <3>1. u # LastObject /\ u \in Created
        BY <2>1, SchemaAssumption DEF Objects, Created
    <3>2. x # r /\ req'[x] = req[x]
        BY <2>1, <2>2, <3>1 DEF Holder, At
    <3>3. TableOf[u] # LastObject /\ TableOf[u] \in Created
        BY <3>1, SchemaAssumption DEF Created
    <3>4. req[x].plan \subseteq Created /\ LastObject \notin Created
        BY Fields, SchemaAssumption DEF TypeOK, Created
    <3>5. req'[x].plan \cap objects' = req[x].plan \cap objects
        BY <2>1, <3>2, <3>4
    <3> QED BY <2>1, <2>2, <3>1, <3>2, <3>3, <3>5 DEF Holder, Unobstructed, At
  <2> QED BY <2>1, <2>2
<1>8. CASE Loses
    BY <1>8 DEF Loses
<1>9. CASE UNCHANGED vars
    BY <1>9 DEF vars, Holder, Unobstructed, At
<1> QED BY <1>2, <1>3, <1>4, <1>5, <1>6, <1>7, <1>8, <1>9, Kinds

--------------------------------------------------------------------------------
(* Theorems *)

LEMMA IInvInit == ASSUME Init PROVE IInv
<1>1. TypeOK
    BY TypeInit
<1>2. \A r \in Requests : /\ req[r].pc = "idle" /\ req[r].toInspect = {}
                          /\ req[r].plan = {} /\ req[r].made = FALSE
    BY DEF Init, NewRequest
<1>3. objects = {} /\ \A p \in Processes : engine[p] = FALSE
    BY DEF Init
<1>4. PlansInv /\ TablesInv /\ PlannedTogether /\ OneCreator
    BY <1>2 DEF PlansInv, TablesInv, PlannedTogether, OneCreator, Inside, At
<1>5. InOrder /\ Held
    BY <1>2, <1>3 DEF InOrder, Held, Inside, At
<1> QED BY <1>1, <1>4, <1>5 DEF IInv

LEMMA DisturbedStays == ASSUME TypeOK, [Next]_vars PROVE disturbed => disturbed'
BY Kinds DEF Idles, Loads, Plans, Ends, AddsFts, Finds, Adds, Stops, Loses, vars

LEMMA IInvStep == ASSUME IInv, [Next]_vars PROVE IInv'
<1>1. TypeOK' /\ PlansInv' /\ TablesInv'
    BY TypeStep, PlansStep, TablesStep DEF IInv
<1>2. PlannedTogether' /\ OneCreator'
    BY PlannedStep, OneCreatorStep DEF IInv
<1>3. ASSUME ~disturbed' PROVE InOrder' /\ Held'
    BY <1>3, DisturbedStays, InOrderStep, HeldStep DEF IInv
<1> QED BY <1>1, <1>2, <1>3 DEF IInv

\* The inductive invariant.
THEOREM InductiveInvariant == Spec => []IInv
<1> QED BY IInvInit, IInvStep, PTL DEF Spec

\* Half a schema is always somebody's to complete, unless a statement failed or
\* a process died (get_engine, lines 130-142).
THEOREM SchemaCompleteOrUnderway == Spec => []CompleteOrUnderway
<1>1. ASSUME IInv PROVE CompleteOrUnderway
  <2> SUFFICES ASSUME \E p \in Processes : engine[p], ~disturbed,
                      NEW u \in Objects \ objects
               PROVE  \E r \in Requests : u \in Pending(r)
      BY DEF CompleteOrUnderway
  <2>1. PICK r \in Requests : Holder(r, u)
      BY <1>1 DEF IInv, Held
  <2>2. CASE At(r, "create") \/ At(r, "fts")
      BY <2>1, <2>2 DEF Holder, Pending, At
  <2>3. CASE At(r, "inspect") /\ u = LastObject
      BY <2>3 DEF Pending, At
  <2>4. CASE At(r, "inspect") /\ u # LastObject
    <3>1. u \in Created /\ TableOf[u] \in Tables /\ TableOf[u] \in Created
          /\ u \in ObjectsOf(TableOf[u])
        BY <2>4, SchemaAssumption DEF Objects, Created, Tables, ObjectsOf
    <3>2. TableOf[u] \notin objects
        BY <2>1, <2>4 DEF Holder, At
    <3>3. TableOf[u] \in req[r].plan \/ TableOf[u] \in req[r].toInspect
        BY <1>1, <2>4, <3>1, <3>2 DEF IInv, TablesInv, Inside, At
    <3>4. TableOf[u] \in req[r].plan => ObjectsOf(TableOf[u]) \subseteq req[r].plan
        BY <1>1, <3>1, SchemaAssumption DEF IInv, PlannedTogether
    <3> QED BY <2>4, <3>1, <3>3, <3>4 DEF Pending, At
  <2> QED BY <2>1, <2>2, <2>3, <2>4 DEF Holder
<1> QED BY <1>1, InductiveInvariant, PTL

\* Whoever went through get_engine's body has all tables, after any failures
\* and restarts.
THEOREM InitialisedComplete == Spec => []InitialisedHasTables
<1>1. ASSUME IInv PROVE InitialisedHasTables
    BY <1>1 DEF IInv, TablesInv, InitialisedHasTables
<1> QED BY <1>1, InductiveInvariant, PTL
================================================================================
