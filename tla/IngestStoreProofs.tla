--------------------------- MODULE IngestStoreProofs ---------------------------
(***************************************************************************)
(* Proofs about IngestStore, for any number of workers and uploads.        *)
(*                                                                         *)
(* What the unique index and the write lock give is not inductive by       *)
(* itself: IInv adds what the locals of a request and the rows of the open *)
(* transaction have to do with each other.  The second half is about one   *)
(* worker, for which the rows are the log of VersionLog.                   *)
(***************************************************************************)
EXTENDS IngestStore, DataFacts

Writing == {"insertNodes", "commit"}
Looked == {"check", "number", "insertVersion", "insertNodes", "commit", "reply"}
Numbered == {"insertVersion", "insertNodes", "commit", "reply"}

\* The document a request works on is committed, or is the one it inserts.
OwnDocument(r) == lock = r /\ tx.document = req[r].name
                           /\ req[r].doc = Len(documents) + 1
OldDocument(r) == /\ req[r].doc \in DOMAIN documents
                  /\ documents[req[r].doc] = req[r].name

LocalsInv ==
    \A r \in Requests :
        /\ req[r].pc \in Looked =>
             \/ OldDocument(r) /\ (lock = r => tx.document = None)
             \/ OwnDocument(r)
        /\ req[r].pc \in Numbered => req[r].number > 0
        /\ req[r].pc \in Writing => lock = r
        /\ req[r].pc # "done" => req[r].status = 0
        /\ req[r].pc = "reply" =>
             \E v \in versions : /\ v.id = r /\ v.number = req[r].number
                                 /\ v.content = req[r].content /\ v.doc = req[r].doc

\* The open transaction holds the rows its session has flushed, and the row it
\* is about to commit is no duplicate.
TxInv ==
    /\ lock = None => tx = EmptyTx
    /\ \A r \in Requests : lock = r =>
         /\ req[r].pc \in Looked \ {"reply"}
         /\ tx.versions = IF req[r].pc \in Writing THEN {Row(r)} ELSE {}
         /\ tx.nodes = IF req[r].pc = "commit" THEN {r} ELSE {}
         /\ req[r].pc \in Writing => ~ViolatesUnique(req[r].doc, req[r].content)

CommittedInv ==
    /\ ContentUniquePerDocument
    /\ VersionsComplete
    /\ \A v \in versions : req[v.id].pc \in {"reply", "done"}
    /\ ResponseTruthful

IInv == TypeOK /\ LocalsInv /\ TxInv /\ CommittedInv

--------------------------------------------------------------------------------
(* Lookups *)

\* .first() returns a row of that name: a table scan has a first match.
LEMMA FirstDocumentMatches ==
    ASSUME NEW n, documents \in Seq(Names), DocumentsNamed(n) # {}
    PROVE  FirstDocument(n) \in DocumentsNamed(n)
<1>1. DocumentsNamed(n) \in SUBSET Nat
    BY DEF DocumentsNamed
<1>2. \E d \in DocumentsNamed(n) : \A e \in DocumentsNamed(n) : d <= e
    BY <1>1, LeastElementExists
<1> QED BY <1>2 DEF FirstDocument

--------------------------------------------------------------------------------
(* Types *)

\* The records the steps leave in req, field by field.
LEMMA RequestUpdates ==
    /\ \A q \in Request, p \in PC : [q EXCEPT !.pc = p] \in Request
    /\ \A q \in Request, i \in Requests \cup {None} :
          [q EXCEPT !.base = i] \in Request /\ [q EXCEPT !.version = i] \in Request
    /\ \A q \in Request, d \in Nat :
          [q EXCEPT !.doc = d] \in Request /\ [q EXCEPT !.number = d] \in Request
    /\ \A q \in Request, code \in {0, 200, 201, 500} :
          [q EXCEPT !.status = code] \in Request
BY DEF Request

LEMMA PCs == /\ "idle" \in PC /\ "parsing" \in PC /\ "lookup" \in PC
             /\ "insertDocument" \in PC /\ "check" \in PC /\ "number" \in PC
             /\ "insertVersion" \in PC /\ "insertNodes" \in PC
             /\ "commit" \in PC /\ "reply" \in PC /\ "done" \in PC
BY DEF PC

LEMMA AnswerType ==
    ASSUME req \in [Requests -> Request], loop \in [Workers -> Requests \cup {None}],
           NEW r \in Requests, NEW code \in {200, 201, 500},
           NEW i \in Requests \cup {None}, NEW k \in Nat, Answer(r, code, i, k)
    PROVE  /\ req' \in [Requests -> Request]
           /\ loop' \in [Workers -> Requests \cup {None}]
<1>1. [req[r] EXCEPT !.pc = "done"] \in Request
    BY RequestUpdates, PCs
<1>2. [req[r] EXCEPT !.pc = "done", !.status = code] \in Request
  <2>1. \A q \in Request : [q EXCEPT !.status = code] \in Request
      BY DEF Request
  <2> QED BY <1>1, <2>1
<1>3. [req[r] EXCEPT !.pc = "done", !.status = code, !.version = i] \in Request
    BY <1>2, RequestUpdates
<1>4. [req[r] EXCEPT !.pc = "done", !.status = code, !.version = i,
                     !.number = k] \in Request
    BY <1>3, RequestUpdates
<1>5. req' \in [Requests -> Request]
    BY <1>4 DEF Answer
<1>6. loop' \in [Workers -> Requests \cup {None}]
    BY DEF Answer
<1> QED BY <1>5, <1>6

LEMMA CloseSessionType ==
    ASSUME TypeOK, NEW r, CloseSession(r)
    PROVE  /\ lock' \in Requests \cup {None}
           /\ tx' \in [document : Names \cup {None}, versions : SUBSET Version,
                        nodes : SUBSET Requests]
BY DEF TypeOK, CloseSession, EmptyTx

\* No step stores an ill-typed row: the row a session flushes has a document
\* and a positive number by then.
LEMMA TypeStep == IInv /\ [Next]_vars => TypeOK'
<1> SUFFICES ASSUME IInv, [Next]_vars PROVE TypeOK'
    OBVIOUS
<1> USE NoneAssumption DEF TypeOK
<1>0. TypeOK /\ LocalsInv
    BY DEF IInv
<1>1. ASSUME NEW r \in Requests, Upload(r) PROVE TypeOK'
  <2>1. [req[r] EXCEPT !.pc = "parsing"] \in Request
      BY <1>0, RequestUpdates, PCs
  <2> QED BY <1>0, <1>1, <2>1 DEF Upload
<1>2. ASSUME NEW r \in Requests, ParseFails(r) PROVE TypeOK'
    BY <1>0, <1>2, AnswerType DEF ParseFails
<1>3. ASSUME NEW r \in Requests, Resume(r) PROVE TypeOK'
  <2> DEFINE prev == IF DocumentsNamed(req[r].name) = {} THEN {}
                     ELSE Latest(FirstDocument(req[r].name))
  <2>0. {v.id : v \in prev} \subseteq Requests
      BY <1>0 DEF Latest, VersionsOf, Version
  <2>1. PICK b \in Requests \cup {None} :
            req' = [req EXCEPT ![r].pc = "lookup", ![r].base = b]
      BY <2>0, <1>3 DEF Resume
  <2>2. [req[r] EXCEPT !.pc = "lookup", !.base = b] \in Request
      BY <1>0, <2>1, RequestUpdates, PCs
  <2> QED BY <1>0, <1>3, <2>1, <2>2 DEF Resume
<1>4. ASSUME NEW r \in Requests, LookupDocument(r) PROVE TypeOK'
  <2>1. /\ [req[r] EXCEPT !.pc = "insertDocument"] \in Request
        /\ \A d \in Nat : [req[r] EXCEPT !.pc = "check", !.doc = d] \in Request
      BY <1>0, RequestUpdates, PCs
  <2>2. DocumentsNamed(req[r].name) # {} => FirstDocument(req[r].name) \in Nat
      BY <1>0, FirstDocumentMatches DEF DocumentsNamed
  <2> QED BY <1>0, <1>4, <2>1, <2>2 DEF LookupDocument
<1>5. ASSUME NEW r \in Requests, InsertDocument(r) PROVE TypeOK'
  <2>0. Len(documents) + 1 \in Nat
      BY <1>0
  <2>1. [req[r] EXCEPT !.pc = "check", !.doc = Len(documents) + 1] \in Request
      BY <1>0, <2>0, RequestUpdates, PCs
  <2>2. req[r].name \in Names
      BY <1>0 DEF Request
  <2> QED BY <1>0, <1>5, <2>1, <2>2 DEF InsertDocument
<1>6. ASSUME NEW r \in Requests, CheckExisting(r) PROVE TypeOK'
  <2>1. CASE Existing(req[r].doc, req[r].content) = {}
    <3>1. [req[r] EXCEPT !.pc = "number"] \in Request
        BY <1>0, RequestUpdates, PCs
    <3> QED BY <1>0, <1>6, <2>1, <3>1 DEF CheckExisting
  <2>2. CASE Existing(req[r].doc, req[r].content) # {}
    <3>1. PICK v \in versions : Answer(r, 200, v.id, v.number)
        BY <1>6, <2>2 DEF CheckExisting, Existing, VersionsOf
    <3>2. v.id \in Requests /\ v.number \in Nat
        BY <1>0 DEF Version
    <3>3. /\ req' \in [Requests -> Request]
          /\ loop' \in [Workers -> Requests \cup {None}]
        BY <1>0, <3>1, <3>2, AnswerType
    <3> QED BY <1>0, <1>6, <2>2, <3>3, CloseSessionType DEF CheckExisting
  <2> QED BY <2>1, <2>2
<1>7. ASSUME NEW r \in Requests, ReadLatest(r) PROVE TypeOK'
  <2>0. {v.number + 1 : v \in Latest(req[r].doc)} \subseteq Nat
      BY <1>0 DEF Latest, VersionsOf, Version
  <2>1. PICK n \in Nat : req' = [req EXCEPT ![r].pc = "insertVersion", ![r].number = n]
      BY <2>0, <1>7 DEF ReadLatest, FirstNumber
  <2>2. [req[r] EXCEPT !.pc = "insertVersion", !.number = n] \in Request
      BY <1>0, <2>1, RequestUpdates, PCs
  <2> QED BY <1>0, <1>7, <2>1, <2>2 DEF ReadLatest
<1>8. ASSUME NEW r \in Requests, InsertVersion(r) PROVE TypeOK'
  <2>1. CASE ViolatesUnique(req[r].doc, req[r].content)
      BY <1>0, <1>8, <2>1, AnswerType, CloseSessionType DEF InsertVersion
  <2>2. CASE ~ViolatesUnique(req[r].doc, req[r].content)
    <3>1. req[r].doc > 0 /\ req[r].number > 0
        BY <1>0, <1>8 DEF InsertVersion, LocalsInv, Looked, Numbered, OldDocument,
                          OwnDocument
    <3>2. Row(r) \in Version
        BY <1>0, <3>1 DEF Row, Request, Version
    <3>3. [req[r] EXCEPT !.pc = "insertNodes"] \in Request
        BY <1>0, RequestUpdates, PCs
    <3>4. /\ lock' = r
          /\ tx' = [tx EXCEPT !.versions = {Row(r)}]
          /\ req' = [req EXCEPT ![r].pc = "insertNodes"]
          /\ UNCHANGED <<documents, versions, nodes, loop>>
        BY <1>8, <2>2 DEF InsertVersion
    <3> QED BY <1>0, <3>2, <3>3, <3>4
  <2> QED BY <2>1, <2>2
<1>9. ASSUME NEW r \in Requests, InsertNodes(r) PROVE TypeOK'
  <2>1. [req[r] EXCEPT !.pc = "commit"] \in Request
      BY <1>0, RequestUpdates, PCs
  <2> QED BY <1>0, <1>9, <2>1 DEF InsertNodes
<1>10. ASSUME NEW r \in Requests, Commit(r) PROVE TypeOK'
  <2>1. [req[r] EXCEPT !.pc = "reply"] \in Request
      BY <1>0, RequestUpdates, PCs
  <2> QED BY <1>0, <1>10, <2>1 DEF Commit, EmptyTx
<1>11. ASSUME NEW r \in Requests, Reply(r) PROVE TypeOK'
  <2>1. req[r].number \in Nat
      BY <1>0 DEF Request
  <2> QED BY <1>0, <1>11, <2>1, AnswerType DEF Reply
<1>12. ASSUME NEW r \in Requests, LockTimeout(r) PROVE TypeOK'
    BY <1>0, <1>12, AnswerType DEF LockTimeout
<1>13. ASSUME NEW w \in Workers, Crash(w) PROVE TypeOK'
  <2>1. \A r \in Requests : [req[r] EXCEPT !.pc = "done"] \in Request
      BY <1>0, RequestUpdates, PCs
  <2> QED BY <1>0, <1>13, <2>1 DEF Crash, EmptyTx
<1>14. CASE UNCHANGED vars
    BY <1>0, <1>14 DEF vars
<1>15. ASSUME NEW r \in Requests, WriteFails(r) PROVE TypeOK'
  <2>1. CloseSession(r)
      BY <1>15 DEF WriteFails
  <2>2. Answer(r, 500, None, 0) /\ UNCHANGED <<documents, versions, nodes>>
      BY <1>15 DEF WriteFails
  <2> QED BY <1>0, <2>1, <2>2, AnswerType, CloseSessionType
<1> QED BY <1>1, <1>2, <1>3, <1>4, <1>5, <1>6, <1>7, <1>8, <1>9, <1>10, <1>11,
           <1>12, <1>13, <1>14, <1>15 DEF Next, Step, Finished

--------------------------------------------------------------------------------
(* The locals of a request *)

\* What a step of request r does to req: r goes to p with base b, document d
\* and number k, and answers code about version i; the others stay.
Becomes(r, p, b, d, k, code, i) ==
    /\ \A s \in Requests : s # r => req'[s] = req[s]
    /\ req'[r].pc = p /\ req'[r].doc = d /\ req'[r].number = k
    /\ req'[r].status = code /\ req'[r].version = i
    /\ req'[r].name = req[r].name /\ req'[r].content = req[r].content
    /\ req'[r].base = b

LEMMA PcBecomes ==
    ASSUME req \in [Requests -> Request], NEW r \in Requests, NEW p,
           req' = [req EXCEPT ![r].pc = p]
    PROVE  Becomes(r, p, req[r].base, req[r].doc, req[r].number, req[r].status, req[r].version)
BY DEF Becomes, Request

LEMMA BaseBecomes ==
    ASSUME req \in [Requests -> Request], NEW r \in Requests, NEW p, NEW b,
           req' = [req EXCEPT ![r].pc = p, ![r].base = b]
    PROVE  Becomes(r, p, b, req[r].doc, req[r].number, req[r].status, req[r].version)
BY DEF Becomes, Request

LEMMA DocBecomes ==
    ASSUME req \in [Requests -> Request], NEW r \in Requests, NEW p, NEW d,
           req' = [req EXCEPT ![r].pc = p, ![r].doc = d]
    PROVE  Becomes(r, p, req[r].base, d, req[r].number, req[r].status, req[r].version)
BY DEF Becomes, Request

LEMMA NumberBecomes ==
    ASSUME req \in [Requests -> Request], NEW r \in Requests, NEW p, NEW k,
           req' = [req EXCEPT ![r].pc = p, ![r].number = k]
    PROVE  Becomes(r, p, req[r].base, req[r].doc, k, req[r].status, req[r].version)
BY DEF Becomes, Request

LEMMA AnswerBecomes ==
    ASSUME req \in [Requests -> Request], NEW r \in Requests, NEW code, NEW i, NEW k,
           Answer(r, code, i, k)
    PROVE  Becomes(r, "done", req[r].base, req[r].doc, k, code, i)
BY DEF Becomes, Request, Answer

--------------------------------------------------------------------------------
(* The locals fit the rows *)

LEMMA LocalsStep == IInv /\ [Next]_vars => LocalsInv'
<1> SUFFICES ASSUME IInv, [Next]_vars PROVE LocalsInv'
    OBVIOUS
<1>0. /\ TypeOK /\ LocalsInv /\ TxInv
      /\ req \in [Requests -> Request] /\ documents \in Seq(Names)
      /\ None \notin Requests /\ None \notin Names
    BY NoneAssumption DEF IInv, TypeOK
<1> USE DEF LocalsInv, Looked, Numbered, Writing, OldDocument, OwnDocument, Becomes
<1>1. ASSUME NEW r \in Requests, Upload(r) PROVE LocalsInv'
    BY <1>0, <1>1, PcBecomes DEF Upload
<1>2. ASSUME NEW r \in Requests, ParseFails(r) PROVE LocalsInv'
    BY <1>0, <1>2, AnswerBecomes DEF ParseFails
<1>3. ASSUME NEW r \in Requests, Resume(r) PROVE LocalsInv'
  <2>1. PICK b : req' = [req EXCEPT ![r].pc = "lookup", ![r].base = b]
      BY <1>3 DEF Resume
  <2>2. Becomes(r, "lookup", b, req[r].doc, req[r].number, req[r].status,
                req[r].version)
    <3> HIDE DEF Becomes
    <3> QED BY <1>0, <2>1, BaseBecomes
  <2> QED BY <1>0, <1>3, <2>2 DEF Resume
<1>4. ASSUME NEW r \in Requests, LookupDocument(r) PROVE LocalsInv'
  <2>1. UNCHANGED <<documents, versions, tx, lock>> /\ lock # r
      BY <1>0, <1>4 DEF LookupDocument, TxInv
  <2>2. CASE DocumentsNamed(req[r].name) = {}
    <3>1. req' = [req EXCEPT ![r].pc = "insertDocument"]
        BY <1>4, <2>2 DEF LookupDocument
    <3>2. Becomes(r, "insertDocument", req[r].base, req[r].doc, req[r].number,
                  req[r].status, req[r].version)
        BY <1>0, <3>1, PcBecomes
    <3> QED BY <1>0, <1>4, <2>1, <3>2 DEF LookupDocument
  <2>3. CASE DocumentsNamed(req[r].name) # {}
    <3> DEFINE d == FirstDocument(req[r].name)
    <3>1. req' = [req EXCEPT ![r].pc = "check", ![r].doc = d]
        BY <1>4, <2>3 DEF LookupDocument
    <3>2. d \in DOMAIN documents /\ documents[d] = req[r].name
        BY <1>0, <2>3, FirstDocumentMatches DEF DocumentsNamed
    <3> HIDE DEF d
    <3>3. Becomes(r, "check", req[r].base, d, req[r].number, req[r].status,
                  req[r].version)
        BY <1>0, <3>1, DocBecomes
    <3> QED BY <1>0, <1>4, <2>1, <3>2, <3>3 DEF LookupDocument
  <2> QED BY <2>2, <2>3
<1>5. ASSUME NEW r \in Requests, InsertDocument(r) PROVE LocalsInv'
  <2>1. Becomes(r, "check", req[r].base, Len(documents) + 1, req[r].number,
                req[r].status, req[r].version)
      BY <1>0, <1>5, DocBecomes DEF InsertDocument
  <2>2. lock # r /\ tx' = [tx EXCEPT !.document = req[r].name]
      BY <1>0, <1>5 DEF InsertDocument, TxInv
  <2>3. tx'.document = req[r].name
      BY <1>0, <2>2 DEF TypeOK
  <2> QED BY <1>0, <1>5, <2>1, <2>2, <2>3 DEF InsertDocument, CanWrite
<1>6. ASSUME NEW r \in Requests, CheckExisting(r) PROVE LocalsInv'
  <2>1. CASE Existing(req[r].doc, req[r].content) = {}
    <3>1. Becomes(r, "number", req[r].base, req[r].doc, req[r].number,
                  req[r].status, req[r].version)
        BY <1>0, <1>6, <2>1, PcBecomes DEF CheckExisting
    <3> QED BY <1>0, <1>6, <2>1, <3>1 DEF CheckExisting
  <2>2. CASE Existing(req[r].doc, req[r].content) # {}
    <3>1. PICK v : Answer(r, 200, v.id, v.number)
        BY <1>6, <2>2 DEF CheckExisting
    <3>2. Becomes(r, "done", req[r].base, req[r].doc, v.number, 200, v.id)
        BY <1>0, <3>1, AnswerBecomes
    <3>3. CloseSession(r) /\ UNCHANGED <<documents, versions>>
        BY <1>6, <2>2 DEF CheckExisting
    <3> QED BY <1>0, <1>6, <3>2, <3>3 DEF CloseSession
  <2> QED BY <2>1, <2>2
<1>7. ASSUME NEW r \in Requests, ReadLatest(r) PROVE LocalsInv'
  <2>0. \A n \in {v.number + 1 : v \in Latest(req[r].doc)} : n > 0
      BY <1>0 DEF TypeOK, Latest, VersionsOf, Version
  <2>1. \A n \in IF Latest(req[r].doc) = {} THEN {FirstNumber}
                 ELSE {v.number + 1 : v \in Latest(req[r].doc)} : n > 0
      BY <2>0 DEF FirstNumber
  <2>2. PICK n : /\ req' = [req EXCEPT ![r].pc = "insertVersion", ![r].number = n]
                 /\ n > 0
      BY <1>7, <2>1 DEF ReadLatest
  <2>3. Becomes(r, "insertVersion", req[r].base, req[r].doc, n, req[r].status,
                req[r].version)
      BY <1>0, <2>2, NumberBecomes
  <2> QED BY <1>0, <1>7, <2>2, <2>3 DEF ReadLatest
<1>8. ASSUME NEW r \in Requests, InsertVersion(r) PROVE LocalsInv'
  <2>1. CASE ViolatesUnique(req[r].doc, req[r].content)
    <3>1. Becomes(r, "done", req[r].base, req[r].doc, 0, 500, None)
        BY <1>0, <1>8, <2>1, AnswerBecomes DEF InsertVersion
    <3>2. CloseSession(r) /\ UNCHANGED <<documents, versions>>
        BY <1>8, <2>1 DEF InsertVersion
    <3> QED BY <1>0, <1>8, <3>1, <3>2 DEF InsertVersion, CloseSession
  <2>2. CASE ~ViolatesUnique(req[r].doc, req[r].content)
    <3>1. Becomes(r, "insertNodes", req[r].base, req[r].doc, req[r].number,
                  req[r].status, req[r].version)
        BY <1>0, <1>8, <2>2, PcBecomes DEF InsertVersion
    <3>2. /\ lock' = r /\ tx'.document = tx.document
          /\ lock = None => tx.document = None
          /\ lock \in {None, r} /\ UNCHANGED <<documents, versions>>
          /\ req[r].pc = "insertVersion"
        BY <1>0, <1>8, <2>2 DEF InsertVersion, CanWrite, TxInv, EmptyTx, TypeOK
    <3> QED BY <1>0, <3>1, <3>2
  <2> QED BY <2>1, <2>2
<1>9. ASSUME NEW r \in Requests, InsertNodes(r) PROVE LocalsInv'
    BY <1>0, <1>9, PcBecomes DEF InsertNodes, CanWrite, TxInv
<1>10. ASSUME NEW r \in Requests, Commit(r) PROVE LocalsInv'
  <2>1. Becomes(r, "reply", req[r].base, req[r].doc, req[r].number,
                req[r].status, req[r].version)
      BY <1>0, <1>10, PcBecomes DEF Commit
  <2>2. /\ lock = r /\ req[r].pc = "commit" /\ lock' = None
        /\ versions' = versions \cup {Row(r)}
        /\ documents' = IF tx.document = None THEN documents
                        ELSE Append(documents, tx.document)
      BY <1>0, <1>10 DEF Commit, TxInv
  <2>3. tx.document # None => tx.document \in Names
      BY <1>0 DEF TypeOK
  <2>4. \A s \in Requests : OldDocument(s) /\ s # r =>
            /\ req[s].doc \in DOMAIN documents'
            /\ documents'[req[s].doc] = req[s].name
      BY <1>0, <2>2, <2>3
  <2>5. req[r].doc \in DOMAIN documents' /\ documents'[req[r].doc] = req[r].name
    <3>1. req[r].name # None
        BY <1>0 DEF Request
    <3>2. CASE OldDocument(r) /\ tx.document = None
        BY <2>2, <3>2
    <3>3. CASE OwnDocument(r)
        BY <1>0, <2>2, <3>1, <3>3
    <3> QED BY <1>0, <2>2, <3>2, <3>3
  <2>6. \E v \in versions' : /\ v.id = r /\ v.number = req[r].number
                             /\ v.content = req[r].content /\ v.doc = req[r].doc
    <3>1. Row(r) \in versions'
        BY <2>2
    <3>2. /\ Row(r).id = r /\ Row(r).number = req[r].number
          /\ Row(r).content = req[r].content /\ Row(r).doc = req[r].doc
        BY DEF Row
    <3> QED BY <3>1, <3>2
  <2> QED BY <1>0, <2>1, <2>2, <2>4, <2>5, <2>6
<1>11. ASSUME NEW r \in Requests, Reply(r) PROVE LocalsInv'
    BY <1>0, <1>11, AnswerBecomes DEF Reply
<1>12. ASSUME NEW r \in Requests, LockTimeout(r) PROVE LocalsInv'
    BY <1>0, <1>12, AnswerBecomes DEF LockTimeout
<1>13. ASSUME NEW w \in Workers, Crash(w) PROVE LocalsInv'
    BY <1>0, <1>13 DEF Crash, InFlight, TxInv, Request
<1>14. CASE UNCHANGED vars
    BY <1>0, <1>14 DEF vars
<1>15. ASSUME NEW r \in Requests, WriteFails(r) PROVE LocalsInv'
  <2>1. Becomes(r, "done", req[r].base, req[r].doc, 0, 500, None)
      BY <1>0, <1>15, AnswerBecomes DEF WriteFails
  <2>2. CloseSession(r) /\ UNCHANGED <<documents, versions>>
      BY <1>15 DEF WriteFails
  <2> QED BY <1>0, <2>1, <2>2 DEF CloseSession
<1> QED BY <1>1, <1>2, <1>3, <1>4, <1>5, <1>6, <1>7, <1>8, <1>9, <1>10, <1>11,
           <1>12, <1>13, <1>14, <1>15 DEF Next, Step, Finished

--------------------------------------------------------------------------------
(* The open transaction *)

\* A step that leaves tx, lock and versions alone keeps TxInv when its request
\* keeps its row and stays on its side of the version's flush.
LEMMA TxUntouched ==
    ASSUME TxInv, NEW r \in Requests, NEW p, NEW b, NEW d, NEW k, NEW code, NEW i,
           Becomes(r, p, b, d, k, code, i), UNCHANGED <<tx, lock, versions>>,
           lock = r => /\ req[r].pc \notin Writing
                       /\ p \in Looked \ (Writing \cup {"reply"})
    PROVE  TxInv'
<1>1. ASSUME NEW s \in Requests, s # r, lock = s
      PROVE  Row(s)' = Row(s) /\ req'[s] = req[s]
    BY <1>1 DEF Row, Becomes
<1>2. (lock = None => tx = EmptyTx)'
    BY DEF TxInv, EmptyTx
<1>3. ASSUME NEW s \in Requests, lock' = s
      PROVE  (/\ req[s].pc \in Looked \ {"reply"}
              /\ tx.versions = IF req[s].pc \in Writing THEN {Row(s)} ELSE {}
              /\ tx.nodes = IF req[s].pc = "commit" THEN {s} ELSE {}
              /\ req[s].pc \in Writing
                    => ~ViolatesUnique(req[s].doc, req[s].content))'
  <2>1. CASE s = r
      BY <1>3, <2>1 DEF TxInv, Becomes, Writing, Looked
  <2>2. CASE s # r
      BY <1>1, <1>3, <2>2 DEF TxInv, ViolatesUnique
  <2> QED BY <2>1, <2>2
<1> QED BY <1>2, <1>3 DEF TxInv

\* A step that ends with the write lock free and nothing pending keeps TxInv.
LEMMA TxClosed ==
    ASSUME lock' = None, tx' = EmptyTx
    PROVE  TxInv'
BY NoneAssumption DEF TxInv, EmptyTx

LEMMA TxStep == IInv /\ [Next]_vars => TxInv'
<1> SUFFICES ASSUME IInv, [Next]_vars PROVE TxInv'
    OBVIOUS
<1>0. /\ TypeOK /\ LocalsInv /\ TxInv
      /\ req \in [Requests -> Request] /\ None \notin Requests
    BY NoneAssumption DEF IInv, TypeOK
<1>1. ASSUME NEW r \in Requests, Upload(r) PROVE TxInv'
  <2>1. Becomes(r, "parsing", req[r].base, req[r].doc, req[r].number,
                req[r].status, req[r].version)
      BY <1>0, <1>1, PcBecomes DEF Upload
  <2>2. lock # r /\ UNCHANGED <<tx, lock, versions>>
      BY <1>0, <1>1 DEF Upload, TxInv, Looked
  <2> QED BY <1>0, <2>1, <2>2, TxUntouched
<1>2. ASSUME NEW r \in Requests, ParseFails(r) PROVE TxInv'
  <2>1. Becomes(r, "done", req[r].base, req[r].doc, 0, 500, None)
      BY <1>0, <1>2, AnswerBecomes DEF ParseFails
  <2>2. lock # r /\ UNCHANGED <<tx, lock, versions>>
      BY <1>0, <1>2 DEF ParseFails, TxInv, Looked
  <2> QED BY <1>0, <2>1, <2>2, TxUntouched
<1>3. ASSUME NEW r \in Requests, Resume(r) PROVE TxInv'
  <2>1. PICK b : req' = [req EXCEPT ![r].pc = "lookup", ![r].base = b]
      BY <1>3 DEF Resume
  <2>2. Becomes(r, "lookup", b, req[r].doc, req[r].number, req[r].status,
                req[r].version)
      BY <1>0, <2>1, BaseBecomes
  <2>3. lock # r /\ UNCHANGED <<tx, lock, versions>>
      BY <1>0, <1>3 DEF Resume, TxInv, Looked
  <2> QED BY <1>0, <2>2, <2>3, TxUntouched
<1>4. ASSUME NEW r \in Requests, LookupDocument(r) PROVE TxInv'
  <2>1. lock # r /\ UNCHANGED <<tx, lock, versions>>
      BY <1>0, <1>4 DEF LookupDocument, TxInv, Looked
  <2>2. PICK p, d : Becomes(r, p, req[r].base, d, req[r].number, req[r].status,
                            req[r].version)
      BY <1>0, <1>4, PcBecomes, DocBecomes DEF LookupDocument
  <2> QED BY <1>0, <2>1, <2>2, TxUntouched
<1>5. ASSUME NEW r \in Requests, InsertDocument(r) PROVE TxInv'
  <2>1. Becomes(r, "check", req[r].base, Len(documents) + 1, req[r].number,
                req[r].status, req[r].version)
      BY <1>0, <1>5, DocBecomes DEF InsertDocument
  <2>2. lock' = r /\ tx = EmptyTx /\ tx' = [tx EXCEPT !.document = req[r].name]
      BY <1>0, <1>5 DEF InsertDocument, CanWrite, TxInv, Looked
  <2>3. tx'.versions = {} /\ tx'.nodes = {}
      BY <2>2 DEF EmptyTx
  <2> QED BY <1>0, <2>1, <2>2, <2>3 DEF TxInv, Becomes, Looked, Writing
<1>6. ASSUME NEW r \in Requests, CheckExisting(r) PROVE TxInv'
  <2>1. CASE Existing(req[r].doc, req[r].content) = {}
    <3>1. Becomes(r, "number", req[r].base, req[r].doc, req[r].number,
                  req[r].status, req[r].version)
        BY <1>0, <1>6, <2>1, PcBecomes DEF CheckExisting
    <3>2. req[r].pc = "check" /\ UNCHANGED <<tx, lock, versions>>
        BY <1>6, <2>1 DEF CheckExisting
    <3> QED BY <1>0, <3>1, <3>2, TxUntouched DEF Looked, Writing
  <2>2. CASE Existing(req[r].doc, req[r].content) # {}
    <3>1. PICK v : Answer(r, 200, v.id, v.number)
        BY <1>6, <2>2 DEF CheckExisting
    <3>2. Becomes(r, "done", req[r].base, req[r].doc, v.number, 200, v.id)
        BY <1>0, <3>1, AnswerBecomes
    <3>3. CloseSession(r) /\ UNCHANGED versions
        BY <1>6, <2>2 DEF CheckExisting
    <3>4. CASE lock = r
        BY <3>3, <3>4, TxClosed DEF CloseSession
    <3>5. CASE lock # r
        BY <1>0, <3>2, <3>3, <3>5, TxUntouched DEF CloseSession
    <3> QED BY <3>4, <3>5
  <2> QED BY <2>1, <2>2
<1>7. ASSUME NEW r \in Requests, ReadLatest(r) PROVE TxInv'
  <2>1. PICK n : req' = [req EXCEPT ![r].pc = "insertVersion", ![r].number = n]
      BY <1>7 DEF ReadLatest
  <2>2. Becomes(r, "insertVersion", req[r].base, req[r].doc, n, req[r].status,
                req[r].version)
      BY <1>0, <2>1, NumberBecomes
  <2>3. req[r].pc = "number" /\ UNCHANGED <<tx, lock, versions>>
      BY <1>7 DEF ReadLatest
  <2> QED BY <1>0, <2>2, <2>3, TxUntouched DEF Looked, Writing
<1>8. ASSUME NEW r \in Requests, InsertVersion(r) PROVE TxInv'
  <2>1. CASE ViolatesUnique(req[r].doc, req[r].content)
    <3>1. CloseSession(r) /\ CanWrite(r)
        BY <1>8, <2>1 DEF InsertVersion
    <3> QED BY <1>0, <3>1, TxClosed DEF CloseSession, CanWrite, TxInv
  <2>2. CASE ~ViolatesUnique(req[r].doc, req[r].content)
    <3>1. Becomes(r, "insertNodes", req[r].base, req[r].doc, req[r].number,
                  req[r].status, req[r].version)
        BY <1>0, <1>8, <2>2, PcBecomes DEF InsertVersion
    <3>2. /\ lock' = r /\ UNCHANGED versions
          /\ tx'.versions = {Row(r)} /\ tx'.nodes = tx.nodes
        BY <1>0, <1>8, <2>2 DEF InsertVersion, TypeOK
    <3>3. tx.nodes = {}
      <4>1. req[r].pc = "insertVersion" /\ lock \in {None, r}
          BY <1>8 DEF InsertVersion, CanWrite
      <4>2. lock = r => tx.nodes = {}
          BY <1>0, <4>1 DEF TxInv
      <4>3. lock = None => tx.nodes = {}
          BY <1>0 DEF TxInv, EmptyTx
      <4> QED BY <4>1, <4>2, <4>3
    <3>4. Row(r)' = Row(r)
        BY <3>1 DEF Row, Becomes
    <3>5. ~ViolatesUnique(req[r].doc, req[r].content)'
        BY <2>2, <3>1, <3>2 DEF ViolatesUnique, Becomes
    <3> QED BY <1>0, <3>1, <3>2, <3>3, <3>4, <3>5
            DEF TxInv, Becomes, Looked, Writing
  <2> QED BY <2>1, <2>2
<1>9. ASSUME NEW r \in Requests, InsertNodes(r) PROVE TxInv'
  <2>1. Becomes(r, "commit", req[r].base, req[r].doc, req[r].number,
                req[r].status, req[r].version)
      BY <1>0, <1>9, PcBecomes DEF InsertNodes
  <2>2. /\ lock = r /\ lock' = r /\ UNCHANGED versions
        /\ tx'.versions = tx.versions /\ tx'.nodes = {r}
        /\ req[r].pc = "insertNodes"
      BY <1>0, <1>9 DEF InsertNodes, LocalsInv, Writing, TypeOK
  <2>3. Row(r)' = Row(r)
      BY <2>1 DEF Row, Becomes
  <2>4. ~ViolatesUnique(req[r].doc, req[r].content)'
    <3>1. ~ViolatesUnique(req[r].doc, req[r].content)
        BY <1>0, <2>2 DEF TxInv, Writing
    <3>2. req'[r].doc = req[r].doc /\ req'[r].content = req[r].content
        BY <2>1 DEF Becomes
    <3> QED BY <2>2, <3>1, <3>2 DEF ViolatesUnique
  <2> QED BY <1>0, <2>1, <2>2, <2>3, <2>4 DEF TxInv, Becomes, Looked, Writing
<1>10. ASSUME NEW r \in Requests, Commit(r) PROVE TxInv'
    BY <1>10, TxClosed DEF Commit
<1>11. ASSUME NEW r \in Requests, Reply(r) PROVE TxInv'
  <2>1. Becomes(r, "done", req[r].base, req[r].doc, req[r].number, 201, r)
      BY <1>0, <1>11, AnswerBecomes DEF Reply
  <2>2. lock # r /\ UNCHANGED <<tx, lock, versions>>
      BY <1>0, <1>11 DEF Reply, TxInv
  <2> QED BY <1>0, <2>1, <2>2, TxUntouched
<1>12. ASSUME NEW r \in Requests, LockTimeout(r) PROVE TxInv'
  <2>1. Becomes(r, "done", req[r].base, req[r].doc, 0, 500, None)
      BY <1>0, <1>12, AnswerBecomes DEF LockTimeout
  <2>2. lock # r /\ UNCHANGED <<tx, lock, versions>>
      BY <1>0, <1>12 DEF LockTimeout, CanWrite
  <2> QED BY <1>0, <2>1, <2>2, TxUntouched
<1>13. ASSUME NEW w \in Workers, Crash(w) PROVE TxInv'
  <2> DEFINE lost == {r \in Requests : req[r].worker = w /\ InFlight(r)}
  <2>1. CASE lock \in lost
      BY <1>13, <2>1, TxClosed DEF Crash
  <2>2. CASE lock \notin lost
    <3>1. /\ UNCHANGED <<tx, lock, versions>>
          /\ \A s \in Requests : lock = s => req'[s] = req[s]
        BY <1>13, <2>2 DEF Crash
    <3>2. \A s \in Requests : lock = s => Row(s)' = Row(s)
        BY <3>1 DEF Row
    <3> QED BY <1>0, <3>1, <3>2 DEF TxInv, ViolatesUnique, EmptyTx
  <2> QED BY <2>1, <2>2
<1>14. CASE UNCHANGED vars
  <2>1. UNCHANGED <<tx, lock, versions, req>>
      BY <1>14 DEF vars
  <2> QED BY <1>0, <2>1 DEF TxInv, ViolatesUnique, EmptyTx, Row
<1>15. ASSUME NEW r \in Requests, WriteFails(r) PROVE TxInv'
  <2>1. CloseSession(r) /\ CanWrite(r)
      BY <1>15 DEF WriteFails
  <2> QED BY <1>0, <2>1, TxClosed DEF CloseSession, CanWrite, TxInv
<1> QED BY <1>1, <1>2, <1>3, <1>4, <1>5, <1>6, <1>7, <1>8, <1>9, <1>10, <1>11,
           <1>12, <1>13, <1>14, <1>15 DEF Next, Step, Finished

--------------------------------------------------------------------------------
(* The committed rows *)

\* Answers stay truthful while rows are only added and no answer changes.
LEMMA TruthfulKept ==
    ASSUME ResponseTruthful, versions \subseteq versions',
           \A v \in versions : v.doc \in DOMAIN documents =>
               v.doc \in DOMAIN documents' /\ documents'[v.doc] = documents[v.doc],
           \A r \in Requests : req'[r].status \in {200, 201} =>
               /\ req'[r].status = req[r].status /\ req'[r].version = req[r].version
               /\ req'[r].number = req[r].number /\ req'[r].name = req[r].name
               /\ req'[r].content = req[r].content
    PROVE  ResponseTruthful'
BY DEF ResponseTruthful

\* A step of r that commits nothing and keeps r's answer away from success.
LEMMA CommittedUntouched ==
    ASSUME CommittedInv, nodes \subseteq Requests,
           UNCHANGED <<documents, versions, nodes>>, NEW r \in Requests, NEW p, NEW b, NEW d, NEW k, NEW code, NEW i,
           Becomes(r, p, b, d, k, code, i), code \notin {200, 201},
           req[r].pc \notin {"reply", "done"}
    PROVE  CommittedInv'
<1>1. (ContentUniquePerDocument /\ VersionsComplete)'
    BY DEF CommittedInv, ContentUniquePerDocument, VersionsComplete
<1>2. \A s \in Requests : req'[s].status \in {200, 201} => s # r /\ req'[s] = req[s]
    BY DEF Becomes
<1>3. ResponseTruthful'
    BY <1>2, TruthfulKept DEF CommittedInv
<1>4. (\A v \in versions : req[v.id].pc \in {"reply", "done"})'
  <2> SUFFICES ASSUME NEW v \in versions PROVE req'[v.id].pc \in {"reply", "done"}
      OBVIOUS
  <2>1. v.id \in Requests /\ req[v.id].pc \in {"reply", "done"} /\ v.id # r
      BY DEF CommittedInv, VersionsComplete
  <2>2. req'[v.id] = req[v.id]
      BY <2>1 DEF Becomes
  <2> QED BY <2>1, <2>2
<1> QED BY <1>1, <1>3, <1>4 DEF CommittedInv

LEMMA CommittedStep == IInv /\ [Next]_vars => CommittedInv'
<1> SUFFICES ASSUME IInv, [Next]_vars PROVE CommittedInv'
    OBVIOUS
<1>0. /\ TypeOK /\ LocalsInv /\ TxInv /\ CommittedInv /\ nodes \subseteq Requests
      /\ req \in [Requests -> Request] /\ None \notin Requests
    BY NoneAssumption DEF IInv, TypeOK
<1>a. \A r \in Requests : req[r].pc # "done" => req[r].status = 0
    BY <1>0 DEF LocalsInv
<1>1. ASSUME NEW r \in Requests, Upload(r) PROVE CommittedInv'
  <2>1. Becomes(r, "parsing", req[r].base, req[r].doc, req[r].number,
                req[r].status, req[r].version)
      BY <1>0, <1>1, PcBecomes DEF Upload
  <2>2. /\ req[r].pc = "idle" /\ req[r].status = 0
        /\ UNCHANGED <<documents, versions, nodes>>
      BY <1>a, <1>1 DEF Upload
  <2> QED BY <1>0, <2>1, <2>2, CommittedUntouched
<1>2. ASSUME NEW r \in Requests, ParseFails(r) PROVE CommittedInv'
  <2>1. Becomes(r, "done", req[r].base, req[r].doc, 0, 500, None)
      BY <1>0, <1>2, AnswerBecomes DEF ParseFails
  <2>2. req[r].pc = "parsing" /\ UNCHANGED <<documents, versions, nodes>>
      BY <1>2 DEF ParseFails
  <2> QED BY <1>0, <2>1, <2>2, CommittedUntouched
<1>3. ASSUME NEW r \in Requests, Resume(r) PROVE CommittedInv'
  <2>1. PICK b : req' = [req EXCEPT ![r].pc = "lookup", ![r].base = b]
      BY <1>3 DEF Resume
  <2>2. Becomes(r, "lookup", b, req[r].doc, req[r].number, req[r].status,
                req[r].version)
      BY <1>0, <2>1, BaseBecomes
  <2>3. /\ req[r].pc = "parsing" /\ req[r].status = 0
        /\ UNCHANGED <<documents, versions, nodes>>
      BY <1>a, <1>3 DEF Resume
  <2> QED BY <1>0, <2>2, <2>3, CommittedUntouched
<1>4. ASSUME NEW r \in Requests, LookupDocument(r) PROVE CommittedInv'
  <2>1. PICK p, d : Becomes(r, p, req[r].base, d, req[r].number, req[r].status,
                            req[r].version)
      BY <1>0, <1>4, PcBecomes, DocBecomes DEF LookupDocument
  <2>2. /\ req[r].pc = "lookup" /\ req[r].status = 0
        /\ UNCHANGED <<documents, versions, nodes>>
      BY <1>a, <1>4 DEF LookupDocument
  <2> QED BY <1>0, <2>1, <2>2, CommittedUntouched
<1>5. ASSUME NEW r \in Requests, InsertDocument(r) PROVE CommittedInv'
  <2>1. Becomes(r, "check", req[r].base, Len(documents) + 1, req[r].number,
                req[r].status, req[r].version)
      BY <1>0, <1>5, DocBecomes DEF InsertDocument
  <2>2. /\ req[r].pc = "insertDocument" /\ req[r].status = 0
        /\ UNCHANGED <<documents, versions, nodes>>
      BY <1>a, <1>5 DEF InsertDocument
  <2> QED BY <1>0, <2>1, <2>2, CommittedUntouched
<1>6. ASSUME NEW r \in Requests, CheckExisting(r) PROVE CommittedInv'
  <2>0. /\ req[r].pc = "check" /\ req[r].status = 0
        /\ UNCHANGED <<documents, versions, nodes>>
      BY <1>a, <1>6 DEF CheckExisting
  <2>1. CASE Existing(req[r].doc, req[r].content) = {}
    <3>1. Becomes(r, "number", req[r].base, req[r].doc, req[r].number,
                  req[r].status, req[r].version)
        BY <1>0, <1>6, <2>1, PcBecomes DEF CheckExisting
    <3> QED BY <1>0, <2>0, <3>1, CommittedUntouched
  <2>2. CASE Existing(req[r].doc, req[r].content) # {}
    <3>1. PICK v \in versions : /\ Answer(r, 200, v.id, v.number)
                               /\ v.doc = req[r].doc /\ v.content = req[r].content
        BY <1>6, <2>2 DEF CheckExisting, Existing, VersionsOf
    <3>2. Becomes(r, "done", req[r].base, req[r].doc, v.number, 200, v.id)
        BY <1>0, <3>1, AnswerBecomes
    <3>3. v.id \in Requests /\ req[v.id].pc \in {"reply", "done"} /\ v.id # r
          /\ v.doc \in DOMAIN documents
        BY <1>0, <2>0, <3>1 DEF CommittedInv, VersionsComplete
    <3>4. documents[v.doc] = req[r].name
        BY <1>0, <2>0, <3>1, <3>3 DEF LocalsInv, Looked, OldDocument, OwnDocument,
                                      TypeOK
    <3>5. ResponseTruthful'
      <4> SUFFICES ASSUME NEW s \in Requests, req'[s].status \in {200, 201}
                   PROVE  \E u \in versions :
                            /\ u.id = req'[s].version /\ u.number = req'[s].number
                            /\ u.content = req'[s].content
                            /\ u.doc \in DOMAIN documents
                            /\ documents[u.doc] = req'[s].name
                            /\ (req'[s].status = 201) = (u.id = s)
          BY <2>0 DEF ResponseTruthful
      <4>1. CASE s = r
          BY <3>1, <3>2, <3>3, <3>4, <4>1 DEF Becomes
      <4>2. CASE s # r
          BY <1>0, <3>2, <4>2 DEF Becomes, CommittedInv, ResponseTruthful
      <4> QED BY <4>1, <4>2
    <3>6. (ContentUniquePerDocument /\ VersionsComplete)'
        BY <1>0, <2>0 DEF CommittedInv, ContentUniquePerDocument, VersionsComplete
    <3>7. (\A u \in versions : req[u.id].pc \in {"reply", "done"})'
      <4> SUFFICES ASSUME NEW u \in versions
                   PROVE  req'[u.id].pc \in {"reply", "done"}
          BY <2>0
      <4>1. u.id \in Requests /\ req[u.id].pc \in {"reply", "done"} /\ u.id # r
          BY <1>0, <2>0 DEF CommittedInv, VersionsComplete
      <4> QED BY <3>2, <4>1 DEF Becomes
    <3> QED BY <3>5, <3>6, <3>7 DEF CommittedInv
  <2> QED BY <2>1, <2>2
<1>7. ASSUME NEW r \in Requests, ReadLatest(r) PROVE CommittedInv'
  <2>1. PICK n : req' = [req EXCEPT ![r].pc = "insertVersion", ![r].number = n]
      BY <1>7 DEF ReadLatest
  <2>2. Becomes(r, "insertVersion", req[r].base, req[r].doc, n, req[r].status,
                req[r].version)
      BY <1>0, <2>1, NumberBecomes
  <2>3. /\ req[r].pc = "number" /\ req[r].status = 0
        /\ UNCHANGED <<documents, versions, nodes>>
      BY <1>a, <1>7 DEF ReadLatest
  <2> QED BY <1>0, <2>2, <2>3, CommittedUntouched
<1>8. ASSUME NEW r \in Requests, InsertVersion(r) PROVE CommittedInv'
  <2>0. /\ req[r].pc = "insertVersion" /\ req[r].status = 0
        /\ UNCHANGED <<documents, versions, nodes>>
      BY <1>a, <1>8 DEF InsertVersion
  <2>1. CASE ViolatesUnique(req[r].doc, req[r].content)
    <3>1. Becomes(r, "done", req[r].base, req[r].doc, 0, 500, None)
        BY <1>0, <1>8, <2>1, AnswerBecomes DEF InsertVersion
    <3> QED BY <1>0, <2>0, <3>1, CommittedUntouched
  <2>2. CASE ~ViolatesUnique(req[r].doc, req[r].content)
    <3>1. Becomes(r, "insertNodes", req[r].base, req[r].doc, req[r].number,
                  req[r].status, req[r].version)
        BY <1>0, <1>8, <2>2, PcBecomes DEF InsertVersion
    <3> QED BY <1>0, <2>0, <3>1, CommittedUntouched
  <2> QED BY <2>1, <2>2
<1>9. ASSUME NEW r \in Requests, InsertNodes(r) PROVE CommittedInv'
  <2>1. Becomes(r, "commit", req[r].base, req[r].doc, req[r].number,
                req[r].status, req[r].version)
      BY <1>0, <1>9, PcBecomes DEF InsertNodes
  <2>2. /\ req[r].pc = "insertNodes" /\ req[r].status = 0
        /\ UNCHANGED <<documents, versions, nodes>>
      BY <1>a, <1>9 DEF InsertNodes
  <2> QED BY <1>0, <2>1, <2>2, CommittedUntouched
<1>10. ASSUME NEW r \in Requests, Commit(r) PROVE CommittedInv'
  <2>1. Becomes(r, "reply", req[r].base, req[r].doc, req[r].number,
                req[r].status, req[r].version)
      BY <1>0, <1>10, PcBecomes DEF Commit
  <2>2. /\ lock = r /\ req[r].pc = "commit" /\ req[r].status = 0
        /\ versions' = versions \cup {Row(r)} /\ nodes' = nodes \cup {r}
        /\ documents' = IF tx.document = None THEN documents
                        ELSE Append(documents, tx.document)
        /\ ~ViolatesUnique(req[r].doc, req[r].content)
      BY <1>0, <1>a, <1>10 DEF Commit, TxInv, LocalsInv, Writing
  <2>3. documents \in Seq(Names) /\ (tx.document # None => tx.document \in Names)
      BY <1>0 DEF TypeOK
  <2>4. \A d \in DOMAIN documents :
            d \in DOMAIN documents' /\ documents'[d] = documents[d]
      BY <2>2, <2>3
  <2>5. Row(r).id = r /\ Row(r).doc = req[r].doc /\ Row(r).content = req[r].content
      BY DEF Row
  <2>6. req[r].doc \in DOMAIN documents'
    <3>1. req[r].name # None
        BY <1>0, NoneAssumption DEF Request
    <3>2. OldDocument(r) \/ OwnDocument(r)
        BY <1>0, <2>2 DEF LocalsInv, Looked
    <3> QED BY <2>2, <2>3, <3>1, <3>2 DEF OldDocument, OwnDocument
  <2>7. ContentUniquePerDocument'
      BY <1>0, <2>2, <2>5 DEF CommittedInv, ContentUniquePerDocument, ViolatesUnique
  <2>8. VersionsComplete'
    <3>1. \A v \in versions' : v.doc \in DOMAIN documents'
        BY <1>0, <2>2, <2>4, <2>5, <2>6 DEF CommittedInv, VersionsComplete
    <3>2. nodes' = {v.id : v \in versions'}
        BY <1>0, <2>2, <2>5 DEF CommittedInv, VersionsComplete
    <3> QED BY <3>1, <3>2 DEF VersionsComplete
  <2>9. (\A v \in versions : req[v.id].pc \in {"reply", "done"})'
    <3> SUFFICES ASSUME NEW v \in versions' PROVE req'[v.id].pc \in {"reply", "done"}
        OBVIOUS
    <3>1. CASE v = Row(r)
        BY <2>1, <2>5, <3>1 DEF Becomes
    <3>2. CASE v \in versions
      <4>1. v.id \in Requests /\ req[v.id].pc \in {"reply", "done"} /\ v.id # r
          BY <1>0, <2>2, <3>2 DEF CommittedInv, VersionsComplete
      <4> QED BY <2>1, <4>1 DEF Becomes
    <3> QED BY <2>2, <3>1, <3>2
  <2>10. \A s \in Requests : req'[s].status \in {200, 201} => req'[s] = req[s]
      BY <2>1, <2>2 DEF Becomes
  <2>11. ResponseTruthful'
      BY <1>0, <2>2, <2>4, <2>10, TruthfulKept DEF CommittedInv
  <2> QED BY <2>7, <2>8, <2>9, <2>11 DEF CommittedInv
<1>11. ASSUME NEW r \in Requests, Reply(r) PROVE CommittedInv'
  <2>1. Becomes(r, "done", req[r].base, req[r].doc, req[r].number, 201, r)
      BY <1>0, <1>11, AnswerBecomes DEF Reply
  <2>2. req[r].pc = "reply" /\ UNCHANGED <<documents, versions, nodes>>
      BY <1>11 DEF Reply
  <2>3. (ContentUniquePerDocument /\ VersionsComplete)'
      BY <1>0, <2>2 DEF CommittedInv, ContentUniquePerDocument, VersionsComplete
  <2>4. PICK v \in versions : /\ v.id = r /\ v.number = req[r].number
                             /\ v.content = req[r].content /\ v.doc = req[r].doc
      BY <1>0, <2>2 DEF LocalsInv
  <2>5. v.doc \in DOMAIN documents /\ documents[v.doc] = req[r].name
    <3>1. lock # r
        BY <1>0, <2>2 DEF TxInv
    <3> QED BY <1>0, <2>2, <2>4, <3>1 DEF LocalsInv, Looked, OldDocument, OwnDocument
  <2>6. ResponseTruthful'
    <3> SUFFICES ASSUME NEW s \in Requests, req'[s].status \in {200, 201}
                 PROVE  \E u \in versions :
                          /\ u.id = req'[s].version /\ u.number = req'[s].number
                          /\ u.content = req'[s].content
                          /\ u.doc \in DOMAIN documents
                          /\ documents[u.doc] = req'[s].name
                          /\ (req'[s].status = 201) = (u.id = s)
        BY <2>2 DEF ResponseTruthful
    <3>1. CASE s = r
        BY <2>1, <2>4, <2>5, <3>1 DEF Becomes
    <3>2. CASE s # r
        BY <1>0, <2>1, <3>2 DEF Becomes, CommittedInv, ResponseTruthful
    <3> QED BY <3>1, <3>2
  <2>7. (\A u \in versions : req[u.id].pc \in {"reply", "done"})'
    <3> SUFFICES ASSUME NEW u \in versions PROVE req'[u.id].pc \in {"reply", "done"}
        BY <2>2
    <3>1. u.id \in Requests /\ req[u.id].pc \in {"reply", "done"}
        BY <1>0 DEF CommittedInv, VersionsComplete
    <3> QED BY <2>1, <3>1 DEF Becomes
  <2> QED BY <2>3, <2>6, <2>7 DEF CommittedInv
<1>12. ASSUME NEW r \in Requests, LockTimeout(r) PROVE CommittedInv'
  <2>1. Becomes(r, "done", req[r].base, req[r].doc, 0, 500, None)
      BY <1>0, <1>12, AnswerBecomes DEF LockTimeout
  <2>2. /\ req[r].pc \notin {"reply", "done"}
        /\ UNCHANGED <<documents, versions, nodes>>
      BY <1>12 DEF LockTimeout
  <2> QED BY <1>0, <2>1, <2>2, CommittedUntouched
<1>13. ASSUME NEW w \in Workers, Crash(w) PROVE CommittedInv'
  <2>1. UNCHANGED <<documents, versions, nodes>>
      BY <1>13 DEF Crash
  <2>2. \A s \in Requests :
            /\ req'[s].pc \in {req[s].pc, "done"}
            /\ req'[s].status = req[s].status /\ req'[s].version = req[s].version
            /\ req'[s].number = req[s].number /\ req'[s].name = req[s].name
            /\ req'[s].content = req[s].content
      BY <1>0, <1>13 DEF Crash, Request
  <2>3. ResponseTruthful'
      BY <1>0, <2>1, <2>2, TruthfulKept DEF CommittedInv
  <2>4. (ContentUniquePerDocument /\ VersionsComplete)'
      BY <1>0, <2>1 DEF CommittedInv, ContentUniquePerDocument, VersionsComplete
  <2>5. (\A u \in versions : req[u.id].pc \in {"reply", "done"})'
      BY <1>0, <2>1, <2>2 DEF CommittedInv, VersionsComplete
  <2> QED BY <2>3, <2>4, <2>5 DEF CommittedInv
<1>14. CASE UNCHANGED vars
  <2>1. UNCHANGED <<documents, versions, nodes, req>>
      BY <1>14 DEF vars
  <2> QED BY <1>0, <2>1 DEF CommittedInv, ContentUniquePerDocument,
                            VersionsComplete, ResponseTruthful
<1>15. ASSUME NEW r \in Requests, WriteFails(r) PROVE CommittedInv'
  <2>1. Becomes(r, "done", req[r].base, req[r].doc, 0, 500, None)
      BY <1>0, <1>15, AnswerBecomes DEF WriteFails
  <2>2. /\ req[r].pc \notin {"reply", "done"}
        /\ UNCHANGED <<documents, versions, nodes>>
      BY <1>15 DEF WriteFails
  <2> QED BY <1>0, <2>1, <2>2, CommittedUntouched
<1> QED BY <1>1, <1>2, <1>3, <1>4, <1>5, <1>6, <1>7, <1>8, <1>9, <1>10, <1>11,
           <1>12, <1>13, <1>14, <1>15 DEF Next, Step, Finished

--------------------------------------------------------------------------------
(* Theorems *)

\* Before the first upload the store is empty.
LEMMA InitInv == Init => IInv
<1> SUFFICES ASSUME Init PROVE IInv
    OBVIOUS
<1>1. \A r \in Requests :
          /\ req[r] \in Request /\ req[r].pc = "idle" /\ req[r].status = 0
    BY DEF Init, NewRequest, Request, PC
<1>2. TypeOK
    BY <1>1 DEF Init, TypeOK, EmptyTx
<1>3. LocalsInv
    BY <1>1 DEF LocalsInv, Looked, Numbered, Writing
<1>4. TxInv
    BY NoneAssumption DEF Init, TxInv
<1>5. CommittedInv
    BY <1>1 DEF Init, CommittedInv, ContentUniquePerDocument, VersionsComplete,
                ResponseTruthful
<1> QED BY <1>2, <1>3, <1>4, <1>5 DEF IInv

\* The inductive invariant holds in every reachable state.
THEOREM InductiveInvariant == Spec => []IInv
<1>1. IInv /\ [Next]_vars => IInv'
    BY TypeStep, LocalsStep, TxStep, CommittedStep DEF IInv
<1> QED BY <1>1, InitInv, PTL DEF Spec

\* Rows and locals keep their types, for any number of workers and uploads.
THEOREM TypeCorrect == Spec => []TypeOK
BY InductiveInvariant, PTL DEF IInv

\* No document row ever holds the same bytes twice: the unique index is checked
\* and the row committed under one write lock.
THEOREM NoDuplicateContent == Spec => []ContentUniquePerDocument
BY InductiveInvariant, PTL DEF IInv, CommittedInv

\* A crash or a failed flush never leaves a version without its document or its
\* nodes.
THEOREM CompleteVersions == Spec => []VersionsComplete
BY InductiveInvariant, PTL DEF IInv, CommittedInv

\* Every 200 and 201 answer tells the truth about the committed rows.
THEOREM TruthfulAnswers == Spec => []ResponseTruthful
BY InductiveInvariant, PTL DEF IInv, CommittedInv

--------------------------------------------------------------------------------
(* One worker *)

\* From the end of its parse to its answer a request has the event loop: no
\* other request looks at the rows or writes any.

OneWorker == \A v, w \in Workers : v = w

Running == {"lookup", "insertDocument"} \cup (Looked \ {"reply"})

LoopInv ==
    \A r \in Requests :
        req[r].pc \in Running \cup {"reply"} => loop[req[r].worker] = r

\* b is the latest version of the document named n, or None before there is one.
LatestOf(n, b) ==
    \/ b = None /\ \A v \in versions : documents[v.doc] # n
    \/ \E v \in versions : /\ v.id = b /\ documents[v.doc] = n
                           /\ \A u \in VersionsOf(v.doc) : u.number <= v.number

NumbersOf(d) == {v.number : v \in VersionsOf(d)}

\* What a request q that runs has read still holds.
UpToDate(q) ==
    /\ LatestOf(q.name, q.base)
    /\ q.pc = "insertDocument" => DocumentsNamed(q.name) = {}
    /\ q.pc \in Looked =>
         \/ q.doc \in DOMAIN documents /\ documents[q.doc] = q.name
         \/ q.doc = Len(documents) + 1 /\ DocumentsNamed(q.name) = {}
    /\ q.pc \in {"number"} \cup Numbered => Existing(q.doc, q.content) = {}
    /\ q.pc \in Numbered => NumbersOf(q.doc) = 1..(q.number - 1)

RunInv == \A r \in Requests : req[r].pc \in Running => UpToDate(req[r])

OneRow == \A d, e \in DOMAIN documents : documents[d] = documents[e] => d = e

Gapless == \A d \in DOMAIN documents : \E k \in Nat : NumbersOf(d) = 1..k

SoloInv == LoopInv /\ RunInv /\ OneRow /\ Gapless /\ MatchedAgainstPredecessor

\* The event loop belongs to the request it runs.
LEMMA LoopStep == TypeOK /\ LoopInv /\ [Next]_vars => LoopInv'
<1> SUFFICES ASSUME TypeOK, LoopInv, [Next]_vars PROVE LoopInv'
    OBVIOUS
<1>0. /\ req \in [Requests -> Request] /\ loop \in [Workers -> Requests \cup {None}]
      /\ None \notin Requests /\ \A r \in Requests : req[r].worker \in Workers
    BY NoneAssumption DEF TypeOK, Request
<1> USE DEF LoopInv, Running, Looked
<1>1. ASSUME NEW r \in Requests, NEW code, NEW i, NEW k, Answer(r, code, i, k),
             req[r].pc \in Running \cup {"reply"} \/ LoopFree(req[r].worker)
      PROVE  LoopInv'
  <2>1. \A s \in Requests : req'[s].worker = req[s].worker
      BY <1>0, <1>1 DEF Answer
  <2>2. req'[r].pc = "done" /\ \A s \in Requests : s # r => req'[s] = req[s]
      BY <1>0, <1>1 DEF Answer
  <2>3. \A w \in Workers : w # req[r].worker => loop'[w] = loop[w]
      BY <1>0, <1>1 DEF Answer
  <2>4. ASSUME NEW s \in Requests, s # r, req[s].pc \in Running \cup {"reply"}
        PROVE  req[s].worker # req[r].worker
      BY <1>0, <1>1, <2>4 DEF LoopFree
  <2> QED BY <1>0, <2>1, <2>2, <2>3, <2>4
<1>2. ASSUME UNCHANGED loop, NEW r \in Requests, req[r].pc \in Running,
             \A s \in Requests : s # r => req'[s] = req[s],
             req'[r].worker = req[r].worker
      PROVE  LoopInv'
    BY <1>2
<1>3. ASSUME NEW r \in Requests, Upload(r) PROVE LoopInv'
    BY <1>0, <1>3 DEF Upload
<1>4. ASSUME NEW r \in Requests, ParseFails(r) PROVE LoopInv'
    BY <1>1, <1>4 DEF ParseFails
<1>5. ASSUME NEW r \in Requests, Resume(r) PROVE LoopInv'
  <2>1. /\ \A s \in Requests : s # r => req'[s] = req[s]
        /\ req'[r].worker = req[r].worker /\ loop[req[r].worker] = None
        /\ loop' = [loop EXCEPT ![req[r].worker] = r]
      BY <1>0, <1>5 DEF Resume, LoopFree
  <2>2. ASSUME NEW s \in Requests, s # r, req[s].pc \in Running \cup {"reply"}
        PROVE  req[s].worker # req[r].worker
      BY <1>0, <2>1, <2>2
  <2> QED BY <1>0, <2>1, <2>2
<1>6. ASSUME NEW r \in Requests,
             \/ LookupDocument(r) \/ InsertDocument(r) \/ ReadLatest(r)
             \/ InsertNodes(r) \/ Commit(r)
      PROVE  LoopInv'
  <2>1. UNCHANGED loop /\ req[r].pc \in Running
      BY <1>6 DEF LookupDocument, InsertDocument, ReadLatest, InsertNodes, Commit
  <2>2. /\ \A s \in Requests : s # r => req'[s] = req[s]
        /\ req'[r].worker = req[r].worker
    <3>1. CASE LookupDocument(r)
      <4>1. \/ req' = [req EXCEPT ![r].pc = "insertDocument"]
            \/ req' = [req EXCEPT ![r].pc = "check", ![r].doc = FirstDocument(req[r].name)]
          BY <3>1 DEF LookupDocument
      <4>2. CASE req' = [req EXCEPT ![r].pc = "insertDocument"]
          BY <1>0, <4>2
      <4>3. CASE req' = [req EXCEPT ![r].pc = "check", ![r].doc = FirstDocument(req[r].name)]
          BY <1>0, <4>3
      <4> QED BY <4>1, <4>2, <4>3
    <3>2. CASE InsertDocument(r)
      <4>1. req' = [req EXCEPT ![r].pc = "check", ![r].doc = Len(documents) + 1]
          BY <3>2 DEF InsertDocument
      <4> QED BY <1>0, <4>1
    <3>3. CASE ReadLatest(r)
      <4>1. PICK n : req' = [req EXCEPT ![r].pc = "insertVersion", ![r].number = n]
          BY <3>3 DEF ReadLatest
      <4> QED BY <1>0, <4>1
    <3>4. CASE InsertNodes(r)
      <4>1. req' = [req EXCEPT ![r].pc = "commit"]
          BY <3>4 DEF InsertNodes
      <4> QED BY <1>0, <4>1
    <3>5. CASE Commit(r)
      <4>1. req' = [req EXCEPT ![r].pc = "reply"]
          BY <3>5 DEF Commit
      <4> QED BY <1>0, <4>1
    <3> QED BY <1>6, <3>1, <3>2, <3>3, <3>4, <3>5
  <2> QED BY <1>2, <2>1, <2>2
<1>7. ASSUME NEW r \in Requests, CheckExisting(r) PROVE LoopInv'
  <2>1. CASE Existing(req[r].doc, req[r].content) = {}
    <3>1. UNCHANGED loop /\ req[r].pc \in Running /\ req' = [req EXCEPT ![r].pc = "number"]
        BY <1>7, <2>1 DEF CheckExisting
    <3> QED BY <1>0, <1>2, <3>1
  <2>2. CASE Existing(req[r].doc, req[r].content) # {}
      BY <1>1, <1>7, <2>2 DEF CheckExisting
  <2> QED BY <2>1, <2>2
<1>8. ASSUME NEW r \in Requests, InsertVersion(r) PROVE LoopInv'
  <2>1. CASE ViolatesUnique(req[r].doc, req[r].content)
      BY <1>1, <1>8, <2>1 DEF InsertVersion
  <2>2. CASE ~ViolatesUnique(req[r].doc, req[r].content)
    <3>1. /\ UNCHANGED loop /\ req[r].pc \in Running
          /\ req' = [req EXCEPT ![r].pc = "insertNodes"]
        BY <1>8, <2>2 DEF InsertVersion
    <3> QED BY <1>0, <1>2, <3>1
  <2> QED BY <2>1, <2>2
<1>9. ASSUME NEW r \in Requests, Reply(r) \/ WriteFails(r) \/ LockTimeout(r) PROVE LoopInv'
  <2>1. PICK code, i, k : Answer(r, code, i, k)
      BY <1>9 DEF Reply, WriteFails, LockTimeout
  <2>2. req[r].pc \in Running \cup {"reply"}
      BY <1>9 DEF Reply, WriteFails, LockTimeout
  <2> QED BY <1>1, <2>1, <2>2
<1>10. ASSUME NEW w \in Workers, Crash(w) PROVE LoopInv'
  <2>1. \A s \in Requests :
          /\ req'[s].worker = req[s].worker
          /\ req'[s].pc = req[s].pc \/ req'[s].pc = "done"
          /\ req[s].worker = w /\ InFlight(s) => req'[s].pc = "done"
      BY <1>0, <1>10 DEF Crash, Request
  <2>2. \A v \in Workers : v # w => loop'[v] = loop[v]
      BY <1>0, <1>10 DEF Crash
  <2> QED BY <1>0, <2>1, <2>2 DEF InFlight
<1>11. CASE UNCHANGED vars
    BY <1>11 DEF vars
<1> QED BY <1>3, <1>4, <1>5, <1>6, <1>7, <1>8, <1>9, <1>10, <1>11 DEF Next, Step, Finished

\* With one worker a request that runs runs alone.
LEMMA RunsAlone ==
    ASSUME TypeOK, LoopInv, OneWorker, NEW r \in Requests, NEW s \in Requests,
           req[r].pc \in Running \cup {"reply"}, req[s].pc \in Running \cup {"reply"}
    PROVE  r = s
<1>1. req[r].worker \in Workers /\ req[s].worker \in Workers
    BY DEF TypeOK, Request
<1>2. req[r].worker = req[s].worker
    BY <1>1 DEF OneWorker
<1>3. loop[req[r].worker] = r /\ loop[req[s].worker] = s
    BY DEF LoopInv
<1> QED BY <1>2, <1>3

--------------------------------------------------------------------------------
(* What the queries return when numbers have no gap *)

LEMMA NumbersAt ==
    ASSUME TypeOK, VersionsComplete, Gapless, NEW d
    PROVE  \E k \in Nat :
             /\ NumbersOf(d) = 1..k
             /\ \A v \in VersionsOf(d) : v.number \in 1..k
             /\ \A v \in Latest(d) : v \in VersionsOf(d) /\ v.number = k /\ k > 0
             /\ Latest(d) = {} => k = 0 /\ VersionsOf(d) = {}
<1>1. PICK k \in Nat : NumbersOf(d) = 1..k
  <2>1. CASE d \in DOMAIN documents
      BY <2>1 DEF Gapless
  <2>2. CASE d \notin DOMAIN documents
    <3>1. VersionsOf(d) = {}
        BY <2>2 DEF VersionsOf, VersionsComplete
    <3>2. NumbersOf(d) = 1..0
        BY <3>1 DEF NumbersOf
    <3> QED BY <3>2
  <2> QED BY <2>1, <2>2
<1>2. \A v \in VersionsOf(d) : v.number \in 1..k
    BY <1>1 DEF NumbersOf
<1>3. ASSUME k > 0
      PROVE  \E v \in VersionsOf(d) : v.number = k
  <2>1. k \in NumbersOf(d)
      BY <1>1, <1>3
  <2> QED BY <2>1 DEF NumbersOf
<1>4. \A v \in VersionsOf(d) : k > 0
    BY <1>2
<1>5. ASSUME NEW v \in Latest(d)
      PROVE  v \in VersionsOf(d) /\ v.number = k /\ k > 0
  <2>1. v \in VersionsOf(d) /\ \A u \in VersionsOf(d) : v.number >= u.number
      BY DEF Latest, LatestFirst
  <2>2. PICK u \in VersionsOf(d) : u.number = k
      BY <1>3, <1>4, <2>1
  <2> QED BY <1>2, <1>4, <2>1, <2>2
<1>6. ASSUME Latest(d) = {}
      PROVE  k = 0 /\ VersionsOf(d) = {}
  <2>1. k = 0
    <3> SUFFICES ASSUME k > 0 PROVE FALSE
        OBVIOUS
    <3>1. PICK v \in VersionsOf(d) : v.number = k
        BY <1>3
    <3>2. v \in Latest(d)
        BY <1>2, <3>1 DEF Latest, LatestFirst
    <3> QED BY <1>6, <3>2
  <2> QED BY <1>4, <2>1
<1> QED BY <1>1, <1>2, <1>5, <1>6

LEMMA ResumeReadsLatest ==
    ASSUME TypeOK, VersionsComplete, OneRow, Gapless, NEW r \in Requests, Resume(r)
    PROVE  \E b \in Requests \cup {None} :
             /\ LatestOf(req[r].name, b)
             /\ req' = [req EXCEPT ![r].pc = "lookup", ![r].base = b]
<1> DEFINE n == req[r].name
           prev == IF DocumentsNamed(n) = {} THEN {} ELSE Latest(FirstDocument(n))
<1>0. documents \in Seq(Names) /\ versions \subseteq Version
    BY DEF TypeOK
<1>1. PICK b \in IF prev = {} THEN {None} ELSE {v.id : v \in prev} :
        req' = [req EXCEPT ![r].pc = "lookup", ![r].base = b]
    BY DEF Resume
<1>2. b \in Requests \cup {None}
    BY <1>0, <1>1 DEF Latest, VersionsOf, Version
<1>3. CASE DocumentsNamed(n) = {}
  <2>1. b = None
      BY <1>1, <1>3
  <2>2. \A v \in versions : documents[v.doc] # n
      BY <1>3 DEF VersionsComplete, DocumentsNamed
  <2> QED BY <1>1, <1>2, <2>1, <2>2 DEF LatestOf
<1>4. CASE DocumentsNamed(n) # {}
  <2>1. PICK d : d = FirstDocument(n)
      OBVIOUS
  <2>2. d \in DOMAIN documents /\ documents[d] = n
      BY <1>0, <1>4, <2>1, FirstDocumentMatches DEF DocumentsNamed
  <2>3. PICK k \in Nat :
          /\ \A v \in VersionsOf(d) : v.number \in 1..k
          /\ \A v \in Latest(d) : v \in VersionsOf(d) /\ v.number = k /\ k > 0
          /\ Latest(d) = {} => k = 0 /\ VersionsOf(d) = {}
      BY NumbersAt
  <2>4. CASE Latest(d) = {}
    <3>1. b = None /\ VersionsOf(d) = {}
        BY <1>1, <1>4, <2>1, <2>3, <2>4
    <3>2. \A v \in versions : documents[v.doc] # n
        BY <2>2, <3>1 DEF VersionsComplete, OneRow, VersionsOf
    <3> QED BY <1>1, <1>2, <3>1, <3>2 DEF LatestOf
  <2>5. CASE Latest(d) # {}
    <3>1. PICK v \in Latest(d) : v.id = b
        BY <1>1, <1>4, <2>1, <2>5
    <3>2. v \in VersionsOf(d) /\ v.number = k
        BY <2>3, <3>1
    <3>3. v \in versions /\ v.doc = d /\ \A u \in VersionsOf(v.doc) : u.number <= v.number
        BY <2>3, <3>2 DEF VersionsOf
    <3>4. LatestOf(n, b)
        BY <2>2, <3>1, <3>3 DEF LatestOf
    <3> QED BY <1>1, <1>2, <3>4
  <2> QED BY <2>4, <2>5
<1> QED BY <1>3, <1>4

--------------------------------------------------------------------------------
(* What a request has read holds until it answers *)

\* A step of r that commits nothing leaves the rows the others have read.
LEMMA RunKept ==
    ASSUME RunInv, UNCHANGED <<documents, versions>>, NEW r \in Requests, NEW p, NEW b, NEW d,
           NEW k, NEW code, NEW i, Becomes(r, p, b, d, k, code, i),
           p \in Running => UpToDate(req'[r])
    PROVE  RunInv'
<1>1. \A s \in Requests : req'[s].pc \in Running => UpToDate(req'[s])
    BY DEF Becomes, RunInv
<1> QED BY <1>1 DEF RunInv, UpToDate, LatestOf, VersionsOf, DocumentsNamed, Existing, NumbersOf

LEMMA RunStep ==
    ASSUME IInv, RunInv, LoopInv, OneRow, Gapless, OneWorker, Next
    PROVE  RunInv'
<1>0. /\ TypeOK /\ LocalsInv /\ VersionsComplete /\ req \in [Requests -> Request]
      /\ documents \in Seq(Names)
    BY DEF IInv, CommittedInv, TypeOK
<1> USE DEF Running, Looked, Numbered
<1>1. ASSUME NEW r \in Requests, Upload(r) PROVE RunInv'
  <2>1. Becomes(r, "parsing", req[r].base, req[r].doc, req[r].number, req[r].status, req[r].version)
      BY <1>0, <1>1, PcBecomes DEF Upload
  <2> QED BY <1>1, <2>1, RunKept DEF Upload
<1>2. ASSUME NEW r \in Requests, NEW code, NEW i, NEW k, Answer(r, code, i, k),
             UNCHANGED <<documents, versions>>
      PROVE  RunInv'
  <2>1. Becomes(r, "done", req[r].base, req[r].doc, k, code, i)
      BY <1>0, <1>2, AnswerBecomes
  <2> QED BY <1>2, <2>1, RunKept
<1>3. ASSUME NEW r \in Requests, Resume(r) PROVE RunInv'
  <2>1. PICK b \in Requests \cup {None} :
          /\ LatestOf(req[r].name, b)
          /\ req' = [req EXCEPT ![r].pc = "lookup", ![r].base = b]
      BY <1>0, <1>3, ResumeReadsLatest
  <2>2. Becomes(r, "lookup", b, req[r].doc, req[r].number, req[r].status, req[r].version)
      BY <1>0, <2>1, BaseBecomes
  <2>3. UpToDate(req'[r])
      BY <2>1, <2>2 DEF UpToDate, Becomes
  <2> QED BY <1>3, <2>2, <2>3, RunKept DEF Resume
<1>4. ASSUME NEW r \in Requests, LookupDocument(r) PROVE RunInv'
  <2>1. req[r].pc = "lookup" /\ UpToDate(req[r]) /\ UNCHANGED <<documents, versions>>
      BY <1>4 DEF LookupDocument, RunInv
  <2>2. CASE DocumentsNamed(req[r].name) = {}
    <3>1. req' = [req EXCEPT ![r].pc = "insertDocument"]
        BY <1>4, <2>2 DEF LookupDocument
    <3>2. Becomes(r, "insertDocument", req[r].base, req[r].doc, req[r].number,
                  req[r].status, req[r].version)
        BY <1>0, <3>1, PcBecomes
    <3>3. UpToDate(req'[r])
        BY <2>1, <2>2, <3>2 DEF UpToDate, Becomes
    <3> QED BY <2>1, <3>2, <3>3, RunKept
  <2>3. CASE DocumentsNamed(req[r].name) # {}
    <3>1. PICK d : d = FirstDocument(req[r].name)
        OBVIOUS
    <3>2. d \in DOMAIN documents /\ documents[d] = req[r].name
        BY <1>0, <2>3, <3>1, FirstDocumentMatches DEF DocumentsNamed
    <3>3. req' = [req EXCEPT ![r].pc = "check", ![r].doc = d]
        BY <1>4, <2>3, <3>1 DEF LookupDocument
    <3>4. Becomes(r, "check", req[r].base, d, req[r].number, req[r].status, req[r].version)
        BY <1>0, <3>3, DocBecomes
    <3>5. UpToDate(req'[r])
        BY <2>1, <3>2, <3>4 DEF UpToDate, Becomes
    <3> QED BY <2>1, <3>4, <3>5, RunKept
  <2> QED BY <2>2, <2>3
<1>5. ASSUME NEW r \in Requests, InsertDocument(r) PROVE RunInv'
  <2>1. /\ req[r].pc = "insertDocument" /\ UpToDate(req[r]) /\ UNCHANGED <<documents, versions>>
        /\ req' = [req EXCEPT ![r].pc = "check", ![r].doc = Len(documents) + 1]
      BY <1>5 DEF InsertDocument, RunInv
  <2>2. Becomes(r, "check", req[r].base, Len(documents) + 1, req[r].number, req[r].status,
                req[r].version)
      BY <1>0, <2>1, DocBecomes
  <2>3. UpToDate(req'[r])
      BY <2>1, <2>2 DEF UpToDate, Becomes
  <2> QED BY <2>1, <2>2, <2>3, RunKept
<1>6. ASSUME NEW r \in Requests, CheckExisting(r) PROVE RunInv'
  <2>1. req[r].pc = "check" /\ UpToDate(req[r]) /\ UNCHANGED <<documents, versions>>
      BY <1>6 DEF CheckExisting, RunInv
  <2>2. CASE Existing(req[r].doc, req[r].content) = {}
    <3>1. req' = [req EXCEPT ![r].pc = "number"]
        BY <1>6, <2>2 DEF CheckExisting
    <3>2. Becomes(r, "number", req[r].base, req[r].doc, req[r].number, req[r].status,
                  req[r].version)
        BY <1>0, <3>1, PcBecomes
    <3>3. UpToDate(req'[r])
        BY <2>1, <2>2, <3>2 DEF UpToDate, Becomes
    <3> QED BY <2>1, <3>2, <3>3, RunKept
  <2>3. CASE Existing(req[r].doc, req[r].content) # {}
      BY <1>2, <1>6, <2>1, <2>3 DEF CheckExisting
  <2> QED BY <2>2, <2>3
<1>7. ASSUME NEW r \in Requests, ReadLatest(r) PROVE RunInv'
  <2>1. req[r].pc = "number" /\ UpToDate(req[r]) /\ UNCHANGED <<documents, versions>>
      BY <1>7 DEF ReadLatest, RunInv
  <2>2. PICK d : d = req[r].doc
      OBVIOUS
  <2>3. PICK k \in Nat :
          /\ NumbersOf(d) = 1..k
          /\ \A v \in Latest(d) : v \in VersionsOf(d) /\ v.number = k /\ k > 0
          /\ Latest(d) = {} => k = 0 /\ VersionsOf(d) = {}
      BY <1>0, NumbersAt
  <2>4. PICK n \in IF Latest(d) = {} THEN {1} ELSE {v.number + 1 : v \in Latest(d)} :
          req' = [req EXCEPT ![r].pc = "insertVersion", ![r].number = n]
      BY <1>7, <2>2 DEF ReadLatest, FirstNumber
  <2>5. n = k + 1 /\ n - 1 = k
      BY <2>3, <2>4
  <2>6. Becomes(r, "insertVersion", req[r].base, d, n, req[r].status, req[r].version)
      BY <1>0, <2>2, <2>4, NumberBecomes
  <2>7. UpToDate(req'[r])
    <3>1. Existing(d, req[r].content) = {} /\ LatestOf(req[r].name, req[r].base)
          /\ (\/ d \in DOMAIN documents /\ documents[d] = req[r].name
              \/ d = Len(documents) + 1 /\ DocumentsNamed(req[r].name) = {})
        BY <2>1, <2>2 DEF UpToDate
    <3>2. PICK q : q = req'[r]
        OBVIOUS
    <3>3. q.pc = "insertVersion" /\ q.doc = d /\ q.number = n /\ q.name = req[r].name
            /\ q.content = req[r].content /\ q.base = req[r].base
        BY <2>6, <3>2 DEF Becomes
    <3>4. NumbersOf(q.doc) = 1..(q.number - 1)
        BY <2>3, <2>5, <3>3
    <3> QED BY <3>1, <3>2, <3>3, <3>4 DEF UpToDate
  <2> QED BY <2>1, <2>6, <2>7, RunKept
<1>8. ASSUME NEW r \in Requests, NEW p, UpToDate(req[r]),
             req[r].pc \in Numbered, p \in {"insertNodes", "commit"},
             req' = [req EXCEPT ![r].pc = p], UNCHANGED <<documents, versions>>
      PROVE  RunInv'
  <2>1. Becomes(r, p, req[r].base, req[r].doc, req[r].number, req[r].status, req[r].version)
      BY <1>0, <1>8, PcBecomes
  <2>2. UpToDate(req'[r])
      BY <1>8, <2>1 DEF UpToDate, Becomes
  <2> QED BY <1>8, <2>1, <2>2, RunKept
<1>9. ASSUME NEW r \in Requests, InsertVersion(r) PROVE RunInv'
  <2>1. req[r].pc = "insertVersion" /\ UpToDate(req[r]) /\ UNCHANGED <<documents, versions>>
      BY <1>9 DEF InsertVersion, RunInv
  <2>2. CASE ViolatesUnique(req[r].doc, req[r].content)
      BY <1>2, <1>9, <2>1, <2>2 DEF InsertVersion
  <2>3. CASE ~ViolatesUnique(req[r].doc, req[r].content)
    <3>1. req' = [req EXCEPT ![r].pc = "insertNodes"]
        BY <1>9, <2>3 DEF InsertVersion
    <3> QED BY <1>8, <2>1, <3>1
  <2> QED BY <2>2, <2>3
<1>10. ASSUME NEW r \in Requests, InsertNodes(r) PROVE RunInv'
    BY <1>8, <1>10 DEF InsertNodes, RunInv
<1>11. ASSUME NEW r \in Requests, Commit(r) PROVE RunInv'
  <2>1. Becomes(r, "reply", req[r].base, req[r].doc, req[r].number, req[r].status, req[r].version)
      BY <1>0, <1>11, PcBecomes DEF Commit
  <2>2. \A s \in Requests : s # r => req[s].pc \notin Running
      BY <1>0, <1>11, RunsAlone DEF Commit
  <2> QED BY <2>1, <2>2 DEF RunInv, Becomes
<1>12. ASSUME NEW r \in Requests, ParseFails(r) \/ Reply(r) \/ WriteFails(r) \/ LockTimeout(r)
       PROVE  RunInv'
    BY <1>2, <1>12 DEF ParseFails, Reply, WriteFails, LockTimeout
<1>13. ASSUME NEW w \in Workers, Crash(w) PROVE RunInv'
  <2>1. UNCHANGED <<documents, versions>>
      BY <1>13 DEF Crash
  <2>2. \A s \in Requests : req'[s] = req[s] \/ req'[s].pc = "done"
      BY <1>0, <1>13 DEF Crash, Request
  <2>3. \A s \in Requests : req'[s].pc \in Running => UpToDate(req'[s])
      BY <2>2 DEF RunInv
  <2> QED BY <2>1, <2>3
          DEF RunInv, UpToDate, LatestOf, VersionsOf, DocumentsNamed, Existing, NumbersOf
<1>14. CASE Finished
  <2>1. UNCHANGED <<documents, versions, req>>
      BY <1>14 DEF Finished, vars
  <2> QED BY <2>1 DEF RunInv, UpToDate, LatestOf, VersionsOf, DocumentsNamed, Existing, NumbersOf
<1> QED BY <1>1, <1>3, <1>4, <1>5, <1>6, <1>7, <1>9, <1>10, <1>11, <1>12, <1>13, <1>14
        DEF Next, Step

--------------------------------------------------------------------------------
(* The rows a commit adds *)

\* The new row n follows the versions 1..k of its document d named m; the old
\* documents stay where they are.
Publishes(r, d, m, k) ==
    /\ versions' = versions \cup {Row(r)}
    /\ Row(r).doc = d /\ Row(r).number = k + 1 /\ Row(r).base = req[r].base
    /\ Row(r).content = req[r].content /\ Row(r).id = r /\ m = req[r].name
    /\ k \in Nat /\ NumbersOf(d) = 1..k /\ Existing(d, req[r].content) = {}
    /\ LatestOf(m, req[r].base)
    /\ \A e \in DOMAIN documents : e \in DOMAIN documents' /\ documents'[e] = documents[e]
    /\ DOMAIN documents' = DOMAIN documents \cup {d}
    /\ documents'[d] = m
    /\ d \notin DOMAIN documents => DocumentsNamed(m) = {}

LEMMA CommitPublishes ==
    ASSUME IInv, RunInv, NEW r \in Requests, Commit(r)
    PROVE  \E d, m, k : Publishes(r, d, m, k)
<1>0. /\ documents \in Seq(Names) /\ req[r] \in Request /\ req[r].pc = "commit"
      /\ None \notin Names
    BY NoneAssumption DEF IInv, TypeOK, Commit
<1>1. /\ lock = r /\ req[r].number > 0
      /\ \/ OldDocument(r) /\ (lock = r => tx.document = None)
         \/ OwnDocument(r)
    BY <1>0 DEF IInv, LocalsInv, Looked, Numbered, Writing
<1>2. tx.versions = {Row(r)}
    BY <1>0, <1>1 DEF IInv, TxInv, Writing
<1>3. UpToDate(req[r])
    BY <1>0 DEF RunInv, Running, Looked
<1> PICK d : d = req[r].doc
    OBVIOUS
<1> PICK m : m = req[r].name
    OBVIOUS
<1> PICK N \in Nat : N = Len(documents)
    BY <1>0
<1>4. DOMAIN documents = 1..N /\ m \in Names
    BY <1>0 DEF Request
<1>5. /\ LatestOf(m, req[r].base) /\ Existing(d, req[r].content) = {}
      /\ NumbersOf(d) = 1..(req[r].number - 1)
      /\ d \in 1..N \/ (d = N + 1 /\ DocumentsNamed(m) = {})
    BY <1>0, <1>3, <1>4 DEF UpToDate, Looked, Numbered
<1>6. req[r].number \in Nat /\ req[r].number - 1 \in Nat
        /\ req[r].number = (req[r].number - 1) + 1
  <2>1. req[r].number \in Nat
      BY <1>0 DEF Request
  <2> QED BY <1>1, <2>1
<1>7. /\ Row(r).doc = d /\ Row(r).number = req[r].number /\ Row(r).base = req[r].base
      /\ Row(r).content = req[r].content /\ Row(r).id = r
    BY DEF Row
<1>8. /\ \A e \in 1..N : e \in DOMAIN documents' /\ documents'[e] = documents[e]
      /\ DOMAIN documents' = 1..N \cup {d} /\ documents'[d] = m
  <2>1. CASE OldDocument(r) /\ (lock = r => tx.document = None)
    <3>1. documents' = documents
        BY <1>1, <2>1 DEF Commit
    <3>2. d \in 1..N /\ documents[d] = m
        BY <1>4, <2>1 DEF OldDocument
    <3> QED BY <1>4, <3>1, <3>2
  <2>2. CASE OwnDocument(r)
    <3>1. tx.document = m /\ d = N + 1
        BY <2>2 DEF OwnDocument
    <3>2. documents' = Append(documents, m)
        BY <1>0, <1>4, <3>1 DEF Commit
    <3>3. Len(documents') = N + 1 /\ DOMAIN documents' = 1..(N + 1) /\ documents'[N + 1] = m
          /\ \A e \in 1..N : documents'[e] = documents[e]
        BY <1>0, <1>4, <3>2
    <3>4. 1..(N + 1) = 1..N \cup {N + 1}
        OBVIOUS
    <3> QED BY <3>1, <3>3, <3>4
  <2> QED BY <1>1, <2>1, <2>2
<1>9. versions' = versions \cup {Row(r)}
    BY <1>2 DEF Commit
<1>10. d \notin 1..N => DocumentsNamed(m) = {}
    BY <1>5
<1>11. Publishes(r, d, m, req[r].number - 1)
    BY <1>4, <1>5, <1>6, <1>7, <1>8, <1>9, <1>10 DEF Publishes
<1> QED BY <1>11

\* Until the commit a document to be inserted has no versions.
LEMMA PublishedOnes ==
    ASSUME VersionsComplete, OneRow, NEW r, NEW d, NEW m, NEW k, Publishes(r, d, m, k),
           NEW v \in versions
    PROVE  /\ v.doc \in DOMAIN documents /\ documents'[v.doc] = documents[v.doc]
           /\ documents[v.doc] = m <=> v.doc = d
<1>1. v.doc \in DOMAIN documents
    BY DEF VersionsComplete
<1>2. ASSUME documents[v.doc] = m
      PROVE  v.doc = d
  <2>1. d \in DOMAIN documents
      BY <1>1, <1>2 DEF Publishes, DocumentsNamed
  <2>2. documents[d] = m
      BY <2>1 DEF Publishes
  <2> QED BY <1>1, <1>2, <2>1, <2>2 DEF OneRow
<1>3. ASSUME v.doc = d
      PROVE  documents[v.doc] = m
    BY <1>1, <1>3 DEF Publishes
<1> QED BY <1>1, <1>2, <1>3 DEF Publishes

LEMMA OnlyCommitWrites ==
    [Next]_vars => UNCHANGED <<documents, versions>> \/ \E r \in Requests : Commit(r)
BY DEF Next, Step, Finished, vars, Upload, ParseFails, Resume, LookupDocument,
       InsertDocument, CheckExisting, ReadLatest, InsertVersion, InsertNodes, Reply,
       WriteFails, LockTimeout, Crash

LEMMA RowsStep ==
    ASSUME IInv, SoloInv, OneWorker, Next
    PROVE  (OneRow /\ Gapless /\ MatchedAgainstPredecessor)'
<1>0. VersionsComplete /\ OneRow /\ Gapless /\ MatchedAgainstPredecessor /\ RunInv
    BY DEF IInv, CommittedInv, SoloInv
<1>1. CASE UNCHANGED <<documents, versions>>
    BY <1>0, <1>1 DEF OneRow, Gapless, MatchedAgainstPredecessor, NumbersOf, VersionsOf
<1>2. ASSUME NEW r \in Requests, Commit(r)
      PROVE  (OneRow /\ Gapless /\ MatchedAgainstPredecessor)'
  <2>1. PICK d, m, k : Publishes(r, d, m, k)
      BY <1>0, <1>2, CommitPublishes
  <2> PICK x : x = Row(r)
      OBVIOUS
  <2>2. /\ versions' = versions \cup {x} /\ x.doc = d /\ x.number = k + 1 /\ k \in Nat
        /\ NumbersOf(d) = 1..k
      BY <2>1 DEF Publishes
  <2>3. OneRow'
    <3> SUFFICES ASSUME NEW e \in DOMAIN documents', NEW f \in DOMAIN documents',
                        documents'[e] = documents'[f]
                 PROVE  e = f
        BY DEF OneRow
    <3>1. CASE e \in DOMAIN documents /\ f \in DOMAIN documents
        BY <1>0, <2>1, <3>1 DEF OneRow, Publishes
    <3>2. ASSUME NEW g \in DOMAIN documents, documents[g] = m, d \notin DOMAIN documents
          PROVE  FALSE
        BY <2>1, <3>2 DEF Publishes, DocumentsNamed
    <3>3. CASE e \notin DOMAIN documents
      <4>1. e = d /\ documents'[e] = m
          BY <2>1, <3>3 DEF Publishes
      <4>2. f \notin DOMAIN documents
          BY <2>1, <3>2, <3>3, <4>1 DEF Publishes
      <4> QED BY <2>1, <4>1, <4>2 DEF Publishes
    <3>4. CASE f \notin DOMAIN documents
      <4>1. f = d /\ documents'[f] = m
          BY <2>1, <3>4 DEF Publishes
      <4>2. e \notin DOMAIN documents
          BY <2>1, <3>2, <3>4, <4>1 DEF Publishes
      <4> QED BY <2>1, <4>1, <4>2 DEF Publishes
    <3> QED BY <3>1, <3>3, <3>4
  <2>4. Gapless'
    <3> SUFFICES ASSUME NEW e \in DOMAIN documents'
                 PROVE  \E n \in Nat : NumbersOf(e)' = 1..n
        BY DEF Gapless
    <3>1. VersionsOf(e)' = VersionsOf(e) \cup IF e = d THEN {x} ELSE {}
        BY <2>2 DEF VersionsOf
    <3>2. CASE e = d
      <4>1. NumbersOf(e)' = NumbersOf(d) \cup {k + 1}
          BY <2>2, <3>1, <3>2 DEF NumbersOf
      <4>2. 1..k \cup {k + 1} = 1..(k + 1) /\ k + 1 \in Nat
          BY <2>2
      <4> QED BY <2>2, <4>1, <4>2
    <3>3. CASE e # d
      <4>1. e \in DOMAIN documents
          BY <2>1, <3>3 DEF Publishes
      <4>2. NumbersOf(e)' = NumbersOf(e)
          BY <3>1, <3>3 DEF NumbersOf
      <4> QED BY <1>0, <4>1, <4>2 DEF Gapless
    <3> QED BY <3>2, <3>3
  <2>5. IF x.number = 1 THEN x.base = None
        ELSE \E u \in versions : u.id = x.base /\ u.doc = x.doc /\ u.number + 1 = x.number
    <3>1. LatestOf(m, x.base)
        BY <2>1 DEF Publishes
    <3>2. CASE k = 0
      <4>1. VersionsOf(d) = {}
          BY <2>2, <3>2 DEF NumbersOf
      <4>2. \A v \in versions : documents[v.doc] # m
          BY <1>0, <2>1, <4>1, PublishedOnes DEF VersionsOf
      <4>3. x.base = None
          BY <3>1, <4>2 DEF LatestOf
      <4> QED BY <2>2, <3>2, <4>3
    <3>3. CASE k # 0
      <4>1. k \in NumbersOf(d)
          BY <2>2, <3>3
      <4>2. PICK u \in VersionsOf(d) : u.number = k
          BY <4>1 DEF NumbersOf
      <4>3. u \in versions /\ documents[u.doc] = m
          BY <1>0, <2>1, <4>2, PublishedOnes DEF VersionsOf
      <4>4. PICK v \in versions : /\ v.id = x.base /\ documents[v.doc] = m
                                  /\ \A w \in VersionsOf(v.doc) : w.number <= v.number
          BY <3>1, <4>3 DEF LatestOf
      <4>5. v.doc = d /\ v \in VersionsOf(d)
          BY <1>0, <2>1, <4>4, PublishedOnes DEF VersionsOf
      <4>6. v.number \in 1..k
          BY <2>2, <4>5 DEF NumbersOf
      <4>7. u.number <= v.number
          BY <4>2, <4>4, <4>5
      <4>8. v.number = k
          BY <2>2, <4>2, <4>6, <4>7
      <4>9. x.number # 1
          BY <2>2, <3>3
      <4> QED BY <2>2, <4>4, <4>5, <4>8, <4>9
    <3> QED BY <3>2, <3>3
  <2>6. MatchedAgainstPredecessor'
      BY <1>0, <2>2, <2>5 DEF MatchedAgainstPredecessor
  <2> QED BY <2>3, <2>4, <2>6
<1> QED BY <1>1, <1>2, OnlyCommitWrites

LEMMA SoloInit == Init => SoloInv
<1> SUFFICES ASSUME Init PROVE SoloInv
    OBVIOUS
<1>1. \A r \in Requests : req[r].pc = "idle"
    BY DEF Init, NewRequest
<1>2. documents = <<>> /\ versions = {}
    BY DEF Init
<1>3. LoopInv /\ RunInv
    BY <1>1 DEF LoopInv, RunInv, Running, Looked
<1>4. OneRow /\ Gapless /\ MatchedAgainstPredecessor
    BY <1>2 DEF OneRow, Gapless, MatchedAgainstPredecessor
<1> QED BY <1>3, <1>4 DEF SoloInv

LEMMA SoloStep ==
    ASSUME OneWorker
    PROVE  IInv /\ SoloInv /\ [Next]_vars => SoloInv'
<1> SUFFICES ASSUME IInv, SoloInv, [Next]_vars PROVE SoloInv'
    OBVIOUS
<1>1. LoopInv'
    BY LoopStep DEF IInv, SoloInv
<1>2. CASE Next
    BY <1>1, <1>2, RunStep, RowsStep DEF SoloInv
<1>3. CASE UNCHANGED vars
  <2>1. UNCHANGED <<documents, versions, req>>
      BY <1>3 DEF vars
  <2>2. RunInv'
      BY <2>1 DEF SoloInv, RunInv, UpToDate, LatestOf, VersionsOf, DocumentsNamed, Existing,
                  NumbersOf
  <2>3. (OneRow /\ Gapless /\ MatchedAgainstPredecessor)'
      BY <2>1 DEF SoloInv, OneRow, Gapless, MatchedAgainstPredecessor, NumbersOf, VersionsOf
  <2> QED BY <1>1, <2>2, <2>3 DEF SoloInv
<1> QED BY <1>2, <1>3

\* With one worker what a request has read holds until it answers, however many
\* uploads are awaiting their parse meanwhile.
THEOREM OneWorkerInvariant ==
    ASSUME OneWorker
    PROVE  Spec => []SoloInv
<1>1. IInv /\ SoloInv /\ [Next]_vars => SoloInv'
    BY SoloStep
<1> QED BY <1>1, SoloInit, InductiveInvariant, PTL DEF Spec

\* With one worker every version was matched against the one before it.
THEOREM LineagesFollow ==
    ASSUME OneWorker
    PROVE  Spec => []MatchedAgainstPredecessor
BY OneWorkerInvariant, PTL DEF SoloInv

\* With one worker all successful uploads of the same bytes under one filename
\* name the same version, and one of them at most says it is new.
THEOREM AnswersIdempotent ==
    ASSUME OneWorker
    PROVE  Spec => []IdempotentAnswers
<1>1. IInv /\ SoloInv => IdempotentAnswers
  <2> SUFFICES ASSUME IInv, SoloInv, NEW r \in Requests, NEW s \in Requests,
                      req[r].status \in {200, 201}, req[s].status \in {200, 201},
                      req[r].name = req[s].name, req[r].content = req[s].content
               PROVE  /\ req[r].version = req[s].version
                      /\ req[r].status = 201 /\ req[s].status = 201 => r = s
      BY DEF IdempotentAnswers
  <2>1. PICK u \in versions :
          /\ u.id = req[r].version /\ u.content = req[r].content
          /\ u.doc \in DOMAIN documents /\ documents[u.doc] = req[r].name
          /\ (req[r].status = 201) = (u.id = r)
      BY DEF IInv, CommittedInv, ResponseTruthful
  <2>2. PICK v \in versions :
          /\ v.id = req[s].version /\ v.content = req[s].content
          /\ v.doc \in DOMAIN documents /\ documents[v.doc] = req[s].name
          /\ (req[s].status = 201) = (v.id = s)
      BY DEF IInv, CommittedInv, ResponseTruthful
  <2>3. u.doc = v.doc
      BY <2>1, <2>2 DEF SoloInv, OneRow
  <2>4. u = v
      BY <2>1, <2>2, <2>3 DEF IInv, CommittedInv, ContentUniquePerDocument
  <2> QED BY <2>1, <2>2, <2>4
<1> QED BY <1>1, OneWorkerInvariant, InductiveInvariant, PTL

--------------------------------------------------------------------------------
(* The version log *)

\* What IngestStore puts for the log of VersionLog.
Published == {[name |-> documents[v.doc], number |-> v.number,
               content |-> v.content] : v \in versions}

LEMMA LogInit == Init => Log!Init
BY DEF Init, Log!Init

\* Both modules take Cardinality from FiniteSets.
LEMMA SameCardinality == \A S : Log!Cardinality(S) = Cardinality(S)
BY DEF Log!Cardinality, Cardinality

LEMMA CommitIsPublish ==
    ASSUME IInv, SoloInv, NEW r \in Requests, Commit(r)
    PROVE  \E n \in Names, c \in Contents : Log!Publish(n, c)
<1>1. PICK d, m, k : Publishes(r, d, m, k)
    BY CommitPublishes DEF SoloInv
<1> PICK c : c = req[r].content
    OBVIOUS
<1>2. m \in Names /\ c \in Contents
    BY <1>1 DEF IInv, TypeOK, Request, Publishes
<1>3. /\ VersionsComplete /\ OneRow /\ k \in Nat
      /\ \A v \in versions : /\ v.doc \in DOMAIN documents
                             /\ documents'[v.doc] = documents[v.doc]
                             /\ documents[v.doc] = m <=> v.doc = d
  <2>1. VersionsComplete /\ OneRow
      BY DEF IInv, CommittedInv, SoloInv
  <2>2. k \in Nat
      BY <1>1 DEF Publishes
  <2> QED BY <1>1, <2>1, <2>2, PublishedOnes
<1>4. \A e \in Published : e.name = m => e.content # c
    BY <1>1, <1>3 DEF Published, Publishes, Existing, VersionsOf
<1>5. Cardinality(Log!Numbers(m)) = k
  <2>1. Log!Numbers(m) = {e.number : e \in {x \in Published : x.name = m}}
      BY DEF Log!Numbers, Published
  <2>2. \A e \in Published : e.name = m => e.number \in NumbersOf(d)
      BY <1>3 DEF Published, NumbersOf, VersionsOf
  <2>3. ASSUME NEW n \in NumbersOf(d)
        PROVE  \E e \in Published : e.name = m /\ e.number = n
    <3>1. PICK v \in VersionsOf(d) : v.number = n
        BY DEF NumbersOf
    <3>2. v \in versions /\ documents[v.doc] = m
        BY <1>3, <3>1 DEF VersionsOf
    <3>3. PICK e : e = [name |-> documents[v.doc], number |-> v.number, content |-> v.content]
        OBVIOUS
    <3>4. e \in Published /\ e.name = m /\ e.number = n
        BY <3>1, <3>2, <3>3 DEF Published
    <3> QED BY <3>4
  <2>4. Log!Numbers(m) = 1..k
      BY <1>1, <2>1, <2>2, <2>3 DEF Publishes
  <2>5. Cardinality(1..k) = k
      BY <1>3, FS_Interval
  <2> QED BY <2>4, <2>5
<1>6. Published' = Published \cup {[name |-> m, content |-> c, number |-> k + 1]}
  <2>1. PICK x : x = Row(r)
      OBVIOUS
  <2>2. versions' = versions \cup {x} /\ x.doc = d /\ x.number = k + 1 /\ x.content = c
          /\ documents'[x.doc] = m
      BY <1>1, <2>1 DEF Publishes
  <2>3. Published' = {[name |-> documents'[v.doc], number |-> v.number,
                       content |-> v.content] : v \in versions'}
      BY DEF Published
  <2> QED BY <1>3, <2>2, <2>3 DEF Published
<1>7. Log!Publish(m, c)
  <2>1. /\ \A e \in Published : e.name = m => e.content # c
        /\ Published' = Published \cup
             {[name |-> m, content |-> c, number |-> Log!Cardinality(Log!Numbers(m)) + 1]}
      BY <1>4, <1>5, <1>6, SameCardinality
  <2> QED BY <2>1 DEF Log!Publish, Published
<1> QED BY <1>2, <1>7

LEMMA LogStep == IInv /\ SoloInv /\ [Next]_vars => [Log!Next]_Published
<1> SUFFICES ASSUME IInv, SoloInv, [Next]_vars
             PROVE  Log!Next \/ UNCHANGED Published
    OBVIOUS
<1>1. CASE UNCHANGED <<documents, versions>>
    BY <1>1 DEF Published
<1>2. ASSUME NEW r \in Requests, Commit(r)
      PROVE  Log!Next
    BY <1>2, CommitIsPublish DEF Log!Next
<1> QED BY <1>1, <1>2, OnlyCommitWrites DEF vars

\* With one worker the rows are the log a client is promised: each commit adds
\* the next number of a filename with bytes the filename does not have yet.
THEOREM StoreImplementsVersionLog ==
    ASSUME OneWorker
    PROVE  Spec => ImplementsVersionLog
BY OneWorkerInvariant, InductiveInvariant, LogInit, LogStep, PTL
   DEF Spec, ImplementsVersionLog, Log!Spec, Published
================================================================================
