------------------------------- MODULE PdfParserProofs -------------------------
(***************************************************************************)
(* Proofs about PdfParser, PageLayout and HeaderFooterStripper, for all    *)
(* documents, any number of parses and any size of the pool.               *)
(***************************************************************************)
EXTENDS PdfParser, DataFacts

--------------------------------------------------------------------------------
(* The inductive invariant of the threads and their pool *)

Thread == [stage : Stages, over : BOOLEAN, sampled : Nat, read : Nat,
           outcome : Outcomes \cup {"none"}]

Busy == {p \in Parses : thread[p].stage \in Running}

Queued == {p \in Parses : thread[p].stage = "queued"}

\* Of one document d, its coroutine c and its thread t.  What is read is read with
\* the whole sample's median; a thread that ran out of time in the sample has a
\* page left to find that out at.
Sound(d, c, t) ==
    /\ t.sampled <= Smaller(Len(d.pages), SampleLimit) /\ t.read <= Len(d.pages)
    /\ t.outcome # "none" <=> t.stage = "ended"
    /\ t.stage \in {"none", "queued", "open", "sample"} => t.read = 0
    /\ t.stage = "pages" => \/ t.sampled = Smaller(Len(d.pages), SampleLimit)
                            \/ t.over /\ t.read < Len(d.pages)
    /\ t.stage = "strip" \/ t.outcome = "ok" =>
         t.sampled = Smaller(Len(d.pages), SampleLimit) /\ t.read = Len(d.pages)
    /\ c.pc = "idle" => t.stage = "none"
    /\ t.stage = "queued" => c.pc = "waiting"
    /\ c.answer = "ok" => t.outcome = "ok"

\* Of each parse.
RecordsInv ==
    /\ doc \in Uploads
    /\ parse \in [Parses -> Parse] /\ thread \in [Parses -> Thread]
    /\ \A p \in Parses : Sound(doc[p], parse[p], thread[p])

\* Each extraction that has no thread waits in one place of the queue.
QueueInv ==
    /\ queue \in Seq(Parses)
    /\ ToSet(queue) = Queued
    /\ \A i, j \in DOMAIN queue : queue[i] = queue[j] => i = j

\* No more threads run than the pool has.
PoolInv == IsFiniteSet(Busy) /\ Cardinality(Busy) <= PoolSize

IInv == RecordsInv /\ QueueInv /\ PoolInv

--------------------------------------------------------------------------------
(* One thread moves *)

\* What ParserAssumption says of a document at hand.
LEMMA DocumentTypes ==
    ASSUME doc \in Uploads, NEW p \in Parses
    PROVE  /\ DOMAIN doc = Parses /\ doc[p].trouble \in DocumentTrouble
           /\ IsSequence(doc[p].pages) /\ Len(doc[p].pages) \in Nat
           /\ DOMAIN doc[p].pages = 1 .. Len(doc[p].pages)
           /\ \A n \in DOMAIN doc[p].pages : IsPage(doc[p].pages[n])
           /\ SampleSize(p) = Smaller(Len(doc[p].pages), SampleLimit) /\ SampleSize(p) \in Nat
           /\ SampleSize(p) <= Len(doc[p].pages)
<1>1. /\ DOMAIN doc = Parses /\ doc[p].trouble \in DocumentTrouble
      /\ IsSequence(doc[p].pages) /\ \A n \in DOMAIN doc[p].pages : IsPage(doc[p].pages[n])
    BY ParserAssumption DEF IsSequence
<1>2. Len(doc[p].pages) \in Nat /\ DOMAIN doc[p].pages = 1 .. Len(doc[p].pages)
    BY <1>1, LenProperties DEF IsSequence
<1>3. /\ SampleSize(p) = Smaller(Len(doc[p].pages), SampleLimit) /\ SampleSize(p) \in Nat
      /\ SampleSize(p) <= Len(doc[p].pages)
    BY <1>2, ParserAssumption DEF SampleSize, Smaller, IsSequence
<1> QED BY <1>1, <1>2, <1>3

\* The coroutine and the thread of p become c and t, all others stay.
Becomes(p, c, t) ==
    /\ doc' = doc
    /\ parse' \in [Parses -> Parse] /\ thread' \in [Parses -> Thread]
    /\ parse'[p] = c /\ thread'[p] = t
    /\ \A q \in Parses \ {p} : parse'[q] = parse[q] /\ thread'[q] = thread[q]

\* Such a step keeps the records sound if it does so for p.
LEMMA RecordsKept ==
    ASSUME RecordsInv, NEW p \in Parses, NEW c, NEW t, Becomes(p, c, t), Sound(doc[p], c, t)
    PROVE  RecordsInv'
<1>1. \A q \in Parses : Sound(doc'[q], parse'[q], thread'[q])
  <2> SUFFICES ASSUME NEW q \in Parses PROVE Sound(doc'[q], parse'[q], thread'[q])
      OBVIOUS
  <2>1. CASE q = p
      BY <2>1 DEF Becomes
  <2>2. CASE q # p
      BY <2>2 DEF Becomes, RecordsInv
  <2> QED BY <2>1, <2>2
<1>2. doc' \in Uploads /\ parse' \in [Parses -> Parse] /\ thread' \in [Parses -> Thread]
    BY DEF Becomes, RecordsInv
<1> QED BY <1>1, <1>2 DEF RecordsInv, Sound

\* What the step means for the queue and the pool.
LEMMA QueueKept ==
    ASSUME QueueInv, NEW p \in Parses, NEW c, NEW t, Becomes(p, c, t), queue' = queue,
           t.stage = "queued" <=> thread[p].stage = "queued"
    PROVE  QueueInv'
<1>1. Queued' = Queued
    BY DEF Becomes, Queued
<1> QED BY <1>1 DEF QueueInv, ToSet

LEMMA PoolKept ==
    ASSUME PoolInv, NEW p \in Parses, NEW c, NEW t, Becomes(p, c, t),
           t.stage \in Running => thread[p].stage \in Running \/ Free
    PROVE  PoolInv'
<1>1. Busy' \subseteq Busy \cup {p} /\ (t.stage \notin Running => Busy' \subseteq Busy)
      /\ (thread[p].stage \in Running => Busy' \subseteq Busy)
    BY DEF Becomes, Busy
<1>2. CASE Busy' \subseteq Busy
  <2>1. IsFiniteSet(Busy') /\ Cardinality(Busy') <= Cardinality(Busy)
      BY <1>2, FS_Subset DEF PoolInv
  <2>2. Cardinality(Busy') \in Nat /\ Cardinality(Busy) \in Nat /\ PoolSize \in Nat
      BY <2>1, FS_CardinalityType, ParserAssumption DEF PoolInv, IsSequence
  <2>3. Cardinality(Busy') <= PoolSize
      BY <2>1, <2>2 DEF PoolInv
  <2> QED BY <2>1, <2>3 DEF PoolInv
<1>3. CASE Free
  <2>1. IsFiniteSet(Busy \cup {p}) /\ Cardinality(Busy \cup {p}) <= Cardinality(Busy) + 1
    <3>1. Cardinality(Busy) \in Nat
        BY FS_CardinalityType DEF PoolInv
    <3>2. IsFiniteSet(Busy \cup {p})
        BY FS_AddElement DEF PoolInv
    <3>3. Cardinality(Busy \cup {p}) = IF p \in Busy THEN Cardinality(Busy) ELSE Cardinality(Busy) + 1
        BY FS_AddElement DEF PoolInv
    <3> QED BY <3>1, <3>2, <3>3
  <2>2. IsFiniteSet(Busy') /\ Cardinality(Busy') <= Cardinality(Busy \cup {p})
      BY <1>1, <2>1, FS_Subset
  <2>3. Cardinality(Busy) < PoolSize
      BY <1>3 DEF Free, Busy
  <2>4. /\ Cardinality(Busy') \in Nat /\ Cardinality(Busy) \in Nat /\ PoolSize \in Nat
        /\ Cardinality(Busy \cup {p}) \in Nat
      BY <2>1, <2>2, FS_CardinalityType, ParserAssumption DEF PoolInv, IsSequence
  <2>5. Cardinality(Busy') <= PoolSize
      BY <2>1, <2>2, <2>3, <2>4
  <2> QED BY <2>2, <2>5 DEF PoolInv
<1> QED BY <1>1, <1>2, <1>3

\* A step of one thread that is not about the queue.
LEMMA ThreadMoves ==
    ASSUME IInv, NEW p \in Parses, NEW c, NEW t, Becomes(p, c, t), Sound(doc[p], c, t),
           queue' = queue, t.stage = "queued" <=> thread[p].stage = "queued",
           t.stage \in Running => thread[p].stage \in Running
    PROVE  IInv'
BY RecordsKept, QueueKept, PoolKept DEF IInv

\* The records after an assignment to a coroutine's answer.
LEMMA AnswerFacts ==
    ASSUME RecordsInv, NEW p \in Parses, NEW a \in Outcomes, Answer(p, a)
    PROVE  /\ parse' \in [Parses -> Parse]
           /\ parse'[p].pc = "done" /\ parse'[p].answer = a
           /\ \A q \in Parses \ {p} : parse'[q] = parse[q]
<1> DEFINE O == Outcomes \cup {"none"}
           C == {"idle", "waiting", "done"}
<1>1. a \in O /\ "done" \in C /\ Parse = [pc : C, late : BOOLEAN, answer : O]
    BY DEF Parse
<1> HIDE DEF O, C
<1> QED BY <1>1 DEF RecordsInv, Answer

\* Likewise for each field of a thread.
LEMMA StageFacts ==
    ASSUME RecordsInv, NEW p \in Parses, NEW s \in Stages,
           thread' = [thread EXCEPT ![p].stage = s]
    PROVE  /\ thread' \in [Parses -> Thread]
           /\ thread'[p].stage = s /\ thread'[p].over = thread[p].over
           /\ thread'[p].sampled = thread[p].sampled /\ thread'[p].read = thread[p].read
           /\ thread'[p].outcome = thread[p].outcome
           /\ \A q \in Parses \ {p} : thread'[q] = thread[q]
<1> DEFINE O == Outcomes \cup {"none"}
<1>1. Thread = [stage : Stages, over : BOOLEAN, sampled : Nat, read : Nat, outcome : O]
    BY DEF Thread
<1> HIDE DEF O
<1> QED BY <1>1 DEF RecordsInv

LEMMA EndFacts ==
    ASSUME RecordsInv, NEW p \in Parses, NEW a \in Outcomes, End(p, a)
    PROVE  /\ thread' \in [Parses -> Thread]
           /\ thread'[p].stage = "ended" /\ thread'[p].over = thread[p].over
           /\ thread'[p].sampled = thread[p].sampled /\ thread'[p].read = thread[p].read
           /\ thread'[p].outcome = a
           /\ \A q \in Parses \ {p} : thread'[q] = thread[q]
<1> DEFINE O == Outcomes \cup {"none"}
<1>1. Thread = [stage : Stages, over : BOOLEAN, sampled : Nat, read : Nat, outcome : O]
    BY DEF Thread
<1>2. a \in O /\ "ended" \in Stages
    BY DEF Stages
<1> HIDE DEF O
<1> QED BY <1>1, <1>2 DEF RecordsInv, End

LEMMA OverFacts ==
    ASSUME RecordsInv, NEW p \in Parses, thread' = [thread EXCEPT ![p].over = TRUE]
    PROVE  /\ thread' \in [Parses -> Thread]
           /\ thread'[p].stage = thread[p].stage /\ thread'[p].over
           /\ thread'[p].sampled = thread[p].sampled /\ thread'[p].read = thread[p].read
           /\ thread'[p].outcome = thread[p].outcome
           /\ \A q \in Parses \ {p} : thread'[q] = thread[q]
<1> DEFINE O == Outcomes \cup {"none"}
<1>1. Thread = [stage : Stages, over : BOOLEAN, sampled : Nat, read : Nat, outcome : O]
    BY DEF Thread
<1> HIDE DEF O
<1> QED BY <1>1 DEF RecordsInv

LEMMA SampledFacts ==
    ASSUME RecordsInv, NEW p \in Parses, NEW n \in Nat,
           thread' = [thread EXCEPT ![p].sampled = n]
    PROVE  /\ thread' \in [Parses -> Thread]
           /\ thread'[p].stage = thread[p].stage /\ thread'[p].over = thread[p].over
           /\ thread'[p].sampled = n /\ thread'[p].read = thread[p].read
           /\ thread'[p].outcome = thread[p].outcome
           /\ \A q \in Parses \ {p} : thread'[q] = thread[q]
<1> DEFINE O == Outcomes \cup {"none"}
<1>1. Thread = [stage : Stages, over : BOOLEAN, sampled : Nat, read : Nat, outcome : O]
    BY DEF Thread
<1> HIDE DEF O
<1> QED BY <1>1 DEF RecordsInv

LEMMA ReadFacts ==
    ASSUME RecordsInv, NEW p \in Parses, NEW n \in Nat, thread' = [thread EXCEPT ![p].read = n]
    PROVE  /\ thread' \in [Parses -> Thread]
           /\ thread'[p].stage = thread[p].stage /\ thread'[p].over = thread[p].over
           /\ thread'[p].sampled = thread[p].sampled /\ thread'[p].read = n
           /\ thread'[p].outcome = thread[p].outcome
           /\ \A q \in Parses \ {p} : thread'[q] = thread[q]
<1> DEFINE O == Outcomes \cup {"none"}
<1>1. Thread = [stage : Stages, over : BOOLEAN, sampled : Nat, read : Nat, outcome : O]
    BY DEF Thread
<1> HIDE DEF O
<1> QED BY <1>1 DEF RecordsInv

--------------------------------------------------------------------------------
(* One lemma per action *)

\* A running thread goes on, and leaves its coroutine and the queue alone.
LEMMA ThreadGoesOn ==
    ASSUME IInv, NEW p \in Parses, UNCHANGED <<doc, parse, queue>>,
           thread' \in [Parses -> Thread], \A q \in Parses \ {p} : thread'[q] = thread[q],
           thread[p].stage \in Running, thread'[p].stage # "queued",
           Sound(doc[p], parse[p], thread'[p])
    PROVE  IInv'
<1>1. PICK t : t = thread'[p]
    OBVIOUS
<1>2. Becomes(p, parse[p], t)
    BY <1>1 DEF Becomes, IInv, RecordsInv
<1>3. thread[p].stage # "queued"
    BY DEF Running
<1> QED BY <1>1, <1>2, <1>3, ThreadMoves

\* A coroutine goes on, and leaves its thread and the queue alone.
LEMMA CoroutineGoesOn ==
    ASSUME IInv, NEW p \in Parses, UNCHANGED <<doc, thread, queue>>,
           parse' \in [Parses -> Parse], \A q \in Parses \ {p} : parse'[q] = parse[q],
           Sound(doc[p], parse'[p], thread[p])
    PROVE  IInv'
<1>1. PICK c : c = parse'[p]
    OBVIOUS
<1>2. Becomes(p, c, thread[p])
    BY <1>1 DEF Becomes, IInv, RecordsInv
<1> QED BY <1>1, <1>2, ThreadMoves

LEMMA DeliverKeeps ==
    ASSUME IInv, NEW p \in Parses, Deliver(p)
    PROVE  IInv'
<1>1. thread[p].outcome \in Outcomes
    BY DEF IInv, RecordsInv, Sound, Deliver, Thread
<1>2. /\ parse' \in [Parses -> Parse] /\ parse'[p].pc = "done"
      /\ parse'[p].answer = thread[p].outcome /\ \A q \in Parses \ {p} : parse'[q] = parse[q]
    BY <1>1, AnswerFacts DEF IInv, Deliver
<1>3. Sound(doc[p], parse'[p], thread[p])
    BY <1>2 DEF IInv, RecordsInv, Sound, Deliver
<1> QED BY <1>2, <1>3, CoroutineGoesOn DEF Deliver

LEMMA DeadlineKeeps ==
    ASSUME IInv, NEW p \in Parses, DeadlinePasses(p)
    PROVE  IInv'
<1> DEFINE O == Outcomes \cup {"none"}
           C == {"idle", "waiting", "done"}
<1>1. Parse = [pc : C, late : BOOLEAN, answer : O]
    BY DEF Parse
<1>2. parse \in [Parses -> Parse]
    BY DEF IInv, RecordsInv
<1> HIDE DEF O, C
<1>3. /\ parse' \in [Parses -> Parse] /\ parse'[p].pc = parse[p].pc
      /\ parse'[p].answer = parse[p].answer /\ \A q \in Parses \ {p} : parse'[q] = parse[q]
    BY <1>1, <1>2 DEF DeadlinePasses
<1>4. Sound(doc[p], parse'[p], thread[p])
    BY <1>3 DEF IInv, RecordsInv, Sound
<1> QED BY <1>3, <1>4, CoroutineGoesOn DEF DeadlinePasses

\* The places of a queue without duplicates, when one is taken out.
LEMMA TakenOut ==
    ASSUME NEW s \in Seq(Parses), \A i, j \in DOMAIN s : s[i] = s[j] => i = j,
           NEW m \in DOMAIN s, NEW t, t = RemoveAt(s, m)
    PROVE  /\ t \in Seq(Parses) /\ ToSet(t) = ToSet(s) \ {s[m]}
           /\ \A i, j \in DOMAIN t : t[i] = t[j] => i = j
<1>1. PICK n \in Nat : n = Len(s) /\ DOMAIN s = 1 .. n
    BY LenProperties
<1>2. m \in 1 .. n /\ m \in Nat
    BY <1>1
<1> DEFINE u == SubSeq(s, 1, m - 1)
           v == SubSeq(s, m + 1, n)
<1>3. u \in Seq(Parses) /\ Len(u) = m - 1 /\ \A i \in 1 .. (m - 1) : u[i] = s[i]
    BY <1>1, <1>2, SubSeqProperties
<1>4. v \in Seq(Parses) /\ Len(v) = n - m /\ \A i \in 1 .. (n - m) : v[i] = s[i + m]
    BY <1>1, <1>2, SubSeqProperties
<1>5. t = u \o v
    BY <1>1 DEF RemoveAt
<1> HIDE DEF u, v
<1>6. /\ t \in Seq(Parses) /\ DOMAIN t = 1 .. (n - 1)
      /\ \A i \in 1 .. (n - 1) : t[i] = IF i < m THEN s[i] ELSE s[i + 1]
  <2>1. /\ t \in Seq(Parses) /\ Len(t) = n - 1
        /\ \A i \in 1 .. (n - 1) : t[i] = IF i <= m - 1 THEN u[i] ELSE v[i - (m - 1)]
    <3>1. /\ u \o v \in Seq(Parses) /\ Len(u \o v) = Len(u) + Len(v)
          /\ \A i \in 1 .. (Len(u) + Len(v)) :
               (u \o v)[i] = IF i <= Len(u) THEN u[i] ELSE v[i - Len(u)]
        BY <1>3, <1>4, ConcatProperties
    <3>2. Len(u) + Len(v) = n - 1
        BY <1>2, <1>3, <1>4
    <3> QED BY <1>3, <1>5, <3>1, <3>2
  <2>2. DOMAIN t = 1 .. (n - 1)
      BY <2>1, LenProperties
  <2>3. ASSUME NEW i \in 1 .. (n - 1)
        PROVE  t[i] = IF i < m THEN s[i] ELSE s[i + 1]
    <3>1. CASE i < m
      <4>1. i \in 1 .. (m - 1) /\ i <= m - 1
          BY <1>2, <3>1
      <4> QED BY <1>3, <2>1, <3>1, <4>1
    <3>2. CASE ~ (i < m)
      <4>1. i - (m - 1) \in 1 .. (n - m) /\ ~ (i <= m - 1) /\ (i - (m - 1)) + m = i + 1
          BY <1>1, <1>2, <3>2
      <4> QED BY <1>4, <2>1, <3>2, <4>1
    <3> QED BY <3>1, <3>2
  <2> QED BY <2>1, <2>2, <2>3
<1>7. ASSUME NEW x \in ToSet(t)
      PROVE  x \in ToSet(s) \ {s[m]}
  <2>1. PICK i \in 1 .. (n - 1) : x = t[i]
      BY <1>6 DEF ToSet
  <2>2. PICK j \in 1 .. n : x = s[j] /\ j # m
    <3>1. i \in 1 .. n /\ i + 1 \in 1 .. n /\ (i < m => i # m) /\ (~ (i < m) => i + 1 # m)
        BY <1>1, <1>2
    <3> QED BY <1>6, <2>1, <3>1
  <2> QED BY <1>1, <2>2 DEF ToSet
<1>8. ASSUME NEW x \in ToSet(s) \ {s[m]}
      PROVE  x \in ToSet(t)
  <2>1. PICK j \in 1 .. n : x = s[j] /\ j # m
      BY <1>1 DEF ToSet
  <2>2. CASE j < m
    <3>1. j \in 1 .. (n - 1)
        BY <1>2, <2>2
    <3>2. t[j] = x
        BY <1>6, <2>1, <2>2, <3>1
    <3> QED BY <1>6, <3>1, <3>2 DEF ToSet
  <2>3. CASE ~ (j < m)
    <3>1. j - 1 \in 1 .. (n - 1) /\ ~ (j - 1 < m) /\ (j - 1) + 1 = j
        BY <1>2, <2>1, <2>3
    <3>2. t[j - 1] = x
        BY <1>6, <2>1, <3>1
    <3> QED BY <1>6, <3>1, <3>2 DEF ToSet
  <2> QED BY <2>2, <2>3
<1>9. ASSUME NEW i \in DOMAIN t, NEW j \in DOMAIN t, t[i] = t[j]
      PROVE  i = j
  <2> DEFINE g(k) == IF k < m THEN k ELSE k + 1
  <2>1. i \in 1 .. (n - 1) /\ j \in 1 .. (n - 1)
      BY <1>6
  <2>2. g(i) \in 1 .. n /\ g(j) \in 1 .. n
      BY <1>1, <2>1
  <2>3. t[i] = s[g(i)] /\ t[j] = s[g(j)]
      BY <1>6, <2>1
  <2>4. g(i) = g(j)
    <3> HIDE DEF g
    <3> QED BY <1>1, <1>9, <2>2, <2>3
  <2> QED BY <1>2, <2>1, <2>4
<1> QED BY <1>6, <1>7, <1>8, <1>9

\* One more at the end.
LEMMA Queues ==
    ASSUME NEW s \in Seq(Parses), \A i, j \in DOMAIN s : s[i] = s[j] => i = j,
           NEW p \in Parses, p \notin ToSet(s), NEW t, t = Append(s, p)
    PROVE  /\ t \in Seq(Parses) /\ ToSet(t) = ToSet(s) \cup {p}
           /\ \A i, j \in DOMAIN t : t[i] = t[j] => i = j
<1>1. PICK n \in Nat : n = Len(s) /\ DOMAIN s = 1 .. n
    BY LenProperties
<1>2. /\ t \in Seq(Parses) /\ DOMAIN t = 1 .. (n + 1) /\ t[n + 1] = p
      /\ \A i \in 1 .. n : t[i] = s[i]
    BY <1>1, AppendProperties, LenProperties
<1>3. ToSet(s) = {s[i] : i \in 1 .. n} /\ ToSet(t) = {t[i] : i \in 1 .. (n + 1)}
    BY <1>1, <1>2 DEF ToSet
<1>4. 1 .. (n + 1) = 1 .. n \cup {n + 1} /\ n + 1 \notin 1 .. n
    OBVIOUS
<1>5. ToSet(t) = ToSet(s) \cup {p}
    BY <1>2, <1>3, <1>4
<1>6. \A i \in 1 .. n : s[i] # p
    BY <1>3
<1>7. ASSUME NEW i \in DOMAIN t, NEW j \in DOMAIN t, t[i] = t[j]
      PROVE  i = j
    BY <1>1, <1>2, <1>4, <1>6, <1>7
<1> QED BY <1>2, <1>5, <1>7

\* The first one goes.
LEMMA Leaves ==
    ASSUME NEW s \in Seq(Parses), \A i, j \in DOMAIN s : s[i] = s[j] => i = j, s # <<>>
    PROVE  /\ Tail(s) \in Seq(Parses) /\ ToSet(Tail(s)) = ToSet(s) \ {Head(s)}
           /\ Head(s) \in ToSet(s)
           /\ \A i, j \in DOMAIN Tail(s) : Tail(s)[i] = Tail(s)[j] => i = j
<1>1. PICK n \in Nat : n = Len(s) /\ DOMAIN s = 1 .. n /\ n # 0
  <2>1. Len(s) \in Nat /\ DOMAIN s = 1 .. Len(s) /\ Len(s) # 0
      BY LenProperties, EmptySeq
  <2> QED BY <2>1
<1>2. 1 \in DOMAIN s /\ Head(s) = s[1]
    BY <1>1, HeadTailProperties
<1>3. PICK t : t = Tail(s)
    OBVIOUS
<1>4. /\ t \in Seq(Parses) /\ DOMAIN t = 1 .. (n - 1)
      /\ \A i \in 1 .. (n - 1) : t[i] = s[i + 1]
  <2>1. t \in Seq(Parses) /\ Len(t) = n - 1 /\ \A i \in 1 .. Len(t) : t[i] = s[i + 1]
      BY <1>1, <1>3, HeadTailProperties
  <2> QED BY <2>1, LenProperties
<1>5. ASSUME NEW x \in ToSet(t)
      PROVE  x \in ToSet(s) \ {s[1]}
  <2>1. PICK i \in 1 .. (n - 1) : x = t[i]
      BY <1>4 DEF ToSet
  <2>2. i + 1 \in 1 .. n /\ x = s[i + 1] /\ i + 1 # 1
      BY <1>1, <1>4, <2>1
  <2> QED BY <1>1, <1>2, <2>2 DEF ToSet
<1>6. ASSUME NEW x \in ToSet(s) \ {s[1]}
      PROVE  x \in ToSet(t)
  <2>1. PICK j \in 1 .. n : x = s[j] /\ j # 1
      BY <1>1 DEF ToSet
  <2>2. j - 1 \in 1 .. (n - 1) /\ (j - 1) + 1 = j
      BY <1>1, <2>1
  <2>3. t[j - 1] = x
      BY <1>4, <2>1, <2>2
  <2> QED BY <1>4, <2>2, <2>3 DEF ToSet
<1>7. ASSUME NEW i \in DOMAIN t, NEW j \in DOMAIN t, t[i] = t[j]
      PROVE  i = j
  <2>1. i \in 1 .. (n - 1) /\ j \in 1 .. (n - 1) /\ i + 1 \in 1 .. n /\ j + 1 \in 1 .. n
      BY <1>1, <1>4
  <2>2. i + 1 = j + 1
      BY <1>1, <1>4, <1>7, <2>1
  <2> QED BY <2>1, <2>2
<1>8. Head(s) \in ToSet(s)
    BY <1>2 DEF ToSet
<1> QED BY <1>2, <1>3, <1>4, <1>5, <1>6, <1>7, <1>8

LEMMA SubmitKeeps ==
    ASSUME IInv, NEW p \in Parses, Submit(p)
    PROVE  IInv'
<1>1. CASE doc[p].trouble \in {"large", "notPdf"}
  <2>1. Answer(p, doc[p].trouble) /\ UNCHANGED <<doc, thread, queue>>
      BY <1>1 DEF Submit
  <2>2. doc[p].trouble \in Outcomes /\ doc[p].trouble # "ok"
      BY <1>1 DEF Outcomes
  <2>3. /\ parse' \in [Parses -> Parse] /\ parse'[p].pc = "done"
        /\ parse'[p].answer = doc[p].trouble /\ \A q \in Parses \ {p} : parse'[q] = parse[q]
      BY <2>1, <2>2, AnswerFacts DEF IInv
  <2>4. Sound(doc[p], parse'[p], thread[p])
      BY <2>2, <2>3 DEF IInv, RecordsInv, Sound, Submit
  <2> QED BY <2>1, <2>3, <2>4, CoroutineGoesOn
<1>2. CASE doc[p].trouble \notin {"large", "notPdf"}
  <2>1. /\ parse' = [parse EXCEPT ![p].pc = "waiting"]
        /\ thread' = [thread EXCEPT ![p].stage = "queued"]
        /\ queue' = Append(queue, p) /\ doc' = doc /\ parse[p].pc = "idle"
      BY <1>2 DEF Submit
  <2>2. parse \in [Parses -> Parse] /\ thread[p].stage = "none"
      BY <2>1 DEF IInv, RecordsInv, Sound
  <2>3. /\ parse' \in [Parses -> Parse] /\ parse'[p].pc = "waiting"
        /\ parse'[p].answer = parse[p].answer /\ \A q \in Parses \ {p} : parse'[q] = parse[q]
    <3> DEFINE O == Outcomes \cup {"none"}
               C == {"idle", "waiting", "done"}
    <3>1. Parse = [pc : C, late : BOOLEAN, answer : O] /\ "waiting" \in C
        BY DEF Parse
    <3> HIDE DEF O, C
    <3> QED BY <2>1, <2>2, <3>1
  <2>4. "queued" \in Stages
      BY DEF Stages
  <2>5. /\ thread' \in [Parses -> Thread]
        /\ thread'[p].stage = "queued" /\ thread'[p].over = thread[p].over
        /\ thread'[p].sampled = thread[p].sampled /\ thread'[p].read = thread[p].read
        /\ thread'[p].outcome = thread[p].outcome
        /\ \A q \in Parses \ {p} : thread'[q] = thread[q]
      BY <2>1, <2>4, StageFacts DEF IInv
  <2>6. PICK c, t : c = parse'[p] /\ t = thread'[p]
      OBVIOUS
  <2>7. Becomes(p, c, t)
      BY <2>1, <2>3, <2>5, <2>6 DEF Becomes
  <2>8. Sound(doc[p], c, t)
      BY <2>1, <2>2, <2>3, <2>5, <2>6 DEF IInv, RecordsInv, Sound
  <2>9. RecordsInv'
      BY <2>7, <2>8, RecordsKept DEF IInv
  <2>10. PoolInv'
    <3>1. t.stage \notin Running
        BY <2>5, <2>6 DEF Running
    <3> QED BY <2>7, <3>1, PoolKept DEF IInv
  <2>11. QueueInv'
    <3>1. p \notin ToSet(queue)
        BY <2>2 DEF IInv, QueueInv, Queued
    <3>2. /\ queue' \in Seq(Parses) /\ ToSet(queue') = ToSet(queue) \cup {p}
          /\ \A i, j \in DOMAIN queue' : queue'[i] = queue'[j] => i = j
        BY <2>1, <3>1, Queues DEF IInv, QueueInv
    <3>3. Queued' = Queued \cup {p}
        BY <2>5 DEF Queued
    <3> QED BY <3>2, <3>3 DEF IInv, QueueInv, ToSet
  <2> QED BY <2>9, <2>10, <2>11 DEF IInv
<1> QED BY <1>1, <1>2

LEMMA TimesOutKeeps ==
    ASSUME IInv, NEW p \in Parses, TimesOut(p)
    PROVE  IInv'
<1>1. /\ parse' \in [Parses -> Parse] /\ parse'[p].pc = "done"
      /\ parse'[p].answer = "timeout" /\ \A q \in Parses \ {p} : parse'[q] = parse[q]
  <2>1. "timeout" \in Outcomes /\ Answer(p, "timeout")
      BY DEF Outcomes, TimesOut
  <2> QED BY <2>1, AnswerFacts DEF IInv
<1>2. doc' = doc /\ parse[p].pc = "waiting" /\ Cancel(p)
    BY DEF TimesOut
<1>3. CASE thread[p].stage # "queued"
  <2>1. UNCHANGED <<doc, thread, queue>>
      BY <1>2, <1>3 DEF Cancel
  <2>2. Sound(doc[p], parse'[p], thread[p])
      BY <1>1, <1>3 DEF IInv, RecordsInv, Sound
  <2> QED BY <1>1, <2>1, <2>2, CoroutineGoesOn
<1>4. CASE thread[p].stage = "queued"
  <2>1. /\ thread' = [thread EXCEPT ![p].stage = "cancelled"]
        /\ \E i \in DOMAIN queue : queue[i] = p /\ queue' = RemoveAt(queue, i)
      BY <1>2, <1>4 DEF Cancel
  <2>2. "cancelled" \in Stages
      BY DEF Stages
  <2>3. /\ thread' \in [Parses -> Thread]
        /\ thread'[p].stage = "cancelled" /\ thread'[p].over = thread[p].over
        /\ thread'[p].sampled = thread[p].sampled /\ thread'[p].read = thread[p].read
        /\ thread'[p].outcome = thread[p].outcome
        /\ \A q \in Parses \ {p} : thread'[q] = thread[q]
      BY <2>1, <2>2, StageFacts DEF IInv
  <2>4. PICK c, t : c = parse'[p] /\ t = thread'[p]
      OBVIOUS
  <2>5. Becomes(p, c, t)
      BY <1>1, <1>2, <2>3, <2>4 DEF Becomes
  <2>6. Sound(doc[p], c, t)
      BY <1>1, <1>4, <2>3, <2>4 DEF IInv, RecordsInv, Sound
  <2>7. RecordsInv'
      BY <2>5, <2>6, RecordsKept DEF IInv
  <2>8. PoolInv'
    <3>1. t.stage \notin Running
        BY <2>3, <2>4 DEF Running
    <3> QED BY <2>5, <3>1, PoolKept DEF IInv
  <2>9. QueueInv'
    <3>1. PICK i \in DOMAIN queue : queue[i] = p /\ queue' = RemoveAt(queue, i)
        BY <2>1
    <3>2. /\ queue' \in Seq(Parses) /\ ToSet(queue') = ToSet(queue) \ {p}
          /\ \A k, l \in DOMAIN queue' : queue'[k] = queue'[l] => k = l
        BY <3>1, TakenOut DEF IInv, QueueInv
    <3>3. Queued' = Queued \ {p}
        BY <2>3 DEF Queued
    <3> QED BY <3>2, <3>3 DEF IInv, QueueInv, ToSet
  <2> QED BY <2>7, <2>8, <2>9 DEF IInv
<1> QED BY <1>3, <1>4

LEMMA StartKeeps ==
    ASSUME IInv, NEW p \in Parses, Start(p)
    PROVE  IInv'
<1>1. /\ queue # <<>> /\ Head(queue) = p /\ Free /\ queue' = Tail(queue)
      /\ thread' = [thread EXCEPT ![p].stage = "open"] /\ doc' = doc /\ parse' = parse
    BY DEF Start, Enter
<1>2. /\ queue' \in Seq(Parses) /\ ToSet(queue') = ToSet(queue) \ {p} /\ p \in ToSet(queue)
      /\ \A i, j \in DOMAIN queue' : queue'[i] = queue'[j] => i = j
    BY <1>1, Leaves DEF IInv, QueueInv
<1>3. thread[p].stage = "queued"
    BY <1>2 DEF IInv, QueueInv, Queued
<1>4. "open" \in Stages
    BY DEF Stages
<1>5. /\ thread' \in [Parses -> Thread]
      /\ thread'[p].stage = "open" /\ thread'[p].over = thread[p].over
      /\ thread'[p].sampled = thread[p].sampled /\ thread'[p].read = thread[p].read
      /\ thread'[p].outcome = thread[p].outcome
      /\ \A q \in Parses \ {p} : thread'[q] = thread[q]
    BY <1>1, <1>4, StageFacts DEF IInv
<1>6. PICK t : t = thread'[p]
    OBVIOUS
<1>7. Becomes(p, parse[p], t)
    BY <1>1, <1>5, <1>6 DEF Becomes, IInv, RecordsInv
<1>8. Sound(doc[p], parse[p], t)
    BY <1>3, <1>5, <1>6 DEF IInv, RecordsInv, Sound
<1>9. RecordsInv'
    BY <1>7, <1>8, RecordsKept DEF IInv
<1>10. PoolInv'
    BY <1>1, <1>7, PoolKept DEF IInv
<1>11. QueueInv'
  <2>1. Queued' = Queued \ {p}
      BY <1>5 DEF Queued
  <2> QED BY <1>2, <2>1 DEF IInv, QueueInv, ToSet
<1> QED BY <1>9, <1>10, <1>11 DEF IInv

\* A thread that ends with something else than a result.
LEMMA EndKeeps ==
    ASSUME IInv, NEW p \in Parses, NEW a \in Outcomes, a # "ok", End(p, a),
           UNCHANGED <<doc, parse, queue>>, thread[p].stage \in Running
    PROVE  IInv'
<1>1. /\ thread' \in [Parses -> Thread]
      /\ thread'[p].stage = "ended" /\ thread'[p].over = thread[p].over
      /\ thread'[p].sampled = thread[p].sampled /\ thread'[p].read = thread[p].read
      /\ thread'[p].outcome = a /\ \A q \in Parses \ {p} : thread'[q] = thread[q]
    BY EndFacts DEF IInv
<1>2. a # "none"
    BY DEF Outcomes
<1>3. thread[p].stage # "ended" /\ thread[p].stage # "none"
    BY DEF Running
<1>4. Sound(doc[p], parse[p], thread'[p])
    BY <1>1, <1>2, <1>3 DEF IInv, RecordsInv, Sound
<1> QED BY <1>1, <1>4, ThreadGoesOn

\* A thread that goes to its next stage, but not to the pages or to the margins.
LEMMA StageKeeps ==
    ASSUME IInv, NEW p \in Parses, NEW s \in {"sample", "stuck"}, Enter(p, s),
           UNCHANGED <<doc, parse, queue>>, thread[p].stage \in Running,
           s = "sample" => thread[p].stage = "open"
    PROVE  IInv'
<1>1. s \in Stages
    BY DEF Stages
<1>2. /\ thread' \in [Parses -> Thread]
      /\ thread'[p].stage = s /\ thread'[p].over = thread[p].over
      /\ thread'[p].sampled = thread[p].sampled /\ thread'[p].read = thread[p].read
      /\ thread'[p].outcome = thread[p].outcome
      /\ \A q \in Parses \ {p} : thread'[q] = thread[q]
    BY <1>1, StageFacts DEF IInv, Enter
<1>3. thread[p].stage # "ended" /\ thread[p].stage # "none"
    BY DEF Running
<1>4. Sound(doc[p], parse[p], thread'[p])
    BY <1>2, <1>3 DEF IInv, RecordsInv, Sound
<1> QED BY <1>2, <1>4, ThreadGoesOn

LEMMA OpenKeeps ==
    ASSUME IInv, NEW p \in Parses, Open(p)
    PROVE  IInv'
<1>1. thread[p].stage = "open" /\ thread[p].stage \in Running /\ UNCHANGED <<doc, parse, queue>>
    BY DEF Open, Running
<1>2. CASE doc[p].trouble = "damaged"
  <2>1. End(p, "error") /\ "error" \in Outcomes
      BY <1>2 DEF Open, Outcomes
  <2> QED BY <1>1, <2>1, EndKeeps
<1>3. CASE doc[p].trouble = "deep"
  <2>1. End(p, "pathological") /\ "pathological" \in Outcomes
      BY <1>3 DEF Open, Outcomes
  <2> QED BY <1>1, <2>1, EndKeeps
<1>4. CASE doc[p].trouble \notin {"damaged", "deep"}
  <2>1. Enter(p, "sample")
      BY <1>4 DEF Open
  <2> QED BY <1>1, <2>1, StageKeeps
<1> QED BY <1>2, <1>3, <1>4

LEMMA BudgetKeeps ==
    ASSUME IInv, NEW p \in Parses, BudgetPasses(p)
    PROVE  IInv'
<1>1. /\ thread[p].stage \in Running /\ thread[p].stage # "queued"
      /\ thread' = [thread EXCEPT ![p].over = TRUE] /\ UNCHANGED <<doc, parse, queue>>
      /\ ~ thread[p].over
    BY DEF BudgetPasses, Running
<1>2. /\ thread' \in [Parses -> Thread]
      /\ thread'[p].stage = thread[p].stage /\ thread'[p].over
      /\ thread'[p].sampled = thread[p].sampled /\ thread'[p].read = thread[p].read
      /\ thread'[p].outcome = thread[p].outcome
      /\ \A q \in Parses \ {p} : thread'[q] = thread[q]
    BY <1>1, OverFacts DEF IInv
<1>3. Sound(doc[p], parse[p], thread'[p])
    BY <1>1, <1>2 DEF IInv, RecordsInv, Sound
<1> QED BY <1>1, <1>2, <1>3, ThreadGoesOn

LEMMA SampleKeeps ==
    ASSUME IInv, NEW p \in Parses, Sample(p)
    PROVE  IInv'
<1> DEFINE n == thread[p].sampled + 1
           d == doc[p]
<1>1. /\ thread[p].stage = "sample" /\ thread[p].stage \in Running
      /\ UNCHANGED <<doc, parse, queue>>
    BY DEF Sample, Running
<1>2. /\ SampleSize(p) = Smaller(Len(d.pages), SampleLimit) /\ SampleSize(p) \in Nat
      /\ SampleSize(p) <= Len(d.pages) /\ Len(d.pages) \in Nat
    BY DocumentTypes DEF IInv, RecordsInv
<1>3. /\ thread[p].sampled \in Nat /\ thread[p].sampled <= SampleSize(p)
      /\ thread[p].read = 0 /\ thread[p].over \in BOOLEAN /\ n \in Nat
    BY <1>1, <1>2 DEF IInv, RecordsInv, Sound, Thread
<1>4. CASE n > SampleSize(p) \/ thread[p].over
  <2>1. thread' = [thread EXCEPT ![p].stage = "pages"] /\ "pages" \in Stages
      BY <1>4 DEF Sample, Enter, Stages
  <2>2. /\ thread' \in [Parses -> Thread]
        /\ thread'[p].stage = "pages" /\ thread'[p].over = thread[p].over
        /\ thread'[p].sampled = thread[p].sampled /\ thread'[p].read = thread[p].read
        /\ thread'[p].outcome = thread[p].outcome
        /\ \A q \in Parses \ {p} : thread'[q] = thread[q]
      BY <2>1, StageFacts DEF IInv
  <2>3. thread[p].sampled = SampleSize(p) \/ (thread[p].over /\ thread[p].read < Len(d.pages))
    <3>1. CASE n > SampleSize(p)
        BY <1>2, <1>3, <3>1
    <3>2. CASE thread[p].over /\ ~ (n > SampleSize(p))
      <4>1. 0 < Len(d.pages)
          BY <1>2, <1>3, <3>2
      <4> QED BY <1>3, <3>2, <4>1
    <3> QED BY <1>4, <3>1, <3>2
  <2>4. Sound(doc[p], parse[p], thread'[p])
      BY <1>1, <1>2, <2>2, <2>3 DEF IInv, RecordsInv, Sound
  <2> QED BY <1>1, <2>2, <2>4, ThreadGoesOn
<1>5. CASE End(p, "error")
  <2>1. "error" \in Outcomes
      BY DEF Outcomes
  <2> QED BY <1>1, <1>5, <2>1, EndKeeps
<1>6. CASE Enter(p, "stuck")
    BY <1>1, <1>6, StageKeeps
<1>7. CASE ~ (n > SampleSize(p) \/ thread[p].over) /\ thread' = [thread EXCEPT ![p].sampled = n]
  <2>1. thread' = [thread EXCEPT ![p].sampled = n]
      BY <1>7
  <2> HIDE DEF n
  <2>2. /\ thread' \in [Parses -> Thread]
        /\ thread'[p].stage = thread[p].stage /\ thread'[p].over = thread[p].over
        /\ thread'[p].sampled = n /\ thread'[p].read = thread[p].read
        /\ thread'[p].outcome = thread[p].outcome
        /\ \A q \in Parses \ {p} : thread'[q] = thread[q]
      BY <1>3, <2>1, SampledFacts DEF IInv
  <2>3. n <= SampleSize(p)
      BY <1>2, <1>3, <1>7
  <2>4. Sound(doc[p], parse[p], thread'[p])
      BY <1>1, <1>2, <2>2, <2>3 DEF IInv, RecordsInv, Sound
  <2> QED BY <1>1, <2>2, <2>4, ThreadGoesOn
<1> QED BY <1>4, <1>5, <1>6, <1>7 DEF Sample, SamplePage

LEMMA ReadPageKeeps ==
    ASSUME IInv, NEW p \in Parses, ReadPage(p)
    PROVE  IInv'
<1> DEFINE n == thread[p].read + 1
           d == doc[p]
<1>1. /\ thread[p].stage = "pages" /\ thread[p].stage \in Running
      /\ UNCHANGED <<doc, parse, queue>> /\ n <= Len(d.pages)
      /\ IF thread[p].over THEN GiveUp(p) ELSE Extract(p, n)
    BY DEF ReadPage, Running
<1>2. /\ SampleSize(p) = Smaller(Len(d.pages), SampleLimit) /\ SampleSize(p) \in Nat
      /\ SampleSize(p) <= Len(d.pages) /\ Len(d.pages) \in Nat
    BY DocumentTypes DEF IInv, RecordsInv
<1>3. thread[p].read \in Nat /\ thread[p].over \in BOOLEAN /\ n \in Nat
    BY DEF IInv, RecordsInv, Thread
<1>4. CASE thread[p].over
  <2>1. End(p, "timeout") /\ "timeout" \in Outcomes
      BY <1>1, <1>4 DEF GiveUp, Outcomes
  <2> QED BY <1>1, <2>1, EndKeeps
<1>5. CASE ~ thread[p].over
  <2>1. Extract(p, n)
      BY <1>1, <1>5
  <2>2. CASE d.pages[n].trouble = "heavy"
    <3>1. End(p, "pathological") /\ "pathological" \in Outcomes
        BY <2>1, <2>2 DEF Extract, Outcomes
    <3> QED BY <1>1, <3>1, EndKeeps
  <2>3. CASE d.pages[n].trouble = "fails"
    <3>1. End(p, "error") /\ "error" \in Outcomes
        BY <2>1, <2>3 DEF Extract, Outcomes
    <3> QED BY <1>1, <3>1, EndKeeps
  <2>4. CASE d.pages[n].trouble = "hangs"
    <3>1. Enter(p, "stuck")
        BY <2>1, <2>4 DEF Extract
    <3> QED BY <1>1, <3>1, StageKeeps
  <2>5. CASE d.pages[n].trouble \notin {"heavy", "fails", "hangs"}
    <3>1. thread' = [thread EXCEPT ![p].read = n]
        BY <2>1, <2>5 DEF Extract
    <3> HIDE DEF n
    <3>2. /\ thread' \in [Parses -> Thread]
          /\ thread'[p].stage = thread[p].stage /\ thread'[p].over = thread[p].over
          /\ thread'[p].sampled = thread[p].sampled /\ thread'[p].read = n
          /\ thread'[p].outcome = thread[p].outcome
          /\ \A q \in Parses \ {p} : thread'[q] = thread[q]
        BY <1>3, <3>1, ReadFacts DEF IInv
    <3>3. Sound(doc[p], parse[p], thread'[p])
        BY <1>1, <1>5, <3>2 DEF IInv, RecordsInv, Sound
    <3> QED BY <1>1, <3>2, <3>3, ThreadGoesOn
  <2> QED BY <2>2, <2>3, <2>4, <2>5
<1> QED BY <1>3, <1>4, <1>5

LEMMA PagesReadKeeps ==
    ASSUME IInv, NEW p \in Parses, PagesRead(p)
    PROVE  IInv'
<1>1. /\ thread[p].stage = "pages" /\ thread[p].stage \in Running
      /\ UNCHANGED <<doc, parse, queue>> /\ thread[p].read = Len(doc[p].pages)
      /\ thread' = [thread EXCEPT ![p].stage = "strip"] /\ "strip" \in Stages
    BY DEF PagesRead, Running, Enter, Stages
<1>2. Len(doc[p].pages) \in Nat
    BY DocumentTypes DEF IInv, RecordsInv
<1>3. /\ thread' \in [Parses -> Thread]
      /\ thread'[p].stage = "strip" /\ thread'[p].over = thread[p].over
      /\ thread'[p].sampled = thread[p].sampled /\ thread'[p].read = thread[p].read
      /\ thread'[p].outcome = thread[p].outcome
      /\ \A q \in Parses \ {p} : thread'[q] = thread[q]
    BY <1>1, StageFacts DEF IInv
<1>4. thread[p].sampled = Smaller(Len(doc[p].pages), SampleLimit)
    BY <1>1, <1>2 DEF IInv, RecordsInv, Sound
<1>5. Sound(doc[p], parse[p], thread'[p])
    BY <1>1, <1>3, <1>4 DEF IInv, RecordsInv, Sound
<1> QED BY <1>1, <1>3, <1>5, ThreadGoesOn

LEMMA StripMarginsKeeps ==
    ASSUME IInv, NEW p \in Parses, StripMargins(p)
    PROVE  IInv'
<1>1. /\ thread[p].stage = "strip" /\ thread[p].stage \in Running
      /\ UNCHANGED <<doc, parse, queue>> /\ End(p, "ok") /\ "ok" \in Outcomes
    BY DEF StripMargins, Running, Outcomes
<1>2. /\ thread' \in [Parses -> Thread]
      /\ thread'[p].stage = "ended" /\ thread'[p].over = thread[p].over
      /\ thread'[p].sampled = thread[p].sampled /\ thread'[p].read = thread[p].read
      /\ thread'[p].outcome = "ok" /\ \A q \in Parses \ {p} : thread'[q] = thread[q]
    BY <1>1, EndFacts DEF IInv
<1>3. Sound(doc[p], parse[p], thread'[p])
    BY <1>1, <1>2 DEF IInv, RecordsInv, Sound
<1> QED BY <1>1, <1>2, <1>3, ThreadGoesOn

--------------------------------------------------------------------------------
(* The invariant holds *)

LEMMA InitSound == Init => IInv
<1> SUFFICES ASSUME Init PROVE IInv
    OBVIOUS
<1>1. doc \in Uploads /\ queue = <<>>
    BY DEF Init
<1>2. parse \in [Parses -> Parse] /\ \A p \in Parses : parse[p].answer = "none"
    BY DEF Init, Parse
<1>3. /\ thread \in [Parses -> Thread]
      /\ \A p \in Parses : /\ thread[p].stage = "none" /\ thread[p].outcome = "none"
                            /\ thread[p].sampled = 0 /\ thread[p].read = 0
    BY DEF Init, Thread, Stages
<1>4. RecordsInv
  <2>1. ASSUME NEW p \in Parses
        PROVE  Sound(doc[p], parse[p], thread[p])
    <3>1. Len(doc[p].pages) \in Nat /\ Smaller(Len(doc[p].pages), SampleLimit) \in Nat
        BY <1>1, DocumentTypes
    <3> QED BY <1>2, <1>3, <3>1 DEF Sound
  <2> QED BY <1>1, <1>2, <1>3, <2>1 DEF RecordsInv
<1>5. QueueInv
    BY <1>1, <1>3, EmptySeq DEF QueueInv, Queued, ToSet
<1>6. PoolInv
  <2>1. Busy = {}
      BY <1>3 DEF Busy, Running
  <2> QED BY <2>1, FS_EmptySet, ParserAssumption DEF PoolInv, IsSequence
<1> QED BY <1>4, <1>5, <1>6 DEF IInv

LEMMA NextSound == IInv /\ [Next]_vars => IInv'
<1> SUFFICES ASSUME IInv, [Next]_vars PROVE IInv'
    OBVIOUS
<1>1. CASE UNCHANGED vars
  <2>1. doc' = doc /\ parse' = parse /\ thread' = thread /\ queue' = queue
      BY <1>1 DEF vars
  <2>2. RecordsInv'
      BY <2>1 DEF IInv, RecordsInv, Sound
  <2>3. QueueInv'
      BY <2>1 DEF IInv, QueueInv, Queued, ToSet
  <2>4. PoolInv'
    <3>1. Busy' = Busy
        BY <2>1 DEF Busy
    <3> QED BY <3>1 DEF IInv, PoolInv
  <2> QED BY <2>2, <2>3, <2>4 DEF IInv
<1>2. CASE \E p \in Parses : Coroutine(p) \/ ThreadStep(p) \/ BudgetPasses(p)
  <2>1. PICK p \in Parses : Coroutine(p) \/ ThreadStep(p) \/ BudgetPasses(p)
      BY <1>2
  <2>2. CASE Coroutine(p)
      BY <2>2, SubmitKeeps, DeliverKeeps, DeadlineKeeps, TimesOutKeeps DEF Coroutine
  <2>3. CASE ThreadStep(p)
      BY <2>3, StartKeeps, OpenKeeps, SampleKeeps, ReadPageKeeps, PagesReadKeeps,
         StripMarginsKeeps DEF ThreadStep
  <2>4. CASE BudgetPasses(p)
      BY <2>4, BudgetKeeps
  <2> QED BY <2>1, <2>2, <2>3, <2>4
<1> QED BY <1>1, <1>2 DEF Next, Finished

\* The inductive invariant: each parse's coroutine and thread agree on how far the
\* extraction is, and the pool's queue and its threads on who has a thread (parse,
\* _extract_content).
THEOREM InductiveInvariant == Spec => []IInv
BY InitSound, NextSound, PTL DEF Spec

\* The states of the coroutines, the threads and the queue are those the code can
\* be in: the queue holds what has no thread, and no more threads run than the pool
\* has.
THEOREM TypeCorrect == Spec => []TypeOK
<1>1. IInv => TypeOK
  <2> SUFFICES ASSUME IInv PROVE TypeOK
      OBVIOUS
  <2>1. ASSUME NEW p \in Parses
        PROVE  /\ thread[p].stage \in Stages /\ thread[p].over \in BOOLEAN
               /\ thread[p].sampled \in 0 .. SampleSize(p)
               /\ thread[p].outcome \in Outcomes \cup {"none"}
               /\ thread[p].outcome # "none" <=> thread[p].stage = "ended"
               /\ thread[p].read \in 0 .. Len(doc[p].pages)
    <3>1. /\ Len(doc[p].pages) \in Nat /\ SampleSize(p) \in Nat
          /\ SampleSize(p) = Smaller(Len(doc[p].pages), SampleLimit)
        BY DocumentTypes DEF IInv, RecordsInv
    <3>2. /\ thread[p].stage \in Stages /\ thread[p].over \in BOOLEAN
          /\ thread[p].sampled \in Nat /\ thread[p].read \in Nat
          /\ thread[p].outcome \in Outcomes \cup {"none"}
        BY DEF IInv, RecordsInv, Thread
    <3>3. Sound(doc[p], parse[p], thread[p])
        BY DEF IInv, RecordsInv
    <3> QED BY <3>1, <3>2, <3>3 DEF Sound
  <2>2. DOMAIN doc = Parses /\ parse \in [Parses -> Parse]
      BY ParserAssumption DEF IInv, RecordsInv, IsSequence
  <2>3. /\ ToSet(queue) = {p \in Parses : thread[p].stage = "queued"}
        /\ Cardinality({p \in Parses : thread[p].stage \in Running}) <= PoolSize
      BY DEF IInv, QueueInv, Queued, PoolInv, Busy
  <2> QED BY <2>1, <2>2, <2>3 DEF TypeOK
<1> QED BY <1>1, InductiveInvariant, PTL

\* A thread that ended well has read all pages, with the median of the whole sample.
LEMMA SuccessfulFacts ==
    ASSUME IInv, NEW p \in Parses, Successful(p)
    PROVE  thread[p].sampled = SampleSize(p) /\ thread[p].read = Len(doc[p].pages)
BY DocumentTypes DEF IInv, RecordsInv, Sound, Successful

\* A successful parse is that of the whole document, whatever the clocks did.
THEOREM CompleteResults == Spec => []ResultComplete
<1>1. IInv => ResultComplete
  <2> SUFFICES ASSUME IInv, NEW p \in Parses, Successful(p)
               PROVE  Result(p) = Whole(p)
      BY DEF ResultComplete
  <2>1. thread[p].sampled = SampleSize(p) /\ thread[p].read = Len(doc[p].pages)
      BY SuccessfulFacts
  <2>2. DOMAIN doc[p].pages = 1 .. Len(doc[p].pages)
      BY DocumentTypes DEF IInv, RecordsInv
  <2>3. Pages(p) = [n \in DOMAIN doc[p].pages |->
                      PageBlocks(doc[p].pages[n],
                                 Median(SubSeq(doc[p].pages, 1, SampleSize(p))))]
      BY <2>1, <2>2 DEF Pages, MedianSize
  <2> QED BY <2>3 DEF Result, Whole
<1> QED BY <1>1, InductiveInvariant, PTL

--------------------------------------------------------------------------------
(* Texts that run in a margin *)

\* Before the first page.
NoRun == [now |-> 0, longest |-> 0]

\* The fold of LongestRun over the first n pages, where on says which of them have
\* the text: by its definition a function on the sets of pages, whose last is taken
\* off first.
RunOver(g, on, n) ==
    g = [s \in SUBSET (1 .. n) |->
           IF s = {} THEN NoRun ELSE NextRun(g[s \ {Max(s)}], on[Max(s)])]

\* Of a set of pages Max is one, and none of them comes after it.
LEMMA MaxOfPages ==
    ASSUME NEW n \in Nat, NEW s \in SUBSET (1 .. n), s # {}
    PROVE  Max(s) \in s /\ \A x \in s : x <= Max(s)
<1> DEFINE U == {u \in Nat : \A x \in s : x <= u}
<1>1. n \in U /\ U \in SUBSET Nat
    OBVIOUS
<1>2. PICK m \in U : \A u \in U : m <= u
  <2> HIDE DEF U
  <2> QED BY <1>1, LeastElementExists
<1>3. m \in s
  <2> SUFFICES ASSUME m \notin s PROVE FALSE
      OBVIOUS
  <2>1. PICK x \in s : x \in 1 .. n
      OBVIOUS
  <2>2. m \in Nat /\ x <= m /\ m - 1 \in Nat
      BY <1>2, <2>1
  <2>3. \A y \in s : y <= m - 1
    <3> SUFFICES ASSUME NEW y \in s PROVE y <= m - 1
        OBVIOUS
    <3>1. y \in 1 .. n /\ y <= m /\ y # m
        BY <1>2
    <3> QED BY <2>2, <3>1
  <2>4. m <= m - 1
      BY <1>2, <2>2, <2>3
  <2> QED BY <2>2, <2>4
<1>4. \A x \in s : x <= m /\ m >= x
    BY <1>2
<1>5. Max(s) \in s /\ \A x \in s : Max(s) >= x
    BY <1>3, <1>4 DEF Max
<1> QED BY <1>5

\* And only it is.
LEMMA MaxIs ==
    ASSUME NEW n \in Nat, NEW s \in SUBSET (1 .. n), NEW m \in s, \A x \in s : x <= m
    PROVE  Max(s) = m
<1>1. Max(s) \in s /\ m <= Max(s)
    BY MaxOfPages
<1>2. m \in 1 .. n /\ Max(s) \in 1 .. n
    BY <1>1
<1>3. Max(s) <= m
    BY <1>1
<1> QED BY <1>1, <1>2, <1>3

\* It exists, or there is a least number of pages without one.
LEMMA RunOverExists ==
    ASSUME NEW on, NEW N \in Nat
    PROVE  \E g : RunOver(g, on, N)
<1> DEFINE S == {n \in Nat : ~ \E g : RunOver(g, on, n)}
<1> SUFFICES ASSUME S # {} PROVE FALSE
    OBVIOUS
<1>1. PICK n \in S : \A k \in S : n <= k
  <2>1. S \in SUBSET Nat
      OBVIOUS
  <2> HIDE DEF S
  <2> QED BY <2>1, LeastElementExists
<1>2. CASE n = 0
  <2> DEFINE g == [s \in SUBSET (1 .. 0) |-> NoRun]
  <2>1. \A s \in SUBSET (1 .. 0) : s = {}
      OBVIOUS
  <2>2. RunOver(g, on, 0)
      BY <2>1 DEF RunOver
  <2> QED BY <1>1, <1>2, <2>2
<1>3. CASE n # 0
  <2>1. PICK m \in Nat : n = m + 1 /\ m \notin S
    <3>1. n - 1 \in Nat /\ n = (n - 1) + 1 /\ ~ (n <= n - 1) /\ n \in Nat
        BY <1>1, <1>3
    <3> HIDE DEF S
    <3> QED BY <1>1, <3>1
  <2>2. PICK f : RunOver(f, on, m)
      BY <2>1
  <2> DEFINE g == [s \in SUBSET (1 .. n) |->
                     IF n \in s THEN NextRun(f[s \ {n}], on[n]) ELSE f[s]]
  <2>3. ASSUME NEW s \in SUBSET (1 .. n)
        PROVE  g[s] = IF s = {} THEN NoRun ELSE NextRun(g[s \ {Max(s)}], on[Max(s)])
    <3>1. CASE n \in s
      <4>1. Max(s) = n
        <5>1. n \in Nat /\ \A x \in s : x <= n
            BY <1>1
        <5> QED BY <3>1, <5>1, MaxIs
      <4>2. s \ {n} \in SUBSET (1 .. n) /\ n \notin s \ {n}
          OBVIOUS
      <4>3. g[s \ {n}] = f[s \ {n}]
          BY <4>2
      <4>4. g[s] = NextRun(f[s \ {n}], on[n]) /\ s # {}
          BY <3>1
      <4> HIDE DEF g
      <4> QED BY <4>1, <4>3, <4>4
    <3>2. CASE n \notin s
      <4>1. s \in SUBSET (1 .. m) /\ g[s] = f[s]
          BY <2>1, <3>2
      <4>2. f[s] = IF s = {} THEN NoRun ELSE NextRun(f[s \ {Max(s)}], on[Max(s)])
          BY <2>2, <4>1 DEF RunOver
      <4>3. s \ {Max(s)} \in SUBSET (1 .. n) /\ n \notin s \ {Max(s)}
          BY <3>2
      <4>4. g[s \ {Max(s)}] = f[s \ {Max(s)}]
          BY <4>3
      <4> HIDE DEF g
      <4> QED BY <4>1, <4>2, <4>4
    <3> QED BY <3>1, <3>2
  <2>4. g = [s \in SUBSET (1 .. n) |-> g[s]]
      OBVIOUS
  <2> HIDE DEF g
  <2>5. RunOver(g, on, n)
      BY <2>3, <2>4 DEF RunOver
  <2> QED BY <1>1, <2>5
<1> QED BY <1>2, <1>3

\* What the run knows after m pages.
RunKnows(run, on, m) ==
    /\ run.now \in Nat /\ run.longest \in Nat
    /\ run.now >= 1 <=> m >= 1 /\ on[m]
    /\ run.now >= 2 <=> m >= 2 /\ on[m - 1] /\ on[m]
    /\ run.longest >= 2 <=> \E k \in 1 .. (m - 1) : on[k] /\ on[k + 1]

\* Or there is a least number of pages after which it is wrong.
LEMMA RunKnowsAll ==
    ASSUME NEW N \in Nat, NEW on \in [1 .. N -> BOOLEAN], NEW g, RunOver(g, on, N),
           NEW n \in 0 .. N
    PROVE  RunKnows(g[1 .. n], on, n)
<1> DEFINE S == {k \in 0 .. N : ~ RunKnows(g[1 .. k], on, k)}
<1> SUFFICES ASSUME S # {} PROVE FALSE
    OBVIOUS
<1>1. PICK m \in S : \A k \in S : m <= k
  <2>1. S \in SUBSET Nat
      OBVIOUS
  <2> HIDE DEF S
  <2> QED BY <2>1, LeastElementExists
<1>2. m \in 0 .. N /\ ~ RunKnows(g[1 .. m], on, m)
    BY <1>1
<1>3. CASE m = 0
  <2>1. 1 .. 0 = {} /\ {} \in SUBSET (1 .. N)
      OBVIOUS
  <2>2. g[1 .. 0] = NoRun
      BY <2>1 DEF RunOver
  <2>3. NoRun.now = 0 /\ NoRun.longest = 0
      BY DEF NoRun
  <2>4. RunKnows(NoRun, on, 0)
      BY <2>3 DEF RunKnows
  <2> QED BY <1>2, <1>3, <2>2, <2>4
<1>4. CASE m # 0
  <2>1. PICK j \in 0 .. N : m = j + 1 /\ j \notin S
    <3>1. m - 1 \in 0 .. N /\ m = (m - 1) + 1 /\ ~ (m <= m - 1)
        BY <1>2, <1>4
    <3> HIDE DEF S
    <3> QED BY <1>1, <3>1
  <2>2. RunKnows(g[1 .. j], on, j)
      BY <2>1
  <2>3. g[1 .. m] = NextRun(g[1 .. j], on[m])
    <3>1. 1 .. m \in SUBSET (1 .. N) /\ m \in 1 .. m /\ \A x \in 1 .. m : x <= m
        BY <1>2, <1>4
    <3>2. Max(1 .. m) = m
        BY <3>1, MaxIs
    <3>3. (1 .. m) \ {m} = 1 .. j /\ 1 .. m # {}
        BY <2>1, <3>1
    <3> QED BY <3>1, <3>2, <3>3 DEF RunOver
  <2> DEFINE run == g[1 .. j]
             next == g[1 .. m]
  <2>4. /\ next.now = IF on[m] THEN run.now + 1 ELSE 0
        /\ next.longest = IF next.now > run.longest THEN next.now ELSE run.longest
      BY <2>3 DEF NextRun
  <2>5. /\ run.now \in Nat /\ run.longest \in Nat
        /\ run.now >= 1 <=> j >= 1 /\ on[j]
        /\ run.longest >= 2 <=> \E k \in 1 .. (j - 1) : on[k] /\ on[k + 1]
      BY <2>2 DEF RunKnows
  <2> HIDE DEF run, next
  <2>6. m \in 1 .. N /\ on[m] \in BOOLEAN /\ j \in Nat /\ m = j + 1
      BY <1>2, <1>4, <2>1
  <2>7. next.now \in Nat /\ next.longest \in Nat
      BY <2>4, <2>5
  <2>8. next.now >= 1 <=> m >= 1 /\ on[m]
      BY <2>4, <2>5, <2>6
  <2>9. next.now >= 2 <=> m >= 2 /\ on[m - 1] /\ on[m]
    <3>1. m - 1 = j /\ (m >= 2 <=> j >= 1)
        BY <2>6
    <3>2. next.now >= 2 <=> on[m] /\ run.now >= 1
        BY <2>4, <2>5, <2>6
    <3> QED BY <2>5, <3>1, <3>2
  <2>10. next.longest >= 2 <=> next.now >= 2 \/ run.longest >= 2
      BY <2>4, <2>5, <2>7
  <2>11. (\E k \in 1 .. (m - 1) : on[k] /\ on[k + 1])
           <=> (m >= 2 /\ on[m - 1] /\ on[m]) \/ \E k \in 1 .. (j - 1) : on[k] /\ on[k + 1]
    <3>1. \A k : k \in 1 .. (m - 1) <=> k \in 1 .. (j - 1) \/ (k = j /\ m >= 2)
        BY <2>6
    <3>2. m - 1 = j /\ j + 1 = m
        BY <2>6
    <3> QED BY <3>1, <3>2
  <2>12. RunKnows(next, on, m)
      BY <2>5, <2>7, <2>8, <2>9, <2>10, <2>11 DEF RunKnows
  <2> QED BY <1>2, <2>12 DEF next
<1> QED BY <1>3, <1>4

\* The stripper's counting over the pages finds the texts that stand in the zone on
\* two pages in a row, and no others (_find_consecutive_repeats).
THEOREM LongestRunFacts ==
    ASSUME NEW pages, NEW zone, NEW height, NEW text, NEW N \in Nat, DOMAIN pages = 1 .. N
    PROVE  LongestRun(pages, zone, height, text) >= 2
             <=> \E k \in 1 .. (N - 1) : /\ text \in Texts(pages[k], zone, height)
                                         /\ text \in Texts(pages[k + 1], zone, height)
<1> DEFINE on == [k \in 1 .. N |-> text \in Texts(pages[k], zone, height)]
           rec(g) == [s \in SUBSET (1 .. N) |->
                        IF s = {} THEN NoRun
                        ELSE NextRun(g[s \ {Max(s)}], text \in Texts(pages[Max(s)], zone, height))]
           G == CHOOSE g : g = rec(g)
<1>1. on \in [1 .. N -> BOOLEAN]
    OBVIOUS
<1>2. ASSUME NEW g, NEW s \in SUBSET (1 .. N), s # {}
      PROVE  on[Max(s)] = (text \in Texts(pages[Max(s)], zone, height))
  <2>1. Max(s) \in 1 .. N
      BY <1>2, MaxOfPages
  <2> QED BY <2>1
<1>3. PICK f : RunOver(f, on, N)
    BY RunOverExists
<1> DEFINE rep(g) == [s \in SUBSET (1 .. N) |->
                        IF s = {} THEN NoRun ELSE NextRun(g[s \ {Max(s)}], on[Max(s)])]
<1>4. \A g : rec(g) = rep(g)
    BY <1>2
<1>5. f = rep(f)
    BY <1>3 DEF RunOver
<1>6. G = rep(G)
    BY <1>4, <1>5
<1>7. RunOver(G, on, N)
    BY <1>6 DEF RunOver
<1>8. LongestRun(pages, zone, height, text) = G[1 .. N].longest
    BY DEF LongestRun, FoldLeft, MapThenFoldSet, NoRun
<1>9. RunKnows(G[1 .. N], on, N)
  <2> HIDE DEF G, on
  <2> QED BY <1>1, <1>7, RunKnowsAll
<1> HIDE DEF G
<1>10. LongestRun(pages, zone, height, text) >= 2 <=> \E k \in 1 .. (N - 1) : on[k] /\ on[k + 1]
    BY <1>8, <1>9 DEF RunKnows
<1>11. \A k \in 1 .. (N - 1) : /\ on[k] = (text \in Texts(pages[k], zone, height))
                               /\ on[k + 1] = (text \in Texts(pages[k + 1], zone, height))
    OBVIOUS
<1> QED BY <1>10, <1>11

--------------------------------------------------------------------------------
(* Columns and keys of a page *)

\* Where the blocks of a page start, and which of its left edges start a column.
Edges(page) == {page.blocks[i].x0 : i \in DOMAIN page.blocks}

Starting(page) ==
    {i \in DOMAIN LeftEdges(page) : ~ (i # 1 /\ 10 * Gap(LeftEdges(page), i) <= page.width)}

\* The left edges are those of the blocks, from left to right.
LEMMA LeftEdgesFacts ==
    ASSUME NEW page, IsPage(page)
    PROVE  \E N \in Nat : /\ LeftEdges(page) \in [1 .. N -> Edges(page)]
                          /\ \A x \in Edges(page) : \E k \in 1 .. N : LeftEdges(page)[k] = x
                          /\ \A k, l \in 1 .. N : k < l => LeftEdges(page)[k] < LeftEdges(page)[l]
<1> DEFINE S == Edges(page)
           R == {e \in S \X S : e[1] < e[2]}
<1>1. S \in SUBSET Nat
    BY DEF Edges, IsPage, IsBlock, IsSequence
<1>2. IsFiniteSet(S)
  <2>1. PICK n \in Nat : n = Len(page.blocks) /\ DOMAIN page.blocks = 1 .. n
      BY SequenceDomain DEF IsPage, IsSequence
  <2> DEFINE f == [i \in 1 .. n |-> page.blocks[i].x0]
  <2>2. f \in [1 .. n -> S] /\ \A x \in S : \E i \in 1 .. n : f[i] = x
      BY <2>1 DEF Edges
  <2> HIDE DEF f, S
  <2>3. f \in Surjection(1 .. n, S)
      BY <2>2, Fun_IsSurj
  <2>4. IsFiniteSet(1 .. n)
      BY FS_Interval
  <2> QED BY <2>3, <2>4, FS_Surjection
<1>3. \A x, y \in S : <<x, y>> \in R <=> x < y
    OBVIOUS
<1>4. Orders(R, S)
  <2> HIDE DEF R, S
  <2> QED BY <1>1, <1>3 DEF Orders
<1>5. \A x \in S : Before(R, S, x) = {y \in S : y < x}
    BY <1>3 DEF Before
<1>6. LeftEdges(page) = Ranked(R, S)
  <2>1. LeftEdges(page) = [k \in 1 .. Cardinality(S) |->
                             CHOOSE i \in S : Cardinality({j \in S : j < i}) = k - 1]
      BY DEF LeftEdges, InOrderOf, Edges
  <2> HIDE DEF R, S
  <2> QED BY <2>1, <1>5 DEF Ranked
<1>7. PICK N : N = Cardinality(S)
    OBVIOUS
<1> HIDE DEF R, S
<1>8. /\ N \in Nat
      /\ LeftEdges(page) \in [1 .. N -> S]
      /\ \A x \in S : \E k \in 1 .. N : LeftEdges(page)[k] = x
      /\ \A k, l \in 1 .. N : k < l => <<LeftEdges(page)[k], LeftEdges(page)[l]>> \in R
  <2>1. /\ N \in Nat
        /\ Ranked(R, S) \in [1 .. N -> S]
        /\ \A x \in S : \E k \in 1 .. N : Ranked(R, S)[k] = x
        /\ \A k, l \in 1 .. N : k < l => <<Ranked(R, S)[k], Ranked(R, S)[l]>> \in R
      BY <1>2, <1>4, <1>7, RankedFacts
  <2> QED BY <1>6, <2>1
<1>9. \A k, l \in 1 .. N : k < l => LeftEdges(page)[k] < LeftEdges(page)[l]
  <2>1. \A k \in 1 .. N : LeftEdges(page)[k] \in S
      BY <1>8
  <2> QED BY <1>3, <1>8, <2>1
<1> QED BY <1>8, <1>9 DEF S

\* The columns start at some of the left edges, or at 0 on a page without text.
LEMMA ColumnStartsFacts ==
    ASSUME NEW page, IsPage(page)
    PROVE  /\ IsSequence(ColumnStarts(page)) /\ ToSet(ColumnStarts(page)) \in SUBSET Nat
           /\ Edges(page) # {} =>
                \E r : Picks(ColumnStarts(page), LeftEdges(page), Starting(page), r)
<1>1. PICK N \in Nat :
        /\ LeftEdges(page) \in [1 .. N -> Edges(page)]
        /\ \A x \in Edges(page) : \E k \in 1 .. N : LeftEdges(page)[k] = x
    BY LeftEdgesFacts
<1>2. Edges(page) \in SUBSET Nat
    BY DEF Edges, IsPage, IsBlock, IsSequence
<1> DEFINE edges == LeftEdges(page)
           x(i) == Unless(i # 1 /\ 10 * Gap(edges, i) <= page.width, <<edges[i]>>)
           ss == [i \in DOMAIN edges |-> x(i)]
<1>3. ColumnStarts(page) = IF edges = <<>> THEN <<0>> ELSE FlattenSeq(ss)
    BY DEF ColumnStarts
<1>4. CASE edges = <<>>
  <2>1. Edges(page) = {}
    <3>1. DOMAIN edges = {}
        BY <1>4
    <3>2. DOMAIN edges = 1 .. N
        BY <1>1
    <3> QED BY <1>1, <3>1, <3>2
  <2>2. ColumnStarts(page) = <<0>> /\ <<0>> \in Seq(Nat) /\ ToSet(<<0>>) = {0} /\ <<0>> \in Seq({0})
      BY <1>3, <1>4 DEF ToSet
  <2> QED BY <2>1, <2>2 DEF IsSequence
<1>5. CASE edges # <<>>
  <2>1. DOMAIN edges = 1 .. N
      BY <1>1
  <2> DEFINE I == Starting(page)
  <2>2. I \in SUBSET (1 .. N)
      BY <2>1 DEF Starting
  <2>3. \A i \in I : edges[i] \in Nat
      BY <1>1, <1>2, <2>2
  <2>4. OneOrNone(ss, N, edges, I)
    <3>1. \A i \in 1 .. N : x(i) = IF i \in I THEN <<edges[i]>> ELSE <<>>
        BY <2>1 DEF Starting, Unless
    <3>2. ss = [i \in 1 .. N |-> x(i)]
        BY <2>1
    <3> HIDE DEF ss, x, I
    <3> QED BY <3>1, <3>2 DEF OneOrNone
  <2> HIDE DEF ss, I, edges
  <2>5. FlattenSeq(ss) \in Seq(Nat) /\ \E r : Picks(FlattenSeq(ss), edges, I, r)
      BY <2>2, <2>3, <2>4, FlattenSeqPicks
  <2>6. ColumnStarts(page) = FlattenSeq(ss)
      BY <1>3, <1>5
  <2>7. ToSet(ColumnStarts(page)) \in SUBSET Nat /\ IsSequence(ColumnStarts(page))
      BY <2>5, <2>6, OwnElements
  <2> QED BY <2>5, <2>6, <2>7 DEF edges, I
<1> QED BY <1>4, <1>5

\* Least of a nonempty set of numbers is in it.
LEMMA LeastFacts ==
    ASSUME NEW S \in SUBSET Nat, S # {}
    PROVE  Least(S) \in S /\ \A y \in S : Least(S) <= y
BY LeastElementExists DEF Least

\* Every item is in some column.
LEMMA ColumnOfType ==
    ASSUME NEW page, IsPage(page), NEW x \in Nat
    PROVE  ColumnOf(page, x) \in Nat
<1> DEFINE starts == ColumnStarts(page)
           end(i) == IF i < Len(starts) THEN starts[i + 1] - Point ELSE page.width
           within == {i \in DOMAIN starts : starts[i] <= x /\ x <= end(i)}
<1>1. DOMAIN starts \in SUBSET Nat
    BY ColumnStartsFacts, SequenceDomain
<1>2. within \in SUBSET Nat
    BY <1>1
<1>3. ColumnOf(page, x) = IF within = {} THEN 1 ELSE Least(within)
    BY DEF ColumnOf
<1> HIDE DEF within
<1>4. within # {} => Least(within) \in within
    BY <1>2, LeastFacts
<1>5. CASE within = {}
    BY <1>3, <1>5
<1>6. CASE within # {}
  <2>1. Least(within) \in Nat
      BY <1>2, <1>4, <1>6
  <2> QED BY <1>3, <1>6, <2>1
<1> QED BY <1>5, <1>6

\* What is on a page, and the keys it is sorted by.
Kinds == {"heading", "table", "list_item", "body"}

IsItem(b) == b.kind \in Kinds /\ b.boxed \in BOOLEAN /\ b.x \in Nat /\ b.y \in Nat

IsKey(k) == DOMAIN k = 1 .. 3 /\ k = [i \in 1 .. 3 |-> k[i]] /\ \A i \in 1 .. 3 : k[i] \in Nat

LEMMA SortKeyType ==
    ASSUME NEW page, IsPage(page), NEW b, IsItem(b)
    PROVE  IsKey(SortKey(page, b))
<1>1. b.x \in Nat /\ b.y \in Nat /\ b.boxed \in BOOLEAN /\ ColumnOf(page, b.x) \in Nat
    BY ColumnOfType DEF IsItem
<1>2. PICK c \in Nat : c = ColumnOf(page, b.x)
    BY <1>1
<1>3. IsKey(<<c, b.y, b.x>>) /\ IsKey(<<1, 0, 0>>)
    BY <1>1 DEF IsKey
<1> QED BY <1>1, <1>2, <1>3 DEF SortKey

\* The position of i comes before that of j.
Earlier(key, i, j) == Precedes(key[i], key[j]) \/ (key[i] = key[j] /\ i < j)

\* Tuples of numbers are compared from left to right, which is transitive.
LEMMA PrecedesTransitive ==
    ASSUME NEW a, NEW b, NEW c, Precedes(a, b), Precedes(b, c),
           a[1] \in Nat, b[1] \in Nat, c[1] \in Nat,
           a[2] \in Nat, b[2] \in Nat, c[2] \in Nat,
           a[3] \in Nat, b[3] \in Nat, c[3] \in Nat
    PROVE  Precedes(a, c)
<1>1. a[1] < b[1] \/ (a[1] = b[1] /\ (a[2] < b[2] \/ (a[2] = b[2] /\ a[3] < b[3])))
    BY Zenon DEF Precedes
<1>2. b[1] < c[1] \/ (b[1] = c[1] /\ (b[2] < c[2] \/ (b[2] = c[2] /\ b[3] < c[3])))
    BY Zenon DEF Precedes
<1>3. a[1] < c[1] \/ (a[1] = c[1] /\ (a[2] < c[2] \/ (a[2] = c[2] /\ a[3] < c[3])))
    BY <1>1, <1>2
<1> QED BY <1>3, Zenon DEF Precedes

\* A stable order: every position once, and an earlier key never after a later one.
LEMMA StableOrderFacts ==
    ASSUME NEW L \in Nat, NEW key, DOMAIN key = 1 .. L, \A i \in 1 .. L : IsKey(key[i])
    PROVE  /\ StableOrder(key) \in [1 .. L -> 1 .. L]
           /\ \A i \in 1 .. L : \E k \in 1 .. L : StableOrder(key)[k] = i
           /\ \A k, l \in 1 .. L : k < l => Earlier(key, StableOrder(key)[k], StableOrder(key)[l])
<1> DEFINE S == 1 .. L
           R == {e \in S \X S : Earlier(key, e[1], e[2])}
<1>1. \A i, j \in S : <<i, j>> \in R <=> Earlier(key, i, j)
    OBVIOUS
<1>2. Orders(R, S)
  <2> HIDE DEF R
  <2>1. ASSUME NEW i \in S
        PROVE  <<i, i>> \notin R
    <3>1. key[i][1] \in Nat /\ key[i][2] \in Nat /\ key[i][3] \in Nat /\ i \in Nat
        BY DEF IsKey
    <3> QED BY <1>1, <3>1 DEF Earlier, Precedes
  <2>2. ASSUME NEW i \in S, NEW j \in S, i # j
        PROVE  <<i, j>> \in R \/ <<j, i>> \in R
    <3>1. /\ key[i][1] \in Nat /\ key[i][2] \in Nat /\ key[i][3] \in Nat /\ i \in Nat
          /\ key[j][1] \in Nat /\ key[j][2] \in Nat /\ key[j][3] \in Nat /\ j \in Nat
        BY DEF IsKey
    <3>2. CASE key[i] = key[j]
        BY <1>1, <2>2, <3>1, <3>2 DEF Earlier
    <3>3. CASE key[i] # key[j]
      <4>1. key[i][1] # key[j][1] \/ key[i][2] # key[j][2] \/ key[i][3] # key[j][3]
        <5> SUFFICES ASSUME key[i][1] = key[j][1] /\ key[i][2] = key[j][2] /\ key[i][3] = key[j][3]
                     PROVE  FALSE
            OBVIOUS
        <5>1. \A m \in 1 .. 3 : m = 1 \/ m = 2 \/ m = 3
            OBVIOUS
        <5>2. \A m \in 1 .. 3 : key[i][m] = key[j][m]
            BY <5>1
        <5>3. /\ key[i] = [m \in 1 .. 3 |-> key[i][m]]
              /\ key[j] = [m \in 1 .. 3 |-> key[j][m]]
            BY DEF IsKey
        <5>4. [m \in 1 .. 3 |-> key[i][m]] = [m \in 1 .. 3 |-> key[j][m]]
            BY <5>2
        <5> QED BY <3>3, <5>3, <5>4
      <4> QED BY <1>1, <3>1, <4>1 DEF Earlier, Precedes
    <3> QED BY <3>2, <3>3
  <2>3. ASSUME NEW i \in S, NEW j \in S, NEW k \in S, <<i, j>> \in R, <<j, k>> \in R
        PROVE  <<i, k>> \in R
    <3>1. /\ key[i][1] \in Nat /\ key[i][2] \in Nat /\ key[i][3] \in Nat /\ i \in Nat
          /\ key[j][1] \in Nat /\ key[j][2] \in Nat /\ key[j][3] \in Nat /\ j \in Nat
          /\ key[k][1] \in Nat /\ key[k][2] \in Nat /\ key[k][3] \in Nat /\ k \in Nat
        BY DEF IsKey
    <3>2. Earlier(key, i, j) /\ Earlier(key, j, k)
        BY <1>1, <2>3
    <3>3. CASE key[i] = key[j] \/ key[j] = key[k]
        BY <1>1, <3>1, <3>2, <3>3 DEF Earlier
    <3>4. CASE Precedes(key[i], key[j]) /\ Precedes(key[j], key[k])
      <4>1. Precedes(key[i], key[k])
          BY <3>1, <3>4, PrecedesTransitive
      <4> QED BY <1>1, <4>1 DEF Earlier
    <3> QED BY <3>2, <3>3, <3>4 DEF Earlier
  <2> QED BY <2>1, <2>2, <2>3 DEF Orders
<1>3. IsFiniteSet(S) /\ Cardinality(S) = L
    BY FS_Interval
<1>4. \A i \in S : Before(R, S, i) = {j \in S : Earlier(key, j, i)}
    BY <1>1 DEF Before
<1>5. StableOrder(key) = Ranked(R, S)
  <2>1. StableOrder(key) = [k \in 1 .. Cardinality(S) |->
                             CHOOSE i \in S : Cardinality({j \in S : Earlier(key, j, i)}) = k - 1]
      BY DEF StableOrder, InOrderOf, Earlier
  <2> HIDE DEF R, S
  <2> QED BY <2>1, <1>4 DEF Ranked
<1> HIDE DEF R
<1>6. /\ Ranked(R, S) \in [1 .. L -> S]
      /\ \A i \in S : \E k \in 1 .. L : Ranked(R, S)[k] = i
      /\ \A k, l \in 1 .. L : k < l => <<Ranked(R, S)[k], Ranked(R, S)[l]>> \in R
  <2> DEFINE M == Cardinality(S)
  <2> HIDE DEF S
  <2>1. /\ Ranked(R, S) \in [1 .. M -> S]
        /\ \A i \in S : \E k \in 1 .. M : Ranked(R, S)[k] = i
        /\ \A k, l \in 1 .. M : k < l => <<Ranked(R, S)[k], Ranked(R, S)[l]>> \in R
      BY <1>2, <1>3, RankedFacts
  <2>2. M = L
      BY <1>3
  <2> HIDE DEF M
  <2> QED BY <2>1, <2>2
<1>7. \A k \in 1 .. L : Ranked(R, S)[k] \in S
    BY <1>6
<1> QED BY <1>1, <1>5, <1>6, <1>7

--------------------------------------------------------------------------------
(* What is on a page *)

\* The places of a page: its lines, by block, and its tables, as block 0.
Shown(b) == {j \in DOMAIN b.lines : b.lines[j].text # Blank}

Bare(page) == {i \in DOMAIN page.blocks : ~ OverlapsTable(page, page.blocks[i])}

Extractable(page) == {i \in DOMAIN page.tables : page.tables[i].content}

LineSpots(page) ==
    {e \in Nat \X Nat : e[1] \in Bare(page) /\ e[2] \in Shown(page.blocks[e[1]])}

TableSpots(page) == {e \in {0} \X Nat : e[2] \in Extractable(page)}

\* What stands there.
LineItems(page, median) ==
    [e \in LineSpots(page) |-> TextItem(page.blocks[e[1]].lines[e[2]], median)]

TableItems(page) == [e \in TableSpots(page) |-> TableItem(page.tables[e[2]])]

BlockItems(b, median) == [j \in DOMAIN b.lines |-> TextItem(b.lines[j], median)]

\* The items of a block are its lines that are not blank, in their order.
LEMMA TextItemsFacts ==
    ASSUME NEW b, IsBlock(b), NEW median
    PROVE  /\ IsSequence(TextItems(b, median))
           /\ \E r : Picks(TextItems(b, median), BlockItems(b, median), Shown(b), r)
<1>1. PICK n \in Nat : DOMAIN b.lines = 1 .. n
    BY SequenceDomain DEF IsBlock, IsSequence
<1> DEFINE x == BlockItems(b, median)
           I == Shown(b)
           A == {TextItem(b.lines[j], median) : j \in DOMAIN b.lines}
           s(j) == Unless(b.lines[j].text = Blank, <<TextItem(b.lines[j], median)>>)
           ss == [j \in DOMAIN b.lines |-> s(j)]
<1>2. I \in SUBSET (1 .. n) /\ \A j \in I : x[j] \in A
    BY <1>1 DEF Shown, BlockItems
<1>3. \A j \in 1 .. n : s(j) = IF j \in I THEN <<x[j]>> ELSE <<>>
    BY <1>1 DEF Shown, BlockItems, Unless
<1>4. ss = [j \in 1 .. n |-> s(j)]
    BY <1>1
<1>5. TextItems(b, median) = FlattenSeq(ss)
    BY DEF TextItems
<1> HIDE DEF ss, I, x, A, s
<1>6. OneOrNone(ss, n, x, I)
    BY <1>3, <1>4 DEF OneOrNone
<1>7. FlattenSeq(ss) \in Seq(A) /\ \E r : Picks(FlattenSeq(ss), x, I, r)
    BY <1>2, <1>6, FlattenSeqPicks
<1> QED BY <1>5, <1>7, OwnElements DEF x, I

\* The page's tables are there, each once.
LEMMA PageTablesArrange ==
    ASSUME NEW page, IsPage(page)
    PROVE  \E q : Arranges(PageTables(page), TableItems(page), q)
<1>1. PICK n \in Nat : DOMAIN page.tables = 1 .. n
    BY SequenceDomain DEF IsPage, IsSequence
<1> DEFINE x == [i \in DOMAIN page.tables |-> TableItem(page.tables[i])]
           I == Extractable(page)
           A == {TableItem(page.tables[i]) : i \in DOMAIN page.tables}
           s(i) == Unless(~ page.tables[i].content, <<TableItem(page.tables[i])>>)
           ss == [i \in DOMAIN page.tables |-> s(i)]
<1>2. I \in SUBSET (1 .. n) /\ \A i \in I : x[i] \in A
    BY <1>1 DEF Extractable
<1>3. \A i \in 1 .. n : s(i) = IF i \in I THEN <<x[i]>> ELSE <<>>
    BY <1>1 DEF Extractable, Unless
<1>4. ss = [i \in 1 .. n |-> s(i)]
    BY <1>1
<1>5. PageTables(page) = FlattenSeq(ss)
    BY DEF PageTables
<1>6. \A i \in I : x[i] = TableItem(page.tables[i])
    BY DEF Extractable
<1> HIDE DEF ss, x, A, s
<1>7. OneOrNone(ss, n, x, I)
    BY <1>3, <1>4 DEF OneOrNone
<1>8. FlattenSeq(ss) \in Seq(A) /\ \E r : Picks(FlattenSeq(ss), x, I, r)
  <2> HIDE DEF I
  <2> QED BY <1>2, <1>7, FlattenSeqPicks
<1>9. PICK r : Arranges(PageTables(page), [i \in I |-> x[i]], r)
  <2> HIDE DEF I
  <2>1. I \in SUBSET Nat /\ IsSequence(FlattenSeq(ss))
      BY <1>2, <1>8, OwnElements
  <2> QED BY <1>5, <1>8, <2>1, PicksArrange
<1> DEFINE g == [i \in I |-> x[i]]
           h == TableItems(page)
           y == [i \in I |-> <<0, i>>]
<1>10. DOMAIN g = I /\ DOMAIN h = TableSpots(page)
    BY DEF TableItems
<1>11. ASSUME NEW i \in DOMAIN g
       PROVE  y[i] \in DOMAIN h /\ h[y[i]] = g[i]
  <2>1. i \in I /\ i \in Nat /\ y[i] = <<0, i>>
      BY <1>2, <1>10
  <2>2. <<0, i>> \in TableSpots(page)
      BY <2>1 DEF TableSpots
  <2> QED BY <1>6, <1>10, <2>1, <2>2 DEF TableItems
<1>12. ASSUME NEW e \in DOMAIN h
       PROVE  \E i \in DOMAIN g : y[i] = e
  <2>1. e[2] \in I /\ e = <<0, e[2]>>
      BY <1>10 DEF TableSpots
  <2> QED BY <1>10, <2>1
<1>13. \A i, j \in DOMAIN g : y[i] = y[j] => i = j
    OBVIOUS
<1> HIDE DEF g, h, y
<1>14. Arranges(PageTables(page), g, r)
    BY <1>9 DEF g
<1>15. \E q : Arranges(PageTables(page), h, q)
    BY <1>11, <1>12, <1>13, <1>14, RenamedArranges
<1> QED BY <1>15 DEF h

\* So are the lines of the blocks that no table covers.
LEMMA PageTextArranges ==
    ASSUME NEW page, IsPage(page), NEW median
    PROVE  \E q : Arranges(PageText(page, median), LineItems(page, median), q)
<1>1. PICK n \in Nat : DOMAIN page.blocks = 1 .. n
    BY SequenceDomain DEF IsPage, IsSequence
<1> DEFINE items(i) == TextItems(page.blocks[i], median)
           v(i) == CHOOSE w : Picks(items(i), BlockItems(page.blocks[i], median),
                                    Shown(page.blocks[i]), w)
           A == UNION {ToSet(items(i)) : i \in 1 .. n}
           s(i) == Unless(OverlapsTable(page, page.blocks[i]), items(i))
           ss == [i \in DOMAIN page.blocks |-> s(i)]
           F == PageText(page, median)
           g == LineItems(page, median)
<1>2. ASSUME NEW i \in 1 .. n
      PROVE  /\ IsSequence(items(i)) /\ items(i) \in Seq(A)
             /\ Picks(items(i), BlockItems(page.blocks[i], median), Shown(page.blocks[i]), v(i))
  <2>1. IsBlock(page.blocks[i])
      BY <1>1 DEF IsPage, IsSequence
  <2>2. IsSequence(items(i))
      BY <2>1, TextItemsFacts
  <2>3. \E r : Picks(items(i), BlockItems(page.blocks[i], median), Shown(page.blocks[i]), r)
      BY <2>1, TextItemsFacts
  <2>4. ToSet(items(i)) \in SUBSET A
      OBVIOUS
  <2>5. items(i) \in Seq(A)
    <3> HIDE DEF A, items
    <3> QED BY <2>2, <2>4, SeqMonotonic DEF IsSequence
  <2> QED BY <2>2, <2>3, <2>5
<1>3. \A i \in 1 .. n : s(i) = IF i \in Bare(page) THEN items(i) ELSE <<>>
    BY <1>1 DEF Bare, Unless
<1>4. ss = [i \in 1 .. n |-> s(i)]
    BY <1>1
<1>5. F = FlattenSeq(ss)
    BY DEF PageText
<1> HIDE DEF A, ss, F
<1>6. ss \in Seq(Seq(A)) /\ Len(ss) = n
  <2> HIDE DEF s, items
  <2>1. \A i \in 1 .. n : s(i) \in Seq(A)
      BY <1>2, <1>3, EmptySeq
  <2> QED BY <1>4, <2>1, IsASeq
<1>7. F \in Seq(A) /\ \E r, c : Flattens(F, ss, n, r, c)
    BY <1>5, <1>6, FlattenSeqFacts
<1>8. PICK r, c : Flattens(F, ss, n, r, c)
    BY <1>7
<1>9. PICK L \in Nat : L = Len(F)
    BY <1>7, LenProperties
<1>10. /\ F = [k \in 1 .. L |-> ss[r[k]][c[k]]]
       /\ r \in [1 .. L -> 1 .. n] /\ c \in [1 .. L -> Nat]
       /\ \A k \in 1 .. L : c[k] \in DOMAIN ss[r[k]]
       /\ \A i \in 1 .. n : \A j \in DOMAIN ss[i] : \E k \in 1 .. L : r[k] = i /\ c[k] = j
       /\ \A k, l \in 1 .. L : k < l => r[k] < r[l] \/ (r[k] = r[l] /\ c[k] < c[l])
    BY <1>8, <1>9 DEF Flattens
<1>11. Bare(page) \in SUBSET (1 .. n)
    BY <1>1 DEF Bare
<1>12. \A i \in 1 .. n : ss[i] = IF i \in Bare(page) THEN items(i) ELSE <<>>
  <2> HIDE DEF s, items
  <2> QED BY <1>3, <1>4
\* What a position of a block's text stands for.
<1>13. ASSUME NEW i \in Bare(page)
       PROVE  /\ DOMAIN ss[i] \in SUBSET Nat
              /\ \A m \in DOMAIN ss[i] : /\ v(i)[m] \in Shown(page.blocks[i])
                                         /\ ss[i][m] = TextItem(page.blocks[i].lines[v(i)[m]], median)
              /\ \A j \in Shown(page.blocks[i]) : \E m \in DOMAIN ss[i] : v(i)[m] = j
              /\ \A m, l \in DOMAIN ss[i] : v(i)[m] = v(i)[l] => m = l
  <2>1. i \in 1 .. n /\ ss[i] = items(i)
      BY <1>11, <1>12
  <2>2. PICK w : w = v(i)
      OBVIOUS
  <2>3. /\ IsSequence(ss[i])
        /\ Picks(ss[i], BlockItems(page.blocks[i], median), Shown(page.blocks[i]), w)
      BY <1>2, <2>1, <2>2
  <2> HIDE DEF v, items
  <2>4. Shown(page.blocks[i]) \in SUBSET Nat
    <3>1. IsSequence(page.blocks[i].lines)
        BY <1>1, <2>1 DEF IsPage, IsBlock, IsSequence
    <3> QED BY <3>1, SequenceDomain DEF Shown
  <2>5. \A j \in Shown(page.blocks[i]) :
          BlockItems(page.blocks[i], median)[j] = TextItem(page.blocks[i].lines[j], median)
      BY DEF BlockItems, Shown
  <2>6. DOMAIN ss[i] \in SUBSET Nat
      BY <2>3, SequenceDomain
  <2>a. Picked(ss[i], BlockItems(page.blocks[i], median), Shown(page.blocks[i]), w)
      BY <2>3, <2>4, PicksFacts
  <2>7. /\ \A m \in DOMAIN ss[i] : /\ w[m] \in Shown(page.blocks[i])
                                   /\ ss[i][m] = BlockItems(page.blocks[i], median)[w[m]]
        /\ \A j \in Shown(page.blocks[i]) : \E m \in DOMAIN ss[i] : w[m] = j
        /\ \A m, l \in DOMAIN ss[i] : w[m] = w[l] => m = l
      BY <2>a DEF Picked
  <2> QED BY <2>2, <2>5, <2>6, <2>7
<1> HIDE DEF v, items, s
<1> DEFINE q == [k \in 1 .. L |-> <<r[k], v(r[k])[c[k]]>>]
<1>14. DOMAIN g = LineSpots(page)
    BY DEF LineItems
<1>15. ASSUME NEW k \in 1 .. L
       PROVE  /\ r[k] \in Bare(page) /\ c[k] \in DOMAIN ss[r[k]]
              /\ q[k] \in LineSpots(page) /\ F[k] = g[q[k]]
  <2>1. r[k] \in 1 .. n /\ c[k] \in DOMAIN ss[r[k]] /\ F[k] = ss[r[k]][c[k]]
      BY <1>10
  <2>2. r[k] \in Bare(page)
      BY <1>12, <2>1
  <2>3. PICK i \in Bare(page), m \in Nat : i = r[k] /\ m = c[k] /\ m \in DOMAIN ss[i]
      BY <1>10, <2>1, <2>2
  <2>4. PICK j \in Shown(page.blocks[i]) :
          j = v(i)[m] /\ ss[i][m] = TextItem(page.blocks[i].lines[j], median)
      BY <1>13, <2>3
  <2>5. i \in Nat /\ j \in Nat
    <3>1. IsSequence(page.blocks[i].lines)
        BY <1>1, <1>11 DEF IsPage, IsBlock, IsSequence
    <3> QED BY <1>11, <3>1, SequenceDomain DEF Shown
  <2>6. q[k] = <<i, j>> /\ F[k] = TextItem(page.blocks[i].lines[j], median)
      BY <2>1, <2>3, <2>4
  <2>7. <<i, j>> \in LineSpots(page)
      BY <2>5 DEF LineSpots
  <2> QED BY <2>1, <2>2, <2>6, <2>7 DEF LineItems
<1>16. ASSUME NEW e \in LineSpots(page)
       PROVE  \E k \in 1 .. L : q[k] = e
  <2>1. e[1] \in Bare(page) /\ e[2] \in Shown(page.blocks[e[1]]) /\ e = <<e[1], e[2]>>
      BY DEF LineSpots
  <2>2. PICK m \in DOMAIN ss[e[1]] : v(e[1])[m] = e[2]
      BY <1>13, <2>1
  <2>3. PICK k \in 1 .. L : r[k] = e[1] /\ c[k] = m
      BY <1>10, <1>11, <2>1, <2>2
  <2> QED BY <2>1, <2>2, <2>3
<1>17. ASSUME NEW k \in 1 .. L, NEW l \in 1 .. L, q[k] = q[l]
       PROVE  k = l
  <2>1. r[k] = r[l] /\ v(r[k])[c[k]] = v(r[k])[c[l]]
      BY <1>17
  <2>2. PICK i \in Bare(page) : i = r[k] /\ i = r[l]
      BY <1>15, <2>1
  <2>3. c[k] \in DOMAIN ss[i] /\ c[l] \in DOMAIN ss[i]
      BY <1>15, <2>2
  <2>4. c[k] = c[l]
      BY <1>13, <2>1, <2>2, <2>3
  <2>5. i \in Nat /\ c[k] \in Nat /\ k \in Nat /\ l \in Nat
      BY <1>10, <1>11
  <2>6. ~ (r[k] < r[l]) /\ ~ (c[k] < c[l]) /\ ~ (r[l] < r[k]) /\ ~ (c[l] < c[k])
      BY <2>2, <2>4, <2>5
  <2>7. ~ (k < l) /\ ~ (l < k)
      BY <1>10, <2>6
  <2> QED BY <2>5, <2>7
<1>18. q = [k \in 1 .. L |-> q[k]]
    OBVIOUS
<1> HIDE DEF q, g
<1>19. q \in [1 .. L -> DOMAIN g]
    BY <1>14, <1>15, <1>18
<1>20. IsSequence(F)
    BY <1>7, OwnElements
<1>21. Arranges(F, g, q)
    BY <1>9, <1>14, <1>15, <1>16, <1>17, <1>19, <1>20 DEF Arranges
<1> QED BY <1>21 DEF F, g

--------------------------------------------------------------------------------
(* The blocks of a page *)

\* All items of a page, and what they are.
PageItems(page, median) == Joined(LineItems(page, median), TableItems(page))

LEMMA PageItemsFacts ==
    ASSUME NEW page, IsPage(page), NEW median
    PROVE  /\ DOMAIN LineItems(page, median) \cap DOMAIN TableItems(page) = {}
           /\ \A d \in DOMAIN PageItems(page, median) : IsItem(PageItems(page, median)[d])
<1>1. /\ DOMAIN LineItems(page, median) = LineSpots(page)
      /\ DOMAIN TableItems(page) = TableSpots(page)
    BY DEF LineItems, TableItems
<1>2. LineSpots(page) \cap TableSpots(page) = {}
  <2>1. 0 \notin Bare(page)
    <3>1. Len(page.blocks) \in Nat /\ DOMAIN page.blocks = 1 .. Len(page.blocks)
        BY SequenceDomain DEF IsPage, IsSequence
    <3> QED BY <3>1 DEF Bare
  <2> QED BY <2>1 DEF LineSpots, TableSpots
<1>3. ASSUME NEW d \in LineSpots(page)
      PROVE  IsItem(LineItems(page, median)[d])
  <2>1. d[1] \in DOMAIN page.blocks /\ d[2] \in DOMAIN page.blocks[d[1]].lines
      BY DEF LineSpots, Bare, Shown
  <2>2. PICK l : l = page.blocks[d[1]].lines[d[2]]
      OBVIOUS
  <2>3. IsLine(l)
      BY <2>1, <2>2 DEF IsPage, IsBlock, IsSequence
  <2>4. LineItems(page, median)[d] = TextItem(l, median)
      BY <2>2 DEF LineItems
  <2>5. Classify(l, median)[1] \in Kinds
      BY DEF Classify, Kinds
  <2>6. IsItem(TextItem(l, median))
      BY <2>3, <2>5 DEF TextItem, Item, IsItem, IsLine
  <2> QED BY <2>4, <2>6
<1>4. ASSUME NEW d \in TableSpots(page)
      PROVE  IsItem(TableItems(page)[d])
  <2>1. PICK t : t = page.tables[d[2]]
      OBVIOUS
  <2>2. IsTable(t)
      BY <2>1 DEF TableSpots, Extractable, IsPage, IsSequence
  <2>3. TableItems(page)[d] = TableItem(t)
      BY <2>1 DEF TableItems
  <2>4. IsItem(TableItem(t))
      BY <2>2 DEF TableItem, Item, IsItem, IsTable, Kinds
  <2> QED BY <2>3, <2>4
<1>5. ASSUME NEW d \in DOMAIN PageItems(page, median)
      PROVE  IsItem(PageItems(page, median)[d])
  <2>1. CASE d \in LineSpots(page)
    <3>1. PageItems(page, median)[d] = LineItems(page, median)[d]
        BY <1>1, <2>1 DEF PageItems, Joined
    <3> QED BY <1>3, <2>1, <3>1
  <2>2. CASE d \in TableSpots(page)
    <3>1. d \notin LineSpots(page)
        BY <1>2, <2>2
    <3>2. PageItems(page, median)[d] = TableItems(page)[d]
        BY <1>1, <2>2, <3>1 DEF PageItems, Joined
    <3> QED BY <1>4, <2>2, <3>2
  <2>3. d \in LineSpots(page) \cup TableSpots(page)
      BY <1>1 DEF PageItems, Joined
  <2> QED BY <2>1, <2>2, <2>3
<1> QED BY <1>1, <1>2, <1>5

\* An earlier block has no later key.
InKeyOrder(page, s) ==
    \A i, j \in 1 .. Len(s) : i < j =>
      \/ Precedes(SortKey(page, s[i]), SortKey(page, s[j]))
      \/ SortKey(page, s[i]) = SortKey(page, s[j])

\* The blocks of a page are its items, each once, in the order of their keys.
LEMMA PageBlocksFacts ==
    ASSUME NEW page, IsPage(page), NEW median
    PROVE  /\ InKeyOrder(page, PageBlocks(page, median))
           /\ \E q : Arranges(PageBlocks(page, median), PageItems(page, median), q)
<1> DEFINE items == PageText(page, median) \o PageTables(page)
           g == PageItems(page, median)
<1>1. PICK q : Arranges(items, g, q)
  <2>1. PICK q : Arranges(PageText(page, median), LineItems(page, median), q)
      BY PageTextArranges
  <2>2. PICK r : Arranges(PageTables(page), TableItems(page), r)
      BY PageTablesArrange
  <2>3. DOMAIN LineItems(page, median) \cap DOMAIN TableItems(page) = {}
      BY PageItemsFacts
  <2>4. \E u : Arranges(items, Joined(LineItems(page, median), TableItems(page)), u)
      BY <2>1, <2>2, <2>3, ConcatArranges
  <2> QED BY <2>4 DEF PageItems
<1>2. PageBlocks(page, median) = Sorted(page, items)
    BY DEF PageBlocks
<1> HIDE DEF items
<1>3. PICK L \in Nat : L = Len(items) /\ DOMAIN items = 1 .. L
    BY <1>1, SequenceDomain DEF Arranges
<1>4. \A i \in 1 .. L : IsItem(items[i])
  <2>1. \A d \in DOMAIN g : IsItem(g[d])
      BY PageItemsFacts
  <2>2. \A i \in 1 .. L : q[i] \in DOMAIN g /\ items[i] = g[q[i]]
      BY <1>1, <1>3 DEF Arranges
  <2> QED BY <2>1, <2>2
<1> DEFINE key == [i \in DOMAIN items |-> SortKey(page, items[i])]
           o == StableOrder(key)
           t == [i \in DOMAIN items |-> items[o[i]]]
<1>5. DOMAIN key = 1 .. L /\ \A i \in 1 .. L : key[i] = SortKey(page, items[i]) /\ IsKey(key[i])
  <2>1. \A i \in 1 .. L : IsKey(SortKey(page, items[i]))
      BY <1>4, SortKeyType
  <2> QED BY <1>3, <2>1
<1>6. Sorted(page, items) = t
    BY DEF Sorted
<1> HIDE DEF key, g
<1>7. /\ o \in [1 .. L -> 1 .. L]
      /\ \A i \in 1 .. L : \E k \in 1 .. L : o[k] = i
      /\ \A k, l \in 1 .. L : k < l => Earlier(key, o[k], o[l])
    BY <1>5, StableOrderFacts
<1>8. t = [k \in 1 .. L |-> items[o[k]]]
    BY <1>3
<1> HIDE DEF o, t
<1>9. ASSUME NEW k \in 1 .. L, NEW l \in 1 .. L, o[k] = o[l]
      PROVE  k = l
  <2>1. o[k] \in 1 .. L
      BY <1>7
  <2>2. ~ Earlier(key, o[k], o[k])
    <3>1. \A i \in 1 .. L : ~ Earlier(key, i, i)
      <4> SUFFICES ASSUME NEW i \in 1 .. L PROVE ~ Earlier(key, i, i)
          OBVIOUS
      <4>1. key[i][1] \in Nat /\ key[i][2] \in Nat /\ key[i][3] \in Nat
          BY <1>5 DEF IsKey
      <4> QED BY <4>1 DEF Earlier, Precedes
    <3> QED BY <2>1, <3>1
  <2>3. ~ (k < l) /\ ~ (l < k)
      BY <1>7, <1>9, <2>2
  <2> QED BY <2>3
<1>10. \E u : Arranges(t, g, u)
  <2>1. \A k, l \in 1 .. L : o[k] = o[l] => k = l
      BY <1>9
  <2>2. Reorders(t, items, Len(items), o)
      BY <1>3, <1>7, <1>8, <2>1 DEF Reorders
  <2> QED BY <1>1, <2>2, ReorderedArranges
<1>11. InKeyOrder(page, t)
  <2>1. Len(t) = L /\ \A k \in 1 .. L : t[k] = items[o[k]] /\ o[k] \in 1 .. L
    <3>1. DOMAIN t = 1 .. L /\ IsSequence(t)
        BY <1>8, <1>10 DEF Arranges
    <3>2. Len(t) \in Nat /\ DOMAIN t = 1 .. Len(t)
        BY <3>1, SequenceDomain
    <3>3. Len(t) = L
      <4>1. 1 .. Len(t) = 1 .. L
          BY <3>1, <3>2
      <4> QED BY <3>2, <4>1, IntervalEnd
    <3> QED BY <1>7, <1>8, <3>3
  <2>2. ASSUME NEW i \in 1 .. L, NEW j \in 1 .. L, i < j
        PROVE  \/ Precedes(SortKey(page, t[i]), SortKey(page, t[j]))
               \/ SortKey(page, t[i]) = SortKey(page, t[j])
    <3>1. Precedes(key[o[i]], key[o[j]]) \/ key[o[i]] = key[o[j]]
        BY <1>7, <2>2 DEF Earlier
    <3>2. key[o[i]] = SortKey(page, t[i]) /\ key[o[j]] = SortKey(page, t[j])
        BY <1>5, <2>1
    <3> QED BY <3>1, <3>2
  <2> QED BY <2>1, <2>2 DEF InKeyOrder
<1> QED BY <1>2, <1>6, <1>10, <1>11 DEF g

--------------------------------------------------------------------------------
(* Without the texts of the margins *)

\* What is left of a page without some texts.
Lacking(texts, s) == {i \in DOMAIN s : s[i].text \notin texts}

Left(texts, g) == [d \in {e \in DOMAIN g : g[e].text \notin texts} |-> g[d]]

\* Without keeps just those, in their order.
LEMMA WithoutFacts ==
    ASSUME NEW texts, NEW s, NEW g, NEW q, Arranges(s, g, q)
    PROVE  /\ \E r : Picks(Without(texts, s), s, Lacking(texts, s), r)
           /\ \E u : Arranges(Without(texts, s), Left(texts, g), u)
<1>1. PICK L \in Nat : L = Len(s) /\ DOMAIN s = 1 .. L
    BY SequenceDomain DEF Arranges
<1> DEFINE I == Lacking(texts, s)
           x(i) == IF s[i].text \in texts THEN <<>> ELSE <<s[i]>>
           ss == [i \in DOMAIN s |-> x(i)]
           A == ToSet(s)
           W == Without(texts, s)
<1>2. I \in SUBSET (1 .. L) /\ \A i \in I : s[i] \in A
    BY <1>1 DEF Lacking, ToSet
<1>3. \A i \in 1 .. L : x(i) = IF i \in I THEN <<s[i]>> ELSE <<>>
    BY <1>1 DEF Lacking
<1>4. ss = [i \in 1 .. L |-> x(i)]
    BY <1>1
<1>5. W = FlattenSeq(ss)
    BY DEF Without
<1>6. \A i \in 1 .. L : i \in I <=> s[i].text \notin texts
    BY <1>1 DEF Lacking
<1> HIDE DEF ss, x, I, A
<1>7. OneOrNone(ss, L, s, I)
    BY <1>3, <1>4 DEF OneOrNone
<1>8. W \in Seq(A) /\ \E r : Picks(W, s, I, r)
    BY <1>2, <1>5, <1>7, FlattenSeqPicks
<1> HIDE DEF W
<1>9. PICK r : Picks(W, s, I, r)
    BY <1>8
<1> DEFINE gi == [i \in I |-> s[i]]
           h == Left(texts, g)
<1>10. Arranges(W, gi, r)
  <2>1. I \in SUBSET Nat /\ IsSequence(W)
      BY <1>2, <1>8, OwnElements
  <2> QED BY <1>9, <2>1, PicksArrange
<1>11. /\ q \in [1 .. L -> DOMAIN g] /\ \A d \in DOMAIN g : \E k \in 1 .. L : q[k] = d
       /\ \A k, l \in 1 .. L : q[k] = q[l] => k = l
       /\ \A k \in 1 .. L : s[k] = g[q[k]]
    BY <1>1 DEF Arranges
<1>12. DOMAIN gi = I /\ DOMAIN h = {e \in DOMAIN g : g[e].text \notin texts}
       /\ \A e \in DOMAIN h : h[e] = g[e]
    BY DEF Left
<1>13. ASSUME NEW i \in DOMAIN gi
       PROVE  q[i] \in DOMAIN h /\ h[q[i]] = gi[i]
  <2>1. i \in I /\ i \in 1 .. L /\ gi[i] = s[i] /\ s[i].text \notin texts
      BY <1>2, <1>6, <1>12
  <2>2. q[i] \in DOMAIN g /\ s[i] = g[q[i]]
      BY <1>11, <2>1
  <2> QED BY <1>12, <2>1, <2>2
<1>14. ASSUME NEW e \in DOMAIN h
       PROVE  \E i \in DOMAIN gi : q[i] = e
  <2>1. e \in DOMAIN g /\ g[e].text \notin texts
      BY <1>12
  <2>2. PICK k \in 1 .. L : q[k] = e
      BY <1>11, <2>1
  <2>3. k \in I
      BY <1>6, <1>11, <2>1, <2>2
  <2> QED BY <1>12, <2>2, <2>3
<1>15. \A i, j \in DOMAIN gi : q[i] = q[j] => i = j
    BY <1>2, <1>11, <1>12
<1> HIDE DEF gi, h
<1>16. \E u : Arranges(W, h, u)
    BY <1>10, <1>13, <1>14, <1>15, RenamedArranges
<1> QED BY <1>9, <1>16 DEF W, I, h

\* A sequence has a mark as often as the places have it.
ShownBy(g) == {[at |-> d, mark |-> Mark(g[d])] : d \in DOMAIN g}

LEMMA MarksCounted ==
    ASSUME NEW s, NEW g, NEW q, Arranges(s, g, q), NEW m
    PROVE  Cardinality({i \in DOMAIN s : Mark(s[i]) = m})
             = Cardinality({e \in ShownBy(g) : e.mark = m})
<1>1. PICK L \in Nat : L = Len(s) /\ DOMAIN s = 1 .. L
    BY SequenceDomain DEF Arranges
<1> DEFINE I == {i \in DOMAIN s : Mark(s[i]) = m}
           S == ShownBy(g)
           E == {e \in S : e.mark = m}
           spot(d) == [at |-> d, mark |-> Mark(g[d])]
           f == [i \in I |-> spot(q[i])]
<1>2. /\ q \in [1 .. L -> DOMAIN g] /\ \A d \in DOMAIN g : \E k \in 1 .. L : q[k] = d
      /\ \A k, l \in 1 .. L : q[k] = q[l] => k = l
      /\ \A k \in 1 .. L : s[k] = g[q[k]]
    BY <1>1 DEF Arranges
<1>3. /\ \A d \in DOMAIN g : spot(d) \in S /\ spot(d).mark = Mark(g[d])
      /\ \A e \in S : \E d \in DOMAIN g : e = spot(d)
      /\ \A c, d \in DOMAIN g : spot(c) = spot(d) => c = d
    BY DEF ShownBy
<1>4. \A i : i \in I <=> i \in 1 .. L /\ Mark(s[i]) = m
    BY <1>1
<1> HIDE DEF spot, S
<1>5. \A e : e \in E <=> e \in S /\ e.mark = m
    OBVIOUS
<1>6. f = [i \in I |-> f[i]] /\ \A i \in I : f[i] = spot(q[i])
    OBVIOUS
<1>7. I \in SUBSET (1 .. L)
    BY <1>4
<1> HIDE DEF I, E, f
<1>8. \A i \in I : f[i] \in E
    BY <1>2, <1>3, <1>4, <1>5, <1>6
<1>9. f \in [I -> E]
    BY <1>6, <1>8
<1>10. ASSUME NEW e \in E
       PROVE  \E i \in I : f[i] = e
  <2>1. PICK d \in DOMAIN g : e = spot(d) /\ Mark(g[d]) = m
      BY <1>3, <1>5
  <2>2. PICK k \in 1 .. L : q[k] = d
      BY <1>2
  <2>3. k \in I
      BY <1>2, <1>4, <2>1, <2>2
  <2> QED BY <1>6, <2>1, <2>2, <2>3
<1>11. ASSUME NEW i \in I, NEW j \in I, f[i] = f[j]
       PROVE  i = j
  <2>1. i \in 1 .. L /\ j \in 1 .. L /\ spot(q[i]) = spot(q[j])
      BY <1>4, <1>6, <1>11
  <2> QED BY <1>2, <1>3, <2>1
<1>12. f \in Bijection(I, E)
    BY <1>9, <1>10, <1>11, Fun_IsBij
<1>13. IsFiniteSet(I)
  <2>1. 1 \in Int /\ L \in Int
      OBVIOUS
  <2>2. IsFiniteSet(1 .. L)
      BY <2>1, FS_Interval
  <2> QED BY <1>7, <2>2, FS_Subset
<1>14. Cardinality(E) = Cardinality(I)
    BY <1>12, <1>13, FS_Bijection DEF ExistsBijection
<1> QED BY <1>14 DEF I, E, S

--------------------------------------------------------------------------------
(* What the pages are made of *)

\* The places of a page are those of the lines and tables in Source, and show the
\* same there.
LEMMA SourceFacts ==
    ASSUME NEW page, IsPage(page), NEW median
    PROVE  Source(page) = ShownBy(PageItems(page, median))
<1> DEFINE g == PageItems(page, median)
           spot(d) == [at |-> d, mark |-> Mark(g[d])]
           line(i, j) == [at |-> <<i, j>>, mark |-> LineMark(page.blocks[i].lines[j])]
           table(i) == [at |-> <<0, i>>, mark |-> TableMark(page.tables[i])]
<1>1. DOMAIN g = LineSpots(page) \cup TableSpots(page)
    BY DEF PageItems, Joined, LineItems, TableItems
<1>2. ASSUME NEW i \in Bare(page), NEW j \in Shown(page.blocks[i])
      PROVE  <<i, j>> \in LineSpots(page) /\ spot(<<i, j>>) = line(i, j)
  <2>1. i \in Nat /\ j \in Nat
    <3>1. IsSequence(page.blocks) /\ IsSequence(page.blocks[i].lines)
        BY DEF Bare, IsPage, IsBlock, IsSequence
    <3> QED BY <3>1, SequenceDomain DEF Bare, Shown
  <2>2. <<i, j>> \in LineSpots(page)
      BY <2>1 DEF LineSpots
  <2>3. g[<<i, j>>] = TextItem(page.blocks[i].lines[j], median)
      BY <2>2 DEF PageItems, Joined, LineItems
  <2>4. Mark(g[<<i, j>>]) = LineMark(page.blocks[i].lines[j])
      BY <2>3 DEF Mark, LineMark, TextItem, Item
  <2> QED BY <2>2, <2>4
<1>3. ASSUME NEW i \in Extractable(page)
      PROVE  <<0, i>> \in TableSpots(page) /\ spot(<<0, i>>) = table(i)
  <2>1. i \in Nat
      BY SequenceDomain DEF Extractable, IsPage, IsSequence
  <2>2. <<0, i>> \in TableSpots(page)
      BY <2>1 DEF TableSpots
  <2>3. <<0, i>> \notin LineSpots(page)
      BY <2>2, PageItemsFacts DEF LineItems, TableItems
  <2>4. g[<<0, i>>] = TableItem(page.tables[i])
      BY <2>2, <2>3 DEF PageItems, Joined, LineItems, TableItems
  <2>5. Mark(g[<<0, i>>]) = TableMark(page.tables[i])
      BY <2>4 DEF Mark, TableMark, TableItem, Item
  <2> QED BY <2>2, <2>5
<1>4. \A e : e \in Source(page) <=>
               \/ \E i \in Extractable(page) : e = table(i)
               \/ \E i \in Bare(page) : \E j \in Shown(page.blocks[i]) : e = line(i, j)
    BY DEF Source, Extractable, Bare, Shown, OverlapsTable
<1>5. /\ \A d \in LineSpots(page) : /\ d[1] \in Bare(page) /\ d[2] \in Shown(page.blocks[d[1]])
                                    /\ d = <<d[1], d[2]>>
      /\ \A d \in TableSpots(page) : d[2] \in Extractable(page) /\ d = <<0, d[2]>>
    BY DEF LineSpots, TableSpots
<1> HIDE DEF g, spot, line, table
<1>6. \A d \in LineSpots(page) : spot(d) = line(d[1], d[2])
    BY <1>2, <1>5
<1>7. \A d \in TableSpots(page) : spot(d) = table(d[2])
    BY <1>3, <1>5
<1>8. \A e : e \in Source(page) <=> \E d \in DOMAIN g : e = spot(d)
  <2> SUFFICES ASSUME NEW e
               PROVE  e \in Source(page) <=> \E d \in DOMAIN g : e = spot(d)
      OBVIOUS
  <2>1. ASSUME e \in Source(page)
        PROVE  \E d \in DOMAIN g : e = spot(d)
    <3>1. CASE \E i \in Extractable(page) : e = table(i)
        BY <1>1, <1>3, <3>1
    <3>2. CASE \E i \in Bare(page) : \E j \in Shown(page.blocks[i]) : e = line(i, j)
        BY <1>1, <1>2, <3>2
    <3> QED BY <1>4, <2>1, <3>1, <3>2
  <2>2. ASSUME NEW d \in DOMAIN g, e = spot(d)
        PROVE  e \in Source(page)
      BY <1>1, <1>4, <1>5, <1>6, <1>7, <2>2
  <2> QED BY <2>1, <2>2
<1>9. Source(page) = {spot(d) : d \in DOMAIN g}
    BY <1>8
<1> QED BY <1>9 DEF ShownBy, spot, g

\* The texts in a margin are those of the page's sources there.
LEMMA TextsFacts ==
    ASSUME NEW page, IsPage(page), NEW median, NEW zone, NEW height, NEW text
    PROVE  text \in Texts(PageBlocks(page, median), zone, height)
             <=> \E s \in Source(page) :
                   s.mark[1] = text /\ Zone([boxed |-> s.mark[2], y |-> s.mark[4]], height) = zone
<1> DEFINE B == PageBlocks(page, median)
           g == PageItems(page, median)
           z(b) == Zone([boxed |-> Mark(b)[2], y |-> Mark(b)[4]], height)
<1>1. PICK q : Arranges(B, g, q)
    BY PageBlocksFacts
<1>2. PICK L \in Nat : L = Len(B) /\ DOMAIN B = 1 .. L
    BY <1>1, SequenceDomain DEF Arranges
<1>3. Source(page) = {[at |-> d, mark |-> Mark(g[d])] : d \in DOMAIN g}
    BY SourceFacts DEF ShownBy
<1>4. \A b : z(b) = Zone(b, height) /\ Mark(b)[1] = b.text
    BY DEF Mark, Zone
<1> HIDE DEF B, g
<1>5. text \in Texts(B, zone, height) <=> \E i \in 1 .. L : Zone(B[i], height) = zone /\ B[i].text = text
    BY <1>2 DEF Texts
<1>6. (\E i \in 1 .. L : Zone(B[i], height) = zone /\ B[i].text = text)
        <=> \E d \in DOMAIN g : Zone(g[d], height) = zone /\ g[d].text = text
  <2>1. /\ \A d \in DOMAIN g : \E i \in 1 .. L : q[i] = d
        /\ \A i \in 1 .. L : q[i] \in DOMAIN g /\ B[i] = g[q[i]]
      BY <1>1, <1>2 DEF Arranges
  <2> QED BY <2>1
<1>7. (\E s \in Source(page) :
         s.mark[1] = text /\ Zone([boxed |-> s.mark[2], y |-> s.mark[4]], height) = zone)
        <=> \E d \in DOMAIN g : Mark(g[d])[1] = text /\ z(g[d]) = zone
  <2> DEFINE spot(d) == [at |-> d, mark |-> Mark(g[d])]
             shown(m) == m[1] = text /\ Zone([boxed |-> m[2], y |-> m[4]], height) = zone
  <2>1. \A d \in DOMAIN g : spot(d).mark = Mark(g[d]) /\ spot(d) \in Source(page)
      BY <1>3
  <2>2. \A s \in Source(page) : \E d \in DOMAIN g : s = spot(d)
      BY <1>3
  <2> HIDE DEF spot, shown
  <2>3. (\E s \in Source(page) : shown(s.mark)) <=> \E d \in DOMAIN g : shown(Mark(g[d]))
      BY <2>1, <2>2
  <2> QED BY <2>3 DEF shown
<1> QED BY <1>4, <1>5, <1>6, <1>7 DEF B

\* What is found in both margins is what runs there.
LEMMA RepeatedFacts ==
    ASSUME IInv, NEW p \in Parses, Successful(p), NEW text
    PROVE  text \in Repeated(Pages(p), Height(p)) <=> RunningText(p, text)
<1> DEFINE h == Height(p)
           m == MedianSize(p)
           P == Pages(p)
           T(n, zone) == text \in Texts(P[n], zone, h)
<1>1. PICK N \in Nat : N = Len(doc[p].pages) /\ thread[p].read = N /\ DOMAIN doc[p].pages = 1 .. N
    BY SuccessfulFacts, DocumentTypes DEF IInv, RecordsInv
<1>2. P = [n \in 1 .. N |-> PageBlocks(doc[p].pages[n], m)]
    BY <1>1 DEF Pages
<1>3. DOMAIN P = 1 .. N /\ Len(P) = N /\ \A n \in 1 .. N : P[n] = PageBlocks(doc[p].pages[n], m)
    BY <1>2
<1> HIDE DEF h, m, P
<1>4. \A n \in 1 .. N : \A zone :
        T(n, zone) <=> \E s \in Source(doc[p].pages[n]) :
                         s.mark[1] = text /\ Zone([boxed |-> s.mark[2], y |-> s.mark[4]], h) = zone
  <2>1. \A n \in 1 .. N : IsPage(doc[p].pages[n])
      BY <1>1, DocumentTypes DEF IInv, RecordsInv
  <2> SUFFICES ASSUME NEW n \in 1 .. N, NEW zone
               PROVE  T(n, zone) <=> \E s \in Source(doc[p].pages[n]) :
                        s.mark[1] = text /\ Zone([boxed |-> s.mark[2], y |-> s.mark[4]], h) = zone
      OBVIOUS
  <2>2. PICK page : page = doc[p].pages[n]
      OBVIOUS
  <2>3. IsPage(page) /\ P[n] = PageBlocks(page, m)
      BY <1>3, <2>1, <2>2
  <2>4. text \in Texts(PageBlocks(page, m), zone, h)
          <=> \E s \in Source(page) :
                s.mark[1] = text /\ Zone([boxed |-> s.mark[2], y |-> s.mark[4]], h) = zone
      BY <2>3, TextsFacts
  <2> QED BY <2>2, <2>3, <2>4
<1>5. \A zone : text \in FindConsecutiveRepeats(P, zone, h)
                  <=> \E k \in 1 .. (N - 1) : T(k, zone) /\ T(k + 1, zone)
  <2> SUFFICES ASSUME NEW zone
               PROVE  text \in FindConsecutiveRepeats(P, zone, h)
                        <=> \E k \in 1 .. (N - 1) : T(k, zone) /\ T(k + 1, zone)
      OBVIOUS
  <2>1. LongestRun(P, zone, h, text) >= 2
          <=> \E k \in 1 .. (N - 1) : T(k, zone) /\ T(k + 1, zone)
      BY <1>3, LongestRunFacts
  <2>2. \A k \in 1 .. (N - 1) : T(k, zone) =>
          text \in UNION {Texts(P[n], zone, h) : n \in DOMAIN P}
      BY <1>3
  <2>3. text \in FindConsecutiveRepeats(P, zone, h)
          <=> /\ text \in UNION {Texts(P[n], zone, h) : n \in DOMAIN P}
              /\ LongestRun(P, zone, h, text) >= 2
      BY DEF FindConsecutiveRepeats
  <2> QED BY <2>1, <2>2, <2>3
<1>6. text \in Repeated(P, h)
        <=> \E k \in 1 .. (N - 1) : \E zone \in {"top", "bottom"} : T(k, zone) /\ T(k + 1, zone)
  <2>1. CASE N < 2
    <3>1. 1 .. (N - 1) = {}
        BY <2>1
    <3>2. Repeated(P, h) = {}
        BY <1>3, <2>1 DEF Repeated
    <3> QED BY <3>1, <3>2
  <2>2. CASE ~ (N < 2)
    <3>1. Repeated(P, h) = FindConsecutiveRepeats(P, "top", h)
                             \cup FindConsecutiveRepeats(P, "bottom", h)
        BY <1>3, <2>2 DEF Repeated
    <3> HIDE DEF T
    <3> QED BY <1>5, <3>1
  <2> QED BY <2>1, <2>2
<1>7. RunningText(p, text)
        <=> \E k \in 1 .. (N - 1) : \E zone \in {"top", "bottom"} : T(k, zone) /\ T(k + 1, zone)
  <2>1. \A k \in 1 .. (N - 1) : k \in 1 .. N /\ k + 1 \in 1 .. N
      OBVIOUS
  <2>2. RunningText(p, text)
          <=> \E n \in 1 .. (N - 1) : \E zone \in {"top", "bottom"} :
                \A k \in {n, n + 1} : \E s \in Source(doc[p].pages[k]) :
                  s.mark[1] = text /\ Zone([boxed |-> s.mark[2], y |-> s.mark[4]], h) = zone
      BY <1>1 DEF RunningText, h
  <2>3. \A n \in 1 .. (N - 1) : \A zone :
          (\A k \in {n, n + 1} : \E s \in Source(doc[p].pages[k]) :
             s.mark[1] = text /\ Zone([boxed |-> s.mark[2], y |-> s.mark[4]], h) = zone)
          <=> T(n, zone) /\ T(n + 1, zone)
    <3> HIDE DEF T
    <3> QED BY <1>4, <2>1
  <2> DEFINE both(n, zone) ==
               \A k \in {n, n + 1} : \E s \in Source(doc[p].pages[k]) :
                 s.mark[1] = text /\ Zone([boxed |-> s.mark[2], y |-> s.mark[4]], h) = zone
  <2>4. RunningText(p, text)
          <=> \E n \in 1 .. (N - 1) : \E zone \in {"top", "bottom"} : both(n, zone)
      BY <2>2
  <2>5. \A n \in 1 .. (N - 1) : \A zone : both(n, zone) <=> T(n, zone) /\ T(n + 1, zone)
      BY <2>3
  <2> HIDE DEF T, both
  <2> QED BY <2>4, <2>5
<1> QED BY <1>6, <1>7 DEF P, h

--------------------------------------------------------------------------------
(* A successful parse loses nothing *)

\* The pages of a successful parse.
LEMMA ResultFacts ==
    ASSUME IInv, NEW p \in Parses, Successful(p)
    PROVE  /\ Len(doc[p].pages) \in Nat /\ DOMAIN doc[p].pages = 1 .. Len(doc[p].pages)
           /\ Pages(p) = [n \in 1 .. Len(doc[p].pages) |->
                            PageBlocks(doc[p].pages[n], MedianSize(p))]
           /\ Result(p) = [n \in 1 .. Len(doc[p].pages) |->
                             Without(Repeated(Pages(p), Height(p)), Pages(p)[n])]
           /\ \A n \in 1 .. Len(doc[p].pages) : IsPage(doc[p].pages[n])
<1>1. PICK N \in Nat : N = Len(doc[p].pages) /\ thread[p].read = N /\ DOMAIN doc[p].pages = 1 .. N
    BY SuccessfulFacts, DocumentTypes DEF IInv, RecordsInv
<1>2. Pages(p) = [n \in 1 .. N |-> PageBlocks(doc[p].pages[n], MedianSize(p))]
    BY <1>1 DEF Pages
<1>3. Result(p) = [n \in DOMAIN Pages(p) |-> Without(Repeated(Pages(p), Height(p)), Pages(p)[n])]
    BY DEF Result, Strip
<1>4. DOMAIN Pages(p) = 1 .. N
    BY <1>2
<1>5. \A n \in 1 .. N : IsPage(doc[p].pages[n])
    BY <1>1, DocumentTypes DEF IInv, RecordsInv
<1> QED BY <1>1, <1>2, <1>3, <1>4, <1>5

\* Each page of the result shows what was drawn there and does not run.
LEMMA AllMarksKept ==
    ASSUME IInv, NEW p \in Parses, Successful(p)
    PROVE  MarksKept(p)
<1> DEFINE texts == Repeated(Pages(p), Height(p))
<1> SUFFICES ASSUME NEW n \in DOMAIN doc[p].pages, NEW m
             PROVE  Cardinality({i \in DOMAIN Result(p)[n] : Mark(Result(p)[n][i]) = m})
                      = Cardinality({s \in {e \in Source(doc[p].pages[n]) :
                                              ~ RunningText(p, e.mark[1])} : s.mark = m})
    BY DEF MarksKept
<1>1. PICK page : page = doc[p].pages[n]
    OBVIOUS
<1>2. PICK median : median = MedianSize(p)
    OBVIOUS
<1> DEFINE g == PageItems(page, median)
           W == Without(texts, PageBlocks(page, median))
           kept == {e \in Source(page) : ~ RunningText(p, e.mark[1])}
           h == Left(texts, g)
<1>3. IsPage(page) /\ Result(p)[n] = W
    BY <1>1, <1>2, ResultFacts
<1>4. PICK q : Arranges(PageBlocks(page, median), g, q)
    BY <1>3, PageBlocksFacts
<1>5. PICK u : Arranges(W, h, u)
    BY <1>4, WithoutFacts
<1>6. \A t : RunningText(p, t) <=> t \in texts
    BY RepeatedFacts
<1>7. Source(page) = ShownBy(g)
    BY <1>3, SourceFacts
<1> HIDE DEF g, W, texts
<1>8. DOMAIN h = {d \in DOMAIN g : g[d].text \notin texts} /\ \A d \in DOMAIN h : h[d] = g[d]
    BY DEF Left
<1> HIDE DEF h
<1>9. kept = ShownBy(h)
  <2> DEFINE spot(d) == [at |-> d, mark |-> Mark(g[d])]
  <2>1. \A d : spot(d).mark[1] = g[d].text
      BY DEF Mark
  <2>2. \A e : e \in Source(page) <=> \E d \in DOMAIN g : e = spot(d)
      BY <1>7 DEF ShownBy
  <2>3. \A e : e \in ShownBy(h) <=> \E d \in DOMAIN h : e = spot(d)
      BY <1>8 DEF ShownBy
  <2> HIDE DEF spot
  <2>4. \A e : e \in kept <=> \E d \in DOMAIN h : e = spot(d)
      BY <1>6, <1>8, <2>1, <2>2
  <2> QED BY <2>3, <2>4
<1>10. Cardinality({i \in DOMAIN W : Mark(W[i]) = m}) = Cardinality({e \in kept : e.mark = m})
  <2>1. Cardinality({i \in DOMAIN W : Mark(W[i]) = m})
          = Cardinality({e \in ShownBy(h) : e.mark = m})
      BY <1>5, MarksCounted
  <2> HIDE DEF kept
  <2> QED BY <1>9, <2>1
<1> QED BY <1>1, <1>3, <1>10

\* Each block is of one of the kinds the report counts.
LEMMA KindsCounted ==
    ASSUME NEW s, IsSequence(s), \A i \in DOMAIN s : s[i].kind \in Kinds
    PROVE  Len(s) = Count(s, "heading") + Count(s, "table") + Count(s, "list_item") + Count(s, "body")
<1>1. PICK L \in Nat : L = Len(s) /\ DOMAIN s = 1 .. L
    BY SequenceDomain
<1> DEFINE of(kind) == {i \in DOMAIN s : s[i].kind = kind}
<1>2. IsFiniteSet(1 .. L) /\ Cardinality(1 .. L) = L
  <2>1. 1 \in Int /\ L \in Int
      OBVIOUS
  <2> QED BY <2>1, FS_Interval
<1>3. \A kind : of(kind) \in SUBSET (1 .. L)
    BY <1>1
<1>4. \A kind : IsFiniteSet(of(kind)) /\ Cardinality(of(kind)) \in Nat
              /\ Count(s, kind) = Cardinality(of(kind))
  <2> SUFFICES ASSUME NEW kind
               PROVE  IsFiniteSet(of(kind)) /\ Cardinality(of(kind)) \in Nat
                      /\ Count(s, kind) = Cardinality(of(kind))
      OBVIOUS
  <2>1. Count(s, kind) = Cardinality(of(kind))
      BY DEF Count
  <2> HIDE DEF of
  <2>2. IsFiniteSet(of(kind))
      BY <1>2, <1>3, FS_Subset
  <2> QED BY <2>1, <2>2, FS_CardinalityType
<1>5. 1 .. L = ((of("heading") \cup of("table")) \cup of("list_item")) \cup of("body")
    BY <1>1 DEF Kinds
<1>6. /\ of("heading") \cap of("table") = {}
      /\ (of("heading") \cup of("table")) \cap of("list_item") = {}
      /\ ((of("heading") \cup of("table")) \cup of("list_item")) \cap of("body") = {}
    OBVIOUS
<1> HIDE DEF of
<1> DEFINE A == of("heading") \cup of("table")
           B == A \cup of("list_item")
           C == B \cup of("body")
<1>7. IsFiniteSet(A) /\ Cardinality(A) = Cardinality(of("heading")) + Cardinality(of("table"))
    BY <1>4, <1>6, DisjointUnion
<1> HIDE DEF A
<1>8. IsFiniteSet(B) /\ Cardinality(B) = Cardinality(A) + Cardinality(of("list_item"))
    BY <1>4, <1>6, <1>7, DisjointUnion DEF A
<1> HIDE DEF B
<1>9. IsFiniteSet(C) /\ Cardinality(C) = Cardinality(B) + Cardinality(of("body"))
    BY <1>4, <1>6, <1>8, DisjointUnion DEF A, B
<1>10. Cardinality(C) = L
    BY <1>2, <1>5 DEF A, B
<1> QED BY <1>1, <1>4, <1>7, <1>8, <1>9, <1>10

\* Each page of R is what is left of that of P: w says where it was.
Filters(texts, P, R, w) ==
    /\ DOMAIN R = DOMAIN P
    /\ \A n \in DOMAIN P : /\ DOMAIN P[n] \in SUBSET Nat /\ IsSequence(R[n])
                           /\ Picks(R[n], P[n], Lacking(texts, P[n]), w[n])

\* Then all pages together hold what is left of all that was there.
LEMMA FiltersArrange ==
    ASSUME NEW texts, NEW P, NEW R, NEW w, Filters(texts, P, R, w),
           NEW s, NEW q, Arranges(s, ElementsOf(R), q)
    PROVE  \E u : Arranges(s, Left(texts, ElementsOf(P)), u)
<1> DEFINE G == ElementsOf(P)
           H == Left(texts, G)
           x == [e \in Cells(R) |-> <<e[1], w[e[1]][e[2]]>>]
<1>1. DOMAIN R = DOMAIN P
    BY DEF Filters
<1>2. DOMAIN ElementsOf(R) = Cells(R) /\ DOMAIN G = Cells(P)
      /\ DOMAIN H = {e \in Cells(P) : G[e].text \notin texts}
      /\ \A e \in DOMAIN H : H[e] = G[e]
    BY DEF ElementsOf, Left
<1>3. ASSUME NEW n \in DOMAIN P
      PROVE  /\ DOMAIN P[n] \in SUBSET Nat /\ DOMAIN R[n] \in SUBSET Nat
             /\ \A k \in DOMAIN R[n] : /\ w[n][k] \in DOMAIN P[n] /\ P[n][w[n][k]].text \notin texts
                                       /\ R[n][k] = P[n][w[n][k]]
             /\ \A i \in DOMAIN P[n] : P[n][i].text \notin texts => \E k \in DOMAIN R[n] : w[n][k] = i
             /\ \A k, l \in DOMAIN R[n] : w[n][k] = w[n][l] => k = l
  <2>1. /\ DOMAIN P[n] \in SUBSET Nat /\ IsSequence(R[n])
        /\ Picks(R[n], P[n], Lacking(texts, P[n]), w[n])
      BY DEF Filters
  <2>2. Lacking(texts, P[n]) \in SUBSET Nat
      BY <2>1 DEF Lacking
  <2>a. Picked(R[n], P[n], Lacking(texts, P[n]), w[n])
      BY <2>1, <2>2, PicksFacts
  <2>3. /\ \A k \in DOMAIN R[n] : w[n][k] \in Lacking(texts, P[n]) /\ R[n][k] = P[n][w[n][k]]
        /\ \A i \in Lacking(texts, P[n]) : \E k \in DOMAIN R[n] : w[n][k] = i
        /\ \A k, l \in DOMAIN R[n] : w[n][k] = w[n][l] => k = l
      BY <2>a DEF Picked
  <2>4. \A i : i \in Lacking(texts, P[n]) <=> i \in DOMAIN P[n] /\ P[n][i].text \notin texts
      BY DEF Lacking
  <2>5. DOMAIN R[n] \in SUBSET Nat
      BY <2>1, SequenceDomain
  <2> QED BY <2>1, <2>3, <2>4, <2>5
<1>4. \A e \in Cells(R) : /\ e = <<e[1], e[2]>> /\ e[1] \in DOMAIN P /\ e[2] \in DOMAIN R[e[1]]
                          /\ ElementsOf(R)[e] = R[e[1]][e[2]] /\ x[e] = <<e[1], w[e[1]][e[2]]>>
    BY <1>1 DEF Cells, ElementsOf
<1>5. \A n \in DOMAIN P : \A i \in DOMAIN P[n] :
        <<n, i>> \in Cells(P) /\ G[<<n, i>>] = P[n][i]
    BY <1>3 DEF Cells, ElementsOf
<1>6. \A f \in Cells(P) : f = <<f[1], f[2]>> /\ f[1] \in DOMAIN P /\ f[2] \in DOMAIN P[f[1]]
                          /\ G[f] = P[f[1]][f[2]]
    BY DEF Cells, ElementsOf
<1>7. \A n \in DOMAIN P : \A k \in DOMAIN R[n] :
        <<n, k>> \in Cells(R) /\ x[<<n, k>>] = <<n, w[n][k]>>
    BY <1>1, <1>3 DEF Cells
<1> HIDE DEF G, H, x
<1>8. ASSUME NEW e \in Cells(R)
      PROVE  x[e] \in DOMAIN H /\ H[x[e]] = ElementsOf(R)[e]
  <2>1. PICK n \in DOMAIN P : \E k \in DOMAIN R[n] :
          ElementsOf(R)[e] = R[n][k] /\ x[e] = <<n, w[n][k]>>
      BY <1>4
  <2>a. PICK k \in DOMAIN R[n] : ElementsOf(R)[e] = R[n][k] /\ x[e] = <<n, w[n][k]>>
      BY <2>1
  <2>2. PICK i \in DOMAIN P[n] : i = w[n][k] /\ P[n][i].text \notin texts /\ R[n][k] = P[n][i]
      BY <1>3
  <2>3. <<n, i>> \in Cells(P) /\ G[<<n, i>>] = P[n][i]
      BY <1>5
  <2> QED BY <1>2, <2>a, <2>2, <2>3
<1>9. ASSUME NEW f \in DOMAIN H
      PROVE  \E e \in Cells(R) : x[e] = f
  <2>1. f \in Cells(P) /\ G[f].text \notin texts
      BY <1>2
  <2>2. f = <<f[1], f[2]>> /\ f[1] \in DOMAIN P /\ f[2] \in DOMAIN P[f[1]]
        /\ P[f[1]][f[2]].text \notin texts
      BY <1>6, <2>1
  <2>3. PICK k \in DOMAIN R[f[1]] : w[f[1]][k] = f[2]
      BY <1>3, <2>2
  <2>4. <<f[1], k>> \in Cells(R) /\ x[<<f[1], k>>] = <<f[1], f[2]>>
      BY <1>7, <2>2, <2>3
  <2> QED BY <2>2, <2>4
<1>10. ASSUME NEW e \in Cells(R), NEW f \in Cells(R), x[e] = x[f]
       PROVE  e = f
  <2>1. e[1] = f[1] /\ w[e[1]][e[2]] = w[e[1]][f[2]]
      BY <1>4, <1>10
  <2>2. e[1] \in DOMAIN P /\ e[2] \in DOMAIN R[e[1]] /\ f[2] \in DOMAIN R[e[1]]
      BY <1>4, <2>1
  <2>3. e[2] = f[2]
      BY <1>3, <2>1, <2>2
  <2> QED BY <1>4, <2>1, <2>3
<1>11. \E u : Arranges(s, H, u)
    BY <1>2, <1>8, <1>9, <1>10, RenamedArranges
<1> QED BY <1>11 DEF G, H

\* What is not stripped is kept: from all pages at once as from each of them.
StrippedPages(texts, P) == [n \in DOMAIN P |-> Without(texts, P[n])]

Reconciled(texts, P, all, kept) ==
    /\ IsSequence(kept)
    /\ \A k \in DOMAIN kept : \E n \in DOMAIN P : \E i \in DOMAIN P[n] : kept[k] = P[n][i]
    /\ Len(all) = Len(kept) + Cardinality({k \in DOMAIN all : all[k].text \in texts})

\* What is counted as stripped is the difference of the lengths.
LEMMA StrippedCounted ==
    ASSUME NEW texts, NEW A, NEW P \in Seq(Seq(A))
    PROVE  Reconciled(texts, P, FlattenSeq(P), FlattenSeq(StrippedPages(texts, P)))
<1>a. PICK N \in Nat : DOMAIN P = 1 .. N /\ N = Len(P)
    BY LenProperties
<1>b. PICK R : R = StrippedPages(texts, P)
    OBVIOUS
<1>c. DOMAIN R = 1 .. N /\ \A n \in 1 .. N : R[n] = Without(texts, P[n])
    BY <1>a, <1>b DEF StrippedPages
<1> DEFINE all == FlattenSeq(P)
           kept == FlattenSeq(R)
           G == ElementsOf(P)
           H == Left(texts, G)
           cut == {k \in DOMAIN all : all[k].text \in texts}
           v(n) == CHOOSE r : Picks(R[n], P[n], Lacking(texts, P[n]), r)
<1>1. ASSUME NEW n \in 1 .. N
      PROVE  /\ P[n] \in Seq(A) /\ DOMAIN P[n] \in SUBSET Nat
             /\ R[n] \in Seq(A) /\ Picks(R[n], P[n], Lacking(texts, P[n]), v(n))
  <2>1. P[n] \in Seq(A)
      BY <1>a, ElementOfSeq
  <2>2. PICK M \in Nat : M = Len(P[n]) /\ DOMAIN P[n] = 1 .. M /\ P[n] \in [1 .. M -> A]
      BY <2>1, LenProperties
  <2>3. Arranges(P[n], P[n], [k \in 1 .. M |-> k])
    <3> DEFINE id == [k \in 1 .. M |-> k]
    <3>1. id \in [1 .. M -> 1 .. M] /\ \A k \in 1 .. M : id[k] = k
        OBVIOUS
    <3> HIDE DEF id
    <3>2. IsSequence(P[n])
        BY <2>1, OwnElements
    <3> QED BY <2>2, <3>1, <3>2 DEF Arranges, id
  <2>4. \E r : Picks(R[n], P[n], Lacking(texts, P[n]), r)
      BY <1>c, <2>3, WithoutFacts
  <2>5. IsSequence(R[n])
    <3>1. \E u : Arranges(R[n], Left(texts, P[n]), u)
        BY <1>c, <2>3, WithoutFacts
    <3> QED BY <3>1 DEF Arranges
  <2>6. DOMAIN P[n] \in SUBSET Nat /\ Lacking(texts, P[n]) \in SUBSET Nat
      BY <2>2 DEF Lacking
  <2>7. ToSet(R[n]) \in SUBSET A
    <3>1. PICK r : Picks(R[n], P[n], Lacking(texts, P[n]), r)
        BY <2>4
    <3>a. Picked(R[n], P[n], Lacking(texts, P[n]), r)
        BY <2>5, <2>6, <3>1, PicksFacts
    <3>2. \A k \in DOMAIN R[n] : r[k] \in Lacking(texts, P[n]) /\ R[n][k] = P[n][r[k]]
        BY <3>a DEF Picked
    <3>3. \A i \in Lacking(texts, P[n]) : P[n][i] \in A
        BY <2>2 DEF Lacking
    <3>4. \A k \in DOMAIN R[n] : R[n][k] \in A
        BY <3>2, <3>3
    <3> QED BY <3>4 DEF ToSet
  <2>8. R[n] \in Seq(A)
      BY <2>5, <2>7, SeqMonotonic DEF IsSequence
  <2> QED BY <2>1, <2>2, <2>4, <2>6, <2>8
<1>2. R \in Seq(Seq(A))
  <2>1. R \in [1 .. N -> Seq(A)]
    <3>1. R = [n \in 1 .. N |-> R[n]]
        BY <1>b, <1>c DEF StrippedPages
    <3> QED BY <1>1, <3>1
  <2> QED BY <2>1, SeqDef
<1>3. PICK q : Arranges(all, G, q)
    BY FlattenSeqArranges
<1>4. PICK r : Arranges(kept, ElementsOf(R), r)
    BY <1>2, FlattenSeqArranges
<1>5. PICK o : Arranges(Without(texts, all), H, o)
    BY <1>3, WithoutFacts
<1>6. \E u : Arranges(kept, H, u)
  <2> DEFINE w == [n \in 1 .. N |-> v(n)]
  <2>1. Filters(texts, P, R, w)
      BY <1>a, <1>c, <1>1, OwnElements DEF Filters
  <2> HIDE DEF w, kept, all, v
  <2> QED BY <1>4, <2>1, FiltersArrange
<1>7. PICK u : Arranges(kept, H, u)
    BY <1>6
<1>8. Len(kept) = Len(Without(texts, all))
  <2> HIDE DEF kept, H, all
  <2> QED BY <1>5, <1>7, ArrangedLength
<1>9. PICK L \in Nat : L = Len(all) /\ DOMAIN all = 1 .. L
    BY <1>3, SequenceDomain DEF Arranges
<1> DEFINE I == Lacking(texts, all)
<1>10. IsFiniteSet(I) /\ Cardinality(I) = Len(Without(texts, all))
  <2>1. PICK z : Picks(Without(texts, all), all, I, z)
      BY <1>3, WithoutFacts
  <2>2. I \in SUBSET Nat
      BY <1>9 DEF Lacking
  <2>3. IsSequence(Without(texts, all))
      BY <1>5 DEF Arranges
  <2> DEFINE gi == [i \in I |-> all[i]]
  <2> HIDE DEF I, all
  <2>4. Arranges(Without(texts, all), gi, z)
      BY <2>1, <2>2, <2>3, PicksArrange
  <2>5. DOMAIN gi = I
      OBVIOUS
  <2> HIDE DEF gi
  <2> QED BY <2>4, <2>5, ArrangedLength
<1>11. IsFiniteSet(1 .. L) /\ Cardinality(1 .. L) = L
  <2>1. 1 \in Int /\ L \in Int
      OBVIOUS
  <2> QED BY <2>1, FS_Interval
<1>12. I \cup cut = 1 .. L /\ I \cap cut = {} /\ cut \in SUBSET (1 .. L)
    BY <1>9 DEF Lacking
<1> HIDE DEF I, cut, all, kept
<1>13. IsFiniteSet(cut) /\ Cardinality(cut) \in Nat /\ Cardinality(I) \in Nat
    BY <1>10, <1>11, <1>12, FS_Subset, FS_CardinalityType
<1>14. L = Cardinality(I) + Cardinality(cut)
  <2>1. Cardinality(I \cup cut) = Cardinality(I) + Cardinality(cut)
      BY <1>10, <1>12, <1>13, DisjointUnion
  <2> QED BY <1>11, <1>12, <2>1
<1>15. Len(all) = Len(kept) + Cardinality(cut)
    BY <1>8, <1>9, <1>10, <1>14
<1>16. \A k \in DOMAIN kept : \E n \in 1 .. N : \E i \in DOMAIN P[n] : kept[k] = P[n][i]
  <2> SUFFICES ASSUME NEW k \in DOMAIN kept
               PROVE  \E n \in 1 .. N : \E i \in DOMAIN P[n] : kept[k] = P[n][i]
      OBVIOUS
  <2>1. k \in 1 .. Len(kept)
      BY <1>7, SequenceDomain DEF Arranges
  <2>2. PICK e \in DOMAIN H : kept[k] = H[e]
      BY <1>7, <2>1 DEF Arranges
  <2>3. e \in Cells(P) /\ H[e] = G[e]
      BY DEF Left, ElementsOf
  <2>4. e[1] \in 1 .. N /\ e[2] \in DOMAIN P[e[1]] /\ G[e] = P[e[1]][e[2]]
      BY <1>a, <2>3 DEF Cells, ElementsOf
  <2> HIDE DEF G, H
  <2> QED BY <2>2, <2>3, <2>4
<1>17. IsSequence(kept)
    BY <1>7 DEF Arranges
<1>18. Reconciled(texts, P, all, kept)
    BY <1>a, <1>15, <1>16, <1>17 DEF Reconciled, cut
<1> QED BY <1>b, <1>18 DEF all, kept

\* So the reconciliation adds up, and so do the kinds.
LEMMA AllReportsAddUp ==
    ASSUME IInv, NEW p \in Parses, Successful(p)
    PROVE  ReportsAddUp(p)
<1>1. PICK N \in Nat : N = Len(doc[p].pages) /\ DOMAIN doc[p].pages = 1 .. N
    BY ResultFacts
<1> DEFINE P == Pages(p)
           R == Result(p)
           texts == Repeated(Pages(p), Height(p))
           A == UNION {ToSet(P[n]) : n \in 1 .. N}
<1>2. DOMAIN P = 1 .. N
    BY <1>1, ResultFacts
<1>3. R = StrippedPages(texts, P)
    BY DEF Result, Strip, StrippedPages
<1>4. ASSUME NEW n \in 1 .. N
      PROVE  IsSequence(P[n]) /\ \A i \in DOMAIN P[n] : P[n][i].kind \in Kinds
  <2>1. PICK page : page = doc[p].pages[n]
      OBVIOUS
  <2>2. PICK median : median = MedianSize(p)
      OBVIOUS
  <2>3. IsPage(page) /\ P[n] = PageBlocks(page, median)
      BY <1>1, <2>1, <2>2, ResultFacts
  <2>4. PICK q : Arranges(PageBlocks(page, median), PageItems(page, median), q)
      BY <2>3, PageBlocksFacts
  <2>5. \A d \in DOMAIN PageItems(page, median) : PageItems(page, median)[d].kind \in Kinds
      BY <2>3, PageItemsFacts DEF IsItem
  <2> DEFINE B == PageBlocks(page, median)
             g == PageItems(page, median)
  <2> HIDE DEF B, g
  <2>6. IsSequence(B) /\ DOMAIN B = 1 .. Len(B)
        /\ \A i \in 1 .. Len(B) : q[i] \in DOMAIN g /\ B[i] = g[q[i]]
      BY <2>4, SequenceDomain DEF Arranges, B, g
  <2>7. \A i \in DOMAIN B : B[i].kind \in Kinds
      BY <2>5, <2>6 DEF g
  <2> QED BY <2>3, <2>6, <2>7 DEF B
<1> HIDE DEF P, R, texts
<1>5. P \in Seq(Seq(A))
  <2>1. \A n \in 1 .. N : P[n] \in Seq(A)
    <3> SUFFICES ASSUME NEW n \in 1 .. N PROVE P[n] \in Seq(A)
        OBVIOUS
    <3>1. ToSet(P[n]) \in SUBSET A
        OBVIOUS
    <3> HIDE DEF A
    <3> QED BY <1>4, <3>1, SeqMonotonic DEF IsSequence
  <2>2. P = [n \in 1 .. N |-> P[n]]
      BY <1>2, ResultFacts DEF P
  <2> HIDE DEF A
  <2>3. P \in [1 .. N -> Seq(A)]
      BY <2>1, <2>2
  <2> QED BY <2>3, SeqDef
<1> HIDE DEF A
<1> DEFINE kept == FlattenSeq(R)
           cut == Cardinality({k \in DOMAIN FlattenSeq(P) : FlattenSeq(P)[k].text \in texts})
<1>6. /\ IsSequence(kept)
      /\ \A k \in DOMAIN kept : \E n \in 1 .. N : \E i \in DOMAIN P[n] : kept[k] = P[n][i]
      /\ Len(FlattenSeq(P)) = Len(kept) + cut
  <2>1. Reconciled(texts, P, FlattenSeq(P), kept)
      BY <1>3, <1>5, StrippedCounted
  <2> HIDE DEF kept
  <2> QED BY <1>2, <2>1 DEF Reconciled
<1>7. \A k \in DOMAIN kept : kept[k].kind \in Kinds
    BY <1>4, <1>6
<1>8. Len(kept) = Count(kept, "heading") + Count(kept, "table") + Count(kept, "list_item")
                    + Count(kept, "body")
  <2> HIDE DEF kept
  <2> QED BY <1>6, <1>7, KindsCounted
<1>9. StrippedCount(Pages(p), Height(p)) = cut
    BY DEF StrippedCount, P, texts
<1>10. kept = FlattenSeq(Result(p)) /\ FlattenSeq(P) = FlattenSeq(Pages(p))
    BY DEF P, R
<1> HIDE DEF kept, cut
<1> DEFINE report == ReconciliationReport(Len(FlattenSeq(Pages(p))), kept,
                                          StrippedCount(Pages(p), Height(p)))
           counts == ParserReport(kept)
<1>11. report.total = report.mapped + report.unmapped
    BY <1>6, <1>9, <1>10 DEF ReconciliationReport
<1>12. counts.total = counts.headings + counts.tables + counts.list_items + counts.body
    BY <1>8 DEF ParserReport
<1> HIDE DEF report, counts
<1> QED BY <1>10, <1>11, <1>12 DEF ReportsAddUp, report, counts

\* Each line and table of a successful parse is in its result as often as it was
\* drawn, unless a table took its place or its text runs in a margin, and the
\* reports account for all of it (_extract_page_blocks, strip_headers_footers,
\* reporting.py).
THEOREM AccountedFor == Spec => []NothingVanishes
<1>1. IInv => NothingVanishes
    BY AllMarksKept, AllReportsAddUp DEF NothingVanishes
<1> QED BY <1>1, InductiveInvariant, PTL

--------------------------------------------------------------------------------
(* A page is read by columns *)

\* No left edge lies close to the left of e.
StartsColumn(page, e) ==
    e \in Edges(page) /\ \A h \in Edges(page) : h < e => ~ (10 * (e - h) <= page.width)

\* The columns' starts are the edges that start one, from left to right.
ColumnsFrom(page, starts, K) ==
    /\ DOMAIN starts = 1 .. K /\ Len(starts) = K
    /\ \A k \in 1 .. K : starts[k] \in Nat /\ StartsColumn(page, starts[k])
    /\ \A e \in Edges(page) : StartsColumn(page, e) => \E k \in 1 .. K : starts[k] = e
    /\ \A k, l \in 1 .. K : k < l => starts[k] < starts[l]

\* Edges are numbers.
LEMMA EdgesNat ==
    ASSUME NEW page, IsPage(page)
    PROVE  Edges(page) \in SUBSET Nat
BY DEF Edges, IsPage, IsBlock, IsSequence

\* ColumnStarts finds them.
LEMMA ColumnsStart ==
    ASSUME NEW page, IsPage(page), Edges(page) # {}
    PROVE  \E K \in Nat : ColumnsFrom(page, ColumnStarts(page), K)
<1> DEFINE E == Edges(page)
           edges == LeftEdges(page)
           starts == ColumnStarts(page)
           I == Starting(page)
<1>1. PICK N \in Nat : /\ edges \in [1 .. N -> E]
                       /\ \A x \in E : \E k \in 1 .. N : edges[k] = x
                       /\ \A k, l \in 1 .. N : k < l => edges[k] < edges[l]
    BY LeftEdgesFacts
<1>2. E \in SUBSET Nat /\ page.width \in Nat
    BY EdgesNat DEF IsPage, IsSequence
<1>3. PICK r : Picks(starts, edges, I, r)
    BY ColumnStartsFacts
<1>4. IsSequence(starts)
    BY ColumnStartsFacts
<1>5. \A i : i \in I <=> i \in 1 .. N /\ (i # 1 => ~ (10 * (edges[i] - edges[i - 1]) <= page.width))
    BY <1>1 DEF Starting, Gap
<1> HIDE DEF E, edges, starts, I
<1>6. I \in SUBSET Nat /\ I \in SUBSET (1 .. N)
    BY <1>5
<1>7. Picked(starts, edges, I, r)
    BY <1>3, <1>4, <1>6, PicksFacts
<1>8. PICK K \in Nat : K = Len(starts) /\ DOMAIN starts = 1 .. K
    BY <1>4, SequenceDomain
<1>9. /\ \A k \in 1 .. K : r[k] \in I /\ starts[k] = edges[r[k]]
      /\ \A i \in I : \E k \in 1 .. K : r[k] = i
    BY <1>7, <1>8 DEF Picked
<1>10. ASSUME NEW i \in 1 .. N
       PROVE  i \in I <=> StartsColumn(page, edges[i])
  <2>1. edges[i] \in E /\ edges[i] \in Nat
      BY <1>1, <1>2
  <2>2. ASSUME i \in I, NEW h \in E, h < edges[i]
        PROVE  ~ (10 * (edges[i] - h) <= page.width)
    <3>1. PICK m \in 1 .. N : edges[m] = h
        BY <1>1
    <3>2. m < i
      <4>1. ~ (i < m)
        <5>1. i < m => edges[i] < edges[m]
            BY <1>1
        <5>2. h \in Nat
            BY <1>2
        <5> QED BY <2>1, <2>2, <3>1, <5>1, <5>2
      <4>2. i # m
        <5>1. h \in Nat
            BY <1>2
        <5> QED BY <2>1, <2>2, <3>1, <5>1
      <4> QED BY <4>1, <4>2
    <3>3. i # 1 /\ i - 1 \in 1 .. N /\ (m < i - 1 \/ m = i - 1)
        BY <3>2
    <3>4. edges[i - 1] \in Nat /\ h \in Nat
        BY <1>1, <1>2, <3>3
    <3>5. h <= edges[i - 1]
        BY <1>1, <3>1, <3>3, <3>4
    <3>6. ~ (10 * (edges[i] - edges[i - 1]) <= page.width)
        BY <1>5, <2>2, <3>3
    <3> QED BY <1>2, <2>1, <3>4, <3>5, <3>6
  <2>3. ASSUME StartsColumn(page, edges[i]), i # 1
        PROVE  ~ (10 * (edges[i] - edges[i - 1]) <= page.width)
    <3>1. i - 1 \in 1 .. N /\ i - 1 < i
        BY <2>3
    <3>2. edges[i - 1] \in E /\ edges[i - 1] < edges[i]
        BY <1>1, <3>1
    <3> QED BY <2>3, <3>2 DEF StartsColumn, E
  <2>4. i \in I => StartsColumn(page, edges[i])
      BY <2>1, <2>2 DEF StartsColumn, E
  <2>5. StartsColumn(page, edges[i]) => i \in I
      BY <1>5, <2>3
  <2> QED BY <2>4, <2>5
<1>11. ASSUME NEW k \in 1 .. K
       PROVE  starts[k] \in Nat /\ StartsColumn(page, starts[k])
  <2>1. r[k] \in I /\ r[k] \in 1 .. N /\ starts[k] = edges[r[k]]
      BY <1>6, <1>9
  <2>2. StartsColumn(page, edges[r[k]])
      BY <1>10, <2>1
  <2> QED BY <1>1, <1>2, <2>1, <2>2
<1>12. ASSUME NEW e \in E, StartsColumn(page, e)
       PROVE  \E k \in 1 .. K : starts[k] = e
  <2>1. PICK i \in 1 .. N : edges[i] = e
      BY <1>1
  <2>2. i \in I
      BY <1>10, <1>12, <2>1
  <2>3. PICK k \in 1 .. K : r[k] = i
      BY <1>9, <2>2
  <2> QED BY <1>9, <2>1, <2>3
<1>13. ASSUME NEW k \in 1 .. K, NEW l \in 1 .. K, k < l
       PROVE  starts[k] < starts[l]
  <2>1. r[k] < r[l] /\ r[k] \in 1 .. N /\ r[l] \in 1 .. N
      BY <1>3, <1>6, <1>8, <1>9, <1>13 DEF Picks
  <2> QED BY <1>1, <1>9, <2>1
<1>14. ColumnsFrom(page, starts, K)
    BY <1>8, <1>11, <1>12, <1>13 DEF ColumnsFrom, E
<1> QED BY <1>14 DEF starts

\* The column of an edge is the last one that does not start behind it.
InColumn(page, x, c) ==
    \E K \in Nat : LET starts == ColumnStarts(page) IN
      /\ ColumnsFrom(page, starts, K) /\ c \in 1 .. K /\ starts[c] <= x
      /\ \A m \in 1 .. K : starts[m] <= x => m <= c

\* On a page of ten points or more that is the column the code assigns.
LEMMA ColumnOfFacts ==
    ASSUME NEW page, IsPage(page), page.width >= 10 * Point,
           NEW x \in Edges(page), x <= page.width
    PROVE  InColumn(page, x, ColumnOf(page, x))
<1> DEFINE starts == ColumnStarts(page)
           end(i) == IF i < Len(starts) THEN starts[i + 1] - Point ELSE page.width
           within == {i \in DOMAIN starts : starts[i] <= x /\ x <= end(i)}
           upto == {i \in DOMAIN starts : starts[i] <= x}
<1>1. PICK K \in Nat : ColumnsFrom(page, starts, K)
    BY ColumnsStart
<1>2. ColumnOf(page, x) = IF within = {} THEN 1 ELSE Least(within)
    BY DEF ColumnOf
<1> HIDE DEF starts
<1>3. /\ DOMAIN starts = 1 .. K /\ Len(starts) = K
      /\ \A k \in 1 .. K : starts[k] \in Nat /\ StartsColumn(page, starts[k])
      /\ \A e \in Edges(page) : StartsColumn(page, e) => \E k \in 1 .. K : starts[k] = e
      /\ \A k, l \in 1 .. K : k < l => starts[k] < starts[l]
    BY <1>1 DEF ColumnsFrom
<1>4. Edges(page) \in SUBSET Nat /\ page.width \in Nat /\ x \in Nat /\ page.width >= 20
    BY EdgesNat DEF IsPage, Point, IsSequence
<1>5. upto # {} /\ upto \in SUBSET (1 .. K)
  <2>1. PICK e \in Edges(page) : \A y \in Edges(page) : e <= y
      BY <1>4, LeastElementExists
  <2>2. StartsColumn(page, e)
    <3>1. \A h \in Edges(page) : ~ (h < e)
        BY <1>4, <2>1
    <3> QED BY <3>1 DEF StartsColumn
  <2>3. PICK k \in 1 .. K : starts[k] = e
      BY <1>3, <2>2
  <2> QED BY <1>3, <2>1, <2>3
<1>6. PICK c \in upto : \A m \in upto : m <= c
    BY <1>5, MaxOfPages
<1>7. /\ c \in 1 .. K /\ starts[c] <= x /\ starts[c] \in Nat
      /\ \A m \in 1 .. K : starts[m] <= x => m <= c
    BY <1>3, <1>6
<1>8. c \in within
  <2>1. CASE c < K
    <3>1. c + 1 \in 1 .. K /\ ~ (c + 1 <= c)
        BY <1>7, <2>1
    <3>2. starts[c + 1] \in Nat /\ ~ (starts[c + 1] <= x) /\ StartsColumn(page, starts[c + 1])
        BY <1>3, <1>7, <3>1
    <3>3. x < starts[c + 1]
        BY <1>4, <3>2
    <3>4. ~ (10 * (starts[c + 1] - x) <= page.width)
        BY <3>2, <3>3 DEF StartsColumn
    <3>5. x <= starts[c + 1] - 2
        BY <1>4, <3>2, <3>4
    <3>6. end(c) = starts[c + 1] - 2
        BY <1>3, <2>1 DEF Point
    <3> QED BY <1>3, <1>7, <3>5, <3>6
  <2>2. CASE ~ (c < K)
    <3>1. end(c) = page.width
        BY <1>3, <2>2
    <3> QED BY <1>3, <1>7, <3>1
  <2> QED BY <2>1, <2>2
<1>9. ASSUME NEW i \in within
      PROVE  i = c
  <2>1. i \in 1 .. K /\ starts[i] <= x /\ x <= end(i)
      BY <1>3
  <2>2. i <= c
      BY <1>7, <2>1
  <2>3. CASE i < c
    <3>1. i + 1 \in 1 .. K /\ (i + 1 < c \/ i + 1 = c) /\ i < K
        BY <1>7, <2>1, <2>3
    <3>2. starts[i + 1] \in Nat /\ starts[i + 1] <= starts[c]
        BY <1>3, <1>7, <3>1
    <3>3. end(i) = starts[i + 1] - 2
        BY <1>3, <3>1 DEF Point
    <3> QED BY <1>4, <1>7, <2>1, <3>2, <3>3
  <2> QED BY <1>7, <2>1, <2>2, <2>3
<1> HIDE DEF within
<1>10. ColumnOf(page, x) = c
  <2>1. within \in SUBSET Nat
      BY <1>7, <1>9
  <2>2. Least(within) \in within
      BY <1>8, <2>1, LeastFacts
  <2> QED BY <1>2, <1>8, <1>9, <2>2
<1> QED BY <1>1, <1>7, <1>10 DEF InColumn, starts

\* Of two edges the right one is in no earlier column, and in the same one if they
\* belong to one column.
LEMMA ColumnsCompare ==
    ASSUME NEW page, IsPage(page), NEW e \in Edges(page), NEW f \in Edges(page), e <= f,
           NEW c, NEW d, InColumn(page, e, c), InColumn(page, f, d)
    PROVE  c \in Nat /\ d \in Nat /\ c <= d /\ (c = d <=> SameColumn(page, e, f))
<1> DEFINE starts == ColumnStarts(page)
<1>1. PICK K \in Nat : /\ ColumnsFrom(page, starts, K) /\ c \in 1 .. K /\ starts[c] <= e
                       /\ \A m \in 1 .. K : starts[m] <= e => m <= c
    BY DEF InColumn
<1>2. PICK L \in Nat : /\ ColumnsFrom(page, starts, L) /\ d \in 1 .. L /\ starts[d] <= f
                       /\ \A m \in 1 .. L : starts[m] <= f => m <= d
    BY DEF InColumn
<1> HIDE DEF starts
<1>3. L = K
    BY <1>1, <1>2 DEF ColumnsFrom
<1>4. /\ \A k \in 1 .. K : starts[k] \in Nat /\ StartsColumn(page, starts[k])
      /\ \A g \in Edges(page) : StartsColumn(page, g) => \E k \in 1 .. K : starts[k] = g
      /\ \A k, l \in 1 .. K : k < l => starts[k] < starts[l]
    BY <1>1 DEF ColumnsFrom
<1>5. e \in Nat /\ f \in Nat /\ Edges(page) \in SUBSET Nat
    BY EdgesNat
<1>6. c <= d
  <2>1. starts[c] \in Nat /\ starts[c] <= f
      BY <1>1, <1>4, <1>5
  <2> QED BY <1>1, <1>2, <1>3, <2>1
\* A column between them is one that starts between them.
<1>7. c # d <=> \E g \in Edges(page) : e < g /\ g <= f /\ StartsColumn(page, g)
  <2>1. ASSUME c # d
        PROVE  \E g \in Edges(page) : e < g /\ g <= f /\ StartsColumn(page, g)
    <3>1. starts[d] \in Edges(page) /\ starts[d] \in Nat /\ StartsColumn(page, starts[d])
        BY <1>2, <1>3, <1>4 DEF StartsColumn
    <3>2. ~ (d <= c)
        BY <1>1, <1>2, <1>6, <2>1
    <3>3. ~ (starts[d] <= e)
        BY <1>1, <1>2, <1>3, <3>2
    <3> QED BY <1>2, <1>5, <3>1, <3>3
  <2>2. ASSUME NEW g \in Edges(page), e < g, g <= f, StartsColumn(page, g)
        PROVE  c # d
    <3>1. PICK m \in 1 .. K : starts[m] = g
        BY <1>4, <2>2
    <3>2. m <= d
        BY <1>2, <1>3, <2>2, <3>1
    <3>3. ~ (m <= c)
      <4> SUFFICES ASSUME m <= c PROVE FALSE
          OBVIOUS
      <4>1. m < c \/ m = c
          BY <1>1
      <4>2. starts[m] <= starts[c] /\ starts[c] \in Nat /\ starts[m] \in Nat
          BY <1>1, <1>4, <4>1
      <4> QED BY <1>1, <1>5, <2>2, <3>1, <4>2
    <3> QED BY <3>2, <3>3
  <2> QED BY <2>1, <2>2
<1>8. SameColumn(page, e, f)
        <=> ~ \E g \in Edges(page) : e < g /\ g <= f /\ StartsColumn(page, g)
  <2>1. {b.x0 : b \in ToSet(page.blocks)} = Edges(page)
      BY DEF ToSet, Edges
  <2>2. SameColumn(page, e, f)
          <=> \A g \in Edges(page) : e < g /\ g <= f =>
                \E h \in Edges(page) : h < g /\ 10 * (g - h) <= page.width
      BY <2>1 DEF SameColumn
  <2>3. \A g \in Edges(page) : StartsColumn(page, g)
          <=> ~ \E h \in Edges(page) : h < g /\ 10 * (g - h) <= page.width
      BY DEF StartsColumn
  <2> QED BY <2>2, <2>3
<1> QED BY <1>1, <1>2, <1>6, <1>7, <1>8

\* Two blocks in the order of their keys are in reading order.
LEMMA KeysReadInOrder ==
    ASSUME NEW page, IsPage(page), page.width >= 10 * Point,
           NEW a, NEW b, IsItem(a), IsItem(b), Aligned(page, a), Aligned(page, b),
           \/ Precedes(SortKey(page, a), SortKey(page, b))
           \/ SortKey(page, a) = SortKey(page, b)
    PROVE  \/ a.x <= b.x /\ ~ SameColumn(page, a.x, b.x)
           \/ a.x <= b.x /\ SameColumn(page, a.x, b.x) /\ a.y <= b.y
           \/ b.x <= a.x /\ SameColumn(page, b.x, a.x) /\ a.y <= b.y
<1>1. PICK c, d : c = ColumnOf(page, a.x) /\ d = ColumnOf(page, b.x)
    OBVIOUS
<1>2. /\ a.boxed /\ b.boxed /\ a.x \in Edges(page) /\ b.x \in Edges(page)
      /\ a.x <= page.width /\ b.x <= page.width
    BY DEF Aligned, Edges, ToSet
<1>3. a.x \in Nat /\ a.y \in Nat /\ b.x \in Nat /\ b.y \in Nat
    BY DEF IsItem
<1>4. SortKey(page, a) = <<c, a.y, a.x>> /\ SortKey(page, b) = <<d, b.y, b.x>>
    BY <1>1, <1>2 DEF SortKey
<1>5. InColumn(page, a.x, c) /\ InColumn(page, b.x, d)
    BY <1>1, <1>2, ColumnOfFacts
<1>6. a.x <= b.x => c \in Nat /\ d \in Nat /\ c <= d /\ (c = d <=> SameColumn(page, a.x, b.x))
    BY <1>2, <1>5, ColumnsCompare
<1>7. b.x <= a.x => c \in Nat /\ d \in Nat /\ d <= c /\ (c = d <=> SameColumn(page, b.x, a.x))
    BY <1>2, <1>5, ColumnsCompare
<1>8. c < d \/ (c = d /\ a.y <= b.y)
  <2>1. \/ c < d \/ (c = d /\ a.y < b.y) \/ (c = d /\ a.y = b.y)
      BY <1>4 DEF Precedes
  <2> QED BY <1>3, <2>1
<1>9. CASE a.x <= b.x
    BY <1>6, <1>8, <1>9
<1>10. CASE b.x <= a.x
    BY <1>7, <1>8, <1>10
<1> QED BY <1>3, <1>9, <1>10

\* On a page of ten points or more, what starts at a left edge is read column by
\* column from left to right, and each column from top to bottom (_detect_columns,
\* _extract_page_blocks).
THEOREM ReadingOrder == Spec => []ColumnsInOrder
<1>1. IInv => ColumnsInOrder
  <2> SUFFICES ASSUME IInv, NEW p \in Parses, Successful(p), NEW n \in DOMAIN doc[p].pages,
                      doc[p].pages[n].width >= 10 * Point,
                      NEW i \in DOMAIN Result(p)[n], NEW j \in DOMAIN Result(p)[n], i < j,
                      Aligned(doc[p].pages[n], Result(p)[n][i]),
                      Aligned(doc[p].pages[n], Result(p)[n][j])
               PROVE  LET page == doc[p].pages[n]
                          a == Result(p)[n][i]
                          b == Result(p)[n][j]
                      IN  \/ a.x <= b.x /\ ~ SameColumn(page, a.x, b.x)
                          \/ a.x <= b.x /\ SameColumn(page, a.x, b.x) /\ a.y <= b.y
                          \/ b.x <= a.x /\ SameColumn(page, b.x, a.x) /\ a.y <= b.y
      BY DEF ColumnsInOrder
  <2>1. PICK page, median, W, B, texts :
          /\ page = doc[p].pages[n] /\ median = MedianSize(p) /\ W = Result(p)[n]
          /\ B = PageBlocks(page, median) /\ texts = Repeated(Pages(p), Height(p))
      OBVIOUS
  <2>2. IsPage(page) /\ W = Without(texts, B)
      BY <2>1, ResultFacts
  <2>3. InKeyOrder(page, B)
      BY <2>1, <2>2, PageBlocksFacts
  <2>4. PICK q : Arranges(B, PageItems(page, median), q)
      BY <2>1, <2>2, PageBlocksFacts
  <2>5. PICK r : Picks(W, B, Lacking(texts, B), r)
      BY <2>2, <2>4, WithoutFacts
  <2>6. DOMAIN B = 1 .. Len(B) /\ Len(B) \in Nat
      BY <2>4, SequenceDomain DEF Arranges
  <2>7. DOMAIN W = 1 .. Len(W)
    <3>1. \E u : Arranges(W, Left(texts, PageItems(page, median)), u)
        BY <2>2, <2>4, WithoutFacts
    <3> QED BY <3>1, SequenceDomain DEF Arranges
  <2>8. /\ i \in 1 .. Len(W) /\ j \in 1 .. Len(W)
        /\ r[i] \in DOMAIN B /\ r[j] \in DOMAIN B /\ r[i] < r[j]
        /\ W[i] = B[r[i]] /\ W[j] = B[r[j]]
    <3>1. i \in 1 .. Len(W) /\ j \in 1 .. Len(W)
        BY <2>1, <2>7
    <3>2. /\ W = [k \in 1 .. Len(W) |-> B[r[k]]] /\ r \in [1 .. Len(W) -> Lacking(texts, B)]
          /\ \A k, l \in 1 .. Len(W) : k < l => r[k] < r[l]
        BY <2>5 DEF Picks
    <3>3. Lacking(texts, B) \in SUBSET DOMAIN B
        BY DEF Lacking
    <3> QED BY <3>1, <3>2, <3>3
  <2>9. \/ Precedes(SortKey(page, W[i]), SortKey(page, W[j]))
        \/ SortKey(page, W[i]) = SortKey(page, W[j])
      BY <2>3, <2>6, <2>8 DEF InKeyOrder
  <2>10. IsItem(W[i]) /\ IsItem(W[j])
    <3>1. \A d \in DOMAIN PageItems(page, median) : IsItem(PageItems(page, median)[d])
        BY <2>2, PageItemsFacts
    <3>2. \A k \in 1 .. Len(B) : q[k] \in DOMAIN PageItems(page, median)
                                 /\ B[k] = PageItems(page, median)[q[k]]
        BY <2>4 DEF Arranges
    <3> QED BY <2>6, <2>8, <3>1, <3>2
  <2> QED BY <2>1, <2>2, <2>9, <2>10, KeysReadInOrder
<1> QED BY <1>1, InductiveInvariant, PTL
================================================================================
