---------------------------- MODULE NimClientProofs ----------------------------
(***************************************************************************)
(* The rate limiter and the retries, for any calls, clients and limits.    *)
(* A limiter's timestamps are in order and Rpm + 1 of them never fit in    *)
(* the window; whoever sleeps for the oldest of exactly Rpm holds the lock *)
(* until that one is out of it.                                            *)
(***************************************************************************)
EXTENDS NimClient, DataFacts

PCs == {"idle", "limit", "throttled", "posting", "backoff", "done"}
Results == {"none", "output", "schema", "timeout", "transient", "client", "exception"}
Causes == {"none", "valid", "badSchema", "malformed", "timeout", "transport",
           "transientStatus", "otherStatus"}
Rounds == 1..2

Ordered(a) == \A i, j \in DOMAIN a : i <= j => a[j] <= a[i]
Limited(a) == \A i, j \in DOMAIN a : j >= i + Rpm => a[i] = Window

\* A sleeping call has the lock of its client; when it wakes, the oldest of the
\* Rpm timestamps is out of the window.
Throttled(c) ==
    LET a == age[ClientOf[c]]
    IN  /\ lock[ClientOf[c]] = c /\ Len(a) = Rpm
        /\ call[c].left + a[1] >= Window

Retries(c) ==
    /\ call[c].pc = "backoff" => call[c].attempt < MaxRetries
    /\ call[c].cause # "none" => call[c].pc = "done"
    /\ call[c].cause \in {"transport", "transientStatus"} => call[c].attempt = MaxRetries

IInv ==
    /\ TypeOK
    /\ \A k \in Clients : Ordered(age[k]) /\ Limited(age[k])
    /\ \A c \in Calls : call[c].pc = "throttled" => Throttled(c)
    /\ \A c \in Calls : Retries(c)

--------------------------------------------------------------------------------
(* The fields of a call, one at a time *)

LEMMA CallFields ==
    ASSUME NEW r \in Call
    PROVE  /\ r.pc \in PCs /\ r.round \in Rounds /\ r.attempt \in 0..MaxRetries
           /\ r.left \in Nat /\ r.pieces \in 0..MaxPieces
           /\ r.result \in Results /\ r.cause \in Causes
BY DEF Call, PCs, Results, Causes, Rounds

LEMMA CallUpdates ==
    ASSUME NEW r \in Call
    PROVE  /\ \A p \in PCs : [r EXCEPT !.pc = p] \in Call
           /\ \A n \in Rounds : [r EXCEPT !.round = n] \in Call
           /\ \A n \in 0..MaxRetries : [r EXCEPT !.attempt = n] \in Call
           /\ \A n \in Nat : [r EXCEPT !.left = n] \in Call
           /\ \A n \in 0..MaxPieces : [r EXCEPT !.pieces = n] \in Call
           /\ \A x \in Results : [r EXCEPT !.result = x] \in Call
           /\ \A x \in Causes : [r EXCEPT !.cause = x] \in Call
BY DEF Call, PCs, Results, Causes, Rounds

LEMMA BackoffType == ASSUME NEW n \in 0..MaxRetries PROVE 2 ^ n \in Nat
BY NimAssumption

--------------------------------------------------------------------------------
(* The limiter's list *)

\* The filter leaves at most Rpm timestamps, in order and all in the window.
LEMMA RecentFacts ==
    ASSUME NEW a \in Seq(0..Window), Ordered(a), Limited(a)
    PROVE  /\ Recent(a) \in Seq(0..Window) /\ Ordered(Recent(a))
           /\ Len(Recent(a)) <= Rpm
           /\ \A i \in DOMAIN Recent(a) : Recent(a)[i] < Window
<1> DEFINE S == {j \in 1..(Len(a) + 1) : j = Len(a) + 1 \/ a[j] < Window}
           f == FirstRecent(a)
           r == Recent(a)
<1>0. Window \in Nat /\ Rpm \in Nat /\ Rpm > 0
    BY NimAssumption
<1>1. /\ Len(a) \in Nat /\ DOMAIN a = 1..Len(a)
      /\ \A j \in DOMAIN a : a[j] \in 0..Window
    BY <1>0
<1>2. S \in SUBSET Nat /\ Len(a) + 1 \in S
    BY <1>1
<1>3. PICK m \in S : \A j \in S : m <= j
  <2> HIDE DEF S
  <2> QED BY <1>2, LeastElementExists
<1>4. m \in 1..(Len(a) + 1) /\ \A j \in DOMAIN a : a[j] < Window <=> j >= m
  <2> SUFFICES ASSUME NEW j \in DOMAIN a PROVE a[j] < Window <=> j >= m
      BY <1>3
  <2>1. a[j] < Window => j >= m
      BY <1>1, <1>3
  <2>2. ASSUME j >= m PROVE a[j] < Window
    <3>1. m \in DOMAIN a /\ a[m] < Window
        BY <1>1, <1>3, <2>2
    <3>2. a[j] <= a[m]
        BY <2>2, <3>1 DEF Ordered
    <3> QED BY <1>0, <1>1, <3>1, <3>2
  <2> QED BY <2>1, <2>2
<1>5. f \in 1..(Len(a) + 1) /\ \A j \in DOMAIN a : a[j] < Window <=> j >= f
    BY <1>4 DEF FirstRecent
<1> HIDE DEF f
<1>6. r = SubSeq(a, f, Len(a))
    BY DEF Recent, f
<1>7. /\ r \in Seq(0..Window) /\ Len(r) = Len(a) + 1 - f
      /\ DOMAIN r = 1..(Len(a) + 1 - f)
      /\ \A i \in DOMAIN r : r[i] = a[f + i - 1] /\ f + i - 1 \in DOMAIN a
    BY <1>1, <1>5, <1>6
<1> HIDE DEF r
<1>8. \A i \in DOMAIN r : r[i] < Window
    BY <1>1, <1>5, <1>7
<1>9. Ordered(r)
    BY <1>1, <1>5, <1>7 DEF Ordered
<1>10. Len(r) <= Rpm
  <2> SUFFICES ASSUME Len(r) > Rpm PROVE FALSE
      BY <1>0, <1>7
  <2>1. f \in DOMAIN a /\ Len(a) \in DOMAIN a /\ Len(a) >= f + Rpm
      BY <1>0, <1>1, <1>5, <1>7
  <2>2. a[f] = Window /\ a[f] < Window
      BY <1>5, <2>1 DEF Limited
  <2> QED BY <1>0, <2>2
<1> QED BY <1>7, <1>8, <1>9, <1>10 DEF r

\* A timestamp of now keeps the order, and the limit as long as the list is not
\* full or its oldest timestamp is out of the window.
LEMMA AppendNow ==
    ASSUME NEW a \in Seq(0..Window), Ordered(a), Limited(a), Len(a) <= Rpm,
           Len(a) = Rpm => a[1] = Window
    PROVE  /\ Append(a, 0) \in Seq(0..Window)
           /\ Ordered(Append(a, 0)) /\ Limited(Append(a, 0))
<1> DEFINE b == Append(a, 0)
<1>0. Window \in Nat /\ Rpm \in Nat /\ Rpm > 0
    BY NimAssumption
<1>1. PICK n \in Nat : n = Len(a)
    OBVIOUS
<1>2. /\ DOMAIN a = 1..n /\ \A j \in 1..n : a[j] \in 0..Window
      /\ b \in Seq(0..Window) /\ DOMAIN b = 1..(n + 1)
      /\ b[n + 1] = 0 /\ \A j \in 1..n : b[j] = a[j]
    BY <1>0, <1>1
<1> HIDE DEF b
<1>3. \A i \in 1..(n + 1) : b[i] \in Nat /\ (i = n + 1 \/ i \in 1..n)
  <2>1. \A i \in 1..n : b[i] \in Nat
      BY <1>0, <1>2
  <2> QED BY <1>2, <2>1
<1>4. Ordered(b)
  <2> SUFFICES ASSUME NEW i \in 1..(n + 1), NEW j \in 1..(n + 1), i <= j
               PROVE  b[j] <= b[i]
      BY <1>2 DEF Ordered
  <2>1. CASE j = n + 1
      BY <1>2, <1>3, <2>1
  <2>2. CASE j # n + 1
    <3>1. i \in 1..n /\ j \in 1..n
        BY <1>3, <2>2
    <3> QED BY <1>2, <3>1 DEF Ordered
  <2> QED BY <2>1, <2>2
<1>5. Limited(b)
  <2> SUFFICES ASSUME NEW i \in 1..(n + 1), NEW j \in 1..(n + 1), j >= i + Rpm
               PROVE  b[i] = Window
      BY <1>2 DEF Limited
  <2>1. n <= Rpm
      BY <1>1
  <2>2. i = 1 /\ n = Rpm /\ 1 \in 1..n
      BY <1>0, <2>1
  <2> QED BY <1>1, <1>2, <2>2
<1> QED BY <1>2, <1>4, <1>5 DEF b

LEMMA InitInv == Init => IInv
<1> SUFFICES ASSUME Init PROVE IInv
    OBVIOUS
<1>0. MaxRetries \in Nat /\ MaxPieces \in Nat
    BY NimAssumption
<1> DEFINE start == [pc |-> "idle", round |-> 1, attempt |-> 0, left |-> 0,
                     pieces |-> 0, result |-> "none", cause |-> "none"]
<1>1. start \in Call /\ start.pc = "idle" /\ start.cause = "none"
    BY <1>0 DEF Call
<1>2. call = [c \in Calls |-> start]
    BY DEF Init
<1> HIDE DEF start
<1>3. TypeOK
    BY <1>1, <1>2 DEF Init, TypeOK
<1>4. \A c \in Calls : Retries(c) /\ call[c].pc # "throttled"
    BY <1>1, <1>2 DEF Retries
<1>5. \A k \in Clients : Ordered(age[k]) /\ Limited(age[k])
    BY DEF Init, Ordered, Limited
<1> QED BY <1>3, <1>4, <1>5 DEF IInv

--------------------------------------------------------------------------------
(* Steps of one call that leave the limiters alone *)

LEMMA TurnFacts ==
    ASSUME call \in [Calls -> Call], NEW c \in Calls, NEW p \in PCs, NEW n \in Nat
    PROVE  /\ Turn(c, p, n) \in [Calls -> Call]
           /\ \A d \in Calls : d # c => Turn(c, p, n)[d] = call[d]
           /\ Turn(c, p, n)[c].pc = p /\ Turn(c, p, n)[c].left = n
           /\ Turn(c, p, n)[c].attempt = call[c].attempt
           /\ Turn(c, p, n)[c].cause = call[c].cause
<1>0. 0 \in 0..MaxPieces
    BY NimAssumption
<1> DEFINE r == [[[call[c] EXCEPT !.pc = p] EXCEPT !.left = n] EXCEPT !.pieces = 0]
<1>1. r \in Call
  <2>1. [call[c] EXCEPT !.pc = p] \in Call
      BY CallUpdates
  <2>2. [[call[c] EXCEPT !.pc = p] EXCEPT !.left = n] \in Call
      BY <2>1, CallUpdates
  <2> QED BY <1>0, <2>2, CallUpdates
<1>2. call[c] \in Call
    OBVIOUS
<1>3. r.pc = p /\ r.left = n /\ r.attempt = call[c].attempt /\ r.cause = call[c].cause
    BY <1>2 DEF Call
<1>4. Turn(c, p, n) = [call EXCEPT ![c] = r]
    BY <1>2 DEF Turn, Call
<1> HIDE DEF r
<1> QED BY <1>1, <1>3, <1>4

\* The step of a call that does not go to sleep in the limiter.
LEMMA CallStep ==
    ASSUME IInv, NEW c \in Calls, call' \in [Calls -> Call],
           \A d \in Calls : d # c => call'[d] = call[d],
           UNCHANGED <<age, lock>>, call'[c].pc # "throttled", Retries(c)'
    PROVE  IInv'
<1>1. TypeOK'
    BY DEF IInv, TypeOK
<1>2. \A d \in Calls : call'[d].pc = "throttled" => Throttled(d)'
    BY DEF IInv, Throttled
<1>3. \A d \in Calls : Retries(d)'
    BY DEF IInv, Retries
<1>4. \A k \in Clients : Ordered(age[k])' /\ Limited(age[k])'
    BY DEF IInv, Ordered, Limited
<1> QED BY <1>1, <1>2, <1>3, <1>4 DEF IInv

LEMMA FinishInv ==
    ASSUME IInv, NEW c \in Calls, NEW result \in Results, NEW cause \in Causes,
           cause \in {"transport", "transientStatus"} => call[c].attempt = MaxRetries,
           Finish(c, result, cause)
    PROVE  IInv'
<1> DEFINE t == Turn(c, "done", 0)
<1>0. call \in [Calls -> Call] /\ "done" \in PCs
    BY DEF IInv, TypeOK, PCs
<1>1. /\ t \in [Calls -> Call] /\ \A d \in Calls : d # c => t[d] = call[d]
      /\ t[c].pc = "done" /\ t[c].attempt = call[c].attempt
    BY <1>0, TurnFacts
<1>2. /\ call' = [t EXCEPT ![c].result = result, ![c].cause = cause]
      /\ UNCHANGED <<age, lock>>
    BY DEF Finish
<1> HIDE DEF t
<1> DEFINE r == [[t[c] EXCEPT !.result = result] EXCEPT !.cause = cause]
<1>3. t[c] \in Call
    BY <1>1
<1>4. r \in Call
  <2>1. [t[c] EXCEPT !.result = result] \in Call
      BY <1>3, CallUpdates
  <2> QED BY <2>1, CallUpdates
<1>5. r.pc = "done" /\ r.attempt = call[c].attempt /\ r.cause = cause
    BY <1>1, <1>3 DEF Call
<1>6. call' = [t EXCEPT ![c] = r]
    BY <1>1, <1>2, <1>3 DEF Call
<1> HIDE DEF r
<1>7. call' \in [Calls -> Call] /\ call'[c] = r /\ \A d \in Calls : d # c => call'[d] = call[d]
    BY <1>1, <1>4, <1>6
<1>8. Retries(c)'
    BY <1>5, <1>7 DEF Retries
<1> QED BY <1>2, <1>5, <1>7, <1>8, CallStep

\* A call that goes on has no cause yet.
LEMMA TurnInv ==
    ASSUME IInv, NEW c \in Calls, NEW p \in PCs, NEW n \in Nat,
           call[c].pc # "done", p # "throttled",
           p = "backoff" => call[c].attempt < MaxRetries,
           call' = Turn(c, p, n), UNCHANGED <<age, lock>>
    PROVE  IInv'
<1>0. call \in [Calls -> Call]
    BY DEF IInv, TypeOK
<1>1. /\ call' \in [Calls -> Call] /\ \A d \in Calls : d # c => call'[d] = call[d]
      /\ call'[c].pc = p /\ call'[c].cause = call[c].cause
      /\ call'[c].attempt = call[c].attempt
    BY <1>0, TurnFacts
<1>2. Retries(c)'
    BY <1>1 DEF IInv, Retries
<1> QED BY <1>1, <1>2, CallStep

LEMMA GenerateInv == ASSUME IInv, NEW c \in Calls, Generate(c) PROVE IInv'
<1>0. call \in [Calls -> Call] /\ call[c] \in Call /\ "limit" \in PCs
    BY DEF IInv, TypeOK, PCs
<1> DEFINE r == [call[c] EXCEPT !.pc = "limit"]
<1>1. call' = [call EXCEPT ![c] = r] /\ UNCHANGED <<age, lock>> /\ call[c].pc = "idle"
    BY DEF Generate
<1>2. r \in Call /\ r.pc = "limit" /\ r.cause = call[c].cause
  <2>1. r \in Call
      BY <1>0, CallUpdates
  <2> QED BY <1>0, <2>1 DEF Call
<1> HIDE DEF r
<1>3. call' \in [Calls -> Call] /\ call'[c] = r /\ \A d \in Calls : d # c => call'[d] = call[d]
    BY <1>0, <1>1, <1>2
<1>4. Retries(c)'
    BY <1>1, <1>2, <1>3 DEF IInv, Retries
<1> QED BY <1>1, <1>2, <1>3, <1>4, CallStep

LEMMA RetryInv == ASSUME IInv, NEW c \in Calls, Retry(c) PROVE IInv'
<1>0. call \in [Calls -> Call] /\ call[c] \in Call /\ "limit" \in PCs
    BY DEF IInv, TypeOK, PCs
<1>1. /\ call[c].pc = "backoff" /\ UNCHANGED <<age, lock>>
      /\ call' = [call EXCEPT ![c].pc = "limit", ![c].attempt = @ + 1]
    BY DEF Retry
<1>2. call[c].attempt + 1 \in 0..MaxRetries
  <2>1. call[c].attempt < MaxRetries /\ call[c].attempt \in 0..MaxRetries
      BY <1>0, <1>1, CallFields DEF IInv, Retries
  <2> QED BY <2>1, NimAssumption
<1> DEFINE n == call[c].attempt + 1
           r == [[call[c] EXCEPT !.pc = "limit"] EXCEPT !.attempt = n]
<1> HIDE DEF n
<1>3. r \in Call /\ r.pc = "limit" /\ r.cause = call[c].cause
  <2>1. [call[c] EXCEPT !.pc = "limit"] \in Call
      BY <1>0, CallUpdates
  <2>2. r \in Call
      BY <1>2, <2>1, CallUpdates DEF n
  <2> QED BY <1>0, <2>2 DEF Call
<1>4. call' = [call EXCEPT ![c] = r]
    BY <1>0, <1>1 DEF Call, n
<1> HIDE DEF r
<1>5. call' \in [Calls -> Call] /\ call'[c] = r /\ \A d \in Calls : d # c => call'[d] = call[d]
    BY <1>0, <1>3, <1>4
<1>6. Retries(c)'
    BY <1>1, <1>3, <1>5 DEF IInv, Retries
<1> QED BY <1>1, <1>3, <1>5, <1>6, CallStep

LEMMA PieceInv == ASSUME IInv, NEW c \in Calls, Piece(c) PROVE IInv'
<1>0. call \in [Calls -> Call] /\ call[c] \in Call
    BY DEF IInv, TypeOK
<1>1. /\ call[c].pc = "posting" /\ call[c].pieces < MaxPieces /\ UNCHANGED <<age, lock>>
      /\ call' = [call EXCEPT ![c].left = TimeoutSeconds, ![c].pieces = @ + 1]
    BY DEF Piece
<1>2. TimeoutSeconds \in Nat /\ call[c].pieces + 1 \in 0..MaxPieces
    BY <1>0, <1>1, CallFields, NimAssumption
<1> DEFINE n == call[c].pieces + 1
           r == [[call[c] EXCEPT !.left = TimeoutSeconds] EXCEPT !.pieces = n]
<1> HIDE DEF n
<1>3. r \in Call /\ r.pc = "posting" /\ r.cause = call[c].cause
  <2>1. [call[c] EXCEPT !.left = TimeoutSeconds] \in Call
      BY <1>0, <1>2, CallUpdates
  <2>2. r \in Call
      BY <1>2, <2>1, CallUpdates DEF n
  <2> QED BY <1>0, <1>1, <2>2 DEF Call
<1>4. call' = [call EXCEPT ![c] = r]
    BY <1>0, <1>1 DEF Call, n
<1> HIDE DEF r
<1>5. call' \in [Calls -> Call] /\ call'[c] = r /\ \A d \in Calls : d # c => call'[d] = call[d]
    BY <1>0, <1>3, <1>4
<1>6. Retries(c)'
    BY <1>1, <1>3, <1>5 DEF IInv, Retries
<1> QED BY <1>1, <1>3, <1>5, <1>6, CallStep

LEMMA BadSchemaInv == ASSUME IInv, NEW c \in Calls, BadSchema(c) PROVE IInv'
<1>0. call \in [Calls -> Call] /\ call[c].pc = "posting" /\ MaxRetries \in Nat
    BY NimAssumption DEF IInv, TypeOK, BadSchema
<1>1. CASE call[c].round = 1
  <2> DEFINE t == Turn(c, "limit", 0)
  <2>1. /\ call' = [t EXCEPT ![c].round = 2, ![c].attempt = 0]
        /\ UNCHANGED <<age, lock>>
      BY <1>1 DEF BadSchema
  <2>2. /\ t \in [Calls -> Call] /\ \A d \in Calls : d # c => t[d] = call[d]
        /\ t[c].pc = "limit" /\ t[c].cause = call[c].cause
      BY <1>0, TurnFacts DEF PCs
  <2> HIDE DEF t
  <2> DEFINE r == [[t[c] EXCEPT !.round = 2] EXCEPT !.attempt = 0]
  <2>3. t[c] \in Call
      BY <2>2
  <2>4. r \in Call
    <3>1. 2 \in Rounds /\ 0 \in 0..MaxRetries
        BY <1>0 DEF Rounds
    <3>2. [t[c] EXCEPT !.round = 2] \in Call
        BY <2>3, <3>1, CallUpdates
    <3> QED BY <3>1, <3>2, CallUpdates
  <2>5. r.pc = "limit" /\ r.cause = call[c].cause
      BY <2>2, <2>3 DEF Call
  <2>6. call' = [t EXCEPT ![c] = r]
      BY <2>1, <2>2, <2>3 DEF Call
  <2> HIDE DEF r
  <2>7. call' \in [Calls -> Call] /\ call'[c] = r /\ \A d \in Calls : d # c => call'[d] = call[d]
      BY <2>2, <2>4, <2>6
  <2>8. Retries(c)'
      BY <1>0, <2>5, <2>7 DEF IInv, Retries
  <2> QED BY <2>1, <2>5, <2>7, <2>8, CallStep
<1>2. CASE call[c].round # 1
  <2>1. Finish(c, "schema", "badSchema")
      BY <1>2 DEF BadSchema
  <2> QED BY <2>1, FinishInv DEF Results, Causes
<1> QED BY <1>1, <1>2

LEMMA EndsInv ==
    ASSUME IInv, NEW c \in Calls,
           Valid(c) \/ Malformed(c) \/ OtherStatus(c) \/ TimesOut(c)
    PROVE  IInv'
BY FinishInv DEF Valid, Malformed, OtherStatus, TimesOut, Results, Causes

\* A transient error is final only with no retry left.
LEMMA TransientInv ==
    ASSUME IInv, NEW c \in Calls, TransientStatus(c) \/ TransportError(c)
    PROVE  IInv'
<1>0. call[c].pc = "posting"
    BY DEF TransientStatus, TransportError
<1>1. call[c].attempt \in 0..MaxRetries /\ MaxRetries \in Nat
    BY CallFields, NimAssumption DEF IInv, TypeOK
<1>2. CASE RetryLeft(c)
  <2>1. call' = Turn(c, "backoff", 2 ^ call[c].attempt) /\ UNCHANGED <<age, lock>>
      BY <1>2 DEF TransientStatus, TransportError, Backoff
  <2> DEFINE n == 2 ^ call[c].attempt
  <2>2. n \in Nat
      BY <1>1, BackoffType
  <2> HIDE DEF n
  <2>3. call' = Turn(c, "backoff", n)
      BY <2>1 DEF n
  <2> QED BY <1>0, <1>2, <2>1, <2>2, <2>3, TurnInv DEF RetryLeft, PCs
<1>3. CASE ~RetryLeft(c)
  <2>1. call[c].attempt = MaxRetries
      BY <1>1, <1>3 DEF RetryLeft
  <2>2. Finish(c, "client", "transientStatus") \/ Finish(c, "transient", "transport")
      BY <1>3 DEF TransientStatus, TransportError
  <2> QED BY <2>1, <2>2, FinishInv DEF Results, Causes
<1> QED BY <1>2, <1>3

--------------------------------------------------------------------------------
(* The limiter and the clock *)

\* A step of c in the limiter of its client, whose lock no other call has.
LEMMA LimiterStep ==
    ASSUME IInv, NEW c \in Calls, call' \in [Calls -> Call],
           \A d \in Calls : d # c => call'[d] = call[d],
           lock[ClientOf[c]] \in {None, c},
           NEW a \in Seq(0..Window), Ordered(a), Limited(a),
           age' = [age EXCEPT ![ClientOf[c]] = a],
           NEW l \in Calls \cup {None}, lock' = [lock EXCEPT ![ClientOf[c]] = l],
           call'[c].pc = "throttled" =>
             l = c /\ Len(a) = Rpm /\ call'[c].left + a[1] >= Window,
           Retries(c)'
    PROVE  IInv'
<1> DEFINE k == ClientOf[c]
<1>0. /\ k \in Clients /\ \A d \in Calls : ClientOf[d] \in Clients
      /\ age \in [Clients -> Seq(0..Window)] /\ lock \in [Clients -> Calls \cup {None}]
    BY NimAssumption DEF IInv, TypeOK
<1>1. /\ age'[k] = a /\ lock'[k] = l
      /\ \A j \in Clients : j # k => age'[j] = age[j] /\ lock'[j] = lock[j]
    BY <1>0
<1>2. TypeOK'
    BY <1>0 DEF TypeOK
<1>3. ASSUME NEW j \in Clients PROVE Ordered(age'[j]) /\ Limited(age'[j])
    BY <1>1 DEF IInv
<1>4. ASSUME NEW d \in Calls, call'[d].pc = "throttled" PROVE Throttled(d)'
  <2>1. CASE d = c
      BY <1>1, <1>4, <2>1 DEF Throttled
  <2>2. CASE d # c
    <3>1. Throttled(d) /\ call'[d] = call[d]
        BY <1>4, <2>2 DEF IInv
    <3>2. ClientOf[d] # k
        BY <2>2, <3>1, NimAssumption DEF Throttled
    <3> QED BY <1>0, <1>1, <3>1, <3>2 DEF Throttled
  <2> QED BY <2>1, <2>2
<1>5. \A d \in Calls : Retries(d)'
    BY DEF IInv, Retries
<1>6. \A j \in Clients : Ordered(age[j])' /\ Limited(age[j])'
    BY <1>3 DEF Ordered, Limited
<1> QED BY <1>2, <1>4, <1>5, <1>6 DEF IInv

LEMMA EnforceInv == ASSUME IInv, NEW c \in Calls, EnforceRateLimit(c) PROVE IInv'
<1> DEFINE k == ClientOf[c]
           recent == Recent(age[k])
<1>0. /\ k \in Clients /\ call \in [Calls -> Call] /\ call[c].pc = "limit"
      /\ age \in [Clients -> Seq(0..Window)] /\ lock \in [Clients -> Calls \cup {None}]
      /\ lock[k] = None
    BY NimAssumption DEF IInv, TypeOK, EnforceRateLimit
<1>1. Window \in Nat /\ Rpm \in Nat /\ Rpm > 0 /\ TimeoutSeconds \in Nat
    BY NimAssumption
<1>2. /\ recent \in Seq(0..Window) /\ Ordered(recent) /\ Len(recent) <= Rpm
      /\ \A i \in DOMAIN recent : recent[i] < Window
    BY <1>0, RecentFacts DEF IInv
<1>3. /\ Full(recent) =>
           /\ call' = [call EXCEPT ![c].pc = "throttled", ![c].left = Window - recent[1]]
           /\ age' = [age EXCEPT ![k] = recent] /\ lock' = [lock EXCEPT ![k] = c]
      /\ ~Full(recent) =>
           /\ call' = Turn(c, "posting", TimeoutSeconds)
           /\ age' = [age EXCEPT ![k] = Append(recent, 0)] /\ lock' = lock
    BY DEF EnforceRateLimit, Post
<1> HIDE DEF recent
<1>4. Limited(recent)
  <2>1. PICK n \in Nat : n = Len(recent) /\ DOMAIN recent = 1..n
      BY <1>2
  <2> QED BY <1>1, <1>2, <2>1 DEF Limited
<1>5. CASE Full(recent)
  <2> DEFINE left == Window - recent[1]
  <2>1. Len(recent) = Rpm /\ 1 \in DOMAIN recent
    <3>1. PICK n \in Nat : n = Len(recent) /\ DOMAIN recent = 1..n
        BY <1>2
    <3> QED BY <1>1, <1>2, <1>5, <3>1 DEF Full
  <2>2. left \in Nat /\ left + recent[1] >= Window
    <3>1. recent[1] \in 0..Window /\ recent[1] < Window
        BY <1>1, <1>2, <2>1
    <3> QED BY <1>1, <3>1
  <2>3. call' = [call EXCEPT ![c].pc = "throttled", ![c].left = left]
      BY <1>3, <1>5
  <2> HIDE DEF left
  <2> DEFINE r == [[call[c] EXCEPT !.pc = "throttled"] EXCEPT !.left = left]
  <2>6. call[c] \in Call
      BY <1>0
  <2>7. r \in Call
    <3>1. [call[c] EXCEPT !.pc = "throttled"] \in Call
        BY <2>6, CallUpdates DEF PCs
    <3> QED BY <2>2, <3>1, CallUpdates
  <2>8. r.pc = "throttled" /\ r.left = left /\ r.cause = call[c].cause
      BY <2>6 DEF Call
  <2>9. call' = [call EXCEPT ![c] = r]
      BY <1>0, <2>3, <2>6 DEF Call
  <2> HIDE DEF r
  <2>4. /\ call' \in [Calls -> Call] /\ \A d \in Calls : d # c => call'[d] = call[d]
        /\ call'[c].pc = "throttled" /\ call'[c].left = left
        /\ call'[c].cause = call[c].cause
      BY <1>0, <2>7, <2>8, <2>9
  <2>5. Retries(c)'
      BY <1>0, <2>4 DEF IInv, Retries
  <2> QED BY <1>0, <1>2, <1>3, <1>4, <1>5, <2>1, <2>2, <2>4, <2>5, LimiterStep
<1>6. CASE ~Full(recent)
  <2>1. Len(recent) # Rpm
      BY <1>2, <1>6 DEF Full
  <2>2. /\ Append(recent, 0) \in Seq(0..Window)
        /\ Ordered(Append(recent, 0)) /\ Limited(Append(recent, 0))
      BY <1>2, <1>4, <2>1, AppendNow
  <2>3. /\ call' \in [Calls -> Call] /\ \A d \in Calls : d # c => call'[d] = call[d]
        /\ call'[c].pc = "posting" /\ call'[c].cause = call[c].cause
      BY <1>0, <1>1, <1>3, <1>6, TurnFacts DEF PCs
  <2>4. Retries(c)'
      BY <1>0, <2>3 DEF IInv, Retries
  <2>5. lock' = [lock EXCEPT ![k] = None]
      BY <1>0, <1>3, <1>6
  <2> QED BY <1>0, <1>3, <1>6, <2>2, <2>3, <2>4, <2>5, LimiterStep
<1> QED BY <1>5, <1>6

\* When the sleep is over, the oldest timestamp has left the window.
LEMMA AdmitInv == ASSUME IInv, NEW c \in Calls, Admit(c) PROVE IInv'
<1> DEFINE k == ClientOf[c]
           a == age[k]
<1>0. /\ k \in Clients /\ call \in [Calls -> Call] /\ call[c].pc = "throttled"
      /\ age \in [Clients -> Seq(0..Window)] /\ lock \in [Clients -> Calls \cup {None}]
      /\ call' = Turn(c, "posting", TimeoutSeconds) /\ call[c].left = 0
      /\ age' = [age EXCEPT ![k] = Append(a, 0)] /\ lock' = [lock EXCEPT ![k] = None]
    BY NimAssumption DEF IInv, TypeOK, Admit, Post
<1>1. Window \in Nat /\ Rpm \in Nat /\ Rpm > 0 /\ TimeoutSeconds \in Nat
    BY NimAssumption
<1>2. Throttled(c) /\ a \in Seq(0..Window) /\ Ordered(a) /\ Limited(a)
    BY <1>0 DEF IInv
<1> HIDE DEF a
<1>3. lock[k] = c /\ Len(a) = Rpm /\ 0 + a[1] >= Window
    BY <1>0, <1>2 DEF Throttled, a
<1>4. a[1] = Window
  <2>1. a[1] \in 0..Window
      BY <1>1, <1>2, <1>3
  <2> QED BY <1>1, <1>3, <2>1
<1>5. /\ Append(a, 0) \in Seq(0..Window) /\ Ordered(Append(a, 0)) /\ Limited(Append(a, 0))
  <2>1. Len(a) <= Rpm
      BY <1>1, <1>3
  <2> QED BY <1>2, <1>4, <2>1, AppendNow
<1>6. /\ call' \in [Calls -> Call] /\ \A d \in Calls : d # c => call'[d] = call[d]
      /\ call'[c].pc = "posting" /\ call'[c].cause = call[c].cause
    BY <1>0, <1>1, TurnFacts DEF PCs
<1>7. Retries(c)'
    BY <1>0, <1>6 DEF IInv, Retries
<1> QED BY <1>0, <1>3, <1>5, <1>6, <1>7, LimiterStep

\* A second makes every timestamp older, up to the window, and every sleep shorter.
LEMMA TickInv == ASSUME IInv, Tick PROVE IInv'
<1>0. /\ call \in [Calls -> Call] /\ age \in [Clients -> Seq(0..Window)]
      /\ \A c \in Calls : ClientOf[c] \in Clients /\ call[c] \in Call /\ call[c].left \in Nat
      /\ Window \in Nat /\ Rpm \in Nat /\ Rpm > 0
    BY CallFields, NimAssumption DEF IInv, TypeOK
<1> DEFINE less(n) == IF n = 0 THEN 0 ELSE n - 1
           older(x) == Min2(x + 1, Window)
<1>1. ASSUME NEW c \in Calls
      PROVE  /\ call'[c] \in Call /\ call'[c].pc = call[c].pc
             /\ call'[c].attempt = call[c].attempt /\ call'[c].cause = call[c].cause
             /\ call'[c].left = less(call[c].left)
  <2>1. call'[c] = [call[c] EXCEPT !.left = less(call[c].left)]
      BY <1>0 DEF Tick, Call
  <2>2. less(call[c].left) \in Nat
      BY <1>0
  <2> HIDE DEF less
  <2>3. call'[c] \in Call
      BY <1>0, <2>1, <2>2, CallUpdates
  <2> QED BY <1>0, <2>1, <2>3 DEF Call
<1>2. ASSUME NEW k \in Clients
      PROVE  /\ age'[k] \in Seq(0..Window) /\ Len(age'[k]) = Len(age[k])
             /\ DOMAIN age'[k] = DOMAIN age[k]
             /\ \A i \in DOMAIN age[k] : age'[k][i] = older(age[k][i]) /\ age[k][i] \in 0..Window
  <2>1. PICK n \in Nat : n = Len(age[k]) /\ DOMAIN age[k] = 1..n
      BY <1>0
  <2>2. \A i \in 1..n : age[k][i] \in 0..Window
      BY <1>0, <2>1
  <2>3. \A x \in 0..Window : older(x) \in 0..Window
      BY <1>0 DEF Min2
  <2>4. age'[k] = [i \in 1..n |-> older(age[k][i])]
      BY <2>1 DEF Tick
  <2> HIDE DEF older
  <2>5. age'[k] \in [1..n -> 0..Window]
      BY <2>2, <2>3, <2>4
  <2> QED BY <2>1, <2>2, <2>4, <2>5
<1>3. TypeOK'
  <2>1. call' \in [Calls -> Call]
    <3>1. call' = [c \in Calls |-> call'[c]]
        BY DEF Tick
    <3> QED BY <1>1, <3>1
  <2>2. age' \in [Clients -> Seq(0..Window)]
    <3>1. age' = [k \in Clients |-> age'[k]]
        BY DEF Tick
    <3> QED BY <1>2, <3>1
  <2> QED BY <2>1, <2>2 DEF IInv, TypeOK, Tick
<1>4. ASSUME NEW k \in Clients PROVE Ordered(age'[k]) /\ Limited(age'[k])
  <2>1. \A x, y \in 0..Window : x <= y => older(x) <= older(y)
      BY <1>0 DEF Min2
  <2>2. older(Window) = Window
      BY <1>0 DEF Min2
  <2>3. Ordered(age[k]) /\ Limited(age[k])
      BY DEF IInv
  <2> HIDE DEF older
  <2>4. Ordered(age'[k])
      BY <1>2, <2>1, <2>3 DEF Ordered
  <2>5. Limited(age'[k])
      BY <1>2, <2>2, <2>3 DEF Limited
  <2> QED BY <2>4, <2>5
<1>5. ASSUME NEW c \in Calls, call'[c].pc = "throttled" PROVE Throttled(c)'
  <2> DEFINE k == ClientOf[c]
  <2>1. Throttled(c) /\ k \in Clients
      BY <1>0, <1>1, <1>5 DEF IInv
  <2>2. 1 \in DOMAIN age[k]
      BY <1>0, <2>1 DEF Throttled
  <2>3. \A n \in Nat, x \in 0..Window : n + x >= Window => less(n) + older(x) >= Window
      BY <1>0 DEF Min2
  <2>4. lock' = lock
      BY DEF Tick
  <2> HIDE DEF less, older
  <2>5. call'[c].left + age'[k][1] >= Window
      BY <1>0, <1>1, <1>2, <2>1, <2>2, <2>3 DEF Throttled
  <2> QED BY <1>2, <2>1, <2>4, <2>5 DEF Throttled
<1>6. \A c \in Calls : Retries(c)'
    BY <1>1 DEF IInv, Retries
<1>7. \A k \in Clients : Ordered(age[k])' /\ Limited(age[k])'
    BY <1>4 DEF Ordered, Limited
<1> QED BY <1>3, <1>5, <1>6, <1>7 DEF IInv

--------------------------------------------------------------------------------
(* Theorems *)

LEMMA NextInv == IInv /\ [Next]_vars => IInv'
<1> SUFFICES ASSUME IInv, [Next]_vars PROVE IInv'
    OBVIOUS
<1>1. CASE UNCHANGED vars
    BY <1>1 DEF vars, IInv, TypeOK, Ordered, Limited, Throttled, Retries
<1> QED
    BY <1>1, TickInv, GenerateInv, EnforceInv, AdmitInv, RetryInv, PieceInv, BadSchemaInv,
       EndsInv, TransientInv DEF Next, Answered, Driven

\* The limiters' timestamps and the calls asleep in them satisfy IInv for ever.
THEOREM InductiveInvariant == Spec => []IInv
BY InitInv, NextInv, PTL DEF Spec

\* The calls and the limiters keep their types.
THEOREM TypeCorrect == Spec => []TypeOK
<1>1. IInv => TypeOK
    BY DEF IInv
<1> QED BY <1>1, InductiveInvariant, PTL

\* _enforce_rate_limit never lets Rpm + 1 requests of a client into one window,
\* however many coroutines wait in it and however late they wake.
THEOREM NeverAboveRate == Spec => []RateLimited
<1>1. IInv => RateLimited
    BY DEF IInv, Limited, RateLimited
<1> QED BY <1>1, InductiveInvariant, PTL

\* A transient error reaches the caller only after every retry of its round.
THEOREM NoRetryGivenUp == Spec => []AllRetriesUsed
<1>1. IInv => AllRetriesUsed
    BY DEF IInv, Retries, AllRetriesUsed
<1> QED BY <1>1, InductiveInvariant, PTL
================================================================================
