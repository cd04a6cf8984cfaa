------------------------------- MODULE NimClient -------------------------------
(***************************************************************************)
(* NIMClient.generate (generation/nim_client.py) as concurrent coroutines  *)
(* of one event loop run it: the per-client rate limiter, the retries with *)
(* exponential backoff, the second attempt after an answer that fails the  *)
(* schema, and the error each way out raises.                              *)
(*                                                                         *)
(* Time passes in whole seconds.  A timestamp of the limiter is kept as    *)
(* its age, and a sleep or a request's timeout as the seconds left.  A     *)
(* coroutine whose sleep is over may run late (another one may hold the    *)
(* loop).  httpx.Timeout bounds each wait of a request: to connect, to     *)
(* write, and for the next piece of the response.                          *)
(***************************************************************************)
EXTENDS Naturals, Sequences, FiniteSets

CONSTANTS Calls,           \* calls of generate
          Clients,         \* NIMClient instances
          ClientOf,        \* the instance of each call
          Rpm,             \* rate_limit_rpm
          Window,          \* the limiter's 60 seconds
          MaxRetries,      \* max_transient_retries
          TimeoutSeconds,  \* timeout_seconds
          MaxPieces,       \* bound on the waits of a request that end well
          None

ASSUME NimAssumption ==
    /\ ClientOf \in [Calls -> Clients]
    /\ Rpm \in Nat \ {0} /\ Window \in Nat \ {0}
    /\ MaxRetries \in Nat /\ \A n \in 0..MaxRetries : 2 ^ n \in Nat
    /\ TimeoutSeconds \in Nat \ {0} /\ MaxPieces \in Nat
    /\ None \notin Calls

VARIABLES call,   \* the calls' progress
          age,    \* _request_timestamps of each client, as seconds since
          lock    \* the call that holds _lock of each client

vars == <<call, age, lock>>

\* round counts the schema attempts, cause is the answer that ended the call.
Call == [pc : {"idle", "limit", "throttled", "posting", "backoff", "done"},
         round : 1..2, attempt : 0..MaxRetries, left : Nat,
         pieces : 0..MaxPieces,
         result : {"none", "output", "schema", "timeout", "transient",
                   "client", "exception"},
         cause : {"none", "valid", "badSchema", "malformed", "timeout",
                  "transport", "transientStatus", "otherStatus"}]

Init ==
    /\ call = [c \in Calls |->
                 [pc |-> "idle", round |-> 1, attempt |-> 0, left |-> 0,
                  pieces |-> 0, result |-> "none", cause |-> "none"]]
    /\ age = [k \in Clients |-> <<>>]
    /\ lock = [k \in Clients |-> None]

--------------------------------------------------------------------------------
(* The rate limiter *)

Generate(c) ==
    /\ call[c].pc = "idle"
    /\ call' = [call EXCEPT ![c].pc = "limit"]
    /\ UNCHANGED <<age, lock>>

\* The timestamps younger than the window: they are appended as time passes, so
\* the filter keeps the last ones.
FirstRecent(a) ==
    CHOOSE i \in 1..(Len(a) + 1) : \A j \in DOMAIN a : a[j] < Window <=> j >= i
Recent(a) == SubSeq(a, FirstRecent(a), Len(a))

FullAboveLimit(a) == Len(a) > Rpm                                     \* mutant
Full(a) == Len(a) >= Rpm

Turn(c, pc, left) == [call EXCEPT ![c].pc = pc, ![c].left = left, ![c].pieces = 0]

Post(c) == Turn(c, "posting", TimeoutSeconds)

\* The lock is held across the sleep, so the others wait behind it.
EnforceRateLimit(c) ==
    LET k == ClientOf[c]
        recent == Recent(age[k])
    IN  /\ call[c].pc = "limit" /\ lock[k] = None
        /\ IF Full(recent)
           THEN /\ call' = [call EXCEPT ![c].pc = "throttled",
                                        ![c].left = Window - recent[1]]
                /\ age' = [age EXCEPT ![k] = recent]
                /\ lock' = [lock EXCEPT ![k] = c]
           ELSE /\ call' = Post(c)
                /\ age' = [age EXCEPT ![k] = Append(recent, 0)]
                /\ UNCHANGED lock

\* The sleep is over: the request's own timestamp joins the old ones.
Admit(c) ==
    LET k == ClientOf[c]
    IN  /\ call[c].pc = "throttled" /\ call[c].left = 0
        /\ call' = Post(c)
        /\ age' = [age EXCEPT ![k] = Append(age[k], 0)]
        /\ lock' = [lock EXCEPT ![k] = None]

--------------------------------------------------------------------------------
(* The answers *)

Finish(c, result, cause) ==
    /\ call' = [Turn(c, "done", 0) EXCEPT ![c].result = result,
                                          ![c].cause = cause]
    /\ UNCHANGED <<age, lock>>

LastRetryLost(c) == call[c].attempt + 1 < MaxRetries                  \* mutant
OneRetryMore(c) == call[c].attempt <= MaxRetries                      \* mutant
RetryLeft(c) == call[c].attempt < MaxRetries

\* asyncio.sleep(2 ** attempt)
Backoff(c) ==
    /\ call' = Turn(c, "backoff", 2 ^ call[c].attempt)
    /\ UNCHANGED <<age, lock>>

\* A wait of the request is over, the next begins.
Piece(c) ==
    /\ call[c].pc = "posting" /\ call[c].pieces < MaxPieces
    /\ call' = [call EXCEPT ![c].left = TimeoutSeconds, ![c].pieces = @ + 1]
    /\ UNCHANGED <<age, lock>>

Valid(c) == call[c].pc = "posting" /\ Finish(c, "output", "valid")

\* The prompt is sent again once, with all its transient retries.
BadSchema(c) ==
    /\ call[c].pc = "posting"
    /\ IF call[c].round = 1
       THEN /\ call' = [Turn(c, "limit", 0) EXCEPT ![c].round = 2,
                                                   ![c].attempt = 0]
            /\ UNCHANGED <<age, lock>>
       ELSE Finish(c, "schema", "badSchema")

\* The envelope is not JSON or lacks its fields: _parse_response raises.
Malformed(c) == call[c].pc = "posting" /\ Finish(c, "exception", "malformed")

\* After the last retry the code falls through to the non-transient error.
TransientStatus(c) ==
    /\ call[c].pc = "posting"
    /\ IF RetryLeft(c) THEN Backoff(c)
       ELSE Finish(c, "client", "transientStatus")

TransportError(c) ==
    /\ call[c].pc = "posting"
    /\ IF RetryLeft(c) THEN Backoff(c) ELSE Finish(c, "transient", "transport")

OtherStatus(c) == call[c].pc = "posting" /\ Finish(c, "client", "otherStatus")

\* A timeout is not retried.
TimesOut(c) ==
    /\ call[c].pc = "posting" /\ call[c].left = 0
    /\ Finish(c, "timeout", "timeout")

RetrySameAttempt(c) ==                                                \* mutant
    /\ call[c].pc = "backoff" /\ call[c].left = 0
    /\ call' = [call EXCEPT ![c].pc = "limit"]
    /\ UNCHANGED <<age, lock>>

Retry(c) ==
    /\ call[c].pc = "backoff" /\ call[c].left = 0
    /\ call' = [call EXCEPT ![c].pc = "limit", ![c].attempt = @ + 1]
    /\ UNCHANGED <<age, lock>>

--------------------------------------------------------------------------------

Min2(x, y) == IF x < y THEN x ELSE y

Tick ==
    /\ \A c \in Calls : call[c].pc = "posting" => call[c].left > 0
    /\ call' = [c \in Calls |->
                  [call[c] EXCEPT !.left = IF @ = 0 THEN 0 ELSE @ - 1]]
    /\ age' = [k \in Clients |-> [i \in DOMAIN age[k] |->
                                    Min2(age[k][i] + 1, Window)]]
    /\ UNCHANGED lock

Answered(c) ==
    \/ Piece(c) \/ Valid(c) \/ BadSchema(c) \/ Malformed(c) \/ TransientStatus(c)
    \/ TransportError(c) \/ OtherStatus(c)

\* What the event loop and the timeout see to, whatever the API does.
Driven(c) == EnforceRateLimit(c) \/ Admit(c) \/ Retry(c) \/ TimesOut(c)

Next == Tick \/ \E c \in Calls : Generate(c) \/ Answered(c) \/ Driven(c)

Spec == Init /\ [][Next]_vars

\* Time passes and the event loop runs what is ready; the API owes no answer,
\* but a response does not go on for ever.
FairSpec == Spec /\ WF_vars(Tick) /\ \A c \in Calls : WF_vars(Driven(c))

--------------------------------------------------------------------------------
(* Properties *)

\* The calls and the limiters have their types.
TypeOK ==
    /\ call \in [Calls -> Call]
    /\ age \in [Clients -> Seq(0..Window)]
    /\ lock \in [Clients -> Calls \cup {None}]

\* However the calls of a client interleave in its limiter, of any Rpm + 1
\* consecutive requests the first is out of the window when the last is made.
RateLimited ==
    \A k \in Clients : \A i, j \in DOMAIN age[k] :
        j >= i + Rpm => age[k][i] = Window

\* A call that fails for a transient error has used every retry of its round.
AllRetriesUsed ==
    \A c \in Calls : call[c].cause \in {"transport", "transientStatus"} =>
        call[c].attempt = MaxRetries

Active(c) == call[c].pc \notin {"idle", "done"}

\* Every call returns or raises, even when the API never answers: no call is
\* stuck behind the limiter's lock and the retries come to an end.
CallsEnd == \A c \in Calls : Active(c) ~> call[c].pc = "done"
================================================================================
