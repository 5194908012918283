------------------------------ MODULE Failover ------------------------------
(***************************************************************************)
(* The provider loop of the endpoints (api/routes/chat.py) around          *)
(* call_provider (providers/router.py), for several requests that share    *)
(* the connection pool of the one httpx client.                            *)
(*                                                                         *)
(* is_available() may answer either way here: RateLimiter says when.  Of   *)
(* the limiter only the failure count that opens a breaker is kept.  A     *)
(* connection is the unit of the pool: it is taken when a request is sent  *)
(* and given back when the answer was read or closed.                      *)
(***************************************************************************)
EXTENDS Integers, Sequences, FiniteSets, Functions

CONSTANTS
    Requests,       \* the requests that may be in flight at once
    Providers,
    Sick,           \* those that may answer anything or nothing
    Orders,         \* the lists sorted_pairs() may return
    Endpoint,       \* per request: "chat", or "messages" for /v1/messages
                    \* and /v1/responses
    Streams,        \* the values of "stream" in request bodies
    PoolSize,       \* max_connections
    MaxAttempts,    \* the 3 of call_provider's loop
    FailThresh      \* _FAILURE_THRESH

ASSUME FailoverConstants ==
    /\ IsFiniteSet(Requests)
    /\ Sick \subseteq Providers
    /\ "none" \notin Providers
    /\ Orders \subseteq Seq(Providers)
    /\ \A o \in Orders : IsInjective(o)
    /\ Endpoint \in [Requests -> {"chat", "messages"}]
    /\ Streams \subseteq BOOLEAN
    /\ PoolSize \in Nat \ {0}
    /\ MaxAttempts \in Nat \ {0}
    /\ FailThresh \in Nat \ {0}

VARIABLES
    job,        \* what a request asks for, and the providers it may use
    stage,      \* where its task is suspended, "idle" when there is none
    pos,        \* the loop variable of the endpoint: a position in its order
    attempt,    \* the loop variable of call_provider
    reply,      \* what the client was told last
    leaked,     \* connections nobody will ever give back
    failures    \* per provider: failures recorded since the last success

vars == <<job, stage, pos, attempt, reply, leaked, failures>>

Jobs == [stream : Streams, order : Orders]

Stages == {"idle", "ask", "connect", "sent", "backoff", "preview", "relay"}

(* "error as 200" is the upstream's error under a status of 200; "500" is  *)
(* an exception of call_provider, the HTTPException(400) of assert_safe()  *)
(* included; "bad answer" a 500 as well, from the code that reads or       *)
(* translates what call_provider returned.                                 *)
Replies == {"200", "error as 200", "500", "bad answer", "502", "503"}

TypeOK ==
    /\ job \in [Requests -> Jobs]
    /\ stage \in [Requests -> Stages]
    /\ pos \in [Requests -> Nat \ {0}]
    /\ attempt \in [Requests -> 0 .. MaxAttempts - 1]
    /\ reply \in [Requests -> Replies]
    /\ leaked \in 0 .. PoolSize
    /\ failures \in [Providers -> 0 .. FailThresh]

(* Nothing is in flight; what was asked and told before does not matter *)
Init ==
    /\ job \in [Requests -> Jobs]
    /\ stage = [r \in Requests |-> "idle"]
    /\ pos = [r \in Requests |-> 1]
    /\ attempt = [r \in Requests |-> 0]
    /\ reply = [r \in Requests |-> "503"]
    /\ leaked = 0
    /\ failures = [p \in Providers |-> 0]

Asked(r) == job[r].order[pos[r]]

Holding == {r \in Requests : stage[r] \in {"sent", "preview", "relay"}}

Used == Cardinality(Holding) + leaked

-----------------------------------------------------------------------------
(* Steps that several outcomes have in common *)

Goto(r, s) == stage' = [stage EXCEPT ![r] = s]

(* The endpoint returns, and with it the variables of its loops are gone *)
Returns(r, s, status) ==
    /\ Goto(r, s)
    /\ reply' = [reply EXCEPT ![r] = status]
    /\ attempt' = [attempt EXCEPT ![r] = 0]
    /\ pos' = [pos EXCEPT ![r] = 1]

Told(r, status) == Returns(r, "idle", status)

(* "continue" in the endpoint's loop, and the 503 behind it *)
NextProvider(r) ==
    \/ /\ pos[r] < Len(job[r].order)
       /\ Goto(r, "ask")
       /\ pos' = [pos EXCEPT ![r] = @ + 1]
       /\ attempt' = [attempt EXCEPT ![r] = 0]
       /\ UNCHANGED reply
    \/ /\ pos[r] = Len(job[r].order)
       /\ Told(r, "503")

\* faulty: one attempt too many, which TypeOK would reveal
OneMoreAttempt(r) ==
    /\ attempt[r] <= MaxAttempts - 1
    /\ Goto(r, "backoff")
    /\ UNCHANGED <<pos, attempt, reply>>

(* "continue" in call_provider's loop, and the return behind it *)
NextAttempt(r) ==
    \/ /\ attempt[r] < MaxAttempts - 1
       /\ Goto(r, "backoff")
       /\ UNCHANGED <<pos, attempt, reply>>
    \/ /\ attempt[r] = MaxAttempts - 1
       /\ NextProvider(r)

RecordFailure(p) ==
    failures' = [failures EXCEPT ![p] = IF @ < FailThresh THEN @ + 1 ELSE @]

RecordSuccess(p) == failures' = [failures EXCEPT ![p] = 0]

(* An answer that call_provider drops: read to the end by client.post(),   *)
(* but left open when it was sent with stream=True.                        *)
DropAnswer(r) == leaked' = leaked + (IF job[r].stream THEN 1 ELSE 0)

-----------------------------------------------------------------------------
(* The endpoint asks *)

Begin(r, j) ==
    /\ stage[r] = "idle"
    /\ job' = [job EXCEPT ![r] = j]
    /\ pos' = [pos EXCEPT ![r] = 1]
    /\ IF j.order = <<>>
       THEN reply' = [reply EXCEPT ![r] = "503"] /\ UNCHANGED stage
       ELSE Goto(r, "ask") /\ UNCHANGED reply
    /\ UNCHANGED <<attempt, leaked, failures>>

(* Not available, or no model of the provider fits the request and its key *)
PassOver(r) ==
    /\ stage[r] = "ask"
    /\ NextProvider(r)
    /\ UNCHANGED <<job, leaked, failures>>

Call(r) ==
    /\ stage[r] = "ask"
    /\ Goto(r, "connect")
    /\ UNCHANGED <<job, pos, attempt, reply, leaked, failures>>

\* faulty: no endpoint handles it, which KeepsPromise would reveal
NobodyHandles(r) ==
    /\ stage[r] \in {"connect", "sent"} /\ Asked(r) \in Sick
    /\ Told(r, "500")
    /\ UNCHANGED <<job, leaked, failures>>

(* An exception call_provider does not handle: assert_safe() refuses the   *)
(* URL, or the exchange ends in an error that is neither a timeout nor a   *)
(* connect or read error.  /v1/chat/completions does not handle it either. *)
Raise(r) ==
    /\ stage[r] \in {"connect", "sent"} /\ Asked(r) \in Sick
    /\ \/ Endpoint[r] = "chat" /\ Told(r, "500")
       \/ Endpoint[r] = "messages" /\ NextProvider(r)
    /\ UNCHANGED <<job, leaked, failures>>

-----------------------------------------------------------------------------
(* The connection pool *)

Connect(r) ==
    /\ stage[r] = "connect"
    /\ Used < PoolSize
    /\ Goto(r, "sent")
    /\ UNCHANGED <<job, pos, attempt, reply, leaked, failures>>

\* faulty: waiting for the pool has no timeout, which EveryRequestAnswered
\* would reveal
WaitsForPool(r) == FALSE

(* httpx.PoolTimeout is a TimeoutException *)
PoolTimeout(r) ==
    /\ stage[r] = "connect"
    /\ Used >= PoolSize
    /\ RecordFailure(Asked(r))
    /\ NextAttempt(r)
    /\ UNCHANGED <<job, leaked>>

-----------------------------------------------------------------------------
(* What a sick provider does to call_provider *)

\* faulty: recorded after the loop has gone on, so for the provider asked
\* next, which ChargedOnlyWhenFull would reveal
ChargesNext(r) ==
    /\ stage[r] = "sent" /\ Asked(r) \in Sick
    /\ NextAttempt(r)
    /\ RecordFailure(job[r].order[pos'[r]])
    /\ UNCHANGED <<job, leaked>>

NoAnswer(r) ==
    /\ stage[r] = "sent" /\ Asked(r) \in Sick
    /\ RecordFailure(Asked(r))
    /\ NextAttempt(r)
    /\ UNCHANGED <<job, leaked>>

ServerError(r) ==
    /\ stage[r] = "sent" /\ Asked(r) \in Sick
    /\ DropAnswer(r)
    /\ RecordFailure(Asked(r))
    /\ NextAttempt(r)
    /\ UNCHANGED job

(* 429 is no failure, 402 and 403 are *)
TurnedAway(r) ==
    /\ stage[r] = "sent" /\ Asked(r) \in Sick
    /\ DropAnswer(r)
    /\ RecordFailure(Asked(r)) \/ UNCHANGED failures
    /\ NextProvider(r)
    /\ UNCHANGED job

\* faulty: the attempt is not counted, which StepsRunOut would reveal
RetriesForEver(r) ==
    /\ stage[r] = "backoff"
    /\ Goto(r, "connect")
    /\ UNCHANGED <<job, pos, attempt, reply, leaked, failures>>

Retry(r) ==
    /\ stage[r] = "backoff"
    /\ Goto(r, "connect")
    /\ attempt' = [attempt EXCEPT ![r] = @ + 1]
    /\ UNCHANGED <<job, pos, reply, leaked, failures>>

-----------------------------------------------------------------------------
(* Answers call_provider returns, all of them recorded as a success *)

(* To the client at once or, streamed, as the upstream produces it *)
PassOn(r, status) ==
    \/ job[r].stream /\ Returns(r, "relay", status)
    \/ ~job[r].stream /\ Told(r, status)

Good(r) ==
    /\ stage[r] = "sent"
    /\ RecordSuccess(Asked(r))
    /\ PassOn(r, "200")
    /\ UNCHANGED <<job, leaked>>

(* A body that is not a JSON object is told; one whose usage is null, or   *)
(* whose tool arguments are not JSON, the code behind trips over, outside  *)
(* of any try.                                                             *)
Garbage(r) ==
    /\ stage[r] = "sent" /\ Asked(r) \in Sick /\ ~job[r].stream
    /\ RecordSuccess(Asked(r))
    /\ Told(r, "502") \/ Told(r, "bad answer")
    /\ UNCHANGED <<job, leaked>>

(* The first 300 bytes of an error answer go into the detail of a 502; of  *)
(* a streamed one the body is still to be read.                            *)
Preview(r) ==
    \/ /\ job[r].stream
       /\ Goto(r, "preview")
       /\ UNCHANGED <<pos, attempt, reply>>
    \/ ~job[r].stream /\ Told(r, "502")

(* 404 from any provider that does not know the model *)
NotFound(r) ==
    /\ stage[r] = "sent"
    /\ RecordSuccess(Asked(r))
    /\ \/ Endpoint[r] = "chat" /\ NextProvider(r)
       \/ Endpoint[r] = "messages" /\ Preview(r)
    /\ UNCHANGED <<job, leaked>>

(* 400, 401, 422, ... from any provider that dislikes the request *)
ClientError(r) ==
    /\ stage[r] = "sent"
    /\ RecordSuccess(Asked(r))
    /\ \/ Endpoint[r] = "chat" /\ PassOn(r, "error as 200")
       \/ Endpoint[r] = "messages" /\ Preview(r)
    /\ UNCHANGED <<job, leaked>>

(* aread() closes the answer either way; no try is around it *)
PreviewEnds(r) ==
    /\ stage[r] = "preview"
    /\ \/ Told(r, "502")
       \/ Asked(r) \in Sick /\ Told(r, "bad answer")
    /\ UNCHANGED <<job, leaked, failures>>

(* The upstream ends the stream, or the client leaves *)
RelayEnds(r) ==
    /\ stage[r] = "relay"
    /\ Goto(r, "idle")
    /\ UNCHANGED <<job, pos, attempt, reply, leaked, failures>>

-----------------------------------------------------------------------------

Asks(r) == PassOver(r) \/ Call(r)

Connects(r) == Connect(r) \/ PoolTimeout(r)

Ends(r) ==
    \/ Raise(r) \/ NoAnswer(r) \/ ServerError(r) \/ TurnedAway(r)
    \/ Good(r) \/ Garbage(r) \/ NotFound(r) \/ ClientError(r) \/ PreviewEnds(r)

Next ==
    \E r \in Requests :
        \/ \E j \in Jobs : Begin(r, j)
        \/ Asks(r) \/ Connects(r) \/ Ends(r) \/ Retry(r) \/ RelayEnds(r)

Spec == Init /\ [][Next]_vars

(* The loop runs, waiting for the pool and for upstreams has a timeout,    *)
(* and a sleep ends.  A stream may go on for ever.                         *)
FairSpec ==
    /\ Spec
    /\ \A r \in Requests :
          /\ WF_vars(Asks(r)) /\ WF_vars(Connects(r)) /\ WF_vars(Retry(r))
          /\ WF_vars(stage[r] \in {"sent", "preview"} /\ Ends(r))

-----------------------------------------------------------------------------
(* Properties *)

(* A provider that always answers in time keeps a closed breaker, whatever *)
(* the other providers do.  A streamed error answer is never closed, and   *)
(* once enough of them fill the pool, each request to a healthy provider   *)
(* times out waiting for a connection and counts as its failure.           *)
HealthyStaysClosed == \A p \in Providers \ Sick : failures[p] < FailThresh

(* Nothing else charges one with what another did: each of its failures is *)
(* recorded by a request that waits for a connection to that very provider *)
(* while every connection of the pool has leaked or is held by a request.  *)
ChargedOnlyWhenFull ==
    [][\A p \in Providers \ Sick : failures'[p] > failures[p] =>
          /\ Cardinality(Holding) + leaked = PoolSize
          /\ \E r \in Requests : stage[r] = "connect" /\ Asked(r) = p]_vars

(* Every request is answered, or its answer has begun to stream, even when *)
(* the last connection has leaked or all of them stream for ever.          *)
Answered(r) == stage[r] \in {"idle", "relay"}

EveryRequestAnswered == \A r \in Requests : ~Answered(r) ~> Answered(r)

(* The two loops, one in the other, take at most 4 * MaxAttempts steps for *)
(* each provider of the order, whatever the providers do and however full  *)
(* the pool is: every step of a request that is not answered leaves fewer. *)
StepsLeft(r) ==
    LET attempts == (Len(job[r].order) - pos[r]) * MaxAttempts + MaxAttempts - 1 - attempt[r]
    IN  CASE stage[r] = "ask" -> 4 * attempts + 4
          [] stage[r] = "connect" -> 4 * attempts + 3
          [] stage[r] = "sent" -> 4 * attempts + 2
          [] stage[r] \in {"backoff", "preview"} -> 4 * attempts + 1
          [] Answered(r) -> 0

StepsRunOut ==
    [][\A r \in Requests :
          ~Answered(r) =>
              \/ UNCHANGED <<job[r], stage[r], pos[r], attempt[r]>>
              \/ StepsLeft(r)' < StepsLeft(r)]_vars

(* The loops keep the promise of Fallback, whichever way call_provider     *)
(* ends: no provider is asked again, none is skipped, and 503 means that   *)
(* none was left.  What a provider answers ends a request at any endpoint, *)
(* even if the gateway cannot use it; a call that fails without an answer  *)
(* ends one at /v1/chat/completions only, the others go on.                *)
Behind(r) == {job[r].order[i] : i \in pos[r] + 1 .. Len(job[r].order)}

Left(r) ==
    CASE Answered(r) -> {}
      [] stage[r] = "ask" -> {Asked(r)} \cup Behind(r)
      [] OTHER -> Behind(r)

Using(r) == IF Answered(r) \/ stage[r] = "ask" THEN "none" ELSE Asked(r)

Outcome(r) ==
    IF ~Answered(r)
    THEN "pending"
    ELSE CASE reply[r] = "503" -> "exhausted"
           [] reply[r] = "500" -> "abandoned"
           [] OTHER -> "answered"

Promise == INSTANCE Fallback WITH
    None <- "none",
    MayAbandon <- {r \in Requests : Endpoint[r] = "chat"},
    left <- [r \in Requests |-> Left(r)],
    using <- [r \in Requests |-> Using(r)],
    outcome <- [r \in Requests |-> Outcome(r)]

KeepsPromise == Promise!FallbackSpec

=============================================================================
