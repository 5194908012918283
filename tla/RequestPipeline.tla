--------------------------- MODULE RequestPipeline ---------------------------
(***************************************************************************)
(* A request on its way through the gateway: the middleware                *)
(* (api/middleware.py), _authenticate() and the three endpoints of         *)
(* api/routes/chat.py, with the nonce registry (security/nonce.py), the    *)
(* cost (cost/tracker.py) and the transparency log (transparency/log.py).  *)
(* One virtual key is used; its RPM window is SlidingWindow.  JWKS_URI is  *)
(* not set: Gateway has the key sets.  Which provider is asked is in       *)
(* Routing, how its answer comes about in Failover.                        *)
(*                                                                         *)
(* A handler can be overtaken where it waits: for the body, and for the    *)
(* providers.  From the body to the first provider nothing waits, nor from *)
(* the last answer to the reply, so each of these is one step.  Redis      *)
(* never reaches the registry the endpoints use (init_redis() is called on *)
(* another instance of the module): the local table is the one that counts.*)
(***************************************************************************)
EXTENDS SlidingWindow

CONSTANTS
    Requests,
    Forms,      \* the requests clients send
    Nonces,     \* the well-formed nonces
    Malformed,  \* stands for one _NONCE_RE does not match
    None,       \* no nonce, or nothing sent yet
    MasterKey,  \* whether CHIMERA_API_KEY is set
    NonceTTL,   \* how long a nonce is remembered: 300 s
    LogCap      \* TRANSPARENCY_LOG_CAP

Credentials == {"none", "virtual", "master", "other"}

Form == [endpoint: {"chat", "messages", "responses"}, credential: Credentials,
         nonce: Nonces \cup {Malformed, None}, stream: BOOLEAN,
         encrypt: BOOLEAN, key: {"none", "good", "bad"}]

ASSUME PipelineConstants ==
    /\ Forms \subseteq Form
    /\ MasterKey \in BOOLEAN
    /\ NonceTTL \in Nat \ {0}
    /\ LogCap \in Nat \ {0}
    /\ None \notin Nonces \cup Forms /\ Malformed \notin Nonces

VARIABLES
    stage,      \* how far each request is
    form,       \* what was sent
    answer,     \* what its client was told
    expiry,     \* _LOCAL: until when a nonce is remembered, 0 if it is not
    accepted,   \* when each request had its nonce registered, -1 if never
    entry,      \* the number of its entry in the log, 0 if it has none
    log,        \* _LOG, as the requests it tells of
    seq,        \* _SEQ
    spent       \* how often record() added to the cost

table == <<expiry, accepted>>
books == <<entry, log, seq, spent>>
pipelineVars == <<stage, form, answer, table, books>>
allVars == <<vars, pipelineVars>>

\* A request of an earlier run of the process is "past".  "refused" is a 4xx,
\* "failed" a 500, 502 or 503, "timeout" the middleware's 504.
Stages == {"new", "reading", "direct", "calling", "done", "past"}
Statuses == {"waiting", "ok", "refused", "failed", "timeout"}

PipelineTypeOK ==
    /\ TypeOK
    /\ stage \in [Requests -> Stages]
    /\ form \in [Requests -> Forms \cup {None}]
    /\ answer \in [Requests -> Statuses]
    /\ expiry \in [Nonces -> 0 .. Horizon + NonceTTL]
    /\ accepted \in [Requests -> -1 .. Horizon]
    /\ seq \in Nat /\ spent \in Nat
    /\ entry \in [Requests -> 0 .. seq]
    /\ log \in Seq(Requests) /\ Len(log) <= LogCap

PipelineInit ==
    /\ Init
    /\ stage = [r \in Requests |-> "new"]
    /\ form = [r \in Requests |-> None]
    /\ answer = [r \in Requests |-> "waiting"]
    /\ expiry = [n \in Nonces |-> 0]
    /\ accepted = [r \in Requests |-> -1]
    /\ entry = [r \in Requests |-> 0]
    /\ log = <<>> /\ seq = 0 /\ spent = 0

-----------------------------------------------------------------------------
(* A reply ends the handler; nobody reads it after the 504.                *)

Reply(r, status) ==
    /\ stage' = [stage EXCEPT ![r] = "done"]
    /\ answer' = [answer EXCEPT ![r] = IF @ = "waiting" THEN status ELSE @]
    /\ UNCHANGED form

GoesTo(r, next) == stage' = [stage EXCEPT ![r] = next] /\ UNCHANGED <<answer, form>>

(* The middleware: path 400, address and burst 429, Content-Length 413;    *)
(* count_tokens adds nothing to it but the parsing of the body.            *)
TurnAway(r) ==
    /\ stage[r] = "new"
    /\ Reply(r, "refused")
    /\ UNCHANGED <<vars, table, books>>

CountTokens(r) ==
    /\ stage[r] = "new"
    /\ \E status \in {"ok", "refused", "failed"} : Reply(r, status)
    /\ UNCHANGED <<vars, table, books>>

(* _authenticate(): the virtual key's own window comes before its request  *)
(* is known to make sense, so a request refused later has been counted.    *)
Enter(r, f, next, status) ==
    /\ stage[r] = "new"
    /\ stage' = [stage EXCEPT ![r] = next]
    /\ form' = [form EXCEPT ![r] = f]
    /\ answer' = [answer EXCEPT ![r] = status]
    /\ UNCHANGED <<table, books>>

Authenticated(r) == \E f \in Forms :
    /\ f.credential # "virtual"
    /\ f.credential = "master" \/ ~MasterKey
    /\ Enter(r, f, "reading", "waiting")
    /\ UNCHANGED vars

Unauthenticated(r) == \E f \in Forms :
    /\ f.credential \in {"none", "other"} /\ MasterKey
    /\ Enter(r, f, "done", "refused")
    /\ UNCHANGED vars

KeyAdmitted(r) == \E f \in Forms :
    /\ f.credential = "virtual"
    /\ Admit \/ Unlimited
    /\ Enter(r, f, "reading", "waiting")

KeyRefused(r) == \E f \in Forms :
    /\ f.credential = "virtual"
    /\ Refuse
    /\ Enter(r, f, "done", "refused")

-----------------------------------------------------------------------------
(* From the body to the providers                                          *)

\* faulty: forgets a nonce at its expiry, which NonceOnce would reveal
ForgetsAtExpiry(n) == expiry[n] <= now

\* faulty: nothing is evicted, which Honest409 would reveal
NeverForgets(n) == expiry[n] = 0

Forgotten(n) == expiry[n] < now

(* register(): evicts what has expired, then looks and inserts.            *)
Fresh(n) == n \in Nonces /\ (expiry[n] = 0 \/ Forgotten(n))

Evicted == [n \in Nonces |-> IF Forgotten(n) THEN 0 ELSE expiry[n]]

Register(r) ==
    IF form[r].endpoint = "chat" /\ form[r].nonce # None
    THEN /\ Fresh(form[r].nonce)
         /\ expiry' = [Evicted EXCEPT ![form[r].nonce] = now + NonceTTL]
         /\ accepted' = [accepted EXCEPT ![r] = now]
    ELSE UNCHANGED table

(* Size, JSON, messages, WAF, shield, policy and canary, in the order in   *)
(* which their refusals come: all before the nonce.                        *)
Reject(r) ==
    /\ stage[r] = "reading"
    /\ \E status \in {"refused", "failed"} : Reply(r, status)
    /\ UNCHANGED <<vars, table, books>>

(* With a key for Anthropic /v1/messages and /v1/responses hand an         *)
(* anthropic/ model to it right after parsing the body.                    *)
AskAnthropic(r) ==
    /\ stage[r] = "reading"
    /\ form[r].endpoint # "chat"
    /\ GoesTo(r, "direct")
    /\ UNCHANGED <<vars, table, books>>

Replayed(r) ==
    /\ stage[r] = "reading"
    /\ form[r].endpoint = "chat" /\ form[r].nonce # None
    /\ ~Fresh(form[r].nonce)
    /\ expiry' = IF form[r].nonce \in Nonces THEN Evicted ELSE expiry
    /\ Reply(r, "refused")
    /\ UNCHANGED <<vars, accepted, books>>

(* Only chat sees "encrypt" and a bad key: the translation of the other    *)
(* two drops the field, and they take a bad key for none.                  *)
KeyOrStreamFault(f) ==
    /\ f.endpoint = "chat"
    /\ \/ f.encrypt /\ (f.key = "none" \/ f.stream)
       \/ f.key = "bad"

(* 400 for the key, or what Routing says: 403, 500 or 503.                 *)
RefuseLate(r) ==
    /\ stage[r] = "reading"
    /\ Register(r)
    /\ IF KeyOrStreamFault(form[r])
       THEN Reply(r, "refused")
       ELSE \E status \in {"refused", "failed"} : Reply(r, status)
    /\ UNCHANGED <<vars, books>>

CallProviders(r) ==
    /\ stage[r] = "reading"
    /\ Register(r)
    /\ ~KeyOrStreamFault(form[r])
    /\ GoesTo(r, "calling")
    /\ UNCHANGED <<vars, books>>

-----------------------------------------------------------------------------
(* From the last provider's answer to the reply                            *)

\* faulty: the answer is charged before it is known to be a JSON object,
\* which BooksAgree would reveal
ChargesGarbage(r) ==
    /\ stage[r] \in {"direct", "calling"}
    /\ Reply(r, "failed")
    /\ spent' = spent + 1
    /\ UNCHANGED <<vars, table, entry, log, seq>>

(* No provider answered, or not with a JSON object.                        *)
ProvidersFail(r) ==
    /\ stage[r] \in {"direct", "calling"}
    /\ Reply(r, "failed")
    /\ UNCHANGED <<vars, table, books>>

\* faulty: a log without a limit, which PipelineTypeOK would reveal
Uncapped(s) == s

(* deque(maxlen=TRANSPARENCY_LOG_CAP) *)
Capped(s) == IF Len(s) > LogCap THEN Tail(s) ELSE s

Booked(r) ==
    /\ spent' = spent + 1
    /\ seq' = seq + 1
    /\ entry' = [entry EXCEPT ![r] = seq + 1]
    /\ log' = Capped(Append(log, r))

IsBooked(f) == f.endpoint = "chat" /\ ~f.stream

(* Only an unary answer of chat is charged and logged, and this before it  *)
(* is encrypted and written as JSON, which may still fail.                 *)
Complete(r) ==
    /\ stage[r] = "calling" /\ IsBooked(form[r])
    /\ Booked(r)
    /\ Reply(r, "ok") \/ Reply(r, "failed")
    /\ UNCHANGED <<vars, table>>

PassOn(r) ==
    /\ \/ stage[r] = "direct"
       \/ stage[r] = "calling" /\ ~IsBooked(form[r])
    /\ Reply(r, "ok")
    /\ UNCHANGED <<vars, table, books>>

(* wait_for() gives up; whether the handler is cancelled with it is up to  *)
(* the version of Starlette.                                               *)
Timeout(r) ==
    /\ stage[r] \in {"reading", "direct", "calling"}
    /\ answer[r] = "waiting"
    /\ answer' = [answer EXCEPT ![r] = "timeout"]
    /\ stage' \in {stage, [stage EXCEPT ![r] = "done"]}
    /\ UNCHANGED <<vars, form, table, books>>

-----------------------------------------------------------------------------

(* Nonces, window, cost and log are lost with the process, and so are the  *)
(* requests it was handling.  The monotonic clock has no fixed origin: it  *)
(* begins at 0 again.  Now a new limit of the key is read from the file.   *)
Restart ==
    /\ stage' = [r \in Requests |-> IF stage[r] = "new" THEN "new" ELSE "past"]
    /\ form' = [r \in Requests |-> None]
    /\ answer' = [r \in Requests |-> "waiting"]
    /\ expiry' = [n \in Nonces |-> 0]
    /\ accepted' = [r \in Requests |-> -1]
    /\ entry' = [r \in Requests |-> 0]
    /\ log' = <<>> /\ seq' = 0 /\ spent' = 0
    /\ now' = 0 /\ times' = <<>> /\ evicted' = 0
    /\ limit' \in Limits

Step(r) ==
    \/ TurnAway(r) \/ CountTokens(r)
    \/ Authenticated(r) \/ Unauthenticated(r) \/ KeyAdmitted(r) \/ KeyRefused(r)
    \/ Reject(r) \/ AskAnthropic(r) \/ Replayed(r) \/ RefuseLate(r) \/ CallProviders(r)
    \/ ProvidersFail(r) \/ Complete(r) \/ PassOn(r) \/ Timeout(r)

(* The second disjunct: the clock, and requests of the same key that are   *)
(* not followed here.                                                      *)
PipelineNext ==
    \/ \E r \in Requests : Step(r)
    \/ Next /\ UNCHANGED pipelineVars
    \/ Restart

PipelineSpec == PipelineInit /\ [][PipelineNext]_allVars

-----------------------------------------------------------------------------
(* Properties *)

SameNonce(r, s) == form[r] # None /\ form[s] # None /\ form[r].nonce = form[s].nonce

(* While the process lives a nonce takes one request to the providers per  *)
(* NonceTTL, although clients send again after a 504 whose handler is      *)
(* still running, and although entries are only evicted by other requests. *)
NonceOnce ==
    \A r, s \in Requests :
        r # s /\ accepted[r] >= 0 /\ accepted[s] >= accepted[r] /\ SameNonce(r, s) =>
            accepted[s] - accepted[r] > NonceTTL

(* A well-formed nonce is refused only when another request had it         *)
(* registered at most NonceTTL ago.  That request need not have reached a  *)
(* provider: its key, stream or model may have been refused since.         *)
Honest409 ==
    [][\A r \in Requests :
          Replayed(r) /\ form[r].nonce \in Nonces =>
              \E s \in Requests \ {r} :
                  /\ accepted[s] >= 0 /\ SameNonce(r, s)
                  /\ now - accepted[s] <= NonceTTL]_allVars

(* The books agree with each other and with the answers: one charge for    *)
(* each entry, the log holds the last LogCap entries in their order, and a *)
(* unary answer of chat reached its client only after its entry was made.  *)
BooksAgree ==
    /\ spent = seq
    /\ Len(log) = IF seq < LogCap THEN seq ELSE LogCap
    /\ \A i \in 1 .. Len(log) : entry[log[i]] = seq - Len(log) + i
    /\ \A r \in Requests :
          stage[r] = "done" /\ answer[r] = "ok" /\ form[r] # None /\ IsBooked(form[r]) =>
              entry[r] > 0

=============================================================================
