--------------------------- MODULE AnthropicStream ---------------------------
(***************************************************************************)
(* The translation of a streamed answer of an OpenAI-style provider into   *)
(* the events of /v1/messages: _stream_openai_to_anthropic in              *)
(* api/routes/chat.py, an asynchronous generator.  It reads lines as they  *)
(* arrive in chunks cut anywhere, and is suspended at each event it yields *)
(* until the client took it; the client may leave at any of them.          *)
(*                                                                         *)
(* The provider is external.  It follows the order of OpenAI's streams: a  *)
(* role, contents or tool calls, a finish reason, and [DONE], with lines   *)
(* that say nothing in between; but it may break off anywhere.             *)
(***************************************************************************)
EXTENDS Sequences, Naturals, FiniteSets

CONSTANTS
    Texts,      \* pieces of text a provider can send
    NoText,     \* the content of a chunk without text
    Garbled,    \* a piece in which a character was cut and replaced
    MaxTools,   \* bounds the tool calls of one chunk
    MaxLines    \* bounds the lines of an answer

ASSUME TextsAssumption == NoText # Garbled /\ {NoText, Garbled} \cap Texts = {}

ASSUME BoundsAssumption == MaxTools \in Nat /\ MaxLines \in Nat

VARIABLES
    upstream,       \* how far the provider's answer is: "body", "finished", "done"
    lines,          \* how many lines it has begun
    buf,            \* buf: the line of which a part has arrived, or NoLine
    spoken,         \* the texts that arrived, but for those beside tool calls
    msgSent,        \* msg_sent
    blockStarted,   \* block_started
    toolStarted,    \* tool_block_started
    phase,          \* "reading", "closing" (in finally), "ended", or "left" by the client
    out,            \* the events of the current line still to be yielded
    got             \* the events the client has taken

upstreamVars == <<upstream, lines>>
flags == <<msgSent, blockStarted, toolStarted>>
vars == <<upstreamVars, buf, spoken, flags, phase, out, got>>

-----------------------------------------------------------------------------
(* What the provider sends, and the events *)

NoLine == [kind |-> "none"]
Silent == [kind |-> "silent"]   \* a comment, no JSON, or no choices
Done == [kind |-> "done"]

Chunk(role, text, tools, finish) ==
    [kind |-> "chunk", role |-> role, text |-> text, tools |-> tools, finish |-> finish]

(* A chunk may have text, tool calls, both or neither *)
Contents == (Texts \cup {NoText}) \X (0..MaxTools)

Chunks == {Chunk(role, c[1], c[2], finish) : role \in BOOLEAN, c \in Contents, finish \in BOOLEAN}

Event(type, block, text) == [type |-> type, block |-> block, text |-> text]

MessageStart == Event("message_start", "none", NoText)
BlockStart(block) == Event("content_block_start", block, NoText)
TextDelta(text) == Event("content_block_delta", "text", text)
ToolDelta == Event("content_block_delta", "tool_use", NoText)
MessageDelta == Event("message_delta", "none", NoText)
MessageStop == Event("message_stop", "none", NoText)

Events ==
    {MessageStart, ToolDelta, MessageDelta, MessageStop}
        \cup {BlockStart(b) : b \in {"text", "tool_use"}}
        \cup {TextDelta(t) : t \in Texts \cup {Garbled}}

TypeOK ==
    /\ upstream \in {"body", "finished", "done"}
    /\ lines \in 0..MaxLines
    /\ buf \in Chunks \cup {NoLine, Silent, Done}
    /\ spoken \in Seq(Texts)
    /\ msgSent \in BOOLEAN /\ blockStarted \in BOOLEAN /\ toolStarted \in BOOLEAN
    /\ phase \in {"reading", "closing", "ended", "left"}
    /\ out \in Seq(Events)
    /\ got \in Seq(Events)

Init ==
    /\ upstream = "body"
    /\ lines = 0
    /\ buf = NoLine
    /\ spoken = <<>>
    /\ msgSent = FALSE /\ blockStarted = FALSE /\ toolStarted = FALSE
    /\ phase = "reading"
    /\ out = <<MessageStart>>
    /\ got = <<>>

(* The provider sends its next line *)
Sends(line) ==
    /\ lines < MaxLines
    /\ lines' = lines + 1
    /\ \/ line = Silent /\ UNCHANGED upstream
       \/ /\ upstream = "body"
          /\ line \in Chunks
          /\ upstream' = IF line.finish THEN "finished" ELSE "body"
       \/ upstream = "finished" /\ line = Done /\ upstream' = "done"

Cut(line) ==
    IF line.kind = "chunk" /\ line.text # NoText THEN [line EXCEPT !.text = Garbled] ELSE line

-----------------------------------------------------------------------------
(* The translation of one line *)

When(cond, event) == IF cond THEN <<event>> ELSE <<>>

TranslateDone ==
    /\ out' = When(~msgSent, MessageStart) \o <<MessageStop>>
    /\ msgSent' = TRUE
    /\ UNCHANGED <<blockStarted, toolStarted>>

(* Tool calls end the translation of their chunk: a text and a finish      *)
(* reason beside them are dropped.                                         *)
TranslateTools(chunk) ==
    /\ out' = When(chunk.role /\ ~msgSent, MessageStart)
                  \o When(~toolStarted, BlockStart("tool_use"))
                  \o [i \in 1..chunk.tools |-> ToolDelta]
    /\ msgSent' = (msgSent \/ chunk.role)
    /\ toolStarted' = TRUE
    /\ UNCHANGED blockStarted

\* faulty: nothing asks whether there is a text, which TypeOK would reveal
UnguardedText(chunk) ==
    When(~blockStarted, BlockStart("text")) \o <<TextDelta(chunk.text)>>

\* faulty: the first text only starts its block, which TextArrives would reveal
StartsWithoutText(chunk) ==
    LET hasText == chunk.text # NoText
    IN  IF blockStarted THEN When(hasText, TextDelta(chunk.text))
                        ELSE When(hasText, BlockStart("text"))

TextEvents(chunk) ==
    LET hasText == chunk.text # NoText
    IN  When(hasText /\ ~blockStarted, BlockStart("text"))
            \o When(hasText, TextDelta(chunk.text))

\* faulty: a reason of null counts as one, which NoContentAfterStop would reveal
AlwaysFinishes(chunk) == <<MessageDelta, MessageStop>>

FinishEvents(chunk) == When(chunk.finish, MessageDelta) \o When(chunk.finish, MessageStop)

TranslateText(chunk) ==
    /\ out' = When(chunk.role /\ ~msgSent, MessageStart)
                  \o TextEvents(chunk) \o FinishEvents(chunk)
    /\ msgSent' = (msgSent \/ chunk.role)
    /\ blockStarted' = (blockStarted \/ chunk.text # NoText)
    /\ UNCHANGED toolStarted

Translate(line) ==
    \/ line = Silent /\ UNCHANGED <<flags, out>>
    \/ line = Done /\ TranslateDone
    \/ line.kind = "chunk" /\ line.tools > 0 /\ TranslateTools(line)
    \/ line.kind = "chunk" /\ line.tools = 0 /\ TranslateText(line)

HasText(line) == line.kind = "chunk" /\ line.text # NoText

Hears(line) ==
    spoken' = IF HasText(line) /\ line.tools = 0 THEN Append(spoken, line.text) ELSE spoken

-----------------------------------------------------------------------------
(* The generator *)

Awaiting == phase = "reading" /\ out = <<>>

(* A chunk of bytes brings a line as a whole ...                           *)
Receive(line) ==
    /\ Awaiting /\ buf = NoLine
    /\ Sends(line)
    /\ Translate(line) /\ Hears(line)
    /\ UNCHANGED <<buf, phase, got>>

(* ... or its beginning, which waits in buf for the next chunk.  Each      *)
(* chunk is decoded by itself: a character cut by the border is replaced   *)
(* on both sides.                                                          *)
ReceivePart(line) ==
    /\ Awaiting /\ buf = NoLine
    /\ Sends(line)
    /\ buf' = line
    /\ UNCHANGED <<spoken, flags, phase, out, got>>

ReceiveRest ==
    /\ Awaiting /\ buf # NoLine
    /\ Translate(buf) \/ Translate(Cut(buf))
    /\ Hears(buf)
    /\ buf' = NoLine
    /\ UNCHANGED <<upstreamVars, phase, got>>

\* faulty: the block only stops what it had started itself, which WellFramed
\* would reveal
StopsIfStarted ==
    /\ Awaiting
    /\ phase' = "closing"
    /\ out' = When(msgSent, MessageStop)
    /\ UNCHANGED <<upstreamVars, buf, spoken, flags, got>>

(* The answer ends, breaks off, times out or holds a chunk the code fails  *)
(* on: what is in buf is lost, and finally runs.                           *)
Finally ==
    /\ Awaiting
    /\ phase' = "closing"
    /\ out' = When(~msgSent, MessageStart) \o <<MessageStop>>
    /\ UNCHANGED <<upstreamVars, buf, spoken, flags, got>>

Close ==
    /\ phase = "closing" /\ out = <<>>
    /\ phase' = "ended"
    /\ UNCHANGED <<upstreamVars, buf, spoken, flags, out, got>>

(* The client takes the event the generator is suspended at, or leaves     *)
Yield ==
    /\ phase \in {"reading", "closing"} /\ out # <<>>
    /\ got' = Append(got, Head(out))
    /\ out' = Tail(out)
    /\ UNCHANGED <<upstreamVars, buf, spoken, flags, phase>>

Leave ==
    /\ phase \in {"reading", "closing"}
    /\ phase' = "left"
    /\ out' = <<>>
    /\ UNCHANGED <<upstreamVars, buf, spoken, flags, got>>

Next ==
    \/ \E line \in Chunks \cup {Silent, Done} : Receive(line) \/ ReceivePart(line)
    \/ ReceiveRest \/ Finally \/ Close
    \/ Yield \/ Leave

Spec == Init /\ [][Next]_vars

-----------------------------------------------------------------------------
(* Properties *)

(* What a client can rely on to assemble the message: message_start comes  *)
(* first, a delta comes after the start of its block, a block is started   *)
(* once, and a stream that was not left ends with message_stop, wherever   *)
(* the provider broke off and however its lines were cut into chunks.      *)
StartsFirst == got # <<>> => got[1] = MessageStart

DeltasInBlocks ==
    \A i \in DOMAIN got : got[i].type = "content_block_delta" =>
        \E j \in 1..(i - 1) : got[j] = BlockStart(got[i].block)

BlocksStartOnce ==
    \A i, j \in DOMAIN got :
        got[i].type = "content_block_start" /\ got[i] = got[j] => i = j

EndsWithStop == phase = "ended" => got # <<>> /\ got[Len(got)] = MessageStop

WellFramed == StartsFirst /\ DeltasInBlocks /\ BlocksStartOnce /\ EndsWithStop

(* A client that stops reading at the first message_stop misses nothing:   *)
(* only more stops and starts of a message come later, never content,      *)
(* although the generator sends a stop for the finish reason, for [DONE]   *)
(* and in its finally block.                                               *)
NoContentAfterStop ==
    \A i, j \in DOMAIN got :
        i < j /\ got[i] = MessageStop
            => got[j].type \notin {"content_block_start", "content_block_delta"}

(* The texts passed on are those that arrived without tool calls beside    *)
(* them, each once and in order, but for a piece in which a character was  *)
(* cut, whichever lines bring a role, a finish reason or nothing with it,  *)
(* and whatever tool calls come before and after it.  A text in the same   *)
(* chunk as tool calls is dropped (chat.py:320), where the translation of  *)
(* an unary answer keeps both (chat.py:197-206).                           *)
IsText(event) == event.type = "content_block_delta" /\ event.block = "text"

TextsUpTo(events, n) == {i \in 1..n : IsText(events[i])}

Passed(events, words) ==
    /\ Cardinality(TextsUpTo(events, Len(events))) = Len(words)
    /\ \A i \in TextsUpTo(events, Len(events)) :
          events[i].text \in {words[Cardinality(TextsUpTo(events, i))], Garbled}

TextArrives == phase # "left" => Passed(got \o out, spoken)

(* The order of events in docs/API.md:164-180: one start, blocks that are  *)
(* started, filled and stopped, the stop reason, one stop.                 *)
DocumentedNext ==
    [message_start |-> {"content_block_start", "message_delta"},
     content_block_start |-> {"content_block_delta", "content_block_stop"},
     content_block_delta |-> {"content_block_delta", "content_block_stop"},
     content_block_stop |-> {"content_block_start", "message_delta"},
     message_delta |-> {"message_stop"},
     message_stop |-> {}]

DocumentedOrder ==
    \A i \in 1..(Len(got) - 1) : got[i + 1].type \in DocumentedNext[got[i].type]
=============================================================================
