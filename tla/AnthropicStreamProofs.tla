------------------------ MODULE AnthropicStreamProofs ------------------------
(* Proofs about AnthropicStream, for any texts and any number of lines.    *)
EXTENDS AnthropicStream, SequenceTheorems, FiniteSetTheorems, TLAPS

Content == {"content_block_start", "content_block_delta"}

NoStop(s) == \A i \in 1 .. Len(s) : s[i] # MessageStop

NoContent(s) == \A i \in 1 .. Len(s) : s[i].type \notin Content

StopLast(s) ==
    \A i, j \in 1 .. Len(s) : i < j /\ s[i] = MessageStop => s[j].type \notin Content

(* A line that may still bring content to the translator                   *)
Lines == Chunks \cup {Silent, Done}

Finished(line) == line = Done \/ (line \in Chunks /\ line.finish)

(* The line of which a part has arrived has been sent                      *)
BufSent == Finished(buf) => upstream # "body"

(* Nothing is said before the stop that would be said after it ...         *)
Ordered ==
    /\ StopLast(got) /\ StopLast(out)
    /\ NoStop(got) \/ NoContent(out)

(* ... and after a stop the provider has no content left to send.          *)
Exhausted ==
    phase = "reading" =>
        \/ NoStop(got) /\ NoStop(out)
        \/ upstream # "body" /\ buf \notin Chunks

IInv == TypeOK /\ BufSent /\ Ordered /\ Exhausted

-----------------------------------------------------------------------------
(* What the translation puts together *)

LEMMA EventsDistinct ==
    /\ MessageStart \in Events /\ MessageStop \in Events
    /\ MessageDelta \in Events /\ ToolDelta \in Events
    /\ \A b \in {"text", "tool_use"} : BlockStart(b) \in Events /\ BlockStart(b) # MessageStop
    /\ \A t \in Texts \cup {Garbled} : TextDelta(t) \in Events
    /\ \A t : TextDelta(t) # MessageStop
    /\ MessageStart # MessageStop /\ MessageDelta # MessageStop /\ ToolDelta # MessageStop
    /\ MessageStart.type \notin Content /\ MessageStop.type \notin Content
  BY DEF Events, MessageStart, MessageStop, MessageDelta, ToolDelta, BlockStart, TextDelta,
         Event, Content

LEMMA ChunkFields ==
    ASSUME NEW line \in Chunks
    PROVE  /\ line.kind = "chunk" /\ line.role \in BOOLEAN /\ line.finish \in BOOLEAN
           /\ line.text \in Texts \cup {NoText} /\ line.tools \in 0 .. MaxTools
           /\ line # NoLine /\ line # Silent /\ line # Done
  BY DEF Chunks, Chunk, Contents, NoLine, Silent, Done

LEMMA WhenNoStop ==
    ASSUME NEW cond \in BOOLEAN, NEW event, cond => event \in Events /\ event # MessageStop
    PROVE  When(cond, event) \in Seq(Events) /\ NoStop(When(cond, event))
<1>1. CASE cond
  <2>1. When(cond, event) = <<event>> /\ event \in Events /\ event # MessageStop
    BY <1>1 DEF When
  <2>2. QED
    BY <2>1 DEF NoStop
<1>2. CASE ~cond
  <2>1. When(cond, event) = <<>>
    BY <1>2 DEF When
  <2>2. QED
    BY <2>1 DEF NoStop
<1>3. QED
  BY <1>1, <1>2

LEMMA ConcatNoStop ==
    ASSUME NEW s \in Seq(Events), NEW t \in Seq(Events), NoStop(s), NoStop(t)
    PROVE  s \o t \in Seq(Events) /\ NoStop(s \o t)
<1>1. /\ s \o t \in Seq(Events)
      /\ Len(s \o t) = Len(s) + Len(t)
      /\ \A i \in 1 .. Len(s) + Len(t) :
            (s \o t)[i] = IF i <= Len(s) THEN s[i] ELSE t[i - Len(s)]
  BY ConcatProperties
<1>2. Len(s) \in Nat /\ Len(t) \in Nat
  BY LenProperties
<1>3. QED
  BY <1>1, <1>2 DEF NoStop

LEMMA ConcatStopLast ==
    ASSUME NEW s \in Seq(Events), NEW t \in Seq(Events), NoStop(s), StopLast(t)
    PROVE  s \o t \in Seq(Events) /\ StopLast(s \o t)
<1>1. /\ s \o t \in Seq(Events)
      /\ Len(s \o t) = Len(s) + Len(t)
      /\ \A i \in 1 .. Len(s) + Len(t) :
            (s \o t)[i] = IF i <= Len(s) THEN s[i] ELSE t[i - Len(s)]
  BY ConcatProperties
<1>2. Len(s) \in Nat /\ Len(t) \in Nat
  BY LenProperties
<1>3. ASSUME NEW i \in 1 .. Len(s \o t), NEW j \in 1 .. Len(s \o t), i < j,
             (s \o t)[i] = MessageStop
      PROVE  (s \o t)[j].type \notin Content
  <2>1. i > Len(s)
    BY <1>1, <1>2, <1>3 DEF NoStop
  <2>2. /\ i - Len(s) \in 1 .. Len(t) /\ j - Len(s) \in 1 .. Len(t)
        /\ i - Len(s) < j - Len(s) /\ t[i - Len(s)] = MessageStop
    BY <1>1, <1>2, <1>3, <2>1
  <2>3. t[j - Len(s)].type \notin Content
    BY <2>2 DEF StopLast
  <2>4. QED
    BY <1>1, <1>2, <1>3, <2>1, <2>3
<1>4. QED
  BY <1>1, <1>3 DEF StopLast

(* A stop appended to what has none is the last.                           *)
LEMMA StopAppended ==
    ASSUME NEW s \in Seq(Events), NoStop(s), NEW cond \in BOOLEAN
    PROVE  LET all == s \o When(cond, MessageStop)
           IN  /\ all \in Seq(Events) /\ StopLast(all)
               /\ ~cond => NoStop(all)
<1> DEFINE t == When(cond, MessageStop)
<1>1. t \in Seq(Events) /\ Len(t) \in 0 .. 1 /\ (~cond => t = <<>>)
  BY EventsDistinct DEF When
<1>2. /\ s \o t \in Seq(Events)
      /\ Len(s \o t) = Len(s) + Len(t)
      /\ \A i \in 1 .. Len(s) + Len(t) :
            (s \o t)[i] = IF i <= Len(s) THEN s[i] ELSE t[i - Len(s)]
  BY <1>1, ConcatProperties
<1>3. Len(s) \in Nat
  BY LenProperties
<1>4. StopLast(s \o t)
  BY <1>1, <1>2, <1>3 DEF NoStop, StopLast
<1>5. ~cond => NoStop(s \o t)
  BY <1>1, <1>2, <1>3 DEF NoStop
<1>6. QED
  BY <1>2, <1>4, <1>5

(* What finally and [DONE] yield                                           *)
LEMMA ClosingEvents ==
    ASSUME NEW cond \in BOOLEAN
    PROVE  LET all == When(cond, MessageStart) \o <<MessageStop>>
           IN  /\ all \in Seq(Events)
               /\ StopLast(all) /\ NoContent(all)
<1> DEFINE s == When(cond, MessageStart)
           t == <<MessageStop>>
<1>1. s \in Seq(Events) /\ Len(s) \in 0 .. 1 /\ NoContent(s)
  <2>1. CASE cond
    <3>1. s = <<MessageStart>>
      BY <2>1 DEF When
    <3>2. QED
      BY <3>1, EventsDistinct DEF NoContent
  <2>2. CASE ~cond
    <3>1. s = <<>>
      BY <2>2 DEF When
    <3>2. QED
      BY <3>1 DEF NoContent
  <2>3. QED
    BY <2>1, <2>2
<1>2. t \in Seq(Events) /\ Len(t) = 1 /\ NoContent(t)
  BY EventsDistinct DEF NoContent
<1> HIDE DEF s, t
<1>3. /\ s \o t \in Seq(Events)
      /\ Len(s \o t) = Len(s) + Len(t)
      /\ \A i \in 1 .. Len(s) + Len(t) :
            (s \o t)[i] = IF i <= Len(s) THEN s[i] ELSE t[i - Len(s)]
  BY <1>1, <1>2, ConcatProperties
<1>4. NoContent(s \o t)
  BY <1>1, <1>2, <1>3 DEF NoContent
<1>5. StopLast(s \o t)
  BY <1>4 DEF NoContent, StopLast
<1>6. QED
  BY <1>3, <1>4, <1>5 DEF s, t

LEMMA TextTranslated ==
    ASSUME TypeOK, NEW line, line.text \in Texts \cup {NoText, Garbled},
           line.role \in BOOLEAN, line.finish \in BOOLEAN,
           TranslateText(line)
    PROVE  /\ out' \in Seq(Events) /\ StopLast(out')
           /\ ~line.finish => NoStop(out')
           /\ msgSent' \in BOOLEAN /\ blockStarted' \in BOOLEAN /\ toolStarted' \in BOOLEAN
<1> DEFINE hasText == line.text # NoText
           a == When(line.role /\ ~msgSent, MessageStart)
           b == When(hasText /\ ~blockStarted, BlockStart("text"))
           c == When(hasText, TextDelta(line.text))
           d == When(line.finish, MessageDelta)
<1>1. a \in Seq(Events) /\ NoStop(a)
  BY WhenNoStop, EventsDistinct DEF TypeOK
<1>2. b \in Seq(Events) /\ NoStop(b)
  BY WhenNoStop, EventsDistinct DEF TypeOK
<1>3. c \in Seq(Events) /\ NoStop(c)
  BY WhenNoStop, EventsDistinct
<1>4. d \in Seq(Events) /\ NoStop(d)
  BY WhenNoStop, EventsDistinct
<1>5. out' = a \o (b \o c) \o (d \o When(line.finish, MessageStop))
  BY DEF TranslateText, TextEvents, FinishEvents
<1> HIDE DEF a, b, c, d
<1>6. b \o c \in Seq(Events) /\ NoStop(b \o c)
  BY <1>2, <1>3, ConcatNoStop
<1>7. a \o (b \o c) \in Seq(Events) /\ NoStop(a \o (b \o c))
  BY <1>1, <1>6, ConcatNoStop
<1> DEFINE e == d \o When(line.finish, MessageStop)
<1>8. /\ e \in Seq(Events) /\ StopLast(e)
      /\ ~line.finish => NoStop(e)
  BY <1>4, StopAppended
<1> HIDE DEF e
<1>9. /\ out' \in Seq(Events) /\ StopLast(out')
      /\ ~line.finish => NoStop(out')
  BY <1>5, <1>7, <1>8, ConcatStopLast, ConcatNoStop DEF e
<1>10. msgSent' \in BOOLEAN /\ blockStarted' \in BOOLEAN /\ toolStarted' \in BOOLEAN
  BY DEF TypeOK, TranslateText
<1>11. QED
  BY <1>9, <1>10

LEMMA ToolsTranslated ==
    ASSUME TypeOK, NEW line, line.tools \in Nat, line.role \in BOOLEAN,
           TranslateTools(line)
    PROVE  /\ out' \in Seq(Events) /\ NoStop(out')
           /\ msgSent' \in BOOLEAN /\ blockStarted' \in BOOLEAN /\ toolStarted' \in BOOLEAN
<1> DEFINE a == When(line.role /\ ~msgSent, MessageStart)
           b == When(~toolStarted, BlockStart("tool_use"))
           c == [i \in 1 .. line.tools |-> ToolDelta]
<1>1. a \in Seq(Events) /\ NoStop(a)
  BY WhenNoStop, EventsDistinct DEF TypeOK
<1>2. b \in Seq(Events) /\ NoStop(b)
  BY WhenNoStop, EventsDistinct DEF TypeOK
<1>3. c \in Seq(Events) /\ NoStop(c)
  <2>1. c \in [1 .. line.tools -> Events]
    BY EventsDistinct
  <2>2. c \in Seq(Events) /\ Len(c) = line.tools
    BY <2>1
  <2>3. NoStop(c)
    BY <2>2, EventsDistinct DEF NoStop
  <2>4. QED
    BY <2>2, <2>3
<1>4. out' = a \o b \o c
  BY DEF TranslateTools
<1> HIDE DEF a, b, c
<1>5. a \o b \in Seq(Events) /\ NoStop(a \o b)
  BY <1>1, <1>2, ConcatNoStop
<1>6. out' \in Seq(Events) /\ NoStop(out')
  BY <1>3, <1>4, <1>5, ConcatNoStop
<1>7. msgSent' \in BOOLEAN /\ blockStarted' \in BOOLEAN /\ toolStarted' \in BOOLEAN
  BY DEF TypeOK, TranslateTools
<1>8. QED
  BY <1>6, <1>7

(* A line of the provider, or its chunk with a character cut, is           *)
(* translated to content before a stop, and to a stop only at the end of   *)
(* the answer.                                                             *)
LEMMA Translated ==
    ASSUME TypeOK, out = <<>>, NEW line \in Lines,
           Translate(line) \/ Translate(Cut(line))
    PROVE  /\ out' \in Seq(Events) /\ StopLast(out')
           /\ ~Finished(line) => NoStop(out')
           /\ line \notin Chunks => NoContent(out')
           /\ msgSent' \in BOOLEAN /\ blockStarted' \in BOOLEAN /\ toolStarted' \in BOOLEAN
<1>1. CASE line = Silent
  <2>1. Cut(line) = line /\ line.kind = "silent" /\ line # Done
    BY <1>1 DEF Cut, Silent, Done
  <2>2. UNCHANGED <<flags, out>>
    BY <1>1, <2>1 DEF Translate
  <2>3. out' = <<>>
    BY <2>2
  <2>4. QED
    BY <2>2, <2>3 DEF TypeOK, flags, StopLast, NoStop, NoContent
<1>2. CASE line = Done
  <2>1. Cut(line) = line /\ line.kind = "done" /\ line # Silent
    BY <1>2 DEF Cut, Silent, Done
  <2>2. TranslateDone
    BY <1>2, <2>1 DEF Translate
  <2>3. out' \in Seq(Events) /\ StopLast(out') /\ NoContent(out')
    BY <2>2, ClosingEvents DEF TranslateDone, TypeOK
  <2>4. QED
    BY <1>2, <2>2, <2>3 DEF TranslateDone, TypeOK, Finished
<1>3. CASE line \in Chunks
  <2>1. PICK l \in {line, Cut(line)} : Translate(l)
    OBVIOUS
  <2>2. /\ l.kind = "chunk" /\ l.role = line.role /\ l.finish = line.finish
        /\ l.tools = line.tools /\ l.text \in {line.text, Garbled}
        /\ l # Silent /\ l # Done
    BY <1>3 DEF Cut, Chunks, Chunk, Silent, Done
  <2>3. /\ l.role \in BOOLEAN /\ l.finish \in BOOLEAN /\ l.tools \in Nat
        /\ l.text \in Texts \cup {NoText, Garbled}
    BY <1>3, <2>2, ChunkFields, BoundsAssumption
  <2>4. CASE TranslateTools(l)
    <3>1. /\ out' \in Seq(Events) /\ NoStop(out')
          /\ msgSent' \in BOOLEAN /\ blockStarted' \in BOOLEAN /\ toolStarted' \in BOOLEAN
      BY <2>3, <2>4, ToolsTranslated
    <3>2. StopLast(out')
      BY <3>1 DEF NoStop, StopLast
    <3>3. QED
      BY <1>3, <3>1, <3>2
  <2>5. CASE TranslateText(l)
    <3>1. /\ out' \in Seq(Events) /\ StopLast(out')
          /\ ~line.finish => NoStop(out')
          /\ msgSent' \in BOOLEAN /\ blockStarted' \in BOOLEAN /\ toolStarted' \in BOOLEAN
      BY <2>2, <2>3, <2>5, TextTranslated
    <3>2. QED
      BY <1>3, <3>1 DEF Finished
  <2>6. QED
    BY <2>1, <2>2, <2>4, <2>5 DEF Translate
<1>4. QED
  BY <1>1, <1>2, <1>3 DEF Lines

-----------------------------------------------------------------------------
(* The steps *)

LEMMA InitIInv == ASSUME Init PROVE IInv
<1>1. out \in Seq(Events) /\ got \in Seq(Events) /\ Len(out) = 1 /\ Len(got) = 0
      /\ out[1] = MessageStart
  BY EventsDistinct DEF Init
<1>2. TypeOK
  <2>1. spoken \in Seq(Texts)
    BY DEF Init
  <2>2. lines \in 0 .. MaxLines
    BY BoundsAssumption DEF Init
  <2>3. QED
    BY <1>1, <2>1, <2>2 DEF Init, TypeOK
<1>3. BufSent
  BY ChunkFields DEF Init, BufSent, Finished, NoLine, Done
<1>4. NoStop(got) /\ NoStop(out)
  BY <1>1, EventsDistinct DEF NoStop
<1>5. Ordered /\ Exhausted
  BY <1>4 DEF Ordered, Exhausted, NoStop, StopLast
<1>6. QED
  BY <1>2, <1>3, <1>5 DEF IInv

(* The provider sends content only before its finish reason.               *)
LEMMA SendsSound ==
    ASSUME TypeOK, NEW line \in Lines, Sends(line)
    PROVE  /\ upstream' \in {"body", "finished", "done"} /\ lines' \in 0 .. MaxLines
           /\ upstream # "body" => upstream' # "body" /\ line \notin Chunks
           /\ Finished(line) => upstream' # "body"
<1>1. lines' \in 0 .. MaxLines
  BY BoundsAssumption DEF Sends, TypeOK
<1>2. CASE line = Silent
  BY <1>1, <1>2, ChunkFields DEF Sends, TypeOK, Finished, Silent, Done
<1>3. CASE line # Silent
  BY <1>1, <1>3, ChunkFields DEF Sends, TypeOK, Finished
<1>4. QED
  BY <1>2, <1>3

LEMMA HearsTyped ==
    ASSUME TypeOK, NEW line \in Lines, Hears(line)
    PROVE  spoken' \in Seq(Texts)
<1>1. CASE line \in Chunks
  BY <1>1, ChunkFields DEF Hears, HasText, TypeOK
<1>2. CASE line \notin Chunks
  <2>1. line.kind # "chunk"
    BY <1>2 DEF Lines, Silent, Done
  <2>2. QED
    BY <2>1 DEF Hears, HasText, TypeOK
<1>3. QED
  BY <1>1, <1>2

(* A line that was translated leaves the invariant: what was not said      *)
(* before a stop is not said after it.                                     *)
LEMMA TranslationKeeps ==
    ASSUME IInv, Awaiting, NEW line \in Lines,
           Translate(line) \/ Translate(Cut(line)), Hears(line),
           upstream' \in {"body", "finished", "done"}, lines' \in 0 .. MaxLines,
           Finished(line) => upstream' # "body",
           upstream # "body" => upstream' # "body",
           upstream # "body" /\ buf \notin Chunks => line \notin Chunks,
           buf' = NoLine, UNCHANGED <<phase, got>>
    PROVE  IInv'
<1> USE DEF IInv
<1>1. /\ out' \in Seq(Events) /\ StopLast(out')
      /\ ~Finished(line) => NoStop(out')
      /\ line \notin Chunks => NoContent(out')
      /\ msgSent' \in BOOLEAN /\ blockStarted' \in BOOLEAN /\ toolStarted' \in BOOLEAN
  BY Translated DEF Awaiting
<1>2. TypeOK'
  <2>1. spoken' \in Seq(Texts)
    BY HearsTyped
  <2>2. QED
    BY <1>1, <2>1 DEF TypeOK
<1>3. BufSent'
  BY ChunkFields DEF BufSent, Finished, NoLine, Done
<1>4. phase = "reading"
  BY DEF Awaiting
<1>5. buf' \notin Chunks /\ StopLast(got) /\ got' = got
  BY ChunkFields DEF Ordered
<1>6. CASE NoStop(got)
  <2>1. NoStop(got') /\ StopLast(got')
    BY <1>5, <1>6
  <2>2. NoStop(out') \/ upstream' # "body"
    BY <1>1
  <2>3. QED
    BY <1>1, <1>2, <1>3, <1>5, <2>1, <2>2 DEF Ordered, Exhausted
<1>7. CASE ~NoStop(got)
  <2>1. upstream # "body" /\ buf \notin Chunks
    BY <1>4, <1>7 DEF Exhausted
  <2>2. NoContent(out') /\ upstream' # "body" /\ StopLast(got')
    BY <1>1, <1>5, <2>1
  <2>3. QED
    BY <1>1, <1>2, <1>3, <1>5, <2>2 DEF Ordered, Exhausted
<1>8. QED
  BY <1>6, <1>7

(* What the client takes keeps its place before what is still to come.     *)
LEMMA YieldKeeps == ASSUME IInv, Yield PROVE IInv'
<1> USE DEF IInv
<1> DEFINE n == Len(got)
           m == Len(out)
<1>1. /\ got \in Seq(Events) /\ out \in Seq(Events) /\ out # <<>>
      /\ got' = Append(got, Head(out)) /\ out' = Tail(out)
      /\ UNCHANGED <<upstream, lines, buf, spoken, msgSent, blockStarted, toolStarted, phase>>
  BY DEF Yield, TypeOK, upstreamVars, flags
<1>2. /\ n \in Nat /\ m \in Nat \ {0}
      /\ got' \in Seq(Events) /\ Len(got') = n + 1
      /\ \A i \in 1 .. n : got'[i] = got[i]
      /\ got'[n + 1] = out[1]
  BY <1>1
<1>3. /\ out' \in Seq(Events) /\ Len(out') = m - 1
      /\ \A i \in 1 .. m - 1 : out'[i] = out[i + 1]
  BY <1>1
<1> HIDE DEF n, m
<1>4. TypeOK'
  BY <1>1, <1>2, <1>3 DEF TypeOK
<1>5. BufSent'
  BY <1>1 DEF BufSent
<1>6. StopLast(out')
  <2>1. Len(out) = m /\ Len(out') = m - 1
    BY <1>3 DEF m
  <2>2. \A i \in 1 .. Len(out') : i + 1 \in 1 .. Len(out) /\ out'[i] = out[i + 1]
    BY <1>2, <1>3, <2>1
  <2>3. \A i, j \in 1 .. Len(out') : i < j => i + 1 < j + 1
    BY <1>2, <2>1
  <2>4. StopLast(out)
    BY DEF Ordered
  <2>5. QED
    BY <2>2, <2>3, <2>4 DEF StopLast
<1>7. StopLast(got')
  <2> SUFFICES ASSUME NEW i \in 1 .. n + 1, NEW j \in 1 .. n + 1, i < j,
                      got'[i] = MessageStop
               PROVE  got'[j].type \notin Content
    BY <1>2 DEF StopLast
  <2>1. i \in 1 .. n /\ got[i] = MessageStop
    BY <1>2
  <2>2. CASE j \in 1 .. n
    BY <1>2, <2>1, <2>2 DEF Ordered, StopLast, n
  <2>3. CASE j = n + 1
    <3>1. NoContent(out)
      BY <2>1 DEF Ordered, NoStop, n
    <3>2. QED
      BY <1>2, <2>3, <3>1 DEF NoContent, m
  <2>4. QED
    BY <2>2, <2>3, <1>2
<1>8. NoStop(got') \/ NoContent(out')
  <2>1. CASE NoContent(out)
    BY <1>2, <1>3, <2>1 DEF NoContent, m
  <2>2. CASE NoStop(got) /\ out[1] = MessageStop
    <3>1. \A j \in 2 .. m : out[j].type \notin Content
      BY <1>2, <2>2 DEF Ordered, StopLast, m
    <3>2. QED
      BY <1>2, <1>3, <3>1 DEF NoContent
  <2>3. CASE NoStop(got) /\ out[1] # MessageStop
    BY <1>2, <2>3 DEF NoStop, n
  <2>4. QED
    BY <2>1, <2>2, <2>3 DEF Ordered
<1>9. Exhausted'
  <2> SUFFICES ASSUME phase = "reading", NoStop(got), NoStop(out)
               PROVE  NoStop(got') /\ NoStop(out')
    BY <1>1 DEF Exhausted
  <2>1. NoStop(got')
    BY <1>2 DEF NoStop, n, m
  <2>2. NoStop(out')
    BY <1>2, <1>3 DEF NoStop, m
  <2>3. QED
    BY <2>1, <2>2
<1>10. QED
  BY <1>4, <1>5, <1>6, <1>7, <1>8, <1>9 DEF Ordered

LEMMA NextIInv == ASSUME IInv, [Next]_vars PROVE IInv'
<1> USE DEF IInv
<1>1. ASSUME NEW line \in Lines, Receive(line) PROVE IInv'
  <2>1. Awaiting /\ buf = NoLine /\ Sends(line) /\ Translate(line) /\ Hears(line)
        /\ UNCHANGED <<buf, phase, got>>
    BY <1>1 DEF Receive
  <2>2. /\ upstream' \in {"body", "finished", "done"} /\ lines' \in 0 .. MaxLines
        /\ upstream # "body" => upstream' # "body" /\ line \notin Chunks
        /\ Finished(line) => upstream' # "body"
    BY <2>1, SendsSound
  <2>3. buf' = NoLine /\ UNCHANGED <<phase, got>>
    BY <2>1
  <2>4. QED
    BY <2>1, <2>2, <2>3, TranslationKeeps
<1>2. ASSUME NEW line \in Lines, ReceivePart(line) PROVE IInv'
  <2>1. Awaiting /\ buf = NoLine /\ Sends(line) /\ buf' = line
        /\ UNCHANGED <<spoken, msgSent, blockStarted, toolStarted, phase, out, got>>
    BY <1>2 DEF ReceivePart, flags
  <2>2. /\ upstream' \in {"body", "finished", "done"} /\ lines' \in 0 .. MaxLines
        /\ upstream # "body" => upstream' # "body" /\ line \notin Chunks
        /\ Finished(line) => upstream' # "body"
    BY <2>1, SendsSound
  <2>3. TypeOK'
    BY <2>1, <2>2 DEF TypeOK, Lines
  <2>4. BufSent'
    BY <2>1, <2>2 DEF BufSent, Finished
  <2>5. Ordered' /\ Exhausted'
    BY <2>1, <2>2 DEF Ordered, Exhausted
  <2>6. QED
    BY <2>3, <2>4, <2>5
<1>3. CASE ReceiveRest
  <2>1. Awaiting /\ buf \in Lines /\ (Translate(buf) \/ Translate(Cut(buf))) /\ Hears(buf)
        /\ buf' = NoLine /\ UNCHANGED <<upstream, lines, phase, got>>
    BY <1>3 DEF ReceiveRest, upstreamVars, TypeOK, Lines
  <2>2. /\ upstream' \in {"body", "finished", "done"} /\ lines' \in 0 .. MaxLines
        /\ Finished(buf) => upstream' # "body"
        /\ upstream # "body" => upstream' # "body"
    BY <2>1 DEF TypeOK, BufSent
  <2>3. QED
    BY <2>1, <2>2, TranslationKeeps
<1>4. CASE Finally
  <2>1. Awaiting /\ phase' = "closing" /\ out' = When(~msgSent, MessageStart) \o <<MessageStop>>
        /\ UNCHANGED <<upstream, lines, buf, spoken, msgSent, blockStarted, toolStarted, got>>
    BY <1>4 DEF Finally, upstreamVars, flags
  <2>2. out' \in Seq(Events) /\ StopLast(out') /\ NoContent(out')
    BY <2>1, ClosingEvents DEF TypeOK
  <2>3. TypeOK' /\ BufSent'
    BY <2>1, <2>2 DEF TypeOK, BufSent
  <2>4. Ordered' /\ Exhausted'
    BY <2>1, <2>2 DEF Ordered, Exhausted
  <2>5. QED
    BY <2>3, <2>4
<1>5. CASE Close
  <2>1. TypeOK' /\ BufSent'
    BY <1>5 DEF Close, upstreamVars, flags, TypeOK, BufSent
  <2>2. Ordered' /\ Exhausted'
    BY <1>5 DEF Close, Ordered, Exhausted
  <2>3. QED
    BY <2>1, <2>2
<1>6. CASE Yield
  BY <1>6, YieldKeeps
<1>7. CASE Leave
  <2>1. phase' = "left" /\ out' = <<>>
        /\ UNCHANGED <<upstream, lines, buf, spoken, msgSent, blockStarted, toolStarted, got>>
    BY <1>7 DEF Leave, upstreamVars, flags
  <2>2. TypeOK' /\ BufSent'
    BY <2>1 DEF TypeOK, BufSent
  <2>3. StopLast(out') /\ NoContent(out')
    BY <2>1 DEF StopLast, NoContent
  <2>4. Ordered' /\ Exhausted'
    BY <2>1, <2>3 DEF Ordered, Exhausted
  <2>5. QED
    BY <2>2, <2>4
<1>8. CASE UNCHANGED vars
  BY <1>8 DEF vars, upstreamVars, flags, TypeOK, BufSent, Ordered, Exhausted
<1>9. QED
  BY <1>1, <1>2, <1>3, <1>4, <1>5, <1>6, <1>7, <1>8 DEF Next, Lines

LEMMA StreamInductive == Spec => []IInv
  BY InitIInv, NextIInv, PTL DEF Spec

(* Every variable of the generator and of its client keeps its type, for   *)
(* answers of any length.                                                  *)
THEOREM StreamTypeCorrect == Spec => []TypeOK
  BY StreamInductive, PTL DEF IInv

(* A client that stops reading at the first message_stop misses no         *)
(* content, whatever the provider sends in the order of OpenAI's streams   *)
(* and wherever it is cut or breaks off.                                   *)
THEOREM NoContentAfterStopCorrect == Spec => []NoContentAfterStop
<1>1. IInv => NoContentAfterStop
  BY DEF IInv, TypeOK, Ordered, StopLast, NoContentAfterStop, Content
<1>2. QED
  BY <1>1, StreamInductive, PTL

-----------------------------------------------------------------------------
(* The framing of blocks *)

Blocks == {"text", "tool_use"}

Started(b) == IF b = "text" THEN blockStarted ELSE toolStarted

Has(s, b) == \E i \in 1 .. Len(s) : s[i] = BlockStart(b)

(* The content in s is of block b alone, which s starts at most once and   *)
(* only if it was not started, and before the first delta.                 *)
OneBlock(s, b, started) ==
    /\ \A i \in 1 .. Len(s) : s[i].type \in Content => s[i].block = b
    /\ \A i, j \in 1 .. Len(s) :
          s[i] = BlockStart(b) /\ s[j] = BlockStart(b) => i = j /\ ~started
    /\ \A i \in 1 .. Len(s) : s[i].type = "content_block_delta" =>
          started \/ \E j \in 1 .. (i - 1) : s[j] = BlockStart(b)

LEMMA BlockEvents ==
    /\ \A b \in Blocks : /\ BlockStart(b).type = "content_block_start"
                         /\ BlockStart(b).block = b
    /\ \A e \in Events : /\ e.type = "content_block_start" =>
                              \E b \in Blocks : e = BlockStart(b)
                         /\ e.type = "content_block_delta" => e.block \in Blocks
  BY DEF Events, MessageStart, MessageStop, MessageDelta, ToolDelta, BlockStart, TextDelta,
         Event, Blocks

(* Events without content around those of a block change nothing about it. *)
LEMMA FramedBefore ==
    ASSUME NEW s \in Seq(Events), NEW t \in Seq(Events), NEW b \in Blocks,
           NEW started \in BOOLEAN, NoContent(s), OneBlock(t, b, started)
    PROVE  OneBlock(s \o t, b, started) /\ (Has(s \o t, b) <=> Has(t, b))
<1> DEFINE n == Len(s)
           m == Len(t)
           u == s \o t
<1>1. /\ Len(u) = n + m
      /\ \A i \in 1 .. n + m : u[i] = IF i <= n THEN s[i] ELSE t[i - n]
      /\ n \in Nat /\ m \in Nat
  BY ConcatProperties, LenProperties
<1> HIDE DEF u
<1>2. /\ \A i \in 1 .. n : u[i].type \notin Content /\ u[i] # BlockStart(b)
      /\ \A i \in n + 1 .. n + m : i - n \in 1 .. m /\ u[i] = t[i - n]
      /\ \A i \in 1 .. m : n + i \in n + 1 .. n + m /\ u[n + i] = t[i]
  BY <1>1, BlockEvents DEF NoContent, Content
<1> HIDE DEF n, m
<1>3. \A i \in 1 .. n + m : u[i].type \in Content \/ u[i] = BlockStart(b)
                                => i \in n + 1 .. n + m /\ i - n \in 1 .. m /\ u[i] = t[i - n]
  BY <1>1, <1>2
<1>4. \A i \in 1 .. n + m : u[i].type \in Content => u[i].block = b
  BY <1>3 DEF OneBlock, m
<1>5. \A i, j \in 1 .. n + m :
         u[i] = BlockStart(b) /\ u[j] = BlockStart(b) => i = j /\ ~started
  <2> SUFFICES ASSUME NEW i \in 1 .. n + m, NEW j \in 1 .. n + m,
                      u[i] = BlockStart(b), u[j] = BlockStart(b)
               PROVE  i = j /\ ~started
    OBVIOUS
  <2>1. /\ i - n \in 1 .. m /\ j - n \in 1 .. m
        /\ t[i - n] = BlockStart(b) /\ t[j - n] = BlockStart(b)
    BY <1>3
  <2>2. i - n = j - n /\ ~started
    BY <2>1 DEF OneBlock, m
  <2>3. QED
    BY <1>1, <2>2
<1>6. ASSUME NEW i \in 1 .. n + m, u[i].type = "content_block_delta", ~started
      PROVE  \E j \in 1 .. (i - 1) : u[j] = BlockStart(b)
  <2>1. i - n \in 1 .. m /\ u[i] = t[i - n]
    BY <1>3, <1>6 DEF Content
  <2>2. PICK j \in 1 .. (i - n - 1) : t[j] = BlockStart(b)
    BY <1>6, <2>1 DEF OneBlock, m
  <2>3. n + j \in 1 .. (i - 1) /\ u[n + j] = BlockStart(b)
    BY <1>1, <1>2, <2>1, <2>2
  <2>4. QED
    BY <2>3
<1>7. Has(u, b) <=> Has(t, b)
  <2>1. ASSUME Has(u, b) PROVE Has(t, b)
    <3>1. PICK i \in 1 .. n + m : u[i] = BlockStart(b)
      BY <1>1, <2>1 DEF Has
    <3>2. QED
      BY <1>3, <3>1 DEF Has, m
  <2>2. ASSUME Has(t, b) PROVE Has(u, b)
    <3>1. PICK i \in 1 .. m : t[i] = BlockStart(b)
      BY <2>2 DEF Has, m
    <3>2. n + i \in 1 .. n + m /\ u[n + i] = BlockStart(b)
      BY <1>1, <1>2, <3>1
    <3>3. QED
      BY <1>1, <3>2 DEF Has
  <2>3. QED
    BY <2>1, <2>2
<1>8. QED
  BY <1>1, <1>4, <1>5, <1>6, <1>7 DEF OneBlock, u

LEMMA FramedAfter ==
    ASSUME NEW s \in Seq(Events), NEW t \in Seq(Events), NEW b \in Blocks,
           NEW started \in BOOLEAN, OneBlock(s, b, started), NoContent(t)
    PROVE  OneBlock(s \o t, b, started) /\ (Has(s \o t, b) <=> Has(s, b))
<1> DEFINE n == Len(s)
           m == Len(t)
           u == s \o t
<1>1. /\ Len(u) = n + m
      /\ \A i \in 1 .. n + m : u[i] = IF i <= n THEN s[i] ELSE t[i - n]
      /\ n \in Nat /\ m \in Nat
  BY ConcatProperties, LenProperties
<1> HIDE DEF u
<1>2. /\ \A i \in 1 .. n : i \in 1 .. n + m /\ u[i] = s[i]
      /\ \A i \in n + 1 .. n + m : u[i].type \notin Content /\ u[i] # BlockStart(b)
  <2>1. \A i \in n + 1 .. n + m : i - n \in 1 .. m /\ u[i] = t[i - n]
    BY <1>1
  <2>2. \A i \in 1 .. m : t[i].type \notin Content /\ t[i] # BlockStart(b)
    BY BlockEvents DEF NoContent, Content
  <2>3. QED
    BY <1>1, <2>1, <2>2
<1> HIDE DEF n, m
<1>3. \A i \in 1 .. n + m : u[i].type \in Content \/ u[i] = BlockStart(b)
                                => i \in 1 .. n /\ u[i] = s[i]
  BY <1>1, <1>2
<1>4. \A i \in 1 .. n + m : u[i].type \in Content => u[i].block = b
  BY <1>3 DEF OneBlock, n
<1>5. \A i, j \in 1 .. n + m :
         u[i] = BlockStart(b) /\ u[j] = BlockStart(b) => i = j /\ ~started
  BY <1>3 DEF OneBlock, n
<1>6. ASSUME NEW i \in 1 .. n + m, u[i].type = "content_block_delta", ~started
      PROVE  \E j \in 1 .. (i - 1) : u[j] = BlockStart(b)
  <2>1. i \in 1 .. n /\ s[i].type = "content_block_delta"
    BY <1>3, <1>6 DEF Content
  <2>2. PICK j \in 1 .. (i - 1) : s[j] = BlockStart(b)
    BY <1>6, <2>1 DEF OneBlock, n
  <2>3. j \in 1 .. n
    BY <1>1, <2>1, <2>2
  <2>4. QED
    BY <1>2, <2>2, <2>3
<1>7. Has(u, b) <=> Has(s, b)
  BY <1>1, <1>2, <1>3 DEF Has, n
<1>8. QED
  BY <1>1, <1>4, <1>5, <1>6, <1>7 DEF OneBlock, u

LEMMA WhenNoContent ==
    ASSUME NEW cond \in BOOLEAN, NEW event, cond => event \in Events /\ event.type \notin Content
    PROVE  When(cond, event) \in Seq(Events) /\ NoContent(When(cond, event))
<1>1. CASE cond
  <2>1. When(cond, event) = <<event>> /\ event \in Events /\ event.type \notin Content
    BY <1>1 DEF When
  <2>2. QED
    BY <2>1 DEF NoContent
<1>2. CASE ~cond
  <2>1. When(cond, event) = <<>>
    BY <1>2 DEF When
  <2>2. QED
    BY <2>1 DEF NoContent
<1>3. QED
  BY <1>1, <1>2

(* No content is one block's content, of whichever block.                  *)
LEMMA NothingFramed ==
    ASSUME NEW s \in Seq(Events), NoContent(s), NEW b \in Blocks, NEW started \in BOOLEAN
    PROVE  OneBlock(s, b, started) /\ ~Has(s, b)
  BY BlockEvents DEF NoContent, OneBlock, Has, Content

(* The start of a block, unless it was started, and deltas of it.          *)
LEMMA DeltasFramed ==
    ASSUME NEW b \in Blocks, NEW started \in BOOLEAN, NEW deltas \in Seq(Events),
           \A i \in 1 .. Len(deltas) :
              deltas[i].type = "content_block_delta" /\ deltas[i].block = b
    PROVE  LET s == When(~started, BlockStart(b)) \o deltas
           IN  s \in Seq(Events) /\ OneBlock(s, b, started) /\ (Has(s, b) <=> ~started)
<1> DEFINE a == When(~started, BlockStart(b))
           n == Len(deltas)
           s == a \o deltas
<1>1. BlockStart(b) \in Events /\ n \in Nat
  BY EventsDistinct, LenProperties DEF Blocks
<1>2. CASE started
  <2>1. a = <<>> /\ a \in Seq(Events)
    BY <1>2 DEF When
  <2>2. s = deltas
    BY <2>1, ConcatEmptySeq
  <2>3. \A i \in 1 .. n : deltas[i] # BlockStart(b)
    BY BlockEvents
  <2>4. OneBlock(deltas, b, started) /\ ~Has(deltas, b)
    BY <1>2, <2>3 DEF OneBlock, Has
  <2>5. QED
    BY <1>2, <2>2, <2>4
<1>3. CASE ~started
  <2>1. a = <<BlockStart(b)>> /\ a \in Seq(Events) /\ Len(a) = 1 /\ a[1] = BlockStart(b)
    BY <1>1, <1>3 DEF When
  <2> HIDE DEF a
  <2>2. /\ s \in Seq(Events) /\ Len(s) = 1 + n
        /\ \A i \in 1 .. 1 + n : s[i] = IF i <= 1 THEN a[i] ELSE deltas[i - 1]
    BY <2>1, ConcatProperties
  <2> HIDE DEF s
  <2>3. /\ s[1] = BlockStart(b)
        /\ \A i \in 2 .. 1 + n : i - 1 \in 1 .. n /\ s[i] = deltas[i - 1]
    BY <1>1, <2>1, <2>2
  <2>4. \A i \in 2 .. 1 + n : /\ s[i].type = "content_block_delta" /\ s[i].block = b
                              /\ s[i] # BlockStart(b)
    BY <2>3, BlockEvents
  <2>5. \A i \in 1 .. 1 + n : i = 1 \/ i \in 2 .. 1 + n
    BY <1>1
  <2>6. \A i \in 1 .. Len(s) : s[i].type \in Content => s[i].block = b
    BY <2>2, <2>3, <2>4, <2>5, BlockEvents
  <2>7. \A i, j \in 1 .. Len(s) :
           s[i] = BlockStart(b) /\ s[j] = BlockStart(b) => i = j /\ ~started
    BY <1>3, <2>2, <2>4, <2>5
  <2>8. \A i \in 1 .. Len(s) : s[i].type = "content_block_delta" =>
           started \/ \E j \in 1 .. (i - 1) : s[j] = BlockStart(b)
    <3> SUFFICES ASSUME NEW i \in 1 .. Len(s), s[i].type = "content_block_delta"
                 PROVE  \E j \in 1 .. (i - 1) : s[j] = BlockStart(b)
      OBVIOUS
    <3>1. i # 1
      BY <2>3, BlockEvents
    <3>2. 1 \in 1 .. (i - 1)
      BY <1>1, <2>2, <3>1
    <3>3. QED
      BY <2>3, <3>2
  <2>9. Has(s, b)
    BY <1>1, <2>2, <2>3 DEF Has
  <2>10. QED
    BY <1>3, <2>2, <2>6, <2>7, <2>8, <2>9 DEF OneBlock, s, a
<1>4. QED
  BY <1>2, <1>3

(* What a line is translated to: content of one block, which is marked as  *)
(* started when it starts.                                                 *)
Framed ==
    \E b \in Blocks :
        /\ OneBlock(out', b, Started(b))
        /\ Started(b)' = (Started(b) \/ Has(out', b))
        /\ \A c \in Blocks \ {b} : Started(c)' = Started(c)

LEMMA NoContentFramed ==
    ASSUME TypeOK, out' \in Seq(Events), NoContent(out'),
           UNCHANGED <<blockStarted, toolStarted>>
    PROVE  Framed
<1>1. \A b \in Blocks : Started(b) \in BOOLEAN /\ Started(b)' = Started(b)
  BY DEF Started, TypeOK
<1>2. "text" \in Blocks
  BY DEF Blocks
<1>3. OneBlock(out', "text", Started("text")) /\ ~Has(out', "text")
  BY <1>1, <1>2, NothingFramed
<1>4. QED
  BY <1>1, <1>2, <1>3 DEF Framed

LEMMA TextFramed ==
    ASSUME TypeOK, NEW line, line.text \in Texts \cup {NoText, Garbled},
           line.role \in BOOLEAN, line.finish \in BOOLEAN,
           TranslateText(line)
    PROVE  Framed
<1> DEFINE hasText == line.text # NoText
           a == When(line.role /\ ~msgSent, MessageStart)
           b == When(hasText /\ ~blockStarted, BlockStart("text"))
           c == When(hasText, TextDelta(line.text))
           d == When(line.finish, MessageDelta)
           e == When(line.finish, MessageStop)
<1>1. a \in Seq(Events) /\ NoContent(a)
  BY WhenNoContent, EventsDistinct DEF TypeOK
<1>2. /\ d \in Seq(Events) /\ NoContent(d)
      /\ e \in Seq(Events) /\ NoContent(e)
  <2>1. MessageDelta.type \notin Content
    BY DEF MessageDelta, Event, Content
  <2>2. QED
    BY <2>1, WhenNoContent, EventsDistinct
<1>3. d \o e \in Seq(Events) /\ NoContent(d \o e)
  <2>1. /\ d \o e \in Seq(Events)
        /\ Len(d \o e) = Len(d) + Len(e)
        /\ \A i \in 1 .. Len(d) + Len(e) :
              (d \o e)[i] = IF i <= Len(d) THEN d[i] ELSE e[i - Len(d)]
    BY <1>2, ConcatProperties
  <2>2. Len(d) \in Nat /\ Len(e) \in Nat
    BY <1>2, LenProperties
  <2>3. QED
    BY <1>2, <2>1, <2>2 DEF NoContent
<1>4. "text" \in Blocks /\ blockStarted \in BOOLEAN /\ Started("text") = blockStarted
      /\ toolStarted' = toolStarted
      /\ Started("text")' = (blockStarted \/ hasText)
  BY DEF Blocks, Started, TypeOK, TranslateText
<1>5. /\ b \o c \in Seq(Events)
      /\ OneBlock(b \o c, "text", blockStarted)
      /\ Has(b \o c, "text") <=> hasText /\ ~blockStarted
  <2>1. CASE hasText
    <3>1. c = <<TextDelta(line.text)>> /\ TextDelta(line.text) \in Events
          /\ TextDelta(line.text).type = "content_block_delta"
          /\ TextDelta(line.text).block = "text"
          /\ b = When(~blockStarted, BlockStart("text"))
      BY <2>1, EventsDistinct DEF When, TextDelta, Event
    <3> HIDE DEF b, c
    <3>2. c \in Seq(Events) /\ Len(c) = 1 /\ c[1] = TextDelta(line.text)
      BY <3>1
    <3>3. \A i \in 1 .. Len(c) : c[i].type = "content_block_delta" /\ c[i].block = "text"
      BY <3>1, <3>2
    <3>4. /\ When(~blockStarted, BlockStart("text")) \o c \in Seq(Events)
          /\ OneBlock(When(~blockStarted, BlockStart("text")) \o c, "text", blockStarted)
          /\ Has(When(~blockStarted, BlockStart("text")) \o c, "text") <=> ~blockStarted
      BY <1>4, <3>2, <3>3, DeltasFramed
    <3>5. QED
      BY <2>1, <3>1, <3>4
  <2>2. CASE ~hasText
    <3>1. b = <<>> /\ c = <<>>
      BY <2>2 DEF When
    <3>2. b \o c = <<>> /\ <<>> \in Seq(Events) /\ Len(<<>>) = 0
      BY <3>1
    <3> HIDE DEF b, c
    <3>3. NoContent(b \o c) /\ b \o c \in Seq(Events)
      BY <3>2 DEF NoContent
    <3>4. QED
      BY <1>4, <2>2, <3>3, NothingFramed
  <2>3. QED
    BY <2>1, <2>2
<1>6. out' = a \o (b \o c) \o (d \o e)
  BY DEF TranslateText, TextEvents, FinishEvents
<1> HIDE DEF a, b, c, d, e, hasText
<1>7. /\ a \o (b \o c) \in Seq(Events)
      /\ OneBlock(a \o (b \o c), "text", blockStarted)
      /\ Has(a \o (b \o c), "text") <=> hasText /\ ~blockStarted
  BY <1>1, <1>4, <1>5, FramedBefore, ConcatProperties
<1>8. /\ OneBlock(out', "text", blockStarted)
      /\ Has(out', "text") <=> hasText /\ ~blockStarted
  BY <1>3, <1>4, <1>6, <1>7, FramedAfter
<1>9. Started("text")' = (Started("text") \/ Has(out', "text"))
  BY <1>4, <1>8 DEF hasText, Has
<1>10. \A x \in Blocks \ {"text"} : Started(x)' = Started(x)
  BY <1>4 DEF Blocks, Started
<1>11. QED
  BY <1>4, <1>8, <1>9, <1>10 DEF Framed

LEMMA ToolsFramed ==
    ASSUME TypeOK, NEW line, line.tools \in Nat, line.role \in BOOLEAN,
           TranslateTools(line)
    PROVE  Framed
<1> DEFINE a == When(line.role /\ ~msgSent, MessageStart)
           b == When(~toolStarted, BlockStart("tool_use"))
           c == [i \in 1 .. line.tools |-> ToolDelta]
<1>1. a \in Seq(Events) /\ NoContent(a)
  BY WhenNoContent, EventsDistinct DEF TypeOK
<1>2. c \in Seq(Events) /\ Len(c) = line.tools /\ \A i \in 1 .. line.tools : c[i] = ToolDelta
  <2>1. c \in [1 .. line.tools -> Events]
    BY EventsDistinct
  <2>2. QED
    BY <2>1
<1>3. ToolDelta.type = "content_block_delta" /\ ToolDelta.block = "tool_use"
  BY DEF ToolDelta, Event
<1>4. "tool_use" \in Blocks /\ toolStarted \in BOOLEAN /\ Started("tool_use") = toolStarted
      /\ blockStarted' = blockStarted
      /\ Started("tool_use")' = TRUE
  BY DEF Blocks, Started, TypeOK, TranslateTools
<1>5. out' = a \o b \o c
  BY DEF TranslateTools
<1>6. b \in Seq(Events)
  BY WhenNoStop, EventsDistinct DEF TypeOK
<1> HIDE DEF a, c
<1>7. \A i \in 1 .. Len(c) : c[i].type = "content_block_delta" /\ c[i].block = "tool_use"
  BY <1>2, <1>3
<1>8. /\ b \o c \in Seq(Events)
      /\ OneBlock(b \o c, "tool_use", toolStarted)
      /\ Has(b \o c, "tool_use") <=> ~toolStarted
  BY <1>2, <1>4, <1>7, DeltasFramed
<1> HIDE DEF b
<1>9. out' = a \o (b \o c)
  BY <1>1, <1>2, <1>5, <1>6, ConcatAssociative
<1>10. /\ OneBlock(out', "tool_use", toolStarted)
       /\ Has(out', "tool_use") <=> ~toolStarted
  BY <1>1, <1>4, <1>8, <1>9, FramedBefore
<1>11. Started("tool_use")' = (Started("tool_use") \/ Has(out', "tool_use"))
  BY <1>4, <1>10 DEF Has
<1>12. \A x \in Blocks \ {"tool_use"} : Started(x)' = Started(x)
  BY <1>4 DEF Blocks, Started
<1>13. QED
  BY <1>4, <1>10, <1>11, <1>12 DEF Framed

LEMMA LineFramed ==
    ASSUME TypeOK, out = <<>>, NEW line \in Lines,
           Translate(line) \/ Translate(Cut(line))
    PROVE  Framed
<1>1. CASE line = Silent
  <2>1. Cut(line) = line /\ line.kind = "silent" /\ line # Done
    BY <1>1 DEF Cut, Silent, Done
  <2>2. UNCHANGED <<flags, out>>
    BY <1>1, <2>1 DEF Translate
  <2>3. out' = <<>> /\ UNCHANGED <<blockStarted, toolStarted>>
    BY <2>2 DEF flags
  <2>4. out' \in Seq(Events) /\ NoContent(out')
    BY <2>3 DEF NoContent
  <2>5. QED
    BY <2>3, <2>4, NoContentFramed
<1>2. CASE line = Done
  <2>1. Cut(line) = line /\ line.kind = "done" /\ line # Silent
    BY <1>2 DEF Cut, Silent, Done
  <2>2. TranslateDone
    BY <1>2, <2>1 DEF Translate
  <2>3. out' \in Seq(Events) /\ NoContent(out') /\ UNCHANGED <<blockStarted, toolStarted>>
    BY <2>2, ClosingEvents DEF TranslateDone, TypeOK
  <2>4. QED
    BY <2>3, NoContentFramed
<1>3. CASE line \in Chunks
  <2>1. PICK l \in {line, Cut(line)} : Translate(l)
    OBVIOUS
  <2>2. /\ l.kind = "chunk" /\ l.role = line.role /\ l.finish = line.finish
        /\ l.tools = line.tools /\ l.text \in {line.text, Garbled}
        /\ l # Silent /\ l # Done
    BY <1>3 DEF Cut, Chunks, Chunk, Silent, Done
  <2>3. /\ l.role \in BOOLEAN /\ l.finish \in BOOLEAN /\ l.tools \in Nat
        /\ l.text \in Texts \cup {NoText, Garbled}
    BY <1>3, <2>2, ChunkFields, BoundsAssumption
  <2>4. CASE TranslateTools(l)
    BY <2>3, <2>4, ToolsFramed
  <2>5. CASE TranslateText(l)
    BY <2>3, <2>5, TextFramed
  <2>6. QED
    BY <2>1, <2>2, <2>4, <2>5 DEF Translate
<1>4. QED
  BY <1>1, <1>2, <1>3 DEF Lines

-----------------------------------------------------------------------------
(* The framing of the whole stream *)

(* The first event is the first the generator yields.                      *)
First ==
    /\ got # <<>> => got[1] = MessageStart
    /\ got = <<>> => phase = "left" \/ (phase = "reading" /\ out = <<MessageStart>>)

(* finally yields a stop as its last event.                                *)
Last ==
    /\ phase = "closing" /\ out # <<>> => out[Len(out)] = MessageStop
    /\ phase = "closing" /\ out = <<>> => got # <<>> /\ got[Len(got)] = MessageStop
    /\ phase = "ended" => got # <<>> /\ got[Len(got)] = MessageStop

(* A delta still to come has its block started before it, ...              *)
OutInBlocks ==
    \A i \in 1 .. Len(out) : out[i].type = "content_block_delta" =>
        \/ Has(got, out[i].block)
        \/ \E j \in 1 .. (i - 1) : out[j] = BlockStart(out[i].block)

(* ... which happens once in all, ...                                      *)
OutStartsOnce ==
    /\ \A b \in Blocks : \A i, j \in 1 .. Len(out) :
          out[i] = BlockStart(b) /\ out[j] = BlockStart(b) => i = j
    /\ \A b \in Blocks : ~(Has(got, b) /\ Has(out, b))

(* ... and the generator knows which blocks it started.                    *)
FlagsTell ==
    \A b \in Blocks :
        /\ Has(got, b) \/ Has(out, b) => Started(b)
        /\ phase = "reading" /\ Started(b) => Has(got, b) \/ Has(out, b)

FInv ==
    /\ First /\ Last
    /\ DeltasInBlocks /\ BlocksStartOnce
    /\ OutInBlocks /\ OutStartsOnce /\ FlagsTell

LEMMA InitFInv == ASSUME Init PROVE FInv
<1>1. /\ Len(out) = 1 /\ out[1] = MessageStart /\ Len(got) = 0 /\ got = <<>>
      /\ out = <<MessageStart>> /\ phase = "reading" /\ ~blockStarted /\ ~toolStarted
  BY DEF Init
<1>2. /\ MessageStart.type = "message_start"
      /\ \A b \in Blocks : MessageStart # BlockStart(b)
  BY BlockEvents DEF MessageStart, Event
<1>3. First /\ Last
  BY <1>1 DEF First, Last
<1>4. DeltasInBlocks /\ BlocksStartOnce
  BY <1>1 DEF DeltasInBlocks, BlocksStartOnce
<1>5. OutInBlocks
  BY <1>1, <1>2 DEF OutInBlocks
<1>6. \A b \in Blocks : ~Has(got, b) /\ ~Has(out, b)
  BY <1>1, <1>2 DEF Has
<1>7. OutStartsOnce
  BY <1>1, <1>6 DEF OutStartsOnce
<1>8. FlagsTell
  BY <1>1, <1>6 DEF FlagsTell, Started
<1>9. QED
  BY <1>3, <1>4, <1>5, <1>7, <1>8 DEF FInv

(* The events of a line are framed after all that was taken before.        *)
LEMMA FramedKeeps ==
    ASSUME TypeOK, FInv, Awaiting, Framed, out' \in Seq(Events), UNCHANGED <<phase, got>>
    PROVE  FInv'
<1> USE DEF FInv
<1>0. phase = "reading" /\ out = <<>> /\ phase' = "reading" /\ got' = got /\ Len(out) = 0
      /\ got # <<>>
  BY DEF Awaiting, First
<1>1. PICK b \in Blocks :
         /\ OneBlock(out', b, Started(b))
         /\ Started(b)' = (Started(b) \/ Has(out', b))
         /\ \A c \in Blocks \ {b} : Started(c)' = Started(c)
  BY DEF Framed
<1>2. \A c \in Blocks : ~Has(out, c) /\ (Started(c) <=> Has(got, c)) /\ Started(c) \in BOOLEAN
  BY <1>0 DEF FlagsTell, Has, Started, TypeOK
<1>3. \A c \in Blocks : Has(got', c) <=> Has(got, c)
  BY <1>0
<1>4. \A c \in Blocks \ {b} : ~Has(out', c)
  BY <1>1, BlockEvents DEF OneBlock, Has, Content
<1>5. First' /\ Last'
  BY <1>0 DEF First, Last
<1>6. DeltasInBlocks' /\ BlocksStartOnce'
  BY <1>0 DEF DeltasInBlocks, BlocksStartOnce
<1>7. OutInBlocks'
  <2> SUFFICES ASSUME NEW i \in 1 .. Len(out'), out'[i].type = "content_block_delta",
                      ~Has(got', out'[i].block)
               PROVE  \E j \in 1 .. (i - 1) : out'[j] = BlockStart(out'[i].block)
    BY DEF OutInBlocks
  <2>1. out'[i].block = b
    BY <1>1 DEF OneBlock, Content
  <2>2. ~Started(b)
    BY <1>2, <1>3, <2>1
  <2>3. QED
    BY <1>1, <2>1, <2>2 DEF OneBlock
<1>8. OutStartsOnce'
  <2>1. \A i, j \in 1 .. Len(out') :
           out'[i] = BlockStart(b) /\ out'[j] = BlockStart(b) => i = j
    BY <1>1 DEF OneBlock
  <2>2. Has(out', b) => ~Started(b)
    BY <1>1 DEF OneBlock, Has
  <2>3. \A c \in Blocks : ~(Has(got', c) /\ Has(out', c))
    BY <1>2, <1>3, <1>4, <2>2
  <2>4. \A c \in Blocks : \A i, j \in 1 .. Len(out') :
           out'[i] = BlockStart(c) /\ out'[j] = BlockStart(c) => i = j
    BY <1>4, <2>1 DEF Has
  <2>5. QED
    BY <2>3, <2>4 DEF OutStartsOnce
<1>9. FlagsTell'
  <2>1. \A c \in Blocks : Started(c)' <=> Has(got', c) \/ Has(out', c)
    BY <1>1, <1>2, <1>3, <1>4
  <2>2. QED
    BY <2>1 DEF FlagsTell
<1>10. QED
  BY <1>5, <1>6, <1>7, <1>8, <1>9

LEMMA SameFraming ==
    ASSUME FInv, UNCHANGED <<blockStarted, toolStarted, phase, out, got>>
    PROVE  FInv'
<1>1. First' /\ Last'
  BY DEF FInv, First, Last
<1>2. DeltasInBlocks' /\ BlocksStartOnce' /\ OutInBlocks' /\ OutStartsOnce' /\ FlagsTell'
  BY DEF FInv, DeltasInBlocks, BlocksStartOnce, OutInBlocks, OutStartsOnce, FlagsTell,
       Has, Started
<1>3. QED
  BY <1>1, <1>2 DEF FInv

LEMMA FinallyFramed == ASSUME TypeOK, FInv, Finally PROVE FInv'
<1> USE DEF FInv
<1>1. /\ phase = "reading" /\ out = <<>> /\ phase' = "closing"
      /\ out' = When(~msgSent, MessageStart) \o <<MessageStop>>
      /\ UNCHANGED <<blockStarted, toolStarted, got>>
  BY DEF Finally, Awaiting, flags
<1>2. out' \in Seq(Events) /\ NoContent(out')
  BY <1>1, ClosingEvents DEF TypeOK
<1>3. out' # <<>> /\ out'[Len(out')] = MessageStop
  <2> DEFINE a == When(~msgSent, MessageStart)
             t == <<MessageStop>>
  <2>0. a \in Seq(Events)
    BY WhenNoStop, EventsDistinct DEF TypeOK
  <2>1. a \in Seq(Events) /\ t \in Seq(Events) /\ Len(t) = 1 /\ t[1] = MessageStop
    BY <2>0, EventsDistinct
  <2>2. out' = a \o t
    BY <1>1
  <2> HIDE DEF a, t
  <2>3. Len(a) \in Nat
    BY <2>1, LenProperties
  <2>4. /\ Len(out') = Len(a) + 1
        /\ \A i \in 1 .. Len(a) + 1 : out'[i] = IF i <= Len(a) THEN a[i] ELSE t[i - Len(a)]
    BY <2>1, <2>2, ConcatProperties
  <2>5. out'[Len(a) + 1] = MessageStop
    BY <2>1, <2>3, <2>4
  <2>6. out' # <<>>
    BY <2>3, <2>4
  <2>7. QED
    BY <2>4, <2>5, <2>6
<1>4. got # <<>>
  BY <1>1 DEF First
<1>5. First' /\ Last'
  BY <1>1, <1>3, <1>4 DEF First, Last
<1>6. DeltasInBlocks' /\ BlocksStartOnce'
  BY <1>1 DEF DeltasInBlocks, BlocksStartOnce
<1>7. \A i \in 1 .. Len(out') : out'[i].type \notin Content
                                 /\ \A b \in Blocks : out'[i] # BlockStart(b)
  BY <1>2, BlockEvents DEF NoContent, Content
<1>8. OutInBlocks' /\ OutStartsOnce'
  BY <1>7 DEF OutInBlocks, OutStartsOnce, Has, Content
<1>9. FlagsTell'
  BY <1>1, <1>7 DEF FlagsTell, Has, Started
<1>10. QED
  BY <1>5, <1>6, <1>8, <1>9

LEMMA YieldFramed == ASSUME TypeOK, FInv, Yield PROVE FInv'
<1> USE DEF FInv
<1> DEFINE n == Len(got)
           m == Len(out)
<1>1. /\ got \in Seq(Events) /\ out \in Seq(Events) /\ out # <<>>
      /\ got' = Append(got, Head(out)) /\ out' = Tail(out)
      /\ UNCHANGED <<blockStarted, toolStarted, phase>>
      /\ phase \in {"reading", "closing"}
  BY DEF Yield, TypeOK, flags
<1>2. /\ n \in Nat /\ m \in Nat \ {0}
      /\ Len(got') = n + 1 /\ got' # <<>> /\ got' \in Seq(Events)
      /\ \A i \in 1 .. n : got'[i] = got[i]
      /\ got'[n + 1] = out[1]
  BY <1>1
<1>3. /\ out' \in Seq(Events) /\ Len(out') = m - 1
      /\ \A i \in 1 .. m - 1 : out'[i] = out[i + 1]
      /\ out' = <<>> <=> m = 1
  <2>1. /\ out' \in Seq(Events) /\ Len(out') = m - 1
        /\ \A i \in 1 .. m - 1 : out'[i] = out[i + 1]
    BY <1>1
  <2>2. out' = <<>> <=> Len(out') = 0
    BY <2>1
  <2>3. QED
    BY <1>2, <2>1, <2>2
<1>4. out[1] \in Events /\ \A b \in Blocks : Started(b)' = Started(b)
  BY <1>1, <1>2 DEF Started
<1>5. got = <<>> => n = 0
  OBVIOUS
<1>6. \A i \in 1 .. n : got[i] \in Events
  BY <1>1
<1>7. n = 0 => got = <<>>
  BY <1>1
<1> HIDE DEF n, m
<1>8. \A b \in Blocks : Has(got', b) <=> Has(got, b) \/ out[1] = BlockStart(b)
  <2> SUFFICES ASSUME NEW b \in Blocks
               PROVE  Has(got', b) <=> Has(got, b) \/ out[1] = BlockStart(b)
    OBVIOUS
  <2>1. \A i \in 1 .. n + 1 : i \in 1 .. n \/ i = n + 1
    BY <1>2
  <2>2. n + 1 \in 1 .. n + 1 /\ \A i \in 1 .. n : i \in 1 .. n + 1
    BY <1>2
  <2>3. QED
    BY <1>2, <2>1, <2>2 DEF Has, n
<1>9. \A i \in 1 .. m - 1 : i + 1 \in 1 .. m /\ out'[i] = out[i + 1]
  BY <1>2, <1>3
<1>10. \A b \in Blocks : Has(out, b) <=> Has(out', b) \/ out[1] = BlockStart(b)
  <2> SUFFICES ASSUME NEW b \in Blocks
               PROVE  Has(out, b) <=> Has(out', b) \/ out[1] = BlockStart(b)
    OBVIOUS
  <2>1. \A i \in 1 .. m : i = 1 \/ (i - 1 \in 1 .. m - 1 /\ out'[i - 1] = out[i])
    BY <1>2, <1>3
  <2>2. 1 \in 1 .. m
    BY <1>2
  <2>3. QED
    BY <1>3, <1>9, <2>1, <2>2 DEF Has, m
<1>11. First'
  <2>1. CASE n = 0
    BY <1>1, <1>2, <1>7, <2>1 DEF First
  <2>2. CASE n # 0
    <3>1. 1 \in 1 .. n /\ got # <<>>
      BY <1>2, <1>5, <2>2
    <3>2. QED
      BY <1>2, <3>1 DEF First
  <2>3. QED
    BY <2>1, <2>2
<1>12. Last'
  <2>1. CASE phase = "closing"
    <3>1. out[m] = MessageStop
      BY <1>1, <2>1 DEF Last, m
    <3>2. CASE m = 1
      <4>1. got'[Len(got')] = MessageStop
        BY <1>2, <3>1, <3>2
      <4>2. out' = <<>>
        BY <1>3, <3>2
      <4>3. QED
        BY <1>1, <1>2, <2>1, <4>1, <4>2 DEF Last
    <3>3. CASE m # 1
      <4>1. m - 1 \in 1 .. m - 1 /\ (m - 1) + 1 = m
        BY <1>2, <3>3
      <4>2. out'[Len(out')] = MessageStop /\ out' # <<>>
        BY <1>3, <3>1, <3>3, <4>1
      <4>3. QED
        BY <1>1, <2>1, <4>2 DEF Last
    <3>4. QED
      BY <3>2, <3>3
  <2>2. CASE phase = "reading"
    BY <1>1, <2>2 DEF Last
  <2>3. QED
    BY <1>1, <2>1, <2>2
<1>13. DeltasInBlocks'
  <2> SUFFICES ASSUME NEW i \in 1 .. n + 1, got'[i].type = "content_block_delta"
               PROVE  \E j \in 1 .. (i - 1) : got'[j] = BlockStart(got'[i].block)
    BY <1>2 DEF DeltasInBlocks
  <2>1. CASE i \in 1 .. n
    <3>1. PICK j \in 1 .. (i - 1) : got[j] = BlockStart(got[i].block)
      BY <1>1, <1>2, <2>1 DEF DeltasInBlocks, n
    <3>2. j \in 1 .. n
      BY <1>2, <2>1, <3>1
    <3>3. QED
      BY <1>2, <2>1, <3>1, <3>2
  <2>2. CASE i = n + 1
    <3>1. 1 \in 1 .. m /\ out[1].type = "content_block_delta"
      BY <1>2, <2>2
    <3>2. Has(got, out[1].block)
      BY <3>1 DEF OutInBlocks, m
    <3>3. PICK j \in 1 .. n : got[j] = BlockStart(out[1].block)
      BY <3>2 DEF Has, n
    <3>4. j \in 1 .. (i - 1)
      BY <1>2, <2>2
    <3>5. QED
      BY <1>2, <2>2, <3>3, <3>4
  <2>3. QED
    BY <1>2, <2>1, <2>2
<1>14. BlocksStartOnce'
  <2> SUFFICES ASSUME NEW i \in 1 .. n + 1, NEW j \in 1 .. n + 1,
                      got'[i].type = "content_block_start", got'[i] = got'[j]
               PROVE  i = j
    BY <1>2 DEF BlocksStartOnce
  <2>1. got'[i] \in Events
    BY <1>2, <1>4, <1>6
  <2>2. PICK b \in Blocks : got'[i] = BlockStart(b)
    BY <2>1, BlockEvents
  <2>3. out[1] = BlockStart(b) => Has(out, b) /\ ~Has(got, b)
    BY <1>10 DEF OutStartsOnce
  <2>4. CASE i \in 1 .. n /\ j \in 1 .. n
    BY <1>1, <1>2, <2>4 DEF BlocksStartOnce, n
  <2>5. CASE i \in 1 .. n /\ j = n + 1
    BY <1>2, <2>2, <2>3, <2>5 DEF Has, n
  <2>6. CASE i = n + 1 /\ j \in 1 .. n
    BY <1>2, <2>2, <2>3, <2>6 DEF Has, n
  <2>7. QED
    BY <1>2, <2>4, <2>5, <2>6
<1>15. OutInBlocks'
  <2> SUFFICES ASSUME NEW i \in 1 .. m - 1, out'[i].type = "content_block_delta",
                      ~Has(got', out'[i].block)
               PROVE  \E j \in 1 .. (i - 1) : out'[j] = BlockStart(out'[i].block)
    BY <1>3 DEF OutInBlocks
  <2> DEFINE b == out'[i].block
  <2>1. i + 1 \in 1 .. m /\ out[i + 1] = out'[i] /\ out[i + 1] \in Events
    BY <1>1, <1>9 DEF m
  <2>2. b \in Blocks
    BY <2>1, BlockEvents
  <2>3. ~Has(got, b) /\ out[1] # BlockStart(b)
    BY <1>8, <2>2
  <2>4. PICK j \in 1 .. i : out[j] = BlockStart(b)
    <3>1. (i + 1) - 1 = i
      BY <1>2
    <3>2. QED
      BY <2>1, <2>3, <3>1 DEF OutInBlocks, m
  <2>5. j # 1
    BY <2>3, <2>4
  <2>6. j - 1 \in 1 .. (i - 1) /\ j - 1 \in 1 .. m - 1 /\ (j - 1) + 1 = j
    BY <1>2, <2>4, <2>5
  <2>7. out'[j - 1] = BlockStart(b)
    BY <1>9, <2>4, <2>6
  <2>8. QED
    BY <2>6, <2>7
<1>16. OutStartsOnce'
  <2>1. ASSUME NEW b \in Blocks, NEW i \in 1 .. m - 1, NEW j \in 1 .. m - 1,
               out'[i] = BlockStart(b), out'[j] = BlockStart(b)
        PROVE  i = j
    <3>1. /\ i + 1 \in 1 .. m /\ j + 1 \in 1 .. m
          /\ out[i + 1] = BlockStart(b) /\ out[j + 1] = BlockStart(b)
      BY <1>9, <2>1
    <3>2. i + 1 = j + 1
      BY <3>1 DEF OutStartsOnce, m
    <3>3. QED
      BY <1>2, <3>2
  <2>2. ASSUME NEW b \in Blocks, Has(got', b), Has(out', b)
        PROVE  FALSE
    <3>1. Has(out, b)
      BY <1>10, <2>2
    <3>2. out[1] = BlockStart(b)
      BY <1>8, <2>2, <3>1 DEF OutStartsOnce
    <3>3. PICK i \in 1 .. m - 1 : out'[i] = BlockStart(b)
      BY <1>3, <2>2 DEF Has
    <3>4. i + 1 \in 1 .. m /\ out[i + 1] = BlockStart(b) /\ 1 \in 1 .. m /\ i + 1 # 1
      BY <1>2, <1>9, <3>3
    <3>5. QED
      BY <3>2, <3>4 DEF OutStartsOnce, m
  <2>3. QED
    BY <1>3, <2>1, <2>2 DEF OutStartsOnce
<1>17. FlagsTell'
  <2>1. \A b \in Blocks : Has(got', b) \/ Has(out', b) <=> Has(got, b) \/ Has(out, b)
    BY <1>8, <1>10
  <2>2. QED
    BY <1>1, <1>4, <2>1 DEF FlagsTell
<1>18. QED
  BY <1>11, <1>12, <1>13, <1>14, <1>15, <1>16, <1>17

LEMMA NextFInv == ASSUME IInv, FInv, [Next]_vars PROVE FInv'
<1>0. TypeOK
  BY DEF IInv
<1>1. ASSUME NEW line \in Lines, Receive(line) PROVE FInv'
  <2>1. Awaiting /\ out = <<>> /\ Translate(line) /\ UNCHANGED <<phase, got>>
    BY <1>1 DEF Receive, Awaiting
  <2>2. Framed /\ out' \in Seq(Events)
    BY <1>0, <2>1, LineFramed, Translated
  <2>3. QED
    BY <1>0, <2>1, <2>2, FramedKeeps
<1>2. ASSUME NEW line \in Lines, ReceivePart(line) PROVE FInv'
  BY <1>2, SameFraming DEF ReceivePart, flags
<1>3. CASE ReceiveRest
  <2>1. Awaiting /\ out = <<>> /\ buf \in Lines /\ (Translate(buf) \/ Translate(Cut(buf)))
        /\ UNCHANGED <<phase, got>>
    BY <1>0, <1>3 DEF ReceiveRest, Awaiting, TypeOK, Lines
  <2>2. Framed /\ out' \in Seq(Events)
    BY <1>0, <2>1, LineFramed, Translated
  <2>3. QED
    BY <1>0, <2>1, <2>2, FramedKeeps
<1>4. CASE Finally
  BY <1>0, <1>4, FinallyFramed
<1>5. CASE Close
  <2>1. /\ phase = "closing" /\ out = <<>> /\ phase' = "ended"
        /\ UNCHANGED <<blockStarted, toolStarted, out, got>>
    BY <1>5 DEF Close, flags
  <2>2. First' /\ Last'
    BY <2>1 DEF FInv, First, Last
  <2>3. DeltasInBlocks' /\ BlocksStartOnce' /\ OutInBlocks' /\ OutStartsOnce' /\ FlagsTell'
    BY <2>1 DEF FInv, DeltasInBlocks, BlocksStartOnce, OutInBlocks, OutStartsOnce, FlagsTell,
         Has, Started
  <2>4. QED
    BY <2>2, <2>3 DEF FInv
<1>6. CASE Yield
  BY <1>0, <1>6, YieldFramed
<1>7. CASE Leave
  <2>1. /\ phase' = "left" /\ out' = <<>> /\ Len(out') = 0
        /\ UNCHANGED <<blockStarted, toolStarted, got>>
    BY <1>7 DEF Leave, flags
  <2>2. First' /\ Last'
    BY <2>1 DEF FInv, First, Last
  <2>3. DeltasInBlocks' /\ BlocksStartOnce' /\ OutInBlocks' /\ OutStartsOnce'
    BY <2>1 DEF FInv, DeltasInBlocks, BlocksStartOnce, OutInBlocks, OutStartsOnce, Has
  <2>4. FlagsTell'
    BY <2>1 DEF FInv, FlagsTell, Has, Started
  <2>5. QED
    BY <2>2, <2>3, <2>4 DEF FInv
<1>8. CASE UNCHANGED vars
  BY <1>8, SameFraming DEF vars, flags
<1>9. QED
  BY <1>1, <1>2, <1>3, <1>4, <1>5, <1>6, <1>7, <1>8 DEF Next, Lines

(* However the provider's lines are cut and wherever its answer breaks     *)
(* off, the client can assemble what it takes: the first event starts the  *)
(* message, every delta comes after the only start of its block, and a     *)
(* stream that was not left ends with a stop.                              *)
THEOREM WellFramedCorrect == Spec => []WellFramed
<1>1. IInv /\ FInv => WellFramed
  <2> SUFFICES ASSUME IInv, FInv PROVE WellFramed
    OBVIOUS
  <2>1. StartsFirst /\ EndsWithStop
    BY DEF FInv, First, Last, StartsFirst, EndsWithStop
  <2>2. QED
    BY <2>1 DEF FInv, WellFramed
<1>2. Init => IInv /\ FInv
  BY InitIInv, InitFInv
<1>3. IInv /\ FInv /\ [Next]_vars => (IInv /\ FInv)'
  BY NextIInv, NextFInv
<1>4. QED
  BY <1>1, <1>2, <1>3, PTL DEF Spec

-----------------------------------------------------------------------------
(* Every text is passed on: the events of a line hold its text, once, or   *)
(* none, and what the client takes stays before what is still to come.     *)
NoTexts(s) == \A i \in 1 .. Len(s) : ~IsText(s[i])

OneText(s, word) ==
    \E k \in 1 .. Len(s) :
        /\ IsText(s[k]) /\ s[k].text \in {word, Garbled}
        /\ \A i \in 1 .. Len(s) : IsText(s[i]) => i = k

(* What the events of the translation are to a reader of texts             *)
LEMMA TextEventsTold ==
    /\ ~IsText(MessageStart) /\ ~IsText(MessageStop) /\ ~IsText(MessageDelta)
    /\ ~IsText(ToolDelta) /\ \A b : ~IsText(BlockStart(b))
    /\ \A t : IsText(TextDelta(t)) /\ TextDelta(t).text = t
  BY DEF IsText, MessageStart, MessageStop, MessageDelta, ToolDelta, BlockStart, TextDelta, Event

LEMMA WhenNoTexts ==
    ASSUME NEW cond \in BOOLEAN, NEW event, cond => event \in Events /\ ~IsText(event)
    PROVE  When(cond, event) \in Seq(Events) /\ NoTexts(When(cond, event))
<1>1. CASE cond
  <2>1. When(cond, event) = <<event>> /\ event \in Events /\ ~IsText(event)
    BY <1>1 DEF When
  <2>2. QED
    BY <2>1 DEF NoTexts
<1>2. CASE ~cond
  <2>1. When(cond, event) = <<>>
    BY <1>2 DEF When
  <2>2. QED
    BY <2>1 DEF NoTexts
<1>3. QED
  BY <1>1, <1>2

LEMMA ConcatTexts ==
    ASSUME NEW s \in Seq(Events), NEW t \in Seq(Events), NEW word
    PROVE  /\ s \o t \in Seq(Events)
           /\ NoTexts(s) /\ NoTexts(t) => NoTexts(s \o t)
           /\ NoTexts(s) /\ OneText(t, word) => OneText(s \o t, word)
           /\ OneText(s, word) /\ NoTexts(t) => OneText(s \o t, word)
<1>1. /\ s \o t \in Seq(Events)
      /\ Len(s \o t) = Len(s) + Len(t)
      /\ \A i \in 1 .. Len(s) + Len(t) :
            (s \o t)[i] = IF i <= Len(s) THEN s[i] ELSE t[i - Len(s)]
  BY ConcatProperties
<1>2. Len(s) \in Nat /\ Len(t) \in Nat
  BY LenProperties
<1>3. NoTexts(s) /\ NoTexts(t) => NoTexts(s \o t)
  BY <1>1, <1>2 DEF NoTexts
<1>4. ASSUME NoTexts(s), OneText(t, word) PROVE OneText(s \o t, word)
  <2>1. PICK k \in 1 .. Len(t) :
           /\ IsText(t[k]) /\ t[k].text \in {word, Garbled}
           /\ \A i \in 1 .. Len(t) : IsText(t[i]) => i = k
    BY <1>4 DEF OneText
  <2>2. Len(s) + k \in 1 .. Len(s \o t) /\ (s \o t)[Len(s) + k] = t[k]
    BY <1>1, <1>2
  <2>3. ASSUME NEW i \in 1 .. Len(s \o t), IsText((s \o t)[i]) PROVE i = Len(s) + k
    <3>1. ~(i <= Len(s))
      <4>1. i <= Len(s) => i \in 1 .. Len(s) /\ (s \o t)[i] = s[i]
        BY <1>1, <1>2
      <4>2. QED
        BY <1>4, <2>3, <4>1 DEF NoTexts
    <3>2. i - Len(s) \in 1 .. Len(t) /\ (s \o t)[i] = t[i - Len(s)]
      BY <1>1, <1>2, <3>1
    <3>3. i - Len(s) = k
      BY <2>1, <2>3, <3>2
    <3>4. QED
      BY <1>1, <1>2, <3>3
  <2>4. QED
    BY <2>1, <2>2, <2>3 DEF OneText
<1>5. ASSUME OneText(s, word), NoTexts(t) PROVE OneText(s \o t, word)
  <2>1. PICK k \in 1 .. Len(s) :
           /\ IsText(s[k]) /\ s[k].text \in {word, Garbled}
           /\ \A i \in 1 .. Len(s) : IsText(s[i]) => i = k
    BY <1>5 DEF OneText
  <2>2. k \in 1 .. Len(s \o t) /\ (s \o t)[k] = s[k]
    BY <1>1, <1>2
  <2>3. \A i \in 1 .. Len(s \o t) : IsText((s \o t)[i]) => i = k
    BY <1>1, <1>2, <1>5, <2>1 DEF NoTexts
  <2>4. QED
    BY <2>1, <2>2, <2>3 DEF OneText
<1>6. QED
  BY <1>1, <1>3, <1>4, <1>5

(* Events without a text leave what was passed, ...                        *)
LEMMA NothingPassed ==
    ASSUME NEW s \in Seq(Events), NEW t \in Seq(Events), NEW words,
           Passed(s, words), NoTexts(t)
    PROVE  Passed(s \o t, words)
<1> DEFINE all == s \o t
<1>1. /\ Len(all) = Len(s) + Len(t)
      /\ \A i \in 1 .. Len(s) + Len(t) : all[i] = IF i <= Len(s) THEN s[i] ELSE t[i - Len(s)]
  BY ConcatProperties
<1>2. Len(s) \in Nat /\ Len(t) \in Nat
  BY LenProperties
<1> HIDE DEF all
<1>3. \A i \in 1 .. Len(s) : all[i] = s[i] /\ i \in 1 .. Len(all)
  BY <1>1, <1>2
<1>4. TextsUpTo(all, Len(all)) = TextsUpTo(s, Len(s))
  BY <1>1, <1>2 DEF TextsUpTo, NoTexts
<1>5. \A i \in 1 .. Len(s) : TextsUpTo(all, i) = TextsUpTo(s, i)
  BY <1>1, <1>2 DEF TextsUpTo
<1>6. \A i \in TextsUpTo(s, Len(s)) : i \in 1 .. Len(s)
  BY DEF TextsUpTo
<1>7. QED
  BY <1>3, <1>4, <1>5, <1>6 DEF Passed, all

LEMMA TextsFinite ==
    ASSUME NEW s, NEW n \in Nat
    PROVE  IsFiniteSet(TextsUpTo(s, n)) /\ Cardinality(TextsUpTo(s, n)) \in 0 .. n
<1>1. IsFiniteSet(1 .. n) /\ Cardinality(1 .. n) = n
  BY FS_Interval
<1>2. TextsUpTo(s, n) \subseteq 1 .. n
  BY DEF TextsUpTo
<1>3. IsFiniteSet(TextsUpTo(s, n)) /\ Cardinality(TextsUpTo(s, n)) <= n
  BY <1>1, <1>2, FS_Subset
<1>4. QED
  BY <1>3, FS_CardinalityType

(* ... and events with one text pass on one more.                          *)
LEMMA WordPassed ==
    ASSUME NEW s \in Seq(Events), NEW t \in Seq(Events), NEW words \in Seq(Texts),
           NEW word \in Texts, Passed(s, words), OneText(t, word)
    PROVE  Passed(s \o t, Append(words, word))
<1> DEFINE all == s \o t
           more == Append(words, word)
           old == TextsUpTo(s, Len(s))
<1>1. /\ Len(all) = Len(s) + Len(t)
      /\ \A i \in 1 .. Len(s) + Len(t) : all[i] = IF i <= Len(s) THEN s[i] ELSE t[i - Len(s)]
  BY ConcatProperties
<1>2. Len(s) \in Nat /\ Len(t) \in Nat
  BY LenProperties
<1>3. /\ Len(words) \in Nat /\ Len(more) = Len(words) + 1
      /\ \A n \in 1 .. Len(words) : more[n] = words[n]
      /\ more[Len(words) + 1] = word
  OBVIOUS
<1>4. PICK k \in 1 .. Len(t) :
         /\ IsText(t[k]) /\ t[k].text \in {word, Garbled}
         /\ \A i \in 1 .. Len(t) : IsText(t[i]) => i = k
  BY DEF OneText
<1> DEFINE last == Len(s) + k
<1> HIDE DEF all, more
<1>5. last \in 1 .. Len(all) /\ all[last] = t[k] /\ last > Len(s)
  BY <1>1, <1>2
<1>6. \A i \in 1 .. Len(s) : all[i] = s[i]
  BY <1>1, <1>2
<1>7. ASSUME NEW i \in 1 .. Len(all), i > Len(s), IsText(all[i]) PROVE i = last
  <2>1. i - Len(s) \in 1 .. Len(t) /\ all[i] = t[i - Len(s)]
    BY <1>1, <1>2, <1>7
  <2>2. i - Len(s) = k
    BY <1>4, <1>7, <2>1
  <2>3. QED
    BY <1>1, <1>2, <2>2
<1>8. TextsUpTo(all, Len(all)) = old \cup {last}
  BY <1>1, <1>2, <1>4, <1>5, <1>6, <1>7 DEF TextsUpTo
<1>9. TextsUpTo(all, last) = old \cup {last}
  BY <1>1, <1>2, <1>4, <1>5, <1>6, <1>7 DEF TextsUpTo
<1>10. \A i \in 1 .. Len(s) : TextsUpTo(all, i) = TextsUpTo(s, i)
  BY <1>2, <1>6 DEF TextsUpTo
<1>11. /\ IsFiniteSet(old) /\ last \notin old
       /\ \A i \in old : i \in 1 .. Len(s)
  <2>1. IsFiniteSet(old)
    BY <1>2, TextsFinite
  <2>2. \A i \in old : i \in 1 .. Len(s)
    BY DEF TextsUpTo
  <2>3. last \notin old
    BY <1>2, <1>5, <2>2
  <2>4. QED
    BY <2>1, <2>2, <2>3
<1>12. Cardinality(old \cup {last}) = Len(words) + 1
  <2>1. Cardinality(old \cup {last}) = Cardinality(old) + 1
    BY <1>11, FS_AddElement
  <2>2. QED
    BY <2>1 DEF Passed
<1>13. ASSUME NEW i \in old
       PROVE  all[i].text \in {more[Cardinality(TextsUpTo(all, i))], Garbled}
  <2>1. i \in 1 .. Len(s) /\ IsText(s[i])
    BY DEF TextsUpTo
  <2>2. i \in TextsUpTo(s, i) /\ TextsUpTo(s, i) \subseteq old
    BY <1>2, <2>1 DEF TextsUpTo
  <2>3. /\ Cardinality(TextsUpTo(s, i)) <= Cardinality(old)
        /\ IsFiniteSet(TextsUpTo(s, i))
    BY <1>11, <2>2, FS_Subset
  <2>4. Cardinality(TextsUpTo(s, i)) # 0 /\ Cardinality(TextsUpTo(s, i)) \in Nat
    BY <2>2, <2>3, FS_CardinalityType, FS_EmptySet
  <2>5. Cardinality(TextsUpTo(s, i)) \in 1 .. Len(words)
    BY <1>3, <2>3, <2>4 DEF Passed
  <2>6. s[i].text \in {words[Cardinality(TextsUpTo(s, i))], Garbled}
    BY DEF Passed
  <2>7. QED
    BY <1>3, <1>6, <1>10, <2>1, <2>5, <2>6
<1>14. all[last].text \in {more[Cardinality(TextsUpTo(all, last))], Garbled}
  BY <1>3, <1>4, <1>5, <1>9, <1>12
<1>15. QED
  BY <1>3, <1>8, <1>12, <1>13, <1>14 DEF Passed, all, more

(* The text of a chunk is in its events, once, or was garbled.             *)
LEMMA TextTold ==
    ASSUME TypeOK, NEW line, line.text \in Texts \cup {NoText, Garbled},
           line.role \in BOOLEAN, line.finish \in BOOLEAN, TranslateText(line), NEW word,
           line.text \in {word, Garbled}
    PROVE  IF line.text = NoText THEN NoTexts(out') ELSE OneText(out', word)
<1> DEFINE hasText == line.text # NoText
           a == When(line.role /\ ~msgSent, MessageStart)
           b == When(hasText /\ ~blockStarted, BlockStart("text"))
           c == When(hasText, TextDelta(line.text))
           d == When(line.finish, MessageDelta)
           e == When(line.finish, MessageStop)
<1>1. a \in Seq(Events) /\ NoTexts(a)
  BY WhenNoTexts, EventsDistinct, TextEventsTold DEF TypeOK
<1>2. b \in Seq(Events) /\ NoTexts(b)
  BY WhenNoTexts, EventsDistinct, TextEventsTold DEF TypeOK
<1>3. d \in Seq(Events) /\ NoTexts(d)
  BY WhenNoTexts, EventsDistinct, TextEventsTold
<1>4. e \in Seq(Events) /\ NoTexts(e)
  BY WhenNoTexts, EventsDistinct, TextEventsTold
<1>5. c \in Seq(Events) /\ (~hasText => NoTexts(c)) /\ (hasText => OneText(c, word))
  <2>1. CASE hasText
    <3> DEFINE delta == TextDelta(line.text)
    <3>1. c = <<delta>> /\ delta \in Events /\ IsText(delta) /\ delta.text = line.text
      BY <2>1, EventsDistinct, TextEventsTold DEF When
    <3> HIDE DEF delta, c
    <3>2. c \in Seq(Events) /\ Len(c) = 1 /\ c[1] = delta
      BY <3>1
    <3>3. OneText(c, word)
      <4>1. 1 \in 1 .. Len(c) /\ \A i \in 1 .. Len(c) : i = 1
        BY <3>2
      <4>2. QED
        BY <3>1, <3>2, <4>1 DEF OneText
    <3>4. QED
      BY <2>1, <3>2, <3>3
  <2>2. CASE ~hasText
    <3>1. c = <<>>
      BY <2>2 DEF When
    <3> HIDE DEF c
    <3>2. c \in Seq(Events) /\ NoTexts(c)
      BY <3>1 DEF NoTexts
    <3>3. QED
      BY <2>2, <3>2
  <2>3. QED
    BY <2>1, <2>2
<1>6. out' = a \o (b \o c) \o (d \o e)
  BY DEF TranslateText, TextEvents, FinishEvents
<1> HIDE DEF a, b, c, d, e
<1>7. /\ b \o c \in Seq(Events)
      /\ (~hasText => NoTexts(b \o c)) /\ (hasText => OneText(b \o c, word))
  BY <1>2, <1>5, ConcatTexts
<1>8. /\ a \o (b \o c) \in Seq(Events)
      /\ (~hasText => NoTexts(a \o (b \o c))) /\ (hasText => OneText(a \o (b \o c), word))
  BY <1>1, <1>7, ConcatTexts
<1>9. d \o e \in Seq(Events) /\ NoTexts(d \o e)
  BY <1>3, <1>4, ConcatTexts
<1>10. QED
  BY <1>6, <1>8, <1>9, ConcatTexts

LEMMA ToolsTold ==
    ASSUME TypeOK, NEW line, line.tools \in Nat, line.role \in BOOLEAN, TranslateTools(line)
    PROVE  NoTexts(out')
<1> DEFINE a == When(line.role /\ ~msgSent, MessageStart)
           b == When(~toolStarted, BlockStart("tool_use"))
           c == [i \in 1 .. line.tools |-> ToolDelta]
<1>1. a \in Seq(Events) /\ NoTexts(a)
  BY WhenNoTexts, EventsDistinct, TextEventsTold DEF TypeOK
<1>2. b \in Seq(Events) /\ NoTexts(b)
  BY WhenNoTexts, EventsDistinct, TextEventsTold DEF TypeOK
<1>3. c \in Seq(Events) /\ NoTexts(c)
  <2>1. c \in [1 .. line.tools -> Events]
    BY EventsDistinct
  <2>2. c \in Seq(Events) /\ Len(c) = line.tools
    BY <2>1
  <2>3. QED
    BY <2>2, TextEventsTold DEF NoTexts
<1>4. out' = a \o b \o c
  BY DEF TranslateTools
<1> HIDE DEF a, b, c
<1>5. a \o b \in Seq(Events) /\ NoTexts(a \o b)
  BY <1>1, <1>2, ConcatTexts
<1>6. QED
  BY <1>3, <1>4, <1>5, ConcatTexts

(* A line passes on the text it brings.                                    *)
LEMMA LineTold ==
    ASSUME TypeOK, NEW line \in Lines, out = <<>>, Passed(got, spoken),
           Translate(line) \/ Translate(Cut(line)), Hears(line)
    PROVE  Passed(got \o out', spoken')
<1>1. got \in Seq(Events) /\ spoken \in Seq(Texts) /\ out' \in Seq(Events)
  BY Translated DEF TypeOK
<1>2. CASE line \in {Silent, Done}
  <2>1. Cut(line) = line /\ line.kind # "chunk" /\ (line = Silent <=> line # Done)
    BY <1>2 DEF Cut, Silent, Done
  <2>2. spoken' = spoken
    BY <2>1 DEF Hears, HasText
  <2>3. CASE line = Silent
    <3>1. out' = <<>>
      BY <2>1, <2>3 DEF Translate
    <3>2. NoTexts(out')
      BY <3>1 DEF NoTexts
    <3>3. QED
      BY <1>1, <2>2, <3>2, NothingPassed
  <2>4. CASE line = Done
    <3> DEFINE a == When(~msgSent, MessageStart)
               t == <<MessageStop>>
    <3>1. out' = a \o t
      BY <2>1, <2>4 DEF Translate, TranslateDone
    <3>2. a \in Seq(Events) /\ NoTexts(a)
      BY WhenNoTexts, EventsDistinct, TextEventsTold DEF TypeOK
    <3>3. t \in Seq(Events) /\ NoTexts(t)
      BY EventsDistinct, TextEventsTold DEF NoTexts
    <3> HIDE DEF a, t
    <3>4. NoTexts(out')
      BY <3>1, <3>2, <3>3, ConcatTexts
    <3>5. QED
      BY <1>1, <2>2, <3>4, NothingPassed
  <2>5. QED
    BY <1>2, <2>3, <2>4
<1>3. CASE line \in Chunks
  <2>1. PICK l \in {line, Cut(line)} : Translate(l)
    OBVIOUS
  <2>2. /\ l.kind = "chunk" /\ l.role = line.role /\ l.finish = line.finish
        /\ l.tools = line.tools /\ l.text \in {line.text, Garbled}
        /\ l.text = NoText <=> line.text = NoText
        /\ l # Silent /\ l # Done
    BY <1>3, ChunkFields, TextsAssumption DEF Cut, Chunks, Chunk, Silent, Done
  <2>3. /\ l.role \in BOOLEAN /\ l.finish \in BOOLEAN /\ l.tools \in Nat
        /\ l.text \in Texts \cup {NoText, Garbled}
    BY <1>3, <2>2, ChunkFields, BoundsAssumption
  <2>4. line.kind = "chunk" /\ line.text \in Texts \cup {NoText}
    BY <1>3, ChunkFields
  <2>5. line.tools \in Nat
    BY <1>3, ChunkFields, BoundsAssumption
  <2>6. \/ l.tools > 0 /\ TranslateTools(l)
        \/ l.tools = 0 /\ TranslateText(l)
    BY <2>1, <2>2 DEF Translate
  <2>7. CASE line.text = NoText \/ line.tools > 0
    <3>1. spoken' = spoken
      BY <2>5, <2>7 DEF Hears, HasText
    <3>2. NoTexts(out')
      <4>1. CASE TranslateTools(l)
        BY <2>3, <4>1, ToolsTold
      <4>2. CASE l.tools = 0 /\ TranslateText(l)
        BY <2>2, <2>3, <2>5, <2>6, <2>7, <4>2, TextTold
      <4>3. QED
        BY <2>6, <4>1, <4>2
    <3>3. QED
      BY <1>1, <3>1, <3>2, NothingPassed
  <2>8. CASE line.text # NoText /\ line.tools = 0
    <3>1. spoken' = Append(spoken, line.text) /\ line.text \in Texts
      BY <2>4, <2>8 DEF Hears, HasText
    <3>2. TranslateText(l)
      BY <2>2, <2>5, <2>6, <2>8
    <3>3. OneText(out', line.text)
      BY <2>2, <2>3, <2>8, <3>2, TextTold
    <3>4. QED
      BY <1>1, <3>1, <3>3, WordPassed
  <2>9. QED
    BY <2>5, <2>7, <2>8
<1>4. QED
  BY <1>2, <1>3 DEF Lines

(* What the client takes was to come before the rest.                      *)
LEMMA YieldKeepsOrder ==
    ASSUME TypeOK, Yield
    PROVE  got' \o out' = got \o out
<1>1. /\ got \in Seq(Events) /\ out \in Seq(Events) /\ out # <<>>
      /\ got' = Append(got, Head(out)) /\ out' = Tail(out)
  BY DEF TypeOK, Yield
<1>2. QED
  BY <1>1

LEMMA InitTexts == ASSUME Init PROVE TextArrives
<1>1. got \in Seq(Events) /\ Len(got) = 0 /\ spoken = <<>> /\ Len(spoken) = 0
      /\ out = <<MessageStart>> /\ out \in Seq(Events)
  BY EventsDistinct DEF Init
<1>2. Passed(got, spoken)
  <2>1. TextsUpTo(got, Len(got)) = {}
    BY <1>1 DEF TextsUpTo
  <2>2. QED
    BY <1>1, <2>1, FS_EmptySet DEF Passed
<1>3. NoTexts(out)
  BY <1>1, TextEventsTold DEF NoTexts
<1>4. QED
  BY <1>1, <1>2, <1>3, NothingPassed DEF TextArrives

LEMMA NextTexts == ASSUME IInv, TextArrives, [Next]_vars PROVE TextArrives'
<1>0. TypeOK /\ got \in Seq(Events)
  BY DEF IInv, TypeOK
<1>1. ASSUME Awaiting PROVE out = <<>> /\ Passed(got, spoken) /\ got \o <<>> = got
  <2>1. out = <<>> /\ phase = "reading" /\ got \o <<>> = got
    BY <1>0, <1>1 DEF Awaiting
  <2>2. QED
    BY <2>1 DEF TextArrives
<1>2. ASSUME NEW line \in Lines, Receive(line) PROVE TextArrives'
  <2>1. Awaiting /\ Translate(line) /\ Hears(line) /\ got' = got
    BY <1>2 DEF Receive
  <2>2. Passed(got \o out', spoken')
    BY <1>0, <1>1, <2>1, LineTold
  <2>3. QED
    BY <2>1, <2>2 DEF TextArrives
<1>3. ASSUME NEW line \in Lines, ReceivePart(line) PROVE TextArrives'
  BY <1>3 DEF ReceivePart, TextArrives
<1>4. CASE ReceiveRest
  <2>1. Awaiting /\ (Translate(buf) \/ Translate(Cut(buf))) /\ Hears(buf) /\ got' = got
        /\ buf \in Lines
    BY <1>0, <1>4 DEF ReceiveRest, TypeOK, Lines
  <2>2. Passed(got \o out', spoken')
    BY <1>0, <1>1, <2>1, LineTold
  <2>3. QED
    BY <2>1, <2>2 DEF TextArrives
<1>5. CASE Finally
  <2> DEFINE a == When(~msgSent, MessageStart)
             t == <<MessageStop>>
  <2>1. Awaiting /\ out' = a \o t /\ UNCHANGED <<spoken, got>>
    BY <1>5 DEF Finally
  <2>2. a \in Seq(Events) /\ NoTexts(a)
    BY <1>0, WhenNoTexts, EventsDistinct, TextEventsTold DEF TypeOK
  <2>3. t \in Seq(Events) /\ NoTexts(t)
    BY EventsDistinct, TextEventsTold DEF NoTexts
  <2> HIDE DEF a, t
  <2>4. out' \in Seq(Events) /\ NoTexts(out')
    BY <2>1, <2>2, <2>3, ConcatTexts
  <2>5. QED
    BY <1>0, <1>1, <2>1, <2>4, NothingPassed DEF TextArrives
<1>6. CASE Close
  BY <1>6 DEF Close, TextArrives
<1>7. CASE Yield
  <2>1. got' \o out' = got \o out /\ spoken' = spoken /\ phase' = phase
    BY <1>0, <1>7, YieldKeepsOrder DEF Yield
  <2>2. QED
    BY <2>1 DEF TextArrives
<1>8. CASE Leave
  BY <1>8 DEF Leave, TextArrives
<1>9. CASE UNCHANGED vars
  BY <1>9 DEF vars, TextArrives
<1>10. QED
  BY <1>2, <1>3, <1>4, <1>5, <1>6, <1>7, <1>8, <1>9 DEF Next, Lines

(* The texts in the events are those that arrived without tool calls       *)
(* beside them, each once and in its place, whole or with a character that *)
(* was cut, however the lines came.                                        *)
THEOREM TextArrivesCorrect == Spec => []TextArrives
<1>1. Init => IInv /\ TextArrives
  BY InitIInv, InitTexts
<1>2. IInv /\ TextArrives /\ [Next]_vars => (IInv /\ TextArrives)'
  BY NextIInv, NextTexts
<1>3. QED
  BY <1>1, <1>2, PTL DEF Spec

=============================================================================
