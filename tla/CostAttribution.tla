--------------------------- MODULE CostAttribution ---------------------------
(***************************************************************************)
(* From the body of an answer to the cost of its row: the parsers of       *)
(* internal/provider and Calculate of internal/pricing/service.go.         *)
(*                                                                         *)
(* A usage [fresh, read, w5, w1, out] is what the upstream bills: input    *)
(* neither read from nor written to a cache, cache reads, cache writes of  *)
(* the two lifetimes, and output.  A body is the sequence of its events,   *)
(* one event if it is not a stream.  An event [kind, usage, split, long]   *)
(* reports the usage so far the way its dialect does; split says whether   *)
(* cache writes are broken down by lifetime, and long that its line does   *)
(* not fit the buffer of bufio.Scanner (64 KB).                            *)
(***************************************************************************)
EXTENDS Integers, Sequences, SequencesExt

NoMetrics == [input |-> 0, output |-> 0, read |-> 0, create |-> 0, w5 |-> 0, w1 |-> 0]

-----------------------------------------------------------------------------
\* usage.CacheCreation is zero where the breakdown is left out.
SplitCacheCreation(usage, split) ==
    IF split /\ usage.w5 + usage.w1 > 0 THEN <<usage.w5, usage.w1>>
    ELSE <<usage.w5 + usage.w1, 0>>

\* buildMetrics: the total input includes what was read and written.
AnthropicMetrics(usage, split, output) ==
    LET create == usage.w5 + usage.w1
    IN [input |-> usage.fresh + usage.read + create, output |-> output,
        read |-> usage.read, create |-> create,
        w5 |-> SplitCacheCreation(usage, split)[1],
        w1 |-> SplitCacheCreation(usage, split)[2]]

\* bufio.Scanner stops for good at the first line that is too long.
Scanned(body) ==
    IF \E i \in DOMAIN body : body[i].long
    THEN SubSeq(body, 1, SelectInSeq(body, LAMBDA e : e.long) - 1)
    ELSE body

LastOf(body, kinds) == SelectLastInSeq(body, LAMBDA e : e.kind \in kinds)

AnthropicStreamAddsDeltas(body) ==
    LET events == Scanned(body)
        start == LastOf(events, {"message_start"})
        outputs == FoldLeft(LAMBDA n, e : IF e.kind = "message_delta" THEN n + e.usage.out ELSE n,
                            0, events)
    IN IF start = 0 THEN [NoMetrics EXCEPT !.output = outputs]
       ELSE AnthropicMetrics(events[start].usage, events[start].split, outputs)

\* Input from the last message_start, output from the last message_delta.
AnthropicStream(body) ==
    LET events == Scanned(body)
        start == LastOf(events, {"message_start"})
        delta == LastOf(events, {"message_delta"})
        output == IF delta = 0 THEN 0 ELSE events[delta].usage.out
    IN IF start = 0 THEN [NoMetrics EXCEPT !.output = output]
       ELSE AnthropicMetrics(events[start].usage, events[start].split, output)

-----------------------------------------------------------------------------
\* What an OpenAI usage object holds: "chat" has prompt and completion tokens,
\* "responses" input and output tokens; either input includes cache reads.
OpenAIReport(kind, usage) ==
    LET tokens == [in |-> usage.fresh + usage.read, out |-> usage.out, read |-> usage.read]
        none == [in |-> 0, out |-> 0, read |-> 0]
    IN [chat |-> IF kind = "chat" THEN tokens ELSE none,
        responses |-> CASE kind = "responses" -> tokens
                        [] kind = "message_delta" -> [none EXCEPT !.out = usage.out]
                        [] OTHER -> none]

BuildOpenAIMetrics(report) ==
    LET used == IF report.responses.in > 0 \/ report.responses.out > 0
                THEN report.responses ELSE report.chat
    IN [NoMetrics EXCEPT !.input = used.in, !.output = used.out, !.read = used.read]

\* The last chunk with a usage; that of the Responses API is nested in its
\* response.  The message_delta of an Anthropic stream has one as well.
OpenAIStream(body) ==
    LET last == LastOf(Scanned(body), {"chat", "responses", "message_delta"})
    IN IF last = 0 THEN NoMetrics
       ELSE BuildOpenAIMetrics(OpenAIReport(body[last].kind, body[last].usage))

\* TranslateAnthropicToOpenAI keeps input_tokens and output_tokens.
Translated(event) ==
    [event EXCEPT !.kind = "chat", !.usage.read = 0, !.usage.w5 = 0, !.usage.w1 = 0]

-----------------------------------------------------------------------------
\* The prompt of Gemini includes the cached content; cumulative totals.
BuildGeminiMetrics(usage) ==
    [NoMetrics EXCEPT !.input = usage.fresh + usage.read, !.output = usage.out,
                      !.read = usage.read]

\* The chunks of a JSON array; the data lines of alt=sse are no JSON.
GeminiStream(body, sse) ==
    IF sse \/ body = <<>> THEN NoMetrics ELSE BuildGeminiMetrics(Last(body).usage)

BuildBedrockMetrics(usage) == AnthropicMetrics(usage, FALSE, usage.out)

\* Frames without input and output are not taken for the metadata event, and a
\* frame that is not there as a whole makes the parser fail.
BedrockStream(body, torn) ==
    LET found == SelectLastInSeq(body, LAMBDA e :
                     e.kind = "metadata" /\ e.usage.fresh + e.usage.out > 0)
    IN IF torn \/ found = 0 THEN NoMetrics ELSE BuildBedrockMetrics(body[found].usage)

\* ParseResponse of the parser GetParser picks; "anthropic-openai" reads a
\* translated body, or as it came a stream, which is no JSON to translate.  torn:
\* a part of the next event follows the body, a line that is skipped elsewhere.
ParseResponse(dialect, body, streamed, torn) ==
    CASE body = <<>> -> NoMetrics
      [] body # <<>> /\ dialect = "anthropic" ->
             IF streamed THEN AnthropicStream(body)
             ELSE AnthropicMetrics(body[1].usage, body[1].split, body[1].usage.out)
      [] body # <<>> /\ dialect = "openai" ->
             IF streamed THEN OpenAIStream(body)
             ELSE BuildOpenAIMetrics(OpenAIReport(body[1].kind, body[1].usage))
      [] body # <<>> /\ dialect = "anthropic-openai" ->
             IF streamed THEN OpenAIStream(body)
             ELSE BuildOpenAIMetrics(OpenAIReport("chat", Translated(body[1]).usage))
      [] body # <<>> /\ dialect = "gemini" -> GeminiStream(body, streamed)
      [] body # <<>> /\ dialect = "bedrock" ->
             IF streamed THEN BedrockStream(body, torn) ELSE BuildBedrockMetrics(body[1].usage)

-----------------------------------------------------------------------------
\* A price [input, cached, output] of one token, in units of which the input
\* price is a multiple of four: writes cost 1.25 and 2 times the input.
Cost(input, cached, creation, output) ==
    [input |-> input, cached |-> cached, creation |-> creation, output |-> output,
     total |-> input + cached + creation + output]

CalculateOneRate(m, price) ==
    Cost((m.input - m.read - m.create) * price.input, m.read * price.cached,
         (m.create * 5 * price.input) \div 4, m.output * price.output)

\* A creation without breakdown is priced as five-minute writes.
Calculate(m, price) ==
    LET five == IF m.w5 + m.w1 = 0 /\ m.create > 0 THEN m.create ELSE m.w5
    IN Cost((m.input - m.read - m.create) * price.input, m.read * price.cached,
            ((five * 5 + m.w1 * 8) * price.input) \div 4, m.output * price.output)

=============================================================================
