----------------------------- MODULE AnswerRelay -----------------------------
(***************************************************************************)
(* How the answer of an upstream reaches the client and its row: the       *)
(* middleware around the handler (internal/server), the copy loop of the   *)
(* streaming path and the buffered path of ServeHTTP, and the row that     *)
(* logRequest prices from what was captured (internal/proxy/handler.go).   *)
(*                                                                         *)
(* A body is the sequence of its events (CostAttribution), and the copy    *)
(* loop reads and writes one event at a time; a capture that ends within   *)
(* an event shows when the row is priced.  The server of net/http keeps    *)
(* what it has not sent yet in its own buffers, and gives up a connection  *)
(* whose write deadline is over.                                           *)
(***************************************************************************)
EXTENDS CostAttribution

CONSTANTS
    Dialects,    \* which bodies there are: of the four parsers, and translated ones
    Usages,      \* what answers are billed for
    Price,       \* [input, cached, output] of the one model
    BufferSize,  \* events that fit the buffers of the server
    NoAnswer,
    NoRow

VARIABLES
    pc,         \* ServeHTTP: where it is
    answer,     \* the answer of the upstream, or NoAnswer
    captured,   \* buf, filled by the TeeReader, or the body that was read whole
    buffered,   \* written by the handler, not yet sent by the server
    delivered,  \* sent to the client
    deadline,   \* the write deadline of the connection
    client,     \* the client's end of the connection
    logging,    \* logRequest is running
    row         \* the cost of the row it writes, or NoRow

vars == <<pc, answer, captured, buffered, delivered, deadline, client, logging, row>>

-----------------------------------------------------------------------------
(* The bodies in which upstreams report a usage.                           *)
Event(kind, usage, split) == [kind |-> kind, usage |-> usage, split |-> split, long |-> FALSE]
SoFar(usage) == [usage EXCEPT !.out = 1]
Content(usage) == Event("content", SoFar(usage), FALSE)
LongContent(usage) == [Content(usage) EXCEPT !.long = TRUE]

\* Which usages a dialect can report: only Anthropic has one-hour writes, only
\* with a breakdown, and only Anthropic and Bedrock bill writes at all.
\* A translated request asks for no cache.
Reports(dialect, usage, split) ==
    CASE dialect = "anthropic" -> split \/ usage.w1 = 0
      [] dialect = "bedrock" -> usage.w1 = 0 /\ ~split
      [] dialect = "anthropic-openai" -> usage.read + usage.w5 + usage.w1 = 0 /\ ~split
      [] OTHER -> usage.w5 + usage.w1 = 0 /\ ~split

FinalKinds(dialect) ==
    CASE dialect = "openai" -> {"chat", "responses"}
      [] dialect = "gemini" -> {"chunk"}
      [] dialect = "bedrock" -> {"metadata"}
      [] OTHER -> {"message_delta"}

\* A message_start opens the stream of Anthropic; totals are cumulative; the
\* line of a nested response is as long as the answer is.  ConverseStream has one
\* metadata event, the last one.
Streams(dialect, u, split) ==
    LET opening == IF dialect \in {"anthropic", "anthropic-openai"}
                   THEN <<Event("message_start", SoFar(u), split)>> ELSE <<>>
        middles(kind) ==
            {<<>>, <<Content(u)>>}
            \cup (IF dialect = "bedrock" THEN {} ELSE {<<Event(kind, SoFar(u), split)>>})
            \cup (IF dialect \in {"gemini", "bedrock"} THEN {} ELSE {<<LongContent(u)>>})
        endings(kind) == IF kind = "responses" THEN {FALSE, TRUE} ELSE {FALSE}
    IN UNION { { opening \o middle \o <<[Event(kind, u, split) EXCEPT !.long = long]>> :
                     middle \in middles(kind), long \in endings(kind) } :
               kind \in FinalKinds(dialect) }

Bodies(dialect, usage, split, streamed) ==
    IF streamed \/ dialect = "gemini" THEN Streams(dialect, usage, split)
    ELSE { <<Event(kind, usage, split)>> : kind \in FinalKinds(dialect) }

Reported ==
    { r \in [dialect : Dialects, usage : Usages, split : BOOLEAN, streamed : BOOLEAN] :
        Reports(r.dialect, r.usage, r.split) }
Answers ==
    UNION { { [dialect |-> r.dialect, usage |-> r.usage, split |-> r.split,
               streamed |-> r.streamed, body |-> body] :
                body \in Bodies(r.dialect, r.usage, r.split, r.streamed) } : r \in Reported }

(* There are no empty prompts or answers, what a stream reports on its way *)
(* is less than its total, and the model is not free.                      *)
ASSUME AnswerRelayAssumption ==
    /\ Dialects \subseteq {"anthropic", "openai", "anthropic-openai", "gemini", "bedrock"}
    /\ Usages \subseteq [fresh : Nat, read : Nat, w5 : Nat, w1 : Nat, out : Nat]
    /\ \A u \in Usages : u.fresh + u.read + u.w5 + u.w1 > 0 /\ u.out > 1
    /\ Price \in [input : Nat \ {0}, cached : Nat, output : Nat \ {0}]
    /\ Price.input % 4 = 0
    /\ BufferSize \in Nat \ {0}
    /\ NoAnswer \notin Answers
    /\ NoRow \notin [input : Int, cached : Int, creation : Int, output : Int, total : Int]

\* What the upstream charges for a usage.
Bill(usage, price) ==
    usage.fresh * price.input + usage.read * price.cached + usage.out * price.output
        + (usage.w5 * price.input * 5) \div 4 + usage.w1 * price.input * 2

-----------------------------------------------------------------------------
(* The response writer: the Logger middleware wraps the writer of the      *)
(* server in one of its own, which embeds the interface and therefore has  *)
(* its three methods only.                                                 *)
ServerWriter == {"Header", "Write", "WriteHeader", "Flush", "SetWriteDeadline"}
LoggerWriter == {"Header", "Write", "WriteHeader"}
Writers == <<LoggerWriter, ServerWriter>>

\* A type assertion sees the outermost writer, a ResponseController unwraps.
Asserts(method) == method \in Head(Writers)
Controls(method) ==
    \E i \in DOMAIN Writers :
        method \in Writers[i] /\ \A j \in 1..(i - 1) : "Unwrap" \in Writers[j]

Connected == client = "open" /\ deadline # "expired"

\* The first n events of what is pending are sent, the others stay or are lost.
Send(pending, n) == delivered' = delivered \o SubSeq(pending, 1, n)
Keep(pending, n) == buffered' = SubSeq(pending, n + 1, Len(pending))

Attributed(body, torn) ==
    Calculate(ParseResponse(answer.dialect, body, answer.streamed, torn), Price)

Init ==
    /\ pc = "forward"
    /\ answer = NoAnswer
    /\ captured = <<>> /\ buffered = <<>> /\ delivered = <<>>
    /\ deadline = "armed"
    /\ client = "open"
    /\ logging = FALSE
    /\ row = NoRow

\* Translated answers are always read whole; the others are relayed when
\* they are a stream of events or of AWS frames.
Relayed(a) == a.streamed /\ a.dialect # "anthropic-openai"

UpstreamAnswers ==
    /\ pc = "forward"
    /\ answer' \in Answers
    /\ pc' = IF Relayed(answer') THEN "headers" ELSE "body"
    /\ UNCHANGED <<captured, buffered, delivered, deadline, client, logging, row>>

-----------------------------------------------------------------------------
(* The streaming path.                                                     *)

\* SetWriteDeadline(time.Time{}); an error of it is only logged.
StartRelay ==
    /\ pc = "headers"
    /\ pc' = "read"
    /\ deadline' = IF Controls("SetWriteDeadline") THEN "cleared" ELSE deadline
    /\ UNCHANGED <<answer, captured, buffered, delivered, client, logging, row>>

\* TeeReader.Read
ReadChunk ==
    /\ pc = "read"
    /\ Len(captured) < Len(answer.body)
    /\ captured' = Append(captured, answer.body[Len(captured) + 1])
    /\ pc' = "write"
    /\ UNCHANGED <<answer, buffered, delivered, deadline, client, logging, row>>

\* flushWriter.Write: nothing is sent, and no error seen, until the buffers
\* of the server are full, unless the writer has Flush.  A write that fails
\* may have sent a part.
WriteChunk ==
    /\ pc = "write"
    /\ LET pending == Append(buffered, Last(captured))
           all == Len(pending)
           room == IF Asserts("Flush") THEN 0 ELSE BufferSize
       IN IF all <= room
            THEN buffered' = pending /\ pc' = "read" /\ UNCHANGED delivered
            ELSE IF Connected
              THEN \E n \in (all - room)..all :
                       Send(pending, n) /\ Keep(pending, n) /\ pc' = "read"
              ELSE \E n \in 0..all :
                       Send(pending, n) /\ buffered' = <<>> /\ pc' = "ended"
    /\ UNCHANGED <<answer, captured, deadline, client, logging, row>>

\* io.Copy returns: the end of the stream, or a read that fails because the
\* upstream broke off or the context of a client that left was cancelled.
CopyEndsUnlogged ==
    /\ pc = "read"
    /\ pc' = IF captured = answer.body THEN "ended" ELSE "finish"
    /\ UNCHANGED <<answer, captured, buffered, delivered, deadline, client, logging, row>>

CopyEnds ==
    /\ pc = "read"
    /\ pc' = "ended"
    /\ UNCHANGED <<answer, captured, buffered, delivered, deadline, client, logging, row>>

-----------------------------------------------------------------------------
(* The buffered path.                                                      *)

ReadBody ==
    /\ pc = "body"
    /\ captured' = answer.body
    /\ pc' = "respond"
    /\ UNCHANGED <<answer, buffered, delivered, deadline, client, logging, row>>

\* 502; the answer is not logged.
ReadBodyFails ==
    /\ pc = "body"
    /\ pc' = "refused"
    /\ UNCHANGED <<answer, captured, buffered, delivered, deadline, client, logging, row>>

\* w.Write(responseBody); its error is ignored.
WriteResponse ==
    /\ pc = "respond"
    /\ \E n \in 0..Len(captured) :
           /\ Send(captured, n)
           /\ IF Connected THEN Len(captured) - n <= BufferSize /\ Keep(captured, n)
                           ELSE buffered' = <<>>
    /\ pc' = "ended"
    /\ UNCHANGED <<answer, captured, deadline, client, logging, row>>

-----------------------------------------------------------------------------
\* logAndFinish: go h.logRequest(...), which goes on beside the handler.
LogAndFinishFallsThrough ==
    /\ pc = "ended"
    /\ logging' = TRUE
    /\ pc' = IF Relayed(answer) THEN "body" ELSE "finish"
    /\ UNCHANGED <<answer, captured, buffered, delivered, deadline, client, row>>

LogAndFinish ==
    /\ pc = "ended"
    /\ logging' = TRUE
    /\ pc' = "finish"
    /\ UNCHANGED <<answer, captured, buffered, delivered, deadline, client, row>>

\* The server sends what is left when the handler has returned.
FinishRequest ==
    /\ pc = "finish"
    /\ \E n \in 0..Len(buffered) :
           (Connected => n = Len(buffered)) /\ Send(buffered, n)
    /\ buffered' = <<>>
    /\ pc' = "done"
    /\ UNCHANGED <<answer, captured, deadline, client, logging, row>>

\* logRequest: the row is priced from what was captured, which may end within
\* the next event, if there is one.
LogRequest ==
    /\ logging
    /\ logging' = FALSE
    /\ \E torn \in {FALSE, captured # answer.body} : row' = Attributed(captured, torn)
    /\ UNCHANGED <<pc, answer, captured, buffered, delivered, deadline, client>>

\* WriteTimeout is over: every later write of the connection fails.
WriteTimeout ==
    /\ pc \notin {"done", "refused"}
    /\ deadline = "armed"
    /\ deadline' = "expired"
    /\ UNCHANGED <<pc, answer, captured, buffered, delivered, client, logging, row>>

ClientLeaves ==
    /\ pc \notin {"done", "refused"}
    /\ client = "open"
    /\ client' = "gone"
    /\ UNCHANGED <<pc, answer, captured, buffered, delivered, deadline, logging, row>>

Next ==
    \/ UpstreamAnswers
    \/ StartRelay \/ ReadChunk \/ WriteChunk \/ CopyEnds
    \/ ReadBody \/ ReadBodyFails \/ WriteResponse
    \/ LogAndFinish \/ FinishRequest \/ LogRequest
    \/ WriteTimeout \/ ClientLeaves

Spec == Init /\ [][Next]_vars

-----------------------------------------------------------------------------
(***************************************************************************)
(* Properties                                                              *)
(***************************************************************************)

TypeOK ==
    /\ pc \in {"forward", "headers", "read", "write", "body", "respond", "ended",
               "finish", "done", "refused"}
    /\ answer = NoAnswer \/ answer \in Answers
    /\ answer # NoAnswer => IsPrefix(captured, answer.body)
    /\ Len(buffered) <= BufferSize
    /\ deadline \in {"armed", "cleared", "expired"}
    /\ client \in {"open", "gone"}
    /\ logging => row = NoRow

\* Bodies whose usage the parser of their dialect finds.
Understood ==
    /\ \A i \in DOMAIN answer.body : ~answer.body[i].long
    /\ answer.streamed => answer.dialect \notin {"anthropic-openai", "gemini"}

(* Every token of an answer is priced once, at the rate of its kind: cache *)
(* reads and writes neither twice nor at the rate of fresh input, writes   *)
(* without a breakdown not for free, and a stream costs what the same      *)
(* answer costs in one piece (anthropic.go:35-153, openai.go:61-144,       *)
(* gemini.go:45-70, bedrock.go:77-150, service.go:495-518).  The bodies    *)
(* the parsers do not understand, and no others, are logged short although *)
(* they were captured whole.                                               *)
EveryTokenPricedOnce ==
    row # NoRow /\ captured = answer.body =>
        (row.total = Bill(answer.usage, Price) <=> Understood)

(* Wherever a stream is cut, and whatever the parsers do not understand,   *)
(* the row never costs more than the answer does (cumulative counts must   *)
(* not be added up), and no part of it is negative.                        *)
CutNeverOvercharged ==
    row # NoRow =>
        /\ row.total <= Bill(answer.usage, Price)
        /\ row.input >= 0 /\ row.creation >= 0

(* Whatever reached a client is billed: it was captured before it was      *)
(* sent, so that an expired deadline, a client that left or an upstream    *)
(* that broke off between the two leaves a row, and one that costs no less *)
(* than the events delivered, even if a last event was captured in part    *)
(* (handler.go:311-335, 374-395, bedrock.go:89-91).                        *)
DeliveredIsBilled ==
    /\ IsPrefix(delivered, captured)
    /\ row # NoRow => Attributed(delivered, FALSE).total <= row.total
    /\ pc \in {"done", "refused"} /\ delivered # <<>> => logging \/ row # NoRow

(* handler.go:770-772 says that flushWriter "flushes after every Write if  *)
(* the underlying writer supports http.Flusher. This ensures SSE chunks    *)
(* are delivered to the client immediately": when the copy loop waits for  *)
(* the next chunk, a connected client has got the ones before it.          *)
ChunksDeliveredAtOnce == pc = "read" /\ Connected => buffered = <<>>

=============================================================================
