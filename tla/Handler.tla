------------------------------- MODULE Handler -------------------------------
(***************************************************************************)
(* internal/proxy/handler.go: one request from ServeHTTP to the row the    *)
(* background goroutine of logRequest hands to the log writer, with the    *)
(* upstream client (upstream.go), the rewriting of bodies (override.go,    *)
(* RewriteRoutedRequest) and the translation of anthropic-openai.          *)
(*                                                                         *)
(* Requests share nothing but what ProviderRouter, Resolver, Pricing and   *)
(* RequestLog model; of those, the outcome is a choice here.  A body is    *)
(* its model field, whether it is a JSON object, and the set of other      *)
(* top-level fields the caller set.                                        *)
(***************************************************************************)
EXTENDS Providers, Functions

CONSTANTS
    Requests,      \* [header, path, model, json, fields, behavior]
    Deprecated,    \* deprecated.Service: model -> replacement
    Catalog,       \* slug -> endpoints [provider, base, model, defaults]
    Configured,    \* h.providers: provider -> base URL of the deployment
    Reasoning,     \* reasoningControlFields
    RouterSet,     \* whether h.providerRouter is set; {TRUE, FALSE}: either
    None

\* Base URLs and paths are sequences of segments.  The catalog routes to vendors
\* that speak the OpenAI dialect, and no slug is "unknown".
ASSUME HandlerAssumption ==
    /\ RouterSet \subseteq BOOLEAN
    /\ \A r \in Requests : r.header # None /\ r.path # <<>> /\ r.path \in Seq(STRING)
                           /\ r.json \in BOOLEAN
    /\ \A p \in DOMAIN Configured : Configured[p] \in Seq(STRING)
    /\ "unknown" \notin DOMAIN Catalog
    /\ \A s \in DOMAIN Catalog : \A e \in Catalog[s] :
           /\ e.provider \in ProviderNames \ {"bedrock", "anthropic-openai"}
           /\ e.base \in Seq(STRING)

\* deprecated_models.json recommends no deprecated model, and model_catalog.json
\* serves none.
ASSUME DeprecatedAssumption ==
    /\ \A m \in DOMAIN Deprecated : Deprecated[m] \notin DOMAIN Deprecated
    /\ \A s \in DOMAIN Catalog : \A e \in Catalog[s] : e.model \notin DOMAIN Deprecated

\* The version segments of a URL or of a part of it, as far as its route.
VersionsOf(url) ==
    { i \in DOMAIN url : /\ url[i] \in VersionSegments
                         /\ \A j \in 1..i : url[j] \notin OpenAISuffixes }

\* model_catalog.json:2: "base_url must compose with the forwarded path:
\* OpenAI-compatible providers stop before /v1, which the gateway adds".
Composes(p, base) ==
    /\ \A i \in DOMAIN base : base[i] \notin OpenAISuffixes
    /\ Cardinality(VersionsOf(base)) = IF BaseURLHasVersionSegment(p) THEN 1 ELSE 0

ASSUME BaseURLsCompose ==
    /\ \A p \in DOMAIN Configured : Composes(p, Configured[p])
    /\ \A s \in DOMAIN Catalog : \A e \in Catalog[s] : Composes(e.provider, e.base)

VARIABLES
    pc,       \* where ServeHTTP is
    req,      \* the caller's request
    up,       \* the upstream request in preparation, with what was decided
    wire,     \* what went to the upstream, or None
    answer,   \* what the upstream answered, or None
    reply,    \* what the caller got, and from whom
    logging,  \* goroutines of logRequest not yet done
    rows      \* request logs handed to WriteRequestLog

vars == <<pc, req, up, wire, answer, reply, logging, rows>>

CallerCredential == [of |-> "caller"]
StoredCredential(p) == [of |-> "stored", provider |-> p]
NoReply == [by |-> "nobody", status |-> 0, headers |-> <<>>]

Init ==
    /\ pc = "start"
    /\ req \in Requests
    /\ up = [provider |-> "unknown", base |-> <<>>, path |-> req.path, model |-> req.model,
             added |-> {}, credential |-> CallerCredential,
             redirected |-> FALSE, original |-> "", routed |-> FALSE, headers |-> <<>>]
    /\ wire = None /\ answer = None /\ reply = NoReply
    /\ logging = 0
    /\ rows = <<>>

\* WriteJSONError and return: nothing is forwarded or logged any more.
Refuse(status) ==
    /\ pc' = "done"
    /\ reply' = [by |-> "gateway", status |-> status, headers |-> up.headers]
    /\ UNCHANGED <<req, up, wire, answer, logging, rows>>

Continue(next) ==
    /\ pc' = next
    /\ up' = up
    /\ UNCHANGED <<req, wire, answer, reply, logging, rows>>

Prepare(next, changed) ==
    /\ pc' = next
    /\ up' = changed
    /\ UNCHANGED <<req, wire, answer, reply, logging, rows>>

-----------------------------------------------------------------------------
Unauthorized == pc = "start" /\ Refuse(401)

BodyUnreadable == pc = "start" /\ Refuse(400)

\* A base URL of the deployment comes before the given one.
BaseURLOf(p, given) == IF p \in DOMAIN Configured THEN Configured[p] ELSE given

\* Authenticated and read: the path is normalised, the provider detected.
DetectProvider ==
    /\ pc = "start"
    /\ LET path == NormalizeOpenAIPath(req.path)
           p == Detect(path, req.header)
       IN IF p = "unknown" THEN Refuse(400)
          ELSE Prepare(IF p \in {"bedrock", "bedrock-mantle"} THEN "region" ELSE "model",
                       [up EXCEPT !.path = path, !.provider = p, !.base = BaseURLOf(p, DefaultBaseURL[p])])

\* resolveBedrockRegion, from the header or the Host.
RegionResolved ==
    /\ pc = "region"
    /\ Prepare("model", [up EXCEPT !.base = BaseURLOf(up.provider, RegionalBaseURL(up.provider))])

RegionUnknown == pc = "region" /\ Refuse(400)

-----------------------------------------------------------------------------
(* ExtractModel of the parser of a provider: the model field, "unknown"    *)
(* without one; Bedrock has it in the path.                                *)
ModelField(json, model) == IF json THEN model ELSE "unknown"

RequestedModel ==
    IF up.provider = "bedrock" THEN ExtractBedrockModelFromPath(up.path)
    ELSE ModelField(req.json, req.model)

\* OverrideModel fails on a body that is not a JSON object.
CheckDeprecatedRecordsBody ==
    /\ pc = "model"
    /\ IF RequestedModel \in DOMAIN Deprecated /\ req.json
       THEN LET replacement == Deprecated[RequestedModel]
            IN Prepare("route", [up EXCEPT !.model = replacement, !.redirected = TRUE,
                                           !.original = replacement])
       ELSE Continue("route")

CheckDeprecated ==
    /\ pc = "model"
    /\ LET substitute ==
               /\ RequestedModel \in DOMAIN Deprecated
               /\ req.behavior \in {"redirect", "warn"}
               /\ req.json
           replacement == Deprecated[RequestedModel]
       IN Prepare("route",
              IF ~substitute THEN up
              ELSE [up EXCEPT !.model = replacement, !.redirected = TRUE,
                              !.original = RequestedModel,
                              !.headers = IF req.behavior = "warn"
                                          THEN <<[name |-> "deprecated", model |-> replacement]>>
                                          ELSE <<>>])

-----------------------------------------------------------------------------
ShouldConsiderRouting == req.header = "majordomo" /\ up.provider = "openai"

\* Build sets no router without ENCRYPTION_KEY or with ROUTING_ENABLED=false: a
\* request that asks for routing then passes through like any other.
NoRouting ==
    /\ pc = "route"
    /\ ~ShouldConsiderRouting \/ FALSE \in RouterSet
    /\ Continue("translate")

Routing == pc = "route" /\ TRUE \in RouterSet /\ ShouldConsiderRouting
Slug == ModelField(req.json, up.model)
Candidates == IF Slug \in DOMAIN Catalog THEN Catalog[Slug] ELSE {}

\* Route returns (nil, nil) for a model that is not in the catalog.
NotRoutable == Routing /\ Candidates = {} /\ Refuse(400)

\* No usable endpoint, or its key cannot be read or decrypted.
RoutingFails == Routing /\ Candidates # {} /\ Refuse(502)

\* RewriteRoutedRequest (which a body that names a slug never makes fail): the
\* caller wins, and one reasoning control of the
\* caller keeps out every reasoning default.
AppliedDefaults(e) ==
    { d \in e.defaults \ req.fields :
        d \in Reasoning => req.fields \cap Reasoning = {} }

RoutedKeepsBase ==
    /\ Routing
    /\ \E e \in Candidates :
           Prepare("translate",
               [up EXCEPT !.provider = e.provider, !.model = e.model, !.routed = TRUE,
                          !.credential = StoredCredential(e.provider)])

Routed ==
    /\ Routing
    /\ \E e \in Candidates :
           Prepare("translate",
               [up EXCEPT !.provider = e.provider, !.base = e.base, !.model = e.model,
                          !.added = AppliedDefaults(e),
                          !.credential = StoredCredential(e.provider), !.routed = TRUE,
                          !.headers = Append(@, [name |-> "routed", model |-> e.model,
                                                 provider |-> e.provider])])

-----------------------------------------------------------------------------
\* TranslateOpenAIToAnthropic takes the body the caller sent; a body that is
\* no JSON goes out as it is.  Then the version prefix, for the provider that
\* is really forwarded to.
Translate ==
    /\ pc = "translate"
    /\ LET translated == IsTranslationRequired(up.provider) /\ req.json
           path == IF translated THEN <<"v1", "messages">> ELSE up.path
       IN Prepare("forward",
              [up EXCEPT !.model = IF translated THEN req.model ELSE @,
                         !.path = IF BaseURLHasVersionSegment(up.provider)
                                  THEN StripOpenAIVersionPrefix(path) ELSE path])

\* The model the upstream runs; that of a Gemini path is left out.
WireModel ==
    IF up.provider = "bedrock" THEN ExtractBedrockModelFromPath(up.path)
    ELSE ModelField(req.json, up.model)

\* Forward and ForwardStream.  The headers go out without x-majordomo-*.
Forwarded ==
    [provider |-> up.provider, url |-> up.base \o up.path, model |-> WireModel,
     credential |-> up.credential, fields |-> req.fields \cup up.added]

\* An SSE or eventstream answer is relayed as it comes; an error status and
\* Bedrock name no model.  A translated request is never streamed to the caller.
Answers ==
    { a \in [ok : BOOLEAN, stream : BOOLEAN, names : {"", WireModel}] :
        /\ ~a.ok => a.names = ""
        /\ Dialect(up.provider) = "bedrock" => a.names = ""
        /\ a.stream => ~IsTranslationRequired(up.provider) }

UpstreamAnswers ==
    /\ pc = "forward"
    /\ up.base # <<>>
    /\ wire' = Forwarded
    /\ answer' \in Answers
    /\ pc' = IF answer'.stream THEN "relay" ELSE "buffer"
    /\ UNCHANGED <<req, up, reply, logging, rows>>

\* No connection, a timeout, a caller that went away; the request may or may
\* not have reached the upstream.
UpstreamFails ==
    /\ pc = "forward"
    /\ wire' \in {None} \cup (IF up.base = <<>> THEN {} ELSE {Forwarded})
    /\ pc' = "done"
    /\ reply' = [by |-> "gateway", status |-> 502, headers |-> up.headers]
    /\ UNCHANGED <<req, up, answer, logging, rows>>

Respond == [by |-> "upstream", status |-> IF answer.ok THEN 200 ELSE 400,
            headers |-> up.headers]

\* The streaming path: whatever was captured is logged, also after an error
\* of the copy, and the handler returns.
RelayStreamFallsThrough ==
    /\ pc = "relay"
    /\ reply' = Respond
    /\ logging' = logging + 1
    /\ pc' = "buffer"
    /\ UNCHANGED <<req, up, wire, answer, rows>>

RelayStream ==
    /\ pc = "relay"
    /\ reply' = Respond
    /\ logging' = logging + 1
    /\ pc' = "done"
    /\ UNCHANGED <<req, up, wire, answer, rows>>

\* A stream that is cut before its end may not have named the model yet.
StreamCut ==
    /\ pc = "relay"
    /\ answer.names # ""
    /\ answer' = [answer EXCEPT !.names = ""]
    /\ UNCHANGED <<pc, req, up, wire, reply, logging, rows>>

WriteResponse ==
    /\ pc = "buffer"
    /\ reply' = Respond
    /\ logging' = logging + 1
    /\ pc' = "done"
    /\ UNCHANGED <<req, up, wire, answer, rows>>

BodyReadFails == pc = "buffer" /\ Refuse(502)

-----------------------------------------------------------------------------
\* logRequest, after the answer is out: the model is the one the answer
\* names, else the one of the caller's body, else of the Bedrock path.
LoggedModel ==
    IF answer.names # "" THEN answer.names
    ELSE IF up.provider = "bedrock" THEN ExtractBedrockModelFromPath(up.path)
    ELSE ModelField(req.json, req.model)

ParsedProvider(p) == Dialect(p)
LoggedProvider(p) == p

LogRequest ==
    /\ logging > 0
    /\ logging' = logging - 1
    /\ \E archived \in BOOLEAN :
           rows' = Append(rows,
               [provider |-> LoggedProvider(up.provider), model |-> LoggedModel,
                redirected |-> up.redirected, original |-> up.original,
                routed |-> up.routed, slug |-> ModelField(req.json, req.model),
                archived |-> archived])
    /\ UNCHANGED <<pc, req, up, wire, answer, reply>>

Next ==
    \/ Unauthorized \/ BodyUnreadable \/ DetectProvider
    \/ RegionResolved \/ RegionUnknown
    \/ CheckDeprecated
    \/ NoRouting \/ NotRoutable \/ RoutingFails \/ Routed
    \/ Translate
    \/ UpstreamAnswers \/ UpstreamFails
    \/ RelayStream \/ StreamCut \/ WriteResponse \/ BodyReadFails
    \/ LogRequest

Spec == Init /\ [][Next]_vars

-----------------------------------------------------------------------------
(***************************************************************************)
(* Properties                                                              *)
(***************************************************************************)

TypeOK ==
    /\ pc \in {"start", "region", "model", "route", "translate", "forward", "relay",
               "buffer", "done"}
    /\ req \in Requests
    /\ up.provider \in ProviderNames \cup {"unknown"}
    /\ up.redirected => up.original \in DOMAIN Deprecated
    /\ up.routed => up.provider \in {e.provider : e \in UNION Range(Catalog)}
    /\ wire = None \/ (wire.provider = up.provider /\ wire.url # <<>>)
    /\ reply.by \in {"nobody", "gateway", "upstream"}
    /\ logging \in Nat

(* Every answer of an upstream that reached the caller is logged once, and *)
(* only those: no early return or error path (handler.go:100-400) writes a *)
(* row for a request the gateway refused, skips the row of a relayed one,  *)
(* or runs into the second logAndFinish after a stream.                    *)
AnswersLoggedOnce ==
    /\ Len(rows) + logging <= 1
    /\ Len(rows) + logging = 1 <=> reply.by = "upstream"

StartsWith(url, base) == Len(base) <= Len(url) /\ SubSeq(url, 1, Len(base)) = base

(* A stored provider key goes only to an endpoint the catalog has for that *)
(* provider, although provider, base URL and Authorization are replaced by *)
(* separate statements (handler.go:227-230); without routing the upstream  *)
(* gets the caller's own key, at the base URL of the pinned or detected    *)
(* provider.                                                               *)
KeysStayHome ==
    wire # None =>
        IF wire.credential.of = "stored"
        THEN \E s \in DOMAIN Catalog : \E e \in Catalog[s] :
                 /\ e.provider = wire.credential.provider
                 /\ e.model = wire.model
                 /\ StartsWith(wire.url, e.base)
        ELSE /\ wire.provider = Detect(NormalizeOpenAIPath(req.path), req.header)
             /\ \E home \in {DefaultBaseURL[wire.provider], RegionalBaseURL(wire.provider)} :
                    StartsWith(wire.url, BaseURLOf(wire.provider, home))

(* The row, the caller's headers and the wire agree: the row is attributed *)
(* to the provider the request was forwarded to, whatever parser read the  *)
(* answer, and names the model that ran or the one the caller asked for;   *)
(* X-Majordomo-Routed-* names what was contacted (handler.go:231-235,      *)
(* 459-463, 482-488).  A row that says deprecated_model_redirected did not *)
(* run on the deprecated model, whatever was pinned or routed afterwards,  *)
(* unless the body was translated from the caller's (handler.go:249) or    *)
(* the model is in the path (bedrock).                                     *)
RowTellsWire ==
    \A i \in DOMAIN rows :
        /\ rows[i].provider = wire.provider
        /\ rows[i].model \in {wire.model, rows[i].slug, ExtractBedrockModelFromPath(up.path)}
        /\ rows[i].routed <=> wire.credential = StoredCredential(wire.provider)
        /\ rows[i].routed <=>
               \E j \in DOMAIN reply.headers :
                   /\ reply.headers[j].name = "routed"
                   /\ reply.headers[j].provider = wire.provider
                   /\ reply.headers[j].model = wire.model
        /\ rows[i].redirected /\ ~IsTranslationRequired(wire.provider)
                              /\ wire.provider # "bedrock"
               => wire.model # rows[i].original

(* The URL of a request on the OpenAI surface has exactly one version      *)
(* segment in front of its route, with or without /v1 in the caller's      *)
(* path, whichever provider was pinned, detected or routed to, and whether *)
(* or not the request was translated (provider.go:72-128,                  *)
(* handler.go:266-273).                                                    *)
OneVersionSegment ==
    LET path == NormalizeOpenAIPath(req.path)
    IN wire # None /\ HasSuffixAt(path, 2) /\ path[1] = "v1" =>
           Cardinality(VersionsOf(wire.url)) = 1

=============================================================================
