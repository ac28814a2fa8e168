--------------------------- MODULE Handler_proofs ---------------------------
(***************************************************************************)
(* For any requests, catalog, deprecations and configured base URLs: every *)
(* answer that reached a caller is logged once, in a row that tells what   *)
(* was sent; credentials go where they belong, and URLs have one version.  *)
(***************************************************************************)
EXTENDS Handler, SequenceTheorems, FiniteSetTheorems, TLAPS

(* Where the handler is determines what has been replied and logged.       *)
LogInv ==
    /\ pc # "done" => reply.by = "nobody" /\ logging = 0 /\ rows = <<>>
    /\ pc = "done" =>
          \/ reply.by = "gateway" /\ logging = 0 /\ rows = <<>>
          \/ reply.by = "upstream" /\ logging = 1 /\ rows = <<>>
          \/ reply.by = "upstream" /\ logging = 0 /\ \E row : rows = <<row>>

LEMMA RefuseLogInv ==
    ASSUME LogInv, pc # "done", NEW status, Refuse(status)
    PROVE  LogInv'
    BY DEF LogInv, Refuse

(* Every step that replies ends the handler, and every other one before    *)
(* that neither replies nor logs.                                          *)
LEMMA NextLogInv == LogInv /\ [Next]_vars => LogInv'
<1> SUFFICES ASSUME LogInv, [Next]_vars PROVE LogInv'
    OBVIOUS
<1>1. CASE Unauthorized
    BY <1>1, RefuseLogInv DEF Unauthorized
<1>2. CASE BodyUnreadable
    BY <1>2, RefuseLogInv DEF BodyUnreadable
<1>3. CASE DetectProvider
    <2>1. CASE Refuse(400)
        BY <1>3, <2>1, RefuseLogInv DEF DetectProvider
    <2>2. CASE ~Refuse(400)
        BY <1>3, <2>2 DEF DetectProvider, Prepare, LogInv
    <2> QED
        BY <2>1, <2>2
<1>4. CASE RegionResolved
    BY <1>4 DEF RegionResolved, Prepare, LogInv
<1>5. CASE RegionUnknown
    BY <1>5, RefuseLogInv DEF RegionUnknown
<1>6. CASE CheckDeprecated
    BY <1>6 DEF CheckDeprecated, Prepare, LogInv
<1>7. CASE NoRouting
    BY <1>7 DEF NoRouting, Continue, LogInv
<1>8. CASE NotRoutable
    BY <1>8, RefuseLogInv DEF NotRoutable, Routing
<1>9. CASE RoutingFails
    BY <1>9, RefuseLogInv DEF RoutingFails, Routing
<1>10. CASE Routed
    BY <1>10 DEF Routed, Routing, Prepare, LogInv
<1>11. CASE Translate
    BY <1>11 DEF Translate, Prepare, LogInv
<1>12. CASE UpstreamAnswers
    BY <1>12 DEF UpstreamAnswers, LogInv
<1>13. CASE UpstreamFails
    BY <1>13 DEF UpstreamFails, LogInv
<1>14. CASE RelayStream
    BY <1>14 DEF RelayStream, Respond, LogInv
<1>15. CASE StreamCut
    BY <1>15 DEF StreamCut, LogInv
<1>16. CASE WriteResponse
    BY <1>16 DEF WriteResponse, Respond, LogInv
<1>17. CASE BodyReadFails
    BY <1>17, RefuseLogInv DEF BodyReadFails
<1>18. CASE LogRequest
    <2>1. pc = "done" /\ reply.by = "upstream" /\ logging = 1 /\ rows = <<>>
        BY <1>18 DEF LogRequest, LogInv
    <2>2. PICK row : rows' = Append(rows, row)
        BY <1>18 DEF LogRequest
    <2>3. rows' = <<row>>
        BY <2>1, <2>2
    <2> QED
        BY <1>18, <2>1, <2>3 DEF LogRequest, LogInv
<1>19. CASE UNCHANGED vars
    BY <1>19 DEF vars, LogInv
<1> QED
    BY <1>1, <1>2, <1>3, <1>4, <1>5, <1>6, <1>7, <1>8, <1>9, <1>10, <1>11, <1>12, <1>13,
       <1>14, <1>15, <1>16, <1>17, <1>18, <1>19 DEF Next

(* Exactly the answers that reached a caller are logged, each once: see    *)
(* AnswersLoggedOnce (handler.go:100-419).                                 *)
THEOREM AnswersAlwaysLoggedOnce == Spec => []AnswersLoggedOnce
<1>1. Init => LogInv
    <2> SUFFICES ASSUME Init PROVE LogInv
        OBVIOUS
    <2>1. pc = "start" /\ reply = NoReply /\ logging = 0 /\ rows = <<>>
        BY DEF Init
    <2>2. reply.by = "nobody"
        BY <2>1 DEF NoReply
    <2> QED
        BY <2>1, <2>2 DEF LogInv
<1>2. LogInv => AnswersLoggedOnce
    <2> SUFFICES ASSUME LogInv PROVE AnswersLoggedOnce
        OBVIOUS
    <2>1. CASE logging = 0 /\ rows = <<>> /\ reply.by # "upstream"
        <3>1. Len(rows) + logging = 0
            BY <2>1
        <3> QED
            BY <2>1, <3>1 DEF AnswersLoggedOnce
    <2>2. CASE logging = 1 /\ rows = <<>> /\ reply.by = "upstream"
        <3>1. Len(rows) + logging = 1
            BY <2>2
        <3> QED
            BY <2>2, <3>1 DEF AnswersLoggedOnce
    <2>3. CASE logging = 0 /\ reply.by = "upstream" /\ \E row : rows = <<row>>
        <3>1. PICK row : rows = <<row>>
            BY <2>3
        <3>2. Len(rows) + logging = 1
            BY <2>3, <3>1
        <3> QED
            BY <2>3, <3>2 DEF AnswersLoggedOnce
    <2> QED
        BY <2>1, <2>2, <2>3 DEF LogInv
<1> QED
    BY <1>1, <1>2, NextLogInv, PTL DEF Spec

-----------------------------------------------------------------------------
(* Where a stored key may be: with an endpoint the catalog has, whose model *)
(* replaced that of a JSON body.  The caller's own: with the provider its  *)
(* request was detected for.                                               *)
Lent ==
    /\ req.json
    /\ \E s \in DOMAIN Catalog : \E e \in Catalog[s] :
           /\ up.credential = StoredCredential(e.provider)
           /\ up.provider = e.provider /\ up.base = e.base /\ up.model = e.model

Own ==
    /\ up.credential = CallerCredential
    /\ up.provider = Detect(NormalizeOpenAIPath(req.path), req.header)
    /\ up.provider \in ProviderNames
    /\ \E home \in {DefaultBaseURL[up.provider], RegionalBaseURL(up.provider)} :
           up.base = BaseURLOf(up.provider, home)

(* The segments of paths and base URLs.                                    *)
Segment ==
    STRING \cup {"v1", "v1beta", "openai", "messages", "inference", "anthropic",
                 "api.openai.com", "api.anthropic.com", "generativelanguage",
                 "api.fireworks.ai", "api.together.xyz", "inference.baseten.co",
                 "bedrock-mantle.region", "bedrock-runtime.region"}

UpFields == {"provider", "base", "path", "model", "added", "credential", "redirected",
             "original", "routed", "headers"}

KeyInv ==
    /\ KeysStayHome
    /\ DOMAIN up = UpFields
    /\ req \in Requests /\ up.path \in Seq(Segment)
    /\ pc = "start" => up.credential = CallerCredential /\ up.path = req.path
    /\ pc \in {"region", "model", "route"} => Own
    /\ pc \in {"translate", "forward"} => Own \/ Lent

LEMMA SegmentTuples ==
    /\ <<>> \in Seq(Segment)
    /\ \A a \in Segment : <<a>> \in Seq(Segment)
    /\ \A a, b \in Segment : <<a, b>> \in Seq(Segment)
    /\ \A a, b, c \in Segment : <<a, b, c>> \in Seq(Segment)
    OBVIOUS

LEMMA StringsAreSegments == ASSUME NEW path \in Seq(STRING) PROVE path \in Seq(Segment)
    BY DEF Segment

(* A URL starts with the base URL it was built from.                       *)
LEMMA BaseIsPrefix ==
    ASSUME NEW base \in Seq(Segment), NEW path \in Seq(Segment)
    PROVE  StartsWith(base \o path, base)
<1>1. Len(base) <= Len(base \o path)
    BY ConcatProperties
<1>2. CASE base = <<>>
    <2>1. SubSeq(base \o path, 1, Len(base)) = <<>>
        BY <1>2, SubSeqEmpty
    <2> QED
        BY <1>1, <1>2, <2>1 DEF StartsWith
<1>3. CASE base # <<>>
    <2>1. Len(base) \in 1 .. Len(base) /\ 1 \in 1 .. Len(base)
        BY <1>3
    <2>2. SubSeq(base \o path, 1, Len(base)) = SubSeq(base, 1, Len(base))
        BY <2>1, SubSeqOfConcat1
    <2> QED
        BY <1>1, <2>2, SubSeqFull DEF StartsWith
<1> QED
    BY <1>2, <1>3

LEMMA DetectKnown ==
    ASSUME NEW path, NEW header, Detect(path, header) # "unknown"
    PROVE  Detect(path, header) \in ProviderNames
    BY DEF Detect, DetectFromPath, ProviderNames, DefaultBaseURL

LEMMA BaseURLTyped ==
    ASSUME NEW p \in ProviderNames,
           NEW home \in {DefaultBaseURL[p], RegionalBaseURL(p)}
    PROVE  BaseURLOf(p, home) \in Seq(Segment)
<1>1. DefaultBaseURL[p] \in
          {<<>>, <<"api.openai.com">>, <<"api.anthropic.com">>, <<"generativelanguage">>,
           <<"generativelanguage", "v1beta", "openai">>, <<"api.fireworks.ai", "inference">>,
           <<"api.together.xyz">>, <<"inference.baseten.co">>}
    BY Zenon DEF ProviderNames, DefaultBaseURL
<1>2. DefaultBaseURL[p] \in Seq(Segment)
    <2>1. /\ {"api.openai.com", "api.anthropic.com", "generativelanguage", "v1beta",
              "openai", "api.fireworks.ai", "inference"} \subseteq Segment
          /\ {"api.together.xyz", "inference.baseten.co"} \subseteq Segment
        BY DEF Segment
    <2>2. /\ <<>> \in Seq(Segment) /\ <<"api.openai.com">> \in Seq(Segment)
          /\ <<"api.anthropic.com">> \in Seq(Segment)
          /\ <<"generativelanguage">> \in Seq(Segment)
          /\ <<"api.together.xyz">> \in Seq(Segment)
          /\ <<"inference.baseten.co">> \in Seq(Segment)
        BY <2>1, SegmentTuples, Zenon
    <2>3. <<"generativelanguage", "v1beta", "openai">> \in Seq(Segment)
        BY <2>1, SegmentTuples, Zenon
    <2>4. <<"api.fireworks.ai", "inference">> \in Seq(Segment)
        BY <2>1, SegmentTuples, Zenon
    <2> QED
        BY <1>1, <2>2, <2>3, <2>4, Zenon
<1>3. RegionalBaseURL(p) \in Seq(Segment)
    <2>1. {"bedrock-mantle.region", "anthropic", "bedrock-runtime.region"} \subseteq Segment
        BY DEF Segment
    <2> QED
        BY <2>1, SegmentTuples, Zenon DEF RegionalBaseURL
<1>4. p \in DOMAIN Configured => Configured[p] \in Seq(Segment)
    BY StringsAreSegments, HandlerAssumption
<1> QED
    BY <1>2, <1>3, <1>4 DEF BaseURLOf

(* What goes out carries a key that stays home.                            *)
LEMMA ForwardedStaysHome ==
    ASSUME KeyInv, pc = "forward", wire' = Forwarded, req' = req
    PROVE  KeysStayHome'
<1>1. up.path \in Seq(Segment)
    BY DEF KeyInv
<1>2. CASE Own
    <2>1. PICK home \in {DefaultBaseURL[up.provider], RegionalBaseURL(up.provider)} :
              up.base = BaseURLOf(up.provider, home)
        BY <1>2 DEF Own
    <2>2. up.base \in Seq(Segment)
        BY <1>2, <2>1, BaseURLTyped DEF Own
    <2>3. StartsWith(up.base \o up.path, up.base)
        BY <1>1, <2>2, BaseIsPrefix
    <2>4. /\ wire'.credential = up.credential
          /\ wire'.provider = up.provider
          /\ wire'.url = up.base \o up.path
        BY DEF Forwarded
    <2>5. wire'.credential.of = "caller"
        BY <1>2, <2>4 DEF Own, CallerCredential
    <2> QED
        BY <1>2, <2>1, <2>3, <2>4, <2>5 DEF Own, KeysStayHome
<1>3. CASE Lent
    <2>1. PICK s \in DOMAIN Catalog : \E e \in Catalog[s] :
              /\ up.credential = StoredCredential(e.provider)
              /\ up.provider = e.provider /\ up.base = e.base /\ up.model = e.model
        BY <1>3 DEF Lent
    <2>2. PICK e \in Catalog[s] :
              /\ up.credential = StoredCredential(e.provider)
              /\ up.provider = e.provider /\ up.base = e.base /\ up.model = e.model
        BY <2>1
    <2>3. StartsWith(up.base \o up.path, e.base)
        <3>1. e.base \in Seq(Segment)
            BY StringsAreSegments, HandlerAssumption
        <3> QED
            BY <1>1, <2>2, <3>1, BaseIsPrefix
    <2>4. WireModel = e.model
        BY <1>3, <2>2, HandlerAssumption DEF Lent, WireModel, ModelField
    <2>5. /\ wire'.credential = up.credential
          /\ wire'.model = WireModel
          /\ wire'.url = up.base \o up.path
        BY DEF Forwarded
    <2>6. wire'.credential.of = "stored" /\ wire'.credential.provider = e.provider
        BY <2>2, <2>5 DEF StoredCredential
    <2> QED
        BY <2>2, <2>3, <2>4, <2>5, <2>6 DEF KeysStayHome
<1> QED
    BY <1>2, <1>3 DEF KeyInv

(* Refusing sends nothing and ends the handler.                            *)
LEMMA RefuseKeyInv ==
    ASSUME KeyInv, NEW status, Refuse(status)
    PROVE  KeyInv'
    BY DEF KeyInv, Refuse, KeysStayHome

(* While no other request is prepared for the upstream than Own or Lent.   *)
LEMMA PrepareKeyInv ==
    ASSUME KeyInv, NEW next, NEW changed, Prepare(next, changed),
           DOMAIN changed = UpFields, changed.path \in Seq(Segment),
           next # "start",
           next \in {"region", "model", "route"} => Own',
           next \in {"translate", "forward"} => Own' \/ Lent'
    PROVE  KeyInv'
    BY DEF KeyInv, Prepare, KeysStayHome

LEMMA NormalizeTyped ==
    ASSUME NEW path \in Seq(STRING)
    PROVE  NormalizeOpenAIPath(path) \in Seq(Segment)
<1>1. path \in Seq(Segment) /\ <<"v1">> \in Seq(Segment)
    BY DEF Segment
<1>2. <<"v1">> \o path \in Seq(Segment)
    BY <1>1, ConcatProperties
<1> QED
    BY <1>1, <1>2 DEF NormalizeOpenAIPath

LEMMA StripTyped ==
    ASSUME NEW path \in Seq(Segment)
    PROVE  StripOpenAIVersionPrefix(path) \in Seq(Segment)
<1>1. CASE HasSuffixAt(path, 2) /\ path[1] = "v1"
    <2>1. path # <<>>
        BY <1>1 DEF HasSuffixAt
    <2> QED
        BY <1>1, <2>1, HeadTailProperties DEF StripOpenAIVersionPrefix
<1> QED
    BY <1>1 DEF StripOpenAIVersionPrefix

(* The detected provider comes with a base URL of its own.                 *)
LEMMA DetectKeyInv == KeyInv /\ DetectProvider => KeyInv'
<1> SUFFICES ASSUME KeyInv, DetectProvider PROVE KeyInv'
    OBVIOUS
<1> DEFINE path == NormalizeOpenAIPath(req.path)
           p == Detect(path, req.header)
           next == IF p \in {"bedrock", "bedrock-mantle"} THEN "region" ELSE "model"
           changed == [up EXCEPT !.path = path, !.provider = p,
                                 !.base = BaseURLOf(p, DefaultBaseURL[p])]
<1>1. CASE p = "unknown"
    <2>1. Refuse(400)
        BY <1>1 DEF DetectProvider
    <2> QED
        BY <2>1, RefuseKeyInv
<1>2. CASE p # "unknown"
    <2>1. Prepare(next, changed)
        BY <1>2 DEF DetectProvider
    <2>2. req.path \in Seq(STRING) /\ path \in Seq(Segment)
        BY NormalizeTyped, HandlerAssumption DEF KeyInv
    <2>3. p \in ProviderNames
        BY <1>2, DetectKnown
    <2>4. /\ DOMAIN changed = UpFields /\ changed.path = path
          /\ changed.provider = p /\ changed.base = BaseURLOf(p, DefaultBaseURL[p])
          /\ changed.credential = CallerCredential
        <3>1. DOMAIN up = UpFields /\ up.credential = CallerCredential
            BY DEF KeyInv, DetectProvider
        <3> QED
            BY <3>1 DEF UpFields
    <2>5. up' = changed /\ req' = req
        BY <2>1 DEF Prepare
    <2>6. Own'
        <3> HIDE DEF changed
        <3> QED
            BY <2>3, <2>4, <2>5 DEF Own
    <2>7. next \in {"region", "model"}
        OBVIOUS
    <2> HIDE DEF changed, next
    <2> QED
        BY <2>1, <2>2, <2>4, <2>6, <2>7, PrepareKeyInv
<1> QED
    BY <1>1, <1>2

LEMMA RegionKeyInv == KeyInv /\ RegionResolved => KeyInv'
<1> SUFFICES ASSUME KeyInv, RegionResolved PROVE KeyInv'
    OBVIOUS
<1> DEFINE base == BaseURLOf(up.provider, RegionalBaseURL(up.provider))
           changed == [up EXCEPT !.base = base]
<1>1. Prepare("model", changed) /\ Own
    BY DEF RegionResolved, KeyInv
<1>2. /\ DOMAIN changed = UpFields /\ changed.path = up.path /\ changed.base = base
      /\ changed.provider = up.provider /\ changed.credential = up.credential
    BY DEF KeyInv, UpFields
<1>3. up' = changed /\ req' = req
    BY <1>1 DEF Prepare
<1>4. up.path \in Seq(Segment)
    BY DEF KeyInv
<1> HIDE DEF changed
<1>5. Own'
    BY <1>1, <1>2, <1>3 DEF Own
<1> QED
    BY <1>1, <1>2, <1>4, <1>5, PrepareKeyInv

(* A deprecated model is replaced, nothing else.                           *)
LEMMA DeprecatedKeyInv == KeyInv /\ CheckDeprecated => KeyInv'
<1> SUFFICES ASSUME KeyInv, CheckDeprecated PROVE KeyInv'
    OBVIOUS
<1>1. /\ Prepare("route", up') /\ Own /\ req' = req
      /\ DOMAIN up' = UpFields /\ up'.path = up.path /\ up'.base = up.base
      /\ up'.provider = up.provider /\ up'.credential = up.credential
    BY DEF CheckDeprecated, Prepare, KeyInv, UpFields
<1>2. up.path \in Seq(Segment)
    BY DEF KeyInv
<1>3. Own'
    BY <1>1 DEF Own
<1> QED
    BY <1>1, <1>2, <1>3, PrepareKeyInv

(* Routing lends the stored key to an endpoint of the slug: only a JSON    *)
(* body names a slug.                                                      *)
LEMMA RoutedKeyInv == KeyInv /\ Routed => KeyInv'
<1> SUFFICES ASSUME KeyInv, Routed PROVE KeyInv'
    OBVIOUS
<1>1. PICK e \in Candidates : up' =
          [up EXCEPT !.provider = e.provider, !.base = e.base, !.model = e.model,
                     !.added = AppliedDefaults(e),
                     !.credential = StoredCredential(e.provider), !.routed = TRUE,
                     !.headers = Append(@, [name |-> "routed", model |-> e.model,
                                            provider |-> e.provider])]
    BY DEF Routed, Prepare
<1>2. Prepare("translate", up') /\ req' = req
    BY DEF Routed, Prepare
<1>3. /\ DOMAIN up' = UpFields /\ up'.path = up.path /\ up'.base = e.base
      /\ up'.provider = e.provider /\ up'.model = e.model
      /\ up'.credential = StoredCredential(e.provider)
    BY <1>1 DEF KeyInv, UpFields
<1>4. Slug \in DOMAIN Catalog /\ e \in Catalog[Slug]
    BY DEF Candidates
<1>5. req.json
    BY <1>4, HandlerAssumption DEF Slug, ModelField, KeyInv
<1>6. Lent'
    BY <1>2, <1>3, <1>4, <1>5 DEF Lent
<1>7. up.path \in Seq(Segment)
    BY DEF KeyInv
<1> QED
    BY <1>2, <1>3, <1>6, <1>7, PrepareKeyInv

(* Translation touches the path, and the model only of a provider that is  *)
(* never in the catalog.                                                   *)
LEMMA TranslateKeyInv == KeyInv /\ Translate => KeyInv'
<1> SUFFICES ASSUME KeyInv, Translate PROVE KeyInv'
    OBVIOUS
<1> DEFINE translated == IsTranslationRequired(up.provider) /\ req.json
           path == IF translated THEN <<"v1", "messages">> ELSE up.path
           sent == IF BaseURLHasVersionSegment(up.provider)
                   THEN StripOpenAIVersionPrefix(path) ELSE path
<1>1. path \in Seq(Segment)
    <2>1. {"v1", "messages"} \subseteq Segment
        BY DEF Segment
    <2> QED
        BY <2>1, SegmentTuples DEF KeyInv
<1>2. sent \in Seq(Segment)
    BY <1>1, StripTyped
<1>3. Prepare("forward", up') /\ req' = req /\ (Own \/ Lent)
    BY DEF Translate, Prepare, KeyInv
<1>4. up' = [up EXCEPT !.model = IF translated THEN req.model ELSE @, !.path = sent]
    BY DEF Translate, Prepare
<1> HIDE DEF sent, translated
<1>5. /\ DOMAIN up' = UpFields /\ up'.path = sent /\ up'.base = up.base
      /\ up'.provider = up.provider /\ up'.credential = up.credential
      /\ ~translated => up'.model = up.model
    BY <1>4 DEF KeyInv, UpFields
<1>6. Own => Own'
    BY <1>3, <1>5 DEF Own
<1>7. Lent => Lent'
    <2>1. Lent => ~translated
        BY HandlerAssumption DEF Lent, translated, IsTranslationRequired
    <2> QED
        BY <1>3, <1>5, <2>1 DEF Lent
<1> QED
    BY <1>2, <1>3, <1>5, <1>6, <1>7, PrepareKeyInv

LEMMA NextKeyInv == KeyInv /\ [Next]_vars => KeyInv'
<1> SUFFICES ASSUME KeyInv, [Next]_vars PROVE KeyInv'
    OBVIOUS
<1>1. CASE Unauthorized \/ BodyUnreadable \/ RegionUnknown \/ NotRoutable \/ RoutingFails
          \/ BodyReadFails
    BY <1>1, RefuseKeyInv
    DEF Unauthorized, BodyUnreadable, RegionUnknown, NotRoutable, RoutingFails, BodyReadFails
<1>2. CASE DetectProvider
    BY <1>2, DetectKeyInv
<1>3. CASE RegionResolved
    BY <1>3, RegionKeyInv
<1>4. CASE CheckDeprecated
    BY <1>4, DeprecatedKeyInv
<1>5. CASE NoRouting
    BY <1>5 DEF NoRouting, Continue, KeyInv, KeysStayHome, Own, Lent
<1>6. CASE Routed
    BY <1>6, RoutedKeyInv
<1>7. CASE Translate
    BY <1>7, TranslateKeyInv
<1>8. CASE UpstreamAnswers
    <2>1. /\ pc = "forward" /\ wire' = Forwarded /\ req' = req /\ up' = up
          /\ pc' \in {"relay", "buffer"}
        BY <1>8 DEF UpstreamAnswers
    <2> QED
        BY <2>1, ForwardedStaysHome DEF KeyInv
<1>9. CASE UpstreamFails
    <2>1. /\ pc = "forward" /\ (wire' = None \/ wire' = Forwarded)
          /\ req' = req /\ up' = up /\ pc' = "done"
        BY <1>9 DEF UpstreamFails
    <2>2. KeysStayHome'
        BY <2>1, ForwardedStaysHome DEF KeysStayHome
    <2> QED
        BY <2>1, <2>2 DEF KeyInv
<1>10. CASE RelayStream \/ StreamCut \/ WriteResponse \/ LogRequest
    BY <1>10 DEF RelayStream, StreamCut, WriteResponse, LogRequest, KeyInv, KeysStayHome, Own, Lent
<1>11. CASE UNCHANGED vars
    BY <1>11 DEF vars, KeyInv, KeysStayHome, Own, Lent
<1> QED
    BY <1>1, <1>2, <1>3, <1>4, <1>5, <1>6, <1>7, <1>8, <1>9, <1>10, <1>11 DEF Next

(* No credential leaves with a request it is not for: see KeysStayHome     *)
(* (handler.go:205-250).                                                   *)
THEOREM KeysAlwaysStayHome == Spec => []KeysStayHome
<1>1. Init => KeyInv
    <2> SUFFICES ASSUME Init PROVE KeyInv
        OBVIOUS
    <2>1. /\ pc = "start" /\ wire = None /\ req \in Requests
          /\ up.credential = CallerCredential /\ up.path = req.path
          /\ DOMAIN up = UpFields
        BY DEF Init, UpFields
    <2>2. up.path \in Seq(Segment)
        BY <2>1, HandlerAssumption DEF Segment
    <2> QED
        BY <2>1, <2>2 DEF KeyInv, KeysStayHome
<1>2. KeyInv => KeysStayHome
    BY DEF KeyInv
<1> QED
    BY <1>1, <1>2, NextKeyInv, PTL DEF Spec

-----------------------------------------------------------------------------
(* What the handler has decided about a request, and what the caller is    *)
(* told about it.  A model that replaced a deprecated one is not           *)
(* deprecated, unless the translation goes back to the body of the caller. *)
Told(h) == h = <<>> \/ (h = <<h[1]>> /\ h[1].name = "deprecated")

RoutedNotice == [name |-> "routed", model |-> up.model, provider |-> up.provider]

FromCatalog ==
    /\ req.json
    /\ \E s \in DOMAIN Catalog : \E e \in Catalog[s] :
           up.provider = e.provider /\ up.model = e.model
    /\ up.credential = StoredCredential(up.provider)
    /\ \/ up.headers = <<RoutedNotice>>
       \/ /\ up.headers = <<up.headers[1], RoutedNotice>>
          /\ up.headers[1].name = "deprecated"

Redirected ==
    up.redirected => /\ up.original \in DOMAIN Deprecated
                     /\ req.json
                     /\ up.model \notin DOMAIN Deprecated \/ IsTranslationRequired(up.provider)

Early == {"start", "region", "model", "route"}

Decisions ==
    /\ up.provider \in ProviderNames \cup {"unknown"}
    /\ up.routed \in BOOLEAN
    /\ Redirected
    /\ up.routed => FromCatalog
    /\ ~up.routed => up.credential = CallerCredential /\ Told(up.headers)
    /\ pc \in Early => ~up.routed
    /\ pc \in {"start", "region", "model"} => ~up.redirected

(* What went out, came back, was replied and logged follows the decisions. *)
Unsent == Early \cup {"translate", "forward"}

Asked == ModelField(req.json, req.model)

Row(row) ==
    /\ row.provider = up.provider
    /\ row.model \in {WireModel, Asked, ExtractBedrockModelFromPath(up.path)}
    /\ row.redirected = up.redirected /\ row.original = up.original
    /\ row.routed = up.routed /\ row.slug = Asked

Traffic ==
    /\ pc \in Unsent \cup {"relay", "buffer", "done"}
    /\ pc \in Unsent => wire = None
    /\ wire = None \/ (wire = Forwarded /\ wire.url # <<>>)
    /\ pc \in {"relay", "buffer"} \/ reply.by = "upstream" =>
           /\ wire = Forwarded
           /\ answer \in [ok : BOOLEAN, stream : BOOLEAN, names : {"", WireModel}]
    /\ reply.by = "upstream" => reply.headers = up.headers
    /\ rows = <<>> \/ (rows = <<rows[1]>> /\ Row(rows[1]))

RowInv == LogInv /\ KeyInv /\ Decisions /\ Traffic

LEMMA SameRequest ==
    ASSUME up' = up, req' = req
    PROVE  /\ Forwarded' = Forwarded /\ WireModel' = WireModel /\ Asked' = Asked
           /\ \A row : Row(row)' <=> Row(row)
<1>1. Forwarded' = Forwarded /\ WireModel' = WireModel /\ Asked' = Asked
    BY DEF Forwarded, WireModel, Asked
<1> QED
    BY <1>1 DEF Row

(* Decisions stand while nothing of the request is changed.                *)
LEMMA DecisionsStand ==
    ASSUME Decisions, up' = up, req' = req, pc' \in Early => pc' = pc \/ pc = "model"
    PROVE  Decisions'
<1>1. RoutedNotice' = RoutedNotice
    BY DEF RoutedNotice
<1>2. FromCatalog => FromCatalog'
    BY <1>1 DEF FromCatalog
<1>3. Redirected => Redirected'
    BY DEF Redirected
<1> QED
    BY <1>2, <1>3 DEF Decisions, Early

LEMMA RefuseRowInv ==
    ASSUME RowInv, pc # "done", NEW status, Refuse(status)
    PROVE  Decisions' /\ Traffic'
<1>1. /\ up' = up /\ req' = req /\ wire' = wire /\ answer' = answer /\ rows' = rows
      /\ pc' = "done" /\ reply'.by = "gateway"
    BY DEF Refuse
<1>2. Decisions'
    BY <1>1, DecisionsStand DEF RowInv, Early
<1>3. rows = <<>>
    BY DEF RowInv, LogInv
<1>4. Traffic'
    BY <1>1, <1>3, SameRequest DEF RowInv, Traffic, Unsent, Early
<1> QED
    BY <1>2, <1>4

(* Before the request goes out there is nothing to agree with.             *)
LEMMA NothingSent ==
    ASSUME RowInv, pc \in Unsent, pc' \in Unsent,
           wire' = wire, reply' = reply, rows' = rows
    PROVE  Traffic'
<1>1. pc # "done" /\ wire = None
    BY DEF RowInv, Traffic, Unsent, Early
<1>2. reply.by = "nobody" /\ rows = <<>>
    BY <1>1 DEF RowInv, LogInv
<1> QED
    BY <1>1, <1>2 DEF Traffic, Unsent, Early

LEMMA DetectRowInv == RowInv /\ DetectProvider => Decisions' /\ Traffic'
<1> SUFFICES ASSUME RowInv, DetectProvider PROVE Decisions' /\ Traffic'
    OBVIOUS
<1> DEFINE path == NormalizeOpenAIPath(req.path)
           p == Detect(path, req.header)
           next == IF p \in {"bedrock", "bedrock-mantle"} THEN "region" ELSE "model"
           changed == [up EXCEPT !.path = path, !.provider = p,
                                 !.base = BaseURLOf(p, DefaultBaseURL[p])]
<1>1. CASE p = "unknown"
    BY <1>1, RefuseRowInv DEF DetectProvider
<1>2. CASE p # "unknown"
    <2>1. Prepare(next, changed)
        BY <1>2 DEF DetectProvider
    <2>2. p \in ProviderNames
        BY <1>2, DetectKnown
    <2>3. /\ changed.provider = p /\ changed.credential = up.credential
          /\ changed.routed = up.routed /\ changed.headers = up.headers
          /\ changed.redirected = up.redirected /\ changed.original = up.original
          /\ changed.model = up.model
        BY DEF RowInv, KeyInv, UpFields
    <2>4. next \in {"region", "model"} /\ pc = "start"
        BY DEF DetectProvider
    <2> HIDE DEF next, changed, p
    <2>5. ~up.routed /\ ~up.redirected
        BY <2>4 DEF RowInv, Decisions, Early
    <2>6. up' = changed /\ pc' = next
        BY <2>1 DEF Prepare
    <2>7. Decisions'
        BY <2>2, <2>3, <2>4, <2>5, <2>6 DEF RowInv, Decisions, Redirected, Early
    <2>8. Traffic'
        BY <2>1, <2>4, NothingSent DEF Prepare, Unsent, Early
    <2> QED
        BY <2>7, <2>8
<1> QED
    BY <1>1, <1>2

LEMMA RegionRowInv == RowInv /\ RegionResolved => Decisions' /\ Traffic'
<1> SUFFICES ASSUME RowInv, RegionResolved PROVE Decisions' /\ Traffic'
    OBVIOUS
<1>1. /\ pc = "region" /\ pc' = "model" /\ req' = req
      /\ wire' = wire /\ reply' = reply /\ rows' = rows
      /\ up' = [up EXCEPT !.base = BaseURLOf(up.provider, RegionalBaseURL(up.provider))]
    BY DEF RegionResolved, Prepare
<1>2. /\ up'.provider = up.provider /\ up'.credential = up.credential
      /\ up'.routed = up.routed /\ up'.headers = up.headers
      /\ up'.redirected = up.redirected
    BY <1>1 DEF RowInv, KeyInv, UpFields
<1>3. ~up.routed /\ ~up.redirected
    BY <1>1 DEF RowInv, Decisions, Early
<1>4. Decisions'
    BY <1>1, <1>2, <1>3 DEF RowInv, Decisions, Redirected, Early
<1>5. Traffic'
    BY <1>1, NothingSent DEF Unsent, Early
<1> QED
    BY <1>4, <1>5

(* The replacement is not deprecated itself.                               *)
LEMMA DeprecatedRowInv == RowInv /\ CheckDeprecated => Decisions' /\ Traffic'
<1> SUFFICES ASSUME RowInv, CheckDeprecated PROVE Decisions' /\ Traffic'
    OBVIOUS
<1> DEFINE replacement == Deprecated[RequestedModel]
           notice == [name |-> "deprecated", model |-> replacement]
           told == IF req.behavior = "warn" THEN <<notice>> ELSE <<>>
           substitute == /\ RequestedModel \in DOMAIN Deprecated
                         /\ req.behavior \in {"redirect", "warn"}
                         /\ req.json
<1>1. /\ pc = "model" /\ pc' = "route" /\ req' = req
      /\ wire' = wire /\ reply' = reply /\ rows' = rows
      /\ up' = IF ~substitute THEN up
               ELSE [up EXCEPT !.model = replacement, !.redirected = TRUE,
                               !.original = RequestedModel, !.headers = told]
    BY DEF CheckDeprecated, Prepare
<1>2. Traffic'
    BY <1>1, NothingSent DEF Unsent, Early
<1>3. CASE ~substitute
    BY <1>1, <1>2, <1>3, DecisionsStand DEF RowInv, Early
<1>4. CASE substitute
    <2>1. Told(told)
        BY DEF Told
    <2> HIDE DEF told
    <2>2. /\ up'.provider = up.provider /\ up'.credential = up.credential
          /\ up'.routed = up.routed /\ up'.headers = told
          /\ up'.redirected = TRUE /\ up'.original = RequestedModel
          /\ up'.model = replacement
        BY <1>1, <1>4 DEF RowInv, KeyInv, UpFields
    <2>3. replacement \notin DOMAIN Deprecated
        BY <1>4, DeprecatedAssumption
    <2>4. Redirected'
        BY <1>1, <1>4, <2>2, <2>3 DEF Redirected
    <2>5. ~up.routed
        BY <1>1 DEF RowInv, Decisions, Early
    <2>6. Decisions'
        <3> HIDE DEF substitute, replacement
        <3> QED
            BY <1>1, <2>1, <2>2, <2>4, <2>5 DEF RowInv, Decisions
    <2> QED
        BY <1>2, <2>6
<1> QED
    BY <1>3, <1>4

LEMMA AppendToOne == ASSUME NEW d, NEW n PROVE Append(<<d>>, n) = <<d, n>>
<1>1. <<d>> \in Seq({d, n}) /\ <<d, n>> \in Seq({d, n})
    OBVIOUS
<1>2. /\ Append(<<d>>, n) \in Seq({d, n}) /\ Len(Append(<<d>>, n)) = 2
      /\ Append(<<d>>, n)[1] = d /\ Append(<<d>>, n)[2] = n
    BY <1>1
<1> DEFINE a == Append(<<d>>, n)
           t == <<d, n>>
<1>3. Len(t) = 2 /\ t[1] = d /\ t[2] = n
    OBVIOUS
<1> HIDE DEF a, t
<1>4. Len(a) = Len(t) /\ \A i \in 1..Len(a) : a[i] = t[i]
    BY <1>2, <1>3 DEF a
<1>5. a \in Seq({d, n}) /\ t \in Seq({d, n})
    BY <1>1, <1>2 DEF a, t
<1> QED
    BY <1>4, <1>5, SeqEqual DEF a, t

(* Who is routed to is in the catalog and on the wire, and the caller is   *)
(* told about it after what was told already.                              *)
LEMMA RoutedRowInv == RowInv /\ Routed => Decisions' /\ Traffic'
<1> SUFFICES ASSUME RowInv, Routed PROVE Decisions' /\ Traffic'
    OBVIOUS
<1>1. PICK e \in Candidates : up' =
          [up EXCEPT !.provider = e.provider, !.base = e.base, !.model = e.model,
                     !.added = AppliedDefaults(e),
                     !.credential = StoredCredential(e.provider), !.routed = TRUE,
                     !.headers = Append(@, [name |-> "routed", model |-> e.model,
                                            provider |-> e.provider])]
    BY DEF Routed, Prepare
<1> DEFINE n == [name |-> "routed", model |-> e.model, provider |-> e.provider]
<1>2. /\ pc = "route" /\ pc' = "translate" /\ req' = req
      /\ wire' = wire /\ reply' = reply /\ rows' = rows
    BY DEF Routed, Routing, Prepare
<1>3. /\ up'.provider = e.provider /\ up'.model = e.model
      /\ up'.credential = StoredCredential(e.provider)
      /\ up'.routed = TRUE /\ up'.headers = Append(up.headers, n)
      /\ up'.redirected = up.redirected /\ up'.original = up.original
    BY <1>1 DEF RowInv, KeyInv, UpFields
<1>4. Slug \in DOMAIN Catalog /\ e \in Catalog[Slug]
    BY DEF Candidates
<1>5. req.json
    BY <1>4, HandlerAssumption DEF Slug, ModelField, RowInv, KeyInv
<1>6. e.provider \in ProviderNames /\ e.model \notin DOMAIN Deprecated
    BY <1>4, HandlerAssumption, DeprecatedAssumption
<1>7. Told(up.headers)
    BY <1>2 DEF RowInv, Decisions, Early
<1>8. \/ up'.headers = <<n>>
      \/ up'.headers = <<up'.headers[1], n>> /\ up'.headers[1].name = "deprecated"
    <2> HIDE DEF n
    <2>1. CASE up.headers = <<>>
        BY <1>3, <2>1
    <2>2. ASSUME NEW d, up.headers = <<d>>, d.name = "deprecated"
          PROVE  up'.headers = <<up'.headers[1], n>> /\ up'.headers[1].name = "deprecated"
        <3>1. Append(<<d>>, n) = <<d, n>>
            BY AppendToOne
        <3>2. up'.headers = <<d, n>>
            BY <1>3, <2>2, <3>1
        <3> QED
            BY <2>2, <3>2
    <2> QED
        BY <1>7, <2>1, <2>2 DEF Told
<1>9. RoutedNotice' = n
    BY <1>3 DEF RoutedNotice
<1>10. FromCatalog'
    <2> HIDE DEF n
    <2> QED
        BY <1>2, <1>3, <1>4, <1>5, <1>8, <1>9 DEF FromCatalog
<1>11. Redirected'
    BY <1>2, <1>3, <1>6 DEF RowInv, Decisions, Redirected
<1>12. Decisions'
    BY <1>2, <1>3, <1>6, <1>10, <1>11 DEF Decisions, Early
<1>13. Traffic'
    BY <1>2, NothingSent DEF Unsent, Early
<1> QED
    BY <1>12, <1>13

(* Only what goes to a provider that is not in the catalog is translated.  *)
LEMMA TranslateRowInv == RowInv /\ Translate => Decisions' /\ Traffic'
<1> SUFFICES ASSUME RowInv, Translate PROVE Decisions' /\ Traffic'
    OBVIOUS
<1> DEFINE translated == IsTranslationRequired(up.provider) /\ req.json
           path == IF translated THEN <<"v1", "messages">> ELSE up.path
           sent == IF BaseURLHasVersionSegment(up.provider)
                   THEN StripOpenAIVersionPrefix(path) ELSE path
<1>1. /\ pc = "translate" /\ pc' = "forward" /\ req' = req
      /\ wire' = wire /\ reply' = reply /\ rows' = rows
      /\ up' = [up EXCEPT !.model = IF translated THEN req.model ELSE @, !.path = sent]
    BY DEF Translate, Prepare
<1>2. /\ up'.provider = up.provider /\ up'.credential = up.credential
      /\ up'.routed = up.routed /\ up'.headers = up.headers
      /\ up'.redirected = up.redirected /\ up'.original = up.original
      /\ ~IsTranslationRequired(up.provider) => up'.model = up.model
    <2> HIDE DEF sent
    <2> QED
        BY <1>1 DEF RowInv, KeyInv, UpFields
<1> HIDE DEF sent, translated
<1>3. Redirected'
    BY <1>1, <1>2 DEF RowInv, Decisions, Redirected
<1>4. FromCatalog => ~IsTranslationRequired(up.provider)
    BY HandlerAssumption DEF FromCatalog, IsTranslationRequired
<1>5. FromCatalog => FromCatalog'
    <2> SUFFICES ASSUME FromCatalog PROVE FromCatalog'
        OBVIOUS
    <2>1. up'.model = up.model /\ RoutedNotice' = RoutedNotice
        BY <1>2, <1>4 DEF RoutedNotice
    <2> QED
        BY <1>1, <1>2, <2>1 DEF FromCatalog
<1>6. Decisions'
    BY <1>1, <1>2, <1>3, <1>5 DEF RowInv, Decisions, Early
<1>7. Traffic'
    BY <1>1, NothingSent DEF Unsent, Early
<1> QED
    BY <1>6, <1>7

(* What goes out has a URL.                                                *)
LEMMA ForwardedHasURL ==
    ASSUME KeyInv, pc = "forward", up.base # <<>>
    PROVE  Forwarded.url # <<>>
<1>1. up.path \in Seq(Segment)
    BY DEF KeyInv
<1>2. up.base \in Seq(Segment)
    <2>1. CASE Own
        BY <2>1, BaseURLTyped DEF Own
    <2>2. CASE Lent
        BY <2>2, StringsAreSegments, HandlerAssumption DEF Lent
    <2> QED
        BY <2>1, <2>2 DEF KeyInv
<1>3. Len(up.base \o up.path) = Len(up.base) + Len(up.path) /\ Len(up.base) > 0
    BY <1>1, <1>2, ConcatProperties
<1>4. up.base \o up.path # <<>>
    BY <1>1, <1>2, <1>3
<1> QED
    BY <1>4 DEF Forwarded

LEMMA ForwardRowInv ==
    ASSUME RowInv, UpstreamAnswers \/ UpstreamFails
    PROVE  Decisions' /\ Traffic'
<1>1. /\ pc = "forward" /\ up' = up /\ req' = req /\ rows' = rows
      /\ pc' \in {"relay", "buffer", "done"}
    BY DEF UpstreamAnswers, UpstreamFails
<1>2. reply.by = "nobody" /\ rows = <<>>
    BY <1>1 DEF RowInv, LogInv
<1>3. Decisions'
    BY <1>1, DecisionsStand DEF RowInv, Early
<1>4. up.base # <<>> => Forwarded.url # <<>>
    BY <1>1, ForwardedHasURL DEF RowInv
<1>5. CASE UpstreamAnswers
    <2>1. /\ wire' = Forwarded /\ wire'.url # <<>>
          /\ answer' \in [ok : BOOLEAN, stream : BOOLEAN, names : {"", WireModel}]
          /\ pc' \in {"relay", "buffer"} /\ reply' = reply
        BY <1>4, <1>5 DEF UpstreamAnswers, Answers
    <2> QED
        BY <1>1, <1>2, <1>3, <2>1, SameRequest DEF Traffic, Unsent, Early
<1>6. CASE UpstreamFails
    <2>1. /\ wire' = None \/ (wire' = Forwarded /\ wire'.url # <<>>)
          /\ pc' = "done" /\ reply'.by = "gateway"
        BY <1>4, <1>6 DEF UpstreamFails
    <2> QED
        BY <1>1, <1>2, <1>3, <2>1, SameRequest DEF Traffic, Unsent, Early
<1> QED
    BY <1>5, <1>6

LEMMA AnswerRowInv ==
    ASSUME RowInv, RelayStream \/ StreamCut \/ WriteResponse
    PROVE  Decisions' /\ Traffic'
<1>1. /\ pc \in {"relay", "buffer"} /\ pc' \in {"relay", "done"}
      /\ up' = up /\ req' = req /\ wire' = wire /\ rows' = rows
    BY DEF RelayStream, StreamCut, WriteResponse
<1>2. /\ wire = Forwarded /\ (wire = None \/ wire.url # <<>>)
      /\ answer \in [ok : BOOLEAN, stream : BOOLEAN, names : {"", WireModel}]
      /\ reply.by = "nobody" /\ rows = <<>>
    <2>1. pc # "done" /\ wire = Forwarded
          /\ answer \in [ok : BOOLEAN, stream : BOOLEAN, names : {"", WireModel}]
        BY <1>1 DEF RowInv, Traffic
    <2>2. wire = None \/ wire.url # <<>>
        BY DEF RowInv, Traffic
    <2>3. reply.by = "nobody" /\ rows = <<>>
        BY <2>1 DEF RowInv, LogInv
    <2> QED
        BY <2>1, <2>2, <2>3
<1>3. answer' \in [ok : BOOLEAN, stream : BOOLEAN, names : {"", WireModel}]
    BY <1>2 DEF RelayStream, StreamCut, WriteResponse
<1>4. reply' = reply \/ reply'.headers = up.headers
    <2>1. Respond.headers = up.headers
        BY DEF Respond
    <2> QED
        BY <2>1 DEF RelayStream, StreamCut, WriteResponse
<1>5. Decisions'
    BY <1>1, DecisionsStand DEF RowInv, Early
<1>6. Traffic'
    BY <1>1, <1>2, <1>3, <1>4, SameRequest DEF RowInv, Traffic, Unsent, Early
<1> QED
    BY <1>5, <1>6

(* The row is made of the decisions, and of the model the answer named.    *)
LEMMA LogRowInv == RowInv /\ LogRequest => Decisions' /\ Traffic'
<1> SUFFICES ASSUME RowInv, LogRequest PROVE Decisions' /\ Traffic'
    OBVIOUS
<1>1. /\ logging > 0 /\ up' = up /\ req' = req /\ pc' = pc
      /\ wire' = wire /\ answer' = answer /\ reply' = reply
    BY DEF LogRequest
<1>2. pc = "done" /\ reply.by = "upstream" /\ rows = <<>>
    BY <1>1 DEF RowInv, LogInv
<1>3. PICK archived \in BOOLEAN : rows' = Append(rows,
          [provider |-> up.provider, model |-> LoggedModel,
           redirected |-> up.redirected, original |-> up.original,
           routed |-> up.routed, slug |-> Asked, archived |-> archived])
    BY DEF LogRequest, LoggedProvider, Asked
<1> DEFINE row == [provider |-> up.provider, model |-> LoggedModel,
                   redirected |-> up.redirected, original |-> up.original,
                   routed |-> up.routed, slug |-> Asked, archived |-> archived]
<1>4. answer.names \in {"", WireModel}
    BY <1>2 DEF RowInv, Traffic
<1>5. LoggedModel \in {WireModel, Asked, ExtractBedrockModelFromPath(up.path)}
    BY <1>4 DEF LoggedModel, Asked
<1>6. Row(row)
    BY <1>5 DEF Row
<1> HIDE DEF row
<1>7. rows' = <<row>>
    BY <1>2, <1>3 DEF row
<1>8. rows' = <<rows'[1]>> /\ Row(rows'[1])
    BY <1>6, <1>7
<1>9. Decisions'
    BY <1>1, DecisionsStand DEF RowInv, Early
<1>10. Traffic'
    BY <1>1, <1>2, <1>8, SameRequest DEF RowInv, Traffic, Unsent, Early
<1> QED
    BY <1>9, <1>10

LEMMA NextRowInv == RowInv /\ [Next]_vars => RowInv'
<1> SUFFICES ASSUME RowInv, [Next]_vars PROVE Decisions' /\ Traffic'
    BY NextLogInv, NextKeyInv DEF RowInv
<1>1. CASE Unauthorized \/ BodyUnreadable \/ RegionUnknown \/ NotRoutable \/ RoutingFails
          \/ BodyReadFails
    BY <1>1, RefuseRowInv
    DEF Unauthorized, BodyUnreadable, RegionUnknown, NotRoutable, RoutingFails, BodyReadFails,
        Routing
<1>2. CASE NoRouting
    <2>1. /\ pc = "route" /\ pc' = "translate" /\ up' = up /\ req' = req
          /\ wire' = wire /\ reply' = reply /\ rows' = rows
        BY <1>2 DEF NoRouting, Continue
    <2> QED
        BY <2>1, DecisionsStand, NothingSent DEF RowInv, Unsent, Early
<1>3. CASE LogRequest
    BY <1>3, LogRowInv
<1>4. CASE UNCHANGED vars
    <2>1. Decisions'
        BY <1>4, DecisionsStand DEF RowInv, vars
    <2>2. Traffic'
        BY <1>4, SameRequest DEF RowInv, vars, Traffic
    <2> QED
        BY <2>1, <2>2
<1> QED
    BY <1>1, <1>2, <1>3, <1>4, DetectRowInv, RegionRowInv, DeprecatedRowInv, RoutedRowInv,
       TranslateRowInv, ForwardRowInv, AnswerRowInv DEF Next

LEMMA RowAlways == Spec => []RowInv
<1>1. Init => RowInv
    <2> SUFFICES ASSUME Init PROVE RowInv
        OBVIOUS
    <2>1. /\ pc = "start" /\ wire = None /\ reply = NoReply /\ logging = 0 /\ rows = <<>>
          /\ req \in Requests
          /\ up.credential = CallerCredential /\ up.path = req.path
          /\ up.provider = "unknown" /\ up.routed = FALSE /\ up.redirected = FALSE
          /\ up.headers = <<>>
          /\ DOMAIN up = UpFields
        BY DEF Init, UpFields
    <2>2. reply.by = "nobody"
        BY <2>1 DEF NoReply
    <2>3. LogInv
        BY <2>1, <2>2 DEF LogInv
    <2>4. KeyInv
        BY <2>1, HandlerAssumption, StringsAreSegments DEF KeyInv, KeysStayHome
    <2>5. Decisions
        BY <2>1 DEF Decisions, Redirected, Told
    <2>6. Traffic
        BY <2>1, <2>2 DEF Traffic, Unsent, Early
    <2> QED
        BY <2>3, <2>4, <2>5, <2>6 DEF RowInv
<1> QED
    BY <1>1, NextRowInv, PTL DEF Spec

(* Type correctness: every replaced model was deprecated, every routed     *)
(* provider is in the catalog, and what went out had a URL.                *)
THEOREM HandlerTyped == Spec => []TypeOK
<1>1. RowInv => TypeOK
    <2> SUFFICES ASSUME RowInv PROVE TypeOK
        OBVIOUS
    <2>1. /\ pc \in {"start", "region", "model", "route", "translate", "forward", "relay",
                     "buffer", "done"}
          /\ wire = None \/ (wire = Forwarded /\ wire.url # <<>>)
        BY DEF RowInv, Traffic, Unsent, Early
    <2>2. Forwarded.provider = up.provider
        BY DEF Forwarded
    <2>3. up.routed => up.provider \in {e.provider : e \in UNION Range(Catalog)}
        <3> SUFFICES ASSUME FromCatalog
                     PROVE  up.provider \in {e.provider : e \in UNION Range(Catalog)}
            BY DEF RowInv, Decisions
        <3>1. PICK s \in DOMAIN Catalog : \E e \in Catalog[s] : up.provider = e.provider
            BY DEF FromCatalog
        <3>2. Catalog[s] \in Range(Catalog)
            BY DEF Range
        <3> QED
            BY <3>1, <3>2
    <2>4. reply.by \in {"nobody", "gateway", "upstream"} /\ logging \in Nat
        BY DEF RowInv, LogInv
    <2> QED
        BY <2>1, <2>2, <2>3, <2>4 DEF TypeOK, RowInv, KeyInv, Decisions, Redirected
<1> QED
    BY <1>1, RowAlways, PTL

(* Row, wire and headers agree for every request, catalog and list of      *)
(* deprecations: see RowTellsWire (handler.go:231-235, 459-463, 482-488).  *)
THEOREM RowsAlwaysTellWire == Spec => []RowTellsWire
<1>1. RowInv => RowTellsWire
    <2> SUFFICES ASSUME RowInv, NEW i \in DOMAIN rows
                 PROVE  /\ rows[i].provider = wire.provider
                        /\ rows[i].model \in {wire.model, rows[i].slug,
                                              ExtractBedrockModelFromPath(up.path)}
                        /\ rows[i].routed <=> wire.credential = StoredCredential(wire.provider)
                        /\ rows[i].routed <=>
                              \E j \in DOMAIN reply.headers :
                                  /\ reply.headers[j].name = "routed"
                                  /\ reply.headers[j].provider = wire.provider
                                  /\ reply.headers[j].model = wire.model
                        /\ rows[i].redirected /\ ~IsTranslationRequired(wire.provider)
                                              /\ wire.provider # "bedrock"
                               => wire.model # rows[i].original
        BY DEF RowTellsWire
    <2>1. rows # <<>> /\ i = 1 /\ Row(rows[1])
        <3>1. rows # <<>>
            OBVIOUS
        <3>2. rows = <<rows[1]>> /\ Row(rows[1])
            BY <3>1 DEF RowInv, Traffic
        <3>3. i = 1
            BY <3>2
        <3> QED
            BY <3>1, <3>2, <3>3
    <2>2. reply.by = "upstream"
        BY <2>1 DEF RowInv, LogInv
    <2>3. wire = Forwarded /\ reply.headers = up.headers
        BY <2>2 DEF RowInv, Traffic
    <2>4. /\ wire.provider = up.provider /\ wire.model = WireModel
          /\ wire.credential = up.credential
        BY <2>3 DEF Forwarded
    <2>5. /\ rows[i].provider = up.provider
          /\ rows[i].model \in {WireModel, rows[i].slug, ExtractBedrockModelFromPath(up.path)}
          /\ rows[i].routed = up.routed /\ rows[i].redirected = up.redirected
          /\ rows[i].original = up.original
        BY <2>1 DEF Row
    <2>6. up.routed => FromCatalog
        BY DEF RowInv, Decisions
    <2>7. ~up.routed => up.credential = CallerCredential /\ Told(up.headers)
        BY DEF RowInv, Decisions
    <2>8. up.routed \in BOOLEAN
        BY DEF RowInv, Decisions
    <2>9. CallerCredential # StoredCredential(up.provider)
        <3>1. CallerCredential.of # StoredCredential(up.provider).of
            BY DEF CallerCredential, StoredCredential
        <3> QED
            BY <3>1
    <2>10. up.routed <=> wire.credential = StoredCredential(wire.provider)
        BY <2>4, <2>6, <2>7, <2>9 DEF FromCatalog
    <2>11. up.routed => \E j \in DOMAIN reply.headers :
                           /\ reply.headers[j].name = "routed"
                           /\ reply.headers[j].provider = wire.provider
                           /\ reply.headers[j].model = wire.model
        <3> SUFFICES ASSUME FromCatalog
                     PROVE  \E j \in DOMAIN reply.headers :
                                /\ reply.headers[j].name = "routed"
                                /\ reply.headers[j].provider = wire.provider
                                /\ reply.headers[j].model = wire.model
            BY <2>6
        <3>1. up.provider # "bedrock"
            BY HandlerAssumption DEF FromCatalog
        <3>2. WireModel = up.model
            BY <3>1 DEF FromCatalog, WireModel, ModelField
        <3>3. /\ RoutedNotice.name = "routed" /\ RoutedNotice.provider = wire.provider
              /\ RoutedNotice.model = wire.model
            BY <2>4, <3>2 DEF RoutedNotice
        <3>4. CASE up.headers = <<RoutedNotice>>
            <4>1. 1 \in DOMAIN reply.headers /\ reply.headers[1] = RoutedNotice
                BY <2>3, <3>4
            <4> QED
                BY <3>3, <4>1
        <3>5. CASE up.headers = <<up.headers[1], RoutedNotice>>
            <4>1. 2 \in DOMAIN reply.headers /\ reply.headers[2] = RoutedNotice
                BY <2>3, <3>5
            <4> QED
                BY <3>3, <4>1
        <3> QED
            BY <3>4, <3>5 DEF FromCatalog
    <2>12. ~up.routed => ~\E j \in DOMAIN reply.headers : reply.headers[j].name = "routed"
        <3> SUFFICES ASSUME ~up.routed, NEW j \in DOMAIN up.headers
                     PROVE  up.headers[j].name # "routed"
            BY <2>3
        <3>1. up.headers # <<>> /\ up.headers = <<up.headers[1]>>
              /\ up.headers[1].name = "deprecated"
            BY <2>7 DEF Told
        <3>2. j = 1
            BY <3>1
        <3> QED
            BY <3>1, <3>2
    <2>13. up.redirected /\ ~IsTranslationRequired(up.provider) /\ up.provider # "bedrock"
              => WireModel # up.original
        BY DEF RowInv, Decisions, Redirected, WireModel, ModelField
    <2> QED
        BY <2>4, <2>5, <2>8, <2>10, <2>11, <2>12, <2>13
<1> QED
    BY <1>1, RowAlways, PTL

-----------------------------------------------------------------------------
(* Which version segments a URL has.                                       *)
LEMMA VersionsOfConcat ==
    ASSUME NEW base \in Seq(Segment), NEW path \in Seq(Segment),
           \A i \in DOMAIN base : base[i] \notin OpenAISuffixes
    PROVE  VersionsOf(base \o path) =
               VersionsOf(base) \cup {Len(base) + k : k \in VersionsOf(path)}
<1> DEFINE url == base \o path
           n == Len(base)
<1>1. /\ n \in Nat /\ Len(path) \in Nat
      /\ DOMAIN base = 1..n /\ DOMAIN path = 1..Len(path) /\ DOMAIN url = 1..(n + Len(path))
      /\ \A i \in 1..n : url[i] = base[i]
      /\ \A k \in 1..Len(path) : url[n + k] = path[k]
    <2>1. url \in Seq(Segment) /\ Len(url) = n + Len(path)
        BY ConcatProperties
    <2>2. \A i \in 1..Len(url) : url[i] = IF i <= n THEN base[i] ELSE path[i - n]
        BY ConcatProperties
    <2>3. n \in Nat /\ Len(path) \in Nat
        OBVIOUS
    <2>4. DOMAIN url = 1..Len(url) /\ DOMAIN base = 1..n /\ DOMAIN path = 1..Len(path)
        BY <2>1
    <2> HIDE DEF url, n
    <2>5. ASSUME NEW i \in 1..n PROVE url[i] = base[i]
        BY <2>1, <2>2, <2>3
    <2>6. ASSUME NEW k \in 1..Len(path) PROVE url[n + k] = path[k]
        <3>1. n + k \in 1..Len(url) /\ ~(n + k <= n) /\ (n + k) - n = k
            BY <2>1, <2>3
        <3> QED
            BY <2>2, <3>1
    <2> QED
        BY <2>1, <2>3, <2>4, <2>5, <2>6
<1> HIDE DEF url, n
<1>2. ASSUME NEW i \in 1..n PROVE i \in VersionsOf(url) <=> i \in VersionsOf(base)
    <2>1. i \in DOMAIN url /\ i \in DOMAIN base /\ url[i] = base[i]
        BY <1>1
    <2>2. \A j \in 1..i : url[j] = base[j]
        BY <1>1
    <2> QED
        BY <2>1, <2>2 DEF VersionsOf
<1>3. ASSUME NEW k \in 1..Len(path) PROVE n + k \in VersionsOf(url) <=> k \in VersionsOf(path)
    <2>1. n + k \in DOMAIN url /\ k \in DOMAIN path /\ url[n + k] = path[k]
        BY <1>1
    <2>2. (\A j \in 1..(n + k) : url[j] \notin OpenAISuffixes)
              <=> (\A j \in 1..k : path[j] \notin OpenAISuffixes)
        <3>1. ASSUME \A j \in 1..(n + k) : url[j] \notin OpenAISuffixes, NEW j \in 1..k
              PROVE  path[j] \notin OpenAISuffixes
            <4>1. n + j \in 1..(n + k) /\ j \in 1..Len(path)
                BY <1>1
            <4> QED
                BY <1>1, <3>1, <4>1
        <3>2. ASSUME \A j \in 1..k : path[j] \notin OpenAISuffixes, NEW j \in 1..(n + k)
              PROVE  url[j] \notin OpenAISuffixes
            <4>1. CASE j <= n
                BY <1>1, <4>1
            <4>2. CASE ~(j <= n)
                <5>1. j - n \in 1..k /\ j - n \in 1..Len(path) /\ n + (j - n) = j
                    BY <1>1, <4>2
                <5> QED
                    BY <1>1, <3>2, <5>1
            <4> QED
                BY <4>1, <4>2
        <3> QED
            BY <3>1, <3>2
    <2> QED
        BY <2>1, <2>2 DEF VersionsOf
<1>4. VersionsOf(url) \subseteq 1..(n + Len(path)) /\ VersionsOf(base) \subseteq 1..n
      /\ VersionsOf(path) \subseteq 1..Len(path)
    BY <1>1 DEF VersionsOf
<1>5. ASSUME NEW i \in VersionsOf(url)
      PROVE  i \in VersionsOf(base) \cup {n + k : k \in VersionsOf(path)}
    <2>1. i \in 1..(n + Len(path))
        BY <1>4
    <2>2. CASE i <= n
        <3>1. i \in 1..n
            BY <1>1, <2>1, <2>2
        <3> QED
            BY <1>2, <3>1
    <2>3. CASE ~(i <= n)
        <3>1. i - n \in 1..Len(path) /\ n + (i - n) = i
            BY <1>1, <2>1, <2>3
        <3>2. i - n \in VersionsOf(path)
            BY <1>3, <3>1
        <3> QED
            BY <3>1, <3>2
    <2> QED
        BY <2>2, <2>3
<1>6. VersionsOf(base) \cup {n + k : k \in VersionsOf(path)} \subseteq VersionsOf(url)
    BY <1>2, <1>3, <1>4
<1> QED
    BY <1>5, <1>6 DEF url, n

\* A path of the OpenAI surface, with its version, translated or stripped.
Surface(path) == HasSuffixAt(path, 2) /\ path[1] = "v1"

LEMMA VersionsOfPaths ==
    /\ \A path \in Seq(Segment) :
           Surface(path) => VersionsOf(path) = {1} /\ VersionsOf(Tail(path)) = {}
    /\ VersionsOf(<<"v1", "messages">>) = {1}
<1>1. "v1" \in VersionSegments /\ "v1" \notin OpenAISuffixes
      /\ "messages" \notin VersionSegments
    BY DEF VersionSegments, OpenAISuffixes
<1>2. ASSUME NEW path \in Seq(Segment), Surface(path)
      PROVE  VersionsOf(path) = {1} /\ VersionsOf(Tail(path)) = {}
    <2>1. Len(path) \in Nat /\ 2 <= Len(path) /\ path[2] \in OpenAISuffixes /\ path[1] = "v1"
          /\ DOMAIN path = 1..Len(path)
        BY <1>2 DEF Surface, HasSuffixAt
    <2>2. 1 \in VersionsOf(path)
        BY <1>1, <2>1 DEF VersionsOf
    <2>3. ASSUME NEW i \in VersionsOf(path) PROVE i = 1
        <3>1. i \in 1..Len(path) /\ \A j \in 1..i : path[j] \notin OpenAISuffixes
            BY <2>1 DEF VersionsOf
        <3>2. ~(2 \in 1..i)
            BY <2>1, <3>1
        <3> QED
            BY <2>1, <3>1, <3>2
    <2>4. Tail(path) \in Seq(Segment) /\ Len(Tail(path)) = Len(path) - 1
          /\ Tail(path)[1] = path[2]
        <3>1. path # <<>>
            BY <2>1
        <3>2. Tail(path) \in Seq(Segment) /\ Len(Tail(path)) = Len(path) - 1
              /\ \A i \in 1..Len(Tail(path)) : Tail(path)[i] = path[i + 1]
            BY <3>1, HeadTailProperties
        <3>3. 1 \in 1..Len(Tail(path)) /\ 1 + 1 = 2
            BY <2>1, <3>2
        <3>4. Tail(path)[1] = path[1 + 1]
            BY <3>2, <3>3
        <3> QED
            BY <3>2, <3>3, <3>4
    <2>5. ASSUME NEW i \in VersionsOf(Tail(path)) PROVE FALSE
        <3>1. i \in 1..Len(Tail(path)) /\ \A j \in 1..i : Tail(path)[j] \notin OpenAISuffixes
            BY <2>4 DEF VersionsOf
        <3>2. 1 \in 1..i
            BY <2>1, <2>4, <3>1
        <3> QED
            BY <2>1, <2>4, <3>1, <3>2
    <2> QED
        BY <2>2, <2>3, <2>5
<1>3. VersionsOf(<<"v1", "messages">>) = {1}
    <2> DEFINE path == <<"v1", "messages">>
    <2>1. DOMAIN path = 1..2 /\ path[1] = "v1" /\ path[2] = "messages"
        OBVIOUS
    <2> HIDE DEF path
    <2>2. 1 \in VersionsOf(path)
        BY <1>1, <2>1 DEF VersionsOf
    <2>3. ASSUME NEW i \in VersionsOf(path) PROVE i = 1
        BY <1>1, <2>1 DEF VersionsOf
    <2>4. VersionsOf(path) = {1}
        BY <2>2, <2>3
    <2> QED
        BY <2>4 DEF path
<1> QED
    BY <1>2, <1>3

(* Every base URL the gateway may use leaves the version to the path,      *)
(* except the one that has it.                                             *)
LEMMA PlainComposes ==
    ASSUME NEW p, ~BaseURLHasVersionSegment(p), NEW base,
           \A i \in DOMAIN base : base[i] \notin OpenAISuffixes \cup VersionSegments
    PROVE  Composes(p, base)
<1>1. VersionsOf(base) = {}
    BY DEF VersionsOf
<1> QED
    BY <1>1, FS_EmptySet DEF Composes

LEMMA DefaultComposes ==
    ASSUME NEW p \in ProviderNames
    PROVE  Composes(p, DefaultBaseURL[p])
<1>1. CASE p = "gemini-openai"
    <2> DEFINE base == <<"generativelanguage", "v1beta", "openai">>
    <2>1. DefaultBaseURL[p] = base
        BY <1>1, Zenon DEF ProviderNames, DefaultBaseURL
    <2>2. DOMAIN base = 1..3 /\ base[1] = "generativelanguage" /\ base[2] = "v1beta"
          /\ base[3] = "openai"
        OBVIOUS
    <2> HIDE DEF base
    <2>3. \A i \in DOMAIN base : base[i] \notin OpenAISuffixes
        BY <2>2 DEF OpenAISuffixes
    <2>4. 2 \in VersionsOf(base)
        BY <2>2, <2>3 DEF VersionsOf, VersionSegments
    <2>5. ASSUME NEW i \in VersionsOf(base) PROVE i = 2
        BY <2>2 DEF VersionsOf, VersionSegments
    <2>6. VersionsOf(base) = {2}
        BY <2>4, <2>5
    <2>7. Cardinality(VersionsOf(base)) = 1
        BY <2>6, FS_Singleton
    <2> QED
        BY <1>1, <2>1, <2>3, <2>7 DEF Composes, BaseURLHasVersionSegment
<1>2. CASE p # "gemini-openai"
    <2> DEFINE base == DefaultBaseURL[p]
    <2>1. base \in {<<>>, <<"api.openai.com">>, <<"api.anthropic.com">>, <<"generativelanguage">>,
                    <<"api.fireworks.ai", "inference">>, <<"api.together.xyz">>,
                    <<"inference.baseten.co">>}
        BY <1>2, Zenon DEF ProviderNames, DefaultBaseURL
    <2> HIDE DEF base
    <2>2. \A i \in DOMAIN base :
              base[i] \in {"api.openai.com", "api.anthropic.com", "generativelanguage",
                           "api.fireworks.ai", "inference", "api.together.xyz",
                           "inference.baseten.co"}
        BY <2>1
    <2>3. \A i \in DOMAIN base : base[i] \notin OpenAISuffixes \cup VersionSegments
        BY <2>2 DEF OpenAISuffixes, VersionSegments
    <2>4. ~BaseURLHasVersionSegment(p)
        BY <1>2 DEF BaseURLHasVersionSegment
    <2> QED
        BY <2>3, <2>4, PlainComposes DEF base
<1> QED
    BY <1>1, <1>2

LEMMA RegionalComposes ==
    ASSUME NEW p \in {"bedrock", "bedrock-mantle"}
    PROVE  Composes(p, RegionalBaseURL(p))
<1> DEFINE base == RegionalBaseURL(p)
<1>1. base \in {<<"bedrock-mantle.region", "anthropic">>, <<"bedrock-runtime.region">>}
    BY DEF RegionalBaseURL
<1> HIDE DEF base
<1>2. \A i \in DOMAIN base :
          base[i] \in {"bedrock-mantle.region", "anthropic", "bedrock-runtime.region"}
    BY <1>1
<1>3. \A i \in DOMAIN base : base[i] \notin OpenAISuffixes \cup VersionSegments
    BY <1>2 DEF OpenAISuffixes, VersionSegments
<1>4. ~BaseURLHasVersionSegment(p)
    BY DEF BaseURLHasVersionSegment
<1> QED
    BY <1>3, <1>4, PlainComposes DEF base

(* The path and the base URL of the request in preparation fit.            *)
SentPath ==
    LET translated == IsTranslationRequired(up.provider) /\ req.json
        path == IF translated THEN <<"v1", "messages">> ELSE NormalizeOpenAIPath(req.path)
    IN IF BaseURLHasVersionSegment(up.provider) THEN StripOpenAIVersionPrefix(path) ELSE path

Prepared == {"model", "route", "translate", "forward"}

Fitting ==
    /\ pc = "region" => up.provider \in {"bedrock", "bedrock-mantle"}
    /\ pc \in Prepared => up.base \in Seq(Segment) /\ Composes(up.provider, up.base)
    /\ pc \in {"region", "model", "route", "translate"} =>
           up.path = NormalizeOpenAIPath(req.path)
    /\ pc = "forward" => up.path = SentPath

UrlInv == KeyInv /\ Fitting /\ OneVersionSegment

LEMMA ForwardedHasOneVersion ==
    ASSUME KeyInv, Fitting, pc = "forward", Surface(NormalizeOpenAIPath(req.path))
    PROVE  Cardinality(VersionsOf(Forwarded.url)) = 1
<1> DEFINE path == NormalizeOpenAIPath(req.path)
           base == up.base
<1>1. base \in Seq(Segment) /\ Composes(up.provider, base) /\ up.path = SentPath
    BY DEF Fitting, Prepared
<1>2. path \in Seq(Segment) /\ up.path \in Seq(Segment)
    BY NormalizeTyped, HandlerAssumption DEF KeyInv
<1>3. VersionsOf(path) = {1} /\ VersionsOf(Tail(path)) = {}
    BY <1>2, VersionsOfPaths
<1>4. \A i \in DOMAIN base : base[i] \notin OpenAISuffixes
    BY <1>1 DEF Composes
<1>5. VersionsOf(base \o up.path) =
          VersionsOf(base) \cup {Len(base) + k : k \in VersionsOf(up.path)}
    BY <1>1, <1>2, <1>4, VersionsOfConcat
<1>6. Forwarded.url = base \o up.path
    BY DEF Forwarded
<1>7. IsFiniteSet(VersionsOf(base))
    <2>1. DOMAIN base = 1..Len(base) /\ Len(base) \in Nat
        BY <1>1
    <2>2. IsFiniteSet(1..Len(base))
        BY <2>1, FS_Interval
    <2> QED
        BY <2>1, <2>2, FS_Subset DEF VersionsOf
<1> HIDE DEF base, path
<1>8. CASE BaseURLHasVersionSegment(up.provider)
    <2>1. up.path = StripOpenAIVersionPrefix(path)
        BY <1>1, <1>8 DEF SentPath, IsTranslationRequired, BaseURLHasVersionSegment, path
    <2>2. up.path = Tail(path)
        BY <2>1 DEF StripOpenAIVersionPrefix, Surface, path
    <2>3. VersionsOf(base \o up.path) = VersionsOf(base)
        BY <1>3, <1>5, <2>2
    <2>4. Cardinality(VersionsOf(base)) = 1
        BY <1>1, <1>8 DEF Composes
    <2> QED
        BY <1>6, <2>3, <2>4
<1>9. CASE ~BaseURLHasVersionSegment(up.provider)
    <2>1. up.path = path \/ up.path = <<"v1", "messages">>
        BY <1>1, <1>9 DEF SentPath, path
    <2>2. VersionsOf(up.path) = {1}
        BY <1>3, <2>1, VersionsOfPaths
    <2>3. VersionsOf(base) = {}
        <3>1. Cardinality(VersionsOf(base)) = 0
            BY <1>1, <1>9 DEF Composes
        <3> QED
            BY <1>7, <3>1, FS_EmptySet
    <2>4. VersionsOf(base \o up.path) = {Len(base) + 1}
        BY <1>5, <2>2, <2>3
    <2>5. Cardinality({Len(base) + 1}) = 1
        BY FS_Singleton
    <2> QED
        BY <1>6, <2>4, <2>5
<1> QED
    BY <1>8, <1>9

(* Nothing is sent before the end: the steps that prepare the request only *)
(* have to keep it fitting.                                                *)
LEMMA DetectFits == KeyInv /\ Fitting /\ DetectProvider => Fitting'
<1> SUFFICES ASSUME KeyInv, Fitting, DetectProvider PROVE Fitting'
    OBVIOUS
<1> DEFINE path == NormalizeOpenAIPath(req.path)
           p == Detect(path, req.header)
           base == BaseURLOf(p, DefaultBaseURL[p])
           next == IF p \in {"bedrock", "bedrock-mantle"} THEN "region" ELSE "model"
           changed == [up EXCEPT !.path = path, !.provider = p, !.base = base]
<1>1. CASE p = "unknown"
    <2>1. Refuse(400)
        BY <1>1 DEF DetectProvider
    <2> QED
        BY <2>1 DEF Refuse, Fitting, Prepared
<1>2. CASE p # "unknown"
    <2>1. pc' = next /\ up' = changed /\ req' = req
        BY <1>2 DEF DetectProvider, Prepare
    <2>2. p \in ProviderNames
        BY <1>2, DetectKnown
    <2>3. changed.path = path /\ changed.provider = p /\ changed.base = base
        BY DEF KeyInv, UpFields
    <2>4. base \in Seq(Segment)
        BY <2>2, BaseURLTyped
    <2>5. Composes(p, base)
        <3>1. p \in DOMAIN Configured => Composes(p, Configured[p])
            BY BaseURLsCompose
        <3>2. Composes(p, DefaultBaseURL[p])
            BY <2>2, DefaultComposes
        <3> QED
            BY <3>1, <3>2 DEF BaseURLOf
    <2> HIDE DEF changed, base
    <2>6. pc' \in {"region", "model"} /\ (pc' = "region" => p \in {"bedrock", "bedrock-mantle"})
        BY <2>1
    <2>7. up'.path = NormalizeOpenAIPath(req'.path) /\ up'.provider = p /\ up'.base = base
        BY <2>1, <2>3
    <2> HIDE DEF p, path
    <2> QED
        BY <2>4, <2>5, <2>6, <2>7 DEF Fitting, Prepared
<1> QED
    BY <1>1, <1>2

LEMMA RegionFits == KeyInv /\ Fitting /\ RegionResolved => Fitting'
<1> SUFFICES ASSUME KeyInv, Fitting, RegionResolved PROVE Fitting'
    OBVIOUS
<1> DEFINE base == BaseURLOf(up.provider, RegionalBaseURL(up.provider))
           changed == [up EXCEPT !.base = base]
<1>1. pc = "region" /\ pc' = "model" /\ up' = changed /\ req' = req /\ Own
    BY DEF RegionResolved, Prepare, KeyInv
<1>2. changed.path = up.path /\ changed.base = base /\ changed.provider = up.provider
    BY DEF KeyInv, UpFields
<1>3. up.provider \in {"bedrock", "bedrock-mantle"} /\ up.path = NormalizeOpenAIPath(req.path)
    BY <1>1 DEF Fitting
<1>4. base \in Seq(Segment)
    BY <1>1, BaseURLTyped DEF Own
<1>5. Composes(up.provider, base)
    <2>1. up.provider \in DOMAIN Configured => Composes(up.provider, Configured[up.provider])
        BY BaseURLsCompose
    <2>2. Composes(up.provider, RegionalBaseURL(up.provider))
        BY <1>3, RegionalComposes
    <2> QED
        BY <2>1, <2>2 DEF BaseURLOf
<1> HIDE DEF changed, base
<1> QED
    BY <1>1, <1>2, <1>3, <1>4, <1>5 DEF Fitting, Prepared

LEMMA DeprecatedFits == KeyInv /\ Fitting /\ CheckDeprecated => Fitting'
<1> SUFFICES ASSUME KeyInv, Fitting, CheckDeprecated PROVE Fitting'
    OBVIOUS
<1>1. /\ pc = "model" /\ pc' = "route" /\ req' = req /\ up'.path = up.path
      /\ up'.base = up.base /\ up'.provider = up.provider
    BY DEF CheckDeprecated, Prepare, KeyInv, UpFields
<1> QED
    BY <1>1 DEF Fitting, Prepared

LEMMA RoutedFits == KeyInv /\ Fitting /\ Routed => Fitting'
<1> SUFFICES ASSUME KeyInv, Fitting, Routed PROVE Fitting'
    OBVIOUS
<1>1. PICK e \in Candidates : up' =
          [up EXCEPT !.provider = e.provider, !.base = e.base, !.model = e.model,
                     !.added = AppliedDefaults(e),
                     !.credential = StoredCredential(e.provider), !.routed = TRUE,
                     !.headers = Append(@, [name |-> "routed", model |-> e.model,
                                            provider |-> e.provider])]
    BY DEF Routed, Prepare
<1>2. pc = "route" /\ pc' = "translate" /\ req' = req
    BY DEF Routed, Routing, Prepare
<1>3. up'.path = up.path /\ up'.base = e.base /\ up'.provider = e.provider
    BY <1>1 DEF KeyInv, UpFields
<1>4. Slug \in DOMAIN Catalog /\ e \in Catalog[Slug]
    BY DEF Candidates
<1>5. e.base \in Seq(Segment) /\ Composes(e.provider, e.base)
    BY <1>4, HandlerAssumption, BaseURLsCompose, StringsAreSegments
<1> QED
    BY <1>2, <1>3, <1>5 DEF Fitting, Prepared

LEMMA TranslateFits == KeyInv /\ Fitting /\ Translate => Fitting'
<1> SUFFICES ASSUME KeyInv, Fitting, Translate PROVE Fitting'
    OBVIOUS
<1>1. /\ pc = "translate" /\ pc' = "forward" /\ req' = req
      /\ up.path = NormalizeOpenAIPath(req.path)
    BY DEF Translate, Prepare, Fitting
<1>2. up'.base = up.base /\ up'.provider = up.provider /\ up'.path = SentPath
    BY <1>1 DEF Translate, Prepare, KeyInv, UpFields, SentPath
<1>3. SentPath' = SentPath
    BY <1>1, <1>2 DEF SentPath
<1> QED
    BY <1>1, <1>2, <1>3 DEF Fitting, Prepared

LEMMA NextUrlInv == UrlInv /\ [Next]_vars => UrlInv'
<1> SUFFICES ASSUME UrlInv, [Next]_vars PROVE Fitting' /\ OneVersionSegment'
    BY NextKeyInv DEF UrlInv
<1>1. ASSUME wire' = wire, req' = req PROVE OneVersionSegment'
    BY <1>1 DEF UrlInv, OneVersionSegment
<1>2. CASE Unauthorized \/ BodyUnreadable \/ RegionUnknown \/ NotRoutable \/ RoutingFails
          \/ BodyReadFails
    <2>1. wire' = wire /\ req' = req /\ up' = up /\ pc' = "done"
        BY <1>2 DEF Unauthorized, BodyUnreadable, RegionUnknown, NotRoutable, RoutingFails,
                    BodyReadFails, Refuse
    <2> QED
        BY <1>1, <2>1 DEF Fitting, Prepared
<1>3. CASE DetectProvider \/ RegionResolved \/ CheckDeprecated \/ Routed \/ Translate
    <2>1. Fitting'
        BY <1>3, DetectFits, RegionFits, DeprecatedFits, RoutedFits, TranslateFits DEF UrlInv
    <2>2. wire' = wire /\ req' = req
        BY <1>3 DEF DetectProvider, RegionResolved, CheckDeprecated, Routed, Translate, Prepare,
                    Refuse
    <2> QED
        BY <1>1, <2>1, <2>2
<1>4. CASE NoRouting
    <2>1. wire' = wire /\ req' = req /\ up' = up /\ pc = "route" /\ pc' = "translate"
        BY <1>4 DEF NoRouting, Continue
    <2> QED
        BY <1>1, <2>1 DEF UrlInv, Fitting, Prepared
<1>5. CASE UpstreamAnswers \/ UpstreamFails
    <2>1. /\ pc = "forward" /\ (wire' = None \/ wire' = Forwarded) /\ req' = req /\ up' = up
          /\ pc' \in {"relay", "buffer", "done"}
        BY <1>5 DEF UpstreamAnswers, UpstreamFails
    <2>2. Fitting'
        BY <2>1 DEF Fitting, Prepared
    <2>3. wire' # None /\ Surface(NormalizeOpenAIPath(req.path))
              => Cardinality(VersionsOf(wire'.url)) = 1
        BY <2>1, ForwardedHasOneVersion DEF UrlInv
    <2> QED
        BY <2>1, <2>2, <2>3 DEF OneVersionSegment, Surface
<1>6. CASE RelayStream \/ StreamCut \/ WriteResponse \/ LogRequest \/ UNCHANGED vars
    <2>1. /\ wire' = wire /\ req' = req /\ up' = up
          /\ pc' = pc \/ pc' = "done"
        BY <1>6 DEF RelayStream, StreamCut, WriteResponse, LogRequest, vars
    <2>2. Fitting'
        BY <2>1 DEF UrlInv, Fitting, Prepared, SentPath
    <2> QED
        BY <1>1, <2>1, <2>2
<1> QED
    BY <1>2, <1>3, <1>4, <1>5, <1>6 DEF Next

(* Whatever provider a request is pinned to, detected for or routed to, in *)
(* front of its route the URL has one version segment: see                 *)
(* OneVersionSegment (provider.go:72-128, handler.go:266-273).             *)
THEOREM AlwaysOneVersionSegment == Spec => []OneVersionSegment
<1>1. Init => UrlInv
    <2> SUFFICES ASSUME Init PROVE UrlInv
        OBVIOUS
    <2>1. /\ pc = "start" /\ wire = None /\ req \in Requests
          /\ up.credential = CallerCredential /\ up.path = req.path
          /\ DOMAIN up = UpFields
        BY DEF Init, UpFields
    <2>2. up.path \in Seq(Segment)
        BY <2>1, HandlerAssumption, StringsAreSegments
    <2> QED
        BY <2>1, <2>2 DEF UrlInv, KeyInv, KeysStayHome, Fitting, Prepared, OneVersionSegment
<1>2. UrlInv => OneVersionSegment
    BY DEF UrlInv
<1> QED
    BY <1>1, <1>2, NextUrlInv, PTL DEF Spec

=============================================================================
