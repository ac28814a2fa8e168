------------------------------ MODULE Providers ------------------------------
(***************************************************************************)
(* internal/provider/provider.go: which upstream a request is for, and the *)
(* URL it is sent to.  A path is the sequence of its segments (an OpenAI   *)
(* route such as chat/completions counts as one), a base URL the sequence  *)
(* of its host and path segments.                                          *)
(***************************************************************************)
EXTENDS Naturals, Sequences, FiniteSets

OpenAISuffixes == {"chat/completions", "completions", "embeddings", "responses"}
VersionSegments == {"v1", "v1beta"}

HasSuffixAt(path, i) == i <= Len(path) /\ path[i] \in OpenAISuffixes

NormalizeOpenAIPath(path) == IF HasSuffixAt(path, 1) THEN <<"v1">> \o path ELSE path

StripOpenAIVersionPrefix(path) ==
    IF HasSuffixAt(path, 2) /\ path[1] = "v1" THEN Tail(path) ELSE path

BaseURLHasVersionSegmentNever(p) == FALSE

BaseURLHasVersionSegment(p) == p = "gemini-openai"

IsTranslationRequired(p) == p = "anthropic-openai"

\* The base URL of every name x-majordomo-provider may pin; "" is no URL.
DefaultBaseURL ==
    [p \in {"openai", "anthropic", "gemini", "gemini-openai", "anthropic-openai", "azure",
            "bedrock", "bedrock-mantle", "fireworks", "together", "baseten"} |->
        CASE p = "openai" -> <<"api.openai.com">>
          [] p \in {"anthropic", "anthropic-openai"} -> <<"api.anthropic.com">>
          [] p = "gemini" -> <<"generativelanguage">>
          [] p = "gemini-openai" -> <<"generativelanguage", "v1beta", "openai">>
          [] p = "fireworks" -> <<"api.fireworks.ai", "inference">>
          [] p = "together" -> <<"api.together.xyz">>
          [] p = "baseten" -> <<"inference.baseten.co">>
          [] OTHER -> <<>>]

ProviderNames == DOMAIN DefaultBaseURL

IsBedrockPath(path) == Len(path) >= 2 /\ path[1] = "model" /\ path[Len(path)] = "converse"

\* A model id is one segment.
ExtractBedrockModelFromPath(path) ==
    IF IsBedrockPath(path) /\ Len(path) = 3 THEN path[2] ELSE ""

\* Detection goes by prefix, also within a segment (normalisation does not).
Begins(segment, route) ==
    segment = route \/ <<segment, route>> \in {<<"responses-beta", "responses">>,
                                               <<"messages-beta", "messages">>}

DetectFromPath(path) ==
    CASE /\ Len(path) >= 2 /\ path[1] = "v1"
         /\ \E route \in OpenAISuffixes : Begins(path[2], route) -> "openai"
      [] Len(path) >= 2 /\ path[1] = "v1" /\ Begins(path[2], "messages") -> "anthropic"
      [] \E i \in DOMAIN path : path[i] = "generateContent" -> "gemini"
      [] IsBedrockPath(path) -> "bedrock"
      [] OTHER -> "unknown"

Detect(path, header) ==
    IF header \in {"", "majordomo"} THEN DetectFromPath(path)
    ELSE IF header \in ProviderNames THEN header ELSE "unknown"

\* The Bedrock base URLs carry the region; Mantle adds the path prefix.
RegionalBaseURL(p) ==
    IF p = "bedrock-mantle" THEN <<"bedrock-mantle.region", "anthropic">>
    ELSE <<"bedrock-runtime.region">>

Dialect(p) ==
    CASE p \in {"anthropic", "bedrock-mantle"} -> "anthropic"
      [] p = "gemini" -> "gemini"
      [] p = "bedrock" -> "bedrock"
      [] OTHER -> "openai"

=============================================================================
