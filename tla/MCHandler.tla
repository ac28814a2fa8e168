------------------------------ MODULE MCHandler ------------------------------
(* Instances of Handler for TLC: "old" is deprecated in favour of "new",   *)
(* "slug" is in the catalog, once at each of two providers; the deployment *)
(* overrides the base URL of one provider.                                 *)
EXTENDS Handler

OpenAIPaths == {<<"chat/completions">>, <<"v1", "chat/completions">>, <<"responses", "id">>,
                <<"v1", "responses-beta">>}
Native(path, pins) ==
    [header : {"", "majordomo", "unheard-of"} \cup pins, path : {path},
     model : {"unknown"}, json : BOOLEAN, fields : {{}},
     behavior : {"passthrough", "redirect", "warn"}]

\* Clients of the OpenAI surface may pin any provider; the native paths of
\* Gemini and Bedrock carry the model themselves.
MCRequests ==
    [header : {"", "majordomo", "unheard-of"} \cup ProviderNames, path : OpenAIPaths,
     model : {"old", "slug"}, json : BOOLEAN, fields : {{}, {"effort"}},
     behavior : {"passthrough", "redirect", "warn"}]
    \cup [header : {"", "anthropic", "bedrock-mantle"}, path : {<<"v1", "messages">>},
          model : {"old"}, json : BOOLEAN, fields : {{}},
          behavior : {"passthrough", "redirect", "warn"}]
    \cup Native(<<"v1beta", "generateContent">>, {"gemini"})
    \cup Native(<<"model", "old", "converse">>, {"bedrock"})
    \cup Native(<<"model", "converse">>, {})
    \cup Native(<<"v1", "messages-beta">>, {})
    \cup Native(<<"favicon">>, {})
MCDeprecated == [m \in {"old"} |-> "new"]
Together == [provider |-> "together", base |-> <<"api.together.xyz">>, model |-> "t-slug",
             defaults |-> {"thinking", "seed"}]
Fireworks == [provider |-> "fireworks", base |-> <<"api.fireworks.ai", "inference">>,
              model |-> "f-slug", defaults |-> {}]
MCCatalog == [s \in {"slug", "new"} |-> IF s = "slug" THEN {Together, Fireworks} ELSE {Together}]
MCConfigured == [p \in {"openai"} |-> <<"openai.internal">>]

=============================================================================
