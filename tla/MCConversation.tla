---------------------------- MODULE MCConversation ----------------------------
EXTENDS Conversation, TLC

Client(api, system, fields, tools) ==
    [api |-> api, system |-> system, fields |-> fields, tools |-> tools]

\* Own system texts: a string, two of which the first is an array, none.
MCCallers ==
    {Client("openai", <<Str(<<"own">>)>>, "temperature" :> "client" @@ "think" :> "client", TRUE),
     Client("openai", <<[form |-> "parts", parts |-> <<"own">>], Str(<<"more">>)>>,
            "keep_alive" :> "client", FALSE),
     Client("ollama", <<>>, "options.temperature" :> "client", TRUE)}

MCTiers == <<[prov |-> "ollama", think |-> TRUE], [prov |-> "openrouter", think |-> FALSE],
             [prov |-> "anthropic", think |-> FALSE]>>

Profile(mode, prompts, classes, window) ==
    [mode |-> mode, prompts |-> prompts, classes |-> classes, window |-> window]

MCProfiles ==
    {Profile("dispatch", <<>>, <<>>, 0),
     Profile("escalate", <<"prompt">>, <<>>, 0),
     Profile("classify", <<"prompt">>, "deep" :> "class", 1),
     Profile("reply", <<>>, <<>>, 0)}

Token(kind, key, val, think) == [kind |-> kind, key |-> key, val |-> val, think |-> think]
Tag(key, val) == Token("tag", key, val, FALSE)

\* "deep-think" in words, a tag overruled by a later one, and punctuation.
MCClassifierAnswers ==
    {<<Token("bare", "", "deep", TRUE)>>,
     <<Tag("tier", "deep"), Tag("tier", "instant"), Token("bare", "", "deep", FALSE)>>,
     <<Token("bare", "", "", FALSE), Tag("intent", "deep")>>}

\* Words with an image, and an image alone.
MCQuestions ==
    {[form |-> "parts", parts |-> <<"image", "words">>], [form |-> "parts", parts |-> <<"image">>]}

Call(name, val) == [name |-> name, val |-> val]
Answer(text, calls, written) == [text |-> text, calls |-> calls, written |-> written]

\* Plain text in two blocks; two calls of one tool; a remark and a call
\* that does not parse; a call written out.
MCAnswers ==
    {Answer(<<"answer", "more">>, <<>>, <<>>),
     Answer(<<>>, <<Call("on", "a"), Call("on", "b")>>, <<>>),
     Answer(<<"ok">>, <<Call("off", Broken)>>, <<>>),
     Answer(<<"off(a)">>, <<>>, <<Call("off", "a")>>)}

MCStrings == STRING

MCDefaults == "options.temperature" :> "default" @@ "options.num_ctx" :> "default"
=============================================================================
