------------------------------ MODULE Conversation ------------------------------
(***************************************************************************)
(* A conversation with tools, over several requests.  The client keeps the *)
(* history and sends all of it each time; the gateway puts its prompts in  *)
(* front, and the adapter of whatever backend the tier has (OpenAI,        *)
(* Anthropic, Ollama) translates history, options and answer between three *)
(* formats.  Successive requests may go to different backends, so each is  *)
(* shown what another one said, in a format of its own.                    *)
(*                                                                         *)
(*   text     [form, parts]: a string, an array of parts, or null          *)
(*   call     [name, args, id]; args = [form, val], a JSON "string" or an  *)
(*            "object", and the value Broken is no JSON                    *)
(*   message  [role, text, calls, id, of]; id is a tool_call_id, and of    *)
(*            says which call of its turn a tool result answers, and which *)
(*            question a user asks                                         *)
(***************************************************************************)
EXTENDS Integers, Sequences, SequencesExt

CONSTANTS Callers,            \* clients: [api, system, fields, tools]
          Tiers,              \* the ladder: a sequence of [prov, think]
          Profiles,           \* [mode, prompts, classes, window]
          Questions,          \* what a user may ask: texts
          Answers,            \* what a model may say: [text, calls, written]
          ClassifierAnswers,  \* sequences of tokens [kind, key, val, think]
          Defaults,           \* default_options of an Ollama backend
          Strings,            \* every string: words, names, values and texts
          MaxPosts            \* bound on the requests of the conversation

Providers == {"openai", "openrouter", "anthropic", "ollama"}
TextValues == [form : {"str", "parts", "null"}, parts : Seq(Strings)]
Sayings == [text : Seq(Strings), calls : Seq([name : Strings, val : Strings]),
            written : Seq([name : Strings, val : Strings])]
Tokens == [kind : {"tag", "bare"}, key : Strings, val : Strings, think : BOOLEAN]

ASSUME ConversationAssumption ==
    /\ {"", "instant", "result", "notice", "{}"} \subseteq Strings
    /\ Tiers \in Seq([prov : Providers, think : BOOLEAN]) /\ Tiers # <<>>
    /\ MaxPosts \in Nat \ {0}
    /\ \A c \in Callers : /\ c.api \in {"openai", "ollama"} /\ c.tools \in BOOLEAN
                          /\ c.system \in Seq(TextValues)
    /\ \A p \in Profiles : /\ p.mode \in {"dispatch", "escalate", "classify", "reply"}
                           /\ p.prompts \in Seq(Strings) /\ p.window \in Nat
                           /\ \A l \in DOMAIN p.classes : p.classes[l] \in Strings
    /\ Questions \subseteq TextValues
    /\ Answers \subseteq Sayings
    /\ ClassifierAnswers \subseteq Seq(Tokens)

VARIABLES caller,   \* the client
          history,  \* its messages
          todo,     \* calls of the last answer whose results are still missing
          posts,    \* requests so far
          call,     \* the call of a backend that is under way, or NoCall
          said      \* history: the source of each assistant message

vars == <<caller, history, todo, posts, call, said>>

Str(parts) == [form |-> "str", parts |-> parts]
Null == [form |-> "null", parts |-> <<>>]
AsStr(text) == IF text.form = "str" THEN text.parts ELSE <<>>
Words(text) == IF text.form = "null" THEN <<>> ELSE text.parts

Broken == "broken"
Args(form, val) == [form |-> form, val |-> val]
Id(turn, k) == [turn |-> turn, k |-> k]
NoId == Id(0, 0)

Message(role, text, calls) ==
    [role |-> role, text |-> text, calls |-> calls, id |-> NoId, of |-> 0]

\* prompts, think, asked and options are history: what this request's profile
\* has put in front, and what its classifier was shown.
NoCall == [prov |-> "none", how |-> "none", stream |-> FALSE, rung |-> 0,
           messages |-> <<>>, fields |-> <<>>, prompts |-> <<>>, think |-> FALSE,
           asked |-> <<>>, options |-> <<>>]

Init ==
    /\ caller \in Callers
    /\ history = [i \in DOMAIN caller.system |-> Message("system", caller.system[i], <<>>)]
    /\ todo = {}
    /\ posts = 0
    /\ call = NoCall
    /\ said = <<>>

-----------------------------------------------------------------------------
\* The elements of s at the given places, in order.
Extract(s, places) ==
    LET upTo[n \in 0 .. Len(s)] ==
            IF n = 0 THEN <<>>
            ELSE IF n \in places THEN Append(upTo[n - 1], s[n]) ELSE upTo[n - 1]
    IN  upTo[Len(s)]

OfRole(ms, roles) == Extract(ms, {i \in DOMAIN ms : ms[i].role \in roles})

\* The fields of f, and those of g that f does not have.
Over(f, g) == [k \in DOMAIN f \union DOMAIN g |-> IF k \in DOMAIN f THEN f[k] ELSE g[k]]

\* Seeded fault: the prompt goes behind the client's own system text.
InjectBehind(ms, prompt) ==
    IF ms # <<>> /\ ms[1].role = "system"
    THEN [ms EXCEPT ![1].text = Str(AsStr(@) \o <<prompt>>)]
    ELSE <<Message("system", Str(<<prompt>>), <<>>)>> \o ms

\* inject_system_prompt: before the text of a leading system message, or as one.
Inject(ms, prompt) ==
    IF ms # <<>> /\ ms[1].role = "system"
    THEN [ms EXCEPT ![1].text = Str(<<prompt>> \o AsStr(@))]
    ELSE <<Message("system", Str(<<prompt>>), <<>>)>> \o ms

\* Several prompts: each goes before those that are in already.
InjectAll(ms, prompts) ==
    LET injected[n \in 0 .. Len(prompts)] ==
            IF n = 0 THEN ms ELSE Inject(injected[n - 1], prompts[n])
    IN  injected[Len(prompts)]

\* extract_message_text: an empty string is a text, an array without any is not.
HasText(m) == m.text.form = "str" \/ \E part \in ToSet(m.text.parts) : part # "image"

\* The messages in which somebody said something.
Heard(ms) ==
    Extract(ms, {i \in DOMAIN ms : ms[i].role \in {"user", "assistant"} /\ HasText(ms[i])})

\* Seeded fault: the oldest messages, not the newest.
WindowOldest(ms, n) ==
    LET heard == Heard(ms)
    IN  IF Len(heard) <= n THEN heard ELSE SubSeq(heard, 1, n)

\* The last n messages somebody said something in.
Window(ms, n) ==
    LET heard == Heard(ms)
    IN  IF Len(heard) <= n THEN heard ELSE SubSeq(heard, Len(heard) - n + 1, Len(heard))

\* build_classifier_input: <<>>, and no classification, without a user in it.
ClassifierInput(ms, n) ==
    IF \E i \in DOMAIN Window(ms, n) : Window(ms, n)[i].role = "user" THEN Window(ms, n) ELSE <<>>

\* parse_classification: the last tier= tag, else the first bare word; a token
\* of punctuation only has been trimmed to "" and counts for nothing.
TagsOf(tokens) ==
    Extract(tokens, {i \in DOMAIN tokens :
                        tokens[i].kind = "tag" /\ tokens[i].key # "" /\ tokens[i].val # ""})
Tagged(tokens, key) ==
    Extract(TagsOf(tokens), {i \in DOMAIN TagsOf(tokens) : TagsOf(tokens)[i].key = key})
Instant == [kind |-> "bare", key |-> "", val |-> "instant", think |-> FALSE]
Parsed(tokens) ==
    LET bare == Extract(tokens, {i \in DOMAIN tokens :
                                    tokens[i].kind = "bare" /\ tokens[i].val # ""})
    IN  IF Tagged(tokens, "tier") # <<>> THEN Last(Tagged(tokens, "tier"))
        ELSE IF bare # <<>> THEN Head(bare) ELSE Instant

\* The class label: class=, else any tag that has a prompt, else the tier.
ClassLabels(tokens, classes) ==
    LET tags == {Last(Tagged(tokens, key)) : key \in {t.key : t \in ToSet(TagsOf(tokens))}}
        known == {t.val : t \in {u \in tags : u.val \in DOMAIN classes /\ ~u.think}}
    IN  IF Tagged(tokens, "class") # <<>> THEN {Last(Tagged(tokens, "class")).val}
        ELSE IF known # {} THEN known ELSE {Parsed(tokens).val}

-----------------------------------------------------------------------------
\* BackendClient::new: OpenRouter speaks OpenAI's format.
Adapter(prov) == IF prov \in {"openai", "openrouter"} THEN "openai" ELSE prov

\* Seeded fault: the defaults win over the client.
OverDefaults(fields) == Over(Defaults, fields)

\* apply_default_options: never over what is set.
WithDefaults(fields) == Over(fields, Defaults)

KeepAlive == [keep_alive |-> "forever"]

\* serde_json::from_str of an argument string, kept as it is when it fails.
Decoded(args) == IF args.val = Broken THEN args ELSE Args("object", args.val)

\* Seeded fault: the arguments stay a JSON string.
NativeVerbatim(m) ==
    CASE m.role = "assistant" -> [m EXCEPT !.calls = [k \in DOMAIN m.calls |->
             [m.calls[k] EXCEPT !.id = NoId]]]
      [] m.role = "tool" -> [m EXCEPT !.id = NoId]
      [] OTHER -> m

\* fetch_native_tool_response: a message of the history in Ollama's format.
Native(m) ==
    CASE m.role = "assistant" -> [m EXCEPT !.calls = [k \in DOMAIN m.calls |->
             [m.calls[k] EXCEPT !.args = Decoded(@), !.id = NoId]]]
      [] m.role = "tool" -> [m EXCEPT !.id = NoId]
      [] OTHER -> m

Texts(ms) == FlattenSeq([i \in DOMAIN ms |-> AsStr(ms[i].text)])
TopLevel == {"temperature", "max_tokens", "stop"}

\* to_anthropic: the system strings move to a field of their own; of the
\* parameters three are forwarded, and no tools.
ToAnthropic(ms, fields) ==
    [endpoint |-> "messages",
     system |-> Texts(OfRole(ms, {"system"})),
     messages |-> OfRole(ms, {"user", "assistant", "tool"}),
     tools |-> FALSE,
     fields |-> Over([f \in DOMAIN fields \intersect TopLevel |-> fields[f]],
                     [max_tokens |-> "8192"])]

Posted(endpoint, ms, fields) ==
    [endpoint |-> endpoint, system |-> <<>>, messages |-> ms, tools |-> caller.tools,
     fields |-> fields]

\* OllamaAdapter::chat_completions: the OpenAI-compatible endpoint.
ToOllamaChat(ms, fields) == Posted("compat", ms, WithDefaults(Over(fields, KeepAlive)))

\* native_chat_stream: the history as the client sent it.
ToOllamaNative(ms, fields) == Posted("native", ms, WithDefaults(Over(fields, KeepAlive)))

\* fetch_native_tool_response.
ToOllamaTools(ms, fields) ==
    Posted("native", [i \in DOMAIN ms |-> Native(ms[i])], WithDefaults(Over(fields, KeepAlive)))

\* classify: the classifier's own options, over the defaults.
ClassifierOptions == [t \in {"options.temperature", "options.num_predict"} |-> "own"]
ToClassify(prov) == IF prov = "ollama" THEN WithDefaults(ClassifierOptions) ELSE ClassifierOptions

\* BackendClient and its adapters: what the backend of the call is shown.
Shown(c) ==
    CASE Adapter(c.prov) = "openai" -> Posted("compat", c.messages, c.fields)
      [] Adapter(c.prov) = "anthropic" -> ToAnthropic(c.messages, c.fields)
      [] Adapter(c.prov) = "ollama" /\ c.how = "chat" -> ToOllamaChat(c.messages, c.fields)
      [] Adapter(c.prov) = "ollama" /\ c.how = "native" -> ToOllamaNative(c.messages, c.fields)
      [] Adapter(c.prov) = "ollama" /\ c.how = "tools" -> ToOllamaTools(c.messages, c.fields)

-----------------------------------------------------------------------------
\* Seeded fault: every call of an answer has the same id.
ToOpenAISameId(calls) ==
    [k \in DOMAIN calls |-> [name |-> calls[k].name, args |-> Args("string", calls[k].val), id |-> Id(0, 1)]]

\* The calls of a native answer in OpenAI's format; ids are call_0, call_1, ...
\* of the answer, in every turn anew.
ToOpenAI(calls) ==
    [k \in DOMAIN calls |-> [name |-> calls[k].name, args |-> Args("string", calls[k].val), id |-> Id(0, k)]]

\* The calls of an answer, or those written in its text as name(key="val").
Meant(a) == IF a.calls # <<>> THEN a.calls ELSE a.written

\* The calls as the backend puts them on the wire.
Spoken(calls, form) ==
    [k \in DOMAIN calls |-> [name |-> calls[k].name, args |-> Args(form, calls[k].val), id |-> Id(posts, k)]]

\* tool_call: a message with calls says nothing else.
FromOllamaTools(a) ==
    IF Meant(a) # <<>> THEN Message("assistant", Null, ToOpenAI(Meant(a)))
    ELSE Message("assistant", Str(a.text), <<>>)

\* from_anthropic: of a whole answer the first block of text; one without is an
\* error.
Readable(c, a) == Adapter(c.prov) = "anthropic" /\ ~c.stream => a.text # <<>>
Taken(text, prov, stream) ==
    IF Adapter(prov) = "anthropic" /\ ~stream /\ text # <<>> THEN <<Head(text)>> ELSE text

\* The assistant message the gateway has of an answer.
Returned(c, a) ==
    IF c.prov = "ollama" /\ c.how = "tools" THEN FromOllamaTools(a)
    ELSE IF c.prov = "ollama" /\ c.how = "native"
    THEN Message("assistant", Str(a.text), Spoken(a.calls, "object"))
    ELSE Message("assistant", IF a.text = <<>> THEN Null ELSE Str(Taken(a.text, c.prov, c.stream)),
                 Spoken(a.calls, "string"))

\* The two ways a translation to Ollama treats arguments that do not parse.
ToDict(args, stream) ==
    IF args.form = "string" /\ args.val = Broken
    THEN IF stream THEN Args("object", "{}") ELSE args
    ELSE Args("object", args.val)

\* What the client keeps of it: through /api/chat no null and no JSON strings.
Kept(m, stream) ==
    IF caller.api = "openai" THEN m
    ELSE Message("assistant", Str(AsStr(m.text)), [k \in DOMAIN m.calls |->
             [m.calls[k] EXCEPT !.args = ToDict(@, stream), !.id = NoId]])

\* is_sufficient: 20 characters, and no refusal among them.
Sufficient(m) == "answer" \in ToSet(AsStr(m.text)) /\ "refusal" \notin ToSet(AsStr(m.text))

Source(by, a) == [by |-> by, text |-> a.text, calls |-> a.calls, written |-> a.written,
                  prov |-> call.prov, how |-> call.how, stream |-> call.stream]
Notice == [text |-> <<"notice">>, calls |-> <<>>, written |-> <<>>]

-----------------------------------------------------------------------------
\* The next question.
Ask(question) ==
    /\ call = NoCall /\ todo = {} /\ posts < MaxPosts
    /\ history # <<>> => Last(history).role \notin {"user", "tool"}
    /\ history' = Append(history, [Message("user", question, <<>>) EXCEPT !.of = posts + 1])
    /\ UNCHANGED <<caller, todo, posts, call, said>>

\* The client is done with a call; several run side by side.
RunTool(k) ==
    /\ k \in todo
    /\ todo' = todo \ {k}
    /\ LET turn == SelectLastInSeq(history, LAMBDA m : m.calls # <<>>)
       IN  history' = Append(history, [Message("tool", Str(<<"result">>), <<>>) EXCEPT
                                          !.id = history[turn].calls[k].id, !.of = k])
    /\ UNCHANGED <<caller, posts, call, said>>

Ready == call = NoCall /\ todo = {} /\ posts < MaxPosts
         /\ history # <<>> /\ Last(history).role \in {"user", "tool"}

\* How the backend of a tier is called: with tools through Ollama's own API.
How(mode, stream) ==
    IF mode = "escalate" /\ ~stream THEN "chat"
    ELSE IF stream /\ caller.api = "ollama" THEN "native"
    ELSE IF caller.tools THEN "tools" ELSE "chat"

\* think: the classifier's wish over the client's, the tier's under it.
Thinking(fields, wish, tier) ==
    Over(Over(IF wish THEN [think |-> "wish"] ELSE <<>>, fields),
         IF tier.think THEN [think |-> "tier"] ELSE <<>>)

Starts(p, i, stream, prompts, wish, asked) ==
    LET how == How(p.mode, stream)
    IN  /\ call' = [prov |-> Tiers[i].prov, how |-> how, stream |-> stream,
                    rung |-> IF p.mode = "escalate" /\ ~stream THEN i ELSE 0,
                    messages |-> InjectAll(history, prompts),
                    fields |-> IF p.mode = "escalate" /\ ~stream THEN caller.fields
                               ELSE Thinking(caller.fields, wish, Tiers[i]),
                    prompts |-> Reverse(prompts), think |-> wish, asked |-> asked,
                    options |-> ToClassify(Tiers[1].prov)]
        /\ posts' = posts + 1
        /\ UNCHANGED <<caller, history, todo, said>>

\* route and route_stream under a profile in dispatch or escalate mode: the
\* profile's prompt, and some tier.
Post(p, i, stream) ==
    /\ Ready
    /\ p.mode \in {"dispatch", "escalate"}
    /\ Starts(p, i, stream, p.prompts, FALSE, <<>>)

\* Classify mode: the classifier is shown the newest part of the conversation;
\* its label picks a second prompt, and with a window that has no user in it
\* there is neither.
PostClassified(p, i, stream, tokens) ==
    LET asked == ClassifierInput(InjectAll(history, p.prompts), p.window)
        Prompts(l) == p.prompts \o (IF l \in DOMAIN p.classes THEN <<p.classes[l]>> ELSE <<>>)
    IN  /\ Ready
        /\ p.mode = "classify"
        /\ IF asked = <<>> THEN Starts(p, i, stream, p.prompts, FALSE, asked)
           ELSE \E l \in ClassLabels(tokens, p.classes) :
                   Starts(p, i, stream, Prompts(l), Parsed(tokens).think, asked)

Delivers(m, source) ==
    /\ history' = Append(history, m)
    /\ said' = Append(said, source)
    /\ todo' = DOMAIN m.calls
    /\ call' = NoCall
    /\ UNCHANGED <<caller, posts>>

\* error_openai_response, error_ollama_response: an error is an answer too.
Fails == Delivers(Message("assistant", Str(<<"notice">>), <<>>), Source("gateway", Notice))

\* Reply mode: no backend at all.
PostReply(p) ==
    /\ Ready
    /\ p.mode = "reply"
    /\ history' = Append(history, Message("assistant", Str(<<"notice">>), <<>>))
    /\ said' = Append(said, Source("gateway", Notice))
    /\ posts' = posts + 1
    /\ UNCHANGED <<caller, todo, call>>

NextRung ==
    /\ call' = [call EXCEPT !.rung = @ + 1, !.prov = Tiers[call.rung + 1].prov]
    /\ UNCHANGED <<caller, history, todo, posts, said>>

\* A backend answers, calling only tools it was shown; escalate goes on until
\* an answer suffices.
AnswersWith(a) ==
    LET m == Returned(call, a)
    IN  /\ call # NoCall
        /\ a.calls # <<>> => Shown(call).tools
        /\ IF Readable(call, a) /\ (call.rung = 0 \/ Sufficient(m))
           THEN Delivers(Kept(m, call.stream), Source("model", a))
           ELSE IF call.rung \in 1 .. Len(Tiers) - 1 THEN NextRung ELSE Fails

\* The call fails: no connection, a bad status, no JSON.
CallFails ==
    /\ call # NoCall
    /\ IF call.rung \in 1 .. Len(Tiers) - 1 THEN NextRung ELSE Fails

Next ==
    \/ \E question \in Questions : Ask(question)
    \/ \E k \in todo : RunTool(k)
    \/ \E p \in Profiles, i \in DOMAIN Tiers, stream \in BOOLEAN :
          \/ Post(p, i, stream)
          \/ \E tokens \in ClassifierAnswers : PostClassified(p, i, stream, tokens)
    \/ \E p \in Profiles : PostReply(p)
    \/ \E a \in Answers : AnswersWith(a)
    \/ CallFails

Spec == Init /\ [][Next]_vars

-----------------------------------------------------------------------------
Ids == [turn : Nat, k : Nat]
Calls == [name : Strings, args : [form : {"string", "object"}, val : Strings], id : Ids]
Messages == [role : {"system", "user", "assistant", "tool"}, text : TextValues,
             calls : Seq(Calls), id : Ids, of : Nat]
Sources == [by : {"model", "gateway"}, text : Seq(Strings), calls : Seq([name : Strings, val : Strings]),
            written : Seq([name : Strings, val : Strings]), prov : Providers \union {"none"},
            how : {"none", "chat", "native", "tools"}, stream : BOOLEAN]

TypeOK ==
    /\ caller \in Callers
    /\ history \in Seq(Messages)
    /\ todo \subseteq Nat
    /\ posts \in 0 .. MaxPosts
    /\ said \in Seq(Sources)
    /\ DOMAIN call = DOMAIN NoCall
    /\ call = NoCall \/ /\ call.prov \in Providers
                        /\ call.how \in {"chat", "native", "tools"}
                        /\ call.rung \in 0 .. Len(Tiers)
    /\ call.stream \in BOOLEAN /\ call.think \in BOOLEAN
    /\ call.messages \in Seq(Messages) /\ call.asked \in Seq(Messages)
    /\ call.prompts \in Seq(Strings)

Assistant(ms) == OfRole(ms, {"assistant"})

\* The form of arguments these two APIs read.
Form == [compat |-> "string", native |-> "object"]

\* The calls of an answer as the gateway understood it.
ByTools(source) == source.prov = "ollama" /\ source.how = "tools"
Made(source) == IF ByTools(source) THEN Meant(source) ELSE source.calls

\* The arguments are those that were given, in the form the endpoint reads.  What
\* is no JSON has no such form: it is passed on as the string it is, but a client
\* of /api/chat may have been given {} for it (api/client/ollama.rs:208-222).  Nor
\* do the objects such a client keeps become strings again for compat.
SameArgs(args, val, endpoint) ==
    /\ args.val = val \/ (caller.api = "ollama" /\ val = Broken /\ args.val = "{}")
    /\ args.form = Form[endpoint]
         \/ (endpoint = "native" /\ val = Broken) \/ (endpoint = "compat" /\ caller.api = "ollama")

\* Whoever is shown the conversation sees what was said in it: the text of each
\* answer, and the same tools called in the same order with the same arguments.
\* Not so what a message with calls said besides, which Ollama's tool path drops,
\* and the calls in a history for Anthropic: its API has blocks of its own for
\* them, but to_anthropic passes OpenAI's messages on (anthropic.rs:232-240).
Echo ==
    call # NoCall =>
        LET seen == Shown(call)
            told == Assistant(seen.messages)
        IN  /\ Len(told) = Len(said)
            /\ \A i \in DOMAIN told :
                  /\ ~ByTools(said[i]) \/ Made(said[i]) = <<>> =>
                        AsStr(told[i].text) = Taken(said[i].text, said[i].prov, said[i].stream)
                  /\ seen.endpoint # "messages" =>
                        /\ Len(told[i].calls) = Len(Made(said[i]))
                        /\ \A k \in DOMAIN Made(said[i]) :
                              /\ told[i].calls[k].name = Made(said[i])[k].name
                              /\ SameArgs(told[i].calls[k].args, Made(said[i])[k].val, seen.endpoint)

\* The call a backend takes the tool result at position i of ms for: by its id
\* among the calls of the last message that has any, or by its place after it.
Turn(ms, i) == SelectLastInSubSeq(ms, 1, i, LAMBDA m : m.calls # <<>>)
ById(ms, i) == {k \in DOMAIN ms[Turn(ms, i)].calls : ms[Turn(ms, i)].calls[k].id = ms[i].id}
ByPlace(ms, i) == {i - Turn(ms, i)}
InOrder(ms, i) ==
    LET results == {j \in DOMAIN ms : ms[j].role = "tool" /\ Turn(ms, j) = Turn(ms, i)}
    IN  \A j, k \in results : j < k => ms[j].of < ms[k].of

\* "Ollama native identifies tool results by position, not by ID": every result
\* is taken for that of the call it answers, by its id alone although the ids
\* start again in every turn, and by its place if the client has sent the
\* results of that turn in the order of the calls.
Paired ==
    LET ms == Shown(call).messages
    IN  call # NoCall =>
          \A i \in DOMAIN ms : ms[i].role = "tool" =>
              IF Shown(call).endpoint = "native"
              THEN InOrder(ms, i) => ByPlace(ms, i) = {ms[i].of}
              ELSE caller.api = "openai" => ById(ms, i) = {ms[i].of}

SystemWords(ms) ==
    LET systems == OfRole(ms, {"system"})
    IN  FlattenSeq([i \in DOMAIN systems |-> Words(systems[i].text)])
SystemText(seen) == seen.system \o SystemWords(seen.messages)

\* Of the client's own system texts those that are arrays of parts are lost: the
\* first one when prompts go in front of it (router/mod.rs:733-736), and all of
\* them on the way to Anthropic (anthropic.rs:232-236).
Lost(i, seen) ==
    caller.system[i].form = "parts" /\ (seen.endpoint = "messages" \/ (i = 1 /\ call.prompts # <<>>))
OwnText(seen) ==
    FlattenSeq([i \in DOMAIN caller.system |->
                   IF Lost(i, seen) THEN <<>> ELSE Words(caller.system[i])])

\* "the profile's instructions take precedence": each prompt of this request, and
\* no other request's, once and first, the class's before the profile's, then
\* everything the client said itself, but what is lost of it.
PromptsFirst == call # NoCall => SystemText(Shown(call)) = call.prompts \o OwnText(Shown(call))

\* "so client-provided context is preserved": what the client's system messages
\* say is in those of the body the backend is called with.
ContextPreserved ==
    call # NoCall =>
        \A i \in DOMAIN caller.system :
            ToSet(Words(caller.system[i])) \subseteq ToSet(SystemWords(call.messages))

\* "Keys already present in the caller's body are never overridden": what the
\* client set is what the backend sees, but for the classifier's wish to think;
\* Anthropic sees the three parameters its adapter forwards.  The gateway's own
\* classification is a caller too.
CallerWins ==
    call # NoCall =>
        LET seen == Shown(call)
        IN  /\ \A o \in DOMAIN ClassifierOptions : call.options[o] = ClassifierOptions[o]
            /\ \A f \in DOMAIN caller.fields :
                  \/ f \in DOMAIN seen.fields /\ seen.fields[f] = caller.fields[f]
                  \/ seen.endpoint = "messages" /\ f \notin TopLevel
                  \/ f = "think" /\ call.think

\* Where the last question in words is.
LastQuestion(ms) == SelectLastInSeq(ms, LAMBDA m : m.role = "user" /\ HasText(m))

\* A classifier that is asked at all is shown the question being answered, or
\* the one before if that is nothing but images.
AsksTheQuestion ==
    call.asked # <<>> =>
        \E i \in DOMAIN call.asked :
            call.asked[i].role = "user" /\ call.asked[i] = history[LastQuestion(history)]
=============================================================================
