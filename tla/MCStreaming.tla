----------------------------- MODULE MCStreaming -----------------------------
EXTENDS Streaming

Ev(type, data) == [type |-> type, data |-> data]
Delta(data) == Ev("content_block_delta", data)
OpenAI(data) == Ev("", data)

\* An answer with a ping, a delta that is no text, a two-byte character and a
\* pair of text deltas; and one that the backend gives up with an error event.
MCAnthropicScripts ==
    {<<Ev("message_start", <<"role">>), Delta(<<"a">>), Ev("ping", <<"{}">>),
       Delta(<<"e1", "e2">>), Delta(<<"json">>), Delta(<<"b", "a">>),
       Ev("message_delta", <<"finish">>), Ev("message_stop", <<"{}">>)>>,
     <<Ev("message_start", <<"role">>), Delta(<<"a">>), Ev("error", <<"overloaded">>)>>}

\* Text and a character; two pieces of a tool call; a comment between chunks.
MCOpenAIScripts ==
    {<<OpenAI(<<"role">>), OpenAI(<<"a">>), OpenAI(<<"b", "e1", "e2">>), OpenAI(<<"finish">>),
       OpenAI(Done)>>,
     <<OpenAI(<<"role">>), OpenAI(<<"t1">>), OpenAI(<<":ping">>), OpenAI(<<"t2">>),
       OpenAI(<<"finish">>), OpenAI(Done)>>}

\* Ollama's own lines; a tool call's answer, of calls or of text; a reply.
MCOllamaScripts == {<<OpenAI(<<"a">>), OpenAI(<<"e1", "e2">>), OpenAI(Done)>>}
MCToolScripts ==
    {<<OpenAI(<<"t1", "t2">>), OpenAI(<<"finish">>), OpenAI(Done)>>,
     <<OpenAI(<<"a", "b">>), OpenAI(<<"finish">>), OpenAI(Done)>>}
MCReplyScripts == {<<OpenAI(<<"a", "b">>), OpenAI(Done)>>}

MCText == {"a", "b", "e1", "e2", "?", "hm"}
MCWords == STRING
=============================================================================
