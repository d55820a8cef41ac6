------------------------------- MODULE Streaming -------------------------------
(***************************************************************************)
(* One streamed answer, from the backend's response body to the client's:  *)
(* the tail of route_stream, the Anthropic relay task of                   *)
(* backends/anthropic.rs with its bounded channel, and the translation to  *)
(* Ollama's NDJSON of api/client/ollama.rs.                                *)
(*                                                                         *)
(* A body is a sequence of symbols that the network cuts into chunks at    *)
(* any point.  "nl" is a newline, "event:" and "data:" are the SSE field   *)
(* prefixes; the other symbols are words.  Text and Tools say which words  *)
(* are content and which are pieces of a tool call, and "e1", "e2" are the *)
(* two bytes of one character.  A script is what the backend has to say:   *)
(* events of one data line each, with a type in Anthropic's schema, or the *)
(* lines of Ollama's own NDJSON.  Two streams are made by the gateway: the *)
(* answer of a tool call that was waited for, and the reply of a profile.  *)
(***************************************************************************)
EXTENDS Integers, Sequences, SequencesExt

CONSTANTS AnthropicScripts,  \* scripts of [type, data], data a sequence of words
          OpenAIScripts,     \* the same in OpenAI's schema, type = ""
          OllamaScripts,     \* lines of Ollama's schema, the last one Done
          ToolScripts,       \* what a tool call is turned into: a message, its end, Done
          ReplyScripts,      \* the message of a reply profile, and Done
          Text, Tools,       \* the words of content, and of tool-call deltas
          Words,             \* every word
          Capacity           \* of the relay's channel

Markup == {"nl", "data:", "event:", "[DONE]"}
Done == <<"[DONE]">>

\* Characters are not broken off where nobody cuts.
Whole(s) == \A i \in DOMAIN s :
    /\ s[i] = "e1" => i + 1 \in DOMAIN s /\ s[i + 1] = "e2"
    /\ s[i] = "e2" => i - 1 \in DOMAIN s /\ s[i - 1] = "e1"

\* One event: a line of data, of whole characters.
Events == [type : Words, data : Seq(Words)]
EventOK(e) == e \in Events /\ e.data # <<>> /\ "nl" \notin ToSet(e.data) /\ Whole(e.data)

\* In OpenAI's schema and Ollama's nothing follows Done.
UntypedScripts == OpenAIScripts \union OllamaScripts \union ToolScripts \union ReplyScripts

ASSUME StreamingAssumption ==
    /\ Capacity \in Nat \ {0}
    /\ {"e1", "e2", "?", "hm"} \subseteq Text
    /\ Text \intersect Tools = {} /\ (Text \union Tools) \intersect Markup = {}
    /\ Text \union Tools \union Markup \union {"", "role", "finish", "error"} \subseteq Words

ASSUME ScriptAssumption ==
    /\ \A s \in AnthropicScripts :
          /\ s \in Seq(Events)
          /\ \A i \in DOMAIN s : EventOK(s[i]) /\ s[i].type \notin Text \union {"", "nl"}
    /\ \A s \in UntypedScripts :
          /\ s \in Seq(Events)
          /\ \A i \in DOMAIN s :
                /\ EventOK(s[i]) /\ s[i].type = ""
                /\ "[DONE]" \in ToSet(s[i].data) => i = Len(s) /\ s[i].data = Done

VARIABLES
    source,    \* "relay": Anthropic's task; "direct", "native": the backend's
               \* own SSE or NDJSON; "tools", "reply": made by the gateway
    sink,      \* "verbatim": proxied as they are; "ndjson": translated
    prefix,    \* whether a thinking message is put before the stream
    script,    \* what the backend has to say
    wire,      \* the body it says it in
    at,        \* how much of it has been read
    upstream,  \* "open", "closed" at the end of the body, or "broken"
    relay,     \* [pc, buf, event, item]: the relay task and its locals
    chan,      \* the mpsc channel: items [err, bytes]
    client,    \* "opening", "refused", "reading", "ended", "aborted", "gone"
    buf,       \* State.buf of sse_to_ollama_ndjson
    text,      \* State.content
    tools,     \* State.tool_calls
    out,       \* what the client has received: symbols, or NDJSON lines
    cut        \* history: a chunk ended inside a character

upVars == <<source, sink, prefix, script, wire>>
sinkVars == <<buf, text, tools, out>>
vars == <<upVars, at, upstream, relay, chan, client, sinkVars, cut>>

Sse(payload) == <<"data:">> \o payload \o <<"nl", "nl">>
Ndline(payload) == payload \o <<"nl">>
Put(payload) == IF source = "native" THEN Ndline(payload) ELSE Sse(payload)
Bytes(e) == (IF e.type = "" THEN <<>> ELSE <<"event:", e.type, "nl">>) \o Put(e.data)
Body(s) == FlattenSeq([i \in DOMAIN s |-> Bytes(s[i])])

Thinking == IF prefix THEN << <<"hm">> >> ELSE <<>>

\* String::from_utf8_lossy of one chunk: half a character becomes "?".
Lossy(chunk) ==
    [i \in DOMAIN chunk |->
        IF \/ chunk[i] = "e1" /\ ~(i < Len(chunk) /\ chunk[i + 1] = "e2")
           \/ chunk[i] = "e2" /\ ~(i > 1 /\ chunk[i - 1] = "e1")
        THEN "?" ELSE chunk[i]]

Chunk(n) == SubSeq(wire, at + 1, at + n)
Cuts(n) == at + n < Len(wire) /\ wire[at + n] = "e1" /\ wire[at + n + 1] = "e2"

First(S) == CHOOSE i \in S : \A j \in S : i <= j
Newlines(s) == {i \in DOMAIN s : s[i] = "nl"}
Breaks(s) == {i \in Newlines(s) : i + 1 \in Newlines(s)}
After(s, n) == SubSeq(s, n + 1, Len(s))

Idle0 == [pc |-> "none", buf |-> <<>>, event |-> "", item |-> <<>>]
Item(bytes) == [err |-> FALSE, bytes |-> bytes]
ErrItem == [err |-> TRUE, bytes |-> <<>>]
IsLast(item) == item \in {ErrItem, Item(Sse(Done))}

\* Which stream a request gets: an Ollama client is served the native one of an
\* Ollama backend as it is, an OpenAI client that offers tools the tool call's;
\* a reply leaves route_stream before a thinking message is picked.
Init ==
    /\ \/ source = "relay" /\ script \in AnthropicScripts
       \/ source = "direct" /\ script \in OpenAIScripts
       \/ source = "native" /\ script \in OllamaScripts
       \/ source = "tools" /\ script \in ToolScripts
       \/ source = "reply" /\ script \in ReplyScripts
    /\ sink \in IF source \in {"native", "tools"} THEN {"verbatim"} ELSE {"verbatim", "ndjson"}
    /\ prefix \in IF source = "reply" THEN {FALSE} ELSE BOOLEAN
    /\ wire = Body(script)
    /\ at = 0
    /\ upstream = "open"
    /\ relay = Idle0
    /\ chan = <<>>
    /\ client = "opening"
    /\ buf = <<>> /\ text = <<>> /\ tools = <<>> /\ out = <<>>
    /\ cut = FALSE

-----------------------------------------------------------------------------
\* Bytes reach the sink: proxied at once, or buffered for the translation.
Deliver(bytes) ==
    IF sink = "verbatim"
    THEN out' = out \o bytes /\ UNCHANGED <<buf, text, tools>>
    ELSE buf' = buf \o bytes /\ UNCHANGED <<text, tools, out>>

\* chat_completions_stream returns: the relay task is spawned, and the
\* thinking message goes out before the first byte of the backend.
Starts ==
    /\ client' = "reading"
    /\ relay' = IF source = "relay" THEN [relay EXCEPT !.pc = "reading"] ELSE relay
    /\ Deliver(FlattenSeq([i \in DOMAIN Thinking |-> Put(Thinking[i])]))

Open ==
    /\ client = "opening"
    /\ Starts
    /\ UNCHANGED <<upVars, at, upstream, chan, cut>>

\* The connection fails or, for Anthropic and a tool call only, the status is an
\* error: the handler answers with an error as a chat message.
Refuse ==
    /\ client = "opening"
    /\ source # "reply"
    /\ client' = "refused"
    /\ UNCHANGED <<upVars, at, upstream, relay, chan, sinkVars, cut>>

\* The other adapters do not look at the status: the error is the stream.
OpenError ==
    /\ client = "opening"
    /\ source \in {"direct", "native"}
    /\ script' = <<>>
    /\ wire' = <<"error">>
    /\ Starts
    /\ UNCHANGED <<source, sink, prefix, at, upstream, chan, cut>>

-----------------------------------------------------------------------------
\* byte_stream.next().await yields a chunk.
RelayRead(n) ==
    /\ relay.pc = "reading"
    /\ at + n <= Len(wire)
    /\ relay' = [relay EXCEPT !.pc = "scanning", !.buf = @ \o Lossy(Chunk(n))]
    /\ at' = at + n
    /\ cut' = (cut \/ Cuts(n))
    /\ UNCHANGED <<upVars, upstream, chan, client, sinkVars>>

Sends(item) == relay' = [relay EXCEPT !.pc = "sending", !.item = item]

\* Seeded fault: an error ends the stream like its end does.
RelayBrokenDone ==
    /\ relay.pc = "reading"
    /\ upstream' = "broken"
    /\ Sends(Item(Sse(Done)))
    /\ UNCHANGED <<upVars, at, chan, client, sinkVars, cut>>

\* ... or an error, passed on as the last item ...
RelayBroken ==
    /\ relay.pc = "reading"
    /\ upstream' = "broken"
    /\ Sends(ErrItem)
    /\ UNCHANGED <<upVars, at, chan, client, sinkVars, cut>>

\* ... or None at the end of the body: [DONE] is the last item.
RelayEof ==
    /\ relay.pc = "reading"
    /\ at = Len(wire)
    /\ upstream' = "closed"
    /\ Sends(Item(Sse(Done)))
    /\ UNCHANGED <<upVars, at, chan, client, sinkVars, cut>>

\* translate_sse_event: the chunk an event becomes, <<>> for none.
Translate(type, data) ==
    CASE type = "message_start" -> <<"role">>
      [] type = "content_block_delta" /\ ToSet(data) \subseteq Text -> data
      [] type = "message_delta" -> <<"finish">>
      [] OTHER -> <<>>

\* What a line does: end an event, name its type, or carry its data.
Reads(line, r) ==
    CASE line = <<>> -> [r EXCEPT !.event = ""]
      [] line # <<>> /\ line[1] = "event:" -> [r EXCEPT !.event = line[2]]
      [] OTHER ->
           LET chunk == Translate(r.event, Tail(line))
           IN  IF chunk = <<>> THEN r ELSE [r EXCEPT !.pc = "sending", !.item = Item(Sse(chunk))]

LineEnd == First(Newlines(relay.buf))
Line == SubSeq(relay.buf, 1, LineEnd - 1)

\* Seeded fault: the rest of the buffer is dropped with the line.
RelayLineForgets ==
    /\ relay.pc = "scanning" /\ Newlines(relay.buf) # {}
    /\ relay' = Reads(Line, [relay EXCEPT !.buf = <<>>])
    /\ UNCHANGED <<upVars, at, upstream, chan, client, sinkVars, cut>>

\* Seeded fault: one line is taken of each chunk.
RelayLineOnce ==
    /\ relay.pc = "scanning" /\ Newlines(relay.buf) # {}
    /\ relay' = Reads(Line, [relay EXCEPT !.buf = After(@, LineEnd), !.pc = "reading"])
    /\ UNCHANGED <<upVars, at, upstream, chan, client, sinkVars, cut>>

\* The next complete line of the buffer.
RelayLine ==
    /\ relay.pc = "scanning"
    /\ Newlines(relay.buf) # {}
    /\ relay' = Reads(Line, [relay EXCEPT !.buf = After(@, LineEnd)])
    /\ UNCHANGED <<upVars, at, upstream, chan, client, sinkVars, cut>>

\* No complete line is left: wait for the next chunk.
RelayScanned ==
    /\ relay.pc = "scanning"
    /\ Newlines(relay.buf) = {}
    /\ relay' = [relay EXCEPT !.pc = "reading"]
    /\ UNCHANGED <<upVars, at, upstream, chan, client, sinkVars, cut>>

\* tx.send().await: room in the channel.
RelaySend ==
    /\ relay.pc = "sending"
    /\ client = "reading"
    /\ Len(chan) < Capacity
    /\ chan' = Append(chan, relay.item)
    /\ relay' = [relay EXCEPT !.pc = IF IsLast(relay.item) THEN "done" ELSE "scanning"]
    /\ UNCHANGED <<upVars, at, upstream, client, sinkVars, cut>>

\* Seeded fault: the relay goes on trying for a client that has left.
RelayGoneRetries ==
    /\ relay.pc = "sending"
    /\ client # "reading"
    /\ UNCHANGED vars

\* tx.send().await fails: the receiver was dropped with the client's stream.
RelayGone ==
    /\ relay.pc = "sending"
    /\ client # "reading"
    /\ relay' = [relay EXCEPT !.pc = "done"]
    /\ UNCHANGED <<upVars, at, upstream, chan, client, sinkVars, cut>>

-----------------------------------------------------------------------------
IsDone(data) == data \in {<<>>, Done}

\* delta.tool_calls or delta.content: the words of one kind, in order.
Only(data, kind) ==
    FlattenSeq([i \in DOMAIN data |-> IF data[i] \in kind THEN <<data[i]>> ELSE <<>>])
ToolPart(data) == Only(data, Tools)
Spoken(data) == IF ToolPart(data) # <<>> THEN <<>> ELSE Only(data, Text)

Closing(said, called) == [done |-> TRUE, text |-> said, tools |-> called]
Saying(said) == [done |-> FALSE, text |-> said, tools |-> <<>>]

\* The stream may be polled once all complete events of the last item are out.
Wants == client = "reading" /\ (sink = "ndjson" => Breaks(buf) = {})

\* sse_to_ollama_ndjson: the next complete event of the buffer.
TranslateEvent ==
    LET end == First(Breaks(buf))
        line == SubSeq(buf, 1, end - 1)
        data == IF line # <<>> /\ line[1] = "data:" THEN Tail(line) ELSE line
        closes == line # <<>> /\ IsDone(data)
    IN  /\ client = "reading"
        /\ sink = "ndjson"
        /\ Breaks(buf) # {}
        /\ buf' = After(buf, end + 1)
        /\ tools' = IF closes THEN tools ELSE tools \o ToolPart(data)
        /\ text' = IF closes THEN text ELSE text \o Spoken(data)
        /\ out' = IF closes THEN Append(out, Closing(text, tools))
                  ELSE IF Spoken(data) # <<>> THEN Append(out, Saying(Spoken(data)))
                  ELSE out
        /\ UNCHANGED <<upVars, at, upstream, relay, chan, client, cut>>

\* poll_recv yields an item; an error breaks the response off.
Receive ==
    /\ Wants
    /\ chan # <<>>
    /\ chan' = Tail(chan)
    /\ IF Head(chan).err
       THEN client' = "aborted" /\ UNCHANGED sinkVars
       ELSE Deliver(Head(chan).bytes) /\ UNCHANGED client
    /\ UNCHANGED <<upVars, at, upstream, relay, cut>>

\* The channel is empty and its sender gone: the response is complete.
ReceiveEnd ==
    /\ Wants
    /\ source = "relay" /\ relay.pc = "done" /\ chan = <<>>
    /\ client' = "ended"
    /\ UNCHANGED <<upVars, at, upstream, relay, chan, sinkVars, cut>>

\* What a stream made by the gateway yields next: the next event, or all there is.
Part == IF source = "tools" THEN First(Breaks(After(wire, at))) + 1 ELSE Len(wire) - at

\* Without a relay the response pulls the chunks itself ...
Pull(n) ==
    /\ Wants
    /\ source # "relay"
    /\ at + n <= Len(wire)
    /\ source \in {"tools", "reply"} => n = Part
    /\ Deliver(IF sink = "ndjson" THEN Lossy(Chunk(n)) ELSE Chunk(n))
    /\ at' = at + n
    /\ cut' = (cut \/ Cuts(n))
    /\ UNCHANGED <<upVars, upstream, relay, chan, client>>

\* ... up to the end of the body ...
PullEnd ==
    /\ Wants
    /\ source # "relay" /\ at = Len(wire)
    /\ upstream' = "closed"
    /\ client' = "ended"
    /\ UNCHANGED <<upVars, at, relay, chan, sinkVars, cut>>

\* ... or an error.
PullBroken ==
    /\ Wants
    /\ source \in {"direct", "native"}
    /\ upstream' = "broken"
    /\ client' = "aborted"
    /\ UNCHANGED <<upVars, at, relay, chan, sinkVars, cut>>

\* The client disconnects: the stream and the channel's receiver are dropped.
Leave ==
    /\ client \in {"opening", "reading"}
    /\ client' = "gone"
    /\ UNCHANGED <<upVars, at, upstream, relay, chan, sinkVars, cut>>

-----------------------------------------------------------------------------
\* The steps nobody outside the gateway has to take, the client reading on.
Runs == RelayLine \/ RelayScanned \/ RelaySend \/ RelayGone
        \/ TranslateEvent \/ Receive \/ ReceiveEnd

\* The backend: it answers, errs or stalls as it likes.
Backend ==
    \/ Open \/ Refuse \/ OpenError
    \/ RelayBroken \/ RelayEof \/ PullBroken \/ PullEnd
    \/ \E n \in 1 .. Len(wire) : RelayRead(n) \/ Pull(n)

Next == Runs \/ Backend \/ Leave

Spec == Init /\ [][Next]_vars

\* The runtime polls the relay task and the response; no stream has a timeout,
\* so the backend is never required to go on.
FairSpec == Spec /\ WF_vars(Runs)

-----------------------------------------------------------------------------
Items == [err : BOOLEAN, bytes : Seq(Words)]
NdjsonLines == [done : BOOLEAN, text : Seq(Words), tools : Seq(Words)]

TypeOK ==
    /\ source \in {"relay", "direct", "native", "tools", "reply"}
    /\ sink \in {"verbatim", "ndjson"}
    /\ prefix \in BOOLEAN
    /\ script \in Seq(Events) /\ wire \in Seq(Words)
    /\ at \in 0 .. Len(wire)
    /\ upstream \in {"open", "closed", "broken"}
    /\ relay \in [pc : {"none", "reading", "scanning", "sending", "done"}, buf : Seq(Words),
                  event : Words, item : Items \union {<<>>}]
    /\ chan \in Seq(Items)
    /\ client \in {"opening", "refused", "reading", "ended", "aborted", "gone"}
    /\ buf \in Seq(Words) /\ text \in Seq(Words) /\ tools \in Seq(Words)
    /\ out \in IF sink = "ndjson" THEN Seq(NdjsonLines) ELSE Seq(Words)
    /\ cut \in BOOLEAN

\* The events whose data has arrived in full within the first n symbols: for the
\* relay the end of the line suffices.
Arrived(n) ==
    SubSeq(script, 1, Max({k \in 0 .. Len(script) :
        Len(Body(SubSeq(script, 1, k))) <= n + (IF source = "relay" THEN 1 ELSE 0)}))

\* The chunks they stand for in OpenAI's schema.
Chunked(e) == IF source = "relay" THEN Translate(e.type, e.data) ELSE e.data
Chunks(events) ==
    FlattenSeq([k \in DOMAIN events |->
                   IF Chunked(events[k]) = <<>> THEN <<>> ELSE <<Chunked(events[k])>>])

\* Those chunks in Ollama's: the closing line repeats everything before it.
SpokenBy(chunks, n) == FlattenSeq([j \in 1 .. n |-> Spoken(chunks[j])])
CalledBy(chunks, n) == FlattenSeq([j \in 1 .. n |-> ToolPart(chunks[j])])
Lines(chunks, k) ==
    IF chunks[k] = Done THEN <<Closing(SpokenBy(chunks, k - 1), CalledBy(chunks, k - 1))>>
    ELSE IF Spoken(chunks[k]) = <<>> THEN <<>> ELSE <<Saying(Spoken(chunks[k]))>>
Ndjson(chunks) == FlattenSeq([k \in DOMAIN chunks |-> Lines(chunks, k)])

\* What the client is owed of the first n symbols, and of the end of the body.
Owed(n, ended) ==
    LET chunks == Thinking \o Chunks(Arrived(n))
                  \o (IF ended /\ source = "relay" THEN <<Done>> ELSE <<>>)
    IN  IF sink = "ndjson" THEN Ndjson(chunks)
        ELSE IF source = "relay" THEN FlattenSeq([k \in DOMAIN chunks |-> Sse(chunks[k])])
        ELSE FlattenSeq([k \in DOMAIN Thinking |-> Put(Thinking[k])]) \o SubSeq(wire, 1, n)

OwedNow == Owed(at, upstream = "closed")

Blur(s) == [i \in DOMAIN s |-> IF s[i] \in {"e1", "e2"} THEN "?" ELSE s[i]]
Blurred(s) ==
    IF sink = "ndjson" THEN [k \in DOMAIN s |-> [s[k] EXCEPT !.text = Blur(@)]] ELSE Blur(s)

\* Whatever the chunks, the client receives what the backend said, translated
\* event by event, in order, without loss or repetition; only a character cut
\* by the end of a chunk is garbled (from_utf8_lossy decodes chunk by chunk).
Faithful ==
    client \notin {"opening", "refused"} =>
        IF cut THEN IsPrefix(Blurred(out), Blurred(OwedNow)) ELSE IsPrefix(out, OwedNow)

\* "Content delta chunks are forwarded immediately": when everyone waits for the
\* backend, and when the response has ended, nothing that arrived is held back.
Waiting == Wants /\ chan = <<>> /\ relay.pc \in {"none", "reading"}
Prompt == Waiting \/ client = "ended" => Len(out) = Len(OwedNow)

\* The client has been told that the answer is complete.
ToldDone ==
    IF sink = "ndjson" THEN \E k \in DOMAIN out : out[k].done
    ELSE IsSuffix(Put(Done), out)

\* It is told so only when it has received all the backend had to say: a relay
\* whose backend broke off sends no [DONE], and a translated stream's closing
\* line comes once and last.
DoneMeansComplete == ToldDone => Len(out) = Len(Owed(Len(wire), TRUE))

\* The relay is never stuck with an item: the client takes it or has left.
SendsEnd == relay.pc = "sending" ~> relay.pc # "sending"
=============================================================================
