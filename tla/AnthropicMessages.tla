-------------------------- MODULE AnthropicMessages --------------------------
(***************************************************************************)
(* The Anthropic Messages filters, one exchange: anthropic_messages_format *)
(* classifies, anthropic_validate checks the envelope, and then either     *)
(* anthropic_messages_protocol sends the request to a native backend, or   *)
(* anthropic_to_openai turns it into a Chat Completions request and the    *)
(* reply back into a Messages reply, leaving streams to                    *)
(* anthropic_stream_events (module StreamEvents).                          *)
(*                                                                         *)
(* A turn of the conversation is [role, content]; content is a "string", a *)
(* sequence of "blocks", or "other".  Texts, images, ids and names are     *)
(* numbers.  The turns are read one at a time; a request ends when the     *)
(* client's array does.                                                    *)
(***************************************************************************)
EXTENDS ResponsesFilters, SequencesExt

CONSTANTS
    Shapes,      \* requests: [endpoint, slashes, version, body]
    Chains,      \* {"native", "openai"}: the filter chains configured
    OnInvalid,   \* "continue" or "reject"
    Systems,     \* `system`: sequences of texts; <<>> when absent or unusable
    ToolLists,   \* `tools`: sequences of [kind, name], or NoTools
    ToolChoices, \* `tool_choice`: [type, name], or NoChoice
    Turns,       \* the turns a conversation may hold
    MaxTurns, MaxBlocks,
    Replies,     \* what a backend may answer
    NoTools, NoChoice, None

VARIABLES req, stage, meta, version, turns, chat, reply, client

vars == <<req, stage, meta, version, turns, chat, reply, client>>

-----------------------------------------------------------------------------
(* anthropic_messages_format, anthropic_validate *)

\* is_anthropic_messages_path: one trailing slash is stripped
IsAnthropicMessagesPath(r) == r.endpoint = "messages" /\ r.slashes <= 1

\* Only a Chat Completions shape is promoted by header or path
PromoteUnknown(r) ==
    LET c == ClassifyRequestBody(r.body) IN
    IF c.format # "openai_responses" /\ (r.version \/ IsAnthropicMessagesPath(r))
    THEN [c EXCEPT !.format = "anthropic_messages"] ELSE c
Promote(r) ==
    LET c == ClassifyRequestBody(r.body) IN
    IF c.format = "openai_chat_completions" /\ (r.version \/ IsAnthropicMessagesPath(r))
    THEN [c EXCEPT !.format = "anthropic_messages"] ELSE c

\* write_metadata and promote_headers: the facts, names only when safe
FormatFacts(c) ==
    [format |-> c.format, stream |-> c.stream,
     model  |-> IF c.model = "unsafe" THEN "none" ELSE c.model,
     header |-> IF c.model \in {"unsafe", "long"} THEN "none" ELSE c.model]

\* validate_request
ValidEnvelope(b) == b.kind = "object"

-----------------------------------------------------------------------------
(* anthropic_to_openai, request.rs *)

TextPart(t) == [type |-> "text", v |-> t]
ImagePart(i) == [type |-> "image_url", v |-> i]
Text(role, ts) == [role |-> role, kind |-> "string", parts |-> ts,
                   calls |-> <<>>, id |-> None]
Parts(role, ps) == [role |-> role, kind |-> "parts", parts |-> ps,
                    calls |-> <<>>, id |-> None]
Values(ps) == [k \in DOMAIN ps |-> ps[k].v]

\* What convert_content_blocks accumulates for one message
NoParts == [messages |-> <<>>, content_parts |-> <<>>, tool_calls |-> <<>>]
TextParts(acc) == SelectSeq(acc.content_parts, LAMBDA p : p.type = "text")

\* flush_text_parts: one text is a string, anything else an array
FlushTextParts(acc, role) ==
    IF acc.content_parts = <<>> THEN acc
    ELSE [acc EXCEPT !.content_parts = <<>>,
             !.messages = Append(@,
                 IF Len(acc.content_parts) = 1 /\ TextParts(acc) # <<>>
                 THEN Text(role, Values(acc.content_parts))
                 ELSE Parts(role, acc.content_parts))]

\* convert_tool_result_block: a tool message, and a user message for its
\* images
ToolResultMessages(b) ==
    <<[role |-> "tool", kind |-> "string", parts |-> b.texts,
       calls |-> <<>>, id |-> b.id]>>
    \o (IF b.images = <<>> THEN <<>>
        ELSE <<Parts("user", [k \in DOMAIN b.images |-> ImagePart(b.images[k])])>>)

\* convert_tool_use_block
ToolCall(b) == [id |-> b.id, name |-> b.name, args |-> b.args]

\* convert_single_block; an image whose source cannot be read (v = None), a
\* thinking block and an unknown type leave nothing
ConvertResultUnflushed(acc, b, role) ==
    CASE b.type = "text" -> [acc EXCEPT !.content_parts = Append(@, TextPart(b.v))]
      [] b.type = "image" /\ b.v # None ->
            [acc EXCEPT !.content_parts = Append(@, ImagePart(b.v))]
      [] b.type = "tool_use" -> [acc EXCEPT !.tool_calls = Append(@, ToolCall(b))]
      [] b.type = "tool_result" ->
            [acc EXCEPT !.messages = @ \o ToolResultMessages(b)]
      [] OTHER -> acc
ConvertSingleBlock(acc, b, role) ==
    CASE b.type = "text" -> [acc EXCEPT !.content_parts = Append(@, TextPart(b.v))]
      [] b.type = "image" /\ b.v # None ->
            [acc EXCEPT !.content_parts = Append(@, ImagePart(b.v))]
      [] b.type = "tool_use" -> [acc EXCEPT !.tool_calls = Append(@, ToolCall(b))]
      [] b.type = "tool_result" ->
            [FlushTextParts(acc, role) EXCEPT !.messages = @ \o ToolResultMessages(b)]
      [] OTHER -> acc

\* finalize_content_blocks: an assistant's calls go out with the texts left;
\* calls of another role, and images beside calls, are dropped
FinalizeContentBlocks(acc, role) ==
    IF role = "assistant" /\ acc.tool_calls # <<>>
    THEN Append(acc.messages,
            [role |-> role, kind |-> IF TextParts(acc) = <<>> THEN "none" ELSE "string",
             parts |-> Values(TextParts(acc)), calls |-> acc.tool_calls, id |-> None])
    ELSE FlushTextParts(acc, role).messages

ConvertContentBlocks(role, blocks) ==
    FinalizeContentBlocks(
        FoldLeft(LAMBDA acc, b : ConvertSingleBlock(acc, b, role), NoParts, blocks),
        role)

\* convert_messages for one message; one without a role is skipped
ConvertTurn(t) ==
    CASE t.role = None         -> <<>>
      [] t.kind = "string"     -> <<Text(t.role, t.blocks)>>
      [] t.kind = "blocks"     -> ConvertContentBlocks(t.role, t.blocks)
      [] OTHER                 -> <<Text(t.role, <<>>)>>

\* hoist_system
HoistSystem(s) == IF s = <<>> THEN <<>> ELSE <<Text("system", s)>>

\* convert_tools: server-side tools are dropped
ConvertTools(tools) ==
    IF tools = NoTools THEN <<>>
    ELSE SelectSeq(tools, LAMBDA t : t.kind = "custom")

ChoiceWithoutTools(tools, choice) ==
    IF choice = NoChoice THEN None
    ELSE [type |-> IF choice.type = "any" THEN "required" ELSE "auto", name |-> None]
\* convert_tool_choice; `tools` given and all dropped drops the choice
ConvertToolChoice(tools, choice) ==
    IF choice = NoChoice \/ (tools # NoTools /\ ConvertTools(tools) = <<>>) THEN None
    ELSE [type |-> CASE choice.type = "any"  -> "required"
                     [] choice.type = "none" -> "none"
                     [] choice.type = "tool" /\ choice.name # None -> "function"
                     [] OTHER -> "auto",
          name |-> IF choice.type = "tool" THEN choice.name ELSE None]

-----------------------------------------------------------------------------
(* anthropic_to_openai, response.rs *)

MapFinishReason(f) ==
    CASE f = "tool_calls" -> "tool_use"
      [] f = "length"     -> "max_tokens"
      [] OTHER            -> "end_turn"

\* build_content_blocks: the text, then the calls of the first choice;
\* arguments that do not parse become an empty object ({} is 0)
BuildCallsOnly(choice) ==
    IF choice = NoChoice THEN <<>>
    ELSE [k \in DOMAIN choice.calls |->
             [type |-> "tool_use", id |-> choice.calls[k].id,
              name |-> choice.calls[k].name, args |-> 0]]
BuildContentBlocks(choice) ==
    IF choice = NoChoice THEN <<>>
    ELSE (IF choice.content \in {None, <<>>} THEN <<>>
          ELSE <<[type |-> "text", v |-> choice.content]>>)
         \o [k \in DOMAIN choice.calls |->
               [type |-> "tool_use", id |-> choice.calls[k].id,
                name |-> choice.calls[k].name,
                args |-> IF choice.calls[k].args = None THEN 0
                         ELSE choice.calls[k].args]]

\* build_usage: counts default to 0, the cached count is left out when absent
BuildUsage(u) ==
    [input |-> IF u.prompt = None THEN 0 ELSE u.prompt,
     output |-> IF u.completion = None THEN 0 ELSE u.completion,
     cache_read |-> u.cached]

\* transform_response
TransformResponse(r, request_model) ==
    [format |-> "anthropic",
     id |-> IF r.id = None THEN "timestamp" ELSE "prefixed",
     model |-> IF r.model = None THEN request_model ELSE r.model,
     content |-> BuildContentBlocks(r.choice),
     stop_reason |-> MapFinishReason(IF r.choice = NoChoice THEN "stop"
                                     ELSE r.choice.finish),
     usage |-> BuildUsage(r.usage)]

\* transform_non_streaming_body: a body that is empty or not an object stays
TransformNonStreamingBody(r, request_model) ==
    IF r.kind = "object" THEN TransformResponse(r, request_model)
    ELSE [format |-> "upstream"]

\* should_transform_response, asked again for the body
ShouldTransformAlways(streaming, r) == r.success
ShouldTransform(streaming, r) == ~streaming /\ r.success

\* should_arm of anthropic_stream_events: either filter's metadata says the
\* request streams
ShouldArm(m, r) == (m.facts.stream = "true" \/ m.streaming) /\ r.sse /\ r.success

-----------------------------------------------------------------------------
Init ==
    /\ \E s \in Shapes, c \in Chains, y \in Systems, t \in ToolLists, ch \in ToolChoices :
          req = [shape |-> s, chain |-> c, system |-> y, tools |-> t, choice |-> ch]
    /\ stage = "format"
    /\ meta = [facts |-> None, streaming |-> FALSE, model |-> "none",
               finish_reason |-> None]
    /\ version = IF req.shape.version THEN "client" ELSE "none"
    /\ turns = <<>> /\ chat = None /\ reply = None /\ client = None

Reject(filter) ==
    /\ stage' = "done" /\ client' = [from |-> filter, status |-> 400]
    /\ UNCHANGED <<req, meta, version, turns, chat, reply>>

\* anthropic_messages_format, on_request_body
Format ==
    /\ stage = "format"
    /\ LET c == Promote(req.shape) IN
       IF HandleInvalidFormat(c.format, OnInvalid) THEN Reject("format")
       ELSE /\ stage' = "validate"
            /\ meta' = [meta EXCEPT !.facts = FormatFacts(c)]
            /\ UNCHANGED <<req, version, turns, chat, reply, client>>

\* anthropic_validate, on_request_body
Validate ==
    /\ stage = "validate"
    /\ IF ~ValidEnvelope(req.shape.body) THEN Reject("validate")
       ELSE /\ stage' = req.chain
            /\ UNCHANGED <<req, meta, version, turns, chat, reply, client>>

\* anthropic_messages_protocol, on_request
InjectVersion ==
    /\ stage = "native" /\ stage' = "backend"
    /\ version' = IF version = "none" THEN "default" ELSE version
    /\ UNCHANGED <<req, meta, turns, chat, reply, client>>

\* anthropic_to_openai, extract_request_metadata
ExtractRequestMetadata ==
    /\ stage = "openai" /\ stage' = "messages"
    /\ meta' = [meta EXCEPT !.streaming = req.shape.body.stream = "true",
                            !.model = req.shape.body.model]
    /\ version' = "none"
    /\ chat' = [messages |-> HoistSystem(req.system), tools |-> <<>>,
                tool_choice |-> None, parallel |-> TRUE]
    /\ UNCHANGED <<req, turns, reply, client>>

BlocksOf(t) == IF t.kind = "blocks" THEN Len(t.blocks) ELSE 1

\* The loop of convert_messages: the next message of the array
ConvertMessages(t) ==
    /\ stage = "messages" /\ Len(turns) < MaxTurns
    /\ FoldLeft(LAMBDA n, u : n + BlocksOf(u), BlocksOf(t), turns) <= MaxBlocks
    /\ turns' = Append(turns, t)
    /\ chat' = [chat EXCEPT !.messages = @ \o ConvertTurn(t)]
    /\ UNCHANGED <<req, stage, meta, version, reply, client>>

\* The rest of transform_request
ConvertParameters ==
    /\ stage = "messages" /\ stage' = "backend"
    /\ chat' = [chat EXCEPT
          !.tools = ConvertTools(req.tools),
          !.tool_choice = ConvertToolChoice(req.tools, req.choice),
          !.parallel = ~(req.choice # NoChoice /\ req.choice.no_parallel)]
    /\ UNCHANGED <<req, meta, version, turns, reply, client>>

BackendReplies(r) ==
    /\ stage = "backend" /\ reply' = r
    /\ stage' = "response"
    /\ UNCHANGED <<req, meta, version, turns, chat, client>>

\* on_response and on_response_body of anthropic_to_openai, and on_response
\* of anthropic_stream_events.  A reply that cannot be transformed, an error
\* and a native reply go on as they are.
OnResponse ==
    /\ stage = "response" /\ stage' = "done"
    /\ LET openai  == req.chain = "openai"
           buffer  == openai /\ ShouldTransform(meta.streaming, reply)
           arm     == openai /\ ShouldArm(meta, reply)
           convert == buffer /\ reply.kind = "object" IN
       /\ client' = [from |-> "backend", status |-> IF reply.success THEN 200 ELSE 500,
                     buffered |-> buffer, armed |-> arm,
                     body |-> IF buffer THEN TransformNonStreamingBody(reply, meta.model)
                              ELSE [format |-> "upstream"]]
       /\ meta' = [meta EXCEPT !.finish_reason =
                     IF convert THEN (IF reply.choice = NoChoice THEN "stop"
                                      ELSE reply.choice.finish)
                     ELSE @]
    /\ UNCHANGED <<req, version, turns, chat, reply>>

Done == stage = "done" /\ UNCHANGED vars

Next ==
    \/ Format \/ Validate \/ InjectVersion \/ ExtractRequestMetadata
    \/ \E t \in Turns : ConvertMessages(t)
    \/ ConvertParameters
    \/ \E r \in Replies : BackendReplies(r)
    \/ OnResponse \/ Done

Spec == Init /\ [][Next]_vars

-----------------------------------------------------------------------------
(* Properties *)

\* Turns an Anthropic client sends: calls by the assistant, images and
\* results by the user
LegalTurn(t) ==
    t.role # None /\ (t.kind = "blocks" =>
        \A k \in DOMAIN t.blocks :
            LET b == t.blocks[k] IN
            \/ b.type \in {"text", "thinking"}
            \/ t.role = "assistant" /\ b.type = "tool_use"
            \/ t.role = "user" /\ b.type \in {"image", "tool_result"})

Atom(role, what, v) == <<role, what, v>>
Flat(ss) == FoldLeft(LAMBDA a, s : a \o s, <<>>, ss)

\* What a turn says, in order; an assistant's calls after its texts
Says(t) ==
    LET b(k) == t.blocks[k]
        one(x) ==
          CASE x.type = "text" -> <<Atom(t.role, "text", x.v)>>
            [] x.type = "image" /\ x.v # None -> <<Atom(t.role, "image", x.v)>>
            [] x.type = "tool_result" ->
                 <<Atom("tool", "result", x.id)>>
                 \o [k \in DOMAIN x.images |-> Atom("user", "image", x.images[k])]
            [] OTHER -> <<>>
        calls == SelectSeq(t.blocks, LAMBDA x : x.type = "tool_use")
    IN  IF t.kind # "blocks" THEN [k \in DOMAIN t.blocks |-> Atom(t.role, "text", t.blocks[k])]
        ELSE Flat([k \in DOMAIN t.blocks |-> one(b(k))])
             \o [k \in DOMAIN calls |-> Atom("assistant", "call", calls[k].id)]

\* What a Chat Completions message says
ChatSays(m) ==
    (CASE m.role = "tool"     -> <<Atom("tool", "result", m.id)>>
       [] m.kind = "string"   -> [k \in DOMAIN m.parts |-> Atom(m.role, "text", m.parts[k])]
       [] m.kind = "parts"    -> [k \in DOMAIN m.parts |->
             Atom(m.role, IF m.parts[k].type = "text" THEN "text" ELSE "image",
                  m.parts[k].v)]
       [] OTHER -> <<>>)
    \o [k \in DOMAIN m.calls |-> Atom(m.role, "call", m.calls[k].id)]

\* convert_content_blocks: the messages sent to the backend say what the
\* conversation says, each text, image, call and result once and in order,
\* however results, texts and images are mixed in the blocks of a turn.
ConversationKept ==
    (stage = "backend" /\ chat # None
        /\ \A k \in DOMAIN turns : LegalTurn(turns[k]))
    => LET sys == Len(HoistSystem(req.system))
           sent == SubSeq(chat.messages, sys + 1, Len(chat.messages)) IN
       Flat([k \in DOMAIN sent |-> ChatSays(sent[k])])
         = Flat([k \in DOMAIN turns |-> Says(turns[k])])

\* The tool calls of a reply survive the client's next turn: sent back as an
\* assistant turn, the transformed reply is the message the backend gave
\* (arguments that were not JSON excepted).
ReplyRoundTrips ==
    (stage = "done" /\ client.from = "backend" /\ client.body.format = "anthropic"
        /\ reply.choice # NoChoice)
    => LET back == ConvertContentBlocks("assistant", client.body.content)
           ch == reply.choice IN
       IF ch.calls = <<>> /\ ch.content \in {None, <<>>} THEN back = <<>>
       ELSE /\ Len(back) = 1
            /\ back[1].parts = (IF ch.content \in {None, <<>>} THEN <<>>
                                ELSE <<ch.content>>)
            /\ [k \in DOMAIN back[1].calls |-> <<back[1].calls[k].id, back[1].calls[k].name>>]
                 = [k \in DOMAIN ch.calls |-> <<ch.calls[k].id, ch.calls[k].name>>]
            /\ \A k \in DOMAIN ch.calls :
                  ch.calls[k].args \in {None, back[1].calls[k].args}

\* should_transform_response and should_arm: a reply of the backend is
\* translated by at most one of the two filters, a successful event stream
\* that was asked for is never buffered, and a successful JSON reply to a
\* request that does not stream never reaches the client in the Chat
\* Completions form.
OneTranslator ==
    (stage = "done" /\ client.from = "backend" /\ req.chain = "openai") =>
        /\ ~(client.buffered /\ client.armed)
        /\ (req.shape.body.stream = "true" /\ reply.sse /\ reply.success)
              => client.armed
        /\ (req.shape.body.stream # "true" /\ reply.success /\ reply.kind = "object")
              => client.body.format = "anthropic"

\* convert_tools and convert_tool_choice: a client that demands a tool gets
\* that demand through exactly when a tool of its own is offered (or it
\* offered none at all), and no server-side tool is offered.
DemandFollowsTools ==
    (stage = "backend" /\ chat # None) =>
        /\ \A k \in DOMAIN chat.tools : chat.tools[k].kind = "custom"
        /\ (req.choice # NoChoice /\ req.choice.type = "any" /\ req.tools # NoTools)
              => ((chat.tools # <<>>) <=> (chat.tool_choice # None
                                            /\ chat.tool_choice.type = "required"))

\* The classifier and the path or header decide the format, and only a body
\* with messages is ever called Anthropic; a Responses body never is.
PromotionNeedsMessages ==
    (meta.facts # None /\ meta.facts.format = "anthropic_messages") =>
        /\ req.shape.body.messages # "absent"
        /\ req.shape.body.input = "absent"
=============================================================================
