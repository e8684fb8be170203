--------------------------- MODULE ChatTranslation ---------------------------
(***************************************************************************)
(* translation/chat_completions.rs: a Responses request becomes a Chat     *)
(* Completions request, and the provider's reply a Responses resource.     *)
(*                                                                         *)
(* The two translators are put in the loop they are written for: a client  *)
(* that keeps the conversation itself, adding to its input what it has to  *)
(* say and then every output item of each response it gets.                *)
(*                                                                         *)
(* Texts, urls, ids and names are numbers; Blank is the empty string.  An  *)
(* input item is [type, role, content, id, name, args], content is         *)
(* [kind, parts], a part is [type, v]; None is a field that is missing.    *)
(***************************************************************************)
EXTENDS Integers, FiniteSets, SequencesExt

CONSTANTS
    Items,        \* the items a client may write itself
    Instructions, \* `instructions`: texts, Blank or None
    Settings,     \* functions from RequestFields to {"absent", "good", "bad"}
    Formats,      \* `text.format`: "none", "text", "json_object", "json_schema"
    ToolLists,    \* sequences of "function", "junk" (no object), "untyped" (an
                  \* object without a type) and other types
    ToolChoices,  \* "none", "string", "function", "allowed", "hosted"
    Replies,      \* what the provider may answer
    MaxInput, MaxReplies,
    Blank, None

VARIABLES phase, request, input, chat, answer, resource, dialogue, replies

vars == <<phase, request, input, chat, answer, resource, dialogue, replies>>

SettingNames == {"temperature", "top_p", "presence_penalty", "frequency_penalty",
                 "parallel_tool_calls", "prompt_cache_key", "service_tier",
                 "max_output_tokens", "top_logprobs"}
RequestFields == SettingNames \cup {"reasoning_effort"}

-----------------------------------------------------------------------------
(* Request translation *)

NonBlank(ps) == SelectSeq(ps, LAMBDA p : p.v # Blank)

\* ConvertedContentParts::push: the part it adds, if any, and whether the
\* type and its fields are supported
PushPart(part) ==
    CASE part.type = "text" /\ part.v = None -> [ok |-> TRUE, out |-> <<>>]
      [] part.type \in {"text", "image", "file"} ->
            [ok |-> part.v # None, out |-> <<part>>]
      [] OTHER -> [ok |-> FALSE, out |-> <<>>]

\* convert_input_content: text-only parts collapse to one string, whose
\* pieces the model keeps apart
ConvertInputContent(content) ==
    IF content.kind # "parts"
    THEN [ok |-> TRUE, kind |-> "string", parts |-> content.parts]
    ELSE LET pushed == [k \in DOMAIN content.parts |-> PushPart(content.parts[k])]
             out == FoldLeft(LAMBDA acc, p : acc \o p.out, <<>>, pushed)
         IN [ok    |-> \A k \in DOMAIN pushed : pushed[k].ok,
             kind  |-> IF \A k \in DOMAIN out : out[k].type = "text"
                       THEN "string" ELSE "parts",
             parts |-> out]

Message(role, kind, parts, calls, id) ==
    [role |-> role, kind |-> kind, parts |-> parts, calls |-> calls, id |-> id]

\* function_call_tool_call: a call without an id or a name is dropped
FunctionCallToolCall(item) ==
    IF item.id = None \/ item.name = None THEN <<>>
    ELSE <<[id |-> item.id, name |-> item.name, args |-> item.args]>>

\* flush_pending_function_calls
FlushKeepingPending(acc) ==
    IF acc.pending = <<>> THEN acc
    ELSE [acc EXCEPT !.messages =
             Append(@, Message("assistant", "none", <<>>, acc.pending, None))]
Flush(acc) ==
    IF acc.pending = <<>> THEN acc
    ELSE [acc EXCEPT !.pending = <<>>,
             !.messages = Append(@, Message("assistant", "none", <<>>, acc.pending, None))]

\* append_input_item on an item that is no function call
AppendInputItem(acc, item) ==
    LET converted == ConvertInputContent(item.content)
        role == IF item.role = None THEN "user" ELSE item.role
    IN CASE item.type = "junk" -> acc
         [] item.type = "function_call_output" ->
               IF item.id = None THEN acc
               ELSE [acc EXCEPT !.messages = Append(@,
                        Message("tool", "string", <<[type |-> "text", v |-> item.args]>>,
                                <<>>, item.id))]
         [] item.type = "message"
            \/ (item.type = "untyped" /\ (item.role # None \/ item.content.kind # "absent")) ->
               [acc EXCEPT !.ok = @ /\ converted.ok,
                   !.messages = Append(@,
                        Message(role, converted.kind, converted.parts, <<>>, None))]
         [] OTHER -> [acc EXCEPT !.ok = FALSE]

\* append_input_item_sequence; nothing is appended after an error
AppendItem(acc, item) ==
    IF ~acc.ok THEN acc
    ELSE IF item.type = "function_call"
    THEN [acc EXCEPT !.pending = @ \o FunctionCallToolCall(item)]
    ELSE AppendInputItem(Flush(acc), item)
AppendInputItemSequence(messages, items) ==
    Flush(FoldLeft(AppendItem, [ok |-> TRUE, messages |-> messages, pending |-> <<>>], items))

\* build_chat_messages
SystemMessages(instructions) ==
    IF instructions \in {None, Blank} THEN <<>>
    ELSE <<Message("system", "string", <<[type |-> "text", v |-> instructions]>>, <<>>, None)>>
BuildChatMessages(r, items) ==
    AppendInputItemSequence(SystemMessages(r.instructions), items)

\* build_chat_tools: a tool that is no object is skipped, any but a function
\* is an error
SkipUnsupportedTools(tools) ==
    [ok |-> TRUE, tools |-> SelectSeq(tools, LAMBDA t : t = "function")]
BuildChatTools(tools) ==
    LET objects == SelectSeq(tools, LAMBDA t : t # "junk")
    IN [ok |-> \A k \in DOMAIN objects : objects[k] = "function", tools |-> objects]

\* build_chat_tool_choice; a choice of a hosted tool is dropped
BuildChatToolChoice(choice) == IF choice = "hosted" THEN "none" ELSE choice

\* build_allowed_tools_choice: an entry of another type than function is an
\* error, one without a type is passed through, be it an object or not
SkipAllowedTools(r) ==
    IF r.choice # "allowed" THEN [ok |-> TRUE, tools |-> <<>>]
    ELSE [ok |-> TRUE, tools |-> SelectSeq(r.allowed, LAMBDA t : t # "hosted")]
BuildAllowedToolsChoice(r) ==
    IF r.choice # "allowed" THEN [ok |-> TRUE, tools |-> <<>>]
    ELSE [ok    |-> \A k \in DOMAIN r.allowed :
                       r.allowed[k] \in {"function", "junk", "untyped"},
          tools |-> r.allowed]

\* The settings sent on, whatever their type; top_logprobs turns logprobs on
ForgetTopP(settings) ==
    [f \in RequestFields \cup {"logprobs"} |->
        IF f \in {"logprobs", "top_p"} THEN "absent" ELSE settings[f]]
CopyFields(settings) ==
    [f \in RequestFields \cup {"logprobs"} |->
        IF f = "logprobs"
        THEN IF settings["top_logprobs"] = "absent" THEN "absent" ELSE "good"
        ELSE settings[f]]

\* map_text_format: any other format is left to the provider's default
MapTextFormat(format) ==
    IF format \in {"json_object", "json_schema"} THEN format ELSE "none"

\* responses_request_to_chat_request
ChatRequest(r, items) ==
    LET built == BuildChatMessages(r, items)
        tools == BuildChatTools(r.tools)
        allowed == BuildAllowedToolsChoice(r)
    IN [ok       |-> built.ok /\ tools.ok /\ allowed.ok,
        messages |-> built.messages,
        tools    |-> tools.tools,
        choice   |-> BuildChatToolChoice(r.choice),
        allowed  |-> allowed.tools,
        format   |-> MapTextFormat(r.format),
        settings |-> CopyFields(r.settings)]

-----------------------------------------------------------------------------
(* Response translation.  A reply is [choices, finish, texts, refusal,     *)
(* calls, logprobs, tier, usage]; `texts` are those of the first choice.   *)

\* response_status, incomplete_details
ResponseStatus(finish) ==
    IF finish \in {"length", "content_filter"} THEN "incomplete" ELSE "completed"
IncompleteDetails(finish) ==
    CASE finish = "length"         -> "max_output_tokens"
      [] finish = "content_filter" -> "content_filter"
      [] OTHER                     -> "null"

\* output_text_items: blank texts are dropped, the first of the others gets
\* the log probabilities
LogprobsByPosition(reply) ==
    SelectSeq([k \in DOMAIN reply.texts |->
                 [type |-> "text", v |-> reply.texts[k], logprobs |-> k = 1 /\ reply.logprobs]],
              LAMBDA p : p.v # Blank)
OutputTextItems(reply) ==
    LET texts == SelectSeq(reply.texts, LAMBDA t : t # Blank)
    IN [k \in DOMAIN texts |->
          [type |-> "text", v |-> texts[k], logprobs |-> k = 1 /\ reply.logprobs]]

\* message_content_items
MessageContentItems(reply) ==
    OutputTextItems(reply)
    \o (IF reply.refusal \in {None, Blank} THEN <<>>
        ELSE <<[type |-> "refusal", v |-> reply.refusal, logprobs |-> FALSE]>>)

OutputItem(type, status, parts, id, name, args) ==
    [type |-> type, role |-> IF type = "message" THEN "assistant" ELSE None,
     content |-> [kind |-> IF type = "message" THEN "parts" ELSE "absent", parts |-> parts],
     id |-> id, name |-> name, args |-> args, status |-> status]

\* append_message_output
AppendMessageOutput(reply, status) ==
    LET parts == MessageContentItems(reply)
    IN IF parts = <<>> THEN <<>>
       ELSE <<OutputItem("message", status, parts, None, None, None)>>

\* function_call_output_item: an id or a name that is missing becomes ""
OrBlank(v) == IF v = None THEN Blank ELSE v
FunctionCallOutputItem(call, status) ==
    OutputItem("function_call", status, <<>>, OrBlank(call.id), OrBlank(call.name), call.args)

\* build_output_items
BuildOutputItems(reply, status) ==
    IF ~reply.choice THEN <<>>
    ELSE AppendMessageOutput(reply, status)
         \o [k \in DOMAIN reply.calls |-> FunctionCallOutputItem(reply.calls[k], status)]

\* build_usage: every count that is missing is 0
BuildUsage(usage) ==
    [f \in {"input", "output", "total", "cached", "reasoning"} |->
        IF usage[f] = None THEN 0 ELSE usage[f]]

\* from_responses_request with response_resource: a setting is echoed when it
\* has its type; service_tier and prompt_cache_key have none
Echo(settings, reply) ==
    [f \in SettingNames |->
        CASE f = "service_tier" /\ reply.tier -> "provider"
          [] settings[f] = "good" -> "good"
          [] settings[f] = "bad" /\ f \in {"service_tier", "prompt_cache_key"} -> "bad"
          [] OTHER -> "default"]

\* chat_response_to_response_resource
ResponseResource(r, reply) ==
    LET finish == IF reply.choice THEN reply.finish ELSE "none"
        status == ResponseStatus(finish)
    IN [status  |-> status,
        details |-> IncompleteDetails(finish),
        output  |-> BuildOutputItems(reply, status),
        usage   |-> BuildUsage(reply.usage),
        echo    |-> Echo(r.settings, reply)]

-----------------------------------------------------------------------------
(* The dialogue, as its two sides hold it: who said what, who called what, *)
(* and what a call returned.  This is the reference the translators are    *)
(* compared with.                                                          *)

Say(role, parts) == [who |-> role, parts |-> NonBlank(parts), call |-> <<>>]
Call(id, name, args) == [who |-> "assistant", parts |-> <<>>, call |-> <<id, name, args>>]

\* What an item the client writes adds to the dialogue
ItemEvents(item) ==
    CASE item.type = "function_call" ->
           IF item.id = None \/ item.name = None THEN <<>>
           ELSE <<Call(item.id, item.name, item.args)>>
      [] item.type = "function_call_output" ->
           IF item.id = None THEN <<>>
           ELSE <<[who |-> "tool", parts |-> NonBlank(<<[type |-> "text", v |-> item.args]>>),
                   call |-> <<item.id>>]>>
      [] item.type = "junk" -> <<>>
      [] OTHER -> <<Say(IF item.role = None THEN "user" ELSE item.role,
                        SelectSeq(item.content.parts, LAMBDA p : p.v # None))>>

\* What a reply adds to it
ReplyEvents(reply) ==
    IF ~reply.choice THEN <<>>
    ELSE LET said == SelectSeq(reply.texts, LAMBDA t : t # Blank)
             parts == [k \in DOMAIN said |-> [type |-> "text", v |-> said[k]]]
         IN (IF parts = <<>> THEN <<>> ELSE <<Say("assistant", parts)>>)
            \o [k \in DOMAIN reply.calls |->
                  Call(OrBlank(reply.calls[k].id), OrBlank(reply.calls[k].name),
                       reply.calls[k].args)]

\* The dialogue a provider reads in Chat messages
Plain(parts) == [k \in DOMAIN parts |-> [type |-> parts[k].type, v |-> parts[k].v]]
MessageEvents(m) ==
    IF m.calls # <<>>
    THEN [k \in DOMAIN m.calls |-> Call(m.calls[k].id, m.calls[k].name, m.calls[k].args)]
    ELSE <<[who |-> m.role, parts |-> NonBlank(Plain(m.parts)),
            call |-> IF m.role = "tool" THEN <<m.id>> ELSE <<>>]>>
Heard(messages) == FoldLeft(LAMBDA acc, m : acc \o MessageEvents(m), <<>>, messages)

-----------------------------------------------------------------------------
Init ==
    /\ phase = "compose"
    /\ request \in [instructions : Instructions, settings : Settings,
                    format : Formats, tools : ToolLists, allowed : ToolLists,
                    choice : ToolChoices]
    /\ input = <<>> /\ chat = None /\ answer = None /\ resource = None
    /\ dialogue = <<>> /\ replies = 0

\* The client adds an item of its own to the input
Write(item) ==
    /\ phase = "compose" /\ Len(input) < MaxInput
    /\ input' = Append(input, item)
    /\ dialogue' = dialogue \o ItemEvents(item)
    /\ UNCHANGED <<phase, request, chat, answer, resource, replies>>

\* The request is translated; an error reaches the client instead
Send ==
    /\ phase = "compose" /\ replies < MaxReplies
    /\ chat' = ChatRequest(request, input)
    /\ phase' = IF chat'.ok THEN "sent" ELSE "rejected"
    /\ UNCHANGED <<request, input, answer, resource, dialogue, replies>>

\* The provider answers and its reply is translated
Answer(reply) ==
    /\ phase = "sent"
    /\ answer' = reply
    /\ resource' = ResponseResource(request, reply)
    /\ dialogue' = dialogue \o ReplyEvents(reply)
    /\ replies' = replies + 1
    /\ phase' = "answered"
    /\ UNCHANGED <<request, input, chat>>

\* The client appends the response's output to its input
Continue ==
    /\ phase = "answered"
    /\ input' = input \o resource.output
    /\ phase' = "compose"
    /\ UNCHANGED <<request, chat, answer, resource, dialogue, replies>>

Next ==
    \/ \E item \in Items : Write(item)
    \/ Send
    \/ \E reply \in Replies : Answer(reply)
    \/ Continue

Spec == Init /\ [][Next]_vars

-----------------------------------------------------------------------------
\* A provider that is asked at all is told the whole dialogue: the system
\* text, then everything the client wrote and everything the provider itself
\* said and called in earlier turns, in order and once, however calls were
\* batched and texts joined on the way out and back.
DialogueKept ==
    phase = "sent" =>
        Heard(chat.messages) = Heard(SystemMessages(request.instructions)) \o dialogue

\* All or nothing: a request with an item, a part, a tool or an allowed tool
\* that Chat Completions cannot express is refused whole, never sent with
\* that part left out; the tools offered and the tools allowed are all there;
\* and a demand for JSON is not left out either.
Supported(item) ==
    /\ item.type \in {"message", "untyped", "function_call", "function_call_output", "junk"}
    /\ item.content.kind = "parts" =>
          \A k \in DOMAIN item.content.parts :
             LET p == item.content.parts[k] IN
             p.type \in {"text", "image", "file"} /\ (p.type = "text" \/ p.v # None)
NothingPartlySent ==
    phase = "sent" =>
        /\ \A k \in DOMAIN input : Supported(input[k])
        /\ \A k \in DOMAIN request.tools : request.tools[k] \in {"function", "junk"}
        /\ Len(chat.tools) = Len(SelectSeq(request.tools, LAMBDA t : t # "junk"))
        /\ request.choice = "allowed" =>
              /\ \A k \in DOMAIN request.allowed : request.allowed[k] # "hosted"
              /\ chat.allowed = request.allowed
        /\ (chat.format = "none") = (request.format \in {"none", "text"})

\* What the client is told of its reply hangs together: a reason exactly when
\* the response is incomplete, the same status on every item, and the log
\* probabilities once, if the provider sent any and there is a text.
ResourceCoherent ==
    phase = "answered" =>
        LET parts == FoldLeft(LAMBDA acc, o : acc \o o.content.parts, <<>>, resource.output)
            withLogprobs == {k \in DOMAIN parts : parts[k].logprobs}
            texts == {k \in DOMAIN parts : parts[k].type = "text"}
        IN /\ (resource.status = "incomplete") = (resource.details # "null")
           /\ \A k \in DOMAIN resource.output : resource.output[k].status = resource.status
           /\ Cardinality(withLogprobs) = IF answer.logprobs /\ texts # {} THEN 1 ELSE 0

\* A setting of SettingNames that the response claims the client made was in
\* force at the provider, and one in force of the right type is reported.
EchoHonest ==
    phase = "answered" =>
        \A f \in SettingNames :
            /\ resource.echo[f] = "good" => chat.settings[f] = "good"
            /\ chat.settings[f] = "good" => resource.echo[f] \in {"good", "provider"}
=============================================================================
