-------------------------- MODULE MCChatTranslation --------------------------
(* Values for ChatTranslation. *)
EXTENDS Integers, Sequences

CONSTANTS Blank, None

NoContent == [kind |-> "absent", parts |-> <<>>]
Part(t, v) == [type |-> t, v |-> v]
OfParts(ps) == [kind |-> "parts", parts |-> ps]
MCItem(type, role, content, id, name, args) ==
    [type |-> type, role |-> role, content |-> content, id |-> id,
     name |-> name, args |-> args]

MCItems ==
    {MCItem("message", "user", [kind |-> "string", parts |-> <<Part("text", 1)>>], None, None, None),
     MCItem("untyped", None, OfParts(<<Part("text", 2), Part("text", None), Part("image", 3)>>),
            None, None, None),
     MCItem("message", "assistant", OfParts(<<Part("text", 4), Part("text", Blank)>>), None, None, None),
     MCItem("function_call", None, NoContent, 1, 2, 3),
     MCItem("function_call", None, NoContent, None, 2, 3),
     MCItem("function_call_output", None, NoContent, 1, None, 5),
     MCItem("function_call_output", None, NoContent, 2, None, Blank),
     MCItem("junk", None, NoContent, None, None, None)}

\* Items no Chat Completions request can hold, and those they are mixed with
MCBadItems ==
    {MCItem("message", "user", OfParts(<<Part("text", 1), Part("file", None)>>), None, None, None),
     MCItem("message", "user", OfParts(<<Part("audio", 1), Part("image", 1)>>), None, None, None),
     MCItem("reasoning", None, NoContent, None, None, None),
     MCItem("untyped", None, NoContent, None, None, None),
     MCItem("function_call", None, NoContent, 1, 2, 3),
     MCItem("message", "user", OfParts(<<Part("file", 1)>>), None, None, None)}

Reply(texts, refusal, calls, finish, logprobs) ==
    [choice |-> TRUE, finish |-> finish, texts |-> texts, refusal |-> refusal,
     calls |-> calls, logprobs |-> logprobs, tier |-> FALSE,
     usage |-> [f \in {"input", "output", "total", "cached", "reasoning"} |-> None]]
MCCall(id, name) == [id |-> id, name |-> name, args |-> 9]

MCReplies ==
    {Reply(<<11>>, None, <<>>, "stop", TRUE),
     Reply(<<Blank, 12, 13>>, Blank, <<MCCall(7, 8)>>, "tool_calls", TRUE),
     Reply(<<Blank>>, None, <<MCCall(7, None), MCCall(None, 8)>>, "length", TRUE),
     Reply(<<14>>, 15, <<>>, "content_filter", FALSE),
     [Reply(<<>>, None, <<>>, "none", FALSE) EXCEPT !.choice = FALSE]}

\* One reply of each tier
MCTiers == {[r EXCEPT !.tier = t] : r \in {Reply(<<11>>, None, <<>>, "stop", TRUE)},
                                    t \in BOOLEAN}

\* The settings a request may carry, and reasoning.effort
RequestFields ==
    {"temperature", "top_p", "presence_penalty", "frequency_penalty",
     "parallel_tool_calls", "prompt_cache_key", "service_tier",
     "max_output_tokens", "top_logprobs", "reasoning_effort"}
AllAbsent == [f \in RequestFields |-> "absent"]
MCAbsent == {AllAbsent}
\* Any two fields given, each well or badly
MCSettings ==
    {[AllAbsent EXCEPT ![f] = v, ![g] = w] :
        f \in RequestFields, g \in RequestFields, v \in {"good", "bad"}, w \in {"good", "bad"}}
MCInstructions == {1, Blank, None}
MCNoInstructions == {1}
MCToolLists ==
    {<<>>, <<"function", "junk">>, <<"function", "untyped">>, <<"function", "hosted">>}
MCOneItem == {MCItem("message", "user", OfParts(<<Part("text", 1)>>), None, None, None)}
=============================================================================
