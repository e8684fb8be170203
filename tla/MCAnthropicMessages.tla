------------------------ MODULE MCAnthropicMessages ------------------------
(* Values for AnthropicMessages. *)
EXTENDS Naturals, SequencesExt

CONSTANTS NoTools, NoChoice, None

BoolField == {"absent", "true", "false", "other"}

PlainBody ==
    [kind |-> "object", input |-> "absent", prompt |-> "absent",
     previous_response_id |-> "absent", conversation |-> "absent",
     tools |-> "absent", store |-> "absent", stream |-> "absent",
     background |-> "absent", messages |-> "plain", max_tokens |-> TRUE,
     system |-> FALSE, model |-> "safe"]

Shape(e, s, v, b) == [endpoint |-> e, slashes |-> s, version |-> v, body |-> b]

OneShape == {Shape("messages", 0, TRUE, PlainBody)}
Bodies ==
    {[PlainBody EXCEPT !.kind = k] : k \in {"empty", "invalid", "non_object"}}
    \cup {[PlainBody EXCEPT !.stream = s, !.messages = m, !.model = n,
                            !.input = i, !.system = y] :
            s \in BoolField, m \in {"absent", "plain", "typed"},
            n \in {"none", "safe", "unsafe"}, i \in {"absent", "string"},
            y \in BOOLEAN}
ManyShapes ==
    {Shape(e, s, v, b) : e \in {"messages", "other"}, s \in {0, 2},
                         v \in BOOLEAN, b \in Bodies}

T(v) == [type |-> "text", v |-> v]
Img(v) == [type |-> "image", v |-> v]
Use(i) == [type |-> "tool_use", id |-> i, name |-> i, args |-> i]
Res(i, im) == [type |-> "tool_result", id |-> i, texts |-> <<i>>, images |-> im]
Think == [type |-> "thinking"]
Blocks == {T(1), Img(3), Img(None), Use(4), Use(5), Res(4, <<>>),
           Res(5, <<6>>), Think}
\* Any two blocks, or three of five kinds
MCTurns ==
    {[role |-> r, kind |-> "blocks", blocks |-> b] :
        r \in {"user", "assistant"},
        b \in BoundedSeq(Blocks, 2) \cup [1..3 -> Blocks \ {Img(None), Use(5), Think}]}
    \cup {[role |-> None, kind |-> "string", blocks |-> <<1>>],
          [role |-> "user", kind |-> "string", blocks |-> <<1>>],
          [role |-> "user", kind |-> "other", blocks |-> <<>>]}
OneTurn == {[role |-> "user", kind |-> "string", blocks |-> <<1>>]}

MCTools ==
    {NoTools, <<>>} \cup {<<[kind |-> k, name |-> 1]>> : k \in {"custom", "server"}}
    \cup {<<[kind |-> "custom", name |-> 1], [kind |-> "server", name |-> 2]>>}
MCChoices ==
    {NoChoice} \cup {[type |-> t, name |-> n, no_parallel |-> p] :
        t \in {"any", "none", "tool", "auto"}, n \in {None, 1}, p \in BOOLEAN}
MCSystems == {<<>>, <<7>>}

Calls == {<<>>, <<[id |-> 4, name |-> 4, args |-> 4]>>,
          <<[id |-> 4, name |-> 4, args |-> None], [id |-> 5, name |-> 5, args |-> 5]>>}
Choice == {[content |-> c, calls |-> k, finish |-> f] :
             c \in {None, <<>>, <<1>>}, k \in Calls,
             f \in {"stop", "tool_calls", "length", "content_filter"}}
Reply(s, e, k, i, m, c) ==
    [success |-> s, sse |-> e, kind |-> k, id |-> i, model |-> m,
     choice |-> c, usage |-> [prompt |-> m, completion |-> 2, cached |-> i]]
MCReplies ==
    {Reply(s, e, k, None, None, NoChoice) : s, e \in BOOLEAN,
        k \in {"empty", "invalid", "non_object", "object"}}
    \cup {Reply(TRUE, FALSE, "object", 1, 1, c) : c \in Choice}
OneReply == {Reply(TRUE, FALSE, "object", 1, 1, NoChoice)}
=============================================================================
