---------------------------- MODULE MCTokenUsage ----------------------------
(* Values for TokenUsage: counts around the largest one. *)
EXTENDS Naturals

CONSTANTS MaxCount, None

Fields == {"prompt_tokens", "completion_tokens", "total_tokens", "input_tokens",
           "output_tokens", "cache_creation_input_tokens", "cache_read_input_tokens",
           "promptTokenCount", "candidatesTokenCount", "totalTokenCount",
           "inputTokens", "outputTokens", "totalTokens"}
NoFields == [f \in Fields |-> None]
Counts == {0, 1, MaxCount}
Body(where, fields) == [json |-> TRUE, usage |-> where, fields |-> fields]

\* Two required counts and a total that may be missing
Flat(where, in, out, total) ==
    {Body(where, [NoFields EXCEPT ![in] = i, ![out] = o, ![total] = t]) :
        i \in {1, MaxCount, None}, o \in {1, MaxCount}, t \in {None, 2}}

MCBodies ==
    Flat("usage", "prompt_tokens", "completion_tokens", "total_tokens")
    \cup Flat("usageMetadata", "promptTokenCount", "candidatesTokenCount", "totalTokenCount")
    \cup Flat("usage", "inputTokens", "outputTokens", "totalTokens")
    \cup {Body("usage", [NoFields EXCEPT !["input_tokens"] = i, !["output_tokens"] = o,
                            !["cache_creation_input_tokens"] = c,
                            !["cache_read_input_tokens"] = r]) :
             i \in Counts, o \in {1, MaxCount}, c \in {None, MaxCount}, r \in {None, 1}}
    \cup {[json |-> FALSE, usage |-> "none", fields |-> NoFields], Body("none", NoFields)}
=============================================================================
