---------------------------- MODULE MCPromptChain ----------------------------
(* Values for PromptChain. *)
EXTENDS Naturals, Sequences

CONSTANTS None, NoBody

Msg(role, content) == [role |-> role, content |-> content]

Enrich(pre, post, invalid, limit) ==
    [kind |-> "prompt_enrich", prepend |-> pre, append |-> post, on_invalid |-> invalid,
     max_body_bytes |-> limit]
Header(h) == [kind |-> "model_to_header", header |-> h]
Guard(e, t) == [kind |-> "ai_guardrails", provider |-> [endpoint |-> e, timeout_ms |-> t]]

Prepends == {<<>>, <<Msg("system", "rule"), Msg("system", "cite")>>, <<Msg("user", "rule")>>}
Appends == {<<>>, <<Msg("user", "cite")>>, <<Msg("system", "")>>}

MCFilters ==
    {Enrich(p, a, i, n) : p \in Prepends, a \in Appends, i \in {"continue", "reject"}, n \in {0, 9}}
    \cup {Header("x-model"), Header("x-ai-model"), Guard("nemo", 1), Guard("", 1), Guard("nemo", 0)}
MCChains == UNION {[1 .. n -> MCFilters] : n \in 1 .. 2}
            \cup {<<Enrich(<<Msg("system", "rule")>>, <<>>, "continue", 9), f, g>> : f, g \in MCFilters}

Body(j, m, s) == [json |-> j, messages |-> m, model |-> "small", size |-> s]
MCBodies ==
    {NoBody, [Body(FALSE, None, 4) EXCEPT !.model = None], Body(TRUE, None, 4),
     [Body(TRUE, <<>>, 3) EXCEPT !.model = None],
     Body(TRUE, <<Msg("user", "question")>>, 9), Body(TRUE, <<Msg("user", "question")>>, 5),
     Body(TRUE, <<Msg("user", "hello"), Msg("assistant", "answer"), Msg("user", "question")>>, 12),
     [Body(TRUE, <<Msg("user", "question")>>, 6) EXCEPT !.model = "large"]}
=============================================================================
