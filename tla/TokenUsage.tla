----------------------------- MODULE TokenUsage -----------------------------
(***************************************************************************)
(* token_usage and the token_usage_headers filter: the token counts in a   *)
(* provider's reply, in that provider's own fields, become three metadata  *)
(* keys and then three response headers.                                   *)
(*                                                                         *)
(* A body is [json, usage, fields]: whether it parses, where its usage     *)
(* object is ("usage", "usageMetadata" or "none"), and the counts of that  *)
(* object by field name, None for a field it lacks.  Counts are u64, here  *)
(* 0 .. MaxCount.                                                          *)
(***************************************************************************)
EXTENDS Integers, Sequences

CONSTANTS
    MaxCount,   \* u64::MAX
    Bodies,     \* the replies a provider may send
    Providers,  \* TokenUsageProvider
    MaxReplies, \* bounds how often usage is extracted into one context
    None

VARIABLES
    replies,  \* the replies whose usage was extracted, with their provider
    metadata, \* token.input, token.output, token.total of the context
    headers,  \* the Praxis-Token-* headers of the response
    sent      \* the response has passed the filter

vars == <<replies, metadata, headers, sent>>

Keys == {"input", "output", "total"}
NoMetadata == [k \in Keys |-> None]

-----------------------------------------------------------------------------
WrappingAdd(a, b) == (a + b) % (MaxCount + 1)
SaturatingAdd(a, b) == IF a + b > MaxCount THEN MaxCount ELSE a + b

OrZero(c) == IF c = None THEN 0 ELSE c

NewUsageWrapping(input, output, total) ==
    [input |-> input, output |-> output,
     total |-> IF total = None THEN WrappingAdd(input, output) ELSE total]
\* TokenUsage::new: a total the provider leaves out is input plus output
NewUsage(input, output, total) ==
    [input |-> input, output |-> output,
     total |-> IF total = None THEN SaturatingAdd(input, output) ELSE total]

\* A usage object parses when it has the two counts its format requires
ParseCounts(body, where, in, out, total) ==
    IF body.json /\ body.usage = where /\ body.fields[in] # None /\ body.fields[out] # None
    THEN NewUsage(body.fields[in], body.fields[out], body.fields[total])
    ELSE NoMetadata

ParseOpenAi(body) ==
    ParseCounts(body, "usage", "prompt_tokens", "completion_tokens", "total_tokens")
ParseGoogle(body) ==
    ParseCounts(body, "usageMetadata", "promptTokenCount", "candidatesTokenCount",
                "totalTokenCount")

\* parse_anthropic: what was written to and read from the cache is input too
ParseAnthropic(body) ==
    IF body.json /\ body.usage = "usage"
       /\ body.fields["input_tokens"] # None /\ body.fields["output_tokens"] # None
    THEN NewUsage(SaturatingAdd(SaturatingAdd(body.fields["input_tokens"],
                                    OrZero(body.fields["cache_creation_input_tokens"])),
                                OrZero(body.fields["cache_read_input_tokens"])),
                  body.fields["output_tokens"], None)
    ELSE NoMetadata

\* parse_bedrock: the Converse format, or Claude's
ConverseUsage(body) ==
    ParseCounts(body, "usage", "inputTokens", "outputTokens", "totalTokens")
ParseConverseOnly(body) == ConverseUsage(body)
ParseBedrock(body) ==
    IF ConverseUsage(body) # NoMetadata THEN ConverseUsage(body) ELSE ParseAnthropic(body)

\* extract_token_usage
ExtractTokenUsage(provider, body) ==
    CASE provider \in {"OpenAi", "Azure"} -> ParseOpenAi(body)
      [] provider = "Anthropic"           -> ParseAnthropic(body)
      [] provider = "Google"              -> ParseGoogle(body)
      [] provider = "Bedrock"             -> ParseBedrock(body)

\* set_token_usage overwrites the three keys together; without usage it is
\* not called
KeepOldTotal(m, usage) ==
    IF usage = NoMetadata THEN m
    ELSE [usage EXCEPT !.total = IF m.total = None THEN @ ELSE m.total]
SetTokenUsage(m, usage) == IF usage = NoMetadata THEN m ELSE usage

\* inject_usage_headers: all three keys, or nothing is touched
InjectUsageHeaders(h, m) ==
    IF \A k \in Keys : m[k] # None THEN m ELSE h

-----------------------------------------------------------------------------
\* The upstream may send headers of these names itself
UpstreamHeaders == [k \in Keys |-> 0]
Init ==
    /\ replies = <<>> /\ metadata = NoMetadata /\ sent = FALSE
    /\ headers \in {NoMetadata, UpstreamHeaders}

\* A filter extracts the usage of a body and stores it in the context
Extract(provider, body) ==
    /\ ~sent /\ Len(replies) < MaxReplies
    /\ replies' = Append(replies, [provider |-> provider, body |-> body])
    /\ metadata' = SetTokenUsage(metadata, ExtractTokenUsage(provider, body))
    /\ UNCHANGED <<headers, sent>>

\* on_response of token_usage_headers
OnResponse ==
    /\ ~sent /\ sent' = TRUE
    /\ headers' = InjectUsageHeaders(headers, metadata)
    /\ UNCHANGED <<replies, metadata>>

Next == (\E p \in Providers, b \in Bodies : Extract(p, b)) \/ OnResponse

Spec == Init /\ [][Next]_vars

-----------------------------------------------------------------------------
\* A reply that is billed is billed for all its tokens: every count the body
\* reports as consumed is within the input or the output published for it, and
\* these are within the total unless the body names one, even when their sum
\* does not fit a count.
Consumed(provider, body, side) ==
    LET f == body.fields
        converse == f["inputTokens"] # None /\ f["outputTokens"] # None
    IN CASE provider \in {"OpenAi", "Azure"} ->
              {f[IF side = "input" THEN "prompt_tokens" ELSE "completion_tokens"]}
         [] provider = "Google" ->
              {f[IF side = "input" THEN "promptTokenCount" ELSE "candidatesTokenCount"]}
         [] provider = "Bedrock" /\ converse ->
              {f[IF side = "input" THEN "inputTokens" ELSE "outputTokens"]}
         [] provider = "Anthropic" \/ (provider = "Bedrock" /\ ~converse) ->
              IF side = "output" THEN {f["output_tokens"]}
              ELSE {f["input_tokens"], f["cache_creation_input_tokens"],
                    f["cache_read_input_tokens"]}
OwnTotal(provider, body) ==
    LET f == body.fields
        converse == f["inputTokens"] # None /\ f["outputTokens"] # None
    IN CASE provider \in {"OpenAi", "Azure"}    -> f["total_tokens"]
         [] provider = "Google"                 -> f["totalTokenCount"]
         [] provider = "Bedrock" /\ converse    -> f["totalTokens"]
         [] provider = "Anthropic" \/ (provider = "Bedrock" /\ ~converse) -> None
NothingUnbilled ==
    \A k \in DOMAIN replies :
        LET r == replies[k]
            usage == ExtractTokenUsage(r.provider, r.body)
        IN usage # NoMetadata =>
              \A side \in {"input", "output"} :
                  /\ \A c \in Consumed(r.provider, r.body, side) \ {None} : c <= usage[side]
                  /\ OwnTotal(r.provider, r.body) = None => usage[side] <= usage.total

\* The three headers speak of one reply: the last one that had usage, whole,
\* never the input of one and the total of another; without any the headers
\* are left as the upstream sent them.
HeadersOfOneReply ==
    sent =>
        LET used == {k \in DOMAIN replies :
                       ExtractTokenUsage(replies[k].provider, replies[k].body) # NoMetadata}
        IN IF used = {} THEN headers \in {NoMetadata, UpstreamHeaders}
           ELSE \E k \in used :
                  /\ \A j \in used : j <= k
                  /\ headers = ExtractTokenUsage(replies[k].provider, replies[k].body)

\* A Claude reply costs the same whether it comes from Anthropic or through
\* Bedrock.
SamePriceThroughBedrock ==
    \A k \in DOMAIN replies :
        LET b == replies[k].body
        IN b.fields["inputTokens"] = None =>
              ExtractTokenUsage("Bedrock", b) = ExtractTokenUsage("Anthropic", b)

\* The three of them
UsageSound == NothingUnbilled /\ HeadersOfOneReply /\ SamePriceThroughBedrock
=============================================================================
