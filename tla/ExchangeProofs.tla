---------------------------- MODULE ExchangeProofs ----------------------------
(***************************************************************************)
(* Proofs about the filters that work on one exchange at a time: what they *)
(* promise holds for any configuration, any bodies and any order of steps, *)
(* each from the assumptions its theorem lists.                            *)
(***************************************************************************)
EXTENDS DataLemmas, SequenceTheorems, Exchanges

-----------------------------------------------------------------------------
(* Token usage (TokenUsage)                                                *)

AddedReply == [provider : Providers, body : UsageBodies]
UsageOf(r) == Usage!ExtractTokenUsage(r.provider, r.body)
Used(rs) == {k \in DOMAIN rs : UsageOf(rs[k]) # Usage!NoMetadata}

LEMMA SaturationCovers ==
    ASSUME MaxCount \in Nat, NEW a \in Count, NEW b \in Count
    PROVE  /\ Usage!SaturatingAdd(a, b) \in Count
           /\ a <= Usage!SaturatingAdd(a, b) /\ b <= Usage!SaturatingAdd(a, b)
BY DEF Usage!SaturatingAdd, Count

\* A usage is complete: it has the three counts, or it is none
LEMMA NewUsageComplete ==
    ASSUME CountsFit, NEW i \in Count, NEW o \in Count,
           NEW t \in MaybeCount, NEW u, u = Usage!NewUsage(i, o, t)
    PROVE  /\ u # Usage!NoMetadata /\ u.input = i /\ u.output = o
           /\ \A k \in Usage!Keys : u[k] # None
           /\ t = None => i <= u.total /\ o <= u.total
<1> DEFINE total == IF t = None THEN Usage!SaturatingAdd(i, o) ELSE t
<1>1. MaxCount \in Nat /\ \A c \in Count : c # None
  BY DEF CountsFit, Count
<1>2. total # None /\ (t = None => i <= total /\ o <= total)
  BY <1>1, SaturationCovers
<1>3. u = [input |-> i, output |-> o, total |-> total]
  BY DEF Usage!NewUsage
<1> HIDE DEF total
<1>4. u.input = i /\ u.output = o /\ u.total = total
  BY <1>3
<1>5. \A k \in Usage!Keys : u[k] # None
  BY <1>1, <1>2, <1>4 DEF Usage!Keys
<1>6. u # Usage!NoMetadata
  <2>1. Usage!NoMetadata["input"] = None
    BY DEF Usage!NoMetadata, Usage!Keys
  <2> QED BY <2>1, <1>1, <1>4
<1> QED BY <1>2, <1>4, <1>5, <1>6

LEMMA ParseCountsCovers ==
    ASSUME CountsFit, NEW b \in UsageBodies, NEW where, NEW in \in CountFields,
           NEW out \in CountFields, NEW total \in CountFields, NEW u,
           u = Usage!ParseCounts(b, where, in, out, total), u # Usage!NoMetadata
    PROVE  /\ b.fields[in] = u.input /\ b.fields[out] = u.output
           /\ u.input \in Count /\ u.output \in Count
           /\ \A k \in Usage!Keys : u[k] # None
           /\ b.fields[total] = None => u.input <= u.total /\ u.output <= u.total
<1>1. /\ b.fields[in] # None /\ b.fields[out] # None
      /\ u = Usage!NewUsage(b.fields[in], b.fields[out], b.fields[total])
  BY DEF Usage!ParseCounts
<1>2. /\ b.fields[in] \in MaybeCount
      /\ b.fields[out] \in MaybeCount
      /\ b.fields[total] \in MaybeCount
  BY DEF CountsFit
<1>3. b.fields[in] \in Count /\ b.fields[out] \in Count
  BY <1>1, <1>2 DEF MaybeCount
<1>4. /\ u.input = b.fields[in] /\ u.output = b.fields[out]
      /\ \A k \in Usage!Keys : u[k] # None
      /\ b.fields[total] = None => u.input <= u.total /\ u.output <= u.total
  BY <1>1, <1>2, <1>3, NewUsageComplete
<1> QED BY <1>3, <1>4

LEMMA ParseAnthropicCovers ==
    ASSUME CountsFit, NEW b \in UsageBodies, NEW u,
           u = Usage!ParseAnthropic(b), u # Usage!NoMetadata
    PROVE  /\ b.fields["output_tokens"] = u.output
           /\ \A f \in {"input_tokens", "cache_creation_input_tokens",
                       "cache_read_input_tokens"} :
                 b.fields[f] # None => b.fields[f] <= u.input
           /\ u.input \in Count /\ u.output \in Count
           /\ \A k \in Usage!Keys : u[k] # None
           /\ u.input <= u.total /\ u.output <= u.total
<1> DEFINE i == b.fields["input_tokens"]
           o == b.fields["output_tokens"]
           c == Usage!OrZero(b.fields["cache_creation_input_tokens"])
           r == Usage!OrZero(b.fields["cache_read_input_tokens"])
           ic == Usage!SaturatingAdd(i, c)
           all == Usage!SaturatingAdd(ic, r)
<1>1. i # None /\ o # None /\ u = Usage!NewUsage(all, o, None)
  BY DEF Usage!ParseAnthropic
<1>2. \A f \in CountFields : b.fields[f] \in MaybeCount
  BY DEF CountsFit
<1>3. MaxCount \in Nat
  BY DEF CountsFit
<1>4. i \in Count /\ o \in Count
  BY <1>1, <1>2 DEF CountFields, MaybeCount
<1>5. c \in Count /\ r \in Count
  BY <1>2, <1>3 DEF CountFields, Usage!OrZero, MaybeCount, Count
<1>6. ic \in Count /\ i <= ic /\ c <= ic
  <2> HIDE DEF i, c
  <2> QED BY <1>3, <1>4, <1>5, SaturationCovers
<1>7. all \in Count /\ ic <= all /\ r <= all
  <2> HIDE DEF ic, r
  <2> QED BY <1>3, <1>5, <1>6, SaturationCovers
<1>8. /\ u.input = all /\ u.output = o /\ \A k \in Usage!Keys : u[k] # None
      /\ u.input <= u.total /\ u.output <= u.total
  <2> HIDE DEF all, o
  <2>1. None \in MaybeCount
    BY DEF MaybeCount
  <2> QED BY <1>1, <1>4, <1>7, <2>1, NewUsageComplete
<1>9. ASSUME NEW f \in {"input_tokens", "cache_creation_input_tokens", "cache_read_input_tokens"},
             b.fields[f] # None
      PROVE  b.fields[f] \in {i, c, r}
  BY <1>9 DEF Usage!OrZero
<1>10. i <= all /\ c <= all /\ r <= all
  <2> HIDE DEF all, ic, i, c, r
  <2> QED BY <1>3, <1>4, <1>5, <1>6, <1>7 DEF Count
<1> HIDE DEF all, ic, i, c, r
<1> QED BY <1>4, <1>7, <1>8, <1>9, <1>10 DEF o

\* Whatever the provider, the counts of a reply are within what is billed
LEMMA UsageCovers ==
    ASSUME CountsFit, NEW p \in Providers, NEW b \in UsageBodies, NEW u,
           u = Usage!ExtractTokenUsage(p, b), u # Usage!NoMetadata
    PROVE  /\ \A k \in Usage!Keys : u[k] # None
           /\ \A side \in {"input", "output"} :
                 /\ \A c \in Usage!Consumed(p, b, side) \ {None} : c <= u[side]
                 /\ Usage!OwnTotal(p, b) = None => u[side] <= u.total
<1> DEFINE Covered == /\ \A k \in Usage!Keys : u[k] # None
                      /\ \A side \in {"input", "output"} :
                            /\ \A c \in Usage!Consumed(p, b, side) \ {None} : c <= u[side]
                            /\ Usage!OwnTotal(p, b) = None => u[side] <= u.total
           converse == b.fields["inputTokens"] # None /\ b.fields["outputTokens"] # None
<1> SUFFICES Covered
  OBVIOUS
<1>1. p \in {"OpenAi", "Azure", "Anthropic", "Google", "Bedrock"} /\ MaxCount \in Nat
  BY DEF CountsFit
<1>2. ASSUME NEW in \in CountFields, NEW out \in CountFields, NEW total \in CountFields,
             NEW where, u = Usage!ParseCounts(b, where, in, out, total),
             Usage!Consumed(p, b, "input") = {b.fields[in]},
             Usage!Consumed(p, b, "output") = {b.fields[out]},
             Usage!OwnTotal(p, b) = b.fields[total]
      PROVE  Covered
  <2>1. /\ b.fields[in] = u.input /\ b.fields[out] = u.output
        /\ u.input \in Count /\ u.output \in Count
        /\ \A k \in Usage!Keys : u[k] # None
        /\ b.fields[total] = None => u.input <= u.total /\ u.output <= u.total
    BY <1>2, ParseCountsCovers
  <2> QED BY <1>1, <1>2, <2>1 DEF Count
<1>3. ASSUME u = Usage!ParseAnthropic(b),
             Usage!Consumed(p, b, "output") = {b.fields["output_tokens"]},
             Usage!Consumed(p, b, "input") = {b.fields["input_tokens"],
                 b.fields["cache_creation_input_tokens"], b.fields["cache_read_input_tokens"]}
      PROVE  Covered
  <2>1. /\ b.fields["output_tokens"] = u.output
        /\ \A f \in {"input_tokens", "cache_creation_input_tokens",
                    "cache_read_input_tokens"} : b.fields[f] # None => b.fields[f] <= u.input
        /\ u.input \in Count /\ u.output \in Count
        /\ \A k \in Usage!Keys : u[k] # None
        /\ u.input <= u.total /\ u.output <= u.total
    BY <1>3, ParseAnthropicCovers
  <2> QED BY <1>1, <1>3, <2>1 DEF Count
<1>4. CASE p \in {"OpenAi", "Azure"}
  <2>1. /\ u = Usage!ParseCounts(b, "usage", "prompt_tokens", "completion_tokens",
                                 "total_tokens")
        /\ Usage!Consumed(p, b, "input") = {b.fields["prompt_tokens"]}
        /\ Usage!Consumed(p, b, "output") = {b.fields["completion_tokens"]}
        /\ Usage!OwnTotal(p, b) = b.fields["total_tokens"]
    BY <1>4 DEF Usage!ExtractTokenUsage, Usage!ParseOpenAi, Usage!Consumed,
           Usage!OwnTotal
  <2> HIDE DEF Covered
  <2> QED BY <1>2, <2>1 DEF CountFields
<1>5. CASE p = "Google"
  <2>1. /\ u = Usage!ParseCounts(b, "usageMetadata", "promptTokenCount",
                                 "candidatesTokenCount", "totalTokenCount")
        /\ Usage!Consumed(p, b, "input") = {b.fields["promptTokenCount"]}
        /\ Usage!Consumed(p, b, "output") = {b.fields["candidatesTokenCount"]}
        /\ Usage!OwnTotal(p, b) = b.fields["totalTokenCount"]
    BY <1>5 DEF Usage!ExtractTokenUsage, Usage!ParseGoogle, Usage!Consumed,
           Usage!OwnTotal
  <2> HIDE DEF Covered
  <2> QED BY <1>2, <2>1 DEF CountFields
<1>6. CASE p = "Bedrock" /\ converse
  <2>1. /\ u = Usage!ParseBedrock(b)
        /\ Usage!Consumed(p, b, "input") = {b.fields["inputTokens"]}
        /\ Usage!Consumed(p, b, "output") = {b.fields["outputTokens"]}
        /\ Usage!OwnTotal(p, b) = b.fields["totalTokens"]
    BY <1>6 DEF Usage!ExtractTokenUsage, Usage!Consumed, Usage!OwnTotal
  <2>2. Usage!ConverseUsage(b) # Usage!NoMetadata
    <3> SUFFICES ASSUME Usage!ConverseUsage(b) = Usage!NoMetadata PROVE FALSE
      OBVIOUS
    <3>1. u = Usage!ParseAnthropic(b)
      BY <2>1 DEF Usage!ParseBedrock
    <3>2. b.json /\ b.usage = "usage"
      BY <3>1 DEF Usage!ParseAnthropic
    <3>3. Usage!ConverseUsage(b) = Usage!NewUsage(b.fields["inputTokens"],
              b.fields["outputTokens"], b.fields["totalTokens"])
      BY <1>6, <3>2 DEF Usage!ConverseUsage, Usage!ParseCounts
    <3>4. \A f \in CountFields : b.fields[f] \in MaybeCount
      BY DEF CountsFit
    <3>5. /\ b.fields["inputTokens"] \in Count /\ b.fields["outputTokens"] \in Count
          /\ b.fields["totalTokens"] \in MaybeCount
      BY <1>6, <3>4 DEF CountFields, MaybeCount
    <3> QED BY <3>3, <3>5, NewUsageComplete
  <2>3. u = Usage!ParseCounts(b, "usage", "inputTokens", "outputTokens", "totalTokens")
    BY <2>1, <2>2 DEF Usage!ParseBedrock, Usage!ConverseUsage
  <2> HIDE DEF Covered
  <2> QED BY <1>2, <2>1, <2>3 DEF CountFields
<1>7. CASE p = "Anthropic" \/ (p = "Bedrock" /\ ~converse)
  <2>1. /\ Usage!Consumed(p, b, "output") = {b.fields["output_tokens"]}
        /\ Usage!Consumed(p, b, "input") = {b.fields["input_tokens"],
               b.fields["cache_creation_input_tokens"], b.fields["cache_read_input_tokens"]}
    BY <1>7 DEF Usage!Consumed
  <2>2. u = Usage!ParseAnthropic(b)
    <3>1. CASE p = "Anthropic"
      BY <3>1 DEF Usage!ExtractTokenUsage
    <3>2. CASE p = "Bedrock" /\ ~converse
      <4>1. Usage!ConverseUsage(b) = Usage!NoMetadata
        BY <3>2 DEF Usage!ConverseUsage, Usage!ParseCounts
      <4> QED BY <3>2, <4>1 DEF Usage!ExtractTokenUsage, Usage!ParseBedrock
    <3> QED BY <1>7, <3>1, <3>2
  <2> HIDE DEF Covered
  <2> QED BY <1>3, <2>1, <2>2
<1> HIDE DEF Covered
<1> QED BY <1>1, <1>4, <1>5, <1>6, <1>7

\* The context holds the counts of the last reply that had usage
OfLastUsed(m) ==
    IF Used(usages) = {} THEN m = Usage!NoMetadata
    ELSE \E k \in Used(usages) :
            (\A j \in Used(usages) : j <= k) /\ m = UsageOf(usages[k])
UsageInv ==
    /\ usages \in Seq(AddedReply)
    /\ passed \in BOOLEAN
    /\ OfLastUsed(metadata)
    /\ ~passed => usage_headers \in {Usage!NoMetadata, Usage!UpstreamHeaders}
    /\ Usage!HeadersOfOneReply

LEMMA UsageOfReplies ==
    ASSUME CountsFit, usages \in Seq(AddedReply), NEW k \in Used(usages)
    PROVE  /\ usages[k] \in AddedReply
           /\ UsageOf(usages[k]) # Usage!NoMetadata
           /\ \A key \in Usage!Keys : UsageOf(usages[k])[key] # None
<1>1. k \in DOMAIN usages /\ UsageOf(usages[k]) # Usage!NoMetadata
  BY DEF Used
<1>2. usages[k] \in AddedReply
  BY <1>1
<1>3. usages[k].provider \in Providers /\ usages[k].body \in UsageBodies
  BY <1>2 DEF AddedReply
<1> QED BY <1>1, <1>2, <1>3, UsageCovers DEF UsageOf

LEMMA UsageExtract ==
    ASSUME CountsFit, UsageInv, NEW p \in Providers, NEW b \in UsageBodies, Usage!Extract(p, b)
    PROVE  UsageInv'
<1> DEFINE r == [provider |-> p, body |-> b]
           n == Len(usages)
<1>1. /\ ~passed /\ usages' = Append(usages, r) /\ usage_headers' = usage_headers /\ passed' = passed
      /\ metadata' = Usage!SetTokenUsage(metadata, Usage!ExtractTokenUsage(p, b))
  BY DEF Usage!Extract
<1>2. r \in AddedReply /\ usages \in Seq(AddedReply)
  BY DEF AddedReply, UsageInv
<1>3. UsageOf(r) = Usage!ExtractTokenUsage(p, b)
  BY DEF UsageOf
<1> HIDE DEF r
<1>4. /\ n \in Nat /\ DOMAIN usages = 1..n /\ usages' \in Seq(AddedReply)
      /\ DOMAIN usages' = 1..(n + 1) /\ usages'[n + 1] = r
      /\ \A k \in 1..n : usages'[k] = usages[k]
  BY <1>1, <1>2
<1>5. OfLastUsed(metadata)'
  <2>1. Used(usages) \subseteq 1..n
    BY <1>4 DEF Used
  <2>2. CASE UsageOf(r) = Usage!NoMetadata
    <3>1. Used(usages)' = Used(usages)
      <4>1. ASSUME NEW k \in 1..(n + 1)
            PROVE  (UsageOf(usages'[k]) # Usage!NoMetadata) <=>
                   (k \in 1..n /\ UsageOf(usages[k]) # Usage!NoMetadata)
        BY <1>4, <2>2
      <4> QED BY <1>4, <4>1 DEF Used
    <3>2. metadata' = metadata
      BY <1>1, <1>3, <2>2 DEF Usage!SetTokenUsage
    <3>3. \A k \in Used(usages) : UsageOf(usages'[k]) = UsageOf(usages[k])
      BY <1>4, <2>1
    <3> QED BY <3>1, <3>2, <3>3 DEF OfLastUsed, UsageInv
  <2>3. CASE UsageOf(r) # Usage!NoMetadata
    <3>1. n + 1 \in Used(usages)' /\ Used(usages)' \subseteq 1..(n + 1)
      BY <1>4, <2>3 DEF Used
    <3>2. metadata' = UsageOf(usages'[n + 1])
      BY <1>1, <1>3, <1>4, <2>3 DEF Usage!SetTokenUsage
    <3>3. \A j \in Used(usages)' : j <= n + 1
      BY <1>4, <3>1
    <3> QED BY <3>1, <3>2, <3>3 DEF OfLastUsed
  <2> QED BY <2>2, <2>3
<1>6. Usage!HeadersOfOneReply'
  BY <1>1 DEF Usage!HeadersOfOneReply
<1> QED BY <1>1, <1>4, <1>5, <1>6 DEF UsageInv

LEMMA UsageOnResponse ==
    ASSUME CountsFit, UsageInv, Usage!OnResponse
    PROVE  UsageInv'
<1>1. /\ ~passed /\ passed' = TRUE /\ usages' = usages /\ metadata' = metadata
      /\ usage_headers' = Usage!InjectUsageHeaders(usage_headers, metadata)
  BY DEF Usage!OnResponse
<1>2. usage_headers \in {Usage!NoMetadata, Usage!UpstreamHeaders} /\ usages \in Seq(AddedReply)
  BY <1>1 DEF UsageInv
<1>3. Usage!HeadersOfOneReply'
  <2>1. CASE Used(usages) = {}
    <3>1. metadata = Usage!NoMetadata
      BY <2>1 DEF UsageInv, OfLastUsed
    <3>2. metadata["input"] = None /\ "input" \in Usage!Keys
      BY <3>1 DEF Usage!NoMetadata, Usage!Keys
    <3>3. usage_headers' = usage_headers
      BY <1>1, <3>2 DEF Usage!InjectUsageHeaders
    <3> QED BY <1>1, <1>2, <2>1, <3>3 DEF Usage!HeadersOfOneReply, Used, UsageOf
  <2>2. CASE Used(usages) # {}
    <3>1. PICK k \in Used(usages) :
             (\A j \in Used(usages) : j <= k) /\ metadata = UsageOf(usages[k])
      BY <2>2 DEF UsageInv, OfLastUsed
    <3>2. \A key \in Usage!Keys : metadata[key] # None
      BY <1>2, <3>1, UsageOfReplies
    <3>3. usage_headers' = UsageOf(usages[k])
      BY <1>1, <3>1, <3>2 DEF Usage!InjectUsageHeaders
    <3> QED BY <1>1, <2>2, <3>1, <3>3 DEF Usage!HeadersOfOneReply, Used, UsageOf
  <2> QED BY <2>1, <2>2
<1>4. OfLastUsed(metadata)'
  BY <1>1 DEF OfLastUsed, UsageInv, Used
<1> QED BY <1>1, <1>2, <1>3, <1>4 DEF UsageInv

LEMMA UsageStarts ==
    ASSUME CountsFit PROVE Usage!Init => UsageInv
<1> SUFFICES ASSUME Usage!Init PROVE UsageInv
  OBVIOUS
<1>1. usages \in Seq(AddedReply) /\ Used(usages) = {} /\ passed = FALSE
  BY DEF Usage!Init, Used
<1> QED BY <1>1 DEF Usage!Init, UsageInv, OfLastUsed, Usage!HeadersOfOneReply

LEMMA UsageSteps ==
    ASSUME CountsFit PROVE UsageInv /\ [Usage!Next]_Usage!vars => UsageInv'
<1> SUFFICES ASSUME UsageInv, [Usage!Next]_Usage!vars PROVE UsageInv'
  OBVIOUS
<1>1. ASSUME NEW p \in Providers, NEW b \in UsageBodies, Usage!Extract(p, b) PROVE UsageInv'
  BY <1>1, UsageExtract
<1>2. CASE Usage!OnResponse
  BY <1>2, UsageOnResponse
<1>3. CASE UNCHANGED Usage!vars
  BY <1>3 DEF Usage!vars, UsageInv, OfLastUsed, Used, Usage!HeadersOfOneReply
<1> QED BY <1>1, <1>2, <1>3 DEF Usage!Next

LEMMA UsageTells ==
    ASSUME CountsFit PROVE UsageInv => Usage!UsageSound
<1> SUFFICES ASSUME UsageInv PROVE Usage!UsageSound
  OBVIOUS
<1>1. ASSUME NEW k \in DOMAIN usages
      PROVE  usages[k].provider \in Providers /\ usages[k].body \in UsageBodies
  <2>1. usages[k] \in AddedReply
    BY DEF UsageInv
  <2> QED BY <2>1 DEF AddedReply
<1>2. Usage!NothingUnbilled
  BY <1>1, UsageCovers DEF Usage!NothingUnbilled
<1>3. Usage!SamePriceThroughBedrock
  <2> SUFFICES ASSUME NEW k \in DOMAIN usages, usages[k].body.fields["inputTokens"] = None
               PROVE  Usage!ExtractTokenUsage("Bedrock", usages[k].body)
                        = Usage!ExtractTokenUsage("Anthropic", usages[k].body)
    BY DEF Usage!SamePriceThroughBedrock
  <2>1. Usage!ConverseUsage(usages[k].body) = Usage!NoMetadata
    BY DEF Usage!ConverseUsage, Usage!ParseCounts
  <2> QED BY <2>1 DEF Usage!ExtractTokenUsage, Usage!ParseBedrock
<1> QED BY <1>2, <1>3 DEF UsageInv, Usage!UsageSound

\* extract_token_usage and token_usage_headers: whatever the provider reports,
\* however often and whether or not the counts fit, no consumed token is left
\* out of what is billed or of a total that is computed, the three headers are the counts of one reply, and
\* a Claude reply costs the same through Bedrock.
THEOREM UsageIsSound == ASSUME CountsFit PROVE Spec => []UsageSound
<1> DEFINE Inv == subject = "usage" => UsageInv
<1>1. Init => Inv
  BY UsageStarts DEF Init
<1>2. Inv /\ [Next]_vars => Inv'
  <2> SUFFICES ASSUME Inv, [Next]_vars, subject' = "usage" PROVE UsageInv'
    OBVIOUS
  <2>1. subject = "usage" /\ [Usage!Next]_(Usage!vars)
    BY DEF Next, vars, usageVars, Usage!vars
  <2> QED BY <2>1, UsageSteps
<1>3. Inv => UsageSound
  BY UsageTells DEF UsageSound
<1> QED BY <1>1, <1>2, <1>3, PTL DEF Spec

-----------------------------------------------------------------------------
(* Model aliases (ModelRewrite)                                            *)

LEMMA PartOf ==
    ASSUME NEW S, NEW s \in Seq(S), NEW m \in 1..(Len(s) + 1), NEW n \in 0..Len(s), m <= n + 1
    PROVE  /\ SubSeq(s, m, n) \in Seq(S) /\ Len(SubSeq(s, m, n)) = n - m + 1
           /\ \A i \in 1..(n - m + 1) : SubSeq(s, m, n)[i] = s[m + i - 1]
<1>1. \A i \in m..n : s[i] \in S
  <2> TAKE i \in m..n
  <2>1. i \in 1..Len(s)
    OBVIOUS
  <2> QED BY <2>1
<1>2. Len(SubSeq(s, m, n)) = IF m <= n THEN n - m + 1 ELSE 0
  BY <1>1, SubSeqProperties
<1> QED BY <1>1, <1>2, SubSeqProperties

LEMMA FrontOf ==
    ASSUME NEW S, NEW s \in Seq(S), NEW n \in 0..Len(s)
    PROVE  /\ SubSeq(s, 1, n) \in Seq(S) /\ Len(SubSeq(s, 1, n)) = n
           /\ \A i \in 1..n : SubSeq(s, 1, n)[i] = s[i]
<1>1. 1 \in 1..(Len(s) + 1) /\ 1 <= n + 1 /\ n - 1 + 1 = n
  OBVIOUS
<1>2. \A i \in 1..n : 1 + i - 1 = i
  OBVIOUS
<1> DEFINE a == SubSeq(s, 1, n)
<1>3. a \in Seq(S) /\ Len(a) = n - 1 + 1 /\ \A i \in 1..(n - 1 + 1) : a[i] = s[1 + i - 1]
  BY <1>1, PartOf
<1> HIDE DEF a
<1>4. a \in Seq(S) /\ Len(a) = n /\ \A i \in 1..n : a[i] = s[1 + i - 1]
  BY <1>1, <1>3
<1>5. \A i \in 1..n : a[i] = s[i]
  BY <1>2, <1>4
<1> QED BY <1>4, <1>5 DEF a

LEMMA BackOf ==
    ASSUME NEW S, NEW s \in Seq(S), NEW k \in 0..Len(s)
    PROVE  /\ SubSeq(s, k + 1, Len(s)) \in Seq(S)
           /\ Len(SubSeq(s, k + 1, Len(s))) = Len(s) - k
           /\ \A i \in 1..(Len(s) - k) : SubSeq(s, k + 1, Len(s))[i] = s[k + i]
<1> DEFINE a == SubSeq(s, k + 1, Len(s))
           n == Len(s)
<1>1. /\ k + 1 \in 1..(n + 1) /\ n \in 0..n /\ k + 1 <= n + 1 /\ n - (k + 1) + 1 = n - k
      /\ n \in Nat
  OBVIOUS
<1>2. \A i \in 1..(n - k) : (k + 1) + i - 1 = k + i
  OBVIOUS
<1>3. /\ a \in Seq(S) /\ Len(a) = n - (k + 1) + 1
      /\ \A i \in 1..(n - (k + 1) + 1) : a[i] = s[(k + 1) + i - 1]
  BY <1>1, PartOf
<1> HIDE DEF a, n
<1>4. a \in Seq(S) /\ Len(a) = n - k /\ \A i \in 1..(n - k) : a[i] = s[(k + 1) + i - 1]
  BY <1>1, <1>3
<1>5. \A i \in 1..(n - k) : a[i] = s[k + i]
  BY <1>2, <1>4
<1> QED BY <1>4, <1>5 DEF a, n

LEMMA PrefixAt ==
    ASSUME NEW S, NEW s \in Seq(S), NEW t \in Seq(S)
    PROVE  Rewrite!IsPrefix(s, t) <=>
              (Len(s) <= Len(t) /\ \A i \in 1..Len(s) : s[i] = t[i])
<1>1. CASE Len(s) <= Len(t)
  <2> DEFINE a == SubSeq(s, 1, Len(s))
             b == SubSeq(t, 1, Len(s))
  <2>1. /\ a \in Seq(S) /\ Len(a) = Len(s) /\ \A i \in 1..Len(s) : a[i] = s[i]
        /\ b \in Seq(S) /\ Len(b) = Len(s) /\ \A i \in 1..Len(s) : b[i] = t[i]
    <3>1. /\ 1 \in 1..(Len(s) + 1) /\ 1 \in 1..(Len(t) + 1) /\ 1 <= Len(s) + 1
          /\ Len(s) \in 0..Len(s) /\ Len(s) \in 0..Len(t) /\ Len(s) - 1 + 1 = Len(s)
          /\ \A i \in 1..Len(s) : 1 + i - 1 = i
      BY <1>1
    <3> QED BY <3>1, PartOf
  <2> HIDE DEF a, b
  <2>2. a = b <=> \A i \in 1..Len(s) : a[i] = b[i]
    BY <2>1, SeqEqual
  <2> QED BY <1>1, <2>1, <2>2 DEF Rewrite!IsPrefix, a, b
<1>2. CASE ~(Len(s) <= Len(t))
  BY <1>2 DEF Rewrite!IsPrefix
<1> QED BY <1>1, <1>2

LEMMA SuffixAt ==
    ASSUME NEW S, NEW s \in Seq(S), NEW t \in Seq(S)
    PROVE  Rewrite!IsSuffix(s, t) <=>
              (Len(s) <= Len(t) /\ \A i \in 1..Len(s) : s[i] = t[Len(t) - Len(s) + i])
<1> DEFINE a == Rewrite!Reverse(s)
           b == Rewrite!Reverse(t)
           m == Len(s)
           n == Len(t)
<1>1. ASSUME NEW q \in Seq(S)
      PROVE  /\ Rewrite!Reverse(q) \in Seq(S) /\ Len(Rewrite!Reverse(q)) = Len(q)
             /\ \A i \in 1..Len(q) : Rewrite!Reverse(q)[i] = q[Len(q) - i + 1]
  <2>1. \A i \in 1..Len(q) : Len(q) - i + 1 \in 1..Len(q)
    OBVIOUS
  <2> QED BY <2>1 DEF Rewrite!Reverse
<1>2. /\ a \in Seq(S) /\ Len(a) = m /\ \A i \in 1..m : a[i] = s[m - i + 1]
      /\ b \in Seq(S) /\ Len(b) = n /\ \A i \in 1..n : b[i] = t[n - i + 1]
  BY <1>1
<1> HIDE DEF a, b
<1>3. Rewrite!IsPrefix(a, b) <=> (m <= n /\ \A i \in 1..m : a[i] = b[i])
  BY <1>2, PrefixAt
<1>4. ASSUME m <= n
      PROVE  (\A i \in 1..m : a[i] = b[i]) <=> (\A i \in 1..m : s[i] = t[n - m + i])
  <2>0. m \in Nat /\ n \in Nat
    OBVIOUS
  <2> HIDE DEF m, n
  <2>1. ASSUME \A i \in 1..m : a[i] = b[i], NEW i \in 1..m
        PROVE  s[i] = t[n - m + i]
    <3> DEFINE k == m - i + 1
    <3>1. /\ k \in 1..m /\ k \in 1..n
          /\ m - k + 1 = i /\ n - k + 1 = n - m + i
      BY <1>4, <2>0
    <3> HIDE DEF k
    <3>2. a[k] = s[i] /\ b[k] = t[n - m + i]
      BY <1>2, <3>1
    <3> QED BY <2>1, <3>1, <3>2
  <2>2. ASSUME \A i \in 1..m : s[i] = t[n - m + i], NEW i \in 1..m
        PROVE  a[i] = b[i]
    <3> DEFINE k == m - i + 1
    <3>1. /\ i \in 1..n /\ k \in 1..m /\ n - m + k = n - i + 1
      BY <1>4, <2>0
    <3>2. a[i] = s[k] /\ b[i] = t[n - i + 1]
      BY <1>2, <3>1
    <3> HIDE DEF k
    <3> QED BY <2>2, <3>1, <3>2
  <2> QED BY <2>1, <2>2
<1> QED BY <1>3, <1>4 DEF Rewrite!IsSuffix, a, b

OneStar(p) == \A i, j \in DOMAIN p : p[i] = Rewrite!Star /\ p[j] = Rewrite!Star => i = j

\* Both say: the name is as long as the literal text of the pattern, begins
\* like it before the wildcard and ends like it after
Fits(p, v) ==
    LET k == Rewrite!StarAt(p) IN
    /\ Len(v) >= Len(p) - 1
    /\ \A i \in 1..(k - 1) : v[i] = p[i]
    /\ \A i \in 1..(Len(p) - k) : v[Len(v) - (Len(p) - k) + i] = p[k + i]

LEMMA StarProperties ==
    ASSUME NEW p \in Seq(Nat), Rewrite!HasStar(p)
    PROVE  /\ Rewrite!StarAt(p) \in 1..Len(p) /\ p[Rewrite!StarAt(p)] = 0
BY DEF Rewrite!HasStar, Rewrite!StarAt, Rewrite!Star

LEMMA MatchesMeansFits ==
    ASSUME NEW p \in Seq(Nat), NEW v \in Seq(Nat), Rewrite!HasStar(p)
    PROVE  Rewrite!PatternMatches(p, v) <=> Fits(p, v)
<1> DEFINE k == Rewrite!StarAt(p)
           n == Len(p)
           m == Len(v)
           a == SubSeq(p, 1, k - 1)
           b == SubSeq(p, k + 1, n)
<1>1. k \in 1..n /\ n \in Nat /\ m \in Nat
  BY StarProperties
<1> HIDE DEF k
<1>2. a \in Seq(Nat) /\ Len(a) = k - 1 /\ \A i \in 1..(k - 1) : a[i] = p[i]
  <2>1. k - 1 \in 0..Len(p)
    BY <1>1
  <2> QED BY <2>1, FrontOf
<1>3. b \in Seq(Nat) /\ Len(b) = n - k /\ \A i \in 1..(n - k) : b[i] = p[k + i]
  <2>1. k \in 0..Len(p)
    BY <1>1
  <2> QED BY <2>1, BackOf
<1> HIDE DEF a, b
<1>4. Rewrite!IsPrefix(a, v) <=> (k - 1 <= m /\ \A i \in 1..(k - 1) : p[i] = v[i])
  <2> DEFINE l == Len(a)
  <2>1. Rewrite!IsPrefix(a, v) <=> (l <= m /\ \A i \in 1..l : a[i] = v[i])
    BY <1>2, PrefixAt
  <2>2. l = k - 1
    BY <1>2
  <2> HIDE DEF l, m
  <2>3. (\A i \in 1..l : a[i] = v[i]) <=> \A i \in 1..(k - 1) : p[i] = v[i]
    BY <1>2, <2>2
  <2> QED BY <2>1, <2>2, <2>3
<1>5. Rewrite!IsSuffix(b, v) <=>
         (n - k <= m /\ \A i \in 1..(n - k) : p[k + i] = v[m - (n - k) + i])
  <2> DEFINE l == Len(b)
  <2>1. Rewrite!IsSuffix(b, v) <=> (l <= m /\ \A i \in 1..l : b[i] = v[m - l + i])
    BY <1>3, SuffixAt
  <2>2. l = n - k
    BY <1>3
  <2> HIDE DEF l, n, m
  <2> QED BY <1>3, <2>1, <2>2
<1>6. Rewrite!PatternMatches(p, v) <=>
         (Rewrite!IsPrefix(a, v) /\ Rewrite!IsSuffix(b, v) /\ m >= n - 1)
  BY DEF Rewrite!PatternMatches, a, b, k
<1>7. m >= n - 1 => k - 1 <= m /\ n - k <= m
  BY <1>1
<1>8. Fits(p, v) <=> (m >= n - 1 /\ (\A i \in 1..(k - 1) : v[i] = p[i])
                      /\ \A i \in 1..(n - k) : v[m - (n - k) + i] = p[k + i])
  BY DEF Fits, k
<1> HIDE DEF n, m
<1> QED BY <1>4, <1>5, <1>6, <1>7, <1>8

\* The name with the text between positions i and j taken out for a wildcard
Cut(v, i, j) == SubSeq(v, 1, i) \o <<Rewrite!Star>> \o SubSeq(v, j + 1, Len(v))
LEMMA Glued ==
    ASSUME NEW v \in Seq(Nat), NEW i \in 0..Len(v), NEW j \in 0..Len(v), i <= j
    PROVE  /\ Cut(v, i, j) \in Seq(Nat) /\ Len(Cut(v, i, j)) = i + 1 + (Len(v) - j)
           /\ \A x \in 1..i : Cut(v, i, j)[x] = v[x]
           /\ Cut(v, i, j)[i + 1] = 0
           /\ \A x \in 1..(Len(v) - j) : Cut(v, i, j)[i + 1 + x] = v[j + x]
<1> DEFINE q == Cut(v, i, j)
           m == Len(v)
           a == SubSeq(v, 1, i)
           b == SubSeq(v, j + 1, m)
           c == <<Rewrite!Star>>
<1>0. m \in Nat /\ i \in 0..m /\ j \in 0..m /\ i <= j
  OBVIOUS
<1>1. a \in Seq(Nat) /\ Len(a) = i /\ \A x \in 1..i : a[x] = v[x]
  BY <1>0, FrontOf
<1>2. b \in Seq(Nat) /\ Len(b) = m - j /\ \A x \in 1..(m - j) : b[x] = v[j + x]
  BY <1>0, BackOf
<1>3. c \in Seq(Nat) /\ Len(c) = 1 /\ c[1] = 0
  BY DEF Rewrite!Star
<1> HIDE DEF a, b, c, q
<1> DEFINE d == a \o c
<1>4. /\ d \in Seq(Nat) /\ Len(d) = i + 1 /\ \A x \in 1..i : d[x] = v[x]
      /\ d[i + 1] = 0
  <2>1. /\ d \in Seq(Nat) /\ Len(d) = Len(a) + Len(c)
        /\ \A x \in 1..(Len(a) + Len(c)) : d[x] = IF x <= Len(a) THEN a[x] ELSE c[x - Len(a)]
    BY <1>1, <1>3, ConcatProperties
  <2> HIDE DEF d, m
  <2>2. \A x \in 1..(i + 1) : d[x] = IF x <= i THEN a[x] ELSE c[x - i]
    BY <2>1, <1>1, <1>3
  <2>3. \A x \in 1..i : x \in 1..(i + 1) /\ x <= i
    BY <1>0
  <2>4. i + 1 \in 1..(i + 1) /\ ~(i + 1 <= i) /\ (i + 1) - i = 1
    BY <1>0
  <2>5. d[i + 1] = c[1]
    BY <2>2, <2>4
  <2> QED BY <2>1, <2>2, <2>3, <2>5, <1>1, <1>3
<1> HIDE DEF d
<1>5. /\ q \in Seq(Nat) /\ Len(q) = i + 1 + (m - j)
      /\ \A x \in 1..(i + 1 + (m - j)) : q[x] = IF x <= i + 1 THEN d[x] ELSE b[x - (i + 1)]
  <2> DEFINE e == d \o b
  <2>1. q = e
    BY DEF a, b, c, d, q, Cut
  <2>2. /\ e \in Seq(Nat) /\ Len(e) = Len(d) + Len(b)
        /\ \A x \in 1..(Len(d) + Len(b)) : e[x] = IF x <= Len(d) THEN d[x] ELSE b[x - Len(d)]
    BY <1>2, <1>4, ConcatProperties
  <2> HIDE DEF m, e
  <2> QED BY <2>1, <2>2, <1>2, <1>4
<1> HIDE DEF m
<1>6. \A x \in 1..i : q[x] = v[x]
  <2>1. \A x \in 1..i : x \in 1..(i + 1 + (m - j)) /\ x <= i + 1
    BY <1>0
  <2> QED BY <1>4, <1>5, <2>1
<1>7. q[i + 1] = 0
  <2>1. i + 1 \in 1..(i + 1 + (m - j)) /\ i + 1 <= i + 1
    BY <1>0
  <2> QED BY <1>4, <1>5, <2>1
<1>8. \A x \in 1..(m - j) : q[i + 1 + x] = v[j + x]
  <2>1. \A x \in 1..(m - j) : /\ i + 1 + x \in 1..(i + 1 + (m - j)) /\ ~(i + 1 + x <= i + 1)
                              /\ (i + 1 + x) - (i + 1) = x
    BY <1>0
  <2> QED BY <1>2, <1>5, <2>1
<1> QED BY <1>5, <1>6, <1>7, <1>8 DEF m, q

LEMMA GeneratesMeansFits ==
    ASSUME NEW p \in Seq(Nat), NEW v \in Seq(Nat), OneStar(p)
    PROVE  Rewrite!Generates(p, v) <=> (Rewrite!HasStar(p) /\ Fits(p, v))
<1> DEFINE k == Rewrite!StarAt(p)
           n == Len(p)
           m == Len(v)
<1>0. n \in Nat /\ m \in Nat /\ DOMAIN p = 1..n
  OBVIOUS
<1>1. ASSUME Rewrite!Generates(p, v) PROVE Rewrite!HasStar(p) /\ Fits(p, v)
  <2>1. PICK i \in 0..m, j \in 0..m : i <= j /\ p = Cut(v, i, j)
    BY <1>1 DEF Rewrite!Generates, Cut
  <2>2. i \in 0..m /\ j \in 0..m /\ i <= j
    BY <2>1
  <2>3. /\ n = i + 1 + (m - j)
        /\ \A x \in 1..i : p[x] = v[x]
        /\ p[i + 1] = 0
        /\ \A x \in 1..(m - j) : p[i + 1 + x] = v[j + x]
    BY <2>1, <2>2, Glued
  <2> HIDE DEF n, m, k
  <2>4. i + 1 \in 1..n
    BY <1>0, <2>2, <2>3
  <2>5. Rewrite!HasStar(p)
    BY <1>0, <2>3, <2>4 DEF Rewrite!HasStar, Rewrite!Star
  <2>6. k = i + 1
    <3>1. k \in 1..n /\ p[k] = 0
      BY <2>5, StarProperties DEF k, n
    <3> QED BY <1>0, <2>3, <2>4, <3>1 DEF OneStar, Rewrite!Star
  <2>7. /\ m >= n - 1 /\ k - 1 = i /\ n - k = m - j
        /\ \A x \in 1..(m - j) : m - (m - j) + x = j + x
    BY <1>0, <2>2, <2>3, <2>6
  <2>8. \A x \in 1..(n - k) : v[m - (n - k) + x] = p[k + x]
    <3>1. \A x \in 1..(m - j) : v[m - (m - j) + x] = v[j + x]
      BY <2>7
    <3>2. \A x \in 1..(m - j) : v[m - (m - j) + x] = p[k + x]
      BY <2>3, <2>6, <3>1
    <3> QED BY <2>7, <3>2
  <2> QED BY <2>3, <2>5, <2>7, <2>8 DEF Fits, n, m, k
<1>2. ASSUME Rewrite!HasStar(p), Fits(p, v) PROVE Rewrite!Generates(p, v)
  <2>1. k \in 1..n /\ p[k] = 0
    BY <1>2, StarProperties
  <2>2. /\ m >= n - 1 /\ \A x \in 1..(k - 1) : v[x] = p[x]
        /\ \A x \in 1..(n - k) : v[m - (n - k) + x] = p[k + x]
    BY <1>2 DEF Fits
  <2> DEFINE i == k - 1
             j == m - (n - k)
             q == Cut(v, i, j)
  <2> HIDE DEF k
  <2>3. i \in 0..m /\ j \in 0..m /\ i <= j
    BY <2>1, <2>2
  <2>4. /\ q \in Seq(Nat) /\ Len(q) = i + 1 + (m - j)
        /\ \A x \in 1..i : q[x] = v[x]
        /\ q[i + 1] = 0
        /\ \A x \in 1..(m - j) : q[i + 1 + x] = v[j + x]
    <3> HIDE DEF i, j
    <3> QED BY <2>3, Glued
  <2> HIDE DEF q, n, m
  <2>5. /\ i + 1 + (m - j) = n /\ m - j = n - k /\ i + 1 = k
    BY <1>0, <2>1
  <2>6. ASSUME NEW x \in 1..n PROVE q[x] = p[x]
    <3>1. CASE x <= k - 1
      <4>1. x \in 1..(k - 1)
        BY <2>1, <3>1
      <4> QED BY <2>2, <2>4, <4>1
    <3>2. CASE x = k
      BY <2>1, <2>4, <2>5, <3>2
    <3>3. CASE x > k
      <4> DEFINE y == x - k
      <4>1. y \in 1..(n - k) /\ k + y = x
        BY <1>0, <2>1, <3>3
      <4> HIDE DEF y
      <4>2. q[k + y] = v[j + y]
        <5>1. y \in 1..(m - j) /\ i + 1 + y = k + y
          BY <2>5, <4>1
        <5> QED BY <2>4, <5>1
      <4>3. v[j + y] = p[k + y]
        BY <2>2, <4>1
      <4> QED BY <4>1, <4>2, <4>3
    <3> QED BY <1>0, <2>1, <3>1, <3>2, <3>3
  <2>7. q = p
    BY <2>4, <2>5, <2>6, SeqEqual DEF n
  <2> HIDE DEF i, j
  <2> QED BY <2>3, <2>7 DEF Rewrite!Generates, Cut, q, m
<1> QED BY <1>1, <1>2

\* Of two patterns of one length one comes first, and the order is transitive
Earlier(p, q) ==
    \E k \in 1..Len(p) : p[k] < q[k] /\ \A j \in 1..(k - 1) : p[j] = q[j]

LEMMA LexIsEarlier ==
    ASSUME NEW p \in Seq(Nat), NEW q \in Seq(Nat), Len(p) = Len(q)
    PROVE  Rewrite!LexLess(p, q) <=> Earlier(p, q)
<1>1. ~Rewrite!IsStrictPrefix(p, q)
  <2> SUFFICES ASSUME Rewrite!IsStrictPrefix(p, q) PROVE FALSE
    OBVIOUS
  <2>1. Rewrite!IsPrefix(p, q) /\ p # q
    BY DEF Rewrite!IsStrictPrefix
  <2>2. \A i \in 1..Len(p) : p[i] = q[i]
    BY <2>1, PrefixAt
  <2> QED BY <2>1, <2>2, SeqEqual
<1>2. DOMAIN p \cap DOMAIN q = 1..Len(p)
  OBVIOUS
<1> QED BY <1>1, <1>2 DEF Rewrite!LexLess, Earlier

LEMMA LexTotal ==
    ASSUME NEW p \in Seq(Nat), NEW q \in Seq(Nat), Len(p) = Len(q), p # q
    PROVE  Rewrite!LexLess(p, q) \/ Rewrite!LexLess(q, p)
<1> DEFINE D == {k \in 1..Len(p) : p[k] # q[k]}
<1>1. D # {}
  BY SeqEqual
<1>2. PICK k \in D : \A y \in D : k <= y
  <2>1. D \subseteq Nat
    OBVIOUS
  <2> HIDE DEF D
  <2> QED BY <1>1, <2>1, SmallestElement
<1>3. k \in 1..Len(p) /\ p[k] # q[k] /\ p[k] \in Nat /\ q[k] \in Nat
  OBVIOUS
<1>4. \A j \in 1..(k - 1) : p[j] = q[j]
  <2> SUFFICES ASSUME NEW j \in 1..(k - 1), p[j] # q[j] PROVE FALSE
    OBVIOUS
  <2>1. j \in 1..Len(p) /\ ~(k <= j)
    BY <1>3
  <2>2. j \in D
    BY <2>1
  <2> QED BY <1>2, <2>1, <2>2
<1>5. p[k] < q[k] \/ q[k] < p[k]
  BY <1>3
<1>6. Earlier(p, q) \/ Earlier(q, p)
  BY <1>3, <1>4, <1>5 DEF Earlier
<1> QED BY <1>6, LexIsEarlier

LEMMA LexTransitive ==
    ASSUME NEW p \in Seq(Nat), NEW q \in Seq(Nat), NEW r \in Seq(Nat),
           Len(p) = Len(q), Len(q) = Len(r), Rewrite!LexLess(p, q), Rewrite!LexLess(q, r)
    PROVE  Rewrite!LexLess(p, r)
<1>1. PICK a \in 1..Len(p) : p[a] < q[a] /\ \A j \in 1..(a - 1) : p[j] = q[j]
  BY LexIsEarlier DEF Earlier
<1>2. PICK b \in 1..Len(p) : q[b] < r[b] /\ \A j \in 1..(b - 1) : q[j] = r[j]
  <2>1. Earlier(q, r)
    BY LexIsEarlier
  <2> QED BY <2>1 DEF Earlier
<1>3. \A k \in 1..Len(p) : p[k] \in Nat /\ q[k] \in Nat /\ r[k] \in Nat
  <2>1. \A k \in 1..Len(p) : p[k] \in Nat
    BY ElementOfSeq
  <2>2. \A k \in 1..Len(q) : q[k] \in Nat
    BY ElementOfSeq
  <2>3. \A k \in 1..Len(r) : r[k] \in Nat
    BY ElementOfSeq
  <2> QED BY <2>1, <2>2, <2>3, Zenon
<1>4. Earlier(p, r)
  <2>1. CASE a <= b
    <3>1. p[a] < r[a]
      <4>1. CASE a = b
        BY <1>1, <1>2, <1>3, <4>1
      <4>2. CASE a # b
        <5>1. a \in 1..(b - 1)
          BY <2>1, <4>2
        <5> QED BY <1>1, <1>2, <5>1
      <4> QED BY <4>1, <4>2
    <3>2. \A j \in 1..(a - 1) : p[j] = r[j]
      <4>1. \A j \in 1..(a - 1) : j \in 1..(b - 1)
        BY <2>1
      <4> QED BY <1>1, <1>2, <4>1
    <3> QED BY <3>1, <3>2 DEF Earlier
  <2>2. CASE ~(a <= b)
    <3>1. b \in 1..(a - 1)
      BY <2>2
    <3>2. p[b] < r[b]
      BY <1>1, <1>2, <3>1
    <3>3. \A j \in 1..(b - 1) : p[j] = r[j]
      <4>1. \A j \in 1..(b - 1) : j \in 1..(a - 1)
        BY <2>2
      <4> QED BY <1>1, <1>2, <4>1
    <3> QED BY <3>2, <3>3 DEF Earlier
  <2> QED BY <2>1, <2>2
<1> QED BY <1>4, LexIsEarlier

LEMMA AtMostOneStar ==
    ASSUME NEW p \in Seq(Nat),
           Rewrite!Cardinality({k \in DOMAIN p : p[k] = Rewrite!Star}) <= 1
    PROVE  OneStar(p)
<1> DEFINE S == {k \in DOMAIN p : p[k] = Rewrite!Star}
<1> SUFFICES ASSUME NEW i \in S, NEW j \in S, i # j PROVE FALSE
  BY DEF OneStar
<1>1. Cardinality(S) <= 1
  BY DEF Cardinality, Rewrite!Cardinality
<1>2. IsFiniteSet(S)
  <2>1. IsFiniteSet(1..Len(p)) /\ S \subseteq 1..Len(p)
    BY FS_Interval
  <2> QED BY <2>1, FS_Subset
<1> HIDE DEF S
<1>3. Cardinality({i, j}) <= Cardinality(S)
  <2>1. {i, j} \in SUBSET S
    OBVIOUS
  <2> HIDE DEF S
  <2> QED BY <1>2, <2>1, FS_Subset
<1>4. Cardinality({i, j}) = 2
  <2>1. Cardinality({i}) = 1 /\ IsFiniteSet({i}) /\ j \notin {i}
    BY FS_Singleton
  <2>2. Cardinality({i} \cup {j}) = Cardinality({i}) + 1
    BY <2>1, FS_AddElement
  <2>3. {i} \cup {j} = {i, j}
    OBVIOUS
  <2>4. Cardinality({i}) + 1 = 2
    BY <2>1
  <2> QED BY <2>2, <2>3, <2>4, Zenon
<1>5. Cardinality(S) \in Nat
  BY <1>2, FS_CardinalityType
<1> QED BY <1>1, <1>3, <1>4, <1>5

\* The best of the patterns in D that fit the name of the body
Better(b, q) == Len(q) < Len(b) \/ (Len(q) = Len(b) /\ Rewrite!LexLess(b, q))
Fitting(D) == {p \in D : Rewrite!HasStar(p) /\ Fits(p, body.model)}
BestOf(D) ==
    \/ Fitting(D) = {} /\ best = None
    \/ best \in Fitting(D) /\ \A q \in Fitting(D) \ {best} : Better(best, q)

FactsRecord ==
    /\ facts = [effective |-> facts.effective, rewritten |-> facts.rewritten,
                injected |-> facts.injected]
    /\ facts.rewritten \in BOOLEAN /\ facts.injected \in BOOLEAN
AliasInv ==
    /\ aliases \in AliasSets /\ Rewrite!ValidConfig(aliases, default)
    /\ body.model \in BodyModels
    /\ stage = "body" => best = None /\ todo = {}
    /\ stage = "resolving" =>
          /\ body.model \in Seq(Nat) \ aliases
          /\ todo \subseteq aliases /\ BestOf(aliases \ todo)
    /\ Rewrite!AliasIndependentOfOrder
ToldInv ==
    /\ FactsRecord /\ meta = facts
    /\ stage # "done" => results \in {Rewrite!NoFacts, facts}
    /\ stage \in {"body", "resolving", "resolved"} => headers.effective = None
    /\ Rewrite!BranchesSeeRewrite
    /\ Rewrite!HeaderNamesSentModel

\* One more pattern of the map, whatever the order
LEMMA ResolveKeepsBest ==
    ASSUME NamesTyped, AliasInv, NEW x \in todo, Rewrite!ResolveEntry(x)
    PROVE  AliasInv'
<1>1. /\ stage = "resolving" /\ todo' = todo \ {x} /\ stage' = stage /\ body' = body
      /\ aliases' = aliases /\ default' = default
      /\ best' = IF Rewrite!HasStar(x) /\ Rewrite!PatternMatches(x, body.model)
                    /\ Rewrite!ShouldReplace(x, best) THEN x ELSE best
  BY DEF Rewrite!ResolveEntry
<1>2. /\ aliases \in AliasSets /\ body.model \in Seq(Nat) \ aliases /\ todo \subseteq aliases
      /\ x \in aliases /\ BestOf(aliases \ todo)
  BY <1>1 DEF AliasInv
<1>3. aliases \subseteq Seq(Nat) /\ None \notin Seq(Nat)
  BY <1>2 DEF NamesTyped
<1>4. x \in Seq(Nat) /\ body.model \in Seq(Nat)
  BY <1>2, <1>3
<1> DEFINE D == aliases \ todo
           E == aliases \ (todo \ {x})
<1>5. E = D \cup {x} /\ x \notin D
  BY <1>2
<1>6. Fitting(D) \subseteq Seq(Nat)
  BY <1>3 DEF Fitting
<1>7. BestOf(D)
  BY <1>2
<1> HIDE DEF D, E
<1>8. Rewrite!HasStar(x) => (Rewrite!PatternMatches(x, body.model) <=> Fits(x, body.model))
  BY <1>4, MatchesMeansFits
<1>9. BestOf(E)'
  <2>1. Fitting(E)' = Fitting(E)
    BY <1>1 DEF Fitting, E
  <2>2. CASE ~(Rewrite!HasStar(x) /\ Fits(x, body.model))
    <3>1. Fitting(E) = Fitting(D) /\ best' = best
      BY <1>1, <1>5, <1>8, <2>2 DEF Fitting
    <3> QED BY <1>7, <2>1, <3>1 DEF BestOf, Better
  <2>3. CASE Rewrite!HasStar(x) /\ Fits(x, body.model)
    <3>1. Fitting(E) = Fitting(D) \cup {x} /\ x \notin Fitting(D)
      BY <1>5, <2>3 DEF Fitting
    <3>2. best' = IF Rewrite!ShouldReplace(x, best) THEN x ELSE best
      BY <1>1, <1>8, <2>3
    <3>3. CASE best = None
      <4>1. Fitting(D) = {}
        BY <1>3, <1>6, <1>7, <3>3 DEF BestOf
      <4>2. best' = x
        BY <3>2, <3>3 DEF Rewrite!ShouldReplace
      <4> QED BY <2>1, <3>1, <4>1, <4>2 DEF BestOf
    <3>4. CASE best # None
      <4>1. best \in Fitting(D) /\ \A q \in Fitting(D) \ {best} : Better(best, q)
        BY <1>7, <3>4 DEF BestOf
      <4>2. best \in Seq(Nat) /\ best # x
        BY <1>6, <3>1, <4>1
      <4>3. Rewrite!ShouldReplace(x, best) <=>
               (Len(x) > Len(best) \/ (Len(x) = Len(best) /\ Rewrite!LexLess(x, best)))
        <5>1. Len(x) \in Nat /\ Len(best) \in Nat
          BY <1>4, <4>2
        <5> QED BY <3>4, <5>1 DEF Rewrite!ShouldReplace, Rewrite!PatternSpecificity
      <4>4. CASE Rewrite!ShouldReplace(x, best)
        <5>1. best' = x
          BY <3>2, <4>4
        <5>2. ASSUME NEW q \in Fitting(D) PROVE Better(x, q)
          <6>1. q \in Seq(Nat) /\ Len(q) \in Nat /\ Len(x) \in Nat /\ Len(best) \in Nat
            BY <1>4, <1>6, <4>2
          <6>2. CASE q = best
            BY <4>3, <4>4, <6>2 DEF Better
          <6>3. CASE q # best
            <7>1. Better(best, q)
              BY <4>1, <6>3
            <7>2. CASE Len(q) < Len(x)
              BY <7>2 DEF Better
            <7>3. CASE ~(Len(q) < Len(x))
              <8>1. /\ Len(q) = Len(x) /\ Len(q) = Len(best)
                    /\ Rewrite!LexLess(x, best) /\ Rewrite!LexLess(best, q)
                BY <4>3, <4>4, <6>1, <7>1, <7>3 DEF Better
              <8>2. Rewrite!LexLess(x, q)
                BY <1>4, <4>2, <6>1, <8>1, LexTransitive
              <8> QED BY <8>1, <8>2 DEF Better
            <7> QED BY <7>2, <7>3
          <6> QED BY <6>2, <6>3
        <5>3. \A q \in Fitting(E) \ {x} : Better(x, q)
          BY <3>1, <5>2
        <5>4. x \in Fitting(E)
          BY <3>1
        <5> QED BY <2>1, <5>1, <5>3, <5>4 DEF BestOf, Better
      <4>5. CASE ~Rewrite!ShouldReplace(x, best)
        <5>1. best' = best
          BY <3>2, <4>5
        <5>2. Better(best, x)
          <6>1. Len(x) \in Nat /\ Len(best) \in Nat
            BY <1>4, <4>2
          <6>2. CASE Len(x) < Len(best)
            BY <6>2 DEF Better
          <6>3. CASE ~(Len(x) < Len(best))
            <7>1. Len(x) = Len(best) /\ ~Rewrite!LexLess(x, best)
              BY <4>3, <4>5, <6>1, <6>3
            <7>2. Rewrite!LexLess(best, x)
              BY <1>4, <4>2, <7>1, LexTotal
            <7> QED BY <7>1, <7>2 DEF Better
          <6> QED BY <6>2, <6>3
        <5>3. best \in Fitting(E) /\ \A q \in Fitting(E) \ {best} : Better(best, q)
          BY <3>1, <4>1, <5>2
        <5> QED BY <2>1, <5>1, <5>3 DEF BestOf, Better
      <4> QED BY <4>4, <4>5
    <3> QED BY <3>3, <3>4
  <2> QED BY <2>2, <2>3
<1>10. todo' \subseteq aliases' /\ E = aliases' \ todo'
  BY <1>1, <1>2 DEF E
<1>11. BestOf(aliases \ todo)'
  BY <1>1, <1>9, <1>10 DEF E
<1>12. Rewrite!AliasIndependentOfOrder'
  BY <1>1 DEF Rewrite!AliasIndependentOfOrder
<1> QED BY <1>1, <1>2, <1>10, <1>11, <1>12 DEF AliasInv

\* The loop has seen the whole map
LEMMA EndResolveDecides ==
    ASSUME NamesTyped, AliasInv, Rewrite!EndResolve
    PROVE  AliasInv'
<1>1. /\ stage = "resolving" /\ todo = {} /\ todo' = todo /\ stage' = "resolved" /\ body' = body
      /\ aliases' = aliases /\ default' = default /\ best' = best
  BY DEF Rewrite!EndResolve
<1>2. /\ aliases \in AliasSets /\ body.model \in Seq(Nat) \ aliases /\ BestOf(aliases)
      /\ Rewrite!ValidConfig(aliases, default)
  <2>1. aliases \ todo = aliases
    BY <1>1
  <2> QED BY <1>1, <2>1 DEF AliasInv
<1> DEFINE fits == {p \in aliases : Rewrite!Generates(p, body.model)}
<1>3. fits = Fitting(aliases) /\ fits \subseteq Seq(Nat)
  <2>1. ASSUME NEW p \in aliases
        PROVE  /\ p \in Seq(Nat)
               /\ Rewrite!Generates(p, body.model)
                     <=> (Rewrite!HasStar(p) /\ Fits(p, body.model))
    <3>1. p \in Seq(Nat) /\ body.model \in Seq(Nat)
      BY <1>2 DEF NamesTyped
    <3>2. Rewrite!Cardinality({k \in DOMAIN p : p[k] = Rewrite!Star}) <= 1
      BY <1>2 DEF Rewrite!ValidConfig
    <3> QED BY <3>1, <3>2, AtMostOneStar, GeneratesMeansFits
  <2> QED BY <2>1 DEF Fitting
<1>4. \/ fits = {} /\ best = None
      \/ /\ best \in fits
         /\ \A q \in fits \ {best} :
              Len(q) < Len(best) \/ (Len(q) = Len(best) /\ Rewrite!LexLess(best, q))
  BY <1>2, <1>3 DEF BestOf, Better
<1>5. Rewrite!AliasIndependentOfOrder'
  BY <1>1, <1>2, <1>4, Zenon DEF Rewrite!AliasIndependentOfOrder
<1> QED BY <1>1, <1>2, <1>5 DEF AliasInv

\* A step that resolves nothing
LEMMA AliasesQuiet ==
    ASSUME AliasInv, aliases' = aliases, default' = default, body' = body,
           \/ stage' \in {"branches", "done", "rejected"}
           \/ stage' = stage /\ best' = best /\ todo' = todo
    PROVE  AliasInv'
<1>1. CASE stage' \in {"branches", "done", "rejected"}
  BY <1>1 DEF AliasInv, Rewrite!AliasIndependentOfOrder
<1>2. CASE stage' = stage /\ best' = best /\ todo' = todo
  <2>1. BestOf(aliases \ todo)' <=> BestOf(aliases \ todo)
    BY <1>2 DEF BestOf, Fitting, Better
  <2>2. Rewrite!AliasIndependentOfOrder'
    BY <1>2 DEF AliasInv, Rewrite!AliasIndependentOfOrder
  <2> QED BY <1>2, <2>1, <2>2 DEF AliasInv
<1> QED BY <1>1, <1>2

LEMMA StartResolveKeeps ==
    ASSUME NamesTyped, AliasInv, Rewrite!StartResolve
    PROVE  AliasInv'
<1>1. /\ stage = "body" /\ best = None /\ body' = body /\ body.model \notin {Absent, Other}
      /\ aliases' = aliases /\ default' = default
      /\ IF body.model \in aliases
         THEN best' = body.model /\ stage' = "resolved" /\ todo' = todo
         ELSE todo' = aliases /\ stage' = "resolving" /\ best' = best
  BY DEF Rewrite!StartResolve, AliasInv
<1>2. body.model \in Seq(Nat) /\ aliases \in AliasSets /\ Rewrite!ValidConfig(aliases, default)
      /\ body.model \in BodyModels
  BY <1>1 DEF AliasInv, NamesTyped
<1>3. CASE body.model \in aliases
  <2>1. Rewrite!AliasIndependentOfOrder'
    BY <1>1, <1>3 DEF Rewrite!AliasIndependentOfOrder
  <2> QED BY <1>1, <1>2, <1>3, <2>1 DEF AliasInv
<1>4. CASE body.model \notin aliases
  <2>1. Rewrite!AliasIndependentOfOrder'
    BY <1>1, <1>4 DEF Rewrite!AliasIndependentOfOrder
  <2>2. BestOf(aliases \ todo)'
    <3>1. aliases' \ todo' = {} /\ best' = None
      BY <1>1, <1>4
    <3> QED BY <3>1 DEF BestOf, Fitting
  <2> QED BY <1>1, <1>2, <1>4, <2>1, <2>2 DEF AliasInv
<1> QED BY <1>3, <1>4

\* Facts, metadata and results are written together, the header with them
LEMMA PromotionTellsAll ==
    ASSUME NEW o, NEW e, NEW rw \in BOOLEAN, NEW inj \in BOOLEAN,
           Rewrite!PromoteFacts([original |-> o, facts |-> [effective |-> e, rewritten |-> rw,
                                                            injected |-> inj]])
    PROVE  FactsRecord' /\ meta' = facts' /\ results' = facts' /\ headers'.effective \in {None, e}
<1> DEFINE g == IF Rewrite!Promotable(e) THEN e ELSE None
<1>1. /\ facts' = [effective |-> g, rewritten |-> rw, injected |-> inj]
      /\ meta' = facts' /\ results' = facts' /\ headers'.effective = facts'.effective
  BY DEF Rewrite!PromoteFacts
<1>2. g \in {None, e}
  OBVIOUS
<1> HIDE DEF g
<1>3. facts'.effective = g /\ facts'.rewritten = rw /\ facts'.injected = inj
  BY <1>1
<1> QED BY <1>1, <1>2, <1>3 DEF FactsRecord

LEMMA ToldAfterPromotion ==
    ASSUME FactsRecord', meta' = facts', results' = facts', stage' = "branches",
           headers'.effective \in {None, model'}
    PROVE  ToldInv'
BY DEF ToldInv, Rewrite!BranchesSeeRewrite, Rewrite!HeaderNamesSentModel

LEMMA ToldQuiet ==
    ASSUME ToldInv, UNCHANGED <<model, meta, headers, results, facts>>,
           \/ stage' = stage
           \/ stage = "body" /\ stage' \in {"rejected", "branches", "resolving", "resolved"}
           \/ stage = "resolving" /\ stage' = "resolved"
    PROVE  ToldInv'
<1>1. FactsRecord' /\ meta' = facts'
  BY DEF ToldInv, FactsRecord
<1>2. CASE stage' = stage
  BY <1>1, <1>2 DEF ToldInv, Rewrite!BranchesSeeRewrite, Rewrite!HeaderNamesSentModel,
                    Rewrite!NoFacts
<1>3. CASE stage' # stage
  <2>1. stage \in {"body", "resolving"} /\ stage' \in {"rejected", "branches", "resolving", "resolved"}
    BY <1>3
  <2>2. headers'.effective = None /\ results' \in {Rewrite!NoFacts, facts}
    BY <2>1 DEF ToldInv
  <2> QED BY <1>1, <2>1, <2>2 DEF ToldInv, Rewrite!BranchesSeeRewrite,
                                  Rewrite!HeaderNamesSentModel, Rewrite!NoFacts
<1> QED BY <1>2, <1>3

LEMMA RepopulateRestores ==
    ASSUME ToldInv, Rewrite!RepopulateFilterResults
    PROVE  ToldInv'
<1>1. /\ stage = "branches" /\ stage' = "done" /\ facts' = facts /\ meta' = meta
      /\ headers' = headers /\ model' = model
      /\ results' = [effective |-> IF meta.effective # None THEN meta.effective
                                   ELSE results.effective,
                     rewritten |-> results.rewritten \/ meta.rewritten,
                     injected  |-> results.injected \/ meta.injected]
  BY DEF Rewrite!RepopulateFilterResults
<1>2. FactsRecord /\ meta = facts /\ results \in {Rewrite!NoFacts, facts}
  BY <1>1 DEF ToldInv
<1>3. results' = facts
  <2>1. CASE results = facts
    <3>1. results' = [effective |-> facts.effective, rewritten |-> facts.rewritten,
                      injected |-> facts.injected]
      <4>1. /\ (facts.rewritten \/ facts.rewritten) = facts.rewritten
            /\ (facts.injected \/ facts.injected) = facts.injected
        BY <1>2 DEF FactsRecord
      <4> QED BY <1>1, <1>2, <2>1, <4>1
    <3> QED BY <1>2, <3>1 DEF FactsRecord
  <2>2. CASE results = Rewrite!NoFacts
    <3>1. /\ results.effective = None /\ results.rewritten = FALSE /\ results.injected = FALSE
      BY <2>2 DEF Rewrite!NoFacts
    <3>2. /\ (FALSE \/ facts.rewritten) = facts.rewritten
          /\ (FALSE \/ facts.injected) = facts.injected
      BY <1>2 DEF FactsRecord
    <3>3. (IF facts.effective # None THEN facts.effective ELSE None) = facts.effective
      OBVIOUS
    <3>4. results' = [effective |-> facts.effective, rewritten |-> facts.rewritten,
                      injected |-> facts.injected]
      BY <1>1, <1>2, <3>1, <3>2, <3>3
    <3> QED BY <1>2, <3>4 DEF FactsRecord
  <2> QED BY <1>2, <2>1, <2>2
<1>4. FactsRecord'
  BY <1>1, <1>2 DEF FactsRecord
<1> QED BY <1>1, <1>2, <1>3, <1>4
        DEF ToldInv, Rewrite!BranchesSeeRewrite, Rewrite!HeaderNamesSentModel

LEMMA RewriteStarts ==
    ASSUME NamesTyped PROVE Rewrite!Init => AliasInv /\ ToldInv
<1> SUFFICES ASSUME Rewrite!Init PROVE AliasInv /\ ToldInv
  OBVIOUS
<1>1. PICK b \in ModelBodies, m \in BodyModels : body = [kind |-> b, model |-> m]
  BY DEF Rewrite!Init
<1>2. AliasInv
  BY <1>1 DEF Rewrite!Init, AliasInv, Rewrite!AliasIndependentOfOrder
<1>3. ToldInv
  BY DEF Rewrite!Init, ToldInv, FactsRecord, Rewrite!NoFacts, Rewrite!BranchesSeeRewrite,
         Rewrite!HeaderNamesSentModel
<1> QED BY <1>2, <1>3

LEMMA RewriteSteps ==
    ASSUME NamesTyped PROVE AliasInv /\ ToldInv /\ [Rewrite!Next]_Rewrite!vars => AliasInv' /\ ToldInv'
<1> SUFFICES ASSUME AliasInv, ToldInv, [Rewrite!Next]_Rewrite!vars PROVE AliasInv' /\ ToldInv'
  OBVIOUS
<1>1. CASE Rewrite!SkipBody
  BY <1>1, AliasesQuiet, ToldQuiet DEF Rewrite!SkipBody
<1>2. CASE Rewrite!StartResolve
  <2>1. ToldInv'
    BY <1>2, ToldQuiet DEF Rewrite!StartResolve
  <2> QED BY <1>2, <2>1, StartResolveKeeps
<1>3. ASSUME NEW x \in todo, Rewrite!ResolveEntry(x) PROVE AliasInv' /\ ToldInv'
  <2>1. ToldInv'
    BY <1>3, ToldQuiet DEF Rewrite!ResolveEntry
  <2> QED BY <1>3, <2>1, ResolveKeepsBest
<1>4. CASE Rewrite!EndResolve
  <2>1. ToldInv'
    BY <1>4, ToldQuiet DEF Rewrite!EndResolve
  <2> QED BY <1>4, <2>1, EndResolveDecides
<1>5. CASE Rewrite!ApplyAlias
  <2>1. AliasInv'
    BY <1>5, AliasesQuiet DEF Rewrite!ApplyAlias
  <2>2. PICK e : e = model'
    OBVIOUS
  <2>3. PICK rw \in BOOLEAN : rw = (best # None)
    OBVIOUS
  <2>4. /\ stage' = "branches"
        /\ Rewrite!PromoteFacts([original |-> body.model,
              facts |-> [effective |-> e, rewritten |-> rw, injected |-> FALSE]])
    BY <1>5, <2>2, <2>3 DEF Rewrite!ApplyAlias
  <2>5. FactsRecord' /\ meta' = facts' /\ results' = facts' /\ headers'.effective \in {None, e}
    BY <2>4, PromotionTellsAll
  <2> QED BY <2>1, <2>2, <2>4, <2>5, ToldAfterPromotion
<1>6. CASE Rewrite!ApplyDefault
  <2>1. AliasInv'
    BY <1>6, AliasesQuiet DEF Rewrite!ApplyDefault
  <2>2. CASE body.model = Absent /\ default # None
    <3>1. /\ stage' = "branches" /\ model' = default
          /\ Rewrite!PromoteFacts([original |-> None,
                facts |-> [effective |-> default, rewritten |-> FALSE, injected |-> TRUE]])
      BY <1>6, <2>2 DEF Rewrite!ApplyDefault
    <3>2. PICK d : d = default
      OBVIOUS
    <3>3. Rewrite!PromoteFacts([original |-> None,
             facts |-> [effective |-> d, rewritten |-> FALSE, injected |-> TRUE]])
      BY <3>1, <3>2
    <3>4. /\ FactsRecord' /\ meta' = facts' /\ results' = facts'
          /\ headers'.effective \in {None, d}
      BY <3>3, PromotionTellsAll
    <3> QED BY <2>1, <3>1, <3>2, <3>4, ToldAfterPromotion
  <2>3. CASE ~(body.model = Absent /\ default # None)
    <3>1. ToldInv'
      BY <1>6, <2>3, ToldQuiet DEF Rewrite!ApplyDefault
    <3> QED BY <2>1, <3>1
  <2> QED BY <2>2, <2>3
<1>7. CASE Rewrite!ClearResults
  <2>1. AliasInv'
    BY <1>7, AliasesQuiet DEF Rewrite!ClearResults
  <2>2. ToldInv'
    <3>1. FactsRecord' /\ meta' = facts'
      BY <1>7 DEF Rewrite!ClearResults, ToldInv, FactsRecord
    <3> QED BY <1>7, <3>1 DEF Rewrite!ClearResults, ToldInv, Rewrite!BranchesSeeRewrite,
                              Rewrite!HeaderNamesSentModel, Rewrite!NoFacts
  <2> QED BY <2>1, <2>2
<1>8. CASE Rewrite!RepopulateFilterResults
  <2>1. AliasInv'
    BY <1>8, AliasesQuiet DEF Rewrite!RepopulateFilterResults
  <2> QED BY <1>8, <2>1, RepopulateRestores
<1>9. CASE UNCHANGED Rewrite!vars
  BY <1>9, AliasesQuiet, ToldQuiet DEF Rewrite!vars
<1> QED BY <1>1, <1>2, <1>3, <1>4, <1>5, <1>6, <1>7, <1>8, <1>9
        DEF Rewrite!Next, Rewrite!Finished

LEMMA RewriteTells ==
    ASSUME NamesTyped PROVE AliasInv /\ ToldInv => Rewrite!RewriteConsistent
BY DEF AliasInv, ToldInv, Rewrite!RewriteConsistent

\* resolve_alias and on_request: for any alias map, in whatever order the
\* HashMap is iterated, an exact alias wins, else the longest wildcard that
\* generates the name and the first in lexical order of those; the branches
\* see the facts of the rewrite however often the results are cleared in
\* between; and the header names the model in the body that is sent.
THEOREM RewritesAreConsistent == ASSUME NamesTyped PROVE Spec => []RewriteConsistent
<1> DEFINE Inv == subject = "model" => (AliasInv /\ ToldInv)
<1>1. Init => Inv
  BY RewriteStarts DEF Init
<1>2. Inv /\ [Next]_vars => Inv'
  <2> SUFFICES ASSUME Inv, [Next]_vars, subject' = "model" PROVE (AliasInv /\ ToldInv)'
    OBVIOUS
  <2>1. subject = "model" /\ [Rewrite!Next]_(Rewrite!vars)
    BY DEF Next, vars, modelVars, Rewrite!vars
  <2> QED BY <2>1, RewriteSteps
<1>3. Inv => RewriteConsistent
  BY RewriteTells DEF RewriteConsistent
<1> QED BY <1>1, <1>2, <1>3, PTL DEF Spec

-----------------------------------------------------------------------------
(* The MCP broker (McpBroker)                                              *)

EntriesOf(server) == {Broker!CatalogEntry(server, server.tools[t]) : t \in DOMAIN server.tools}

\* The tools of one server that are served: entries of its tools, every valid
\* one among them
LEMMA ServerToolsTaken ==
    ASSUME NEW server, NEW T, server.tools \in Seq(T)
    PROVE  /\ Broker!ServerTools(server) \in Seq(EntriesOf(server))
           /\ \A t \in DOMAIN server.tools : Broker!ValidSchema(server.tools[t]) =>
                 \E i \in 1..Len(Broker!ServerTools(server)) :
                    Broker!ServerTools(server)[i] = Broker!CatalogEntry(server, server.tools[t])
<1> DEFINE n == Len(server.tools)
           E == EntriesOf(server)
           V == Seq(E)
           Entry(k) == Broker!CatalogEntry(server, server.tools[k])
           Valid(k) == Broker!ValidSchema(server.tools[k])
           step == [kv \in (1..n) \X V |->
                      IF Valid(kv[1]) THEN Append(kv[2], Entry(kv[1])) ELSE kv[2]]
           Takes(f) == f = [k \in 0..n |->
                              IF k = 0 THEN <<>>
                              ELSE IF Valid(k) THEN Append(f[k - 1], Entry(k)) ELSE f[k - 1]]
<1>1. n \in Nat /\ DOMAIN server.tools = 1..n
  OBVIOUS
<1>2. \A k \in 1..n : Entry(k) \in E
  BY <1>1 DEF EntriesOf
<1>3. <<>> \in V
  OBVIOUS
<1> HIDE DEF n, E, Entry, Valid
<1>4. step \in [(1..n) \X V -> V]
  <2>1. ASSUME NEW kv \in (1..n) \X V
        PROVE  (IF Valid(kv[1]) THEN Append(kv[2], Entry(kv[1])) ELSE kv[2]) \in V
    <3>1. kv[1] \in 1..n /\ kv[2] \in V
      OBVIOUS
    <3>2. Entry(kv[1]) \in E
      BY <1>2, <3>1
    <3>3. Append(kv[2], Entry(kv[1])) \in V
      BY <3>1, <3>2
    <3> QED BY <3>1, <3>3
  <2> QED BY <2>1
<1>5. \E f : Unfolds(f, n, V, <<>>, step)
  <2>1. step \in Steps(n, V)
    BY <1>4 DEF Steps
  <2> HIDE DEF step, V
  <2> QED BY <1>1, <1>3, <2>1, RecursionDefines
<1>6. \E f : Takes(f)
  <2>1. PICK f \in [0..n -> V] :
           f[0] = <<>> /\ \A k \in 1..n : f[k] = step[<<k, f[k - 1]>>]
    BY <1>5 DEF Unfolds
  <2>2. ASSUME NEW k \in 0..n, k # 0
        PROVE  step[<<k, f[k - 1]>>] = IF Valid(k) THEN Append(f[k - 1], Entry(k)) ELSE f[k - 1]
    <3>1. k \in 1..n /\ k - 1 \in 0..n
      BY <1>1, <2>2
    <3>2. f[k - 1] \in V
      BY <3>1
    <3>3. <<k, f[k - 1]>> \in (1..n) \X V
      BY <3>1, <3>2
    <3> HIDE DEF V
    <3> QED BY <3>3
  <2> HIDE DEF step, V
  <2>3. \A k \in 0..n : k = 0 \/ k \in 1..n
    BY <1>1
  <2>4. ASSUME NEW k \in 0..n
        PROVE  f[k] = IF k = 0 THEN <<>>
                      ELSE IF Valid(k) THEN Append(f[k - 1], Entry(k)) ELSE f[k - 1]
    BY <2>1, <2>2, <2>3
  <2>5. Takes(f)
    BY <2>1, <2>4
  <2> QED BY <2>5
<1>7. PICK g : Takes(g) /\ Broker!ServerTools(server) = g[n]
  <2>1. Takes(CHOOSE f : Takes(f))
    <3> HIDE DEF Takes
    <3> QED BY <1>6
  <2>2. Broker!ServerTools(server) = (CHOOSE f : Takes(f))[n]
    BY Zenon DEF Broker!ServerTools, n, Entry, Valid
  <2> HIDE DEF Takes
  <2> QED BY <2>1, <2>2
<1> DEFINE Good(k) == /\ g[k] \in Seq(E)
                      /\ \A t \in 1..k : Valid(t) => \E i \in 1..Len(g[k]) : g[k][i] = Entry(t)
           S == {k \in 0..n : Good(k)}
<1>8. 0 \in S
  <2>1. g[0] = <<>> /\ 0 \in 0..n
    BY <1>1, <1>7
  <2>2. <<>> \in Seq(E) /\ \A t \in 1..0 : FALSE
    OBVIOUS
  <2> HIDE DEF Takes
  <2> QED BY <2>1, <2>2
<1>9. ASSUME NEW k \in 0..(n - 1), k \in S PROVE k + 1 \in S
  <2>1. /\ k + 1 \in 0..n /\ k + 1 \in 1..n /\ (k + 1) - 1 = k /\ k + 1 # 0
        /\ 1..(k + 1) = (1..k) \cup {k + 1}
    BY <1>1
  <2>2. g[k + 1] = IF Valid(k + 1) THEN Append(g[k], Entry(k + 1)) ELSE g[k]
    BY <1>7, <2>1
  <2>3. Good(k)
    BY <1>9
  <2> HIDE DEF Takes
  <2>4. CASE Valid(k + 1)
    <3>1. /\ g[k + 1] = Append(g[k], Entry(k + 1)) /\ g[k] \in Seq(E) /\ Entry(k + 1) \in E
      BY <1>2, <2>1, <2>2, <2>3, <2>4
    <3>2. /\ g[k + 1] \in Seq(E) /\ Len(g[k]) \in Nat /\ Len(g[k + 1]) = Len(g[k]) + 1
          /\ \A i \in 1..Len(g[k]) : g[k + 1][i] = g[k][i]
          /\ g[k + 1][Len(g[k]) + 1] = Entry(k + 1)
      BY <3>1, AppendProperties
    <3>3. ASSUME NEW t \in 1..(k + 1), Valid(t)
          PROVE  \E i \in 1..Len(g[k + 1]) : g[k + 1][i] = Entry(t)
      <4>1. CASE t \in 1..k
        <5>1. PICK i \in 1..Len(g[k]) : g[k][i] = Entry(t)
          BY <2>3, <3>3, <4>1
        <5>2. i \in 1..Len(g[k + 1]) /\ g[k + 1][i] = Entry(t)
          BY <3>2, <5>1
        <5> QED BY <5>2
      <4>2. CASE t = k + 1
        <5>1. Len(g[k]) + 1 \in 1..Len(g[k + 1])
          BY <3>2
        <5> QED BY <3>2, <4>2, <5>1
      <4> QED BY <2>1, <4>1, <4>2
    <3> QED BY <2>1, <3>2, <3>3
  <2>5. CASE ~Valid(k + 1)
    <3>1. g[k + 1] = g[k]
      BY <2>2, <2>5
    <3>2. ASSUME NEW t \in 1..(k + 1), Valid(t)
          PROVE  \E i \in 1..Len(g[k + 1]) : g[k + 1][i] = Entry(t)
      BY <2>1, <2>3, <2>5, <3>1, <3>2
    <3> QED BY <2>1, <2>3, <3>1, <3>2
  <2> QED BY <2>4, <2>5
<1>10. n \in S
  <2> HIDE DEF S
  <2>1. \A k \in 0..n : k \in S
    BY <1>1, <1>8, <1>9, BoundedInduction
  <2> QED BY <1>1, <2>1
<1> QED BY <1>1, <1>7, <1>10 DEF E, Entry, Valid

\* And of all servers: the catalog holds every valid tool of every server
LEMMA AllToolsTaken ==
    ASSUME NEW servers, NEW S, servers \in Seq(S),
           \A s \in DOMAIN servers : \E T : servers[s].tools \in Seq(T)
    PROVE  \A s \in DOMAIN servers : \A t \in DOMAIN servers[s].tools :
              Broker!ValidSchema(servers[s].tools[t]) =>
                 \E i \in 1..Len(Broker!AllTools(servers)) :
                    Broker!AllTools(servers)[i]
                       = Broker!CatalogEntry(servers[s], servers[s].tools[t])
<1> DEFINE n == Len(servers)
           E == UNION {EntriesOf(servers[s]) : s \in DOMAIN servers}
           V == Seq(E)
           Part(k) == Broker!ServerTools(servers[k])
           step == [kv \in (1..n) \X V |-> kv[2] \o Part(kv[1])]
           Takes(f) == f = [k \in 0..n |-> IF k = 0 THEN <<>> ELSE f[k - 1] \o Part(k)]
<1>1. n \in Nat /\ DOMAIN servers = 1..n
  OBVIOUS
<1>2. ASSUME NEW k \in 1..n PROVE Part(k) \in V
  <2>1. PICK T : servers[k].tools \in Seq(T)
    BY <1>1
  <2>2. Part(k) \in Seq(EntriesOf(servers[k]))
    BY <2>1, ServerToolsTaken
  <2>3. EntriesOf(servers[k]) \subseteq E
    BY <1>1
  <2> HIDE DEF E, Part
  <2> QED BY <2>2, <2>3, SeqMonotonic
<1>3. <<>> \in V
  OBVIOUS
<1> HIDE DEF n, E, Part
<1>4. ASSUME NEW a \in V, NEW b \in V PROVE a \o b \in V
  BY ConcatProperties
<1>5. step \in Steps(n, V)
  <2>1. ASSUME NEW kv \in (1..n) \X V PROVE kv[2] \o Part(kv[1]) \in V
    <3>1. kv[1] \in 1..n /\ kv[2] \in V
      OBVIOUS
    <3> HIDE DEF V
    <3> QED BY <1>2, <1>4, <3>1
  <2> HIDE DEF V
  <2> QED BY <2>1 DEF Steps
<1>6. \E f : Unfolds(f, n, V, <<>>, step)
  <2> HIDE DEF step, V
  <2> QED BY <1>1, <1>3, <1>5, RecursionDefines
<1>7. \E f : Takes(f)
  <2>1. PICK f \in [0..n -> V] :
           f[0] = <<>> /\ \A k \in 1..n : f[k] = step[<<k, f[k - 1]>>]
    BY <1>6 DEF Unfolds
  <2>2. ASSUME NEW k \in 1..n PROVE step[<<k, f[k - 1]>>] = f[k - 1] \o Part(k)
    <3>1. k - 1 \in 0..n
      BY <1>1
    <3>2. f[k - 1] \in V
      BY <3>1
    <3>3. <<k, f[k - 1]>> \in (1..n) \X V
      BY <3>2
    <3> HIDE DEF V
    <3> QED BY <3>3
  <2> HIDE DEF step, V
  <2>3. \A k \in 0..n : k = 0 \/ k \in 1..n
    BY <1>1
  <2>4. ASSUME NEW k \in 0..n PROVE f[k] = IF k = 0 THEN <<>> ELSE f[k - 1] \o Part(k)
    BY <2>1, <2>2, <2>3
  <2>5. Takes(f)
    BY <2>1, <2>4
  <2> QED BY <2>5
<1>8. PICK g : Takes(g) /\ Broker!AllTools(servers) = g[n]
  <2>1. Takes(CHOOSE f : Takes(f))
    <3> HIDE DEF Takes
    <3> QED BY <1>7
  <2>2. Broker!AllTools(servers) = (CHOOSE f : Takes(f))[n]
    BY Zenon DEF Broker!AllTools, n, Part
  <2> HIDE DEF Takes
  <2> QED BY <2>1, <2>2
<1> DEFINE Has(q, e) == \E i \in 1..Len(q) : q[i] = e
           Good(k) == g[k] \in V /\ \A s \in 1..k : \A e \in E : Has(Part(s), e) => Has(g[k], e)
           X == {k \in 0..n : Good(k)}
<1>9. ASSUME NEW a \in V, NEW b \in V, NEW e
      PROVE  (Has(a, e) => Has(a \o b, e)) /\ (Has(b, e) => Has(a \o b, e))
  <2>1. /\ Len(a) \in Nat /\ Len(b) \in Nat /\ Len(a \o b) = Len(a) + Len(b)
        /\ \A i \in 1..(Len(a) + Len(b)) :
              (a \o b)[i] = IF i <= Len(a) THEN a[i] ELSE b[i - Len(a)]
    BY ConcatProperties
  <2> DEFINE m == Len(a)
             l == Len(b)
             c == a \o b
  <2> HIDE DEF V, m, l, c
  <2>2. ASSUME NEW i \in 1..m, a[i] = e PROVE Has(c, e)
    <3>1. i \in 1..(m + l) /\ i <= m
      BY <2>1 DEF m, l
    <3>2. c[i] = e /\ i \in 1..Len(c)
      BY <2>1, <2>2, <3>1 DEF m, l, c
    <3> QED BY <3>2
  <2>3. ASSUME NEW i \in 1..l, b[i] = e PROVE Has(c, e)
    <3>1. m + i \in 1..(m + l) /\ ~(m + i <= m) /\ (m + i) - m = i
      BY <2>1 DEF m, l
    <3>2. c[m + i] = b[i] /\ m + i \in 1..Len(c)
      BY <2>1, <3>1 DEF m, l, c
    <3>3. c[m + i] = e
      BY <2>3, <3>2
    <3> QED BY <3>2, <3>3
  <2> QED BY <2>2, <2>3 DEF m, l, c
<1>10. 0 \in X
  <2>1. g[0] = <<>> /\ 0 \in 0..n
    BY <1>1, <1>8
  <2>2. \A s \in 1..0 : FALSE
    OBVIOUS
  <2> HIDE DEF Takes, V
  <2> QED BY <1>3, <2>1, <2>2
<1>11. ASSUME NEW k \in 0..(n - 1), k \in X PROVE k + 1 \in X
  <2>1. /\ k + 1 \in 0..n /\ k + 1 \in 1..n /\ (k + 1) - 1 = k /\ k + 1 # 0
        /\ 1..(k + 1) = (1..k) \cup {k + 1}
    BY <1>1
  <2>2. g[k + 1] = g[k] \o Part(k + 1)
    BY <1>8, <2>1
  <2>3. Good(k)
    BY <1>11
  <2> HIDE DEF Takes, V, Has
  <2>4. g[k] \in V /\ Part(k + 1) \in V
    BY <1>2, <2>1, <2>3
  <2>5. g[k + 1] \in V
    BY <1>4, <2>2, <2>4
  <2>6. ASSUME NEW s \in 1..(k + 1), NEW e \in E, Has(Part(s), e) PROVE Has(g[k + 1], e)
    <3>1. CASE s \in 1..k
      BY <1>9, <2>2, <2>3, <2>4, <2>6, <3>1
    <3>2. CASE s = k + 1
      BY <1>9, <2>2, <2>4, <2>6, <3>2
    <3> QED BY <2>1, <3>1, <3>2
  <2> QED BY <2>1, <2>5, <2>6
<1>12. Good(n)
  <2> HIDE DEF X
  <2>1. \A k \in 0..n : k \in X
    BY <1>1, <1>10, <1>11, BoundedInduction
  <2>2. n \in X
    BY <1>1, <2>1
  <2> HIDE DEF Good
  <2> QED BY <2>2 DEF X
<1> SUFFICES ASSUME NEW s \in DOMAIN servers, NEW t \in DOMAIN servers[s].tools,
                    Broker!ValidSchema(servers[s].tools[t])
             PROVE  \E i \in 1..Len(Broker!AllTools(servers)) :
                       Broker!AllTools(servers)[i]
                          = Broker!CatalogEntry(servers[s], servers[s].tools[t])
  OBVIOUS
<1> DEFINE e == Broker!CatalogEntry(servers[s], servers[s].tools[t])
<1>13. e \in E
  BY DEF E, EntriesOf
<1>14. Has(Part(s), e)
  <2>1. PICK T : servers[s].tools \in Seq(T)
    OBVIOUS
  <2> QED BY <2>1, ServerToolsTaken DEF Part
<1>15. s \in 1..n
  BY <1>1
<1>16. Has(g[n], e)
  <2> HIDE DEF Has, e
  <2> QED BY <1>12, <1>13, <1>14, <1>15
<1> DEFINE q == Broker!AllTools(servers)
<1>17. Has(q, e)
  <2> HIDE DEF Has, e, Takes
  <2> QED BY <1>8, <1>16
<1> HIDE DEF q, e
<1>18. \E i \in 1..Len(q) : q[i] = e
  BY <1>17
<1> QED BY <1>18, Zenon DEF q, e

\* What an answer tells of the request it answers
Entries == Broker!BuildCatalog(broker_config).entries
VersionAgreed(r, a) ==
    a.version # None =>
        /\ a.version \in Implemented
        /\ r.call.version \in broker_config.supported => a.version = r.call.version
Correlates(r, a) ==
    (r.path = broker_config.path.name /\ r.verb = "POST" /\ r.body = "call") =>
        IF r.call.id.kind \in {"String", "Integer"} THEN a.id = r.call.id
        ELSE \/ a.status = 202 /\ a.id = None /\ r.call.method = "notification"
             \/ a.error = -32600
TellsOf(r, a) ==
    a.tools \in {<<>>, Entries} /\ VersionAgreed(r, a) /\ Correlates(r, a)

LEMMA ReplyFields ==
    ASSUME NEW x
    PROVE  /\ LET a == Broker!Reply(x)
              IN a.status = x /\ a.id = None /\ a.version = None /\ a.session = None
                 /\ a.tools = <<>>
           /\ LET a == Broker!Rpc(x)
              IN a.id = x /\ a.version = None /\ a.session = None /\ a.tools = <<>>
           /\ \A error : LET a == [Broker!Rpc(x) EXCEPT !.error = error]
              IN a.error = error /\ a.id = x /\ a.version = None /\ a.session = None
                 /\ a.tools = <<>>
           /\ \A tools : LET a == [Broker!Rpc(x) EXCEPT !.tools = tools]
              IN a.id = x /\ a.version = None /\ a.session = None /\ a.tools = tools
           /\ \A version, session :
                 LET a == [Broker!Rpc(x) EXCEPT !.version = version, !.session = session]
              IN a.id = x /\ a.version = version /\ a.session = session /\ a.tools = <<>>
<1>1. \A st : Broker!Reply(st) = [status |-> st, id |-> None, error |-> None,
                                 version |-> None, session |-> None, tools |-> <<>>]
  BY DEF Broker!Reply
<1>2. Broker!Rpc(x) = [status |-> 200, id |-> x, error |-> None,
                       version |-> None, session |-> None, tools |-> <<>>]
  BY <1>1 DEF Broker!Rpc
<1> QED BY <1>1, <1>2

\* dispatch_method answers a call under its id, with a version both speak and
\* with the session it was given
LEMMA DispatchTells ==
    ASSUME Broker!ValidConfig(broker_config), NEW r, NEW next, NEW a,
           a = Broker!DispatchMethod(broker_config, Entries, r.call, next)
    PROVE  TellsOf(r, a) /\ a.session \in {None, next}
<1> DEFINE call == r.call
           Typed == /\ a.tools \in {<<>>, Entries} /\ a.session \in {None, next}
                    /\ VersionAgreed(r, a)
           Matched == IF call.id.kind \in {"String", "Integer"} THEN a.id = call.id
                      ELSE \/ a.status = 202 /\ a.id = None /\ call.method = "notification"
                           \/ a.error = -32600
<1> SUFFICES Typed /\ Matched
  BY DEF TellsOf, Correlates
<1>1. CASE a = Broker!InvalidRequest(call)
  <2>1. PICK id : /\ a = [Broker!Rpc(id) EXCEPT !.error = -32600]
                  /\ call.id.kind \in {"String", "Integer"} => id = call.id
    BY <1>1 DEF Broker!InvalidRequest
  <2>2. a.error = -32600 /\ a.id = id /\ a.version = None /\ a.session = None /\ a.tools = <<>>
    BY <2>1, ReplyFields
  <2> QED BY <2>1, <2>2 DEF VersionAgreed
<1>2. CASE call.method = "notification"
  <2>1. a = Broker!HandleNotification(call)
    BY <1>2 DEF Broker!DispatchMethod
  <2>2. CASE call.kind = "Notification" /\ call.id.kind = "Missing"
    <3>1. a = Broker!Reply(202)
      BY <2>1, <2>2 DEF Broker!HandleNotification
    <3>2. a.status = 202 /\ a.id = None /\ a.version = None /\ a.session = None /\ a.tools = <<>>
      BY <3>1, ReplyFields
    <3> QED BY <1>2, <2>2, <3>2 DEF VersionAgreed
  <2> QED BY <1>1, <2>1, <2>2 DEF Broker!HandleNotification
<1>3. CASE call.method # "notification" /\ ~Broker!ValidRequestId(call)
  <2>1. a = Broker!InvalidRequest(call)
    BY <1>3 DEF Broker!DispatchMethod
  <2> QED BY <1>1, <2>1
<1>4. CASE call.method # "notification" /\ Broker!ValidRequestId(call)
  <2>0. call.id.kind \in {"String", "Integer"}
    BY <1>4 DEF Broker!ValidRequestId
  <2>1. CASE call.method = "initialize"
    <3> DEFINE version == Broker!NegotiateVersion(broker_config, call.version)
    <3>1. a = [Broker!Rpc(call.id) EXCEPT !.version = version, !.session = next]
      BY <1>4, <2>1 DEF Broker!DispatchMethod
    <3>2. /\ version \in Implemented
          /\ call.version \in broker_config.supported => version = call.version
      BY DEF Broker!NegotiateVersion, Broker!ValidConfig, Broker!ValidVersions
    <3> HIDE DEF version
    <3>3. a.id = call.id /\ a.version = version /\ a.session = next /\ a.tools = <<>>
      BY <3>1, ReplyFields
    <3> QED BY <2>0, <3>2, <3>3 DEF VersionAgreed
  <2>2. CASE call.method = "tools/list"
    <3>1. a = [Broker!Rpc(call.id) EXCEPT !.tools = Entries]
      BY <1>4, <2>2 DEF Broker!DispatchMethod
    <3>2. a.id = call.id /\ a.version = None /\ a.session = None /\ a.tools = Entries
      BY <3>1, ReplyFields
    <3> QED BY <2>0, <3>2 DEF VersionAgreed
  <2>3. CASE call.method = "ping"
    <3>1. a = Broker!Rpc(call.id)
      BY <1>4, <2>3 DEF Broker!DispatchMethod
    <3>2. a.id = call.id /\ a.version = None /\ a.session = None /\ a.tools = <<>>
      BY <3>1, ReplyFields
    <3> QED BY <2>0, <3>2 DEF VersionAgreed
  <2>4. CASE call.method \notin {"initialize", "tools/list", "ping"}
    <3>1. a = [Broker!Rpc(call.id) EXCEPT !.error = -32601]
      BY <1>4, <2>4 DEF Broker!DispatchMethod
    <3>2. a.id = call.id /\ a.version = None /\ a.session = None /\ a.tools = <<>>
      BY <3>1, ReplyFields
    <3> QED BY <2>0, <3>2 DEF VersionAgreed
  <2> QED BY <2>1, <2>2, <2>3, <2>4
<1> QED BY <1>2, <1>3, <1>4

LEMMA HeadersTell ==
    ASSUME NEW r, NEW a, a = Broker!OnRequest(broker_config, r), a # None
    PROVE  TellsOf(r, a) /\ a.session = None
<1>1. ~(r.path = broker_config.path.name /\ r.verb = "POST")
  BY DEF Broker!OnRequest
<1>2. \E status : a = Broker!Reply(status)
  <2>1. CASE r.path # broker_config.path.name
    BY <2>1 DEF Broker!OnRequest
  <2>2. CASE r.path = broker_config.path.name /\ r.verb = "DELETE"
    <3>1. r.verb # "POST" /\ ~(r.path # broker_config.path.name)
      BY <2>2
    <3>2. a = Broker!Reply(IF r.session THEN 204 ELSE 400)
      BY <2>2, <3>1 DEF Broker!OnRequest
    <3> QED BY <3>2
  <2>3. CASE r.path = broker_config.path.name /\ r.verb # "DELETE"
    <3>1. r.verb # "POST" /\ ~(r.path # broker_config.path.name)
      BY <1>1, <2>3
    <3>2. a = Broker!Reply(405)
      BY <2>3, <3>1 DEF Broker!OnRequest
    <3> QED BY <3>2
  <2> QED BY <2>1, <2>2, <2>3
<1>3. a.version = None /\ a.session = None /\ a.tools = <<>>
  BY <1>2, ReplyFields
<1> QED BY <1>1, <1>3 DEF TellsOf, VersionAgreed, Correlates

LEMMA BodyTells ==
    ASSUME Broker!ValidConfig(broker_config), NEW r, NEW next, NEW a,
           a = Broker!OnRequestBody(broker_config, Entries, r, next), a # Forwarded
    PROVE  TellsOf(r, a) /\ a.session \in {None, next}
<1>1. CASE r.body \in {"not_json", "no_method"}
  <2>1. a = Broker!Reply(400)
    BY <1>1 DEF Broker!OnRequestBody
  <2>2. a.version = None /\ a.session = None /\ a.tools = <<>>
    BY <2>1, ReplyFields
  <2> QED BY <1>1, <2>2 DEF TellsOf, VersionAgreed, Correlates
<1>2. CASE r.body \notin {"none", "not_json", "no_method"}
  <2>1. a = Broker!DispatchMethod(broker_config, Entries, r.call, next)
    BY <1>2 DEF Broker!OnRequestBody
  <2> QED BY <2>1, DispatchTells
<1>3. r.body # "none"
  BY DEF Broker!OnRequestBody
<1> QED BY <1>1, <1>2, <1>3

Answered(k) == clients[k].answer # Forwarded
InHand == posted # None /\ answered \notin {None, Forwarded}
SessionsApart ==
    /\ issued \in Nat
    /\ \A k \in DOMAIN clients : Answered(k) =>
          clients[k].answer.session \in {None} \cup (1..issued)
    /\ \A j, k \in DOMAIN clients :
          (Answered(j) /\ Answered(k) /\ clients[j].answer.session # None
             /\ clients[j].answer.session = clients[k].answer.session) => j = k
    /\ InHand =>
          /\ answered.session \in {None} \cup (1..issued)
          /\ answered.session # None =>
                \A k \in DOMAIN clients : Answered(k) => clients[k].answer.session # answered.session
BrokerInv ==
    /\ broker_config \in BrokerConfigs
    /\ \E S : clients \in Seq(S)
    /\ broker = "serving" => Broker!ValidConfig(broker_config) /\ catalog = Entries
    /\ posted # None \/ clients # <<>> => broker = "serving"
    /\ InHand => TellsOf(posted, answered)
    /\ \A k \in DOMAIN clients :
          Answered(k) => TellsOf(clients[k].request, clients[k].answer)
    /\ SessionsApart

LEMMA TellsStay ==
    ASSUME NEW r, NEW a, broker_config' = broker_config, TellsOf(r, a)
    PROVE  TellsOf(r, a)'
BY DEF TellsOf, VersionAgreed, Correlates, Entries

\* A step that answers nobody and issues nothing
LEMMA BrokerQuiet ==
    ASSUME BrokerInv, broker_config' = broker_config, clients' = clients, issued' = issued,
           broker' = "serving" => Broker!ValidConfig(broker_config) /\ catalog' = Entries,
           posted' # None \/ clients # <<>> => broker' = "serving",
           InHand' => TellsOf(posted, answered)' /\ answered'.session = None
    PROVE  BrokerInv'
<1>1. Entries' = Entries /\ (Broker!ValidConfig(broker_config))' = Broker!ValidConfig(broker_config)
  BY DEF Entries
<1>2. \A k \in DOMAIN clients : Answered(k) =>
         TellsOf(clients[k].request, clients[k].answer)'
  <2> SUFFICES ASSUME NEW k \in DOMAIN clients, Answered(k)
               PROVE  TellsOf(clients[k].request, clients[k].answer)'
    OBVIOUS
  <2>1. TellsOf(clients[k].request, clients[k].answer)
    BY DEF BrokerInv
  <2> QED BY <2>1 DEF TellsOf, VersionAgreed, Correlates, Entries
<1>3. SessionsApart'
  BY DEF BrokerInv, SessionsApart, Answered
<1> QED BY <1>1, <1>2, <1>3 DEF BrokerInv, Answered

LEMMA BodyEndsSound ==
    ASSUME BrokerInv, Broker!BodyEnds
    PROVE  BrokerInv'
<1>1. /\ posted # None /\ posted' = posted /\ broker_config' = broker_config /\ broker' = broker
      /\ catalog' = catalog /\ clients' = clients
      /\ answered' = Broker!OnRequestBody(broker_config, catalog, posted, issued + 1)
      /\ issued' = IF answered' # Forwarded /\ answered'.session # None THEN issued + 1 ELSE issued
  BY DEF Broker!BodyEnds
<1>2. /\ broker = "serving" /\ Broker!ValidConfig(broker_config) /\ catalog = Entries /\ issued \in Nat
  BY <1>1 DEF BrokerInv, SessionsApart
<1>3. PICK a : a = answered'
  OBVIOUS
<1>4. a # Forwarded => TellsOf(posted, a) /\ a.session \in {None, issued + 1}
  BY <1>1, <1>2, <1>3, BodyTells
<1>5. InHand' => TellsOf(posted, answered)'
  <2> SUFFICES ASSUME InHand' PROVE TellsOf(posted, answered)'
    OBVIOUS
  <2>1. a # Forwarded
    BY <1>3 DEF InHand
  <2> QED BY <1>1, <1>3, <1>4, <2>1 DEF TellsOf, VersionAgreed, Correlates, Entries
<1>6. \A k \in DOMAIN clients' : Answered(k)' =>
         TellsOf(clients[k].request, clients[k].answer)'
  <2> SUFFICES ASSUME NEW k \in DOMAIN clients, Answered(k)
               PROVE  TellsOf(clients[k].request, clients[k].answer)'
    BY <1>1 DEF Answered
  <2>1. TellsOf(clients[k].request, clients[k].answer)
    BY DEF BrokerInv
  <2> QED BY <1>1, <2>1 DEF TellsOf, VersionAgreed, Correlates, Entries
<1>7. SessionsApart'
  <2>1. issued' \in Nat /\ issued <= issued'
    BY <1>1, <1>2
  <2>2. ASSUME NEW k \in DOMAIN clients, Answered(k)
        PROVE  clients[k].answer.session \in {None} \cup (1..issued')
    <3>1. clients[k].answer.session \in {None} \cup (1..issued)
      BY <2>2 DEF BrokerInv, SessionsApart
    <3> QED BY <1>2, <2>1, <3>1
  <2>3. ASSUME InHand', a.session # None
        PROVE  /\ a.session = issued + 1 /\ issued' = issued + 1
               /\ \A k \in DOMAIN clients : Answered(k) => clients[k].answer.session # a.session
    <3>1. a # Forwarded
      BY <1>3, <2>3 DEF InHand
    <3>2. a.session = issued + 1 /\ issued' = issued + 1
      BY <1>1, <1>3, <1>4, <2>3, <3>1
    <3>3. ASSUME NEW k \in DOMAIN clients, Answered(k)
          PROVE  clients[k].answer.session # a.session
      <4>1. clients[k].answer.session \in {None} \cup (1..issued)
        BY <3>3 DEF BrokerInv, SessionsApart
      <4> QED BY <1>2, <2>3, <3>2, <4>1
    <3> QED BY <3>2, <3>3
  <2>4. InHand' =>
          /\ answered'.session \in {None} \cup (1..issued')
          /\ answered'.session # None =>
                \A k \in DOMAIN clients : Answered(k) => clients[k].answer.session # answered'.session
    BY <1>2, <1>3, <2>3
  <2>5. \A k : Answered(k)' <=> Answered(k)
    BY <1>1 DEF Answered
  <2>6. \A j, k \in DOMAIN clients :
          (Answered(j) /\ Answered(k) /\ clients[j].answer.session # None
             /\ clients[j].answer.session = clients[k].answer.session) => j = k
    BY DEF BrokerInv, SessionsApart
  <2> QED BY <1>1, <2>1, <2>2, <2>4, <2>5, <2>6 DEF SessionsApart
<1>8. Entries' = Entries
  BY <1>1 DEF Entries
<1> QED BY <1>1, <1>2, <1>5, <1>6, <1>7, <1>8 DEF BrokerInv

LEMMA DeliverSound ==
    ASSUME BrokerInv, Broker!Deliver
    PROVE  BrokerInv'
<1> DEFINE c == [request |-> posted, answer |-> answered]
<1>1. /\ posted # None /\ answered # None /\ clients' = Append(clients, c) /\ posted' = None
      /\ answered' = None /\ broker_config' = broker_config /\ broker' = broker /\ catalog' = catalog
      /\ issued' = issued
  BY DEF Broker!Deliver
<1>2. PICK S : clients \in Seq(S)
  BY DEF BrokerInv
<1>0. PICK n \in Nat : n = Len(clients)
  BY <1>2
<1>3. c.request = posted /\ c.answer = answered
  OBVIOUS
<1> HIDE DEF c
<1>4. /\ clients \in Seq(S \cup {c}) /\ c \in S \cup {c}
  BY <1>2
<1>5. /\ n \in Nat /\ clients' \in Seq(S \cup {c}) /\ DOMAIN clients = 1..n
      /\ DOMAIN clients' = (1..n) \cup {n + 1} /\ clients'[n + 1] = c
      /\ \A k \in 1..n : clients'[k] = clients[k]
  BY <1>0, <1>1, <1>4, AppendProperties
<1>6. \A k \in 1..n : Answered(k)' <=> Answered(k)
  BY <1>5 DEF Answered
<1>7. Answered(n + 1)' => InHand /\ n + 1 \notin 1..n
  BY <1>1, <1>3, <1>5 DEF Answered, InHand
<1>8. Entries' = Entries /\ broker = "serving" /\ Broker!ValidConfig(broker_config) /\ catalog = Entries
  BY <1>1 DEF Entries, BrokerInv
<1>9. \A k \in DOMAIN clients' : Answered(k)' =>
         TellsOf(clients[k].request, clients[k].answer)'
  <2> SUFFICES ASSUME NEW k \in DOMAIN clients', Answered(k)'
               PROVE  TellsOf(clients[k].request, clients[k].answer)'
    OBVIOUS
  <2>1. TellsOf(clients'[k].request, clients'[k].answer)
    <3>1. CASE k \in 1..n
      <4>1. TellsOf(clients[k].request, clients[k].answer)
        BY <1>5, <1>6, <3>1 DEF BrokerInv
      <4> QED BY <1>5, <3>1, <4>1
    <3>2. CASE k = n + 1
      <4>1. TellsOf(posted, answered)
        BY <1>7, <3>2 DEF BrokerInv
      <4> QED BY <1>3, <1>5, <3>2, <4>1
    <3> QED BY <1>5, <3>1, <3>2
  <2> QED BY <1>1, <2>1 DEF TellsOf, VersionAgreed, Correlates, Entries
<1>10. SessionsApart'
  <2>1. issued' \in Nat /\ ~InHand'
    BY <1>1 DEF BrokerInv, SessionsApart, InHand
  <2>2. ASSUME NEW k \in DOMAIN clients', Answered(k)'
        PROVE  clients'[k].answer.session \in {None} \cup (1..issued)
    <3>1. CASE k \in 1..n
      BY <1>5, <1>6, <2>2, <3>1 DEF BrokerInv, SessionsApart
    <3>2. CASE k = n + 1
      BY <1>3, <1>5, <1>7, <2>2, <3>2 DEF BrokerInv, SessionsApart
    <3> QED BY <1>5, <3>1, <3>2
  <2>3. ASSUME NEW j \in 1..n, Answered(n + 1)', Answered(j)', answered.session # None
        PROVE  clients[j].answer.session # answered.session
    <3>1. InHand /\ Answered(j)
      BY <1>6, <1>7, <2>3
    <3> QED BY <1>5, <2>3, <3>1 DEF BrokerInv, SessionsApart
  <2>4. ASSUME NEW j \in 1..n, NEW k \in 1..n, Answered(j)', Answered(k)',
               clients[j].answer.session # None,
               clients[j].answer.session = clients[k].answer.session
        PROVE  j = k
    BY <1>5, <1>6, <2>4 DEF BrokerInv, SessionsApart
  <2>5. ASSUME NEW j \in DOMAIN clients', NEW k \in DOMAIN clients', Answered(j)', Answered(k)',
               clients'[j].answer.session # None,
               clients'[j].answer.session = clients'[k].answer.session
        PROVE  j = k
    <3>1. CASE j \in 1..n /\ k \in 1..n
      BY <1>5, <2>4, <2>5, <3>1
    <3>2. CASE j = n + 1 /\ k \in 1..n
      BY <1>3, <1>5, <2>3, <2>5, <3>2
    <3>3. CASE j \in 1..n /\ k = n + 1
      BY <1>3, <1>5, <2>3, <2>5, <3>3
    <3> QED BY <1>5, <3>1, <3>2, <3>3
  <2> QED BY <1>1, <2>1, <2>2, <2>5 DEF SessionsApart
<1> QED BY <1>1, <1>5, <1>8, <1>9, <1>10 DEF BrokerInv, InHand

LEMMA BrokerStarts ==
    ASSUME ServersListed PROVE Broker!Init => BrokerInv
<1> SUFFICES ASSUME Broker!Init PROVE BrokerInv
  OBVIOUS
<1>1. clients = <<>> /\ clients \in Seq({}) /\ DOMAIN clients = {}
  BY DEF Broker!Init
<1>2. \E S : clients \in Seq(S)
  BY <1>1
<1> QED BY <1>1, <1>2 DEF Broker!Init, BrokerInv, SessionsApart, InHand

LEMMA BrokerSteps ==
    ASSUME ServersListed PROVE BrokerInv /\ [Broker!Next]_Broker!vars => BrokerInv'
<1> SUFFICES ASSUME BrokerInv, [Broker!Next]_Broker!vars PROVE BrokerInv'
  OBVIOUS
<1>1. CASE Broker!Load
  <2>1. posted = None /\ clients = <<>>
    BY <1>1 DEF Broker!Load, BrokerInv
  <2> QED BY <1>1, <2>1, BrokerQuiet DEF Broker!Load, Entries, InHand
<1>2. ASSUME NEW r \in BrokerRequests, Broker!Arrive(r) PROVE BrokerInv'
  <2>1. /\ broker = "serving" /\ broker' = broker /\ catalog' = catalog /\ broker_config' = broker_config
        /\ clients' = clients /\ issued' = issued /\ posted' = r
        /\ answered' = Broker!OnRequest(broker_config, r)
    BY <1>2 DEF Broker!Arrive
  <2>2. PICK a : a = answered'
    OBVIOUS
  <2>3. a # None => TellsOf(r, a) /\ a.session = None
    BY <2>1, <2>2, HeadersTell
  <2>4. InHand' => TellsOf(posted, answered)' /\ answered'.session = None
    <3> SUFFICES ASSUME InHand' PROVE TellsOf(posted, answered)' /\ answered'.session = None
      OBVIOUS
    <3>1. TellsOf(r, a) /\ a.session = None
      BY <2>2, <2>3 DEF InHand
    <3> QED BY <2>1, <2>2, <3>1 DEF TellsOf, VersionAgreed, Correlates, Entries
  <2>5. Broker!ValidConfig(broker_config) /\ catalog = Entries
    BY <2>1 DEF BrokerInv
  <2> QED BY <2>1, <2>4, <2>5, BrokerQuiet
<1>3. CASE Broker!BodyEnds
  BY <1>3, BodyEndsSound
<1>4. CASE Broker!Deliver
  BY <1>4, DeliverSound
<1>5. CASE UNCHANGED Broker!vars
  <2>1. /\ broker_config' = broker_config /\ broker' = broker /\ catalog' = catalog /\ posted' = posted
        /\ answered' = answered /\ issued' = issued /\ clients' = clients
    BY <1>5 DEF Broker!vars
  <2> QED BY <2>1 DEF BrokerInv, SessionsApart, Answered, InHand, TellsOf, VersionAgreed,
                      Correlates, Entries
<1> QED BY <1>1, <1>2, <1>3, <1>4, <1>5 DEF Broker!Next

LEMMA BrokerTells ==
    ASSUME ServersListed PROVE BrokerInv => Broker!BrokerSound
<1> SUFFICES ASSUME BrokerInv PROVE Broker!BrokerSound
  OBVIOUS
<1>1. \A k \in Broker!Answers : /\ k \in DOMAIN clients /\ Answered(k)
                                /\ TellsOf(clients[k].request, clients[k].answer)
  BY DEF BrokerInv, Broker!Answers, Answered
<1>2. Broker!AnswersCorrelate
  BY <1>1 DEF Broker!AnswersCorrelate, TellsOf, Correlates
<1>3. Broker!HandshakeSound
  BY <1>1 DEF Broker!HandshakeSound, TellsOf, VersionAgreed, BrokerInv, SessionsApart
<1>4. Broker!ListedNamesDecide
  <2> SUFFICES ASSUME NEW k \in Broker!Answers, clients[k].answer.tools # <<>>
               PROVE  LET listed == clients[k].answer.tools IN
                      /\ \A i, j \in DOMAIN listed :
                           listed[i].exposed = listed[j].exposed =>
                              /\ listed[i].server = listed[j].server
                              /\ listed[i].original = listed[j].original
                              /\ i = j
                      /\ \A s \in DOMAIN broker_config.servers :
                           \A t \in DOMAIN broker_config.servers[s].tools :
                              Broker!ValidSchema(broker_config.servers[s].tools[t]) =>
                                 \E i \in DOMAIN listed :
                                    /\ listed[i].server = broker_config.servers[s].name
                                    /\ listed[i].original = broker_config.servers[s].tools[t].name
    BY DEF Broker!ListedNamesDecide
  <2>1. clients[k].answer.tools = Entries
    BY <1>1 DEF TellsOf
  <2>2. clients # <<>>
    BY <1>1
  <2>3. Broker!ValidConfig(broker_config) /\ broker_config \in BrokerConfigs
    BY <2>2 DEF BrokerInv
  <2>4. Broker!UniqueExposedNames(Entries)
    BY <2>3 DEF Broker!ValidConfig, Entries
  <2>5. Entries = Broker!AllTools(broker_config.servers)
    BY DEF Entries, Broker!BuildCatalog
  <2>6. PICK S : broker_config.servers \in Seq(S)
    BY <2>3 DEF ServersListed, IsList
  <2>7. \A s \in DOMAIN broker_config.servers : \E T : broker_config.servers[s].tools \in Seq(T)
    BY <2>3 DEF ServersListed, IsList
  <2>8. ASSUME NEW s \in DOMAIN broker_config.servers, NEW t \in DOMAIN broker_config.servers[s].tools,
               Broker!ValidSchema(broker_config.servers[s].tools[t])
        PROVE  \E i \in DOMAIN Entries : /\ Entries[i].server = broker_config.servers[s].name
                                         /\ Entries[i].original = broker_config.servers[s].tools[t].name
    <3>1. PICK i \in 1..Len(Entries) :
             Entries[i] = Broker!CatalogEntry(broker_config.servers[s], broker_config.servers[s].tools[t])
      BY <2>5, <2>6, <2>7, <2>8, AllToolsTaken
    <3> QED BY <3>1 DEF Broker!CatalogEntry
  <2>9. /\ \A i, j \in DOMAIN Entries :
             Entries[i].exposed = Entries[j].exposed =>
                /\ Entries[i].server = Entries[j].server
                /\ Entries[i].original = Entries[j].original
                /\ i = j
    BY <2>4 DEF Broker!UniqueExposedNames
  <2> DEFINE listed == clients[k].answer.tools
  <2>10. listed = Entries
    BY <2>1
  <2> HIDE DEF listed
  <2>11. /\ \A i, j \in DOMAIN listed :
              listed[i].exposed = listed[j].exposed =>
                 /\ listed[i].server = listed[j].server
                 /\ listed[i].original = listed[j].original
                 /\ i = j
    BY <2>9, <2>10
  <2>12. \A s \in DOMAIN broker_config.servers : \A t \in DOMAIN broker_config.servers[s].tools :
            Broker!ValidSchema(broker_config.servers[s].tools[t]) =>
               \E i \in DOMAIN listed :
                  /\ listed[i].server = broker_config.servers[s].name
                  /\ listed[i].original = broker_config.servers[s].tools[t].name
    BY <2>8, <2>10
  <2> QED BY <2>11, <2>12, Zenon DEF listed
<1> QED BY <1>2, <1>3, <1>4 DEF Broker!BrokerSound

\* build_catalog, initialize and dispatch_method: for any servers and any
\* sequence of requests, a listed tool name means one tool of one server and
\* every valid tool is listed, a handshake ends with a version both sides
\* speak and a session of its own, and answers carry the ids of their calls.
THEOREM BrokerIsSound == ASSUME ServersListed PROVE Spec => []BrokerSound
<1> DEFINE Inv == subject = "broker" => BrokerInv
<1>1. Init => Inv
  BY BrokerStarts DEF Init
<1>2. Inv /\ [Next]_vars => Inv'
  <2> SUFFICES ASSUME Inv, [Next]_vars, subject' = "broker" PROVE BrokerInv'
    OBVIOUS
  <2>1. subject = "broker" /\ [Broker!Next]_(Broker!vars)
    BY DEF Next, vars, brokerVars, Broker!vars
  <2> QED BY <2>1, BrokerSteps
<1>3. Inv => BrokerSound
  BY BrokerTells DEF BrokerSound
<1> QED BY <1>1, <1>2, <1>3, PTL DEF Spec

-----------------------------------------------------------------------------
(* The mcp and a2a filters (AgentFilters)                                  *)

\* What the call says under each key
Mcp == Agent!McpEnvelope(called.call, called.headers)
A2a == Agent!A2aEnvelope(called.call, called.headers, agent_config.aliases)
Boolean(b) == IF b THEN "true" ELSE "false"
Says(f) ==
    \/ f[1] \in {"json_rpc.method", "mcp.method", "mcp-method"} /\ f[2] = called.call.method.v
    \/ f[1] \in {"json_rpc.kind", "mcp.kind", "a2a.kind"} /\ f[2] = called.call.kind
    \/ f[1] \in {"mcp.name", "mcp-name"} /\ f[2] = Mcp.name.v
    \/ f[1] = "mcp.session_id" /\ f[2] = Mcp.session.v
    \/ f[1] = "mcp.session_present" /\ f[2] = Boolean(Mcp.session # None)
    \/ f[1] = "mcp.protocol_version" /\ f[2] = Mcp.version.v
    \/ f[1] = "a2a.method" /\ f[2] = A2a.method.v
    \/ f[1] = "a2a.original_method" /\ f[2] = A2a.original.v
    \/ f[1] = "a2a.family" /\ f[2] = A2a.family
    \/ f[1] = "a2a.streaming" /\ f[2] = Boolean(A2a.streaming)
    \/ f[1] = "a2a.task_id" /\ f[2] = A2a.task_id.v
    \/ f[1] = "a2a.version" /\ f[2] = A2a.version.v
Keyed(F, K) == \A f \in F : f[1] \in K /\ Says(f)

\* A key has one value
LEMMA SaysOne ==
    ASSUME NEW f, NEW g, Says(f), Says(g), f[1] = g[1]
    PROVE  f[2] = g[2]
BY DEF Says

LEMMA ToldFact ==
    ASSUME NEW g, NEW f \in Agent!Told(g)
    PROVE  \E k \in DOMAIN g : g[k] # None /\ f[1] = k /\ f[2] = g[k].v
BY DEF Agent!Told

LEMMA GivenIf ==
    ASSUME NEW b, NEW x, Agent!If(b, x) # None
    PROVE  Agent!If(b, x) = x
BY DEF Agent!If

LEMMA NamedSays ==
    ASSUME NEW b
    PROVE  Agent!Named(b).v = Boolean(b)
BY DEF Agent!Named, Boolean, Agent!Value

McpMetadataKeys == {"json_rpc.method", "mcp.method", "json_rpc.kind", "mcp.name",
                    "mcp.session_id", "mcp.protocol_version"}
McpFactKeys == {"mcp.method", "mcp.name", "mcp.protocol_version", "mcp.kind",
                "mcp.session_present"}

LEMMA McpMetadataSays == Keyed(Agent!McpMetadata(called.call, Mcp), McpMetadataKeys)
<1> DEFINE g == [k \in McpMetadataKeys |->
        CASE k \in {"json_rpc.method", "mcp.method"} ->
                Agent!If(Agent!Promotable(Mcp.method), Mcp.method)
          [] k = "json_rpc.kind"        -> Agent!Value(called.call.kind)
          [] k = "mcp.name"             -> Agent!If(Agent!Promotable(Mcp.name), Mcp.name)
          [] k = "mcp.session_id"       -> Agent!If(Agent!Clean(Mcp.session), Mcp.session)
          [] k = "mcp.protocol_version" -> Agent!If(Agent!Clean(Mcp.version), Mcp.version)]
<1>1. Agent!McpMetadata(called.call, Mcp) = Agent!Told(g)
  BY DEF Agent!McpMetadata, McpMetadataKeys
<1>2. DOMAIN g = McpMetadataKeys
  OBVIOUS
<1>3. /\ g["json_rpc.method"] = Agent!If(Agent!Promotable(Mcp.method), Mcp.method)
      /\ g["mcp.method"] = Agent!If(Agent!Promotable(Mcp.method), Mcp.method)
      /\ g["json_rpc.kind"] = Agent!Value(called.call.kind)
      /\ g["mcp.name"] = Agent!If(Agent!Promotable(Mcp.name), Mcp.name)
      /\ g["mcp.session_id"] = Agent!If(Agent!Clean(Mcp.session), Mcp.session)
      /\ g["mcp.protocol_version"] = Agent!If(Agent!Clean(Mcp.version), Mcp.version)
  BY DEF McpMetadataKeys
<1> HIDE DEF g
<1>4. Mcp.method = called.call.method
  BY DEF Mcp, Agent!McpEnvelope
<1> SUFFICES ASSUME NEW f \in Agent!Told(g) PROVE f[1] \in McpMetadataKeys /\ Says(f)
  BY <1>1 DEF Keyed
<1>5. PICK k \in McpMetadataKeys : g[k] # None /\ f[1] = k /\ f[2] = g[k].v
  BY <1>2, ToldFact
<1>6. CASE k \in {"json_rpc.method", "mcp.method"}
  BY <1>3, <1>4, <1>5, <1>6, GivenIf DEF Says
<1>7. CASE k = "json_rpc.kind"
  BY <1>3, <1>5, <1>7 DEF Says, Agent!Value
<1>8. CASE k = "mcp.name"
  BY <1>3, <1>5, <1>8, GivenIf DEF Says
<1>9. CASE k = "mcp.session_id"
  BY <1>3, <1>5, <1>9, GivenIf DEF Says
<1>10. CASE k = "mcp.protocol_version"
  BY <1>3, <1>5, <1>10, GivenIf DEF Says
<1> QED BY <1>5, <1>6, <1>7, <1>8, <1>9, <1>10 DEF McpMetadataKeys

LEMMA McpHeadersSay == Keyed(Agent!McpHeaders(called.call, Mcp), McpFactKeys)
<1> DEFINE K == agent_config.headers \cap McpFactKeys
           g == [k \in K |->
        CASE k = "mcp.method" -> Agent!If(Agent!Promotable(Mcp.method), Mcp.method)
          [] k = "mcp.name"   -> Agent!If(Agent!Promotable(Mcp.name), Mcp.name)
          [] k = "mcp.protocol_version" -> Agent!If(Agent!Clean(Mcp.version), Mcp.version)
          [] k = "mcp.kind"             -> Agent!Value(called.call.kind)
          [] k = "mcp.session_present"  -> Agent!Named(Mcp.session # None)]
<1>1. Agent!McpHeaders(called.call, Mcp) = Agent!Told(g)
  BY DEF Agent!McpHeaders, McpFactKeys
<1>2. DOMAIN g = K
  OBVIOUS
<1>3. \A k \in K :
      /\ k = "mcp.method" => g[k] = Agent!If(Agent!Promotable(Mcp.method), Mcp.method)
      /\ k = "mcp.kind" => g[k] = Agent!Value(called.call.kind)
      /\ k = "mcp.name" => g[k] = Agent!If(Agent!Promotable(Mcp.name), Mcp.name)
      /\ k = "mcp.session_present" => g[k] = Agent!Named(Mcp.session # None)
      /\ k = "mcp.protocol_version" =>
            g[k] = Agent!If(Agent!Clean(Mcp.version), Mcp.version)
  OBVIOUS
<1> HIDE DEF g
<1>4. Mcp.method = called.call.method
  BY DEF Mcp, Agent!McpEnvelope
<1> SUFFICES ASSUME NEW f \in Agent!Told(g) PROVE f[1] \in McpFactKeys /\ Says(f)
  BY <1>1 DEF Keyed
<1>5. PICK k \in K : g[k] # None /\ f[1] = k /\ f[2] = g[k].v
  BY <1>2, ToldFact
<1>6. CASE k = "mcp.method"
  BY <1>3, <1>4, <1>5, <1>6, GivenIf DEF Says
<1>7. CASE k = "mcp.kind"
  BY <1>3, <1>5, <1>7 DEF Says, Agent!Value
<1>8. CASE k = "mcp.name"
  BY <1>3, <1>5, <1>8, GivenIf DEF Says
<1>9. CASE k = "mcp.session_present"
  BY <1>3, <1>5, <1>9, NamedSays DEF Says
<1>10. CASE k = "mcp.protocol_version"
  BY <1>3, <1>5, <1>10, GivenIf DEF Says
<1> QED BY <1>5, <1>6, <1>7, <1>8, <1>9, <1>10 DEF McpFactKeys

LEMMA McpResultsSay == Keyed(Agent!McpResults(called.call, Mcp), McpFactKeys)
<1> DEFINE g == [k \in McpFactKeys |->
        CASE k = "mcp.method" -> Agent!If(Agent!Clean(Mcp.method), Mcp.method)
          [] k = "mcp.name"   -> Agent!If(Agent!Clean(Mcp.name), Mcp.name)
          [] k = "mcp.protocol_version" -> Agent!If(Agent!Clean(Mcp.version), Mcp.version)
          [] k = "mcp.kind"             -> Agent!Value(called.call.kind)
          [] k = "mcp.session_present"  -> Agent!Named(Mcp.session # None)]
<1>1. Agent!McpResults(called.call, Mcp) = Agent!Told(g)
  BY DEF Agent!McpResults, McpFactKeys
<1>2. DOMAIN g = McpFactKeys
  OBVIOUS
<1>3. \A k \in McpFactKeys :
      /\ k = "mcp.method" => g[k] = Agent!If(Agent!Clean(Mcp.method), Mcp.method)
      /\ k = "mcp.kind" => g[k] = Agent!Value(called.call.kind)
      /\ k = "mcp.name" => g[k] = Agent!If(Agent!Clean(Mcp.name), Mcp.name)
      /\ k = "mcp.session_present" => g[k] = Agent!Named(Mcp.session # None)
      /\ k = "mcp.protocol_version" =>
            g[k] = Agent!If(Agent!Clean(Mcp.version), Mcp.version)
  OBVIOUS
<1> HIDE DEF g
<1>4. Mcp.method = called.call.method
  BY DEF Mcp, Agent!McpEnvelope
<1> SUFFICES ASSUME NEW f \in Agent!Told(g) PROVE f[1] \in McpFactKeys /\ Says(f)
  BY <1>1 DEF Keyed
<1>5. PICK k \in McpFactKeys : g[k] # None /\ f[1] = k /\ f[2] = g[k].v
  BY <1>2, ToldFact
<1>6. CASE k = "mcp.method"
  BY <1>3, <1>4, <1>5, <1>6, GivenIf DEF Says
<1>7. CASE k = "mcp.kind"
  BY <1>3, <1>5, <1>7 DEF Says, Agent!Value
<1>8. CASE k = "mcp.name"
  BY <1>3, <1>5, <1>8, GivenIf DEF Says
<1>9. CASE k = "mcp.session_present"
  BY <1>3, <1>5, <1>9, NamedSays DEF Says
<1>10. CASE k = "mcp.protocol_version"
  BY <1>3, <1>5, <1>10, GivenIf DEF Says
<1> QED BY <1>5, <1>6, <1>7, <1>8, <1>9, <1>10 DEF McpFactKeys

A2aMetadataKeys == {"json_rpc.method", "a2a.method", "json_rpc.kind", "a2a.original_method",
                    "a2a.family", "a2a.streaming", "a2a.task_id", "a2a.version"}
A2aFactKeys == {"a2a.method", "a2a.family", "a2a.task_id", "a2a.kind", "a2a.streaming",
                "a2a.version"}

\* Among the metadata of a2a is the id of the task, when it is usable
LEMMA A2aMetadataSays ==
    /\ Keyed(Agent!A2aMetadata(called.call, A2a), A2aMetadataKeys)
    /\ Agent!Promotable(A2a.task_id) =>
          <<"a2a.task_id", A2a.task_id.v>> \in Agent!A2aMetadata(called.call, A2a)
<1> DEFINE g == [k \in A2aMetadataKeys |->
        CASE k = "json_rpc.method"     ->
                Agent!If(Agent!Promotable(called.call.method), called.call.method)
          [] k = "a2a.method"          -> Agent!If(Agent!Promotable(A2a.method), A2a.method)
          [] k = "json_rpc.kind"       -> Agent!Value(called.call.kind)
          [] k = "a2a.original_method" ->
                Agent!If(Agent!Promotable(A2a.original), A2a.original)
          [] k = "a2a.family"          -> Agent!Value(A2a.family)
          [] k = "a2a.streaming"       -> Agent!Named(A2a.streaming)
          [] k = "a2a.task_id"         -> Agent!If(Agent!Promotable(A2a.task_id), A2a.task_id)
          [] k = "a2a.version"         -> Agent!If(Agent!Promotable(A2a.version), A2a.version)]
<1>1. Agent!A2aMetadata(called.call, A2a) = Agent!Told(g)
  BY DEF Agent!A2aMetadata, A2aMetadataKeys
<1>2. DOMAIN g = A2aMetadataKeys
  OBVIOUS
<1>3. \A k \in A2aMetadataKeys :
      /\ k = "json_rpc.method" =>
            g[k] = Agent!If(Agent!Promotable(called.call.method), called.call.method)
      /\ k = "a2a.method" => g[k] = Agent!If(Agent!Promotable(A2a.method), A2a.method)
      /\ k = "json_rpc.kind" => g[k] = Agent!Value(called.call.kind)
      /\ k = "a2a.original_method" =>
            g[k] = Agent!If(Agent!Promotable(A2a.original), A2a.original)
      /\ k = "a2a.family" => g[k] = Agent!Value(A2a.family)
      /\ k = "a2a.streaming" => g[k] = Agent!Named(A2a.streaming)
      /\ k = "a2a.task_id" => g[k] = Agent!If(Agent!Promotable(A2a.task_id), A2a.task_id)
      /\ k = "a2a.version" => g[k] = Agent!If(Agent!Promotable(A2a.version), A2a.version)
  OBVIOUS
<1> HIDE DEF g
<1>4. ASSUME NEW f \in Agent!Told(g) PROVE f[1] \in A2aMetadataKeys /\ Says(f)
  <2>1. PICK k \in A2aMetadataKeys : g[k] # None /\ f[1] = k /\ f[2] = g[k].v
    BY <1>2, <1>4, ToldFact
  <2>2. CASE k = "json_rpc.method"
    BY <1>3, <2>1, <2>2, GivenIf DEF Says
  <2>3. CASE k = "a2a.method"
    BY <1>3, <2>1, <2>3, GivenIf DEF Says
  <2>4. CASE k = "json_rpc.kind"
    BY <1>3, <2>1, <2>4 DEF Says, Agent!Value
  <2>5. CASE k = "a2a.original_method"
    BY <1>3, <2>1, <2>5, GivenIf DEF Says
  <2>6. CASE k = "a2a.family"
    BY <1>3, <2>1, <2>6 DEF Says, Agent!Value
  <2>7. CASE k = "a2a.streaming"
    BY <1>3, <2>1, <2>7, NamedSays DEF Says
  <2>8. CASE k = "a2a.task_id"
    BY <1>3, <2>1, <2>8, GivenIf DEF Says
  <2>9. CASE k = "a2a.version"
    BY <1>3, <2>1, <2>9, GivenIf DEF Says
  <2> QED BY <2>1, <2>2, <2>3, <2>4, <2>5, <2>6, <2>7, <2>8, <2>9 DEF A2aMetadataKeys
<1>5. ASSUME Agent!Promotable(A2a.task_id)
      PROVE  <<"a2a.task_id", A2a.task_id.v>> \in Agent!Told(g)
  <2>1. "a2a.task_id" \in A2aMetadataKeys /\ g["a2a.task_id"] = A2a.task_id
    BY <1>3, <1>5 DEF A2aMetadataKeys, Agent!If
  <2>2. A2a.task_id # None
    BY <1>5 DEF Agent!Promotable
  <2> QED BY <1>2, <2>1, <2>2 DEF Agent!Told
<1> QED BY <1>1, <1>4, <1>5 DEF Keyed

LEMMA A2aFactsSay == Keyed(Agent!Told(Agent!A2aFacts(called.call, A2a)), A2aFactKeys)
<1> DEFINE g == Agent!A2aFacts(called.call, A2a)
<1>2. DOMAIN g = A2aFactKeys
  BY DEF Agent!A2aFacts, A2aFactKeys
<1>3. /\ g["a2a.method"] = Agent!If(Agent!Promotable(A2a.method), A2a.method)
      /\ g["a2a.kind"] = Agent!Value(called.call.kind)
      /\ g["a2a.family"] = Agent!Value(A2a.family)
      /\ g["a2a.streaming"] = Agent!Named(A2a.streaming)
      /\ g["a2a.task_id"] = Agent!If(Agent!Promotable(A2a.task_id), A2a.task_id)
      /\ g["a2a.version"] = Agent!If(Agent!Promotable(A2a.version), A2a.version)
  BY DEF Agent!A2aFacts
<1> HIDE DEF g
<1> SUFFICES ASSUME NEW f \in Agent!Told(g) PROVE f[1] \in A2aFactKeys /\ Says(f)
  BY DEF Keyed, g
<1>5. PICK k \in A2aFactKeys : g[k] # None /\ f[1] = k /\ f[2] = g[k].v
  BY <1>2, ToldFact
<1>6. CASE k = "a2a.method"
  BY <1>3, <1>5, <1>6, GivenIf DEF Says
<1>7. CASE k = "a2a.kind"
  BY <1>3, <1>5, <1>7 DEF Says, Agent!Value
<1>8. CASE k = "a2a.family"
  BY <1>3, <1>5, <1>8 DEF Says, Agent!Value
<1>9. CASE k = "a2a.streaming"
  BY <1>3, <1>5, <1>9, NamedSays DEF Says
<1>10. CASE k = "a2a.task_id"
  BY <1>3, <1>5, <1>10, GivenIf DEF Says
<1>11. CASE k = "a2a.version"
  BY <1>3, <1>5, <1>11, GivenIf DEF Says
<1> QED BY <1>5, <1>6, <1>7, <1>8, <1>9, <1>10, <1>11 DEF A2aFactKeys

LEMMA SynthesizedSays ==
    /\ Keyed(Agent!Synthesized(Mcp, called.headers), {"mcp-method", "mcp-name"})
    /\ (\E f \in Agent!Synthesized(Mcp, called.headers) : f[1] = "mcp-name") =>
          Agent!NameVerdict(Mcp, called.headers) = "synthesize"
<1> DEFINE F == Agent!Synthesized(Mcp, called.headers)
<1>1. Mcp.method = called.call.method
  BY DEF Mcp, Agent!McpEnvelope
<1>2. ASSUME NEW f \in F
      PROVE  \/ f = <<"mcp-method", Mcp.method.v>>
             \/ f = <<"mcp-name", Mcp.name.v>>
                /\ Agent!NameVerdict(Mcp, called.headers) = "synthesize"
  BY <1>2 DEF Agent!Synthesized
<1> HIDE DEF F
<1> QED BY <1>1, <1>2 DEF Keyed, Says, F

\* What holds of a run of the chain: everything told is what the call says;
\* only a call that passed the check of its headers has the facts of mcp, a
\* name is synthesized only where the client sent none, the facts of a2a
\* include the task, and an error has the id of the call
AllSaid == \A f \in ctx.metadata \cup ctx.headers \cup ctx.results : Says(f)
McpChecked ==
    (\E f \in ctx.metadata : f[1] = "mcp.method") =>
        called.body = "call" /\ Agent!HeaderVerdict(Mcp, called.headers) = "fine"
NameMissing ==
    (\E f \in ctx.headers : f[1] = "mcp-name") =>
        Agent!NameVerdict(Mcp, called.headers) = "synthesize"
TaskTold ==
    (\E f \in ctx.metadata : f[1] = "a2a.family") =>
        /\ Agent!BuildConfig(agent_config)
        /\ Agent!Promotable(A2a.task_id) => <<"a2a.task_id", A2a.task_id.v>> \in ctx.metadata
IdKept ==
    verdict.code # None => called.body = "call" /\ verdict.id = Agent!RejectionId(called.call)
Built == verdict.action \notin {"loading", "refused"} => Agent!BuildConfig(agent_config)
ContextSound == AllSaid /\ McpChecked /\ NameMissing /\ TaskTold
AgentInv == called \in AgentRequests /\ ContextSound /\ Built /\ IdKept

LEMMA ParsedIsCall ==
    ASSUME Agent!ParseBody(called) = "parsed"
    PROVE  called.body = "call"
<1> SUFFICES ASSUME called.body # "call" PROVE FALSE
  OBVIOUS
<1>1. CASE called.body \in {"none", "batch"}
  BY <1>1 DEF Agent!ParseBody
<1>2. CASE called.body \notin {"none", "batch"}
  <2>1. Agent!ParseBody(called) = CASE agent_config.on_invalid = "continue" -> "continue"
                                     [] agent_config.on_invalid = "reject"   -> "reject"
                                     [] OTHER                          -> "error"
    BY <1>2 DEF Agent!ParseBody
  <2> QED BY <2>1
<1> QED BY <1>1, <1>2

LEMMA AgentStarts ==
    ASSUME Agent!Init
    PROVE  AgentInv
BY DEF Agent!Init, AgentInv, ContextSound, AllSaid, McpChecked, NameMissing, TaskTold, IdKept,
       Built, Agent!Plain

LEMMA SaysKept ==
    ASSUME called' = called, agent_config' = agent_config, NEW f
    PROVE  Says(f)' = Says(f)
BY DEF Says, Mcp, A2a, Agent!McpEnvelope, Agent!A2aEnvelope, Agent!ExtractName,
       Agent!ExtractProtocolVersion, Agent!Canonical, Agent!ExtractTaskId

LEMMA EnvelopesKept ==
    ASSUME called' = called, agent_config' = agent_config
    PROVE  /\ Mcp' = Mcp /\ A2a' = A2a
           /\ Agent!HeaderVerdict(Mcp, called.headers)'
                 = Agent!HeaderVerdict(Mcp, called.headers)
           /\ Agent!NameVerdict(Mcp, called.headers)' = Agent!NameVerdict(Mcp, called.headers)
           /\ Agent!BuildConfig(agent_config)' = Agent!BuildConfig(agent_config)
           /\ Agent!RejectionId(called.call)' = Agent!RejectionId(called.call)
<1>1. Mcp' = Mcp /\ A2a' = A2a
  BY DEF Mcp, A2a
<1> QED BY <1>1 DEF Agent!HeaderVerdict, Agent!NameVerdict, Agent!CheckHeader

LEMMA ContextKept ==
    ASSUME ContextSound, called' = called, agent_config' = agent_config, ctx' = ctx
    PROVE  ContextSound'
<1>1. AllSaid'
  BY SaysKept DEF ContextSound, AllSaid
<1>2. McpChecked' /\ NameMissing' /\ TaskTold'
  BY EnvelopesKept DEF ContextSound, McpChecked, NameMissing, TaskTold
<1> QED BY <1>1, <1>2 DEF ContextSound

LEMMA LoadSound ==
    ASSUME AgentInv, Agent!Load
    PROVE  AgentInv'
<1>1. called' = called /\ agent_config' = agent_config /\ ctx' = ctx
      /\ verdict' = Agent!Plain(IF Agent!BuildConfig(agent_config) THEN "running" ELSE "refused")
  BY DEF Agent!Load
<1>2. ContextSound'
  BY <1>1, ContextKept DEF AgentInv
<1>3. Built'
  BY <1>1, EnvelopesKept DEF Built, Agent!Plain
<1>4. IdKept'
  BY <1>1 DEF IdKept, Agent!Plain
<1> QED BY <1>1, <1>2, <1>3, <1>4 DEF AgentInv

LEMMA NoCallSound ==
    ASSUME AgentInv, NEW x, Agent!NoCall(x)
    PROVE  AgentInv'
<1>1. called' = called /\ agent_config' = agent_config /\ ctx' = ctx
      /\ verdict.action = "running" /\ \E y : verdict' = Agent!Plain(y)
  BY DEF Agent!NoCall, Agent!Running, Agent!Passed
<1>2. ContextSound'
  BY <1>1, ContextKept DEF AgentInv
<1>3. Built'
  BY <1>1, EnvelopesKept DEF AgentInv, Built
<1>4. IdKept'
  BY <1>1 DEF IdKept, Agent!Plain
<1> QED BY <1>1, <1>2, <1>3, <1>4 DEF AgentInv

\* A filter adds what it tells
LEMMA WriteSays ==
    ASSUME AllSaid, NEW M, NEW H, NEW R, Agent!Write(M, H, R),
           called' = called, agent_config' = agent_config,
           \A f \in M \cup H \cup R : Says(f)
    PROVE  AllSaid'
<1>1. ctx'.metadata \subseteq ctx.metadata \cup M /\ ctx'.headers = ctx.headers \cup H
      /\ ctx'.results = ctx.results \cup R
  BY DEF Agent!Write
<1>2. \A f \in ctx'.metadata \cup ctx'.headers \cup ctx'.results : Says(f)
  BY <1>1 DEF AllSaid
<1> QED BY <1>2, SaysKept DEF AllSaid

LEMMA WriteMetadata ==
    ASSUME NEW M, NEW H, NEW R, Agent!Write(M, H, R)
    PROVE  /\ \A f : f \in ctx'.metadata <=>
                        f \in M \/ (f \in ctx.metadata /\ \A g \in M : g[1] # f[1])
           /\ ctx'.headers = ctx.headers \cup H
BY DEF Agent!Write

LEMMA McpWrites ==
    ASSUME AgentInv, NEW H, NEW R, called' = called, agent_config' = agent_config, 
           called.body = "call", Agent!HeaderVerdict(Mcp, called.headers) = "fine",
           H = Agent!Synthesized(Mcp, called.headers) \cup Agent!McpHeaders(called.call, Mcp),
           R \in {{}, Agent!McpResults(called.call, Mcp)},
           Agent!Write(Agent!McpMetadata(called.call, Mcp), H, R)
    PROVE  ContextSound'
<1> DEFINE M == Agent!McpMetadata(called.call, Mcp)
<1>1. Keyed(M, McpMetadataKeys)
  BY McpMetadataSays
<1>2. \A f \in M \cup H \cup R : Says(f)
  BY <1>1, SynthesizedSays, McpHeadersSay, McpResultsSay DEF Keyed
<1> HIDE DEF M
<1>3. AllSaid'
  BY <1>2, WriteSays DEF AgentInv, ContextSound, M
<1>4. McpChecked'
  BY EnvelopesKept DEF McpChecked
<1>5. /\ \A f : f \in ctx'.metadata <=>
                   f \in M \/ (f \in ctx.metadata /\ \A g \in M : g[1] # f[1])
      /\ ctx'.headers = ctx.headers \cup H
  BY WriteMetadata DEF M
<1>6. NameMissing'
  <2>1. \A f \in Agent!McpHeaders(called.call, Mcp) : f[1] # "mcp-name"
    BY McpHeadersSay DEF Keyed, McpFactKeys
  <2> QED BY <1>5, <2>1, SynthesizedSays, EnvelopesKept DEF AgentInv, ContextSound, NameMissing
<1>7. TaskTold'
  <2>1. \A f \in M : f[1] \notin {"a2a.family", "a2a.task_id"}
    BY <1>1 DEF Keyed, McpMetadataKeys
  <2>2. \A x : <<"a2a.task_id", x>> \in ctx.metadata => <<"a2a.task_id", x>> \in ctx'.metadata
    BY <1>5, <2>1
  <2> QED BY <1>5, <2>1, <2>2, EnvelopesKept DEF AgentInv, ContextSound, TaskTold
<1> QED BY <1>3, <1>4, <1>6, <1>7 DEF ContextSound

LEMMA McpSound ==
    ASSUME AgentInv, Agent!McpOnRequestBody
    PROVE  AgentInv'
<1>1. called' = called /\ agent_config' = agent_config /\ verdict.action = "running"
      /\ Agent!ParseBody(called) = "parsed"
  BY DEF Agent!McpOnRequestBody, Agent!Running
<1>2. called.body = "call"
  BY <1>1, ParsedIsCall
<1>3. Built'
  BY <1>1, EnvelopesKept DEF AgentInv, Built
<1>4. ContextSound' /\ IdKept'
  <2>1. CASE /\ Agent!MissingSelector(Mcp) /\ ctx' = ctx
             /\ IF agent_config.on_invalid = "continue" THEN Agent!Passed
                ELSE verdict' = Agent!RpcError(called.call, -32602)
    <3>1. IdKept'
      BY <1>1, <1>2, <2>1, EnvelopesKept
      DEF IdKept, Agent!Passed, Agent!Plain, Agent!RpcError
    <3> QED BY <1>1, <2>1, <3>1, ContextKept DEF AgentInv
  <2>2. CASE /\ ctx' = ctx
             /\ \/ verdict' = Agent!RpcError(called.call, -32001)
                \/ verdict' = Agent!Plain("reject")
    <3>1. IdKept'
      BY <1>1, <1>2, <2>2, EnvelopesKept DEF IdKept, Agent!Plain, Agent!RpcError
    <3> QED BY <1>1, <2>2, <3>1, ContextKept DEF AgentInv
  <2>3. CASE /\ Agent!HeaderVerdict(Mcp, called.headers) = "fine"
             /\ \E y : verdict' = Agent!Plain(y)
             /\ \E R \in {{}, Agent!McpResults(called.call, Mcp)} :
                   Agent!Write(Agent!McpMetadata(called.call, Mcp),
                               Agent!Synthesized(Mcp, called.headers)
                               \cup Agent!McpHeaders(called.call, Mcp), R)
    <3>1. IdKept'
      BY <2>3 DEF IdKept, Agent!Plain
    <3> QED BY <1>1, <1>2, <2>3, <3>1, McpWrites
  <2> QED BY <2>1, <2>2, <2>3 DEF Agent!McpOnRequestBody, Agent!Passed, Mcp
<1> QED BY <1>1, <1>3, <1>4 DEF AgentInv

LEMMA A2aSound ==
    ASSUME AgentInv, Agent!A2aOnRequestBody
    PROVE  AgentInv'
<1> DEFINE M == Agent!A2aMetadata(called.call, A2a)
           H == Agent!A2aHeaders(called.call, A2a)
           R == Agent!A2aResults(called.call, A2a)
<1>1. called' = called /\ agent_config' = agent_config /\ verdict.action = "running"
      /\ Agent!ParseBody(called) = "parsed" /\ (\E y : verdict' = Agent!Plain(y))
      /\ Agent!Write(M, H, R)
  BY DEF Agent!A2aOnRequestBody, Agent!Running, Agent!Passed, A2a
<1>2. Built'
  BY <1>1, EnvelopesKept DEF AgentInv, Built
<1>3. IdKept'
  BY <1>1 DEF IdKept, Agent!Plain
<1>4. Keyed(M, A2aMetadataKeys) /\ Keyed(H, A2aFactKeys) /\ Keyed(R, A2aFactKeys)
  BY A2aMetadataSays, A2aFactsSay DEF Keyed, Agent!A2aHeaders, Agent!A2aResults
<1>5. Agent!Promotable(A2a.task_id) => <<"a2a.task_id", A2a.task_id.v>> \in M
  BY A2aMetadataSays
<1> HIDE DEF M, H, R
<1>6. AllSaid'
  BY <1>1, <1>4, WriteSays DEF AgentInv, ContextSound, Keyed
<1>7. /\ \A f : f \in ctx'.metadata <=>
                   f \in M \/ (f \in ctx.metadata /\ \A g \in M : g[1] # f[1])
      /\ ctx'.headers = ctx.headers \cup H
  BY <1>1, WriteMetadata
<1>8. McpChecked'
  <2>1. \A f \in M : f[1] # "mcp.method"
    BY <1>4 DEF Keyed, A2aMetadataKeys
  <2> QED BY <1>1, <1>7, <2>1, EnvelopesKept DEF AgentInv, ContextSound, McpChecked
<1>9. NameMissing'
  <2>1. \A f \in H : f[1] # "mcp-name"
    BY <1>4 DEF Keyed, A2aFactKeys
  <2> QED BY <1>1, <1>7, <2>1, EnvelopesKept DEF AgentInv, ContextSound, NameMissing
<1>10. TaskTold'
  <2>1. Agent!BuildConfig(agent_config)
    BY <1>1 DEF AgentInv, Built
  <2> QED BY <1>1, <1>5, <1>7, <2>1, EnvelopesKept DEF TaskTold
<1> QED BY <1>1, <1>2, <1>3, <1>6, <1>8, <1>9, <1>10 DEF AgentInv, ContextSound

LEMMA AgentInvKept ==
    ASSUME AgentInv, [Agent!Next]_Agent!vars
    PROVE  AgentInv'
<1>1. CASE UNCHANGED Agent!vars
  <2>1. /\ called' = called /\ agent_config' = agent_config /\ ctx' = ctx /\ verdict' = verdict
    BY <1>1 DEF Agent!vars
  <2>2. ContextSound'
    BY <2>1, ContextKept DEF AgentInv
  <2> QED BY <2>1, <2>2, EnvelopesKept DEF AgentInv, Built, IdKept
<1>2. CASE Agent!Next
  BY <1>2, LoadSound, NoCallSound, McpSound, A2aSound DEF Agent!Next
<1> QED BY <1>1, <1>2

\* Nothing is told twice
LEMMA OneStoryTold ==
    ASSUME AgentInv
    PROVE  Agent!OneStory
<1> SUFFICES ASSUME NEW k
             PROVE  Agent!Cardinality(Agent!ToldOf(ctx.metadata, k)
                                      \cup Agent!ToldOf(ctx.headers, k)
                                      \cup Agent!ToldOf(ctx.results, k)) <= 1
  BY DEF Agent!OneStory
<1> DEFINE S == Agent!ToldOf(ctx.metadata, k) \cup Agent!ToldOf(ctx.headers, k)
                \cup Agent!ToldOf(ctx.results, k)
<1>0. Agent!Cardinality(S) = Cardinality(S)
  BY DEF Agent!Cardinality, Cardinality
<1>1. \A x \in S : \E f : Says(f) /\ f[1] = k /\ f[2] = x
  BY DEF AgentInv, ContextSound, AllSaid, Agent!ToldOf
<1>2. \A x, y \in S : x = y
  BY <1>1, SaysOne
<1> HIDE DEF S
<1>3. Cardinality(S) <= 1
  <2>1. CASE S = {}
    BY <2>1, FS_EmptySet
  <2>2. CASE S # {}
    <3>1. PICK x : S = {x}
      BY <1>2, <2>2
    <3>2. Cardinality(S) = 1
      BY <3>1, FS_Singleton
    <3> QED BY <3>2
  <2> QED BY <2>1, <2>2
<1>4. Agent!Cardinality(S) <= 1
  BY <1>0, <1>3
<1> QED BY <1>4, Zenon DEF S

\* A header of a call that passed is what the body says, or there is none
LEMMA HeaderAgrees ==
    ASSUME NEW h, NEW x, x # None, agent_config.mismatch = "reject",
           Agent!CheckHeader(h, x) \notin {"mismatch", "missing"},
           h # None /\ h.c # "binary" /\ h.v = x.v => h = x
    PROVE  /\ h # None => h = x
           /\ Agent!CheckHeader(h, x) = "synthesize" => h = None
<1>1. ASSUME h # None PROVE h = x /\ Agent!CheckHeader(h, x) # "synthesize"
  <2>1. h.c # "binary" /\ h.v = x.v
    <3> SUFFICES ASSUME Agent!ToStr(h) = None \/ h.v # x.v PROVE FALSE
      BY <1>1 DEF Agent!ToStr
    <3>1. Agent!CheckHeader(h, x) = "mismatch"
      BY <1>1 DEF Agent!CheckHeader
    <3> QED BY <3>1
  <2>2. Agent!CheckHeader(h, x) = "fine"
    BY <1>1, <2>1 DEF Agent!CheckHeader, Agent!ToStr
  <2> QED BY <1>1, <2>1, <2>2
<1> QED BY <1>1

LEMMA HeadersAgree ==
    ASSUME CallsRead, AgentInv
    PROVE  Agent!HeadersMatchBody
<1> DEFINE h == called.headers
           name == Agent!ExtractName(called.call)
<1> SUFFICES ASSUME agent_config.mismatch = "reject", NEW f \in ctx.metadata, f[1] = "mcp.method"
             PROVE  /\ h.mcp_method # None => h.mcp_method = called.call.method
                    /\ h.mcp_name # None => h.mcp_name = name
                    /\ Agent!ToldOf(ctx.headers, "mcp-name") # {} =>
                          h.mcp_name = None
                          /\ Agent!ToldOf(ctx.headers, "mcp-name") = {name.v}
  BY DEF Agent!HeadersMatchBody
<1>1. /\ called \in AgentRequests /\ called.body = "call"
      /\ Agent!HeaderVerdict(Mcp, h) = "fine"
  BY DEF AgentInv, ContextSound, McpChecked
<1>2. Mcp.method = called.call.method /\ Mcp.name = name
  BY DEF Mcp, Agent!McpEnvelope
<1>3. /\ Agent!CheckHeader(h.mcp_method, Mcp.method) \notin {"mismatch", "missing"}
      /\ Agent!NameVerdict(Mcp, h) \notin {"mismatch", "missing"}
  <2> DEFINE m == Agent!CheckHeader(h.mcp_method, Mcp.method)
             n == Agent!NameVerdict(Mcp, h)
  <2>1. Agent!HeaderVerdict(Mcp, h)
           = CASE m \in {"mismatch", "missing"} -> m
               [] m \in {"fine", "synthesize"} /\ n \in {"mismatch", "missing"} -> n
               [] OTHER -> "fine"
    BY DEF Agent!HeaderVerdict
  <2>2. m \in {"mismatch", "missing", "fine", "synthesize"}
    BY DEF Agent!CheckHeader
  <2> HIDE DEF m, n
  <2>3. m \notin {"mismatch", "missing"}
    BY <1>1, <2>1
  <2>4. n \notin {"mismatch", "missing"}
    BY <1>1, <2>1, <2>2, <2>3
  <2> QED BY <2>3, <2>4 DEF m, n
<1>4. /\ called.call.method # None
      /\ name \in {None, called.call.params.name, called.call.params.uri}
      /\ \A y \in {h.mcp_method, h.mcp_name} :
         \A x \in {called.call.method, called.call.params.name, called.call.params.uri} :
            y # None /\ y.c # "binary" /\ x # None /\ y.v = x.v => y = x
  BY <1>1 DEF CallsRead, Agent!ExtractName
<1> HIDE DEF h, name
<1>5. h.mcp_method # None => h.mcp_method = called.call.method
  BY <1>2, <1>3, <1>4, HeaderAgrees
<1>6. CASE name # None
  <2>1. Agent!NameVerdict(Mcp, h) = Agent!CheckHeader(h.mcp_name, name)
    BY <1>2, <1>6 DEF Agent!NameVerdict
  <2>2. /\ h.mcp_name # None => h.mcp_name = name
        /\ Agent!CheckHeader(h.mcp_name, name) = "synthesize" => h.mcp_name = None
    BY <1>3, <1>4, <1>6, <2>1, HeaderAgrees
  <2>3. ASSUME Agent!ToldOf(ctx.headers, "mcp-name") # {}
        PROVE  h.mcp_name = None /\ Agent!ToldOf(ctx.headers, "mcp-name") = {name.v}
    <3>1. \E g \in ctx.headers : g[1] = "mcp-name"
      BY <2>3 DEF Agent!ToldOf
    <3>2. Agent!NameVerdict(Mcp, h) = "synthesize"
      BY <3>1 DEF AgentInv, ContextSound, NameMissing, h
    <3>3. \A g \in ctx.headers : g[1] = "mcp-name" => g[2] = name.v
      BY <1>2 DEF AgentInv, ContextSound, AllSaid, Says
    <3> QED BY <2>1, <2>2, <2>3, <3>2, <3>3 DEF Agent!ToldOf
  <2> QED BY <1>5, <2>2, <2>3
<1>7. CASE name = None
  <2>1. Agent!NameVerdict(Mcp, h) = IF h.mcp_name # None THEN "mismatch" ELSE "fine"
    BY <1>2, <1>7 DEF Agent!NameVerdict
  <2>2. h.mcp_name = None /\ Agent!NameVerdict(Mcp, h) = "fine"
    BY <1>3, <2>1
  <2>3. \A g \in ctx.headers : g[1] # "mcp-name"
    BY <2>2 DEF AgentInv, ContextSound, NameMissing, h
  <2>4. Agent!ToldOf(ctx.headers, "mcp-name") = {}
    BY <2>3 DEF Agent!ToldOf
  <2> QED BY <1>5, <2>2, <2>4
<1> QED BY <1>6, <1>7 DEF h, name

LEMMA IdsAgree ==
    ASSUME CallsRead, AgentInv
    PROVE  Agent!ErrorsKeepId
BY DEF CallsRead, AgentInv, IdKept, Agent!ErrorsKeepId, Agent!RejectionId

\* A method known to A2A has a family
LEMMA KnownFamily ==
    ASSUME NEW m \in Agent!KnownA2aMethods
    PROVE  Agent!FamilyOf(m) # "unknown"
<1>1. CASE m \in {"SendMessage", "SendStreamingMessage"}
  BY <1>1 DEF Agent!FamilyOf, Agent!TaskMethods, Agent!PushMethods
<1>2. CASE m \in Agent!TaskMethods \cup {"ListTasks"}
  BY <1>2 DEF Agent!FamilyOf, Agent!TaskMethods, Agent!PushMethods
<1>3. CASE m \in Agent!PushMethods
  BY <1>3 DEF Agent!FamilyOf, Agent!TaskMethods, Agent!PushMethods
<1>4. CASE m = "GetExtendedAgentCard"
  BY <1>4 DEF Agent!FamilyOf, Agent!TaskMethods, Agent!PushMethods
<1> QED BY <1>1, <1>2, <1>3, <1>4 DEF Agent!KnownA2aMethods

LEMMA TasksAgree ==
    ASSUME AgentInv
    PROVE  Agent!TaskNamed
<1> DEFINE m == Agent!Canonical(called.call.method, agent_config.aliases).v
           id == IF m \in Agent!TaskMethods THEN called.call.params.id
                 ELSE called.call.params.taskId
<1> SUFFICES ASSUME NEW f \in ctx.metadata, f[1] = "a2a.family"
             PROVE  /\ (Agent!IsTaskRoutable(m) /\ Agent!Promotable(id)) =>
                          Agent!ToldOf(ctx.metadata, "a2a.task_id") = {id.v}
                    /\ called.call.method.v \in DOMAIN agent_config.aliases =>
                          Agent!ToldOf(ctx.metadata, "a2a.family") # {"unknown"}
  BY DEF Agent!TaskNamed
<1>1. A2a.method.v = m /\ A2a.family = Agent!FamilyOf(m)
      /\ A2a.task_id = Agent!ExtractTaskId(called.call, m)
  BY DEF A2a, Agent!A2aEnvelope
<1>2. /\ Agent!BuildConfig(agent_config)
      /\ Agent!Promotable(A2a.task_id) => <<"a2a.task_id", A2a.task_id.v>> \in ctx.metadata
  BY DEF AgentInv, ContextSound, TaskTold
<1>3. ASSUME Agent!IsTaskRoutable(m), Agent!Promotable(id)
      PROVE  Agent!ToldOf(ctx.metadata, "a2a.task_id") = {id.v}
  <2>1. m \in Agent!TaskMethods \cup Agent!PushMethods
    BY <1>3 DEF Agent!IsTaskRoutable
  <2>2. A2a.task_id = id
    BY <1>1, <2>1 DEF Agent!ExtractTaskId, Agent!TaskMethods, Agent!PushMethods
  <2> HIDE DEF m, id
  <2>3. <<"a2a.task_id", id.v>> \in ctx.metadata
    BY <1>2, <1>3, <2>2
  <2>4. \A g \in ctx.metadata : g[1] = "a2a.task_id" => g[2] = id.v
    BY <2>2 DEF AgentInv, ContextSound, AllSaid, Says
  <2> QED BY <2>3, <2>4 DEF Agent!ToldOf
<1>4. ASSUME called.call.method.v \in DOMAIN agent_config.aliases
      PROVE  Agent!ToldOf(ctx.metadata, "a2a.family") # {"unknown"}
  <2>1. m = agent_config.aliases[called.call.method.v]
    BY <1>4 DEF Agent!Canonical, Agent!Value
  <2>2. m \in Agent!KnownA2aMethods
    BY <1>2, <1>4, <2>1 DEF Agent!BuildConfig, Agent!ValidAliases
  <2>3. Agent!FamilyOf(m) # "unknown"
    BY <2>2, KnownFamily
  <2>4. f[2] = Agent!FamilyOf(m)
    BY <1>1 DEF AgentInv, ContextSound, AllSaid, Says
  <2>5. f[2] \in Agent!ToldOf(ctx.metadata, "a2a.family")
    BY DEF Agent!ToldOf
  <2> QED BY <2>3, <2>4, <2>5
<1> QED BY <1>3, <1>4

LEMMA CallsStarts ==
    ASSUME CallsRead PROVE Agent!Init => AgentInv
BY AgentStarts

LEMMA CallsSteps ==
    ASSUME CallsRead PROVE AgentInv /\ [Agent!Next]_Agent!vars => AgentInv'
BY AgentInvKept

LEMMA CallsTells ==
    ASSUME CallsRead PROVE AgentInv => Agent!CallsToldOnce
BY OneStoryTold, HeadersAgree, IdsAgree, TasksAgree DEF Agent!CallsToldOnce

(***************************************************************************)
(* Whatever filters are in the chain and in which order: no two readers of *)
(* a call are told different things of it, what mcp passes agrees with the *)
(* client's headers, an error has the id of its call, and the task is told *)
(* under every alias (on_request_body of mcp and of a2a).                  *)
(***************************************************************************)
THEOREM CallsAreToldOnce == ASSUME CallsRead PROVE Spec => []CallsToldOnce
<1> DEFINE Inv == subject = "agent" => AgentInv
<1>1. Init => Inv
  BY CallsStarts DEF Init
<1>2. Inv /\ [Next]_vars => Inv'
  <2> SUFFICES ASSUME Inv, [Next]_vars, subject' = "agent" PROVE AgentInv'
    OBVIOUS
  <2>1. subject = "agent" /\ [Agent!Next]_(Agent!vars)
    BY DEF Next, vars, agentVars, Agent!vars
  <2> QED BY <2>1, CallsSteps
<1>3. Inv => CallsToldOnce
  BY CallsTells DEF CallsToldOnce
<1> QED BY <1>1, <1>2, <1>3, PTL DEF Spec

-----------------------------------------------------------------------------
(* Prompt enrichment and the model header (PromptChain)                    *)

LEMMA ChainIsList ==
    ASSUME PromptsTyped, NEW c \in PromptChains
    PROVE  IsChain(c) /\ Len(c) \in Nat /\ DOMAIN c = 1..Len(c)
<1>1. IsChain(c)
  BY DEF PromptsTyped
<1>2. PICK S : c \in Seq(S)
  BY <1>1 DEF IsChain, IsList
<1> QED BY <1>1, <1>2

Pairs == [before : Seq(Messages), after : Seq(Messages)]
NoPair == [before |-> <<>>, after |-> <<>>]

\* What the filters up to one add, from what those up to the last add
LEMMA AddedUnfolds ==
    ASSUME NEW c, IsChain(c)
    PROVE  /\ Prompt!Added(c)[0] = NoPair
           /\ \A k \in 1..Len(c) : Prompt!Added(c)[k] = Prompt!Around(c[k], Prompt!Added(c)[k - 1])
           /\ \A k \in 0..Len(c) : Prompt!Added(c)[k] \in Pairs
<1> DEFINE n == Len(c)
           step == [kv \in (1..n) \X Pairs |-> Prompt!Around(c[kv[1]], kv[2])]
           Takes(f) == f = [k \in 0 .. Len(c) |->
                               IF k = 0 THEN [before |-> <<>>, after |-> <<>>]
                               ELSE Prompt!Around(c[k], f[k - 1])]
<1>1. n \in Nat /\ DOMAIN c = 1..n
  BY DEF IsChain, IsList
<1>2. \A k \in 0..n : k = 0 \/ (k \in 1..n /\ k > 0 /\ k # 0 /\ k - 1 \in 0..n)
  BY <1>1
<1>3. NoPair \in Pairs
  BY DEF NoPair, Pairs
<1>4. ASSUME NEW k \in 1..n, NEW p \in Pairs PROVE Prompt!Around(c[k], p) \in Pairs
  <2>1. p.before \in Seq(Messages) /\ p.after \in Seq(Messages)
    BY DEF Pairs
  <2>2. CASE c[k].kind = "prompt_enrich"
    <3>1. c[k].prepend \in Seq(Messages) /\ c[k].append \in Seq(Messages)
      BY <1>1, <2>2 DEF IsChain, IsList
    <3>2. c[k].prepend \o p.before \in Seq(Messages) /\ p.after \o c[k].append \in Seq(Messages)
      BY <2>1, <3>1, ConcatProperties
    <3> QED BY <2>2, <3>2 DEF Prompt!Around, Pairs
  <2>3. CASE c[k].kind # "prompt_enrich"
    BY <2>3 DEF Prompt!Around
  <2> QED BY <2>2, <2>3
<1>5. step \in Steps(n, Pairs)
  BY <1>4 DEF Steps
<1> HIDE DEF n
<1>6. \E f : Unfolds(f, n, Pairs, NoPair, step)
  <2> HIDE DEF step
  <2> QED BY <1>1, <1>3, <1>5, RecursionDefines
<1>7. PICK f \in [0..n -> Pairs] :
         f[0] = NoPair /\ \A k \in 1..n : f[k] = step[<<k, f[k - 1]>>]
  BY <1>6 DEF Unfolds
<1>8. ASSUME NEW k \in 1..n PROVE f[k] = Prompt!Around(c[k], f[k - 1])
  <2>1. k - 1 \in 0..n
    BY <1>1
  <2>2. f[k - 1] \in Pairs
    BY <2>1
  <2>3. <<k, f[k - 1]>> \in (1..n) \X Pairs
    BY <2>2
  <2> QED BY <1>7, <2>3
<1> HIDE DEF step
<1>9. ASSUME NEW g, Takes(g)
      PROVE  g[0] = NoPair /\ \A k \in 1..n : g[k] = Prompt!Around(c[k], g[k - 1])
  <2>1. 0 \in 0..Len(c) /\ \A k \in 1..n : k \in 0..Len(c) /\ k # 0
    BY <1>1 DEF n
  <2> QED BY <1>9, <2>1 DEF NoPair
<1>10. Takes(f)
  <2>1. 0..Len(c) = 0..n
    BY DEF n
  <2>2. \A k \in 0..n : f[k] = IF k = 0 THEN NoPair ELSE Prompt!Around(c[k], f[k - 1])
    BY <1>2, <1>7, <1>8
  <2> QED BY <1>7, <2>1, <2>2 DEF NoPair
<1> DEFINE a == Prompt!Added(c)
<1>11. Takes(a)
  <2>1. Takes(CHOOSE g : Takes(g))
    <3> HIDE DEF Takes
    <3> QED BY <1>10
  <2>2. Prompt!Added(c) = CHOOSE g : Takes(g)
    BY Zenon DEF Prompt!Added
  <2> HIDE DEF Takes
  <2> QED BY <2>1, <2>2
<1> HIDE DEF a
<1>12. a[0] = NoPair /\ \A k \in 1..n : a[k] = Prompt!Around(c[k], a[k - 1])
  <2> HIDE DEF Takes
  <2> QED BY <1>9, <1>11
<1>13. \A k \in 0..n : a[k] \in Pairs
  <2> DEFINE S == {k \in 0..n : a[k] \in Pairs}
  <2>1. 0 \in S
    BY <1>1, <1>3, <1>12
  <2>2. ASSUME NEW k \in 0..(n - 1), k \in S PROVE k + 1 \in S
    <3>1. k + 1 \in 1..n /\ k + 1 \in 0..n /\ (k + 1) - 1 = k
      BY <1>1
    <3>2. a[k + 1] = Prompt!Around(c[k + 1], a[k]) /\ a[k] \in Pairs
      BY <1>12, <2>2, <3>1
    <3>3. a[k + 1] \in Pairs
      BY <1>4, <3>1, <3>2
    <3> QED BY <3>1, <3>3
  <2> HIDE DEF S
  <2>3. \A k \in 0..n : k \in S
    BY <1>1, <2>1, <2>2, BoundedInduction
  <2> QED BY <2>3 DEF S
<1> QED BY <1>12, <1>13 DEF a, n

\* Of a chain that was accepted, whatever leads is a system message
LEMMA SystemLeads ==
    ASSUME NEW c, IsChain(c), \A i \in DOMAIN c : Prompt!ValidFilter(c[i])
    PROVE  \A k \in 0..Len(c) : \A i \in 1..Len(Prompt!Added(c)[k].before) :
              Prompt!Added(c)[k].before[i].role = "system"
<1> DEFINE n == Len(c)
           a == Prompt!Added(c)
           S == {k \in 0..n : \A i \in 1..Len(a[k].before) : a[k].before[i].role = "system"}
<1>1. n \in Nat /\ DOMAIN c = 1..n
  BY DEF IsChain, IsList
<1>2. /\ a[0] = NoPair /\ \A k \in 1..n : a[k] = Prompt!Around(c[k], a[k - 1])
      /\ \A k \in 0..n : a[k] \in Pairs
  BY AddedUnfolds
<1> HIDE DEF n, a
<1>3. 0 \in S
  BY <1>1, <1>2 DEF NoPair
<1>4. ASSUME NEW k \in 0..(n - 1), k \in S PROVE k + 1 \in S
  <2> DEFINE l == k + 1
             p == c[l].prepend
             q == a[k].before
  <2>1. k \in 0..n /\ l \in 1..n /\ l \in 0..n /\ l - 1 = k
    BY <1>1
  <2> HIDE DEF l
  <2>2. a[l] = Prompt!Around(c[l], a[l - 1])
    BY <1>2, <2>1
  <2>3. a[l] = Prompt!Around(c[l], a[k]) /\ a[k] \in Pairs
    BY <1>2, <2>1, <2>2
  <2>4. CASE c[l].kind = "prompt_enrich"
    <3>1. p \in Seq(Messages) /\ q \in Seq(Messages)
      BY <1>1, <2>1, <2>3, <2>4 DEF IsChain, IsList, Pairs
    <3>2. Prompt!Around(c[l], a[k])
             = [before |-> p \o q, after |-> a[k].after \o c[l].append]
      BY <2>4 DEF Prompt!Around
    <3>3. \A i \in 1..Len(p) : p[i].role = "system"
      <4>1. Prompt!ValidFilter(c[l])
        BY <1>1, <2>1
      <4>2. Prompt!ValidEnrich(c[l])
        BY <2>4, <4>1 DEF Prompt!ValidFilter
      <4>3. \A i \in DOMAIN p : p[i].role = "system"
        BY <4>2 DEF Prompt!ValidEnrich
      <4> HIDE DEF p
      <4> QED BY <3>1, <4>3
    <3>4. \A i \in 1..Len(q) : q[i].role = "system"
      BY <1>4
    <3> HIDE DEF p, q
    <3>5. a[l].before = p \o q
      BY <2>3, <3>2
    <3>6. /\ Len(p) \in Nat /\ Len(q) \in Nat /\ Len(p \o q) = Len(p) + Len(q)
          /\ \A i \in 1..(Len(p) + Len(q)) :
                (p \o q)[i] = IF i <= Len(p) THEN p[i] ELSE q[i - Len(p)]
      BY <3>1, ConcatProperties
    <3>7. ASSUME NEW i \in 1..Len(p \o q) PROVE (p \o q)[i].role = "system"
      <4>1. CASE i <= Len(p)
        BY <3>3, <3>6, <4>1
      <4>2. CASE ~(i <= Len(p))
        <5>1. i - Len(p) \in 1..Len(q)
          BY <3>6, <4>2
        <5> QED BY <3>4, <3>6, <4>2, <5>1
      <4> QED BY <4>1, <4>2
    <3>8. \A i \in 1..Len(a[l].before) : a[l].before[i].role = "system"
      BY <3>5, <3>7
    <3> QED BY <2>1, <3>8 DEF l
  <2>5. CASE c[l].kind # "prompt_enrich"
    <3>1. a[l] = a[k]
      BY <2>3, <2>5 DEF Prompt!Around
    <3>2. \A i \in 1..Len(a[l].before) : a[l].before[i].role = "system"
      BY <1>4, <3>1
    <3> QED BY <2>1, <3>2 DEF l
  <2> QED BY <2>4, <2>5
<1> HIDE DEF S
<1>5. \A k \in 0..n : k \in S
  BY <1>1, <1>3, <1>4, BoundedInduction
<1> QED BY <1>5 DEF S, n, a

\* A header that is pushed is in effect, and the others stay so
LEMMA PushOne ==
    ASSUME NEW S, extra_headers \in Seq(S), NEW x, extra_headers' = extra_headers \o <<x>>
    PROVE  /\ Prompt!Pushed(x.name)' # {} /\ Prompt!InEffect(x.name)' = x.value
           /\ \A name : name # x.name =>
                 /\ Prompt!Pushed(name)' = Prompt!Pushed(name)
                 /\ Prompt!InEffect(name)' = Prompt!InEffect(name)
           /\ \E T : extra_headers' \in Seq(T)
<1> DEFINE h == extra_headers \o <<x>>
<1>1. PICK m \in Nat : m = Len(extra_headers)
  OBVIOUS
<1>2. /\ h \in Seq(S \cup {x}) /\ DOMAIN h = 1..(m + 1) /\ DOMAIN extra_headers = 1..m
      /\ \A i \in 1..m : h[i] = extra_headers[i]
      /\ h[m + 1] = x
  <2>1. extra_headers \in Seq(S \cup {x}) /\ <<x>> \in Seq(S \cup {x})
    BY SeqMonotonic
  <2>2. Len(<<x>>) = 1 /\ <<x>>[1] = x
    OBVIOUS
  <2>3. /\ h \in Seq(S \cup {x}) /\ Len(h) = m + 1
        /\ \A i \in 1..(m + 1) : h[i] = IF i <= m THEN extra_headers[i] ELSE <<x>>[i - m]
    BY <1>1, <2>1, <2>2, ConcatProperties
  <2> HIDE DEF h
  <2>4. m + 1 \in 1..(m + 1) /\ ~(m + 1 <= m) /\ (m + 1) - m = 1
        /\ \A i \in 1..m : i \in 1..(m + 1) /\ i <= m
    OBVIOUS
  <2> QED BY <1>1, <2>2, <2>3, <2>4
<1>3. extra_headers' = h
  OBVIOUS
<1> HIDE DEF h
<1>4. \A i \in 1..m : i \in 1..(m + 1) /\ i <= m + 1 /\ i # m + 1
  OBVIOUS
<1>5. \A i \in 1..(m + 1) : i \in 1..m \/ i = m + 1
  OBVIOUS
<1> DEFINE P == {i \in DOMAIN h : h[i].name = x.name}
<1>6. m + 1 \in P /\ P \subseteq 1..(m + 1)
  BY <1>2
<1>7. \A i \in P : (\A j \in P : j <= i) <=> i = m + 1
  <2>1. \A i \in P : i \in 1..(m + 1)
    BY <1>6
  <2> HIDE DEF P
  <2>2. \A i \in P : i <= m + 1 /\ (m + 1 <= i => i = m + 1)
    BY <2>1
  <2> QED BY <1>6, <2>2
<1>8. h[CHOOSE i \in P : \A j \in P : j <= i] = x
  <2> HIDE DEF P
  <2>1. (CHOOSE i \in P : \A j \in P : j <= i) = m + 1
    BY <1>6, <1>7
  <2> QED BY <1>2, <2>1
<1>9. Prompt!Pushed(x.name)' = P
  BY <1>3 DEF Prompt!Pushed
<1>10. Prompt!Pushed(x.name)' # {} /\ Prompt!InEffect(x.name)' = x.value
  <2> HIDE DEF P
  <2> QED BY <1>3, <1>6, <1>8, <1>9 DEF Prompt!InEffect
<1>11. ASSUME NEW name, name # x.name
       PROVE  /\ Prompt!Pushed(name)' = Prompt!Pushed(name)
              /\ Prompt!InEffect(name)' = Prompt!InEffect(name)
  <2>1. Prompt!Pushed(name)' = {i \in DOMAIN h : h[i].name = name}
    BY <1>3 DEF Prompt!Pushed
  <2>2. {i \in DOMAIN h : h[i].name = name} = {i \in DOMAIN extra_headers : extra_headers[i].name = name}
    BY <1>2, <1>4, <1>5, <1>11
  <2>3. Prompt!Pushed(name)' = Prompt!Pushed(name)
    BY <2>1, <2>2 DEF Prompt!Pushed
  <2> DEFINE Q == Prompt!Pushed(name)
             i == CHOOSE i \in Q : \A j \in Q : j <= i
  <2>4. CASE Q = {}
    BY <2>3, <2>4 DEF Prompt!InEffect
  <2>5. CASE Q # {}
    <3>1. Q \subseteq 1..m
      BY <1>2 DEF Prompt!Pushed
    <3> HIDE DEF Q
    <3>2. \E k \in Q : \A j \in Q : j <= k
      <4>1. Max(Q) \in Q /\ \A j \in Q : j <= Max(Q)
        BY <1>1, <2>5, <3>1, LargestElement
      <4> QED BY <4>1
    <3>3. i \in Q
      BY <3>2
    <3>4. h[i] = extra_headers[i]
      BY <1>2, <3>1, <3>3
    <3>5. Prompt!InEffect(name) = extra_headers[i].value
      BY <2>5 DEF Prompt!InEffect, Q
    <3>6. Prompt!InEffect(name)' = h[i].value
      BY <1>3, <2>3, <2>5 DEF Prompt!InEffect, Q
    <3> QED BY <2>3, <3>4, <3>5, <3>6
  <2> QED BY <2>4, <2>5
<1> QED BY <1>2, <1>3, <1>10, <1>11

\* What one filter does
LengthHeader(b) == [name |-> "content-length", value |-> b.size]
ModelHeader(c) == [name |-> c.header, value |-> chunk.model]
Readable == chunk # NoBody /\ chunk.json /\ chunk.messages # None

LEMMA NothingDone ==
    /\ Prompt!Unchanged.action = "continue" /\ Prompt!Unchanged.body = chunk
    /\ Prompt!Unchanged.pushed = <<>>
BY DEF Prompt!Unchanged

LEMMA EnrichWaits ==
    ASSUME NEW c, c.kind = "prompt_enrich", eos = FALSE
    PROVE  Prompt!FilterResult(c) = Prompt!Unchanged
BY DEF Prompt!FilterResult, Prompt!EnrichOnRequestBody

LEMMA EnrichDoes ==
    ASSUME NEW c, c.kind = "prompt_enrich", eos = TRUE
    PROVE  LET r == Prompt!FilterResult(c)
               new == Prompt!Enriched(c, chunk)
           IN IF Readable
              THEN r.action = "continue" /\ r.body = new /\ r.pushed = <<LengthHeader(new)>>
              ELSE r.body = chunk /\ r.pushed = <<>>
<1>1. Prompt!FilterResult(c) = Prompt!EnrichOnRequestBody(c)
  BY DEF Prompt!FilterResult
<1>2. CASE chunk = NoBody
  <2>1. Prompt!EnrichOnRequestBody(c) = Prompt!Unchanged
    BY <1>2 DEF Prompt!EnrichOnRequestBody
  <2> QED BY <1>1, <1>2, <2>1, NothingDone DEF Readable
<1>3. CASE chunk # NoBody /\ (~chunk.json \/ chunk.messages = None)
  <2>1. Prompt!EnrichOnRequestBody(c) = Prompt!InvalidBodyAction(c)
    BY <1>3 DEF Prompt!EnrichOnRequestBody
  <2>2. /\ Prompt!InvalidBodyAction(c).body = chunk
        /\ Prompt!InvalidBodyAction(c).pushed = <<>>
    BY DEF Prompt!InvalidBodyAction, Prompt!Unchanged
  <2> QED BY <1>1, <1>3, <2>1, <2>2 DEF Readable
<1>4. CASE Readable
  <2>1. ~(~eos \/ chunk = NoBody)
        /\ ~(eos /\ chunk # NoBody /\ (~chunk.json \/ chunk.messages = None))
    BY <1>4 DEF Readable
  <2>2. Prompt!EnrichOnRequestBody(c)
           = [action |-> "continue", body |-> Prompt!Enriched(c, chunk),
              pushed |-> <<LengthHeader(Prompt!Enriched(c, chunk))>>]
    BY <2>1 DEF Prompt!EnrichOnRequestBody, LengthHeader, Prompt!LengthSent
  <2> QED BY <1>1, <1>4, <2>2
<1> QED BY <1>2, <1>3, <1>4 DEF Readable

HasModel == chunk # NoBody /\ chunk.model # None
LEMMA PromoteDoes ==
    ASSUME NEW c, c.kind = "model_to_header"
    PROVE  LET r == Prompt!FilterResult(c)
           IN IF HasModel
              THEN /\ r.action = "release" /\ r.body = chunk
                   /\ r.pushed = <<ModelHeader(c)>>
              ELSE r = Prompt!Unchanged
<1>1. Prompt!FilterResult(c) = Prompt!PromoteModel(c)
  BY DEF Prompt!FilterResult
<1> QED BY <1>1 DEF Prompt!PromoteModel, ModelHeader, Prompt!InnerConfig, HasModel

LEMMA GuardDoes ==
    ASSUME NEW c, c.kind = "ai_guardrails"
    PROVE  Prompt!FilterResult(c) = Prompt!Unchanged
BY DEF Prompt!FilterResult, Prompt!GuardOnRequestBody

\* The messages of an enriched body, and the rest of it
LEMMA EnrichedBody ==
    ASSUME PromptsTyped, NEW c, c.prepend \in Seq(Messages), c.append \in Seq(Messages),
           NEW b \in BodyType, b.messages \in Seq(Messages)
    PROVE  LET new == Prompt!Enriched(c, b)
           IN /\ new \in BodyType /\ new.json = b.json /\ new.model = b.model
              /\ new.messages = c.prepend \o b.messages \o c.append
<1> DEFINE m == c.prepend \o b.messages \o c.append
           d == [b EXCEPT !.messages = m]
<1>1. m \in Seq(Messages)
  BY ConcatProperties
<1>2. Len(m) \in Nat
  BY <1>1, LenProperties
<1> HIDE DEF m
<1>3. d \in BodyType /\ d.json = b.json /\ d.model = b.model /\ d.messages = m
  BY <1>1 DEF BodyType
<1>4. Prompt!Enriched(c, b) = [d EXCEPT !.size = 2 + 3 * Len(m)]
  BY <1>3 DEF Prompt!Enriched, Prompt!Serialized, m
<1> HIDE DEF d
<1>5. 2 + 3 * Len(m) \in Nat
  BY <1>2
<1>6. [d EXCEPT !.size = 2 + 3 * Len(m)] \in BodyType
  BY <1>3, <1>5 DEF BodyType
<1>7. LET e == [d EXCEPT !.size = 2 + 3 * Len(m)]
      IN e.json = d.json /\ e.model = d.model /\ e.messages = d.messages
  BY <1>3 DEF BodyType
<1> QED BY <1>3, <1>4, <1>6, <1>7 DEF m

Joined(p, x, y) == (p \o x) \o y = p \o (x \o y) /\ p \o x \in Seq(Messages)
LEMMA Associates ==
    ASSUME NEW p \in Seq(Messages), NEW x \in Seq(Messages), NEW y \in Seq(Messages)
    PROVE  Joined(p, x, y)
BY ConcatAssociative, ConcatProperties DEF Joined

Between(p, m, q) == p \o m \o q
LEMMA Regrouped ==
    ASSUME NEW p \in Seq(Messages), NEW x \in Seq(Messages), NEW m \in Seq(Messages),
           NEW y \in Seq(Messages), NEW q \in Seq(Messages)
    PROVE  Between(p, Between(x, m, y), q) = Between(p \o x, m, y \o q)
<1>1. x \o m \in Seq(Messages) /\ (p \o x) \o m = p \o (x \o m)
  <2>1. Joined(x, m, m) /\ Joined(p, x, m)
    BY Associates
  <2> QED BY <2>1 DEF Joined
<1>2. PICK xm : xm = x \o m
  OBVIOUS
<1>3. xm \in Seq(Messages) /\ (p \o x) \o m = p \o xm
  BY <1>1, <1>2
<1>4. p \o xm \in Seq(Messages) /\ (p \o xm) \o y = p \o (xm \o y)
  <2>1. Joined(p, xm, y)
    BY <1>3, Associates
  <2> QED BY <2>1 DEF Joined
<1>5. PICK pxm : pxm = p \o xm
  OBVIOUS
<1>6. pxm \in Seq(Messages) /\ pxm \o y = p \o (xm \o y)
  BY <1>4, <1>5
<1>7. (pxm \o y) \o q = pxm \o (y \o q)
  <2>1. Joined(pxm, y, q)
    BY <1>6, Associates
  <2> QED BY <2>1 DEF Joined
<1> QED BY <1>2, <1>3, <1>5, <1>6, <1>7 DEF Between

LEMMA HeadersKept ==
    ASSUME extra_headers' = extra_headers, NEW name
    PROVE  /\ Prompt!Pushed(name)' = Prompt!Pushed(name)
           /\ Prompt!InEffect(name)' = Prompt!InEffect(name)
<1>1. Prompt!Pushed(name)' = Prompt!Pushed(name)
  BY DEF Prompt!Pushed
<1> QED BY <1>1 DEF Prompt!InEffect

\* What holds of a chain under way.  The headers: a filter tells the model of
\* the client's body, and of those the call has passed the first has told it,
\* if the body it saw had one.  The body: before the end of the stream nothing
\* has changed but how much of it is there; then the messages of the filters
\* up to some point are around the client's, up to the one the call is at
\* unless filters were passed over, and the length fits.
FromClient == chunk # NoBody => sent # NoBody /\ chunk.model \in {None, sent.model}
NamesTold ==
    \A name : name # "content-length" => Prompt!InEffect(name) \in {None, sent.model}
ModelsTold(k) ==
    \A i \in Nat : (Prompt!FirstTeller(i) /\ i < k /\ HasModel) =>
        Prompt!InEffect(chain[i].header) = sent.model
Told(k) == (\E S : extra_headers \in Seq(S)) /\ FromClient /\ NamesTold /\ ModelsTold(k)

Placed(k) ==
    IF Prompt!Enrichable
    THEN LET added == Prompt!Added(chain)[k] IN
         /\ chunk \in BodyType /\ chunk.json /\ chunk.model = sent.model
         /\ chunk.messages = added.before \o sent.messages \o added.after
    ELSE chunk = sent
LengthTold ==
    IF Prompt!Pushed("content-length") = {} THEN chunk = sent
    ELSE Prompt!Enrichable /\ Prompt!InEffect("content-length") = chunk.size
NotPassedOver == released # "skipping" \/ Prompt!EnrichesFirst

Accepted == \A i \in DOMAIN chain : Prompt!ValidFilter(chain[i])
ReleasedBy(k) ==
    released # "no" => HasModel /\ \E i \in Prompt!Of("model_to_header") : i < k
NotEnded ==
    eos = FALSE =>
        /\ Prompt!Pushed("content-length") = {}
        /\ (chunk # NoBody /\ chunk.json) => chunk = sent
        /\ outcome = "forwarded" => chunk = sent /\ ~Prompt!EnrichesFirst
Ended ==
    eos = TRUE => LengthTold /\ \E j \in 0..(at - 1) : Placed(j) /\ (NotPassedOver => j = at - 1)
PromptInv ==
    /\ chain \in PromptChains /\ sent \in PromptBodies
    /\ outcome = "new" =>
          chunk = NoBody /\ eos = FALSE /\ at = 0 /\ released = "no" /\ extra_headers = <<>>
    /\ outcome \in {"ready", "forwarded"} =>
          /\ eos \in BOOLEAN /\ at \in 0..(Len(chain) + 1) /\ Accepted
          /\ Told(at) /\ ReleasedBy(at) /\ NotEnded /\ Ended
    /\ outcome = "forwarded" => at = Len(chain) + 1

LEMMA PromptStarts ==
    ASSUME Prompt!Init
    PROVE  PromptInv
BY DEF Prompt!Init, PromptInv

\* A body is not None of its parts
LEMMA BodyParts ==
    ASSUME PromptsTyped, NEW b \in PromptBodies, b # NoBody
    PROVE  /\ b \in BodyType /\ b.json \in BOOLEAN /\ b.size \in Nat
           /\ b.messages # None => b.messages \in Seq(Messages)
BY DEF PromptsTyped, BodyType

\* With other chunks of one body and the same headers no more is told
LEMMA ToldBefore ==
    ASSUME NEW k, NEW l \in Nat, Told(k), FromClient',
           chain' = chain, sent' = sent, extra_headers' = extra_headers,
           \A i \in Nat : Prompt!FirstTeller(i) /\ i < l /\ HasModel' => i < k /\ HasModel
    PROVE  Told(l)'
<1>1. (\E S : extra_headers \in Seq(S)) /\ NamesTold /\ ModelsTold(k)
  BY DEF Told
<1>2. \A name : Prompt!InEffect(name)' = Prompt!InEffect(name)
  BY HeadersKept
<1>3. \A i : Prompt!FirstTeller(i)' = Prompt!FirstTeller(i)
  BY DEF Prompt!FirstTeller, Prompt!Of
<1>4. NamesTold'
  BY <1>1, <1>2 DEF NamesTold
<1>5. ModelsTold(l)'
  <2> SUFFICES ASSUME NEW i \in Nat, Prompt!FirstTeller(i)', i < l, HasModel'
               PROVE  Prompt!InEffect(chain[i].header)' = sent.model
    BY DEF ModelsTold
  <2>1. Prompt!FirstTeller(i) /\ i < k /\ HasModel
    BY <1>3
  <2>2. PICK name : name = chain[i].header
    OBVIOUS
  <2>3. Prompt!InEffect(name) = sent.model
    BY <1>1, <2>1, <2>2 DEF ModelsTold
  <2> QED BY <1>2, <2>2, <2>3
<1> QED BY <1>1, <1>4, <1>5 DEF Told

LEMMA BuildSound ==
    ASSUME PromptsTyped, PromptInv, Prompt!Build
    PROVE  PromptInv'
<1>1. /\ outcome = "new" /\ chain' = chain /\ sent' = sent /\ chunk' = chunk /\ eos' = eos
      /\ at' = at /\ released' = released /\ extra_headers' = extra_headers
      /\ outcome' = IF Accepted THEN "ready" ELSE "refused"
  BY DEF Prompt!Build, Accepted
<1>2. /\ eos' = FALSE /\ at' = 0 /\ chain' \in PromptChains /\ sent' \in PromptBodies
      /\ extra_headers' = <<>> /\ chunk' = NoBody /\ released' = "no"
  BY <1>1 DEF PromptInv
<1>3. IsChain(chain) /\ Len(chain) \in Nat
  BY <1>1, ChainIsList DEF PromptInv
<1>4. Told(0)'
  <2>1. \A name : Prompt!Pushed(name)' = {}
    BY <1>2 DEF Prompt!Pushed
  <2>2. \A name : Prompt!InEffect(name)' = None
    BY <2>1 DEF Prompt!InEffect
  <2>3. NamesTold'
    BY <2>2 DEF NamesTold
  <2> QED BY <1>2, <2>3 DEF Told, FromClient, ModelsTold, HasModel
<1>5. NotEnded' /\ Ended' /\ ReleasedBy(0)'
  <2>1. Prompt!Pushed("content-length")' = {}
    BY <1>2 DEF Prompt!Pushed
  <2> QED BY <1>1, <1>2, <2>1 DEF NotEnded, Ended, ReleasedBy
<1>6. outcome' = "ready" => Accepted'
  BY <1>1 DEF Accepted
<1>7. (Told(at) /\ ReleasedBy(at))'
  BY <1>2, <1>4, <1>5 DEF Told, ModelsTold, ReleasedBy
<1>8. at' \in 0..(Len(chain') + 1) /\ outcome' \in {"ready", "refused"}
  BY <1>1, <1>2, <1>3
<1> QED BY <1>1, <1>2, <1>5, <1>6, <1>7, <1>8 DEF PromptInv

\* The invariant of a chain that goes on, in one state and the next
Goes(k) ==
    /\ eos \in BOOLEAN /\ k \in 0..(Len(chain) + 1) /\ Accepted
    /\ Told(k) /\ ReleasedBy(k) /\ NotEnded /\ Ended
LEMMA GoesOn ==
    ASSUME PromptInv, outcome \in {"ready", "forwarded"}
    PROVE  chain \in PromptChains /\ sent \in PromptBodies /\ Goes(at)
BY DEF PromptInv, Goes

LEMMA GoneOn ==
    ASSUME chain' \in PromptChains, sent' \in PromptBodies, NEW k, at' = k, Goes(k)',
           outcome' \in {"ready", "forwarded"}, outcome' = "forwarded" => k = Len(chain') + 1
    PROVE  PromptInv'
<1>1. (Told(at) /\ ReleasedBy(at))'
  BY DEF Goes, Told, ModelsTold, ReleasedBy
<1> QED BY <1>1 DEF PromptInv, Goes

LEMMA Stopped ==
    ASSUME chain' \in PromptChains, sent' \in PromptBodies,
           outcome' \in {"refused", "rejected", "too_large"}
    PROVE  PromptInv'
BY DEF PromptInv

LEMMA BodyPartSound ==
    ASSUME PromptsTyped, PromptInv, Prompt!BodyPart
    PROVE  PromptInv'
<1>1. /\ outcome = "ready" /\ at = 0 /\ chunk = NoBody /\ sent # NoBody
      /\ chunk' \in {sent, [sent EXCEPT !.json = FALSE],
                     [sent EXCEPT !.json = FALSE, !.model = None]}
      /\ at' = 1 /\ chain' = chain /\ sent' = sent /\ eos' = eos /\ released' = released
      /\ extra_headers' = extra_headers /\ outcome' = outcome
  BY DEF Prompt!BodyPart
<1>2. chain \in PromptChains /\ sent \in PromptBodies /\ Goes(0)
  BY <1>1, GoesOn
<1>3. Len(chain) \in Nat
  BY <1>2, ChainIsList
<1>4. eos = FALSE
  BY <1>1, <1>2 DEF Goes, Ended
<1>5. sent \in BodyType
  BY <1>1, <1>2, BodyParts
<1>6. chunk' = sent \/ (chunk'.json = FALSE /\ chunk'.model \in {None, sent.model})
  BY <1>1, <1>5 DEF BodyType
<1>7. FromClient'
  BY <1>1, <1>6 DEF FromClient
<1>8. Told(1)'
  <2>1. \A i \in Nat : Prompt!FirstTeller(i) => ~(i < 1)
    <3>1. DOMAIN chain = 1..Len(chain)
      BY <1>2, ChainIsList
    <3> QED BY <3>1 DEF Prompt!FirstTeller, Prompt!Of
  <2> QED BY <1>1, <1>2, <1>7, <2>1, ToldBefore DEF Goes
<1>9. released = "no"
  BY <1>1, <1>2 DEF Goes, ReleasedBy, HasModel
<1>10. NotEnded'
  <2>1. Prompt!Pushed("content-length")' = {}
    BY <1>1, <1>2, <1>4, HeadersKept DEF Goes, NotEnded
  <2> QED BY <1>1, <1>6, <2>1 DEF NotEnded
<1>11. Goes(1)'
  BY <1>1, <1>2, <1>3, <1>4, <1>8, <1>9, <1>10 DEF Goes, Ended, ReleasedBy, Accepted
<1> QED BY <1>1, <1>2, <1>11, GoneOn

LEMMA BodyEndSound ==
    ASSUME PromptsTyped, PromptInv, Prompt!BodyEnd
    PROVE  PromptInv'
<1>1. /\ outcome = "ready" /\ at = 0 /\ eos' = TRUE /\ at' = 1
      /\ chain' = chain /\ sent' = sent /\ released' = released /\ extra_headers' = extra_headers
      /\ \/ outcome' = "too_large"
         \/ /\ outcome' = outcome
            /\ chunk' = IF chunk # NoBody /\ chunk.json THEN chunk ELSE sent
  BY DEF Prompt!BodyEnd
<1>2. chain \in PromptChains /\ sent \in PromptBodies /\ Goes(0)
  BY <1>1, GoesOn
<1>3. Len(chain) \in Nat /\ IsChain(chain) /\ DOMAIN chain = 1..Len(chain)
  BY <1>2, ChainIsList
<1>4. CASE outcome' = "too_large"
  BY <1>1, <1>2, <1>4, Stopped
<1>5. CASE outcome' = outcome
  <2>1. eos = FALSE
    BY <1>1, <1>2 DEF Goes, Ended
  <2>2. chunk' = sent
    BY <1>1, <1>2, <1>5, <2>1 DEF Goes, NotEnded
  <2>3. LengthTold'
    <3>1. Prompt!Pushed("content-length")' = {}
      BY <1>1, <1>2, <2>1, HeadersKept DEF Goes, NotEnded
    <3> QED BY <1>1, <2>2, <3>1 DEF LengthTold
  <2>4. Placed(0)'
    <3>1. CASE ~Prompt!Enrichable
      BY <1>1, <2>2, <3>1 DEF Placed, Prompt!Enrichable
    <3>2. CASE Prompt!Enrichable
      <4>1. sent \in BodyType /\ sent.messages \in Seq(Messages) /\ sent.json
        BY <1>2, <3>2, BodyParts DEF Prompt!Enrichable
      <4>2. sent.messages = <<>> \o sent.messages \o <<>>
        BY <4>1, ConcatEmptySeq
      <4>3. /\ Prompt!Added(chain)[0].before = <<>>
            /\ Prompt!Added(chain)[0].after = <<>>
        BY <1>3, AddedUnfolds DEF NoPair
      <4>4. LET added == Prompt!Added(chain)[0]
            IN sent.messages = added.before \o sent.messages \o added.after
        BY <4>2, <4>3
      <4> QED BY <1>1, <2>2, <3>2, <4>1, <4>4 DEF Placed, Prompt!Enrichable
    <3> QED BY <3>1, <3>2
  <2>5. FromClient'
    BY <1>1, <2>2 DEF FromClient
  <2>6. Told(1)'
    <3>1. \A i \in Nat : Prompt!FirstTeller(i) => ~(i < 1)
      BY <1>3 DEF Prompt!FirstTeller, Prompt!Of
    <3> QED BY <1>1, <1>2, <2>5, <3>1, ToldBefore DEF Goes
  <2>7. released = "no"
    <3>1. \A i \in Prompt!Of("model_to_header") : ~(i < 0)
      BY <1>3 DEF Prompt!Of
    <3> QED BY <1>2, <3>1 DEF Goes, ReleasedBy
  <2>8. Ended'
    <3>1. at' - 1 = 0 /\ 0 \in 0..(at' - 1)
      BY <1>1
    <3>2. Ended' <=> (eos' = TRUE => /\ LengthTold'
                                     /\ \E j \in 0..(at' - 1) :
                                           Placed(j)' /\ (NotPassedOver' => j = at' - 1))
      BY DEF Ended
    <3> QED BY <2>3, <2>4, <3>1, <3>2
  <2>9. Goes(1)'
    BY <1>1, <1>2, <1>3, <2>6, <2>7, <2>8 DEF Goes, NotEnded, ReleasedBy, Accepted
  <2> QED BY <1>1, <1>2, <1>5, <2>9, GoneOn
<1> QED BY <1>1, <1>4, <1>5

\* The placement and the length do not look at the header of a model
LEMMA PlacedStill ==
    ASSUME NEW k, Placed(k), chain' = chain, sent' = sent, chunk' = chunk
    PROVE  Placed(k)'
BY DEF Placed, Prompt!Enrichable

LEMMA LengthStill ==
    ASSUME LengthTold, sent' = sent, chunk' = chunk,
           Prompt!Pushed("content-length")' = Prompt!Pushed("content-length"),
           Prompt!InEffect("content-length")' = Prompt!InEffect("content-length")
    PROVE  LengthTold'
BY DEF LengthTold, Prompt!Enrichable

LEMMA AddedStays ==
    ASSUME PromptsTyped, chain \in PromptChains, NEW k \in 1..Len(chain),
           chain[k].kind # "prompt_enrich"
    PROVE  \A j : j = k - 1 /\ Placed(j) => Placed(k)
<1>1. IsChain(chain) /\ Len(chain) \in Nat
  BY ChainIsList
<1>2. Prompt!Added(chain)[k] = Prompt!Around(chain[k], Prompt!Added(chain)[k - 1])
  BY <1>1, AddedUnfolds
<1>3. Prompt!Added(chain)[k] = Prompt!Added(chain)[k - 1]
  BY <1>2 DEF Prompt!Around
<1> QED BY <1>3 DEF Placed

\* A filter that enriches the body at the end of the stream
LEMMA EnrichPlaces ==
    ASSUME PromptsTyped, chain \in PromptChains, sent \in PromptBodies, eos = TRUE,
           NEW k \in 1..Len(chain), chain[k].kind = "prompt_enrich", Told(k), LengthTold,
           Placed(k - 1),
           NEW r, r = Prompt!FilterResult(chain[k]),
           chunk' = r.body, extra_headers' = extra_headers \o r.pushed, chain' = chain, sent' = sent
    PROVE  Placed(k)' /\ LengthTold' /\ Told(k + 1)' /\ (HasModel' <=> HasModel)
<1>1. IsChain(chain) /\ k \in DOMAIN chain /\ Len(chain) \in Nat /\ DOMAIN chain = 1..Len(chain)
  BY ChainIsList
<1>2. PICK S : extra_headers \in Seq(S)
  BY DEF Told
<1>3. \A i \in Nat : Prompt!FirstTeller(i) =>
         (i < k + 1 => i < k) /\ chain[i].header # "content-length"
  <2>1. \A i \in Nat : Prompt!FirstTeller(i) =>
           i \in 1..Len(chain) /\ i # k /\ chain[i].kind = "model_to_header"
    BY <1>1 DEF Prompt!FirstTeller, Prompt!Of
  <2> QED BY <1>1, <2>1 DEF IsChain
<1>4. CASE Prompt!Enrichable
  <2>1. PICK c : c = chain[k]
    OBVIOUS
  <2>2. PICK a, b : a = Prompt!Added(chain)[k - 1] /\ b = Prompt!Added(chain)[k]
    OBVIOUS
  <2>3. /\ chunk \in BodyType /\ chunk.json /\ chunk.model = sent.model
        /\ chunk.messages = a.before \o sent.messages \o a.after
    BY <1>4, <2>2 DEF Placed
  <2>4. /\ c.prepend \in Seq(Messages) /\ c.append \in Seq(Messages)
        /\ sent.messages \in Seq(Messages) /\ sent # NoBody
    BY <1>1, <1>4, <2>1, BodyParts DEF IsChain, IsList, Prompt!Enrichable
  <2>5. /\ a \in Pairs /\ b = Prompt!Around(c, a)
    <3>1. k - 1 \in 0..Len(chain)
      BY <1>1
    <3> QED BY <1>1, <2>1, <2>2, <3>1, AddedUnfolds
  <2>6. a.before \in Seq(Messages) /\ a.after \in Seq(Messages)
    BY <2>5 DEF Pairs
  <2>7. chunk.messages \in Seq(Messages)
    <3>1. a.before \o sent.messages \in Seq(Messages)
      BY <2>4, <2>6, ConcatProperties
    <3> QED BY <2>3, <2>6, <3>1, ConcatProperties
  <2>8. Readable
    BY <2>3, <2>7 DEF Readable, PromptsTyped
  <2>9. PICK new : new = Prompt!Enriched(c, chunk)
    OBVIOUS
  <2>10. r.body = new /\ r.pushed = <<LengthHeader(new)>>
    BY <2>1, <2>8, <2>9, EnrichDoes
  <2>11. /\ new \in BodyType /\ new.json = chunk.json /\ new.model = chunk.model
         /\ new.messages = c.prepend \o chunk.messages \o c.append
    BY <2>3, <2>4, <2>7, <2>9, EnrichedBody
  <2>12. new.messages = b.before \o sent.messages \o b.after
    <3>1. b.before = c.prepend \o a.before /\ b.after = a.after \o c.append
      <4>1. c.kind = "prompt_enrich"
        BY <2>1
      <4>2. b = [before |-> c.prepend \o a.before, after |-> a.after \o c.append]
        BY <2>5, <4>1 DEF Prompt!Around
      <4> QED BY <4>2
    <3>2. new.messages
             = c.prepend \o (a.before \o sent.messages \o a.after) \o c.append
      BY <2>3, <2>11
    <3>3. PICK p, x, m, y, q :
             /\ p = c.prepend /\ x = a.before /\ m = sent.messages
             /\ y = a.after /\ q = c.append
      OBVIOUS
    <3>4. /\ p \in Seq(Messages) /\ x \in Seq(Messages) /\ m \in Seq(Messages)
          /\ y \in Seq(Messages) /\ q \in Seq(Messages)
      BY <2>4, <2>6, <3>3
    <3>5. Between(p, Between(x, m, y), q) = Between(p \o x, m, y \o q)
      BY <3>4, Regrouped
    <3>6. new.messages = Between(p, Between(x, m, y), q)
      BY <3>2, <3>3 DEF Between
    <3>7. b.before = p \o x /\ b.after = y \o q
      BY <3>1, <3>3
    <3> QED BY <3>3, <3>5, <3>6, <3>7 DEF Between
  <2>13. PICK x : x = LengthHeader(new)
    OBVIOUS
  <2>14. chunk' = new /\ extra_headers' = extra_headers \o <<x>>
    BY <2>10, <2>13
  <2>15. x.name = "content-length" /\ x.value = new.size
    BY <2>13 DEF LengthHeader
  <2>16. /\ Prompt!Pushed("content-length")' # {}
         /\ Prompt!InEffect("content-length")' = new.size
         /\ \A name : name # "content-length" =>
               Prompt!InEffect(name)' = Prompt!InEffect(name)
         /\ \E T : extra_headers' \in Seq(T)
    <3>1. /\ Prompt!Pushed(x.name)' # {} /\ Prompt!InEffect(x.name)' = x.value
          /\ \A name : name # x.name => Prompt!InEffect(name)' = Prompt!InEffect(name)
          /\ \E T : extra_headers' \in Seq(T)
      BY <1>2, <2>14, PushOne
    <3> QED BY <2>15, <3>1
  <2>17. LengthTold'
    BY <1>4, <2>14, <2>16 DEF LengthTold, Prompt!Enrichable
  <2>18. Placed(k)'
    BY <1>4, <2>2, <2>3, <2>11, <2>12, <2>14 DEF Placed, Prompt!Enrichable
  <2>19. new # NoBody /\ chunk # NoBody
    BY <2>3, <2>11 DEF PromptsTyped
  <2>20. HasModel' <=> HasModel
    BY <2>11, <2>14, <2>19 DEF HasModel
  <2>21. FromClient'
    BY <2>3, <2>4, <2>11, <2>14 DEF FromClient
  <2>22. NamesTold'
    BY <2>16 DEF Told, NamesTold
  <2>23. ModelsTold(k + 1)'
    <3> SUFFICES ASSUME NEW i \in Nat, Prompt!FirstTeller(i)', i < k + 1, HasModel'
                 PROVE  Prompt!InEffect(chain[i].header)' = sent.model
      BY DEF ModelsTold
    <3>1. Prompt!FirstTeller(i) /\ i < k /\ chain[i].header # "content-length"
      BY <1>3 DEF Prompt!FirstTeller, Prompt!Of
    <3>2. PICK name : name = chain[i].header
      OBVIOUS
    <3>3. Prompt!InEffect(name) = sent.model
      BY <2>20, <3>1, <3>2 DEF Told, ModelsTold
    <3> QED BY <2>16, <3>1, <3>2, <3>3
  <2> QED BY <2>16, <2>17, <2>18, <2>20, <2>21, <2>22, <2>23 DEF Told
<1>5. CASE ~Prompt!Enrichable
  <2>1. chunk = sent
    BY <1>5 DEF Placed
  <2>2. ~Readable
    BY <1>5, <2>1 DEF Readable, Prompt!Enrichable
  <2>3. r.body = chunk /\ r.pushed = <<>>
    BY <2>2, EnrichDoes
  <2>4. chunk' = chunk /\ extra_headers' = extra_headers
    BY <1>2, <2>3, ConcatEmptySeq
  <2>5. Placed(k)'
    BY <1>5, <2>1, <2>4 DEF Placed, Prompt!Enrichable
  <2>6. LengthTold'
    BY <2>4, HeadersKept, LengthStill
  <2>7. FromClient' /\ (HasModel' <=> HasModel)
    BY <2>4 DEF Told, FromClient, HasModel
  <2>8. Told(k + 1)'
    BY <1>1, <1>3, <2>4, <2>7, ToldBefore
  <2> QED BY <2>5, <2>6, <2>7, <2>8
<1> QED BY <1>4, <1>5

\* A filter that finds the model and tells it
LEMMA PromoteTells ==
    ASSUME PromptsTyped, chain \in PromptChains,
           NEW k \in 1..Len(chain), chain[k].kind = "model_to_header", Told(k), HasModel,
           chunk' = chunk, chain' = chain, sent' = sent,
           extra_headers' = extra_headers \o <<ModelHeader(chain[k])>>
    PROVE  /\ Told(k + 1)'
           /\ Prompt!Pushed("content-length")' = Prompt!Pushed("content-length")
           /\ Prompt!InEffect("content-length")' = Prompt!InEffect("content-length")
<1>1. IsChain(chain) /\ k \in DOMAIN chain /\ Len(chain) \in Nat /\ DOMAIN chain = 1..Len(chain)
  BY ChainIsList
<1>2. PICK S : extra_headers \in Seq(S)
  BY DEF Told
<1>3. PICK x : x = ModelHeader(chain[k])
  OBVIOUS
<1>4. x.name = chain[k].header /\ x.value = sent.model /\ x.name # "content-length"
  <2>1. chunk.model = sent.model
    BY DEF Told, FromClient, HasModel
  <2> QED BY <1>1, <1>3, <2>1 DEF ModelHeader, IsChain
<1>5. /\ Prompt!InEffect(x.name)' = x.value
      /\ \A name : name # x.name =>
            /\ Prompt!Pushed(name)' = Prompt!Pushed(name)
            /\ Prompt!InEffect(name)' = Prompt!InEffect(name)
      /\ \E T : extra_headers' \in Seq(T)
  BY <1>2, <1>3, PushOne
<1>6. NamesTold'
  <2> SUFFICES ASSUME NEW name, name # "content-length"
               PROVE  Prompt!InEffect(name)' \in {None, sent.model}
    BY DEF NamesTold
  <2>1. Prompt!InEffect(name) \in {None, sent.model}
    BY DEF Told, NamesTold
  <2> QED BY <1>4, <1>5, <2>1
<1>7. ModelsTold(k + 1)'
  <2> SUFFICES ASSUME NEW i \in Nat, Prompt!FirstTeller(i)', i < k + 1
               PROVE  Prompt!InEffect(chain[i].header)' = sent.model
    BY DEF ModelsTold
  <2>1. Prompt!FirstTeller(i)
    BY DEF Prompt!FirstTeller, Prompt!Of
  <2>2. PICK name : name = chain[i].header
    OBVIOUS
  <2>3. CASE name = x.name
    BY <1>4, <1>5, <2>2, <2>3
  <2>4. CASE name # x.name
    <3>1. i < k
      BY <1>1, <1>4, <2>2, <2>4
    <3>2. Prompt!InEffect(name) = sent.model
      BY <2>1, <2>2, <3>1 DEF Told, ModelsTold
    <3> QED BY <1>5, <2>2, <2>4, <3>2
  <2> QED BY <2>3, <2>4
<1>8. FromClient'
  BY DEF Told, FromClient
<1> QED BY <1>4, <1>5, <1>6, <1>7, <1>8 DEF Told

\* A filter that does nothing, or is passed over, and need not tell
LEMMA QuietTells ==
    ASSUME PromptsTyped, chain \in PromptChains, NEW k \in 1..Len(chain), Told(k),
           ~Prompt!FirstTeller(k) \/ ~HasModel,
           chunk' = chunk, chain' = chain, sent' = sent, extra_headers' = extra_headers
    PROVE  Told(k + 1)'
<1>1. Len(chain) \in Nat
  BY ChainIsList
<1>2. \A i \in Nat : i < k + 1 => i < k \/ i = k
  BY <1>1
<1>3. FromClient' /\ (HasModel' <=> HasModel)
  BY DEF Told, FromClient, HasModel
<1> QED BY <1>1, <1>2, <1>3, ToldBefore

\* The step to the next filter, with the body as it was
LEMMA Advances ==
    ASSUME PromptsTyped, chain \in PromptChains, sent \in PromptBodies,
           NEW k \in 1..Len(chain), Goes(k), at = k, outcome = "ready",
           at' = k + 1, outcome' = "ready", chunk' = chunk, eos' = eos,
           chain' = chain, sent' = sent, Told(k + 1)', ReleasedBy(k + 1)',
           Prompt!Pushed("content-length")' = Prompt!Pushed("content-length"),
           Prompt!InEffect("content-length")' = Prompt!InEffect("content-length"),
           eos = TRUE => \E j \in 0..k : Placed(j) /\ (NotPassedOver' => j = k)
    PROVE  PromptInv'
<1>1. Len(chain) \in Nat
  BY ChainIsList
<1>2. k + 1 \in 0..(Len(chain) + 1) /\ at' - 1 = k
  BY <1>1
<1>3. NotEnded'
  BY DEF Goes, NotEnded
<1>4. Ended'
  <2> SUFFICES ASSUME eos = TRUE
               PROVE  LengthTold' /\ \E j \in 0..k : Placed(j)' /\ (NotPassedOver' => j = k)
    BY <1>2 DEF Ended
  <2>1. LengthTold'
    BY LengthStill DEF Goes, Ended
  <2>2. PICK j \in 0..k : Placed(j) /\ (NotPassedOver' => j = k)
    OBVIOUS
  <2>3. Placed(j)'
    BY <2>2, PlacedStill
  <2> QED BY <2>1, <2>2, <2>3
<1>5. Goes(k + 1)'
  BY <1>2, <1>3, <1>4 DEF Goes, Accepted
<1> QED BY <1>5, GoneOn

LEMMA CallFilterSound ==
    ASSUME PromptsTyped, PromptInv, Prompt!CallFilter
    PROVE  PromptInv'
<1>1. PICK r : r = Prompt!FilterResult(chain[at])
  OBVIOUS
<1>2. /\ outcome = "ready" /\ at \in DOMAIN chain /\ released # "skipping"
      /\ outcome' = IF r.action = "reject" THEN "rejected" ELSE outcome
      /\ released' = IF r.action = "release" THEN "yes" ELSE released
      /\ chunk' = r.body /\ extra_headers' = extra_headers \o r.pushed /\ at' = at + 1
      /\ chain' = chain /\ sent' = sent /\ eos' = eos
  BY <1>1 DEF Prompt!CallFilter
<1>3. chain \in PromptChains /\ sent \in PromptBodies /\ Goes(at)
  BY <1>2, GoesOn
<1>4. IsChain(chain) /\ Len(chain) \in Nat /\ DOMAIN chain = 1..Len(chain)
  BY <1>3, ChainIsList
<1>5. PICK k \in 1..Len(chain) : k = at
  BY <1>2, <1>4
<1>6. Goes(k) /\ Told(k) /\ ReleasedBy(k) /\ at = k /\ at' = k + 1
  BY <1>2, <1>3, <1>5 DEF Goes
<1>7. PICK S : extra_headers \in Seq(S)
  BY <1>6 DEF Told
<1>8. eos = TRUE => LengthTold /\ Placed(k - 1)
  BY <1>2, <1>6 DEF Goes, Ended, NotPassedOver
<1>9. CASE r.action = "reject"
  BY <1>2, <1>3, <1>9, Stopped
<1>10. CASE /\ r.action # "reject" /\ chunk' = chunk
            /\ chain[k].kind # "prompt_enrich" \/ eos = FALSE
            /\ Told(k + 1)' /\ ReleasedBy(k + 1)'
            /\ Prompt!Pushed("content-length")' = Prompt!Pushed("content-length")
            /\ Prompt!InEffect("content-length")' = Prompt!InEffect("content-length")
  <2>1. eos = TRUE => Placed(k)
    BY <1>3, <1>8, <1>10, AddedStays
  <2>2. eos = TRUE => \E j \in 0..k : Placed(j) /\ (NotPassedOver' => j = k)
    BY <2>1
  <2>3. outcome' = "ready"
    BY <1>2, <1>10
  <2> QED BY <1>2, <1>3, <1>6, <1>10, <2>2, <2>3, Advances
<1>11. ASSUME r = Prompt!Unchanged, chain[k].kind # "prompt_enrich" \/ eos = FALSE,
              ~Prompt!FirstTeller(k) \/ ~HasModel
       PROVE  PromptInv'
  <2>1. r.action = "continue" /\ r.body = chunk /\ r.pushed = <<>>
    BY <1>11, NothingDone
  <2>2. chunk' = chunk /\ extra_headers' = extra_headers /\ released' = released
    BY <1>2, <1>7, <2>1, ConcatEmptySeq
  <2>3. Told(k + 1)'
    BY <1>2, <1>3, <1>6, <1>11, <2>2, QuietTells
  <2>4. ReleasedBy(k + 1)'
    <3>1. \A i \in DOMAIN chain : i < k => i < k + 1
      BY <1>4
    <3> QED BY <1>2, <1>6, <2>2, <3>1 DEF ReleasedBy, HasModel, Prompt!Of
  <2> QED BY <1>10, <1>11, <2>1, <2>2, <2>3, <2>4, HeadersKept
<1>12. CASE chain[k].kind = "prompt_enrich" /\ eos = FALSE
  <2>1. r = Prompt!Unchanged
    BY <1>1, <1>5, <1>12, EnrichWaits
  <2>2. ~Prompt!FirstTeller(k)
    BY <1>12 DEF Prompt!FirstTeller, Prompt!Of
  <2> QED BY <1>11, <1>12, <2>1, <2>2
<1>13. CASE chain[k].kind = "prompt_enrich" /\ eos = TRUE /\ r.action # "reject"
  <2>1. /\ Placed(k)' /\ LengthTold' /\ Told(k + 1)' /\ (HasModel' <=> HasModel)
    BY <1>1, <1>2, <1>3, <1>5, <1>6, <1>8, <1>13, EnrichPlaces
  <2>2. r.action = "continue"
    <3>1. r = Prompt!EnrichOnRequestBody(chain[k])
      BY <1>1, <1>5, <1>13 DEF Prompt!FilterResult
    <3> QED BY <1>13, <3>1 DEF Prompt!EnrichOnRequestBody, Prompt!InvalidBodyAction, Prompt!Unchanged
  <2>3. ReleasedBy(k + 1)'
    <3>1. \A i \in DOMAIN chain : i < k => i < k + 1
      BY <1>4
    <3> QED BY <1>2, <1>6, <2>1, <2>2, <3>1 DEF ReleasedBy, Prompt!Of
  <2>4. at' - 1 = k /\ k \in 0..k /\ k + 1 \in 0..(Len(chain) + 1)
    BY <1>4, <1>6
  <2>5. Ended'
    <3>1. Ended' <=> (eos' = TRUE => /\ LengthTold'
                                     /\ \E j \in 0..(at' - 1) :
                                           Placed(j)' /\ (NotPassedOver' => j = at' - 1))
      BY DEF Ended
    <3> QED BY <2>1, <2>4, <3>1
  <2>6. Goes(k + 1)'
    BY <1>2, <1>6, <1>13, <2>1, <2>3, <2>4, <2>5 DEF Goes, NotEnded, Accepted
  <2> QED BY <1>2, <1>3, <1>6, <2>2, <2>6, GoneOn
<1>14. CASE chain[k].kind = "model_to_header"
  <2>1. CASE HasModel
    <3>1. r.action = "release" /\ r.body = chunk /\ r.pushed = <<ModelHeader(chain[k])>>
      BY <1>1, <1>5, <1>14, <2>1, PromoteDoes
    <3>2. chunk' = chunk /\ extra_headers' = extra_headers \o <<ModelHeader(chain[k])>>
      BY <1>2, <3>1
    <3>3. /\ Told(k + 1)'
          /\ Prompt!Pushed("content-length")' = Prompt!Pushed("content-length")
          /\ Prompt!InEffect("content-length")' = Prompt!InEffect("content-length")
      BY <1>2, <1>3, <1>6, <1>14, <2>1, <3>2, PromoteTells
    <3>4. ReleasedBy(k + 1)'
      <4>1. k \in Prompt!Of("model_to_header")' /\ k < k + 1
        BY <1>2, <1>4, <1>14 DEF Prompt!Of
      <4> QED BY <2>1, <3>2, <4>1 DEF ReleasedBy, HasModel
    <3> QED BY <1>10, <1>14, <3>1, <3>2, <3>3, <3>4
  <2>2. CASE ~HasModel
    <3>1. r = Prompt!Unchanged
      BY <1>1, <1>5, <1>14, <2>2, PromoteDoes
    <3> QED BY <1>11, <1>14, <2>2, <3>1
  <2> QED BY <2>1, <2>2
<1>15. CASE chain[k].kind = "ai_guardrails"
  <2>1. r = Prompt!Unchanged
    BY <1>1, <1>5, <1>15, GuardDoes
  <2>2. ~Prompt!FirstTeller(k)
    BY <1>15 DEF Prompt!FirstTeller, Prompt!Of
  <2> QED BY <1>11, <1>15, <2>1, <2>2
<1>16. chain[k].kind \in {"prompt_enrich", "model_to_header", "ai_guardrails"} /\ eos \in BOOLEAN
  BY <1>4, <1>6 DEF IsChain, Goes
<1> QED BY <1>9, <1>12, <1>13, <1>14, <1>15, <1>16

LEMMA SkipFilterSound ==
    ASSUME PromptsTyped, PromptInv, Prompt!SkipFilter
    PROVE  PromptInv'
<1>1. /\ outcome = "ready" /\ at \in DOMAIN chain /\ released # "no"
      /\ released' = "skipping" /\ at' = at + 1 /\ outcome' = outcome /\ chunk' = chunk
      /\ extra_headers' = extra_headers /\ chain' = chain /\ sent' = sent /\ eos' = eos
  BY DEF Prompt!SkipFilter
<1>2. chain \in PromptChains /\ sent \in PromptBodies /\ Goes(at)
  BY <1>1, GoesOn
<1>3. IsChain(chain) /\ Len(chain) \in Nat /\ DOMAIN chain = 1..Len(chain)
  BY <1>2, ChainIsList
<1>4. PICK k \in 1..Len(chain) : k = at
  BY <1>1, <1>3
<1>5. Goes(k) /\ Told(k) /\ ReleasedBy(k) /\ at = k /\ at' = k + 1
  BY <1>1, <1>2, <1>4 DEF Goes
\* A filter released before: the first that tells is behind the call
<1>6. PICK i \in Prompt!Of("model_to_header") : i < k
  BY <1>1, <1>5 DEF ReleasedBy
<1>7. Told(k + 1)'
  <2>1. ~Prompt!FirstTeller(k)
    <3>1. i \in Nat /\ ~(k <= i)
      BY <1>3, <1>6 DEF Prompt!Of
    <3> QED BY <1>6, <3>1 DEF Prompt!FirstTeller
  <2> QED BY <1>1, <1>2, <1>5, <2>1, QuietTells
<1>8. ReleasedBy(k + 1)'
  <2>1. i < k + 1
    BY <1>3, <1>6 DEF Prompt!Of
  <2> QED BY <1>1, <1>5, <1>6, <2>1 DEF ReleasedBy, HasModel, Prompt!Of
<1>9. ASSUME eos = TRUE
      PROVE  \E j \in 0..k : Placed(j) /\ (NotPassedOver' => j = k)
  <2>1. NotPassedOver' <=> Prompt!EnrichesFirst
    BY <1>1 DEF NotPassedOver, Prompt!EnrichesFirst, Prompt!Of
  <2>2. PICK j \in 0..(k - 1) : Placed(j) /\ (NotPassedOver => j = k - 1)
    BY <1>5, <1>9 DEF Goes, Ended
  <2>3. CASE ~Prompt!EnrichesFirst
    <3>1. j \in 0..k
      BY <1>3, <2>2
    <3> QED BY <2>1, <2>2, <2>3, <3>1
  <2>4. CASE Prompt!EnrichesFirst
    <3>1. chain[k].kind # "prompt_enrich"
      <4>1. i \in Nat /\ k \in Nat /\ ~(k < i)
        BY <1>3, <1>6 DEF Prompt!Of
      <4> QED BY <1>3, <1>6, <2>4, <4>1 DEF Prompt!EnrichesFirst, Prompt!Of
    <3>2. Placed(k)
      BY <1>2, <2>2, <2>4, <3>1, AddedStays DEF NotPassedOver
    <3>3. k \in 0..k
      BY <1>3
    <3> QED BY <3>2, <3>3
  <2> QED BY <2>3, <2>4
<1> QED BY <1>1, <1>2, <1>5, <1>7, <1>8, <1>9, HeadersKept, Advances

\* The end of the chain, and what it forwards
LEMMA ChainEndsSound ==
    ASSUME PromptsTyped, PromptInv, Prompt!ChainEnds
    PROVE  PromptInv'
<1>1. /\ outcome = "ready" /\ at > Len(chain)
      /\ chain' = chain /\ sent' = sent /\ eos' = eos /\ chunk' = chunk
      /\ extra_headers' = extra_headers
      /\ IF eos THEN outcome' = "forwarded" /\ at' = at /\ released' = released
                ELSE at' = 0 /\ released' = "no" /\ outcome' = outcome
  BY DEF Prompt!ChainEnds
<1>2. chain \in PromptChains /\ sent \in PromptBodies /\ Goes(at)
  BY <1>1, GoesOn
<1>3. Len(chain) \in Nat /\ IsChain(chain) /\ DOMAIN chain = 1..Len(chain)
  BY <1>2, ChainIsList
<1>4. PICK k \in Nat : k = at /\ k = Len(chain) + 1
  BY <1>1, <1>2, <1>3 DEF Goes
<1>5. Goes(k) /\ Told(k)
  BY <1>2, <1>4 DEF Goes
<1>6. FromClient' /\ (HasModel' <=> HasModel)
  BY <1>1, <1>5 DEF Told, FromClient, HasModel
<1>7. CASE eos = TRUE
  <2>1. Told(k)'
    BY <1>1, <1>5, <1>6, ToldBefore
  <2>2. ReleasedBy(k)'
    BY <1>1, <1>5, <1>6, <1>7 DEF Goes, ReleasedBy, Prompt!Of
  <2>3. LengthTold'
    BY <1>1, <1>5, <1>7, HeadersKept, LengthStill DEF Goes, Ended
  <2>4. PICK j \in 0..(k - 1) : Placed(j) /\ (NotPassedOver => j = k - 1)
    BY <1>4, <1>5, <1>7 DEF Goes, Ended
  <2>5. Placed(j)' /\ (NotPassedOver' <=> NotPassedOver)
    BY <1>1, <1>7, <2>4, PlacedStill DEF NotPassedOver, Prompt!EnrichesFirst, Prompt!Of
  <2>6. Ended'
    <3>1. Ended' <=> (eos' = TRUE => /\ LengthTold'
                                     /\ \E l \in 0..(at' - 1) :
                                           Placed(l)' /\ (NotPassedOver' => l = at' - 1))
      BY DEF Ended
    <3>2. at' - 1 = k - 1
      BY <1>1, <1>4, <1>7
    <3> QED BY <2>3, <2>4, <2>5, <3>1, <3>2
  <2>7. Goes(k)'
    BY <1>1, <1>5, <1>7, <2>1, <2>2, <2>6 DEF Goes, NotEnded, Accepted
  <2> QED BY <1>1, <1>2, <1>4, <1>7, <2>7, GoneOn
<1>8. CASE eos = FALSE
  <2>1. \A i \in Nat : i < 0 => i < k
    OBVIOUS
  <2>2. Told(0)'
    BY <1>1, <1>5, <1>6, <2>1, ToldBefore
  <2>3. Prompt!Pushed("content-length")' = Prompt!Pushed("content-length")
    BY <1>1, HeadersKept
  <2>4. NotEnded'
    BY <1>1, <1>5, <1>8, <2>3 DEF Goes, NotEnded
  <2>5. Goes(0)'
    BY <1>1, <1>3, <1>5, <1>8, <2>2, <2>4 DEF Goes, Ended, ReleasedBy, Accepted
  <2> QED BY <1>1, <1>2, <1>8, <2>5, GoneOn
<1>9. eos \in BOOLEAN
  BY <1>5 DEF Goes
<1> QED BY <1>7, <1>8, <1>9

LEMMA ForwardEarlySound ==
    ASSUME PromptsTyped, PromptInv, Prompt!ForwardEarly
    PROVE  PromptInv'
<1>1. /\ outcome = "ready" /\ at > Len(chain) /\ eos # TRUE /\ released # "no"
      /\ ~Prompt!EnrichesFirst /\ outcome' = "forwarded" /\ chunk' = sent
      /\ chain' = chain /\ sent' = sent /\ eos' = eos /\ at' = at /\ released' = released
      /\ extra_headers' = extra_headers
  BY DEF Prompt!ForwardEarly
<1>2. chain \in PromptChains /\ sent \in PromptBodies /\ Goes(at)
  BY <1>1, GoesOn
<1>3. Len(chain) \in Nat
  BY <1>2, ChainIsList
<1>4. PICK k \in Nat : k = at /\ k = Len(chain) + 1
  BY <1>1, <1>2, <1>3 DEF Goes
<1>5. Goes(k) /\ Told(k) /\ eos = FALSE
  BY <1>1, <1>2, <1>4 DEF Goes
<1>6. HasModel
  BY <1>1, <1>5 DEF Goes, ReleasedBy
<1>7. chunk.model = sent.model /\ sent # NoBody /\ sent.model # None
  BY <1>5, <1>6 DEF Told, FromClient, HasModel
<1>8. FromClient' /\ HasModel'
  BY <1>1, <1>7 DEF FromClient, HasModel
<1>9. Told(k)'
  BY <1>1, <1>5, <1>6, <1>8, ToldBefore
<1>10. ReleasedBy(k)'
  BY <1>1, <1>5, <1>8 DEF Goes, ReleasedBy, Prompt!Of
<1>11. NotEnded'
  <2>1. Prompt!Pushed("content-length")' = {}
    BY <1>1, <1>5, HeadersKept DEF Goes, NotEnded
  <2> QED BY <1>1, <2>1 DEF NotEnded, Prompt!EnrichesFirst, Prompt!Of
<1>12. Goes(k)'
  BY <1>1, <1>5, <1>9, <1>10, <1>11 DEF Goes, Ended, Accepted
<1> QED BY <1>1, <1>2, <1>4, <1>12, GoneOn

LEMMA PromptInvKept ==
    ASSUME PromptsTyped, PromptInv, [Prompt!Next]_Prompt!vars
    PROVE  PromptInv'
<1>1. CASE UNCHANGED Prompt!vars
  <2>1. /\ chain' = chain /\ sent' = sent /\ chunk' = chunk /\ eos' = eos /\ at' = at
        /\ released' = released /\ extra_headers' = extra_headers /\ outcome' = outcome
    BY <1>1 DEF Prompt!vars
  <2>2. /\ Prompt!EnrichesFirst' = Prompt!EnrichesFirst /\ NotPassedOver' = NotPassedOver
        /\ \A i : Prompt!FirstTeller(i)' = Prompt!FirstTeller(i)
        /\ Prompt!Of("model_to_header")' = Prompt!Of("model_to_header")
    BY <2>1 DEF NotPassedOver, Prompt!EnrichesFirst, Prompt!FirstTeller, Prompt!Of
  <2>3. \A name : /\ Prompt!Pushed(name)' = Prompt!Pushed(name)
                  /\ Prompt!InEffect(name)' = Prompt!InEffect(name)
    BY <2>1, HeadersKept
  <2>4. Told(at)' = Told(at)
    <3>1. NamesTold' = NamesTold
      BY <2>1, <2>3 DEF NamesTold
    <3>2. ModelsTold(at)' = ModelsTold(at)
      <4>1. \A i \in Nat : Prompt!InEffect(chain[i].header)' = Prompt!InEffect(chain[i].header)
        BY <2>1 DEF Prompt!InEffect, Prompt!Pushed
      <4> QED BY <2>1, <2>2, <4>1 DEF ModelsTold, HasModel
    <3> QED BY <2>1, <3>1, <3>2 DEF Told, FromClient
  <2>5. ReleasedBy(at)' = ReleasedBy(at)
    BY <2>1, <2>2 DEF ReleasedBy, HasModel
  <2>6. NotEnded' = NotEnded
    BY <2>1, <2>2, <2>3 DEF NotEnded
  <2>7. LengthTold' = LengthTold /\ \A j : Placed(j)' = Placed(j)
    BY <2>1, <2>3 DEF LengthTold, Placed, Prompt!Enrichable
  <2>8. Ended' = Ended
    BY <2>1, <2>2, <2>7 DEF Ended
  <2>9. Accepted' = Accepted
    BY <2>1 DEF Accepted
  <2> QED BY <2>1, <2>4, <2>5, <2>6, <2>8, <2>9 DEF PromptInv
<1>2. CASE Prompt!Next
  BY <1>2, BuildSound, BodyPartSound, BodyEndSound, CallFilterSound, SkipFilterSound,
     ChainEndsSound, ForwardEarlySound
  DEF Prompt!Next
<1> QED BY <1>1, <1>2

\* What is sent on has the messages of the filters up to one around the client's
LEMMA ForwardedPlaced ==
    ASSUME PromptsTyped, PromptInv, outcome = "forwarded"
    PROVE  /\ Prompt!Enrichable =>
                \E k \in 0..Len(chain) :
                    /\ chunk.messages = Prompt!Wrapped(k)
                    /\ Prompt!EnrichesFirst => k = Len(chain)
           /\ ~Prompt!Enrichable => chunk = sent
           /\ Prompt!Enrichable => chunk \in BodyType
           /\ chunk # NoBody => chunk.model = sent.model
           /\ sent # NoBody => chunk # NoBody
<1>1. chain \in PromptChains /\ sent \in PromptBodies /\ Goes(at) /\ at = Len(chain) + 1
  BY GoesOn DEF PromptInv
<1>2. IsChain(chain) /\ Len(chain) \in Nat
  BY <1>1, ChainIsList
<1>3. CASE eos = FALSE
  <2>1. chunk = sent /\ ~Prompt!EnrichesFirst
    BY <1>1, <1>3 DEF Goes, NotEnded
  <2>2. ASSUME Prompt!Enrichable PROVE chunk.messages = Prompt!Wrapped(0) /\ chunk \in BodyType
    <3>1. sent \in BodyType /\ sent.messages \in Seq(Messages)
      BY <1>1, <2>2, BodyParts DEF Prompt!Enrichable
    <3>2. sent.messages = <<>> \o sent.messages \o <<>>
      BY <3>1, ConcatEmptySeq
    <3>3. /\ Prompt!Added(chain)[0].before = <<>>
          /\ Prompt!Added(chain)[0].after = <<>>
      BY <1>2, AddedUnfolds DEF NoPair
    <3>4. Prompt!Wrapped(0) = <<>> \o sent.messages \o <<>>
      BY <3>3 DEF Prompt!Wrapped
    <3> QED BY <2>1, <3>1, <3>2, <3>4
  <2>3. 0 \in 0..Len(chain)
    BY <1>2
  <2> QED BY <2>1, <2>2, <2>3
<1>4. CASE eos = TRUE
  <2>1. PICK j \in 0..(at - 1) : Placed(j) /\ (NotPassedOver => j = at - 1)
    BY <1>1, <1>4 DEF Goes, Ended
  <2>2. j \in 0..Len(chain) /\ at - 1 = Len(chain)
    BY <1>1, <1>2, <2>1
  <2>3. Prompt!EnrichesFirst => j = Len(chain)
    BY <2>1, <2>2 DEF NotPassedOver
  <2>4. Prompt!Enrichable =>
           chunk.messages = Prompt!Wrapped(j) /\ chunk \in BodyType /\ chunk.model = sent.model
    BY <2>1 DEF Placed, Prompt!Wrapped
  <2>5. ~Prompt!Enrichable => chunk = sent
    BY <2>1 DEF Placed
  <2>6. Prompt!Enrichable => chunk # NoBody
    BY <2>4 DEF PromptsTyped
  <2> QED BY <2>2, <2>3, <2>4, <2>5, <2>6
<1>5. eos \in BOOLEAN
  BY <1>1 DEF Goes
<1> QED BY <1>3, <1>4, <1>5

LEMMA LeadIsSystem ==
    ASSUME PromptsTyped, PromptInv, outcome = "forwarded", Prompt!Enrichable,
           NEW k \in 0..Len(chain), NEW i \in 1..Len(Prompt!Added(chain)[k].before)
    PROVE  Prompt!Wrapped(k)[i].role = "system"
<1>1. chain \in PromptChains /\ sent \in PromptBodies /\ Accepted
  BY GoesOn DEF Goes
<1>2. IsChain(chain) /\ Len(chain) \in Nat
  BY <1>1, ChainIsList
<1>3. PICK added : added = Prompt!Added(chain)[k]
  OBVIOUS
<1>4. added.before[i].role = "system"
  <2>1. \A l \in 0..Len(chain) : \A j \in 1..Len(Prompt!Added(chain)[l].before) :
           Prompt!Added(chain)[l].before[j].role = "system"
    BY <1>1, <1>2, SystemLeads DEF Accepted
  <2> QED BY <1>3, <2>1
<1>5. added \in Pairs
  BY <1>2, <1>3, AddedUnfolds
<1>6. PICK p, m, q : p = added.before /\ m = sent.messages /\ q = added.after
  OBVIOUS
<1>7. p \in Seq(Messages) /\ q \in Seq(Messages) /\ m \in Seq(Messages)
  BY <1>1, <1>5, <1>6, BodyParts DEF Pairs, Prompt!Enrichable
<1>8. Prompt!Wrapped(k) = p \o m \o q
  BY <1>3, <1>6 DEF Prompt!Wrapped
<1>9. p \o m \in Seq(Messages) /\ Len(p \o m) = Len(p) + Len(m)
      /\ Len(p) \in Nat /\ Len(m) \in Nat /\ Len(q) \in Nat
      /\ \A j \in 1..(Len(p) + Len(m)) :
            (p \o m)[j] = IF j <= Len(p) THEN p[j] ELSE m[j - Len(p)]
  BY <1>7, ConcatProperties
<1>10. PICK pm : pm = p \o m
  OBVIOUS
<1>11. \A j \in 1..(Len(pm) + Len(q)) :
          (pm \o q)[j] = IF j <= Len(pm) THEN pm[j] ELSE q[j - Len(pm)]
  BY <1>7, <1>9, <1>10, ConcatProperties
<1>12. i \in 1..Len(p) /\ i <= Len(p) /\ i \in 1..(Len(p) + Len(m))
       /\ Len(pm) = Len(p) + Len(m) /\ i \in 1..(Len(pm) + Len(q)) /\ i <= Len(pm)
  <2>1. PICK a \in Nat : a = Len(p)
    BY <1>9
  <2>2. PICK b \in Nat : b = Len(m)
    BY <1>9
  <2>3. PICK c \in Nat : c = Len(q)
    BY <1>9
  <2>4. i \in 1..a
    BY <1>3, <1>6, <2>1
  <2>5. Len(pm) = a + b
    BY <1>9, <1>10, <2>1, <2>2
  <2>6. i \in 1..(a + b) /\ i <= a /\ i <= a + b /\ i \in 1..(a + b + c)
    BY <2>4
  <2> QED BY <2>1, <2>2, <2>3, <2>4, <2>5, <2>6
<1>13. (pm \o q)[i] = p[i]
  BY <1>9, <1>10, <1>11, <1>12
<1> QED BY <1>4, <1>6, <1>8, <1>10, <1>13

LEMMA PromptInvImplies ==
    ASSUME PromptsTyped, PromptInv
    PROVE  Prompt!EnrichmentSound
<1> SUFFICES ASSUME outcome = "forwarded"
             PROVE  Prompt!EnrichmentSound
  BY DEF Prompt!EnrichmentSound, Prompt!EnrichedOnce, Prompt!LengthHonest,
         Prompt!OnlySystemLeads, Prompt!ModelTold
<1>1. /\ chain \in PromptChains /\ sent \in PromptBodies
      /\ Goes(Len(chain) + 1) /\ Told(Len(chain) + 1)
  BY GoesOn DEF PromptInv, Goes
<1>2. Len(chain) \in Nat /\ DOMAIN chain = 1..Len(chain) /\ IsChain(chain)
  BY <1>1, ChainIsList
<1>3. Prompt!EnrichedOnce
  BY ForwardedPlaced DEF Prompt!EnrichedOnce
<1>4. Prompt!LengthHonest
  <2>1. CASE Prompt!Pushed("content-length") = {}
    <3>1. chunk = sent
      BY <1>1, <2>1 DEF Goes, NotEnded, Ended, LengthTold
    <3> QED BY <2>1, <3>1 DEF Prompt!LengthHonest, Prompt!InEffect
  <2>2. CASE Prompt!Pushed("content-length") # {}
    <3>1. Prompt!Enrichable /\ Prompt!InEffect("content-length") = chunk.size
      BY <1>1, <2>2 DEF Goes, NotEnded, Ended, LengthTold
    <3>2. chunk.size \in Nat
      BY <3>1, ForwardedPlaced DEF BodyType
    <3>3. Prompt!InEffect("content-length") # None
      BY <3>1, <3>2 DEF PromptsTyped
    <3> QED BY <3>1, <3>3 DEF Prompt!LengthHonest
  <2> QED BY <2>1, <2>2
<1>5. Prompt!OnlySystemLeads
  <2> SUFFICES ASSUME Prompt!Enrichable
               PROVE  \E k \in 0..Len(chain) :
                         /\ chunk.messages = Prompt!Wrapped(k)
                         /\ \A i \in 1..Len(Prompt!Added(chain)[k].before) :
                               chunk.messages[i].role = "system"
    BY DEF Prompt!OnlySystemLeads
  <2>1. PICK k \in 0..Len(chain) : chunk.messages = Prompt!Wrapped(k)
    BY ForwardedPlaced
  <2>2. \A i \in 1..Len(Prompt!Added(chain)[k].before) : Prompt!Wrapped(k)[i].role = "system"
    BY LeadIsSystem
  <2> QED BY <2>1, <2>2
<1>6. Prompt!ModelTold
  <2> SUFFICES ASSUME sent # NoBody, NEW i \in Prompt!Of("model_to_header")
               PROVE  /\ Prompt!InEffect(chain[i].header) \in {None, sent.model}
                      /\ Prompt!FirstTeller(i) =>
                            Prompt!InEffect(chain[i].header) = sent.model
    BY DEF Prompt!ModelTold
  <2>1. PICK name : name = chain[i].header
    OBVIOUS
  <2>2. i \in Nat /\ i < Len(chain) + 1 /\ name # "content-length"
    BY <1>2, <2>1 DEF Prompt!Of, IsChain
  <2>3. Prompt!InEffect(name) \in {None, sent.model}
    BY <1>1, <2>2 DEF Told, NamesTold
  <2>4. ASSUME Prompt!FirstTeller(i) PROVE Prompt!InEffect(name) = sent.model
    <3>1. chunk # NoBody /\ chunk.model = sent.model
      BY ForwardedPlaced
    <3>2. sent.model # None => Prompt!InEffect(name) = sent.model
      BY <1>1, <2>1, <2>2, <2>4, <3>1 DEF Told, ModelsTold, HasModel
    <3> QED BY <2>3, <3>2
  <2> QED BY <2>1, <2>3, <2>4
<1> QED BY <1>3, <1>4, <1>5, <1>6 DEF Prompt!EnrichmentSound

LEMMA PromptsStarts ==
    ASSUME PromptsTyped PROVE Prompt!Init => PromptInv
BY PromptStarts

LEMMA PromptsSteps ==
    ASSUME PromptsTyped PROVE PromptInv /\ [Prompt!Next]_Prompt!vars => PromptInv'
BY PromptInvKept

LEMMA PromptsTells ==
    ASSUME PromptsTyped PROVE PromptInv => Prompt!EnrichmentSound
BY PromptInvImplies

(***************************************************************************)
(* Whatever filters a chain is put together from, however the body is cut  *)
(* and whatever the proxy makes of a release: with prompt_enrich first     *)
(* each configured message goes upstream once, in its place around the     *)
(* client's own, in another order those of the filters up to some point;   *)
(* only system messages lead, the content-length in effect fits the body   *)
(* that is forwarded, and the first model_to_header filter tells the       *)
(* client's model and none tells another (on_request_body of               *)
(* prompt_enrich and of model_to_header).                                  *)
(***************************************************************************)
THEOREM EnrichmentIsSound == ASSUME PromptsTyped PROVE Spec => []EnrichmentSound
<1> DEFINE Inv == subject = "prompt" => PromptInv
<1>1. Init => Inv
  BY PromptsStarts DEF Init
<1>2. Inv /\ [Next]_vars => Inv'
  <2> SUFFICES ASSUME Inv, [Next]_vars, subject' = "prompt" PROVE PromptInv'
    OBVIOUS
  <2>1. subject = "prompt" /\ [Prompt!Next]_(Prompt!vars)
    BY DEF Next, vars, promptVars, Prompt!vars
  <2> QED BY <2>1, PromptsSteps
<1>3. Inv => EnrichmentSound
  BY PromptsTells DEF EnrichmentSound
<1> QED BY <1>1, <1>2, <1>3, PTL DEF Spec
===============================================================================
