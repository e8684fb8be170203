----------------------------- MODULE Exchanges -----------------------------
(* The filters that read or change one exchange at a time.  `subject` names *)
(* the one a behaviour is about; the variables of the others are None.      *)
EXTENDS Integers, Sequences

CONSTANTS
    AliasSets, Target(_), Defaults, BodyModels, ModelBodies,  \* ModelRewrite
    Unpromotable, OnInvalid, Creates,
    MaxCount, UsageBodies, Providers, MaxReplies,             \* TokenUsage
    Implemented, BrokerConfigs, BrokerRequests, MaxRequests,  \* McpBroker
    AgentChains, AgentConfigs, AgentRequests,                 \* AgentFilters
    PromptChains, PromptBodies, Messages, Models,             \* PromptChain
    None, Absent, Other, Forwarded, NoBody

VARIABLES
    subject,
    aliases, default, body, create, stage, todo, best, model, \* ModelRewrite
    meta, headers, results, facts,
    usages, metadata, usage_headers, passed,                  \* TokenUsage
    broker_config, broker, catalog, posted, answered,         \* McpBroker
    issued, clients,
    agents, agent_config, called, ctx, verdict,                 \* AgentFilters
    chain, sent, chunk, eos, at, released, extra_headers,
    outcome                                                   \* PromptChain

modelVars == <<aliases, default, body, create, stage, todo, best, model, meta, headers,
               results, facts>>
usageVars == <<usages, metadata, usage_headers, passed>>
brokerVars == <<broker_config, broker, catalog, posted, answered, issued, clients>>
agentVars == <<agents, agent_config, called, ctx, verdict>>
promptVars == <<chain, sent, chunk, eos, at, released, extra_headers, outcome>>
vars == <<subject, modelVars, usageVars, brokerVars, agentVars, promptVars>>

-----------------------------------------------------------------------------
(* Instances *)

Rewrite == INSTANCE ModelRewrite WITH Bodies <- ModelBodies
Usage == INSTANCE TokenUsage WITH
    Bodies <- UsageBodies, replies <- usages, headers <- usage_headers, sent <- passed
Broker == INSTANCE McpBroker WITH
    Configs <- BrokerConfigs, Requests <- BrokerRequests,
    config <- broker_config, request <- posted, answer <- answered
Agent == INSTANCE AgentFilters WITH
    Chains <- AgentChains, Configs <- AgentConfigs, Requests <- AgentRequests,
    chain <- agents, config <- agent_config, request <- called, outcome <- verdict
Prompt == INSTANCE PromptChain WITH
    Chains <- PromptChains, Bodies <- PromptBodies, headers <- extra_headers

-----------------------------------------------------------------------------
(* What the proofs about the filters assume of their inputs                *)

\* The five providers; a count is a number up to the largest, or missing
CountFields ==
    {"prompt_tokens", "completion_tokens", "total_tokens", "input_tokens",
     "output_tokens", "cache_creation_input_tokens", "cache_read_input_tokens",
     "promptTokenCount", "candidatesTokenCount", "totalTokenCount",
     "inputTokens", "outputTokens", "totalTokens"}
Count == 0..MaxCount
MaybeCount == Count \cup {None}
CountsFit ==
    /\ MaxCount \in Nat /\ None \notin Int
    /\ Providers \subseteq {"OpenAi", "Azure", "Anthropic", "Google", "Bedrock"}
    /\ \A b \in UsageBodies : b.fields \in [CountFields -> MaybeCount]

\* Names and patterns are sequences of characters, a pattern with a wildcard
\* at most; no name is None, Absent or Other.
NamesTyped ==
    /\ \A as \in AliasSets : as \subseteq Seq(Nat)
    /\ \A m \in BodyModels : m \in {Absent, Other} \/ m \in Seq(Nat)
    /\ {None, Absent, Other} \cap Seq(Nat) = {}

\* Servers and their tools are lists
IsList(s) == s \in Seq({s[i] : i \in DOMAIN s})
ServersListed ==
    \A c \in BrokerConfigs :
        IsList(c.servers) /\ \A i \in DOMAIN c.servers : IsList(c.servers[i].tools)

\* A call has a method and one of the five kinds of id; what class a text is
\* in depends on the text alone, so that a header that can be read and says
\* what the body says is the value of the body
CallsRead ==
    \A r \in AgentRequests : r.body = "call" =>
        /\ r.call.method # None
        /\ r.call.id.kind \in {"Integer", "Number", "String", "Missing", "Null"}
        /\ \A h \in {r.headers.mcp_method, r.headers.mcp_name} :
           \A x \in {r.call.method, r.call.params.name, r.call.params.uri} :
              h # None /\ h.c # "binary" /\ x # None /\ h.v = x.v => h = x

\* A body is an object with messages of one type, a chain has the three kinds
\* of filters, and none of them tells the model as the content-length
BodyType ==
    [json : BOOLEAN, messages : Seq(Messages) \cup {None}, model : Models \cup {None},
     size : Nat]
IsChain(c) ==
    /\ IsList(c)
    /\ \A i \in DOMAIN c :
          /\ c[i].kind \in {"prompt_enrich", "model_to_header", "ai_guardrails"}
          /\ c[i].kind = "prompt_enrich" =>
                c[i].prepend \in Seq(Messages) /\ c[i].append \in Seq(Messages)
          /\ c[i].kind = "model_to_header" => c[i].header # "content-length"
PromptsTyped ==
    /\ None \notin Nat /\ None \notin Seq(Messages)
    /\ \A b \in PromptBodies : b # NoBody => b \in BodyType
    /\ NoBody \notin BodyType
    /\ \A c \in PromptChains : IsChain(c)

ASSUME InputsTyped == CountsFit /\ NamesTyped /\ ServersListed /\ CallsRead /\ PromptsTyped

-----------------------------------------------------------------------------
NoModel ==
    /\ aliases = None /\ default = None /\ body = None /\ create = None /\ stage = None
    /\ todo = None /\ best = None /\ model = None /\ meta = None /\ headers = None
    /\ results = None /\ facts = None
NoUsage == usages = None /\ metadata = None /\ usage_headers = None /\ passed = None
NoBroker ==
    /\ broker_config = None /\ broker = None /\ catalog = None /\ posted = None
    /\ answered = None /\ issued = None /\ clients = None
NoAgent == agents = None /\ agent_config = None /\ called = None /\ ctx = None /\ verdict = None
NoPrompt ==
    /\ chain = None /\ sent = None /\ chunk = None /\ eos = None /\ at = None
    /\ released = None /\ extra_headers = None /\ outcome = None

Init ==
    \/ subject = "model" /\ Rewrite!Init /\ NoUsage /\ NoBroker /\ NoAgent /\ NoPrompt
    \/ subject = "usage" /\ Usage!Init /\ NoModel /\ NoBroker /\ NoAgent /\ NoPrompt
    \/ subject = "broker" /\ Broker!Init /\ NoModel /\ NoUsage /\ NoAgent /\ NoPrompt
    \/ subject = "agent" /\ Agent!Init /\ NoModel /\ NoUsage /\ NoBroker /\ NoPrompt
    \/ subject = "prompt" /\ Prompt!Init /\ NoModel /\ NoUsage /\ NoBroker /\ NoAgent

Next ==
    /\ UNCHANGED subject
    /\ \/ subject = "model" /\ Rewrite!Next
          /\ UNCHANGED <<usageVars, brokerVars, agentVars, promptVars>>
       \/ subject = "usage" /\ Usage!Next
          /\ UNCHANGED <<modelVars, brokerVars, agentVars, promptVars>>
       \/ subject = "broker" /\ Broker!Next
          /\ UNCHANGED <<modelVars, usageVars, agentVars, promptVars>>
       \/ subject = "agent" /\ Agent!Next
          /\ UNCHANGED <<modelVars, usageVars, brokerVars, promptVars>>
       \/ subject = "prompt" /\ Prompt!Next
          /\ UNCHANGED <<modelVars, usageVars, brokerVars, agentVars>>

Spec == Init /\ [][Next]_vars

-----------------------------------------------------------------------------
(* Properties *)

\* resolve_alias and on_request: the alias does not depend on the order of the
\* HashMap, the branches see the facts of the rewrite although other filters
\* clear the results in between, and the header names the model that is sent.
RewriteConsistent == subject = "model" => Rewrite!RewriteConsistent

\* extract_token_usage and token_usage_headers: no consumed token is lost to
\* saturation or to a missing field, the three headers come from one reply, and
\* an Anthropic reply costs the same through Bedrock.
UsageSound == subject = "usage" => Usage!UsageSound

\* McpBrokerFilter: a tool name that is listed means one tool of one server, the
\* version agreed on is one both sides speak, sessions are not given out twice,
\* and every answer carries the id of its request.
BrokerSound == subject = "broker" => Broker!BrokerSound

\* The mcp and a2a filters: metadata, headers and filter results tell the same of
\* one call, what mcp lets pass agrees with the client's own headers, an error
\* keeps the id of its request, and the task a call is about is found under every
\* alias of its method.
CallsToldOnce == subject = "agent" => Agent!CallsToldOnce

\* prompt_enrich and model_to_header: with prompt_enrich first, each configured
\* message is added once around the client's own however the body is cut, and in
\* any other order by the filters up to some point; only system messages lead, and
\* content-length and model header fit the body sent.
EnrichmentSound == subject = "prompt" => Prompt!EnrichmentSound
=============================================================================
