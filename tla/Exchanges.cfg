\* Alias sets of up to three patterns; dialogues of three items and replies;
\* two replies with counts up to the largest; two requests to a broker; chains
\* of two or three filters, and every cut of the body.
SPECIFICATION AllSpec
CONSTANTS
    AliasSets <- MCAliasSets
    Target <- MCTarget
    Defaults <- MCDefaults
    BodyModels <- MCBodyModels
    ModelBodies = {"object", "invalid"}
    Unpromotable <- MCUnpromotable
    OnInvalid = "reject"
    Creates = {TRUE, FALSE}
    MaxCount = 5
    UsageBodies <- MCUsageBodies
    Providers = {"OpenAi", "Anthropic", "Google", "Bedrock"}
    MaxReplies = 2
    Implemented = {"v1", "v2"}
    BrokerConfigs <- MCBrokerConfigs
    BrokerRequests <- MCBrokerRequests
    MaxRequests = 2
    AgentChains <- MCAgentChains
    AgentConfigs <- MCAgentConfigs
    AgentRequests <- MCAgentRequests
    PromptChains <- MCPromptChains
    PromptBodies <- MCPromptBodies
    Messages <- MCMessages
    Models = {"small", "large"}
    None = None
    Absent = Absent
    Other = Other
    NoTools = NoTools
    NoChoice = NoChoice
    Blank = Blank
    Forwarded = Forwarded
    NoBody = NoBody
INVARIANTS
    RewriteConsistent
    MessagesFaithful
    TranslationFaithful
    UsageSound
    BrokerSound
    CallsToldOnce
    EnrichmentSound
CHECK_DEADLOCK FALSE
