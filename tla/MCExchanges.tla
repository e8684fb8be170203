----------------------------- MODULE MCExchanges -----------------------------
(* Values for Exchanges; and the two translations, each on parts of its     *)
(* inputs: `subject` names the part, and the variables of the others are    *)
(* None.                                                                    *)
EXTENDS Exchanges, FiniteSetsExt

CONSTANTS NoTools, NoChoice, Blank

VARIABLES
    req, serving, known, spoken, turns, chat, reply, client,  \* AnthropicMessages
    phase, request, input, messages, answer, resource,        \* ChatTranslation
    dialogue, replies

anthropicVars == <<req, serving, known, spoken, turns, chat, reply, client>>
chatVars == <<phase, request, input, messages, answer, resource, dialogue, replies>>

-----------------------------------------------------------------------------
(* Values *)

\* Up to three patterns in every iteration order
Patterns == {<<0>>, <<1, 0>>, <<0, 2>>, <<0, 1>>, <<1, 0, 2>>, <<1, 0, 1>>,
             <<1, 2, 0>>, <<1, 2>>, <<0, 1, 2>>}
MCAliasSets == UNION {kSubset(n, Patterns) : n \in 0..3}
MCTarget(p) == p \o <<9>>
MCDefaults == {None, <<7>>}
MCBodyModels == {<<1>>, <<1, 2>>, <<1, 1, 2>>, <<2>>, Absent, Other}
MCUnpromotable == {<<1, 1, 2>>, <<0, 9>>}

\* Replies of four providers, counts up to the largest
U == INSTANCE MCTokenUsage
MCUsageBodies == U!MCBodies

\* Catalogs of two servers whose tools may spell the same name; every version
\* setting and requests of any kind
M == INSTANCE MCMcpBroker
MCBrokerConfigs == M!MCConfigs \cup M!MCVersions
MCBrokerRequests == M!MCCalls

\* Calls of both protocols through both filters in either order
G == INSTANCE MCAgentFilters
MCAgentChains == G!MCChains
MCAgentConfigs == G!MCConfigs
MCAgentRequests == G!MCRequests

\* Chains of up to three filters, and every cut of the body
E == INSTANCE MCPromptChain
MCPromptChains == E!MCChains
MCPromptBodies == E!MCBodies
MCMessages == UNION {{b.messages[k] : k \in DOMAIN b.messages} :
                        b \in {c \in E!MCBodies : c # NoBody /\ c.messages # None}}
              \cup UNION {{f[k] : k \in DOMAIN f} : f \in E!Prepends \cup E!Appends}

-----------------------------------------------------------------------------
(* The translations *)

\* Conversations of up to three blocks over two turns; every shape of request
\* and reply; every list of tools and choice
A == INSTANCE MCAnthropicMessages
Talk == INSTANCE AnthropicMessages WITH
    Shapes <- A!OneShape, Chains <- {"openai"}, OnInvalid <- "reject",
    Systems <- A!MCSystems, ToolLists <- {NoTools}, ToolChoices <- {NoChoice},
    Turns <- A!MCTurns, MaxTurns <- 2, MaxBlocks <- 3, Replies <- A!OneReply,
    stage <- serving, meta <- known, version <- spoken
Exchange == INSTANCE AnthropicMessages WITH
    Shapes <- A!ManyShapes, Chains <- {"native", "openai"}, OnInvalid <- "reject",
    Systems <- {<<>>}, ToolLists <- {NoTools}, ToolChoices <- {NoChoice},
    Turns <- A!OneTurn, MaxTurns <- 1, MaxBlocks <- 1, Replies <- A!MCReplies,
    stage <- serving, meta <- known, version <- spoken
Tools == INSTANCE AnthropicMessages WITH
    Shapes <- A!OneShape, Chains <- {"openai"}, OnInvalid <- "continue",
    Systems <- {<<>>}, ToolLists <- A!MCTools, ToolChoices <- A!MCChoices,
    Turns <- A!OneTurn, MaxTurns <- 1, MaxBlocks <- 1, Replies <- A!OneReply,
    stage <- serving, meta <- known, version <- spoken

\* Three replies fed back; items, tools and formats that cannot be expressed;
\* any two settings
T == INSTANCE MCChatTranslation
Dialogue == INSTANCE ChatTranslation WITH
    Items <- T!MCItems, Instructions <- T!MCInstructions, Settings <- T!MCAbsent,
    Formats <- {"none"}, ToolLists <- {<<>>}, ToolChoices <- {"none"},
    Replies <- T!MCReplies, MaxInput <- 3, MaxReplies <- 3, chat <- messages
Support == INSTANCE ChatTranslation WITH
    Items <- T!MCBadItems, Instructions <- T!MCNoInstructions, Settings <- T!MCAbsent,
    Formats <- {"none", "text", "json_object", "json_schema"},
    ToolLists <- T!MCToolLists, ToolChoices <- {"none", "string", "allowed", "hosted"},
    Replies <- T!MCTiers, MaxInput <- 2, MaxReplies <- 1, chat <- messages
Echo == INSTANCE ChatTranslation WITH
    Items <- T!MCOneItem, Instructions <- T!MCNoInstructions, Settings <- T!MCSettings,
    Formats <- {"none"}, ToolLists <- {<<>>}, ToolChoices <- {"none"},
    Replies <- T!MCTiers, MaxInput <- 1, MaxReplies <- 1, chat <- messages

NoFilter == NoModel /\ NoUsage /\ NoBroker /\ NoAgent /\ NoPrompt
NoAnthropic ==
    /\ req = None /\ serving = None /\ known = None /\ spoken = None /\ turns = None
    /\ chat = None /\ reply = None /\ client = None
NoChat ==
    /\ phase = None /\ request = None /\ input = None /\ messages = None
    /\ answer = None /\ resource = None /\ dialogue = None /\ replies = None

AnthropicInit ==
    \/ subject = "turns" /\ Talk!Init
    \/ subject = "exchange" /\ Exchange!Init
    \/ subject = "tools" /\ Tools!Init
ChatInit ==
    \/ subject = "dialogue" /\ Dialogue!Init
    \/ subject = "support" /\ Support!Init
    \/ subject = "echo" /\ Echo!Init
AllInit ==
    \/ Init /\ NoAnthropic /\ NoChat
    \/ AnthropicInit /\ NoFilter /\ NoChat
    \/ ChatInit /\ NoFilter /\ NoAnthropic

AnthropicStep ==
    \/ subject = "turns" /\ Talk!Next
    \/ subject = "exchange" /\ Exchange!Next
    \/ subject = "tools" /\ Tools!Next
ChatStep ==
    \/ subject = "dialogue" /\ Dialogue!Next
    \/ subject = "support" /\ Support!Next
    \/ subject = "echo" /\ Echo!Next
AllNext ==
    \/ Next /\ UNCHANGED <<anthropicVars, chatVars>>
    \/ AnthropicStep /\ UNCHANGED <<vars, chatVars>>
    \/ ChatStep /\ UNCHANGED <<vars, anthropicVars>>

AllSpec == AllInit /\ [][AllNext]_<<vars, anthropicVars, chatVars>>

\* convert_content_blocks and should_transform_response: the backend is sent the
\* whole conversation in its order, a reply sent back in the next turn says the
\* same again, each reply is translated by exactly one filter, only Messages
\* requests are promoted, and a tool is demanded only when one is offered.
MessagesFaithful ==
    /\ subject = "turns" => Talk!ConversationKept
    /\ subject = "exchange" =>
        /\ Exchange!ReplyRoundTrips
        /\ Exchange!OneTranslator
        /\ Exchange!PromotionNeedsMessages
    /\ subject = "tools" => Tools!DemandFollowsTools

\* chat_completions.rs: each request tells the provider the whole dialogue, in
\* order and once, with the output items of earlier responses in it; a response
\* is coherent; what Chat Completions cannot express is refused whole; and the
\* sampling settings, limits and tiers echoed to the client are those the provider
\* was sent (tool_choice is not among them: one that is dropped is still echoed).
TranslationFaithful ==
    /\ subject = "dialogue" => Dialogue!DialogueKept /\ Dialogue!ResourceCoherent
    /\ subject = "support" => Support!NothingPartlySent
    /\ subject = "echo" => Echo!EchoHonest
=============================================================================
