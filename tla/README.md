# TLA+ models of the Praxis AI proxy

Praxis AI adds AI features to the Praxis proxy: filters that recognise,
validate, translate, store and route OpenAI, Anthropic, MCP and A2A traffic, and
a server that runs them and reloads its configuration while it serves. This
directory models what the program does with the order in which things happen:
handlers that await a database several times, filters that decide one after the
other about the same request, parsers that see their input in pieces, a route
map that many requests share, and a watcher thread that swaps live pipelines.

`PROJECT.json` is the machine-readable side: which definition models which lines
(`map`), what each TLC run checks, the mutants that break each checked property,
the hazards of the code, the findings and the proved theorems.

## Inventory of the system

| Component | State it keeps | Operations | What is hard, and what makes it correct | Modules |
|---|---|---|---|---|
| Conversations API (`apis/openai/conversations`) | none between requests; a handler holds the row it read | create, update, delete, get a conversation; create, list, get, delete items | several awaited store calls and a page loop with nothing holding them together. Creation times survive, items stay in order of arrival, a key conflict leaves nothing behind, the cached `messages` follow the items, a client that pages sees each item once | `Conversations` (writes), `ConversationReads` (reads), `ConversationFilter` (the filter around the handlers) |
| Store (`apis/store`) | tables `conversations`, `conversation_items`, `responses` | open, upsert, get, delete, batch insert in a transaction, paged listing | page boundaries among equal positions, concurrent primary keys, rollback, a crash in the middle of the schema, names that PostgreSQL cuts | `Conversations`, `ConversationReads`, `ResponseStore`, `StoreConfig` |
| Response store filter (`apis/openai/responses/store`) | captured input per request; a store opened by the first request | capture a response, upsert it before the last byte goes out, `GET`, `DELETE`, `input_items` | `DELETE` against upsert; a failed initialisation is cached for one backend and retried for the other | `ResponseStore`, `InputItems`, `StoreConfig` |
| Rehydration (`responses/rehydrate`) | per request | load the history named by `previous_response_id` and prepend it | every turn is built from what the turn before stored | `ResponseStore` |
| Responses classifier, validation, model rewrite, proxying | per request | classify, reject, rewrite, reformat errors | several filters judge one request separately and must fit together | `ResponsesFilters`, `ModelRewrite`, `ResponseStore` |
| OpenAI stream parsers (`apis/openai/sse`) | line and event buffers, budget and clock per response | feed a chunk, judge the end | chunk boundaries, limits, a late judgement | `SseFrames`, `ResponsesSse` |
| OpenAI translation | none | Responses request to Chat request, reply back | a dialogue that goes through both directions many times must stay the same | `ChatTranslation` |
| Anthropic Messages (`apis/anthropic`) | per-stream block state and byte buffers | classify, validate, translate requests, replies and stream events | order of mixed blocks, blocks that open and close, cut characters | `AnthropicMessages`, `StreamEvents`, `StreamDecode` |
| Token usage | three metadata keys per response | extract, emit headers | saturation, missing fields, two replies in one context | `TokenUsage` |
| A2A (`filters/agentic/a2a`) | shared route map; per-request buffers | classify a call; look up a task's cluster, capture it from JSON or SSE responses, expire, sweep | read lock then write lock, capacity, expiry instants, chunked bodies, method aliases | `TaskRouting`, `TaskRoutes`, `SseScan`, `AgentFilters` |
| MCP classifier and broker (`filters/agentic/mcp`) | catalog; session counter | classify, check headers, merge catalogs, answer | names that collide, versions, ids of every JSON kind, a call told in three places | `AgentFilters`, `McpBroker` |
| Guardrails, prompt enrichment, model header | none | reject or rewrite a buffered body | chunks, several rewrites of one body, headers about it | `PromptChain` |
| Server: startup, pipelines, watcher, reload (`server`) | live pipelines per listener, current config, health registry and token | start, watch the file, debounce, reload, swap, respawn health checks | file events lost or coalesced, failure halfway, several generations alive | `ConfigReload` |
| Dump and commands | none | print | pure I/O | not modelled |

How they interact. A listener runs its pipeline of filters on every request and
response; filters talk to each other through the request context (metadata,
filter results, extra headers), so one filter's output is another one's guard.
The conversations handlers, the response store and rehydration share one
database. Rehydration reads the `messages` that the conversations handlers
cache, so `MessagesInSync` is what a later model request depends on. The A2A
filter keeps one route map per filter instance, which all connections share.
Reload replaces whole pipelines; because the route map lives in a filter, a
reload also drops the learned routes.

## Modules

A component has one module, with its state as variables and one action per
operation, and it is instantiated for TLC in one of three ways:

* `MCConversations`, `MCTaskRouting`, `MCConfigReload` extend the component and
  add symmetry sets and small values. `setting` in `MCTaskRouting` says whether
  terminal tasks keep their route for a while (`keep`), lose it at once
  (`withdraw`), or one response comes in every split into chunks (`chunks`).
* `MCResponseStore` extends `ResponseStore` and adds `scenario`, which selects
  the constants a behaviour runs under: `chain` (PostgreSQL, two exchanges at a
  time), `outage` (SQLite with a restart), `shapes` (one exchange of every shape).
  The backend is a variable that `Init` chooses from `Backends` and nothing
  changes.
* `Service`, `Exchanges` and `MCStreams` put components side by side that do not
  share state. `subject` (`reader` in `MCStreams`) says which one a behaviour is
  about; the variables of the others are `None` throughout. Their properties are
  conjunctions of the component's properties, each under its subject. They are
  parametric: what a request, an item, a deployment, a body or a chunk may be is a
  CONSTANT, and the ASSUMEs at their head say what the proofs need of it.

| Module | Instantiates | Values for TLC |
|---|---|---|
| `Service` | `ConversationFilter`, `ConversationReads`, `InputItems`, `StoreConfig` | `MCService` |
| `Exchanges` | `ModelRewrite`, `TokenUsage`, `McpBroker`, `AgentFilters`, `PromptChain` | `MCExchanges`, with the values of `MCTokenUsage`, `MCMcpBroker`, `MCAgentFilters`, `MCPromptChain`; it adds `AnthropicMessages` and `ChatTranslation` with the values of `MCAnthropicMessages`, `MCChatTranslation` |
| `MCStreams` | `SseScan`, `SseFrames`, `ResponsesSse`, `StreamDecode`, `StreamEvents` | `Streams.cfg` |

`EventStreams` says what the lines and the fields of a whole event stream are,
which `SseScan`, `SseFrames` and `StreamDecode` are measured against. `DataLemmas`
holds facts about numbers, sets, lists, folds and recursive functions. The proofs of a
component, or of the components put side by side, are in `*Proofs`:
`ConversationsProofs`, `ServiceProofs`, `ResponseStoreProofs`, `ExchangeProofs`,
`StreamProofs`, `TaskRoutingProofs` and `ConfigReloadProofs`.

### Conversations

Variables `convs` and `items` are the tables; a member of `Convs` stands for the
pair of tenant and conversation id that every SQL statement selects on. Each
request runs in a slot; `pc[s]` names the store call its handler awaits next and
`input`, `existing`, `start`, `acc`, `cursor` are the handler's locals. One
action is one store call and the code up to the next `await`:

| Action | Code |
|---|---|
| `CreateConversation` ... `DeleteItem`, `RejectInvalid` | request parsing, validation and early answers of the five handlers |
| `GetConversation`, `UpsertConversation`, `DeleteConversationRow` | the conversation row, for create, update, delete and the existence checks |
| `MaxItemPosition`, `ExistingItemIds`, `CreateConversationItems` | numbering, duplicate check and the insert transaction |
| `DeleteConversationItem` | item deletion |
| `ItemPosition`, `ListItems`, `UpdateMessages`, `GetResult` | `sync_conversation_messages`, page by page, and the final read |
| `StoreError`, `Restart`, `Tick` | a failing call, a proxy restart, the clock |

History variables: `birth` (the creation time first given to an id), `seen`
(items in the table since a handler's reference point), `older` (for each item,
the items that were stored when its request began or precede it in its batch).

What is abstracted: item payloads are members of a small set; ids are numbers in
the order SQL gives the id column; a listing is any order the `ORDER BY` allows
and `Pages` chooses it. The tables have no foreign key: deleting a conversation
deletes its row and leaves its items, in the model as in the backend.

### ConversationReads and ConversationFilter

`ConversationReads` is the read side over PostgreSQL. One client walks a listing:
`Begin` sends the request, `GetConversation`, `ReadPosition` (the position of the
cursor) and `ListPage` are the handler's SQL statements, `TakePage` is the client
reading `has_more` and `last_id`. Everyone else creates and deletes conversations
and items between these statements. `steady` records the items present when
the walk began that their own tenant has not deleted: a finished walk shows each
of them once and in order, possibly among others. The cursor's item may be
deleted in the middle; the code then answers an empty page, which ends the walk,
and `WalkComplete` speaks of walks whose cursors lived. An item is created at any
position up to one past the largest, since its handler read the maximum before
others wrote (`handlers.rs:275`). Items are normalised as
`normalize_item` does.

`ConversationFilter` is everything between the proxy and the handlers: route
matching on method and path segments, the two hooks (headers, body) in both
orders, the deferred body, and the `OnceCell` store. `Requests` gives what each request may
be: its method and path, whether its body is read before the headers' hook, and
whether an earlier filter denies it. `opener` is the request that
builds the store; `Disconnect` drops it wherever it stands, which releases the
cell to the next waiter.

### ResponsesFilters, ResponseStore and InputItems

`ResponsesFilters` has no state: it is what classifier, format filter,
validation, store filter and rehydration each decide about a request, as
operators over the shape of its fields. `ResponseStore` drives exchanges through
these decisions. An exchange goes through `Receive` (classify, validate),
`StoreRequestBody` and `Rehydrate` (body hooks), `OnRequest` (with
`GetResponse` and `HandleDelete` for the stored ones), `Upstream`, `OnResponse`,
`BodyChunk`, `EndOfStream`, `PersistResponse`, `Deliver`. `DatabaseDown`,
`DatabaseUp` and `Restart` may come anywhere between. History variables record
what clients were told: `promised` (responses received whole by clients that
asked to store them), `deleted`, `transcript` (the conversation each response
belongs to), `trouble` (the database was down during this exchange).
A request that carries no input is stored with the one its answer names
(`filter.rs:275`); that is the input the conversation had, made from a prompt
template by the backend (`NamedInput`, `TurnInput`). A backend that was sent a
rehydrated and empty history is assumed to name none.

`InputItems` is the pagination of `input_items` over a stored list, in machine
words of `MaxUsize`; the walk uses the cursors the listing gave out.

### ModelRewrite

`resolve_alias` iterates a `HashMap`: `ResolveEntry` takes any remaining entry,
so the run covers every iteration order. `ClearResults` is another filter's
branch evaluation between the body hook and `on_request`.

### AnthropicMessages, StreamDecode, StreamEvents

`AnthropicMessages` carries one exchange through classification, validation and
one of the two chains (native backend, or translation to Chat Completions). The
turns of the request are converted one by one. Its reference is the
conversation as an ordered list of who said, showed, called or returned what.
The stream translator is split where the code splits it: `StreamDecode` turns
bytes into data lines (characters cut in two, CR at the end of a chunk, the
fallback to pass-through), `StreamEvents` turns each data line into Anthropic
events. The reference of the first is the lines of the complete events
of the whole stream, and its text (all but the line ends) in order; of the
second, a client that accepts only well-formed event streams and puts the content
together again. Chunks come in any order. That the client is told what the
backend said, once and in order, and that every block is stopped, holds for all
of them; that blocks do not overlap is claimed for backends that send their text
before their calls and begin their calls with an id (`Grouped`).

### SseScan, SseFrames, ResponsesSse

`SseScan` is the A2A scanner over the symbols that it tells apart (`Bytes`:
line ends, the field name, colon, space, anything else); `SseFrames` the OpenAI
frame parser. In both, the reference is independent of the parser's loop: line ends and
fields of the whole stream. `ResponsesSse` sits on top of the frames: typed
events, completion, budget, clock.

### ChatTranslation

Both translators in the loop they are written for: the client appends to its
input what it has to say and every output item it received, and sends it again.
`ItemEvents`, `ReplyEvents` and `Heard` read a conversation from items, from
replies and from Chat messages; `DialogueKept` compares them. Of the allowed
tools of a tool choice only objects that name a type other than `function` are
refused; an entry that is no object or names no type is passed on as it is
(`chat_completions.rs:664`). Settings are echoed from the request; a tool choice
that is dropped on the way because no tool remains (`chat_completions.rs:627`) is
echoed all the same (`:892`), and the model has both.

### TokenUsage, McpBroker, AgentFilters, PromptChain, StoreConfig

`TokenUsage`: replies extracted into one context, then the header filter.
`McpBroker`: `Load` validates the configuration and merges catalogs, then
requests are answered. `AgentFilters`: both classifiers in a chain, over one
call. `PromptChain`: a chain of body filters called for each part of a body.
`model_to_header` looks into every chunk and releases the request once it has
found the model, whether or not the stream has ended. What a release does is the
proxy's business, and the proxy is not in this repository. The docs say that
forwarding is deferred until a release or the end of the stream
(`docs/filters/extensions.md:262`, `docs/architecture/ai-inference.md:98`); a test
of the repository relies on buffering going on after it when `prompt_enrich`
comes first (`tests/integration/tests/suite/prompt_enrich.rs:214`). So the model
leaves it open: after a release the filters behind may be called or passed over,
and unless a `prompt_enrich` filter is first the body may be forwarded at once.
What is left of the stream then follows as the client sent it; the module says no
more about it. Placing `prompt_enrich` first is what its documentation demands
(`prompt_enrich/mod.rs:46`, `docs/filters/prompt_enrich.md:16`), and only there is
every configured message promised; in another order those of the filters up to
some point are added.
`StoreConfig`: `Load` (validation), `Connect` (the check before connecting),
`Statement` (one DDL statement), `Open`, and `Crash` between any two.

### TaskRouting and TaskRoutes

`tasks` is the map under its lock, `last_eviction` the sweep's clock reading;
per request, `pc`, `method`, `task`, `decision` are the request side and
`capture`, `cluster`, `doc`, `got`, `buffered`, `pending`, `expires` the response
side. A lookup is two actions because the code drops the read lock before it
takes the write lock (`LookupRead`, `LookupRecheck`); a put is two because the
clock is read before the lock is taken (`PutBegin`, `PutLocked`). A JSON
response is a document that is complete after `json` units of a body of `len`
units, so white space after the document is a body that is longer than its
document; `BufferChunk` delivers any number of units.

`TaskRoutes` is the promise: a table whose routes hold until their time is up or
a terminal response for their task takes them away, and no other way. Every flow
remembers the task it asked for (`wanted`) and is answered for that task, once,
from the table as it is at one instant. A response comes from the cluster of the
route that was hit (`source`); what it tells (`news`) is taken up in order and
once, for that cluster, and its time counts from the moment the put read the clock
(`until`). The table may refuse a task it has no route for, never the renewal of
one it has. A terminal response may withdraw a route (the code does so when the
terminal TTL is 0) or keep it for the terminal TTL: the promise allows both, the
values of the TTLs being the deployment's. The refinement mapping reads
`routes` as the live entries of the map, `wanted` and `answer` off the step the
request side stands at, and `source`, `news` and `until` off the response side.
A lookup takes effect when it sees an expired entry: the recheck may
find a refreshed route and the code still answers with a miss.

### ConfigReload

Generations number pipelines, health registries and cancellation tokens: 1 is
the startup's, one more for each successful reload. `WriteFile` changes the file
and queues an event; `Notify` is the callback (`try_send` on a bounded
channel); `SetupWatcher`, `Recv`, `Debounced`, `TryRecv`, `ReadConfig`,
`SkipUnbuildable`, `ResolvePipelines`, `Swap`, `RespawnHealthChecks`, `Finish`
are the watcher thread; `HealthThreadRuns` is a health-check thread starting,
possibly after its token was cancelled. The file may be unreadable (missing,
truncated, invalid), unbuildable (it parses, a pipeline does not build) or good,
may name any listeners, bound or not, and may or may not configure health checks.

## Runs

| Run | Shows | Instance |
|---|---|---|
| `conversations_concurrent` | `CreatedAtPreserved`, `AppendOrder`, `SyncKeepsStableItems`, `ItemRowsImmutable`, `FailedInsertLeavesNoRows`, `SyncKeepsToMessages` | 2 slots, 1 conversation, 2 item ids, pages of 1, 4 requests, clock to 1 |
| `conversations_faults` | `SyncKeepsStableItems` and `RequestsAnswered` with failing calls and restarts | the same with 3 requests |
| `conversations_sequential` | `MessagesInSync` holds with one request at a time | 1 slot, 2 conversations, 3 item ids, pages of 2, 5 requests |
| `conversations_drift` | `MessagesInSync` fails with two | 2 slots, 3 requests |
| `task_routing` | `StoreBounded`, `CapturedOnce`, `LiveRoutesKept`, `SweepKeepsUp`, refinement of `TaskRoutes` (`KeepsPromise`) | 2 requests at once, 2 tasks, 2 clusters, room for 1 route, TTL 2, interval 2, body limit 2 units; terminal TTL 1 and clock to 3 (`keep`), TTL 0 and clock to 1 (`withdraw`), both with documents of 1 unit; one request with documents to 5 units (`chunks`) |
| `config_reload` | `AtRest`, `OneGeneration`, `Converges` | 2 bound listeners, 1 unbound name, channel of 1, 3 writes |
| `responses` | `DurableWhenSeen`, `DeletedStaysDeleted`, `HistoryKept`, `GivesUpOnlyInTrouble`, `DecisionsAgree`, `ErrorsWellFormed` | 2 exchanges at once, 3 requests, 3 ids, histories to 4 items, 1 outage, 1 restart; every shape of request and answer, one exchange each |
| `responses_cancel` | `InputPreserved` fails when a response is cancelled | 2 requests |
| `streams` | `ScannerSound`, `FramesSound`, `JudgementSound`, `DecodingSound`, `TranslationSound` | all streams of up to 7 symbols (scanner, frames), 6 bytes (decoder), 4 frames (typed parser) or 4 chunks (translator), in chunks of up to 2 |
| `sse_scan_empty_chunk` | `PayloadsOfStream` fails if a chunk may be empty | streams of up to 4 |
| `exchanges` | `RewriteConsistent`, `MessagesFaithful`, `TranslationFaithful`, `UsageSound`, `BrokerSound`, `CallsToldOnce`, `EnrichmentSound` | 3 aliases in any order; 3 blocks over 2 turns; 3 replies fed back; 2 replies of 4 providers with counts to 5; 2 servers, 2 requests; chains of 2 agent filters; chains of 3 body filters |
| `service` | `ServedSoundly`, `WalksComplete`, `StoreOpensSoundly`, `RequestsEnd`, `WalksEnd` | 2 requests, one with any method and path and one that updates a conversation, and 1 outage; a walk over 3 items of 2 tenants against 5 writes, one item in every form; stored inputs of up to 4 items with an id on any of them; every URL, TLS option and name length class with 2 crashes |

Why the bounds are enough to be interesting. Every race between two requests
needs two slots; four requests let a conversation be created, filled, changed by
two concurrent requests and looked at afterwards. Pages of one item put a page
boundary between any two items, also between two at the same position. With room
for one route and two tasks, inserts are refused, refreshes are not, and sweeps
make room; the clock reaches past the TTL of a refreshed route. Three
responses make a chain whose middle is rehydrated and stored again, and leave
room for a `DELETE` that races an upsert. Six symbols hold a data line, a CRLF
and the start of the next line, or an event and its blank line; seven hold two
data lines that each fit the scratch limit of 3 and together do not. Six bytes
hold a cut character between two line ends. Three alias patterns contain every
tie the code's ordering has to break. Three writes leave room for one that is read, one
that arrives during its reload and one that fails; a channel of one message drops
the second (the code's holds 16; a smaller one drops more often).

Bounds of the model that the code does not have: `MaxRequests`, `MaxNow`,
`MaxWrites`, `MaxDoc`, `MaxEvents` (of `TaskRouting`), `MaxBytes`, `MaxChunk`,
`MaxStream`, `MaxFrames`, `MaxChunks`, `MaxTime`, `MaxItems`, `MaxFaults`,
`MaxRestarts`, `MaxTurns`, `MaxBlocks`, `MaxReplies`, `MaxInput`, `MaxOutages`,
`MaxCrashes`. `Quiesced` and `Finished` are stuttering steps at the bound, so
deadlock checking stays on in the runs that have them. `ConfigReload` and the
components of `MCStreams`, `Exchanges` and `Service` may stop (nobody has to write
the file; a stream, an exchange or a walk ends), and their configurations say so.

Constants that scale the code's own limits: `PageLimit`, `DefaultLimit`,
`MaxLimit`, `MaxTaskRoutes`, `MaxBody`, `MaxScratch`, `MaxBuffer`, `MaxEvents` (of
the parsers), `MaxPartial`, `MaxUsize`, `MaxCount`, `Capacity`.

### Findings

* `conversations_drift`: an update of a conversation's metadata writes back the
  `messages` it read. An item created in between is missing from the cache until
  the next item change, although the comment above the sync explains that it
  re-reads everything in order not to drift.
* `responses_cancel`: a cancel of a stored response passes the store filter as a
  request to be stored. Its answer replaces the row, without the input that the
  row's documentation says is preserved for `input_items`.
* `sse_scan_empty_chunk`: an empty chunk between CR and LF makes the A2A scanner
  forget the CR and take the LF for a blank line. The OpenAI frame parser has a
  test for exactly this case.

Met while modelling, and left to the models' guards and instances without a run
of their own:

* `ResponsesSse`: a `[DONE]` or an empty chunk after the timeout fails a stream
  whose terminal event came in time (`sse/responses/parser.rs:61`), although the
  configuration describes the limit as the time to completion.
* `StreamEvents`: text after a tool call opens its block under the index of the
  tool block that is still open (`stream_events/mod.rs:516`), and a call that
  begins without an id sends its arguments to no block. The run has such streams
  too: what is said is kept, the blocks overlap, and `BlocksWellFormed` speaks of
  `Grouped` backends only.
* `McpBroker`: a POST that ends without a body is forwarded
  (`broker/mod.rs:178`), although the broker says it forwards nothing.
* `PromptChain`: the guardrails filter accepts a provider and never asks it
  (`guardrails/filter.rs:112`).
* `StoreConfig`: an items table that has the name of the generated tenant index
  is accepted, and the store opens without it (`schemas.rs:214`). Names of the
  tables of two filters are not compared either.
* `ChatTranslation`: a refusal in a response cannot be fed back: the next request
  with that item in its input is an error.

### Hazards no property speaks of

* An item change succeeds and the sync after it fails (`handlers.rs:421`): the
  client gets an error for a change that happened. The code documents no retry
  contract; what the tables hold then is covered by `conversations_faults`.
* Two responses about one task arrive out of order (`a2a/mod.rs:392`): a put that
  read the clock before a terminal response removed the route brings it back for
  a full TTL. Nothing in the code orders responses of different requests, and
  `TaskRoutes` allows it.
* A listener dropped from the file keeps serving its old pipeline, whose health
  registry is no longer probed (`reload.rs:112`). The code warns that a restart is
  needed; `AtRest` shows which generation such a listener serves.
* The file changes after the server has read it and before the watch is set up
  (`watcher.rs:97`): no event reports it, and the next write picks it up.

### Fairness

* `Conversations!FairSpec`: weak fairness of each slot's pending store call,
  which ends with a result or an error. The async executor polls a handler whose
  I/O is ready, and the database driver ends a call it cannot serve with an
  error. Nothing is assumed of clients.
* `ConfigReload!FairSpec`: weak fairness of the notify callback, the watcher
  thread and starting health threads: operating system scheduling of runnable
  threads. No fairness on writes.
* `Service!Spec`: weak fairness of each request's next step in the proxy
  (`ConversationFilter!Step`, the executor again), and of the client that pages
  (`ConversationReads!Reads`, `InputItems!NextPage`): `WalksEnd` is about
  clients that go on. No fairness on writers, outages or recoveries.

### Assumptions

* A store call that returns an error has written nothing. An error after a
  commit whose acknowledgement was lost is not modelled.
* Clients use a conversation or response id only after some response told them
  of it; ids are random, so an id is not given out twice.
* A thread is not held up for a whole TTL between reading the clock in `put`
  and taking the lock (`TaskRouting!Tick`). Without it a put may insert a route
  that has already expired, which lookups treat as a miss anyway.
* The kernel reports every change of a watched file. Changes between the
  server's first read and the moment the watch is set up produce no event;
  `Converges` excludes them by name (`unwatched`).
* The watcher's shutdown token is not cancelled while the server runs: the
  server never does so.
* Percent and plus decoding of query strings and paths is left out: parameters
  arrive decoded.

## Theorems

All of these hold for every number of requests, rows, routes, listeners, writes,
outages, crashes, bytes and chunks, and for every value of the constants the named
assumptions allow. A hypothesis is either an ASSUME of the component, which TLC
evaluates on every instance it checks (what a request, an item or a body looks
like), or says something of clients or configurations that the code does not
enforce; the arguments below explain the latter.

| Module | Theorem | States |
|---|---|---|
| `ConversationsProofs` | `TypeCorrect` | `Spec => []TypeOK` |
|  | `CreationTimePreserved` | `Spec => []CreatedAtPreserved` |
|  | `ItemRowsNeverOverwritten` | `Spec => ItemRowsImmutable` |
|  | `LaterItemsSortAfter` | `Spec => []AppendOrder` |
|  | `FailedBatchesLeaveNothing` | `Spec => FailedInsertLeavesNoRows` |
|  | `SyncWritesMessagesOnly` | `Spec => SyncKeepsToMessages` |
|  | `SyncsKeepStableItems` | `Spec => []SyncKeepsStableItems` |
|  | `CacheFollowsItems` | without `Faults`: `Spec /\ []OneAtATime => []MessagesInSync` |
| `ServiceProofs` | `FilterInvariant` | `Spec => []FilterInv` for the filter, its inductive invariant |
|  | `RequestsServedSoundly` | for `RequestsTyped`: `Spec => []ServedSoundly` |
|  | `OpenStoreStays` | an open store stays open in every step |
|  | `WalksAreComplete` | for `IdsAndLimits`, `ItemsTyped`, `WordLimits`, `InputsIdentified`: `Spec => []WalksComplete` |
|  | `StoreInvariant` | for `NamesApart`: `LoadInv /\ SchemaInv` holds of every deployment, the inductive invariant |
|  | `StoresOpenSoundly` | for `NamesApart`, `ParamsListed`: `Spec => []StoreOpensSoundly` |
| `ResponseStoreProofs` | `StoreInvariant` | `Spec => []StoreInv`, the inductive invariant |
|  | `DurableTheorem` | `Spec => []DurableWhenSeen` |
|  | `DeletedTheorem` | for `OrdinaryRequests`: `Spec => []DeletedStaysDeleted` |
|  | `HistoryTheorem` | for `OrdinaryRequests`: `Spec => []HistoryKept` |
|  | `GivesUpTheorem` | `Spec => []GivesUpOnlyInTrouble` |
|  | `DecisionsTheorem` | `Spec => []DecisionsAgree` |
|  | `ErrorsTheorem` | `Spec => []ErrorsWellFormed` |
| `ExchangeProofs` | `UsageIsSound` | for `CountsFit`: `Spec => []UsageSound` |
|  | `RewritesAreConsistent` | for `NamesTyped`: `Spec => []RewriteConsistent` |
|  | `BrokerIsSound` | for `ServersListed`: `Spec => []BrokerSound` |
|  | `CallsAreToldOnce` | for `CallsRead`: `Spec => []CallsToldOnce` |
|  | `EnrichmentIsSound` | for `PromptsTyped`: `Spec => []EnrichmentSound` |
| `StreamProofs` | `PayloadsAreSound` | for `ChunksNotEmpty`: `Spec => []ScannerSound` |
|  | `FramesAreSound` | for `FieldsTold`: `Spec => []FramesSound` |
|  | `DecodingIsSound` | for `FieldsTold`: `Spec => []DecodingSound` |
|  | `JudgementsAreSound` | for `LimitsTyped`: `Spec => []JudgementSound` |
|  | `StreamsAreTranslated` | for `ChunksTyped`: `Spec => []TranslationSound` |
| `TaskRoutingProofs` | `RoutingTypeCorrect` | `Spec => []TypeOK` |
|  | `StoreStaysBounded` | `Spec => []StoreBounded` |
|  | `LiveRoutesStay` | `Spec => LiveRoutesKept` |
|  | `SweepsKeepUp` | `Spec => SweepKeepsUp` |
|  | `ResponsesCapturedOnce` | `Spec => []CapturedOnce` |
|  | `StoreKeepsPromise` | `Spec => KeepsPromise`, the refinement of `TaskRoutes` |
| `ConfigReloadProofs` | `ReloadTypeCorrect` | `Spec => []TypeOK` |
|  | `ListenersAtRest` | `Spec => []AtRest` |
|  | `OneHealthGeneration` | `Spec => []OneGeneration` |

The arguments:

* **Conversations.** `TypeOK` is not inductive: whether a step's locals exist
  depends on where the handler stands. `Shape` records that (a handler at an
  upsert holds a record, an item position is only read for a cursor that names
  an item), and `TypeInv == TypeOK /\ Shape` is inductive. For
  creation times `BirthInv` adds that the row a handler *holds* carries the
  original time too, which is why an update that re-inserts a deleted
  conversation is harmless. For item order `AppendInv` adds, per slot
  (`AppendSlot`), that the numbers a handler is about to give lie above the
  position of every item that was there when its request began; it survives the
  other slots' inserts because those only add items, and their deletions because
  a deletion shrinks both sides.
* **The page loop.** `seen[s]` are the items that stayed in the table since the
  handler's reference point. `SyncInv` says where they are while the loop runs:
  each is collected already or lies after the cursor (`Ahead`). A page takes
  the first of those after the cursor and moves the cursor to its last one, so
  what it does not take still lies after the cursor; items never change
  position (`AppendInv`, `ItemRowsImmutable`), so other handlers' inserts and
  deletions do not move a stable item to the wrong side.
* **The cache.** `MessagesInSync` is false of overlapping requests
  (`conversations_drift`) and of calls that fail between an item change and its
  sync. The theorem is about what is left: no `Faults`, and requests on one
  conversation one after the other (`OneAtATime`, which is a hypothesis about
  the clients; requests on other conversations may overlap in any way, which the
  run with its single slot does not cover). `CacheInv` says that a conversation
  nobody works on is in sync and what a handler has so far: a sync's list is
  in order, lies before everything the cursor still selects, and with that
  covers the table. At the end the list holds every item once and in order, and
  that makes it *the* listing: the place of an item in such a list is the number of
  items before it (`Rank`, by counting), hence two such lists agree at every
  place (`SameOrder`, `ListingUnique`).
* **Walks.** `ListItems` picks *the* listing of a set of rows, which exists by
  induction over finite sets (`DataLemmas!ListingExists`). The invariant says four
  things about a walk: it has shown only what was its tenant's and in order
  (`StoredSoundly`, `RowsMine`), its cursor is the last item it was shown
  (`CursorAtLast`), and every item that stayed is shown already or lies after the
  cursor (`NothingSkipped`). The last one survives any write because positions
  of stored rows never change, and a page because a page takes the *first* rows
  after the cursor. For stored inputs the invariant says which prefix has been
  shown (`Reached`); an id leads back to its item only if it names one, which is why
  `InputsIdentified` asks that ids are unique and do not read as numbers.
* **The conversations filter.** `FilterInv` has three parts beside the types.
  `ServeInv`, per request: how often its handler has run, given where it stands
  and whether it matches or is denied. `StoreInv`: whoever builds the store found
  the cell unset, nobody else builds, and a store was built once exactly if the
  cell holds one. `TroubleInv`: while the database is down every request under
  way has met the outage, and with PostgreSQL a request that is refused has.
* **The response store.** `StoreInv` says what each exchange knows: the request,
  the facts the classifier wrote about it, the step, its answer and the store.
  Its central conjunct is `AnswerKnown`: an answer that creates a response carries
  an id that nobody has been told, and two exchanges never carry the same one
  (`AnswersApart`). A `DELETE` names an id somebody was told, so a late upsert
  cannot bring a deleted response back, and the row a client was promised is
  the one that was written before its last byte (`StoredFirst`). For histories
  `HistoryInv` adds that rows and rehydrated states are the transcript of their
  response (`RowsFollow`, `StateFollows`, `CaptureFollows`, `AnswerFollows`).
  `OrdinaryRequests` leaves out two kinds of request: a cancel that names a
  response, whose answer replaces the row (the finding of `responses_cancel`, also
  after a `DELETE`), and a create whose input is neither text nor a list, which
  has no form in which it could be replayed.
* **Opening the store.** `LoadInv` (only valid configurations get to connect)
  carries the two properties of the configuration alone. For the schema,
  `SchemaInv` says that every relation in the database was made for some
  statement of a valid configuration, and that each statement of a filter that
  is executing its schema has its relation or is still to do. `CREATE ... IF NOT
  EXISTS` then does what it should only if a relation that already has the name is
  the one meant: `NamesApart` supposes that a deployment does not want two kinds
  of relation under one (cut) name. Validation guarantees that for the tables of
  one filter, and not for index names nor across filters (see "Findings"). The host
  that is connected to is the last host parameter of the URL if there is one;
  `SelectSeq` keeps elements of the list (`DataLemmas`), so it is one of those
  validation looked at.
* **One exchange.** Each of the five filters of `Exchanges` has an invariant of
  its own. Token counts: after any list of replies the metadata is that of the
  last one with usage (`UsageInv`), and a saturated sum covers its summands. Aliases: whatever entries the loop has
  taken, `best` is the winner among them, and the winner of all is unique since
  the code's order on patterns is total (`AliasInv`); what the branches, the header
  and the body say afterwards is one name (`ToldInv`). The broker: the catalog is
  the fold over the servers' tools, so a name in it has one owner, and the ids of
  answers and sessions follow from what was issued (`BrokerInv`). The two
  classifiers: what the first leaves in context, results and headers is a
  function of the call, whichever comes first. Body filters: a chain acts once,
  on the whole body, and each filter sees what the ones before it made of it,
  up to one that released the request; with `prompt_enrich` first none of them
  stands behind that cut.
  `PromptsTyped` asks that no `model_to_header` filter writes `content-length`: the
  code would let it, and the length would then be wrong.
* **Streams.** A parser's state is a function of the bytes it has read, whatever
  the chunks were. For the frames, the A2A payloads and the data lines the proof
  follows the definition of the whole stream's lines and groups (`EventStreams`) along the bytes:
  the line in progress, the group in progress and the groups already closed are
  what the parser holds, with CR at the end of a chunk as the one thing it has
  to remember (`FramesKept`). `ChunksNotEmpty` is needed there:
  `sse_scan_empty_chunk` shows the scanner without it. The byte decoder keeps text
  instead of a parser's state: `DecodeInv` says that its buffer reads as the
  stream does after the lines acted on (`SameLines`), which more bytes preserve as long
  as both end alike (`SameEnd`). That is what holding back a single CR is for, and why
  two CRs need not be held back: an LF after them makes no difference
  (`BlankAtEnd`). For typed events the
  state is a function of the frames and of the clock at the frame that ended
  the stream. For the translator, the events so far are what a strict client
  accepts if the backend is `Grouped` (`HeardInv`), and whoever the backend is,
  their reading is what it has said (`Events!BackendSays`, `SaidInv`) and no block
  that was opened is left open at the end.
* **Task routing.** `TypeInv` again pairs `TypeOK` with a `Shape` of the hooks.
  The bound follows from it alone, since a sweep and a removal shrink the set of
  stored tasks and an insertion checks the room after its sweep under the same
  lock. For the sweep and the refinement, `Fresh` adds that a put's entry is still
  live when it takes the lock, was stamped with a clock reading no later than
  now, and that no entry in the map had expired when the last sweep ran. Each
  action is then shown to be a step of `TaskRoutes` or a stutter, one lemma per
  action: a live entry leaves the map in `PutLocked` of a terminal event for its
  task, and nowhere else but by its time. `CaptureInv` tells how far a JSON response has been captured: all that
  came is in the buffer and the document is incomplete (`Seeking`), a chunk went
  over the limit and the capture is off for good (`Overflowed`), or the document
  was parsed and its event is pending or written, once (`Settled`).
* **Reload.** `AtRest` speaks of the moments between reloads, so `ReloadInv`
  adds what holds during one: `Held` (the watcher holds a good configuration
  from build to finish), `SwapProgress` (listeners already swapped serve the
  next generation, the others the last one that names them) and `HealthInv`
  (the token is the one of the newest generation, and no other generation has
  health checks, started or about to start, that are not cancelled).

The theorems of `ExchangeProofs` are about `Exchanges!Spec`, the five filters; the
run's `AllSpec` puts the two translations beside them as two more subjects, which
share no variable with the five.

The library states induction with an operator as a parameter, which the provers
cannot instantiate. `DataLemmas` states it for sets instead
(`NaturalInduction`: a set of numbers that holds 0 and successors holds all), and
from that derives what the proofs need: induction over finite sets and over lists,
the recursion equation of functions defined by recursion on numbers, folds and
flattened maps over lists, and that a finite set with an order has a listing.

Checked by TLC only:

* the liveness properties `RequestsAnswered`, `Converges`, `RequestsEnd`,
  `WalksEnd`, since neither fairness nor ENABLED is within the provers' reach;
* `TranslationFaithful` and `MessagesFaithful`, which compare a dialogue folded
  through two translators, one back from the other, with the dialogue: each
  translator is a fold with a pending group, and nothing smaller than the whole
  list of items is invariant under both.

## Not modelled, and the plan

Next: `TranslationFaithful` and `MessagesFaithful` for dialogues of any length; an abstract table of conversations and its refinement by
`Conversations`.

Left out for good: `server/dump.rs` and `server/commands.rs` (printing and the
command line), `main.rs`, protocol registration and the root check (no state),
`xtask` and the tests, and `apis/src/openai/responses/classifier/mod.rs`, which no
module declares and the build does not compile. Wording of messages, logging and
the layout of documents are abstracted everywhere.
