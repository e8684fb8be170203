---------------------------- MODULE AgentFilters ----------------------------
(***************************************************************************)
(* The mcp and a2a filters in front of a router: each reads the JSON-RPC   *)
(* call in the request body and tells the rest of the chain about it in    *)
(* three places, durable metadata, request headers and filter results.     *)
(* mcp also checks the client's own Mcp-Method and Mcp-Name headers.       *)
(*                                                                         *)
(* A value read from the request is [v, c], c its class: "ok", "control"   *)
(* (has control characters) or "long"; a header may also be "binary" (not  *)
(* UTF-8).  None is a value that is absent or not a string.                *)
(***************************************************************************)
EXTENDS Integers, FiniteSets, Sequences

CONSTANTS
    Chains,   \* the orders the filters are configured in
    Configs,  \* configurations of the two filters
    Requests, \* [body, call, headers]
    None

VARIABLES chain, config, request, ctx, outcome

vars == <<chain, config, request, ctx, outcome>>

Value(v) == [v |-> v, c |-> "ok"]
Clean(x) == x # None /\ x.c # "control"

\* is_promotable: no control characters and at most MAX_DYNAMIC_VALUE_LEN
Promotable(x) == x # None /\ x.c = "ok"

\* A header whose bytes are not UTF-8 reads as no value
ToStr(h) == IF h # None /\ h.c = "binary" THEN None ELSE h

-----------------------------------------------------------------------------
(* What is known of methods: mcp/envelope.rs, a2a/envelope.rs *)

RequiresName(m) == m \in {"tools/call", "prompts/get"}
RequiresUri(m) == m = "resources/read"

TaskMethods == {"GetTask", "CancelTask", "SubscribeToTask"}
PushMethods == {"CreateTaskPushNotificationConfig", "GetTaskPushNotificationConfig",
                "ListTaskPushNotificationConfigs", "DeleteTaskPushNotificationConfig"}
KnownA2aMethods ==
    TaskMethods \cup PushMethods
    \cup {"SendMessage", "SendStreamingMessage", "ListTasks", "GetExtendedAgentCard"}

\* A2aMethod::family
FamilyOf(m) ==
    CASE m \in {"SendMessage", "SendStreamingMessage"} -> "message"
      [] m \in TaskMethods \cup {"ListTasks"}          -> "task"
      [] m \in PushMethods                             -> "push_notification"
      [] m = "GetExtendedAgentCard"                    -> "agent_card"
      [] OTHER                                         -> "unknown"

IsStreaming(m) == m \in {"SendStreamingMessage", "SubscribeToTask"}
IsTaskRoutable(m) == m \in TaskMethods \cup PushMethods

\* from_method_str: an alias stands for its canonical method
Canonical(m, aliases) == IF m.v \in DOMAIN aliases THEN Value(aliases[m.v]) ELSE m

\* extract_name, extract_protocol_version, extract_task_id
ExtractName(call) ==
    CASE RequiresUri(call.method.v)  -> call.params.uri
      [] RequiresName(call.method.v) -> call.params.name
      [] OTHER                       -> None
ExtractProtocolVersion(call, headers) ==
    IF call.method.v = "initialize" /\ call.params.version # None THEN call.params.version
    ELSE ToStr(headers.version)
TaskIdOfTasksOnly(call, method) ==
    IF method \in TaskMethods THEN call.params.id ELSE None
ExtractTaskId(call, method) ==
    CASE method \in TaskMethods -> call.params.id
      [] method \in PushMethods -> call.params.taskId
      [] OTHER                  -> None

McpEnvelope(call, headers) ==
    [method |-> call.method, name |-> ExtractName(call), session |-> ToStr(headers.session),
     version |-> ExtractProtocolVersion(call, headers)]
A2aEnvelope(call, headers, aliases) ==
    LET method == Canonical(call.method, aliases) IN
    [method |-> method, original |-> IF call.method.v \in DOMAIN aliases THEN call.method ELSE None,
     family |-> FamilyOf(method.v), streaming |-> IsStreaming(method.v),
     task_id |-> ExtractTaskId(call, method.v), version |-> ToStr(headers.a2a_version)]

-----------------------------------------------------------------------------
(* Configuration *)

\* build_config of mcp and of a2a; a header name may be disabled, not empty
ValidHeaderNames(headers) == "" \notin headers
ValidAliases(aliases) ==
    \A a \in DOMAIN aliases : a # "" /\ aliases[a] \in KnownA2aMethods
ValidTaskRouting(r) ==
    r.enabled => r.ttl > 0 /\ r.max_response_body_bytes > 0 /\ r.header = "reserved"
BuildConfig(c) ==
    /\ c.max_body_bytes > 0
    /\ ValidHeaderNames(c.headers)
    /\ ValidAliases(c.aliases)
    /\ ValidTaskRouting(c.routing)

-----------------------------------------------------------------------------
(* One filter on the request.  Facts are told as functions from a key to   *)
(* a value, None for a fact not told.                                      *)

\* The JSON-RPC parser, which is not the filters' own: nothing to read, an
\* error by on_invalid, a batch always an error
ParseBody(r) ==
    CASE r.body = "none"  -> "continue"
      [] r.body = "batch" -> "reject"
      [] r.body = "call"  -> "parsed"
      [] OTHER -> CASE config.on_invalid = "continue" -> "continue"
                    [] config.on_invalid = "reject"   -> "reject"
                    [] OTHER                          -> "error"

\* mcp_json_rpc_error_rejection
IntegerIdsOnly(call) == IF call.id.kind = "Integer" THEN call.id.v ELSE "null"
RejectionId(call) ==
    IF call.id.kind \in {"Integer", "Number", "String"} THEN call.id.v ELSE "null"
RpcError(call, code) == [action |-> "reject", id |-> RejectionId(call), code |-> code]
Plain(action) == [action |-> action, id |-> None, code |-> None]

\* reject_missing_required_selector
MissingSelector(mcp) ==
    (RequiresName(mcp.method.v) \/ RequiresUri(mcp.method.v)) /\ mcp.name = None

\* validate_single_header: the verdict on one header, and what is synthesized
CheckHeader(h, value) ==
    CASE h # None /\ (ToStr(h) = None \/ h.v # value.v) ->
            IF config.mismatch = "reject" THEN "mismatch" ELSE "fine"
      [] h = None /\ config.missing = "reject" -> "missing"
      [] h = None /\ config.missing = "synthesize" /\ Promotable(value) -> "synthesize"
      [] OTHER -> "fine"

\* validate_mcp_headers: the name is not looked at after a method that fails;
\* a name the body does not have must not be claimed by the header
IgnoreSpuriousName(mcp, headers) ==
    IF mcp.name # None THEN CheckHeader(headers.mcp_name, mcp.name) ELSE "fine"
NameVerdict(mcp, headers) ==
    CASE mcp.name # None -> CheckHeader(headers.mcp_name, mcp.name)
      [] mcp.name = None /\ headers.mcp_name # None /\ config.mismatch = "reject" -> "mismatch"
      [] OTHER -> "fine"
HeaderVerdict(mcp, headers) ==
    LET m == CheckHeader(headers.mcp_method, mcp.method)
        n == NameVerdict(mcp, headers)
    IN CASE m \in {"mismatch", "missing"} -> m
         [] m \in {"fine", "synthesize"} /\ n \in {"mismatch", "missing"} -> n
         [] OTHER -> "fine"
Synthesized(mcp, headers) ==
    (IF CheckHeader(headers.mcp_method, mcp.method) = "synthesize"
     THEN {<<"mcp-method", mcp.method.v>>} ELSE {})
    \cup (IF NameVerdict(mcp, headers) = "synthesize" THEN {<<"mcp-name", mcp.name.v>>} ELSE {})

Told(keys) == {<<k, keys[k].v>> : k \in {j \in DOMAIN keys : keys[j] # None}}
If(cond, x) == IF cond THEN x ELSE None
Named(b) == Value(IF b THEN "true" ELSE "false")

\* write_metadata, promote_mcp_headers and promote_filter_results of mcp; the
\* results alone are not held to a length
McpMetadata(call, mcp) ==
    Told([k \in {"json_rpc.method", "mcp.method", "json_rpc.kind", "mcp.name",
                 "mcp.session_id", "mcp.protocol_version"} |->
        CASE k \in {"json_rpc.method", "mcp.method"} -> If(Promotable(mcp.method), mcp.method)
          [] k = "json_rpc.kind"        -> Value(call.kind)
          [] k = "mcp.name"             -> If(Promotable(mcp.name), mcp.name)
          [] k = "mcp.session_id"       -> If(Clean(mcp.session), mcp.session)
          [] k = "mcp.protocol_version" -> If(Clean(mcp.version), mcp.version)])
McpHeaders(call, mcp) ==
    Told([k \in config.headers \cap {"mcp.method", "mcp.name", "mcp.protocol_version",
                                     "mcp.kind", "mcp.session_present"} |->
        CASE k = "mcp.method"           -> If(Promotable(mcp.method), mcp.method)
          [] k = "mcp.name"             -> If(Promotable(mcp.name), mcp.name)
          [] k = "mcp.protocol_version" -> If(Clean(mcp.version), mcp.version)
          [] k = "mcp.kind"             -> Value(call.kind)
          [] k = "mcp.session_present"  -> Named(mcp.session # None)])
McpResults(call, mcp) ==
    Told([k \in {"mcp.method", "mcp.name", "mcp.protocol_version", "mcp.kind",
                 "mcp.session_present"} |->
        CASE k = "mcp.method"           -> If(Clean(mcp.method), mcp.method)
          [] k = "mcp.name"             -> If(Clean(mcp.name), mcp.name)
          [] k = "mcp.protocol_version" -> If(Clean(mcp.version), mcp.version)
          [] k = "mcp.kind"             -> Value(call.kind)
          [] k = "mcp.session_present"  -> Named(mcp.session # None)])
\* A result too long for the result set, which may refuse it
LongResult(mcp) ==
    \E x \in {mcp.method, mcp.name, mcp.version} : x # None /\ x.c = "long"

\* The same three of a2a
A2aMetadata(call, a2a) ==
    Told([k \in {"json_rpc.method", "a2a.method", "json_rpc.kind", "a2a.original_method",
                 "a2a.family", "a2a.streaming", "a2a.task_id", "a2a.version"} |->
        CASE k = "json_rpc.method"     -> If(Promotable(call.method), call.method)
          [] k = "a2a.method"          -> If(Promotable(a2a.method), a2a.method)
          [] k = "json_rpc.kind"       -> Value(call.kind)
          [] k = "a2a.original_method" -> If(Promotable(a2a.original), a2a.original)
          [] k = "a2a.family"          -> Value(a2a.family)
          [] k = "a2a.streaming"       -> Named(a2a.streaming)
          [] k = "a2a.task_id"         -> If(Promotable(a2a.task_id), a2a.task_id)
          [] k = "a2a.version"         -> If(Promotable(a2a.version), a2a.version)])
A2aFacts(call, a2a) ==
    [k \in {"a2a.method", "a2a.family", "a2a.task_id", "a2a.kind", "a2a.streaming",
            "a2a.version"} |->
        CASE k = "a2a.method"    -> If(Promotable(a2a.method), a2a.method)
          [] k = "a2a.family"    -> Value(a2a.family)
          [] k = "a2a.task_id"   -> If(Promotable(a2a.task_id), a2a.task_id)
          [] k = "a2a.kind"      -> Value(call.kind)
          [] k = "a2a.streaming" -> Named(a2a.streaming)
          [] k = "a2a.version"   -> If(Promotable(a2a.version), a2a.version)]
OriginalInHeaders(call, a2a) ==
    {f \in Told([A2aFacts(call, a2a) EXCEPT !["a2a.method"] = call.method]) :
        f[1] \in config.headers}
A2aHeaders(call, a2a) == {f \in Told(A2aFacts(call, a2a)) : f[1] \in config.headers}
A2aResults(call, a2a) == Told(A2aFacts(call, a2a))

-----------------------------------------------------------------------------
Init ==
    /\ chain \in Chains /\ config \in Configs /\ request \in Requests
    /\ ctx = [metadata |-> {}, headers |-> {}, results |-> {}]
    /\ outcome = Plain("loading")

\* Both filters are built, or the configuration is refused
Load ==
    /\ outcome.action = "loading"
    /\ outcome' = Plain(IF BuildConfig(config) THEN "running" ELSE "refused")
    /\ UNCHANGED <<chain, config, request, ctx>>

Running(f) == outcome.action = "running" /\ chain # <<>> /\ Head(chain) = f
Passed == outcome' = Plain(IF Tail(chain) = <<>> THEN "forwarded" ELSE "running")

\* set_metadata replaces the value of a key; headers are only added
Write(metadata, headers, results) ==
    ctx' = [metadata |-> {f \in ctx.metadata : \A g \in metadata : g[1] # f[1]} \cup metadata,
            headers  |-> ctx.headers \cup headers,
            results  |-> ctx.results \cup results]

\* on_request_body of either filter when there is no call to read
NoCall(f) ==
    /\ Running(f) /\ ParseBody(request) # "parsed"
    /\ IF ParseBody(request) = "continue" THEN Passed
       ELSE outcome' = Plain(ParseBody(request))
    /\ chain' = Tail(chain)
    /\ UNCHANGED <<config, request, ctx>>

\* on_request_body of mcp
McpOnRequestBody ==
    LET call == request.call
        mcp == McpEnvelope(call, request.headers)
        verdict == HeaderVerdict(mcp, request.headers)
    IN /\ Running("mcp") /\ ParseBody(request) = "parsed"
       /\ chain' = Tail(chain)
       /\ \/ /\ MissingSelector(mcp)
             /\ IF config.on_invalid = "continue" THEN Passed
                ELSE outcome' = RpcError(call, -32602)
             /\ UNCHANGED ctx
          \/ /\ ~MissingSelector(mcp) /\ verdict # "fine"
             /\ outcome' = IF verdict = "mismatch" THEN RpcError(call, -32001)
                           ELSE Plain("reject")
             /\ UNCHANGED ctx
          \/ /\ ~MissingSelector(mcp) /\ verdict = "fine"
             /\ \/ /\ Passed
                   /\ Write(McpMetadata(call, mcp),
                            Synthesized(mcp, request.headers) \cup McpHeaders(call, mcp),
                            McpResults(call, mcp))
                \/ /\ LongResult(mcp) /\ outcome' = Plain("error")
                   /\ Write(McpMetadata(call, mcp),
                            Synthesized(mcp, request.headers) \cup McpHeaders(call, mcp), {})
       /\ UNCHANGED <<config, request>>

\* on_request_body of a2a, up to the task lookup (module TaskRouting)
A2aOnRequestBody ==
    LET call == request.call
        a2a == A2aEnvelope(call, request.headers, config.aliases)
    IN /\ Running("a2a") /\ ParseBody(request) = "parsed"
       /\ chain' = Tail(chain)
       /\ Passed
       /\ Write(A2aMetadata(call, a2a), A2aHeaders(call, a2a), A2aResults(call, a2a))
       /\ UNCHANGED <<config, request>>

Next ==
    \/ Load
    \/ NoCall("mcp") \/ NoCall("a2a")
    \/ McpOnRequestBody
    \/ A2aOnRequestBody

Spec == Init /\ [][Next]_vars

-----------------------------------------------------------------------------
ToldOf(place, key) == {f[2] : f \in {g \in place : g[1] = key}}

\* One story: whatever reads a fact of the call, the router from a filter
\* result, the backend from a header, a later filter from metadata, reads the
\* same value, and no key has two, whichever filter ran first.
Keys == {f[1] : f \in ctx.metadata \cup ctx.headers \cup ctx.results}
OneStory ==
    \A k \in Keys :
        Cardinality(ToldOf(ctx.metadata, k) \cup ToldOf(ctx.headers, k)
                    \cup ToldOf(ctx.results, k)) <= 1

\* Under mismatch: reject, a call that mcp classified carries no Mcp-Method or
\* Mcp-Name header, from the client or synthesized, that contradicts its body.
HeadersMatchBody ==
    (config.mismatch = "reject" /\ \E f \in ctx.metadata : f[1] = "mcp.method") =>
        LET h == request.headers
            name == ExtractName(request.call)
        IN /\ h.mcp_method # None => h.mcp_method = request.call.method
           /\ h.mcp_name # None => h.mcp_name = name
           /\ ToldOf(ctx.headers, "mcp-name") # {} =>
                 h.mcp_name = None /\ ToldOf(ctx.headers, "mcp-name") = {name.v}

\* A client can tell which of its calls failed: a JSON-RPC error carries the
\* id of the call whenever it had one.
ErrorsKeepId ==
    outcome.code # None =>
        IF request.call.id.kind \in {"Missing", "Null"} THEN outcome.id = "null"
        ELSE outcome.id = request.call.id.v

\* A call that is routed by task ownership, under its own name or an alias,
\* names its task wherever that name is usable, and an alias is never an
\* unknown method.
TaskNamed ==
    (outcome.action = "forwarded" /\ request.body = "call"
        /\ \E f \in ctx.metadata : f[1] = "a2a.family") =>
        LET m == Canonical(request.call.method, config.aliases).v
            id == IF m \in TaskMethods THEN request.call.params.id
                  ELSE request.call.params.taskId
        IN /\ (IsTaskRoutable(m) /\ Promotable(id)) =>
                 ToldOf(ctx.metadata, "a2a.task_id") = {id.v}
           /\ request.call.method.v \in DOMAIN config.aliases =>
                 ToldOf(ctx.metadata, "a2a.family") # {"unknown"}

\* What MCExchanges checks of this component
CallsToldOnce == OneStory /\ HeadersMatchBody /\ ErrorsKeepId /\ TaskNamed
=============================================================================
