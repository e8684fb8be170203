------------------------------ MODULE McpBroker ------------------------------
(***************************************************************************)
(* The mcp filter with `servers` in its configuration: a broker that       *)
(* merges the tool catalogs of several MCP servers when it is loaded and   *)
(* answers every request itself.                                           *)
(*                                                                         *)
(* Tool names and prefixes are sequences of letters, so that two of them   *)
(* can spell the same exposed name.  A request is [verb, path, body], a    *)
(* body is "none", "not_json", "no_method" (nothing the JSON-RPC parser    *)
(* takes for a call) or a call [method, id, kind, version].                *)
(***************************************************************************)
EXTENDS Integers, FiniteSets, Sequences

CONSTANTS
    Implemented, \* protocol::SUPPORTED_VERSIONS
    Configs,     \* the configurations given to the filter
    Requests,    \* the requests clients send
    MaxRequests, \* bounds the requests of a behaviour
    Forwarded, None

VARIABLES
    config,   \* the configuration
    broker,   \* "loading", "failed" or "serving"
    catalog,  \* the tools served
    request,  \* the request in hand, or None
    answer,   \* what became of it: a synthetic answer, Forwarded or None
    issued,   \* how many sessions were issued
    clients   \* what each past request was answered

vars == <<config, broker, catalog, request, answer, issued, clients>>

-----------------------------------------------------------------------------
(* broker/config.rs *)

\* validate_versions
ValidVersions(c) ==
    /\ c.supported # {}
    /\ c.supported \subseteq Implemented
    /\ c.default \in c.supported

\* validate_path: no scheme, authority, query or traversal, one leading /
ValidPath(path) == path.shape = "plain"

\* validate_unique_server_names, _clusters, _paths, validate_tool_names
ValidServers(servers) ==
    /\ \A i \in DOMAIN servers :
         /\ servers[i].name # "" /\ servers[i].cluster # ""
         /\ ValidPath(servers[i].path)
         /\ \A t \in DOMAIN servers[i].tools : servers[i].tools[t].name # <<>>
    /\ \A i, j \in DOMAIN servers : servers[i].name = servers[j].name => i = j

\* validate_schema_object; a tool without a schema has a default one
ValidSchema(tool) == tool.schema \in {None, "object"}

\* build_catalog_entry: the exposed name is the prefix and the tool's name
CatalogEntry(server, tool) ==
    [exposed |-> server.prefix \o tool.name, original |-> tool.name,
     server |-> server.name, cluster |-> server.cluster, path |-> server.path,
     schema |-> IF tool.schema = None THEN "default" ELSE tool.schema]

\* build_catalog: the loop over the servers and, in it, over the tools of one,
\* which takes the valid ones; `reject` when the policy is to refuse a
\* configuration with an invalid one
ServerTools(server) ==
    LET taken[k \in 0..Len(server.tools)] ==
            IF k = 0 THEN <<>>
            ELSE IF ValidSchema(server.tools[k])
                 THEN Append(taken[k - 1], CatalogEntry(server, server.tools[k]))
                 ELSE taken[k - 1]
    IN taken[Len(server.tools)]
AllTools(servers) ==
    LET taken[k \in 0..Len(servers)] ==
            IF k = 0 THEN <<>> ELSE taken[k - 1] \o ServerTools(servers[k])
    IN taken[Len(servers)]
BuildCatalog(c) ==
    [reject  |-> c.policy = "reject_server"
                 /\ \E i \in DOMAIN c.servers : \E t \in DOMAIN c.servers[i].tools :
                       ~ValidSchema(c.servers[i].tools[t]),
     entries |-> AllTools(c.servers)]

\* validate_unique_exposed_names
UniqueOriginalNames(entries) ==
    \A i, j \in DOMAIN entries :
        (entries[i].original = entries[j].original /\ entries[i].server = entries[j].server)
            => i = j
UniqueExposedNames(entries) ==
    \A i, j \in DOMAIN entries : entries[i].exposed = entries[j].exposed => i = j

\* build_config
ValidConfig(c) ==
    /\ c.max_body_bytes > 0
    /\ ValidVersions(c)
    /\ ValidPath(c.path)
    /\ ValidServers(c.servers)
    /\ ~BuildCatalog(c).reject
    /\ UniqueExposedNames(BuildCatalog(c).entries)

-----------------------------------------------------------------------------
(* broker/mod.rs *)

Reply(status) == [status |-> status, id |-> None, error |-> None,
                  version |-> None, session |-> None, tools |-> <<>>]
Rpc(id) == [Reply(200) EXCEPT !.id = id]

\* invalid_request_action: an id that is no string or integer is not echoed
InvalidRequest(call) ==
    [Rpc(IF call.id.kind \in {"String", "Integer"} THEN call.id ELSE [kind |-> "Null", v |-> 0])
        EXCEPT !.error = -32600]

\* handle_notification: nothing is answered to one that has no id
HandleNotification(call) ==
    IF call.kind = "Notification" /\ call.id.kind = "Missing" THEN Reply(202)
    ELSE InvalidRequest(call)

\* has_valid_request_id
JsonRpcId(call) == call.id.kind # "Missing"
ValidRequestId(call) == call.id.kind \in {"String", "Integer"}

\* negotiate_protocol_version
EchoVersion(c, version) == IF version = None THEN c.default ELSE version
NegotiateVersion(c, version) == IF version \in c.supported THEN version ELSE c.default

\* dispatch_method; `next` is the session an initialize would get
DispatchMethod(c, entries, call, next) ==
    CASE call.method = "notification" -> HandleNotification(call)
      [] call.method # "notification" /\ ~ValidRequestId(call) -> InvalidRequest(call)
      [] OTHER ->
           CASE call.method = "initialize" ->
                  [Rpc(call.id) EXCEPT !.version = NegotiateVersion(c, call.version),
                                       !.session = next]
             [] call.method = "tools/list" -> [Rpc(call.id) EXCEPT !.tools = entries]
             [] call.method = "ping" -> Rpc(call.id)
             [] OTHER -> [Rpc(call.id) EXCEPT !.error = -32601]  \* tools/call too

\* on_request: the path, then the verb; DELETE is answered at once, whether
\* the session exists or not
OnRequest(c, r) ==
    CASE r.path # c.path.name -> Reply(404)
      [] r.path = c.path.name /\ r.verb = "POST" -> None
      [] r.path = c.path.name /\ r.verb = "DELETE" ->
            Reply(IF r.session THEN 204 ELSE 400)
      [] OTHER -> Reply(405)

\* on_request_body at the end of the stream; a request without a body
\* continues to the next filter
OnRequestBody(c, entries, r, next) ==
    CASE r.body = "none" -> Forwarded
      [] r.body \in {"not_json", "no_method"} -> Reply(400)
      [] OTHER -> DispatchMethod(c, entries, r.call, next)

-----------------------------------------------------------------------------
Init ==
    /\ config \in Configs /\ broker = "loading" /\ catalog = <<>>
    /\ request = None /\ answer = None /\ issued = 0 /\ clients = <<>>

\* McpBrokerFilter::from_config
Load ==
    /\ broker = "loading"
    /\ IF ValidConfig(config)
       THEN broker' = "serving" /\ catalog' = BuildCatalog(config).entries
       ELSE broker' = "failed" /\ UNCHANGED catalog
    /\ UNCHANGED <<config, request, answer, issued, clients>>

\* A request's headers arrive
Arrive(r) ==
    /\ broker = "serving" /\ request = None /\ Len(clients) < MaxRequests
    /\ request' = r
    /\ answer' = OnRequest(config, r)
    /\ UNCHANGED <<config, broker, catalog, issued, clients>>

\* Its body has arrived whole; chunks before the end change nothing
BodyEnds ==
    /\ request # None /\ answer = None
    /\ answer' = OnRequestBody(config, catalog, request, issued + 1)
    /\ issued' = IF answer' # Forwarded /\ answer'.session # None THEN issued + 1 ELSE issued
    /\ UNCHANGED <<config, broker, catalog, request, clients>>

\* The client has its answer
Deliver ==
    /\ request # None /\ answer # None
    /\ clients' = Append(clients, [request |-> request, answer |-> answer])
    /\ request' = None /\ answer' = None
    /\ UNCHANGED <<config, broker, catalog, issued>>

Next ==
    \/ Load
    \/ \E r \in Requests : Arrive(r)
    \/ BodyEnds
    \/ Deliver

Spec == Init /\ [][Next]_vars

-----------------------------------------------------------------------------
Answers == {k \in DOMAIN clients : clients[k].answer # Forwarded}

\* A client that calls a tool by the name it was listed under means one tool
\* of one server: no exposed name in any listing stands for two tools,
\* whatever the prefixes spell, and every valid tool of every server is there.
ListedNamesDecide ==
    \A k \in Answers :
        LET listed == clients[k].answer.tools IN
        listed # <<>> =>
            /\ \A i, j \in DOMAIN listed :
                 listed[i].exposed = listed[j].exposed =>
                    /\ listed[i].server = listed[j].server
                    /\ listed[i].original = listed[j].original
                    /\ i = j
            /\ \A s \in DOMAIN config.servers : \A t \in DOMAIN config.servers[s].tools :
                 ValidSchema(config.servers[s].tools[t]) =>
                    \E i \in DOMAIN listed :
                        /\ listed[i].server = config.servers[s].name
                        /\ listed[i].original = config.servers[s].tools[t].name

\* Every initialize ends with a version both sides can speak: one this build
\* implements, the client's own whenever the broker is configured for it; and
\* no two initializes get the same session.
HandshakeSound ==
    /\ \A k \in Answers :
         LET a == clients[k].answer IN
         a.version # None =>
            /\ a.version \in Implemented
            /\ clients[k].request.call.version \in config.supported =>
                  a.version = clients[k].request.call.version
    /\ \A j, k \in Answers :
         (clients[j].answer.session # None
            /\ clients[j].answer.session = clients[k].answer.session) => j = k

\* A client can match answers to calls: a call with a string or integer id
\* is answered under that id, a notification gets no JSON-RPC answer, and
\* nothing else is taken for a call.
AnswersCorrelate ==
    \A k \in Answers :
        LET r == clients[k].request
            a == clients[k].answer
        IN (r.path = config.path.name /\ r.verb = "POST" /\ r.body = "call") =>
              IF r.call.id.kind \in {"String", "Integer"} THEN a.id = r.call.id
              ELSE \/ a.status = 202 /\ a.id = None /\ r.call.method = "notification"
                   \/ a.error = -32600

\* The three of them
BrokerSound == ListedNamesDecide /\ HandshakeSound /\ AnswersCorrelate
=============================================================================
