--------------------------- MODULE MCAgentFilters ---------------------------
(* Values for AgentFilters. *)
EXTENDS Integers, Sequences

CONSTANT None

AllHeaders == {"mcp.method", "mcp.name", "mcp.protocol_version", "mcp.kind",
               "mcp.session_present", "a2a.method", "a2a.family", "a2a.task_id",
               "a2a.kind", "a2a.streaming", "a2a.version"}
MCAliases == [a \in {"tasks/get"} |-> "GetTask"]
Routing(enabled, ttl, bytes, header) ==
    [enabled |-> enabled, ttl |-> ttl, max_response_body_bytes |-> bytes, header |-> header]
Base == [on_invalid |-> "reject", mismatch |-> "reject", missing |-> "ignore",
         headers |-> AllHeaders, aliases |-> MCAliases, max_body_bytes |-> 1,
         routing |-> Routing(TRUE, 1, 1, "reserved")]

\* Every behaviour setting, headers on and one off, and configurations that
\* must be refused
MCConfigs ==
    {[Base EXCEPT !.on_invalid = o, !.mismatch = m, !.missing = s, !.headers = h] :
        o \in {"reject", "continue", "error"}, m \in {"reject", "ignore"},
        s \in {"ignore", "synthesize", "reject"},
        h \in {AllHeaders, AllHeaders \ {"mcp.name", "a2a.task_id"}}}
    \cup {[Base EXCEPT !.aliases = [a \in {"tasks/get"} |-> "GetJob"]],
          [Base EXCEPT !.aliases = [a \in {""} |-> "GetTask"]],
          [Base EXCEPT !.headers = {""}], [Base EXCEPT !.max_body_bytes = 0],
          [Base EXCEPT !.routing = Routing(TRUE, 0, 1, "reserved")],
          [Base EXCEPT !.routing = Routing(TRUE, 1, 1, "other")]}

MCChains == {<<"mcp", "a2a">>, <<"a2a", "mcp">>}

NoHeaders == [mcp_method |-> None, mcp_name |-> None, session |-> None,
              version |-> None, a2a_version |-> None]
NoParams == [name |-> None, uri |-> None, id |-> None, taskId |-> None, version |-> None]
Class(v, c) == [v |-> v, c |-> c]
Value(v) == Class(v, "ok")
Request(method, params, kind, headers) ==
    [body |-> "call", headers |-> headers,
     call |-> [method |-> method, params |-> params,
               id |-> [kind |-> kind, v |-> "7"],
               kind |-> IF kind = "Missing" THEN "notification" ELSE "request"]]

\* MCP calls: every selector case against every header the client may send
Selectors == {None, Value("x"), Class("xx", "long"), Class("x!", "control")}
ClientHeaders ==
    {[NoHeaders EXCEPT !.mcp_method = m, !.mcp_name = n] :
        m \in {None, Value("tools/call"), Value("ping"), Class("b", "binary")},
        n \in {None, Value("x"), Value("y")}}
McpRequests ==
    {Request(Value(m), [NoParams EXCEPT !.name = s, !.uri = s], k, h) :
        m \in {"tools/call", "resources/read", "ping"}, s \in Selectors,
        k \in {"Integer", "String", "Missing"}, h \in ClientHeaders}
    \cup {Request(m, [NoParams EXCEPT !.version = v], "String",
                  [NoHeaders EXCEPT !.version = Value("v1"), !.session = s]) :
            m \in {Value("initialize"), Class("odd", "long"), Class("odd!", "control")},
            v \in {None, Value("v2")}, s \in {None, Value("s"), Class("s", "binary")}}

\* A2A calls: every method, one by an alias, and one that is unknown
A2aMethods ==
    {"GetTask", "CancelTask", "SubscribeToTask", "CreateTaskPushNotificationConfig",
     "GetTaskPushNotificationConfig", "ListTaskPushNotificationConfigs",
     "DeleteTaskPushNotificationConfig", "SendMessage", "SendStreamingMessage",
     "ListTasks", "GetExtendedAgentCard", "tasks/get", "GetJob"}
A2aRequests ==
    {Request(Value(m), [NoParams EXCEPT !.id = i, !.taskId = Value("t2")], "Number",
             [NoHeaders EXCEPT !.a2a_version = Value("1")]) :
        m \in A2aMethods,
        i \in {None, Value("t"), Class("tt", "long")}}

MCRequests ==
    McpRequests \cup A2aRequests
    \cup {[Request(Value("ping"), NoParams, "Null", NoHeaders) EXCEPT !.body = b] :
            b \in {"none", "batch", "invalid"}}
=============================================================================
