----------------------------- MODULE MCMcpBroker -----------------------------
(* Values for McpBroker. *)
EXTENDS Integers, Sequences

CONSTANT None

Plain == [name |-> "/mcp", shape |-> "plain"]
Odd == [name |-> "/a/../mcp", shape |-> "traversal"]
Tool(name, schema) == [name |-> name, schema |-> schema]
Server(name, prefix, tools) ==
    [name |-> name, cluster |-> "c", path |-> Plain, prefix |-> prefix, tools |-> tools]
Config(servers, supported, default, policy) ==
    [servers |-> servers, supported |-> supported, default |-> default,
     policy |-> policy, path |-> Plain, max_body_bytes |-> 1]

\* ToolPrefixes and names that can spell the same exposed name
ToolPrefixes == {<<>>, <<"a">>, <<"a", "b">>}
ToolLists == {<<Tool(<<"b">>, None), Tool(<<"c">>, "object")>>,
              <<Tool(<<"b", "c">>, "object"), Tool(<<"d">>, "array")>>,
              <<Tool(<<"b">>, "array")>>, <<Tool(<<>>, None)>>}
ServerLists ==
    {<<Server("s", p, t), Server("t", q, u)>> :
        p \in ToolPrefixes, q \in ToolPrefixes, t \in ToolLists, u \in ToolLists}
    \cup {<<Server("s", p, t), Server("s", <<>>, t)>> : p \in ToolPrefixes, t \in ToolLists}
MCConfigs ==
    {Config(s, {"v1"}, "v1", policy) : s \in ServerLists,
                                       policy \in {"reject_server", "filter_out"}}

\* One catalog, every version setting, and the odd paths
OneServer == <<Server("s", <<"a">>, <<Tool(<<"b">>, None)>>)>>
MCVersions ==
    {Config(OneServer, sup, def, "filter_out") :
        sup \in SUBSET {"v1", "v2", "v9"}, def \in {"v1", "v2"}}
    \cup {[Config(OneServer, {"v1"}, "v1", "filter_out") EXCEPT !.path = Odd],
          [Config(OneServer, {"v1"}, "v1", "filter_out") EXCEPT !.max_body_bytes = 0],
          Config(<<[OneServer[1] EXCEPT !.cluster = ""]>>, {"v1"}, "v1", "filter_out")}

Call(method, kind, v, version) ==
    [verb |-> "POST", path |-> "/mcp", session |-> FALSE, body |-> "call",
     call |-> [method |-> method, id |-> [kind |-> kind, v |-> v], version |-> version,
               kind |-> IF kind = "Missing" THEN "Notification" ELSE "Request"]]
Bodiless(verb, path, session, body) ==
    [verb |-> verb, path |-> path, session |-> session, body |-> body, call |-> None]

MCCalls ==
    {Call(m, k, 1, None) : m \in {"tools/list", "tools/call", "ping", "notification"},
                           k \in {"String", "Integer", "Number", "Null", "Missing"}}
    \cup {Call("initialize", "String", 2, v) : v \in {None, "v1", "v2", "v9"}}
    \cup {Call("initialize", "Missing", 0, "v1")}
    \cup {Bodiless("POST", "/mcp", FALSE, b) : b \in {"not_json", "no_method"}}
    \cup {Bodiless("DELETE", "/mcp", s, "none") : s \in BOOLEAN}
    \cup {Bodiless("GET", "/mcp", FALSE, "none"), Bodiless("POST", "/other", FALSE, "none")}
=============================================================================
