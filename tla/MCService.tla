----------------------------- MODULE MCService -----------------------------
(* The storage service, instantiated. *)
EXTENDS Service, TLC

CONSTANTS r1, r2, t1, t2, c1, i1, i2, i3, i4, unknown

-----------------------------------------------------------------------------
(* Requests, items and inputs *)

\* One request may be anything, and meets one that needs the store
V1 == <<"v1", "conversations">>
AllPaths ==
    {V1, V1 \o <<"">>, V1 \o <<"", "">>, V1 \o <<"c">>, V1 \o <<"c", "">>,
     V1 \o <<"c", "items">>, V1 \o <<"c", "items", "">>, V1 \o <<"c", "items", "i">>,
     V1 \o <<"c", "other">>, V1 \o <<"", "items">>, <<"v1", "responses">>, <<"">>}
DeletePaths ==
    {V1, V1 \o <<"c">>, V1 \o <<"c", "items">>, V1 \o <<"c", "items", "i">>}
Asks(m, p, early, denied) == [method |-> m, path |-> p, preread |-> early, denied |-> denied]
MCRequests ==
    r1 :> UNION {{Asks("GET", p, early, denied) : p \in AllPaths}
                 \cup {Asks("POST", p, early, denied) : p \in AllPaths}
                 \cup {Asks("DELETE", p, early, denied) : p \in DeletePaths}
                 \cup {Asks("PUT", V1 \o <<"c">>, early, denied)} :
                     early, denied \in BOOLEAN}
    @@ r2 :> {Asks("POST", V1 \o <<"c">>, FALSE, FALSE)}

\* Three ids, every form of item under one of them; limits at and beyond both
\* bounds
Query(l, asc) == [limit |-> l, ascending |-> asc]
Item(ty, ro, co, st) == [type |-> ty, role |-> ro, content |-> co, status |-> st]
OneInput == {Item("reasoning", "absent", "absent", "absent")}
MessageInputs ==
    {Item("message", ro, co, "absent") :
        ro \in {"absent", "empty", "number"}, co \in {"absent", "text", "number"}}
    \cup {Item("message", ro, co, st) :
        ro \in {"user", "assistant"}, co \in {"absent", "number"}, st \in {"absent", "in_progress"}}
    \cup {Item("message", "user", "text", "absent"),
          Item("message", "assistant", "output_text", "in_progress"), Bad}
MCItems == <<OneInput, OneInput, OneInput \cup MessageInputs>>
MCQueries ==
    {Query(NoParam, "other"), Query(0, "asc"), Query(9, "asc")}

\* Stored inputs of up to four items, with an id on all, some or none of them,
\* and a cursor that names no item
MCInputs ==
    UNION {{[k \in 1..n |-> [name |-> k, id |-> IF f[k] THEN <<i1, i2, i3, i4>>[k] ELSE NoId]] :
               f \in [1..n -> BOOLEAN]} : n \in 0..4}
MCLimits == {NoParam, 0, 1, 2, 3, 9}
MCCursors == {i2, unknown} \cup 0..6 \cup {19, 20}

Name(id, len) == [id |-> <<id>>, len |-> len, chars |-> "ok"]
Url(host, ps) == [scheme |-> "postgres", host |-> host, params |-> ps]
P(k, v) == [key |-> k, value |-> v]
File(m, p) == [scheme |-> "sqlite", memory |-> m, path |-> p]

Base(filter, engine, url) ==
    [filter |-> filter, backend |-> engine, url |-> url, responses |-> Name("r", 9),
     conversations |-> Name("c", 9), items |-> Name("i", 9), ssl_mode |-> Absent,
     ssl_root_cert |-> Absent, allow_private |-> FALSE]

-----------------------------------------------------------------------------
(* One filter and every URL *)

Hosts == {"public", "private", "legacy_public", "legacy_private", "dns", "localhost", "socket",
          "socket_dotdot", "empty"}
HostParams == {<<>>} \cup {<<P(k, h)>> : k \in {"host", "hostaddr"}, h \in Hosts}
    \cup {<<P("host", h), P("hostaddr", g)>> : h, g \in {"public", "private"}}
Modes == {"prefer", "verify-ca", "verify-full"}
TlsParams == {<<>>} \cup {<<P("sslmode", m)>> : m \in Modes}
    \cup {<<P("sslmode", m), P("sslrootcert", r), P("sslmode", n)>> :
            m, n \in Modes, r \in {"pem", "dotdot"}}

UrlDeployments ==
    {"f" :> c : c \in
        {[Base("responses", "postgres", Url(h, p)) EXCEPT !.allow_private = a] :
            h \in Hosts \cup {"none"}, p \in HostParams, a \in BOOLEAN}
        \cup {[Base("conversations", "postgres", Url("public", p))
                EXCEPT !.ssl_mode = m, !.ssl_root_cert = r] :
            p \in TlsParams, m \in Modes \cup {Absent}, r \in {Absent, "pem", "dotdot"}}
        \cup {[Base(f, "sqlite", File(m, p)) EXCEPT !.ssl_mode = s] :
            f \in {"responses", "conversations"}, m \in BOOLEAN,
            p \in {"plain", "dotdot", "encoded_dotdot", "not_utf8"}, s \in {Absent, "prefer"}}
        \cup {Base("responses", "postgres", Absent),
              Base("responses", "postgres", [Url("public", <<>>) EXCEPT !.scheme = "mysql"])}}

-----------------------------------------------------------------------------
(* Both filters in one database, names at the limits *)

Server == Url("public", <<>>)
Lens == {0, 1, 46, 47, 49, 50, 63, 64, 111, 112, 128, 129}
Good(filter, engine) ==
    Base(filter, engine, IF engine = "sqlite" THEN File(FALSE, "plain") ELSE Server)

\* The responses table generated for the conversations table c
Generated == [id |-> <<"c", "_unused_responses">>, len |-> 26, chars |-> "ok"]

NameDeployments ==
    {"f" :> [Good("conversations", b) EXCEPT !.conversations.len = m, !.items.len = n] :
        b \in {"sqlite", "postgres"}, m, n \in Lens}
    \cup {"f" :> [Good("responses", b) EXCEPT !.conversations.len = m, !.responses.len = n] :
        b \in {"sqlite", "postgres"}, m, n \in Lens}
    \cup {"f" :> [Good("conversations", "postgres") EXCEPT !.items = n, !.items.chars = k] :
        n \in {Name("i", 9), Name("c", 9), Generated}, k \in {"ok", "hyphen"}}
    \cup {[f \in {"f", "g"} |->
            IF f = "f" THEN [Good("conversations", "postgres") EXCEPT !.conversations.len = m]
                       ELSE [Good("responses", "postgres") EXCEPT !.conversations.len = m]] :
        m \in {9, 46, 47}}

MCDeployments == UrlDeployments \cup NameDeployments
=============================================================================
