----------------------------- MODULE StoreConfig -----------------------------
(***************************************************************************)
(* From the YAML of the openai_conversations and openai_response_store     *)
(* filters to their open stores: validation of the database URL, of the    *)
(* TLS options and of the table names, the check before connecting, and    *)
(* the schema, one DDL statement at a time.  Both filters may use one      *)
(* database.  The proxy may die at any statement and start again.          *)
(*                                                                         *)
(* A name is [id, len, chars]: id its tokens with case folded, len its     *)
(* bytes.  A host is its class: "public" and "private" are IP literals,    *)
(* "legacy_public" and "legacy_private" IPv4 in the spellings libc still   *)
(* takes, "dns", "localhost", "socket", "socket_dotdot", "empty".          *)
(***************************************************************************)
EXTENDS Integers, FiniteSets, SequencesExt

CONSTANTS
    Deployments,  \* functions from the filters deployed to their configs
    MaxCrashes,
    Absent

VARIABLES
    config,     \* filter -> its configuration
    outcome,    \* filter -> "new", "invalid", "accepted", "ddl", "open", "failed", "host_refused"
    todo,       \* filter -> statements still to execute
    relations,  \* tables and indexes of the database: [name, shape]
    crashes

vars == <<config, outcome, todo, relations, crashes>>

-----------------------------------------------------------------------------
(* Table names: schemas.rs *)

MaxIdentifierLen == 128
PostgresMaxIdentifierLen == 63

\* validate_identifier: characters and first letter are one class here
ValidIdentifier(n) == n.len \in 1 .. MaxIdentifierLen /\ n.chars = "ok"

Same(m, n) == m.id = n.id
Derived(prefix, n, suffix, more) ==
    [id |-> prefix \o n.id \o suffix, len |-> n.len + more, chars |-> n.chars]

\* The generated table of the conversations filter, which stays empty
UnusedResponses(n) == Derived(<<>>, n, <<"_unused_responses">>, 17)

\* The index of a conversations table and that of an items table
TenantIndex(n) == Derived(<<"idx_">>, n, <<"_tenant_id">>, 14)
ItemsIndex(n) == Derived(<<"idx_">>, n, <<"_conversation">>, 17)

\* TableNames of a configuration
Tables(c) ==
    [responses |-> IF c.filter = "conversations" THEN UnusedResponses(c.conversations)
                   ELSE c.responses,
     conversations |-> c.conversations,
     items |-> IF c.filter = "conversations" THEN c.items ELSE Absent]

\* validate_table_names and validate_items_table
DistinctTables(t) ==
    /\ ValidIdentifier(t.responses) /\ ValidIdentifier(t.conversations)
    /\ ~Same(t.responses, t.conversations)
    /\ t.items # Absent => /\ ValidIdentifier(t.items)
                           /\ ~Same(t.items, t.responses) /\ ~Same(t.items, t.conversations)

\* validate_postgres_identifiers: room for what the index names add
TableLengthsOnly(t) ==
    /\ DistinctTables(t)
    /\ t.responses.len <= PostgresMaxIdentifierLen
    /\ t.conversations.len <= PostgresMaxIdentifierLen
    /\ t.items # Absent => t.items.len <= PostgresMaxIdentifierLen
PostgresIdentifiers(t) ==
    /\ DistinctTables(t)
    /\ t.responses.len <= PostgresMaxIdentifierLen
    /\ t.conversations.len <= PostgresMaxIdentifierLen - 14
    /\ t.items # Absent => t.items.len <= PostgresMaxIdentifierLen - 17

-----------------------------------------------------------------------------
(* Database URLs: config.rs, the same in both filters.  A PostgreSQL URL   *)
(* is [scheme, host, params], params a sequence of [key, value].           *)

IsIp(h) == h \in {"public", "private"}
IsLegacy(h) == h \in {"legacy_public", "legacy_private"}
Sensitive(h) == h \in {"private", "legacy_private"}

\* validate_postgres_host_value and what it calls
DnsAllowed(h, allow) ==
    CASE h \in {"empty", "socket_dotdot"} -> FALSE
      [] h \in {"socket", "localhost"}    -> allow
      [] OTHER                            -> allow \/ ~Sensitive(h)
HostAllowed(h, allow) ==
    CASE h = "empty"              -> FALSE
      [] h = "socket_dotdot"      -> FALSE
      [] h = "socket"             -> allow
      [] h = "localhost"          -> allow
      [] IsIp(h) \/ IsLegacy(h)   -> allow \/ ~Sensitive(h)
      [] OTHER                    -> allow

\* validate_postgres_hostaddr: an IP literal, nothing else
HostaddrAllowed(h, allow) == IsIp(h) /\ (allow \/ ~Sensitive(h))

\* The places of the parameters that name a host
Targets(url) == {k \in DOMAIN url.params : url.params[k].key \in {"host", "hostaddr"}}
ParamAllowed(p, allow) ==
    IF p.key = "hostaddr" THEN HostaddrAllowed(p.value, allow) ELSE HostAllowed(p.value, allow)

\* revalidate_postgres_host, right before connecting
NeverPrivate(c) ==
    /\ c.url.host # "none" => HostAllowed(c.url.host, FALSE)
    /\ \A k \in Targets(c.url) : ParamAllowed(c.url.params[k], FALSE)
RevalidateHost(c) ==
    /\ c.url.host # "none" => HostAllowed(c.url.host, c.allow_private)
    /\ \A k \in Targets(c.url) : ParamAllowed(c.url.params[k], c.allow_private)

\* validate_postgres_database_url
PostgresUrl(c) ==
    /\ c.url.scheme = "postgres"
    /\ c.url.host # "none" \/ Targets(c.url) # {}
    /\ c.url.host # "none" => HostAllowed(c.url.host, c.allow_private)
    /\ \A k \in Targets(c.url) : ParamAllowed(c.url.params[k], c.allow_private)

\* validate_sqlite_database_url; only the conversations filter decodes
SqliteUrl(c) ==
    \/ c.url.memory
    \/ ~c.url.memory /\ c.url.path # "dotdot"
       /\ (c.filter = "conversations" => c.url.path \notin {"encoded_dotdot", "not_utf8"})

Verified(mode) == mode \in {"verify-ca", "verify-full"}
Sslmodes(url) == SelectSeq(url.params, LAMBDA p : p.key = "sslmode")
RootCerts(url) == SelectSeq(url.params, LAMBDA p : p.key = "sslrootcert")

\* has_verified_postgres_ssl_mode: the option, else the URL's last sslmode
FirstSslmode(c) ==
    IF c.ssl_mode # Absent THEN Verified(c.ssl_mode)
    ELSE Sslmodes(c.url) # <<>> /\ Verified(Sslmodes(c.url)[1].value)
VerifiedSslMode(c) ==
    IF c.ssl_mode # Absent THEN Verified(c.ssl_mode)
    ELSE Sslmodes(c.url) # <<>> /\ Verified(Last(Sslmodes(c.url)).value)

HasRootCert(c) == c.ssl_root_cert # Absent \/ RootCerts(c.url) # <<>>

\* validate_postgres_ssl_config
PostgresSsl(c) ==
    /\ \A p \in ToSet(RootCerts(c.url)) : p.value # "dotdot"
    /\ c.ssl_root_cert # "dotdot"
    /\ HasRootCert(c) => VerifiedSslMode(c)

\* reject_postgres_fields
NoPostgresFields(c) ==
    c.ssl_mode = Absent /\ c.ssl_root_cert = Absent /\ ~c.allow_private

\* validate_config of either filter
ValidConfig(c) ==
    /\ c.url # Absent
    /\ DistinctTables(Tables(c))
    /\ CASE c.backend = "sqlite"   -> SqliteUrl(c) /\ NoPostgresFields(c)
         [] c.backend = "postgres" ->
                PostgresUrl(c) /\ PostgresIdentifiers(Tables(c)) /\ PostgresSsl(c)

-----------------------------------------------------------------------------
(* Connecting, as sqlx reads the URL: parameters override the authority,   *)
(* later ones the earlier, and the ssl_mode of the options overrides all   *)

Target(c) ==
    IF Targets(c.url) # {} THEN c.url.params[Max(Targets(c.url))].value ELSE c.url.host

\* pg_connect_options
EffectiveSslMode(c) ==
    CASE c.ssl_mode # Absent -> c.ssl_mode
      [] c.ssl_mode = Absent /\ Sslmodes(c.url) # <<>> -> Last(Sslmodes(c.url)).value
      [] OTHER -> "prefer"

\* generate_ddl: CREATE ... IF NOT EXISTS statements, in this order
Ddl(t) ==
    <<[name |-> t.responses, shape |-> "responses"],
      [name |-> t.conversations, shape |-> "conversations"],
      [name |-> TenantIndex(t.conversations), shape |-> "index"]>>
    \o (IF t.items = Absent THEN <<>>
        ELSE <<[name |-> t.items, shape |-> "items"],
               [name |-> ItemsIndex(t.items), shape |-> "index"]>>)

\* The name a relation gets: PostgreSQL cuts what is too long
Stored(c, n) ==
    [id |-> n.id, len |-> IF c.backend = "postgres" /\ n.len > PostgresMaxIdentifierLen
                          THEN PostgresMaxIdentifierLen ELSE n.len]

\* IF NOT EXISTS: a relation of that name, whatever it is, stays as it is
Exists(c, s) == \E r \in relations : r.name = Stored(c, s.name)
Execute(c, s) ==
    [ok |-> TRUE,
     relations |-> IF Exists(c, s) THEN relations
                   ELSE relations \cup {[name |-> Stored(c, s.name), shape |-> s.shape]}]

-----------------------------------------------------------------------------
Filters == DOMAIN config

Init ==
    /\ config \in Deployments
    /\ outcome = [f \in Filters |-> "new"] /\ todo = [f \in Filters |-> <<>>]
    /\ relations = {} /\ crashes = 0

\* from_config: one filter that is invalid keeps the proxy from starting
Load(f) ==
    /\ outcome[f] = "new"
    /\ outcome' = [outcome EXCEPT ![f] = IF ValidConfig(config[f]) THEN "accepted" ELSE "invalid"]
    /\ UNCHANGED <<config, todo, relations, crashes>>

\* The first request for the filter builds the store
Connect(f) ==
    /\ outcome[f] = "accepted" /\ \A g \in Filters : outcome[g] \notin {"new", "invalid"}
    /\ LET c == config[f] IN
        IF c.backend = "postgres" /\ ~RevalidateHost(c)
        THEN outcome' = [outcome EXCEPT ![f] = "host_refused"] /\ UNCHANGED todo
        ELSE outcome' = [outcome EXCEPT ![f] = "ddl"] /\ todo' = [todo EXCEPT ![f] = Ddl(Tables(c))]
    /\ UNCHANGED <<config, relations, crashes>>

Statement(f) ==
    /\ outcome[f] = "ddl" /\ todo[f] # <<>>
    /\ LET r == Execute(config[f], Head(todo[f])) IN
        /\ relations' = r.relations
        /\ outcome' = IF r.ok THEN outcome ELSE [outcome EXCEPT ![f] = "failed"]
    /\ todo' = [todo EXCEPT ![f] = Tail(@)]
    /\ UNCHANGED <<config, crashes>>

Open(f) ==
    /\ outcome[f] = "ddl" /\ todo[f] = <<>>
    /\ outcome' = [outcome EXCEPT ![f] = "open"]
    /\ UNCHANGED <<config, todo, relations, crashes>>

\* The proxy dies and starts again with the same file
Crash ==
    /\ crashes < MaxCrashes /\ \A f \in Filters : outcome[f] \notin {"new", "invalid"}
    /\ crashes' = crashes + 1
    /\ outcome' = [f \in Filters |-> "new"] /\ todo' = [f \in Filters |-> <<>>]
    /\ UNCHANGED <<config, relations>>

Next ==
    \/ \E f \in Filters : Load(f) \/ Connect(f) \/ Statement(f) \/ Open(f)
    \/ Crash

Spec == Init /\ [][Next]_vars

-----------------------------------------------------------------------------
(* Properties *)

(***************************************************************************)
(* A store that is open has every table and every index it was to have,    *)
(* under its full name and with its own columns, although an earlier start *)
(* died between two statements or another filter opened its store in the   *)
(* same database (generate_ddl, validate_postgres_identifiers).            *)
(***************************************************************************)
SchemaComplete ==
    \A f \in Filters : outcome[f] = "open" =>
        \A s \in ToSet(Ddl(Tables(config[f]))) :
            [name |-> [id |-> s.name.id, len |-> s.name.len], shape |-> s.shape] \in relations

(***************************************************************************)
(* A valid configuration opens at every start: nothing a crash left behind *)
(* makes a statement fail, and the check before connecting does not refuse *)
(* what validation has let through ("safe to run on every startup",        *)
(* generate_ddl; revalidate_postgres_host).                                *)
(***************************************************************************)
StartsAgain == \A f \in Filters : outcome[f] \notin {"failed", "host_refused"}

(***************************************************************************)
(* A root certificate is never configured in vain: the mode the connection *)
(* is made with verifies the server, whichever of options and URL decides, *)
(* repeated parameters included (has_verified_postgres_ssl_mode against    *)
(* pg_connect_options).                                                    *)
(***************************************************************************)
RootCertUsed ==
    \A f \in Filters :
        LET c == config[f] IN
        outcome[f] \in {"ddl", "open"} /\ c.backend = "postgres" /\ HasRootCert(c)
            => Verified(EffectiveSslMode(c))

(***************************************************************************)
(* Unless private targets are allowed, the host the driver ends up with is *)
(* a literal public address, by whichever part of the URL it was named     *)
(* (validate_postgres_database_url against pg_connect_options).            *)
(***************************************************************************)
TargetVetted ==
    \A f \in Filters :
        LET c == config[f] IN
        outcome[f] \in {"ddl", "open"} /\ c.backend = "postgres" /\ ~c.allow_private
            => Target(c) \in {"public", "legacy_public"}

(***************************************************************************)
(* What validation promises of a store that connects and opens, together   *)
(* (validate and build of the store's configuration).                      *)
(***************************************************************************)
StoreOpensSoundly == RootCertUsed /\ TargetVetted /\ StartsAgain /\ SchemaComplete
=============================================================================
