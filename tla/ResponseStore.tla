---------------------------- MODULE ResponseStore ----------------------------
(***************************************************************************)
(* The stateful Responses pipeline: openai_responses_format, validate,     *)
(* openai_response_store, rehydrate and responses_proxy in front of an     *)
(* inference backend, with the responses table behind the store filter.    *)
(* Each slot carries one exchange; an action is the code between two       *)
(* awaits.  The body hooks of all filters run before their on_request      *)
(* hooks, because the body is read ahead.  The database may go down and    *)
(* come back, and the process may restart.                                 *)
(***************************************************************************)
EXTENDS ResponsesFilters, SequencesExt

CONSTANTS
    Slots,        \* concurrent exchanges
    Ids,          \* response ids the backend gives out
    Requests,     \* what clients send: request shape, items, target id
    Answers,      \* shapes of backend answers
    Outputs,      \* output item sequences of a response
    OnInvalid,    \* on_invalid of the format filter
    Headers,      \* header names the format filter is configured with
    Backends,     \* kinds of database a deployment may use
    MaxItems,     \* responses_proxy max_body_bytes, counted in items
    MaxRequests,  \* bound on requests
    MaxFaults,    \* bound on database outages
    MaxRestarts,  \* bound on restarts
    None

\* The states of a response, in the API's words
RunStates == {"queued", "in_progress", "completed", "incomplete", "cancelled", "failed"}

\* ResponseRecord: what a row of the table holds
Rows == [status : RunStates, input : Seq(STRING), output : Seq(STRING),
         messages : Seq(STRING)]

ASSUME StoreConstants ==
    /\ Backends \subseteq {"sqlite", "postgres"}
    /\ OnInvalid \in {"continue", "reject", "error"}
    /\ {MaxItems, MaxRequests, MaxFaults, MaxRestarts} \subseteq Nat
    /\ None \notin Ids \cup Rows \cup Seq(STRING)
    /\ Outputs \subseteq Seq(STRING)
    /\ \A a \in Answers : a.run \in RunStates /\ a.input \in Seq(STRING) \cup {None}
    /\ \A r \in Requests :
          /\ r.body \in BodyShape /\ r.method \in Methods /\ r.endpoint \in Endpoints
          /\ r.slashes \in Nat /\ r.items \in Seq(STRING) /\ r.target \in Ids \cup {None}
          /\ r.method # "POST" => r.endpoint \in {"create", "id", "input_items", "other"}
          /\ r.body.input \in {"absent", "null"} => r.items = <<>>
          /\ \/ r.endpoint \in {"id", "input_items"}
             \/ r.body.previous_response_id = "string"
             => r.target # None

VARIABLES
    backend,    \* the database the deployment uses
    table,      \* openai_responses: Ids -> row or None
    up,         \* whether the database answers
    cell,       \* OnceCell of the filter: "empty", "ready", "failed" (None)
    registered, \* the pipeline's registry holds the default store
    pc, req, meta,
    routed,     \* filter results and headers the router's branches read
    state,      \* ResponsesState: None or [messages, persisted]
    captured,   \* ResponseStoreRequestState: the request input, or None
    skip,       \* responses.skip_persist
    reformat,   \* responses._reformat_error
    sent,       \* input items forwarded to the backend
    answer,     \* the backend's answer
    reply,      \* what the client has received
    started, faults, restarts,
    issued,     \* ids the backend has given out
    told,       \* ids some client has received
    inputs,     \* history: the create input of an id
    transcript, \* history: the conversation up to and including an id
    promised,   \* history: ids received complete by a client that asked to store
    deleted,    \* history: ids whose deletion a client has been told
    trouble     \* history: the database was down during the exchange

db == <<table, up, faults>>
store == <<cell, registered>>
exchange == <<req, meta, routed, state, captured, skip, reformat, sent, answer>>
history == <<issued, told, inputs, transcript, promised, deleted>>
vars == <<backend, table, up, cell, registered, pc, req, meta, routed, state, captured, skip,
          reformat, sent, answer, reply, started, faults, restarts, issued,
          told, inputs, transcript, promised, deleted, trouble>>

NoReply == [status |-> 0, body |-> "none", form |-> "json", error |-> None]

-----------------------------------------------------------------------------
(* Conversions *)

\* normalize_input: an array as it is, a string as one user message
NormalizeInput(r) ==
    IF r.body.input \in {"array", "string"} THEN r.items ELSE <<>>

\* append_stored_input_items: any value that is not null becomes items
StoredInputItems(r) ==
    IF r.body.input \in {"array", "string", "object"} THEN r.items ELSE <<>>

IsMcpListing(item) == item = "mcp_list_tools"

\* replay_messages_from_stored: listings are kept in the table, not replayed
Replayed(messages) == SelectSeq(messages, LAMBDA m : ~IsMcpListing(m))

\* stored_messages_for_rehydrate
StoredMessages(row) ==
    IF row.messages # <<>> THEN row.messages ELSE row.input \o row.output

\* build_state
BuildStateReplayOnly(row, r) ==
    [messages  |-> Replayed(StoredMessages(row)) \o NormalizeInput(r),
     persisted |-> Replayed(StoredMessages(row)) \o NormalizeInput(r)]
BuildStateListings(row, r) ==
    [messages  |-> StoredMessages(row) \o NormalizeInput(r),
     persisted |-> StoredMessages(row) \o NormalizeInput(r)]
BuildState(row, r) ==
    [messages  |-> Replayed(StoredMessages(row)) \o NormalizeInput(r),
     persisted |-> StoredMessages(row) \o NormalizeInput(r)]

ParseWithoutFallback(a, inp, st) ==
    LET input == IF inp # None THEN inp ELSE <<>> IN
    [status   |-> a.run, input |-> input, output |-> a.output,
     messages |-> (IF st = None THEN input ELSE st.persisted) \o a.output]
\* parse_response_record and ResponseCapture::from_response_json.  inp is the
\* captured request input; when the request carried none, the input that the
\* answer names is stored.
ParseResponseRecord(a, inp, st) ==
    LET input == IF inp # None THEN inp ELSE IF a.input # None THEN a.input ELSE <<>> IN
    [status   |-> a.run, input |-> input, output |-> a.output,
     messages |-> (IF st = None THEN input ELSE st.persisted) \o a.output]

\* get_or_init_store: a failed initialization is final for SQLite and tried
\* again by the next caller for PostgreSQL.
GetOrInitCached ==
    CASE cell = "empty" -> IF up THEN "ready" ELSE "failed"
      [] OTHER          -> cell
GetOrInitStore ==
    CASE cell = "empty" /\ up                         -> "ready"
      [] cell = "empty" /\ ~up /\ backend = "sqlite"  -> "failed"
      [] OTHER                                        -> cell

-----------------------------------------------------------------------------
Init ==
    /\ backend \in Backends
    /\ table = [i \in Ids |-> None]
    /\ up = TRUE /\ cell = "empty" /\ registered = FALSE
    /\ pc = [s \in Slots |-> "idle"]
    /\ req = [s \in Slots |-> None]
    /\ meta = [s \in Slots |-> None]
    /\ routed = [s \in Slots |-> None]
    /\ state = [s \in Slots |-> None]
    /\ captured = [s \in Slots |-> None]
    /\ skip = [s \in Slots |-> FALSE]
    /\ reformat = [s \in Slots |-> FALSE]
    /\ sent = [s \in Slots |-> None]
    /\ answer = [s \in Slots |-> None]
    /\ reply = [s \in Slots |-> NoReply]
    /\ started = 0 /\ faults = 0 /\ restarts = 0
    /\ issued = {} /\ told = {} /\ promised = {} /\ deleted = {}
    /\ inputs = [i \in Ids |-> None]
    /\ transcript = [i \in Ids |-> None]
    /\ trouble = [s \in Slots |-> FALSE]

\* The exchange of s ends with a reply made by the proxy
Reject(s, status, form) ==
    /\ pc' = [pc EXCEPT ![s] = "idle"]
    /\ reply' = [reply EXCEPT ![s] = [status |-> status, body |-> "local",
                                      form |-> form, error |-> None]]

Streaming(s) == meta[s].stream = "true"

Goto(s, step) == pc' = [pc EXCEPT ![s] = step]

\* A request arrives and passes the format and validate filters.  Targets
\* are ids some client has been told.
Receive(s) ==
    /\ pc[s] = "idle" /\ started < MaxRequests
    /\ started' = started + 1
    /\ \E r \in Requests :
        LET c == Classified(r)
            m == WriteMetadata(c) IN
        /\ r.target = None \/ r.target \in told
        /\ req' = [req EXCEPT ![s] = r]
        /\ meta' = [meta EXCEPT ![s] = m]
        /\ routed' = [routed EXCEPT ![s] =
              [results |-> PromoteFilterResults(c),
               headers |-> PromoteHeaders(c, Headers)]]
        /\ IF HandleInvalidFormat(c.format, OnInvalid)
           THEN Reject(s, 400, "json")
           ELSE IF ValidateRejects(r, m)
           THEN Reject(s, 400, ErrorForm(m.stream = "true"))
           ELSE Goto(s, IF r.method = "POST" THEN "store_body" ELSE "on_request")
                /\ reply' = [reply EXCEPT ![s] = NoReply]
    /\ state' = [state EXCEPT ![s] = None]
    /\ captured' = [captured EXCEPT ![s] = None]
    /\ skip' = [skip EXCEPT ![s] = FALSE]
    /\ reformat' = [reformat EXCEPT ![s] = FALSE]
    /\ sent' = [sent EXCEPT ![s] = None]
    /\ answer' = [answer EXCEPT ![s] = None]
    /\ trouble' = [trouble EXCEPT ![s] = ~up]
    /\ UNCHANGED <<db, store, restarts, history>>

\* Both request hooks of the store filter: initialize, register, or give up
InitForRequest(s) ==
    IF ShouldInitStore(req[s], meta[s])
    THEN /\ cell' = GetOrInitStore
         /\ registered' = (registered \/ cell' = "ready")
         /\ skip' = [skip EXCEPT ![s] =
                @ \/ (cell' # "ready" /\ RequestWillPersist(req[s], meta[s]))]
    ELSE UNCHANGED <<cell, registered, skip>>

\* openai_response_store, on_request_body
StoreRequestBody(s) ==
    /\ pc[s] = "store_body"
    /\ captured' = [captured EXCEPT ![s] =
            IF ShouldSkip(req[s], meta[s]) \/ req[s].body.input = "absent"
               \/ req[s].body.kind # "object"
            THEN None ELSE StoredInputItems(req[s])]
    /\ InitForRequest(s)
    /\ Goto(s, "rehydrate")
    /\ UNCHANGED <<db, req, meta, routed, state, reformat, sent, answer, reply,
                   started, restarts, history, trouble>>

\* responses_proxy: a rehydrated request is rebuilt from the history, any
\* other body passes through
ProxyBody(s, st) ==
    IF st = None
    THEN /\ sent' = [sent EXCEPT ![s] = req[s].items]
         /\ Goto(s, "on_request") /\ UNCHANGED reply
    ELSE IF Len(st.messages) > MaxItems
    THEN Reject(s, 413, ErrorForm(Streaming(s))) /\ UNCHANGED sent
    ELSE /\ sent' = [sent EXCEPT ![s] = st.messages]
         /\ Goto(s, "on_request") /\ UNCHANGED reply

\* openai_responses_rehydrate, on_request_body, then responses_proxy
Rehydrate(s) ==
    LET r == req[s]
        id == IF RehydrateApplies(r, meta[s]) THEN PreviousId(r) ELSE "none"
        form == ErrorForm(Streaming(s)) IN
    /\ pc[s] = "rehydrate"
    /\ \/ /\ id = "none"
          /\ ProxyBody(s, None) /\ UNCHANGED state
       \/ /\ id = "reject"
          /\ Reject(s, 400, form) /\ UNCHANGED <<state, sent>>
       \/ /\ id = "id" /\ (~registered \/ ~up)
          /\ Reject(s, 500, form) /\ UNCHANGED <<state, sent>>
       \/ /\ id = "id" /\ registered /\ up
          /\ IF table[r.target] # None /\ table[r.target].status = "completed"
             THEN LET st == BuildState(table[r.target], r) IN
                  /\ state' = [state EXCEPT ![s] = st]
                  /\ ProxyBody(s, st)
             ELSE Reject(s, 400, form) /\ UNCHANGED <<state, sent>>
    /\ UNCHANGED <<db, store, req, meta, routed, captured, skip, reformat, answer,
                   started, restarts, history, trouble>>

\* Paths the store filter answers itself: one trailing slash is stripped
Local(r) ==
    /\ r.slashes <= 1
    /\ \/ r.method = "GET" /\ r.endpoint \in {"id", "input_items"}
       \/ r.method = "DELETE" /\ r.endpoint = "id"

\* openai_response_store, on_request.  GET is always answered locally, DELETE
\* only when there is a store.
OnRequest(s) ==
    /\ pc[s] = "on_request"
    /\ \/ /\ req[s].method = "POST"
          /\ InitForRequest(s)
          /\ Goto(s, "upstream") /\ UNCHANGED reply
       \/ /\ req[s].method = "GET" /\ Local(req[s])
          /\ cell' = GetOrInitStore
          /\ IF cell' = "ready" THEN Goto(s, "get") /\ UNCHANGED reply
                                ELSE Reject(s, 500, "json")
          /\ UNCHANGED <<registered, skip>>
       \/ /\ req[s].method = "DELETE" /\ Local(req[s])
          /\ cell' = GetOrInitStore
          /\ Goto(s, IF cell' = "ready" THEN "delete" ELSE "upstream")
          /\ UNCHANGED <<registered, skip, reply>>
       \/ /\ req[s].method \in {"GET", "DELETE"} /\ ~Local(req[s])
          /\ Goto(s, "upstream") /\ UNCHANGED <<store, skip, reply>>
    /\ UNCHANGED <<db, req, meta, routed, state, captured, reformat, sent, answer,
                   started, restarts, history, trouble>>

\* handle_get_response, handle_get_input_items: one read of the row
GetResponse(s) ==
    /\ pc[s] = "get"
    /\ Reject(s, CASE ~up -> 500
                   [] up /\ table[req[s].target] = None -> 404
                   [] OTHER -> 200, "json")
    /\ UNCHANGED <<db, store, exchange, started, restarts, history, trouble>>

\* handle_delete: a store error is a filter error, which the proxy answers
HandleDelete(s) ==
    LET id == req[s].target IN
    /\ pc[s] = "delete"
    /\ IF up
       THEN /\ table' = [table EXCEPT ![id] = None]
            /\ Reject(s, IF table[id] = None THEN 404 ELSE 200, "json")
            /\ deleted' = deleted \cup {id}
       ELSE Reject(s, 500, "json") /\ UNCHANGED <<table, deleted>>
    /\ UNCHANGED <<up, faults, store, exchange, started, restarts, issued,
                   told, inputs, transcript, promised, trouble>>

\* The input an answer names: whatever the backend makes of it, or nothing of an
\* empty history
NamedInput(s, a) == IF state[s] # None /\ state[s].persisted = <<>> THEN None ELSE a.input

\* What a turn adds to the conversation: its own input, or that of the template
\* it was made from
TurnInput(r, st, named) ==
    IF st = None /\ r.body.input = "absent" /\ named # None THEN named ELSE StoredInputItems(r)

\* The backend answers.  A create request gets a new id; a cancel answers
\* with the response it names, as the backend holds it.
Upstream(s) ==
    LET r == req[s]
        before == IF state[s] = None THEN <<>> ELSE transcript[r.target] IN
    /\ pc[s] = "upstream"
    /\ \/ \E a \in Answers, out \in Outputs, i \in Ids \ issued :
            /\ IsResponsesCreate(r)
            /\ answer' = [answer EXCEPT ![s] =
                  [status |-> a.status, content |-> a.content,
                   complete |-> a.complete, run |-> a.run, error |-> a.error,
                   id |-> i, input |-> NamedInput(s, a), output |-> out]]
            /\ issued' = issued \cup {i}
            /\ inputs' = [inputs EXCEPT ![i] = StoredInputItems(r)]
            /\ transcript' = [transcript EXCEPT ![i] =
                                before \o TurnInput(r, state[s], NamedInput(s, a)) \o out]
       \/ /\ r.endpoint = "cancel" /\ r.target # None
          /\ \E a \in Answers, out \in Outputs : answer' = [answer EXCEPT ![s] =
                  [status |-> 200, content |-> "json", complete |-> TRUE,
                   run |-> "cancelled", error |-> None,
                   id |-> r.target, input |-> a.input, output |-> out]]
          /\ UNCHANGED <<issued, inputs, transcript>>
       \/ \E a \in Answers :
            /\ ~IsResponsesCreate(r)
            /\ r.endpoint = "cancel" => r.target = None
            /\ answer' = [answer EXCEPT ![s] =
                  [status |-> a.status, content |-> a.content,
                   complete |-> FALSE, run |-> a.run, error |-> a.error,
                   id |-> None, input |-> a.input, output |-> <<>>]]
            /\ UNCHANGED <<issued, inputs, transcript>>
    /\ Goto(s, "on_response")
    /\ UNCHANGED <<db, store, req, meta, routed, state, captured, skip, reformat,
                   sent, reply, started, restarts, told, promised, deleted,
                   trouble>>

IsSuccess(a) == a.status < 300

\* should_skip_persist
ShouldSkipPersist(s) == ShouldSkip(req[s], meta[s]) \/ skip[s]

\* validate's on_response, then the store's: an error body will be replaced,
\* and only a 2xx JSON answer with a usable store is armed for persistence
OnResponse(s) ==
    LET a == answer[s]
        armed == ~ShouldSkipPersist(s) /\ IsSuccess(a) /\ a.content = "json" IN
    /\ pc[s] = "on_response"
    /\ reformat' = [reformat EXCEPT ![s] =
                        IsResponses(meta[s]) /\ ShouldReformatError(a)]
    /\ cell' = IF armed THEN GetOrInitStore ELSE cell
    /\ skip' = [skip EXCEPT ![s] =
            @ \/ (~ShouldSkip(req[s], meta[s]) /\ (~armed \/ cell' # "ready"))]
    /\ Goto(s, "body")
    /\ UNCHANGED <<db, registered, req, meta, routed, state, captured, sent, answer,
                   reply, started, restarts, history, trouble>>

\* should_release_skipped_response_body
ReleaseEvenReformatted(s) == ShouldSkipPersist(s) \/ cell # "ready"
ReleaseBody(s) ==
    ~reformat[s] /\ (ShouldSkipPersist(s) \/ cell # "ready")

\* A chunk before the end: released to the client, or held by StreamBuffer
BodyChunk(s) ==
    /\ pc[s] = "body" /\ ReleaseBody(s)
    /\ reply[s].body = "none"
    /\ reply' = [reply EXCEPT ![s] = [status |-> answer[s].status,
                                      body |-> "partial", form |-> "backend",
                                      error |-> None]]
    /\ UNCHANGED <<db, store, pc, exchange, started, restarts, history,
                   trouble>>

\* The last chunk: to the store when the record can be parsed, otherwise to
\* the client.  reformat_error_body replaces what is still held.
EndOfStreamDeliverFirst(s) ==
    /\ pc[s] = "body"
    /\ Goto(s, "deliver")
    /\ UNCHANGED <<db, store, exchange, reply, started, restarts, history,
                   trouble>>
EndOfStreamSpawnUpsert(s) ==
    LET a == answer[s] IN
    /\ pc[s] = "body"
    /\ told' = IF a.id # None /\ IsSuccess(a) THEN told \cup {a.id} ELSE told
    /\ Goto(s, IF ~ReleaseBody(s) /\ a.complete THEN "persist" ELSE "deliver")
    /\ UNCHANGED <<db, store, exchange, reply, started, restarts, issued,
                   inputs, transcript, promised, deleted, trouble>>
EndOfStream(s) ==
    /\ pc[s] = "body"
    /\ Goto(s, IF ~ReleaseBody(s) /\ ~ShouldSkipPersist(s) /\ cell = "ready"
                  /\ answer[s].complete
               THEN "persist" ELSE "deliver")
    /\ UNCHANGED <<db, store, exchange, reply, started, restarts, history,
                   trouble>>

\* persist_response_blocking: the last chunk waits for the upsert; an error
\* aborts the response
PersistResponse(s) ==
    LET a == answer[s] IN
    /\ pc[s] = "persist"
    /\ IF up
       THEN /\ table' = [table EXCEPT ![a.id] =
                            ParseResponseRecord(a, captured[s], state[s])]
            /\ Goto(s, "deliver") /\ UNCHANGED reply
       ELSE /\ Goto(s, "idle") /\ UNCHANGED table
            /\ reply' = [reply EXCEPT ![s] =
                    [status |-> a.status, body |-> "aborted",
                     form |-> "backend", error |-> None]]
    /\ UNCHANGED <<up, faults, store, exchange, started, restarts, history,
                   trouble>>

\* The client has the whole answer; reformat_error_body has replaced the
\* body of a backend error, and a streaming client was given a 200
Deliver(s) ==
    LET a == answer[s]
        streaming == EnrichContext(req[s], meta[s]).stream
        e == ErrorBody(ExtractBackendError(a.error, a.status), streaming) IN
    /\ pc[s] = "deliver"
    /\ Goto(s, "idle")
    /\ reply' = [reply EXCEPT ![s] =
          IF reformat[s]
          THEN [status |-> IF streaming THEN 200 ELSE a.status,
                body |-> IF @.body = "partial" THEN "mixed" ELSE "whole",
                form |-> e.form, error |-> e]
          ELSE [status |-> a.status, body |-> "whole", form |-> "backend",
                error |-> None]]
    /\ told' = IF a.id # None /\ IsSuccess(a) /\ a.content = "json"
               THEN told \cup {a.id} ELSE told
    /\ promised' = IF /\ IsResponsesCreate(req[s]) /\ a.complete
                      /\ IsSuccess(a) /\ a.content = "json"
                      /\ IsResponses(meta[s])
                      /\ req[s].body.store \in {"absent", "true"}
                      /\ req[s].body.stream # "true"
                      /\ ~trouble[s] /\ cell # "failed"
                   THEN promised \cup {a.id} ELSE promised
    /\ UNCHANGED <<db, store, exchange, started, restarts, issued, inputs,
                   transcript, deleted, trouble>>

-----------------------------------------------------------------------------
DatabaseDown ==
    /\ up /\ faults < MaxFaults
    /\ up' = FALSE /\ faults' = faults + 1
    /\ trouble' = [s \in Slots |-> TRUE]
    /\ UNCHANGED <<table, store, pc, exchange, reply, started, restarts,
                   history>>

DatabaseUp ==
    /\ ~up /\ up' = TRUE
    /\ UNCHANGED <<table, faults, store, pc, exchange, reply, started,
                   restarts, history, trouble>>

\* The process is replaced: exchanges and the lazily built store are gone
Restart ==
    /\ restarts < MaxRestarts /\ restarts' = restarts + 1
    /\ cell' = "empty" /\ registered' = FALSE
    /\ pc' = [s \in Slots |-> "idle"]
    /\ reply' = [s \in Slots |-> NoReply]
    /\ UNCHANGED <<db, exchange, started, history, trouble>>

\* Every exchange has ended and no more requests come
Finished ==
    /\ started = MaxRequests /\ \A s \in Slots : pc[s] = "idle"
    /\ UNCHANGED vars

SlotStep(s) ==
    \/ Receive(s) \/ StoreRequestBody(s) \/ Rehydrate(s) \/ OnRequest(s)
    \/ GetResponse(s) \/ HandleDelete(s) \/ Upstream(s) \/ OnResponse(s)
    \/ BodyChunk(s) \/ EndOfStream(s) \/ PersistResponse(s) \/ Deliver(s)

Next ==
    /\ \/ \E s \in Slots : SlotStep(s)
       \/ DatabaseDown \/ DatabaseUp \/ Restart \/ Finished
    /\ UNCHANGED backend

Spec == Init /\ [][Next]_vars

-----------------------------------------------------------------------------
\* persist_response_blocking: a client that asked to store its response and
\* has received the complete answer, with no database trouble on the way,
\* finds the row: the upsert is not overtaken by the answer, by a restart or
\* by another request, and only a DELETE removes it.
DurableWhenSeen ==
    \A i \in promised : table[i] # None \/ i \in deleted

\* A client that was told its DELETE succeeded, or found nothing, never sees
\* that response again: no pending upsert recreates the row.
DeletedStaysDeleted ==
    \A i \in deleted : table[i] = None

\* build_state and assemble_stored_messages: the stored history of a response
\* is the whole conversation that led to it, in order, across any number of
\* rehydrated turns, tool listings included.
HistoryFollowsChain ==
    \A i \in Ids : table[i] # None => table[i].messages = transcript[i]

\* responses_proxy: the backend is sent the whole earlier conversation without
\* the tool listings, then the new input
BackendSeesHistory ==
    \A s \in Slots :
        pc[s] \in {"on_request", "upstream"} /\ state[s] # None =>
            sent[s] = Replayed(transcript[req[s].target]) \o req[s].items

\* The two together: what is stored for a response, and what the backend is
\* sent for the next one, is the whole conversation before it, in order.
HistoryKept == HistoryFollowsChain /\ BackendSeesHistory

\* get_or_init_store with PostgreSQL: an exchange is refused for want of a
\* store, or gives up persisting a good answer, only when the database was
\* down at some time during that same exchange.
GivesUpOnlyInTrouble ==
    \A s \in Slots :
        backend = "postgres" /\ ~trouble[s] =>
            /\ ~(reply[s].status = 500 /\ reply[s].body = "local")
            /\ ~(skip[s] /\ pc[s] \in {"rehydrate", "on_request", "upstream"})

\* should_release_skipped_response_body: a backend error that is reformatted
\* reaches the client as one body, never after a piece of the original.
ErrorBodyWhole ==
    \A s \in Slots : reply[s].body # "mixed"

\* ResponseRecord.input: "Original input as JSON (preserved for the
\* input_items endpoint)".
InputPreserved ==
    \A i \in Ids : table[i] # None => table[i].input = inputs[i]

\* compute_mode and the store's predicates: a request routed as stateless
\* touches no store, before or after the backend.
StatelessNeedsNoStore ==
    \A s \in Slots :
        pc[s] # "idle" /\ routed[s].results.mode = "stateless" =>
            ~ShouldInitStore(req[s], meta[s])

\* validate_request: a background request that passes validation is one the
\* store filter will persist, so that it can be polled.
BackgroundIsStored ==
    \A s \in Slots :
        pc[s] \in {"store_body", "rehydrate", "on_request", "upstream"}
        /\ req[s].method = "POST" /\ IsResponses(meta[s]) /\ meta[s].background = "true" =>
            RequestWillPersist(req[s], meta[s])

\* The filters decide separately from one request and fit together.
DecisionsAgree == StatelessNeedsNoStore /\ BackgroundIsStored

\* Local rejections and reformatted backend errors take the form the create
\* request asked for: events when it streams, JSON when it does not.
ErrorFormFollowsRequest ==
    \A s \in Slots :
        /\ pc[s] = "idle" /\ req[s] # None
        /\ IsResponsesCreate(req[s]) /\ IsResponses(meta[s])
        /\ reply[s].form \in {"sse", "json"} /\ reply[s].status > 0
        => (reply[s].form = "sse" <=> req[s].body.stream = "true")

\* An error reaches the client as one body, in the form the request asked for.
ErrorsWellFormed == ErrorBodyWhole /\ ErrorFormFollowsRequest
=============================================================================
