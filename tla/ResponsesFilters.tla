--------------------------- MODULE ResponsesFilters ---------------------------
(***************************************************************************)
(* What the filters of the Responses pipeline decide about one request:    *)
(* the classifier, openai_responses_format, openai_responses_validate, the *)
(* predicates of openai_response_store, the path checks of rehydrate, and  *)
(* the reformatting of backend errors.  No state: the modules that extend  *)
(* this one drive requests through these decisions.                        *)
(*                                                                         *)
(* A request is [method, endpoint, slashes, body]: slashes counts trailing *)
(* slashes, which the filters strip differently.  A body is the shape of   *)
(* each field the filters read; the text of a field does not matter.       *)
(***************************************************************************)
EXTENDS Naturals, Sequences, FiniteSets

Methods == {"GET", "POST", "DELETE"}

\* /v1/responses, /{id}, /{id}/input_items, /{id}/cancel, /input_tokens,
\* /compact, and a path outside /v1/responses
Endpoints == {"create", "id", "input_items", "cancel", "input_tokens",
              "compact", "other"}

\* A JSON field read with as_bool: absent, a boolean, or another value
BoolField == {"absent", "true", "false", "other"}

BodyShape ==
    [kind : {"empty", "invalid", "non_object", "object"},
     input : {"absent", "null", "string", "array", "object"},
     prompt : {"absent", "string", "without_id", "with_id"},
     previous_response_id : {"absent", "null", "string", "other"},
     conversation : {"absent", "null", "string", "with_id"},
     tools : {"absent", "empty", "some"},
     store : BoolField, stream : BoolField, background : BoolField,
     messages : {"absent", "plain", "typed"},
     max_tokens : BOOLEAN, system : BOOLEAN,
     model : {"none", "safe", "unsafe", "long"}]

-----------------------------------------------------------------------------
(* The classifier *)

OneSegment == {"id", "input_tokens", "compact"}

\* is_responses_path: one trailing slash is stripped.  GET and DELETE take
\* any single segment for an id, "compact" and "input_tokens" included.
IsResponsesPath(r) ==
    /\ r.slashes <= 1
    /\ \/ r.method = "POST" /\ r.endpoint \in {"input_tokens", "compact", "cancel"}
       \/ r.method \in {"GET", "DELETE"} /\ r.endpoint \in OneSegment
       \/ r.method = "GET" /\ r.endpoint = "input_items"

\* is_responses_create
IsResponsesCreate(r) ==
    r.method = "POST" /\ r.endpoint = "create" /\ r.slashes <= 1

HasAnthropicSignals(b) == b.system \/ b.messages = "typed"

ClassifyFormat(b) ==
    CASE \/ b.input # "absent"
         \/ b.prompt \in {"without_id", "with_id"}
         \/ b.previous_response_id # "absent"
         \/ b.conversation # "absent"        -> "openai_responses"
      [] OTHER -> CASE b.messages = "absent" -> "unknown"
                    [] b.messages # "absent" ->
                         IF b.max_tokens /\ HasAnthropicSignals(b)
                         THEN "anthropic_messages"
                         ELSE "openai_chat_completions"

AsBool(v) == IF v \in {"true", "false"} THEN v ELSE "none"

\* empty_result: a format and no facts
EmptyResult(format) ==
    [format |-> format, has_previous_response_id |-> FALSE,
     has_conversation |-> FALSE, has_prompt_id |-> FALSE, has_tools |-> FALSE,
     store |-> "none", stream |-> "none", background |-> "none",
     model |-> "none"]

ClassifyRequestBody(b) ==
    CASE b.kind = "empty"                     -> EmptyResult("non_json")
      [] b.kind \in {"invalid", "non_object"} -> EmptyResult("invalid_json")
      [] b.kind = "object" ->
           [format |-> ClassifyFormat(b),
            has_previous_response_id |->
                b.previous_response_id \in {"string", "other"},
            has_conversation |-> b.conversation \in {"string", "with_id"},
            has_prompt_id |-> b.prompt = "with_id",
            has_tools |-> b.tools = "some",
            store |-> AsBool(b.store), stream |-> AsBool(b.stream),
            background |-> AsBool(b.background), model |-> b.model]

\* The classification of a request: by path when the path is decisive, so
\* that no fact of the body is read, otherwise by body.
Classified(r) ==
    IF IsResponsesPath(r) THEN EmptyResult("openai_responses")
    ELSE ClassifyRequestBody(r.body)

-----------------------------------------------------------------------------
(* openai_responses_format *)

\* handle_invalid_format: is the request rejected with a JSON 400?
HandleInvalidFormat(format, on_invalid) ==
    /\ on_invalid \in {"reject", "error"}
    /\ format \in {"invalid_json", "non_json", "unknown"}

ComputeModeNoPrevious(c) ==
    CASE c.format # "openai_responses" -> "none"
      [] OTHER -> IF \/ c.has_tools
                     \/ c.store # "false"
                     \/ c.background = "true"
                     \/ c.has_conversation
                     \/ c.has_prompt_id
                  THEN "stateful" ELSE "stateless"
ComputeMode(c) ==
    CASE c.format # "openai_responses" -> "none"
      [] OTHER -> IF \/ c.has_previous_response_id
                     \/ c.has_tools
                     \/ c.store # "false"         \* store defaults to true
                     \/ c.background = "true"
                     \/ c.has_conversation
                     \/ c.has_prompt_id
                  THEN "stateful" ELSE "stateless"

\* write_metadata: openai_responses_format.*, the facts every later filter
\* reads.  A model that is unsafe as a header value is left out.
WriteMetadata(c) ==
    [format |-> c.format,
     model |-> IF c.model = "unsafe" THEN "none" ELSE c.model,
     stream |-> c.stream, store |-> c.store, background |-> c.background,
     has_previous_response_id |-> c.has_previous_response_id,
     mode |-> ComputeMode(c)]

\* promote_filter_results: what branch conditions see.  A model longer than
\* MAX_PROMOTED_VALUE_LEN is in the metadata and not here.
PromoteFilterResults(c) ==
    [WriteMetadata(c) EXCEPT !.model = IF @ = "long" THEN "none" ELSE @]

\* promote_headers: format, model, stream and mode, each when its header is
\* configured and the value known
PromoteHeaders(c, headers) ==
    {h \in headers : CASE h = "format" -> TRUE
                       [] h = "model"  -> c.model = "safe"
                       [] h = "stream" -> c.stream # "none"
                       [] h = "mode"   -> ComputeMode(c) # "none"}

-----------------------------------------------------------------------------
(* openai_responses_validate, request side *)

IsResponses(meta) == meta.format = "openai_responses"

\* is_bodyless_responses_request: one trailing slash is stripped
IsBodyless(r) ==
    \/ r.method \in {"GET", "DELETE"}
    \/ r.method = "POST" /\ r.endpoint = "cancel" /\ r.slashes <= 1

\* validate_stream_background, validate_background_store
RulesWithoutStore(meta) == ~(meta.stream = "true" /\ meta.background = "true")
RulesHold(meta) ==
    /\ ~(meta.stream = "true" /\ meta.background = "true")
    /\ ~(meta.background = "true" /\ meta.store = "false")

\* parse_and_validate: the body must be JSON and the flags consistent
ParseAndValidate(r, meta) ==
    r.body.kind \in {"non_object", "object"} /\ RulesHold(meta)

\* The filter rejects with a 400
ValidateRejects(r, meta) ==
    IsResponses(meta) /\ ~IsBodyless(r) /\ ~ParseAndValidate(r, meta)

\* enrich_context: responses.stream, set only when validation ran
EnrichContextNoStream(r, meta) ==
    [stream |-> FALSE]
EnrichContext(r, meta) ==
    [stream |-> IsResponses(meta) /\ ~IsBodyless(r) /\ meta.stream = "true"]

-----------------------------------------------------------------------------
(* openai_response_store: which exchanges it stores *)

RequestWillPersist(r, meta) ==
    /\ r.method = "POST"
    /\ IsResponses(meta)
    /\ meta.store # "false"
    /\ meta.stream # "true"

\* should_skip
ShouldSkip(r, meta) == ~RequestWillPersist(r, meta)

RequestNeedsRehydrateStore(r, meta) ==
    r.method = "POST" /\ IsResponses(meta) /\ meta.has_previous_response_id

ShouldInitStore(r, meta) ==
    RequestWillPersist(r, meta) \/ RequestNeedsRehydrateStore(r, meta)

-----------------------------------------------------------------------------
(* openai_responses_rehydrate: which requests it resolves *)

\* is_responses_cancel_path: all trailing slashes are trimmed
IsCancelPath(r) == r.endpoint = "cancel"

RehydrateApplies(r, meta) ==
    r.method = "POST" /\ ~IsCancelPath(r) /\ IsResponses(meta)

\* parse_body_and_extract_id: "none", "id", or "reject"
PreviousId(r) ==
    CASE r.body.kind = "empty"                      -> "none"
      [] r.body.kind = "invalid"                    -> "reject"
      [] r.body.kind = "non_object"                 -> "none"
      [] r.body.kind = "object" ->
           CASE r.body.previous_response_id \in {"absent", "null"} -> "none"
             [] r.body.previous_response_id = "string"             -> "id"
             [] r.body.previous_response_id = "other"              -> "reject"

\* responses_error_rejection: an event for a streaming client, else JSON
ErrorForm(streaming) == IF streaming THEN "sse" ELSE "json"

-----------------------------------------------------------------------------
(* Backend errors *)

\* should_reformat_error: non-2xx and not an event stream already
ShouldReformatError(answer) ==
    answer.status >= 300 /\ answer.content # "event_stream"

\* default_error_type
DefaultErrorType(status) ==
    CASE status = 404 -> "not_found"
      [] status = 429 -> "too_many_requests"
      [] status \in 400..499 /\ status \notin {404, 429} -> "invalid_request"
      [] OTHER -> "server_error"

\* extract_backend_error: an `error` member of any type wins over `message`,
\* which wins over `detail`; a body with none of them, or one that is not
\* JSON, leaves only the status.  e = [json, member, typed, coded, texted] is
\* the shape of the body: the first member found and what it holds.
ExtractBackendError(e, status) ==
    CASE e.json /\ e.member = "error" ->
           [type |-> IF e.typed THEN "backend" ELSE DefaultErrorType(status),
            code |-> IF e.coded THEN "backend" ELSE "status",
            message |-> IF e.texted THEN "backend" ELSE "unknown error"]
      [] e.json /\ e.member \in {"message", "detail"} /\ e.texted ->
           [type |-> DefaultErrorType(status), code |-> "status",
            message |-> "backend"]
      [] OTHER ->
           [type |-> DefaultErrorType(status), code |-> "status",
            message |-> "upstream error"]

\* build_json_error_body, build_sse_error_body: the events a streaming
\* client receives, by type, in sequence_number order
ErrorBody(error, streaming) ==
    [form |-> ErrorForm(streaming),
     events |-> IF streaming
                THEN <<"response.created", "response.in_progress", "error">>
                ELSE <<>>,
     error |-> error]
=============================================================================
