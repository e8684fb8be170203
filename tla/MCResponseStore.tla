--------------------------- MODULE MCResponseStore ---------------------------
(* ResponseStore for TLC in three scenarios, one of which a behaviour       *)
(* follows: the constants of the configuration file over PostgreSQL         *)
(* ("chain"), SQLite with a restart ("outage"), and one exchange of every   *)
(* shape ("shapes").                                                        *)
EXTENDS ResponseStore, TLC

VARIABLE scenario

Body == [kind |-> "object", input |-> "array", prompt |-> "absent",
         previous_response_id |-> "absent", conversation |-> "absent",
         tools |-> "absent", store |-> "absent", stream |-> "absent",
         background |-> "absent", messages |-> "absent", max_tokens |-> FALSE,
         system |-> FALSE, model |-> "safe"]
NoBody == [Body EXCEPT !.kind = "empty", !.input = "absent"]

Create == [method |-> "POST", endpoint |-> "create", slashes |-> 0,
           body |-> Body, items |-> <<"user">>, target |-> None]
Follow(id) == [Create EXCEPT !.target = id, !.items = <<"next">>,
                  !.body.previous_response_id = "string",
                  !.body.input = "string"]
On(method, endpoint, id) ==
    [Create EXCEPT !.method = method, !.endpoint = endpoint, !.target = id,
                   !.body = NoBody, !.items = <<>>]

MCIds == 1..3
Lookups == {On("GET", "id", i) : i \in MCIds} \cup {On("DELETE", "id", i) : i \in MCIds}

\* Stored conversations: create, continue (stored or not), read and delete
StoringRequests ==
    {Create} \cup {Follow(i) : i \in MCIds} \cup Lookups
    \cup {[Follow(i) EXCEPT !.body.store = "false"] : i \in MCIds}

OutageRequests ==
    {Create} \cup {Follow(i) : i \in MCIds} \cup {On("DELETE", "id", i) : i \in MCIds}

CancelRequests ==
    {Create} \cup {On("POST", "cancel", i) : i \in MCIds}

ItemsOf(body) == IF body.input = "absent" THEN <<>> ELSE <<"user">>

\* Every shape of a create request's fields, and every endpoint
ShapeRequests ==
    {[Create EXCEPT !.body = b, !.items = ItemsOf(b)] :
        b \in {[Body EXCEPT !.input = i, !.previous_response_id = p,
                 !.conversation = c, !.prompt = q, !.tools = t, !.store = st,
                 !.stream = sm, !.background = bg] :
              i \in {"absent", "string"}, p \in {"null", "other"},
              c \in {"absent", "string"}, q \in {"string", "without_id", "with_id"},
              t \in {"empty", "some"}, st \in BoolField, bg \in BoolField,
              sm \in {"absent", "true", "other"}}}
    \cup {[Create EXCEPT !.body = b, !.items = ItemsOf(b)] :
        b \in {[Body EXCEPT !.input = i, !.messages = ms,
                !.max_tokens = mt, !.system = sy, !.kind = k, !.stream = sm] :
              i \in {"absent", "array"}, ms \in {"absent", "plain", "typed"},
              mt \in BOOLEAN, sy \in BOOLEAN, sm \in {"absent", "true"},
              k \in {"empty", "invalid", "non_object", "object"}}}
    \cup {[Create EXCEPT !.endpoint = e, !.slashes = n, !.body.stream = sm,
                         !.body.kind = k] :
              e \in {"input_tokens", "compact", "cancel", "other"}, n \in 0..2,
              sm \in {"absent", "true"}, k \in {"object", "empty"}}
    \cup {[Create EXCEPT !.method = m, !.endpoint = e, !.slashes = n,
                         !.body = NoBody, !.items = <<>>] :
              m \in {"GET", "DELETE"}, e \in {"create", "other"}, n \in 0..2}

GoodAnswers == {[status |-> 200, content |-> "json", complete |-> TRUE, run |-> "completed",
                 error |-> None, input |-> None]}
StoringAnswers == GoodAnswers
    \cup {[status |-> 200, content |-> "json", complete |-> TRUE, run |-> "in_progress",
           error |-> None, input |-> None]}
AllAnswers ==
    [status : {200, 404}, content : {"json", "event_stream", "text"},
     complete : BOOLEAN, run : {"completed"}, input : {None, <<"template">>},
     error : [json : {TRUE}, member : {"error", "detail"}, typed : {FALSE},
              coded : {FALSE}, texted : BOOLEAN]]
StoringOutputs == {<<"reply">>, <<"mcp_list_tools", "reply">>}
AllHeaders == {"format", "model", "stream", "mode"}
OneOutput == {<<"reply">>}

-----------------------------------------------------------------------------
Outage == INSTANCE ResponseStore WITH
    Requests <- OutageRequests, Answers <- StoringAnswers, Outputs <- OneOutput,
    MaxRestarts <- 1
Shapes == INSTANCE ResponseStore WITH
    Requests <- ShapeRequests, Answers <- AllAnswers, Outputs <- OneOutput,
    OnInvalid <- "reject", MaxRequests <- 1, MaxFaults <- 0

MCInit ==
    /\ scenario \in {"chain", "outage", "shapes"}
    /\ Init
    /\ backend = IF scenario = "outage" THEN "sqlite" ELSE "postgres"
MCNext ==
    /\ UNCHANGED scenario
    /\ \/ scenario = "chain" /\ Next
       \/ scenario = "outage" /\ Outage!Next
       \/ scenario = "shapes" /\ Shapes!Next
MCSpec == MCInit /\ [][MCNext]_<<scenario, vars>>

\* A response is created and cancelled
Cancel == INSTANCE ResponseStore WITH
    Requests <- CancelRequests, Outputs <- OneOutput, MaxRequests <- 2, MaxFaults <- 0
CancelSpec ==
    /\ scenario = "cancel" /\ Init /\ backend = "postgres"
    /\ [][UNCHANGED scenario /\ Cancel!Next]_<<scenario, vars>>

SlotSymmetry == Permutations(Slots)
=============================================================================
