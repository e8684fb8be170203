-------------------------- MODULE ConversationFilter -------------------------
(***************************************************************************)
(* The openai_conversations filter in front of its handlers: which         *)
(* requests it answers itself, the two hooks through which a POST reaches  *)
(* its handler, and the store that the first request opens for all.        *)
(*                                                                         *)
(* The filter runs behind a filter that may reject a request in its header *)
(* hook.  The proxy calls the header hooks first and then the body hooks;  *)
(* when some filter wants the body early, it calls the body hooks on the   *)
(* whole body before any header hook.  Two requests share the filter, and  *)
(* a client may go away at any time, which drops whatever its request was  *)
(* waiting for.                                                            *)
(***************************************************************************)
EXTENDS Naturals, Sequences, SequencesExt, FiniteSets

CONSTANTS
    Ids,         \* the requests
    Requests,    \* request -> the set of what it may be
    Backends,    \* "sqlite", "postgres"
    MaxOutages,  \* bound on the outages of the database
    NoState

VARIABLES
    backend,
    req,     \* request -> [method, path, preread, denied]
    at,      \* request -> where the proxy is with it
    state,   \* request -> ConversationRequestState of the filter
    store,   \* the OnceCell: "unset", "none" (failed for good), "open"
    opener,  \* the requests that are building the store, at most one
    built,   \* stores opened
    up, outages,
    trouble, \* requests during which the database was down
    handled  \* request -> times a handler ran

vars == <<backend, req, at, state, store, opener, built, up, outages, trouble, handled>>
service == <<store, opener, built>>
weather == <<backend, up, outages, trouble>>

-----------------------------------------------------------------------------
(* Routes *)

\* One trailing slash is ignored, but "/" stays itself
StripSlash(path) == IF Len(path) > 1 /\ Last(path) = "" THEN Front(path) ELSE path

\* post_route
PostRoute(path) ==
    LET s == StripSlash(path) IN
    \/ s = <<"v1", "conversations">>
    \/ Len(s) = 3 /\ SubSeq(s, 1, 2) = <<"v1", "conversations">> /\ s[3] # ""
    \/ Len(s) = 4 /\ SubSeq(s, 1, 2) = <<"v1", "conversations">> /\ s[3] # "" /\ s[4] = "items"

\* The GET and DELETE arms of on_request; a list of items is not deleted
HeaderRoute(method, path) ==
    LET s == StripSlash(path) IN
    /\ method \in {"GET", "DELETE"}
    /\ Len(s) \in 3 .. 5 /\ SubSeq(s, 1, 2) = <<"v1", "conversations">> /\ s[3] # ""
    /\ Len(s) > 3 => s[4] = "items"
    /\ Len(s) = 4 => method = "GET"
    /\ Len(s) = 5 => s[5] # ""

IsPost(r) == req[r].method = "POST" /\ PostRoute(req[r].path)
IsLocal(r) == IsPost(r) \/ HeaderRoute(req[r].method, req[r].path)

-----------------------------------------------------------------------------
(* The store *)

\* get_or_init_store: what the cell holds once building has failed
KeepFailure(b) == "none"
AfterFailure(b) == IF b = "postgres" THEN "unset" ELSE "none"

\* What a request does that needs the store
NeedsStore(r) ==
    CASE store = "open" -> "handle"
      [] store = "none" -> "unavailable"
      [] OTHER          -> "wait"

\* OnceCell: one request builds, the others wait for it
BuildAnyway(r) ==
    /\ at[r] = "wait" /\ store = "unset"
    /\ opener' = opener \cup {r} /\ at' = [at EXCEPT ![r] = "build"]
    /\ UNCHANGED <<req, state, store, built, weather, handled>>
BeginBuild(r) ==
    /\ at[r] = "wait" /\ store = "unset" /\ opener = {}
    /\ opener' = {r} /\ at' = [at EXCEPT ![r] = "build"]
    /\ UNCHANGED <<req, state, store, built, weather, handled>>

\* build_logged_store: the build of a store needs the database
BuildEnds(r) ==
    /\ at[r] = "build" /\ r \in opener
    /\ opener' = opener \ {r}
    /\ IF up THEN /\ store' = "open" /\ built' = built + 1
                  /\ at' = [at EXCEPT ![r] = "handle"]
             ELSE /\ store' = AfterFailure(backend) /\ UNCHANGED built
                  /\ at' = [at EXCEPT ![r] = "unavailable"]
    /\ UNCHANGED <<req, state, weather, handled>>

\* A waiting request sees what another one has built
Wake(r) ==
    /\ at[r] = "wait" /\ store # "unset"
    /\ at' = [at EXCEPT ![r] = NeedsStore(r)]
    /\ UNCHANGED <<req, state, service, weather, handled>>

-----------------------------------------------------------------------------
(* The proxy and the filter's hooks *)

Fresh == [ran |-> FALSE, deferred |-> FALSE]

Init ==
    /\ backend \in Backends
    /\ req = [r \in Ids |-> NoState] /\ at = [r \in Ids |-> "none"]
    /\ state = [r \in Ids |-> Fresh] /\ handled = [r \in Ids |-> 0]
    /\ store = "unset" /\ opener = {} /\ built = 0
    /\ up = TRUE /\ outages = 0 /\ trouble = {}

\* A request comes; the body may be wanted before the header hooks
Arrive(r) ==
    /\ at[r] = "none"
    /\ \E q \in Requests[r] :
        /\ req' = [req EXCEPT ![r] = q]
        /\ at' = [at EXCEPT ![r] = IF q.preread THEN "body" ELSE "headers"]
    /\ trouble' = IF up THEN trouble ELSE trouble \cup {r}
    /\ UNCHANGED <<backend, state, service, up, outages, handled>>

\* The header hook of the filter before this one
EarlierFilter(r) ==
    /\ at[r] = "headers"
    /\ at' = [at EXCEPT ![r] = IF req[r].denied THEN "denied" ELSE "on_request"]
    /\ UNCHANGED <<req, state, service, weather, handled>>

\* mark_request_filters_ran: the deferred body is taken
NothingTaken(s) == FALSE
Taken(s) == s.deferred

\* on_request
OnRequest(r) ==
    /\ at[r] = "on_request"
    /\ state' = IF IsPost(r) THEN [state EXCEPT ![r] = [ran |-> TRUE, deferred |-> FALSE]] ELSE state
    /\ at' = [at EXCEPT ![r] =
            IF ~IsLocal(r) \/ (IsPost(r) /\ ~Taken(state[r]))
            THEN IF req[r].preread THEN "forwarded" ELSE "body"
            ELSE NeedsStore(r)]
    /\ UNCHANGED <<req, service, weather, handled>>

\* request_filters_ran, asked by the body hook
AlwaysSafe(s) == TRUE
RequestFiltersRan(s) == s.ran

\* on_request_body on the last chunk; the header hooks follow a pre-read
BodyPasses(r) == IF state[r].ran \/ ~req[r].preread THEN "forwarded" ELSE "headers"
OnRequestBody(r) ==
    /\ at[r] = "body"
    /\ LET defer == IsPost(r) /\ ~RequestFiltersRan(state[r]) IN
        /\ state' = IF defer THEN [state EXCEPT ![r].deferred = TRUE] ELSE state
        /\ at' = [at EXCEPT ![r] = IF IsPost(r) /\ ~defer THEN NeedsStore(r) ELSE BodyPasses(r)]
    /\ UNCHANGED <<req, service, weather, handled>>

\* handle_post_route and the handlers of on_request: they answer, always
Handle(r) ==
    /\ at[r] = "handle"
    /\ handled' = [handled EXCEPT ![r] = @ + 1]
    /\ at' = [at EXCEPT ![r] = "answered"]
    /\ UNCHANGED <<req, state, service, weather>>

\* reject_store_unavailable, or the error require_store returns
Unavailable(r) ==
    /\ at[r] = "unavailable"
    /\ at' = [at EXCEPT ![r] = "error"]
    /\ UNCHANGED <<req, state, service, weather, handled>>

Ended == {"none", "denied", "forwarded", "answered", "error", "gone"}

\* The client goes away: its request is dropped, and a build with it
LeaveBuilding(r) ==
    /\ at[r] \notin Ended
    /\ at' = [at EXCEPT ![r] = "gone"]
    /\ UNCHANGED <<req, state, service, weather, handled>>
Disconnect(r) ==
    /\ at[r] \notin Ended
    /\ at' = [at EXCEPT ![r] = "gone"]
    /\ opener' = opener \ {r}
    /\ UNCHANGED <<req, state, store, built, weather, handled>>

Outage ==
    /\ up /\ outages < MaxOutages
    /\ up' = FALSE /\ outages' = outages + 1
    /\ trouble' = trouble \cup {r \in Ids : at[r] \notin Ended}
    /\ UNCHANGED <<backend, req, at, state, service, handled>>

Recovery ==
    /\ ~up /\ up' = TRUE
    /\ UNCHANGED <<backend, req, at, state, service, outages, trouble, handled>>

Step(r) ==
    \/ EarlierFilter(r) \/ OnRequest(r) \/ OnRequestBody(r)
    \/ BeginBuild(r) \/ BuildEnds(r) \/ Wake(r) \/ Handle(r) \/ Unavailable(r)

Next ==
    \/ \E r \in Ids : Arrive(r) \/ Disconnect(r) \/ Step(r)
    \/ Outage \/ Recovery

\* The proxy goes on with every request it has
Spec == Init /\ [][Next]_vars /\ \A r \in Ids : WF_vars(Step(r))

-----------------------------------------------------------------------------
(* Properties *)

(***************************************************************************)
(* "All matched requests are served from the local store and never         *)
(* forwarded upstream" (OpenaiConversationsFilter), whichever hook sees    *)
(* the body first, and no request is handled twice.                        *)
(***************************************************************************)
ServedLocally ==
    \A r \in Ids :
        /\ handled[r] <= 1
        /\ at[r] = "forwarded" => ~IsLocal(r)
        /\ at[r] = "answered" => IsLocal(r) /\ handled[r] = 1

(***************************************************************************)
(* The store is not touched for a request that an earlier filter of the    *)
(* chain rejects, although its body may come before that filter is asked   *)
(* (request_filters_ran, defer_body_until_request_filters).                *)
(***************************************************************************)
DeniedUntouched == \A r \in Ids : handled[r] > 0 => ~req[r].denied

(***************************************************************************)
(* With PostgreSQL a request fails for want of a store only if the         *)
(* database was down while it was there: no failure outlives the outage.   *)
(* With SQLite it may, and then no later request is served                 *)
(* (get_or_init_store, init_permanent_store).                              *)
(***************************************************************************)
FailsOnlyInTrouble ==
    backend = "postgres" => \A r \in Ids : at[r] = "error" => r \in trouble

(***************************************************************************)
(* All requests share one store: it is opened once, also when a client     *)
(* leaves in the middle of it, and a store that is open stays              *)
(* (get_or_init_store).                                                    *)
(***************************************************************************)
OneStore ==
    /\ built <= 1 /\ Cardinality(opener) <= 1
    /\ (store = "open") = (built = 1)

(***************************************************************************)
(* What a request may count on, together: it is served here and once, not  *)
(* if it was denied, from the one store, and fails only in an outage       *)
(* (OpenaiConversationsFilter).                                            *)
(***************************************************************************)
ServedSoundly == ServedLocally /\ DeniedUntouched /\ FailsOnlyInTrouble /\ OneStore

(***************************************************************************)
(* Every request is answered, forwarded or abandoned by its client: one    *)
(* that waits for a store is not stranded by the client that was building  *)
(* it (get_or_init_store).                                                 *)
(***************************************************************************)
RequestsEnd == \A r \in Ids : at[r] \notin Ended ~> at[r] \in Ended
=============================================================================
