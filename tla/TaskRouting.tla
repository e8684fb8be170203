---------------------------- MODULE TaskRouting ----------------------------
(***************************************************************************)
(* A2A task-ownership routing: the a2a filter's hooks on requests in       *)
(* flight, and the LocalTaskRouteStore they share.                         *)
(*                                                                         *)
(* A store operation takes the lock of the map once or twice and reads the *)
(* clock outside or inside it; one action is one critical section, or the  *)
(* code between two of them.                                               *)
(***************************************************************************)
EXTENDS Integers, Sequences, FiniteSets

CONSTANTS
    Flows,              \* requests that may be in flight at the same time
    TaskIds,            \* task ids that pass validate_id
    Clusters,
    Ttl,                \* task_routing.ttl_seconds
    TerminalTtl,        \* task_routing.terminal_ttl_seconds
    MaxTaskRoutes,      \* MAX_TASK_ROUTES
    EvictionInterval,   \* EVICTION_INTERVAL
    MaxBody,            \* task_routing.max_response_body_bytes
    MaxDoc,             \* bound: bytes of a JSON response
    MaxEvents,          \* bound: task events in one chunk of a stream
    MaxRequests,        \* bound: requests in one behaviour
    MaxNow,             \* bound: value of the clock
    None

Methods == {"SendMessage", "SendStreamingMessage", "SubscribeToTask", "GetTask"}

\* An extracted route: ExtractedTaskRoute
Events == [task : TaskIds, terminal : BOOLEAN]

\* A JSON response: the document ends after `json` bytes, white space may
\* follow up to `len`; extract_task_route finds an event in it or nothing.
Docs == {d \in [json : 1..MaxDoc, len : 1..MaxDoc, event : Events \cup {None}] :
            d.json <= d.len}

Route == [cluster : Clusters, expires_at : Nat]

ASSUME RoutingAssumption ==
    /\ Ttl \in Nat \ {0}            \* validate_task_routing
    /\ TerminalTtl \in Nat
    /\ MaxTaskRoutes \in Nat
    /\ EvictionInterval \in Nat \ {0}
    /\ MaxBody \in Nat \ {0}
    /\ MaxDoc \in Nat /\ MaxEvents \in Nat /\ MaxRequests \in Nat /\ MaxNow \in Nat
    /\ IsFiniteSet(TaskIds)
    /\ "miss" \notin Clusters

ASSUME NoneAssumption ==
    /\ None \notin Clusters /\ None \notin TaskIds /\ None # "miss"
    /\ None \notin Route /\ None \notin Docs /\ None \notin Events

VARIABLES
    tasks,          \* the map: TaskIds -> Route or None
    last_eviction,
    now,            \* Instant::now(), in ticks
    started,        \* requests received so far
    pc,             \* where each flow stands
    method,         \* a2a.method of each flow
    task,           \* task id of each flow's request, or None
    decision,       \* the lookup's result: a cluster, "miss" or None
    capture,        \* which a2a.response.*capture_enabled key is set
    cluster,        \* a2a.response.cluster
    doc,            \* the JSON response being delivered
    got,            \* bytes of it delivered so far
    buffered,       \* a2a.response.buffer_bytes
    pending,        \* events of the current chunk still to be stored
    expires,        \* expires_at computed by a put that awaits the lock
    writes          \* history: store operations made for a JSON response

store == <<tasks, last_eviction>>
response == <<capture, cluster, doc, got, buffered, writes>>
vars == <<tasks, last_eviction, now, started, pc, method, task, decision,
          capture, cluster, doc, got, buffered, pending, expires, writes>>

Steps == {"idle", "lookup", "recheck", "forward", "body", "put", "done"}

Stored == {t \in TaskIds : tasks[t] # None}

\* Instant::now() < r.expires_at
LiveToTheEnd(r) == r # None /\ now <= r.expires_at
Live(r) == r # None /\ now < r.expires_at

-----------------------------------------------------------------------------
Init ==
    /\ tasks = [t \in TaskIds |-> None]
    /\ last_eviction = 0
    /\ now = 0
    /\ started = 0
    /\ pc = [f \in Flows |-> "idle"]
    /\ method = [f \in Flows |-> "GetTask"]
    /\ task = [f \in Flows |-> None]
    /\ decision = [f \in Flows |-> None]
    /\ capture = [f \in Flows |-> "off"]
    /\ cluster = [f \in Flows |-> None]
    /\ doc = [f \in Flows |-> None]
    /\ got = [f \in Flows |-> 0]
    /\ buffered = [f \in Flows |-> 0]
    /\ pending = [f \in Flows |-> <<>>]
    /\ expires = [f \in Flows |-> 0]
    /\ writes = [f \in Flows |-> 0]

-----------------------------------------------------------------------------
(* The request                                                             *)

\* is_task_routable; GetTask stands for all of them but SubscribeToTask
Routable(m) == m \in {"GetTask", "SubscribeToTask"}

\* on_request_body up to the lookup; only task methods carry a task id
OnRequestBody(f) ==
    \E m \in Methods, t \in TaskIds \cup {None} :
        /\ pc[f] = "idle"
        /\ started < MaxRequests
        /\ t # None => Routable(m)
        /\ started' = started + 1
        /\ method' = [method EXCEPT ![f] = m]
        /\ task' = [task EXCEPT ![f] = t]
        /\ decision' = [decision EXCEPT ![f] = None]
        /\ pc' = [pc EXCEPT ![f] = IF t # None THEN "lookup" ELSE "forward"]
        /\ UNCHANGED <<store, now, response, pending, expires>>

\* get_by_task_id under the read lock
LookupRead(f) ==
    LET r == tasks[task[f]] IN
    /\ pc[f] = "lookup"
    /\ \/ /\ Live(r)
          /\ decision' = [decision EXCEPT ![f] = r.cluster]
          /\ pc' = [pc EXCEPT ![f] = "forward"]
       \/ /\ r = None
          /\ decision' = [decision EXCEPT ![f] = "miss"]
          /\ pc' = [pc EXCEPT ![f] = "forward"]
       \/ /\ r # None /\ ~Live(r)
          /\ pc' = [pc EXCEPT ![f] = "recheck"]
          /\ UNCHANGED decision
    /\ UNCHANGED <<store, now, started, method, task, response, pending, expires>>

\* The map after an expired entry was looked at again under the write lock
RemovedUnchecked(t) == [tasks EXCEPT ![t] = None]
RemovedIfExpired(t) == IF Live(tasks[t]) THEN tasks ELSE [tasks EXCEPT ![t] = None]

LookupRecheck(f) ==
    /\ pc[f] = "recheck"
    /\ tasks' = RemovedIfExpired(task[f])
    /\ decision' = [decision EXCEPT ![f] = "miss"]
    /\ pc' = [pc EXCEPT ![f] = "forward"]
    /\ UNCHANGED <<last_eviction, now, started, method, task, response, pending, expires>>

-----------------------------------------------------------------------------
(* The response                                                            *)

\* on_response: which capture the method, status and content type enable
CaptureOf(m, success, sse) ==
    IF ~success THEN "off"
    ELSE IF m \in {"SendStreamingMessage", "SubscribeToTask"}
         THEN IF sse THEN "sse" ELSE "off"
         ELSE IF m = "SendMessage" /\ ~sse THEN "buffer" ELSE "off"

\* The router sends a hit to the route's cluster, anything else to any one.
OnResponse(f) ==
    \E c \in Clusters, success \in BOOLEAN, sse \in BOOLEAN, d \in Docs :
        LET kind == CaptureOf(method[f], success, sse) IN
        /\ pc[f] = "forward"
        /\ decision[f] \in Clusters => c = decision[f]
        /\ capture' = [capture EXCEPT ![f] = kind]
        /\ cluster' = [cluster EXCEPT ![f] = IF kind = "off" THEN None ELSE c]
        /\ doc' = [doc EXCEPT ![f] = IF kind = "buffer" THEN d ELSE None]
        /\ pc' = [pc EXCEPT ![f] = "body"]
        /\ UNCHANGED <<store, now, started, method, task, decision, got, buffered,
                       pending, expires, writes>>

\* accumulate_response_hex: the chunk would push the buffer past the limit
OverLimitOrAtIt(f, n) == buffered[f] + n >= MaxBody
OverLimit(f, n) == buffered[f] + n > MaxBody

\* The capture key after a chunk from which the document could be parsed, and
\* the cluster its route is stored with: the keys are cleared after the store
Cleared(f) == "off"
KeptForStore(f) == cluster

\* on_response_body of a buffered capture: the parse is attempted after every
\* chunk, since a separate end-of-stream call may never come.
BufferChunk(f, n) ==
    LET parses == buffered[f] + n >= doc[f].json IN
    /\ pc[f] = "body" /\ capture[f] = "buffer" /\ pending[f] = <<>>
    /\ n \in 1..(doc[f].len - got[f])
    /\ got' = [got EXCEPT ![f] = got[f] + n]
    /\ \/ /\ OverLimit(f, n)
          /\ capture' = [capture EXCEPT ![f] = "off"]
          /\ cluster' = [cluster EXCEPT ![f] = None]
          /\ buffered' = [buffered EXCEPT ![f] = 0]
          /\ UNCHANGED pending
       \/ /\ ~OverLimit(f, n) /\ parses
          /\ capture' = [capture EXCEPT ![f] = Cleared(f)]
          /\ buffered' = [buffered EXCEPT ![f] = buffered[f] + n]
          /\ pending' = [pending EXCEPT ![f] =
                IF doc[f].event = None THEN <<>> ELSE <<doc[f].event>>]
          /\ cluster' = KeptForStore(f)
       \/ /\ ~OverLimit(f, n) /\ ~parses
          /\ buffered' = [buffered EXCEPT ![f] = buffered[f] + n]
          /\ UNCHANGED <<capture, cluster, pending>>
    /\ UNCHANGED <<store, now, started, pc, method, task, decision, doc, expires,
                   writes>>

\* A chunk after the capture was cleared
PlainChunk(f) ==
    /\ pc[f] = "body" /\ capture[f] = "off" /\ pending[f] = <<>>
    /\ doc[f] # None /\ got[f] < doc[f].len
    /\ got' = [got EXCEPT ![f] = doc[f].len]
    /\ UNCHANGED <<store, now, started, pc, method, task, decision, capture, cluster,
                   doc, buffered, pending, expires, writes>>

\* on_response_body of a stream: the scanner yields the events completed in
\* this chunk; they are stored before an overflow turns the capture off.
SseChunk(f) ==
    \E n \in 0..MaxEvents : \E events \in [1..n -> Events] : \E overflowed \in BOOLEAN :
        /\ pc[f] = "body" /\ capture[f] = "sse" /\ pending[f] = <<>>
        /\ pending' = [pending EXCEPT ![f] = events]
        /\ capture' = [capture EXCEPT ![f] = IF overflowed THEN "off" ELSE "sse"]
        /\ UNCHANGED <<store, now, started, pc, method, task, decision, cluster,
                       doc, got, buffered, expires, writes>>

\* The body ends, complete or cut short, and the request is over.
EndOfBody(f) ==
    /\ pc[f] = "body" /\ pending[f] = <<>>
    /\ pc' = [pc EXCEPT ![f] = "done"]
    /\ capture' = [capture EXCEPT ![f] = "off"]
    /\ cluster' = [cluster EXCEPT ![f] = None]
    /\ UNCHANGED <<store, now, started, method, task, decision, doc, got, buffered,
                   pending, expires, writes>>

\* The request's context is dropped; the slot is free for another request.
Finish(f) ==
    /\ pc[f] = "done"
    /\ pc' = [pc EXCEPT ![f] = "idle"]
    /\ task' = [task EXCEPT ![f] = None]
    /\ doc' = [doc EXCEPT ![f] = None]
    /\ got' = [got EXCEPT ![f] = 0]
    /\ buffered' = [buffered EXCEPT ![f] = 0]
    /\ writes' = [writes EXCEPT ![f] = 0]
    /\ UNCHANGED <<store, now, started, method, decision, capture, cluster, pending,
                   expires>>

-----------------------------------------------------------------------------
(* store_task_route                                                        *)

Counted(f) == [writes EXCEPT ![f] = IF doc[f] = None THEN 0 ELSE writes[f] + 1]

\* A terminal task with terminal_ttl_seconds = 0: remove under the write lock
Remove(f) ==
    LET e == Head(pending[f]) IN
    /\ pc[f] = "body" /\ pending[f] # <<>>
    /\ e.terminal /\ TerminalTtl = 0
    /\ tasks' = [tasks EXCEPT ![e.task] = None]
    /\ pending' = [pending EXCEPT ![f] = Tail(pending[f])]
    /\ writes' = Counted(f)
    /\ UNCHANGED <<last_eviction, now, started, pc, method, task, decision,
                   capture, cluster, doc, got, buffered, expires>>

\* route_ttl
RouteTtl(e) == IF e.terminal THEN TerminalTtl ELSE Ttl

\* put before it takes the lock: the expiry counts from here
PutBegin(f) ==
    LET e == Head(pending[f]) IN
    /\ pc[f] = "body" /\ pending[f] # <<>>
    /\ ~(e.terminal /\ TerminalTtl = 0)
    /\ expires' = [expires EXCEPT ![f] = now + RouteTtl(e)]
    /\ pc' = [pc EXCEPT ![f] = "put"]
    /\ UNCHANGED <<store, now, started, method, task, decision, response, pending>>

\* maybe_evict; its try_lock succeeds, as every caller holds the map's lock
SweepDue == now - last_eviction >= EvictionInterval
NeverSwept == tasks
Swept == IF SweepDue THEN [t \in TaskIds |-> IF Live(tasks[t]) THEN tasks[t] ELSE None]
         ELSE tasks

\* The map holds room for the key, or the key itself
RoomOrTooMuch(t) == TRUE
RoomForNew(t) == Cardinality({u \in TaskIds : Swept[u] # None}) < MaxTaskRoutes
Room(t) == Swept[t] # None \/ Cardinality({u \in TaskIds : Swept[u] # None}) < MaxTaskRoutes

\* put under the write lock
PutLocked(f) ==
    LET t == Head(pending[f]).task IN
    /\ pc[f] = "put"
    /\ last_eviction' = IF SweepDue THEN now ELSE last_eviction
    /\ \/ /\ Room(t)
          /\ tasks' = [Swept EXCEPT ![t] =
                [cluster |-> cluster[f], expires_at |-> expires[f]]]
       \/ /\ ~Room(t)
          /\ tasks' = Swept
    /\ pending' = [pending EXCEPT ![f] = Tail(pending[f])]
    /\ pc' = [pc EXCEPT ![f] = "body"]
    /\ expires' = [expires EXCEPT ![f] = 0]
    /\ writes' = Counted(f)
    /\ UNCHANGED <<now, started, method, task, decision, capture, cluster, doc, got,
                   buffered>>

-----------------------------------------------------------------------------
\* Time passes, but no thread is held up for a whole TTL between reading the
\* clock in put and taking the lock.
Tick ==
    /\ now < MaxNow
    /\ \A f \in Flows : pc[f] = "put" => now + 1 < expires[f]
    /\ now' = now + 1
    /\ UNCHANGED <<store, started, pc, method, task, decision, response, pending, expires>>

\* The behaviour ends when the bounds on requests and time are used up.
Quiesced ==
    /\ started = MaxRequests /\ now = MaxNow
    /\ \A f \in Flows : pc[f] = "idle"
    /\ UNCHANGED vars

FlowStep(f) ==
    \/ OnRequestBody(f) \/ LookupRead(f) \/ LookupRecheck(f) \/ OnResponse(f)
    \/ (\E n \in 1..MaxDoc : BufferChunk(f, n))
    \/ PlainChunk(f) \/ SseChunk(f) \/ EndOfBody(f) \/ Finish(f)
    \/ Remove(f) \/ PutBegin(f) \/ PutLocked(f)

Next == (\E f \in Flows : FlowStep(f)) \/ Tick \/ Quiesced

Spec == Init /\ [][Next]_vars

-----------------------------------------------------------------------------
TypeOK ==
    /\ tasks \in [TaskIds -> Route \cup {None}]
    /\ last_eviction \in Nat /\ now \in Nat /\ last_eviction <= now
    /\ started \in Nat
    /\ pc \in [Flows -> Steps]
    /\ method \in [Flows -> Methods]
    /\ task \in [Flows -> TaskIds \cup {None}]
    /\ decision \in [Flows -> Clusters \cup {"miss", None}]
    /\ capture \in [Flows -> {"off", "buffer", "sse"}]
    /\ cluster \in [Flows -> Clusters \cup {None}]
    /\ doc \in [Flows -> Docs \cup {None}]
    /\ got \in [Flows -> Nat]
    /\ buffered \in [Flows -> Nat]
    /\ pending \in [Flows -> Seq(Events)]
    /\ expires \in [Flows -> Nat]
    /\ writes \in [Flows -> Nat]

\* The map never holds more than MAX_TASK_ROUTES entries, whichever requests
\* insert, refresh and sweep at the same time.
StoreBounded == Cardinality(Stored) <= MaxTaskRoutes

\* An entry that has not expired changes or disappears only by a put or a
\* remove for its own task: neither a sweep nor a lookup that found an earlier
\* entry expired takes a refreshed route away.
LiveRoutesKept ==
    [][\A t \in TaskIds :
        Live(tasks[t]) /\ tasks'[t] # tasks[t] =>
            \E f \in Flows : pending[f] # <<>> /\ Head(pending[f]).task = t
                             /\ pc[f] \in {"put", "body"}]_tasks

\* put: "Periodically sweeps expired entries (at most once per
\* EVICTION_INTERVAL) to bound memory growth": no entry is left in the map by
\* an insertion that comes an interval or more after its expiry.
SweepKeepsUp ==
    [][(\E f \in Flows : pc[f] = "put" /\ pc'[f] # "put") =>
        \A t \in TaskIds :
            tasks'[t] # None => now < tasks'[t].expires_at + EvictionInterval]_vars

\* A JSON response that stays within max_response_body_bytes is captured
\* exactly once however it is cut into chunks, and one whose document does not
\* fit is not captured at all.
CapturedOnce ==
    \A f \in Flows :
        pc[f] = "done" /\ doc[f] # None =>
            /\ writes[f] <= 1
            /\ got[f] = doc[f].len /\ doc[f].len <= MaxBody =>
                  (writes[f] = 1) = (doc[f].event # None)
            /\ doc[f].json > MaxBody => writes[f] = 0

\* The map and the hooks implement the table of TaskRoutes.  Invisible to it are
\* the expired entries still in the map, the second half of a lookup that met
\* one, sweeps, and how a response comes in chunks.
Promise == INSTANCE TaskRoutes WITH
    routes <- [t \in TaskIds |-> IF Live(tasks[t]) THEN tasks[t] ELSE None],
    wanted <- [f \in Flows |-> IF pc[f] = "lookup" THEN task[f] ELSE None],
    answer <- [f \in Flows |-> IF pc[f] = "recheck" THEN "miss" ELSE decision[f]],
    source <- cluster,
    news <- pending,
    until <- expires

KeepsPromise == Promise!AbsSpec
=============================================================================
