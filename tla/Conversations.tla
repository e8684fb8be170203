--------------------------- MODULE Conversations ---------------------------
(***************************************************************************)
(* The /v1/conversations handlers over the conversation and item tables.   *)
(*                                                                         *)
(* Every request runs in a slot.  A handler is a chain of awaited store    *)
(* calls; nothing locks or wraps the chain in a transaction, so one action *)
(* is one store call together with the local code up to the next await,    *)
(* and the calls of concurrent requests interleave freely.                 *)
(*                                                                         *)
(* A member of Convs stands for a (tenant_id, conversation_id) pair: every *)
(* statement of the store selects on both columns.                         *)
(***************************************************************************)
EXTENDS Integers, Sequences, FiniteSets

CONSTANTS
    Slots,          \* requests that may be in flight at the same time
    Convs,          \* conversation keys
    ItemIds,        \* item ids, ordered as SQL orders the item_id column
    Data,           \* what an item carries besides its id
    Metas,          \* conversation metadata values
    Payloads,       \* the "items" arrays clients send
    PageLimit,      \* MAX_PAGE_LIMIT
    MaxRequests,    \* bound: requests started in one behaviour
    MaxNow,         \* bound: value of the clock
    Faults,         \* TRUE: store calls may fail and the proxy may restart
    None            \* an absent row, an absent cursor, no response yet

Messages == ItemIds \X Data
EmptyMeta == "{}"

ConvRow == [created_at : Nat, metadata : Metas, messages : Seq(Messages)]
ItemRow == [position : Nat, data : Data]

ASSUME ConstantsAssumption ==
    /\ ItemIds \subseteq Nat
    /\ EmptyMeta \in Metas
    /\ Payloads \subseteq Seq(Messages)
    /\ PageLimit \in Nat \ {0}
    /\ MaxRequests \in Nat
    /\ MaxNow \in Nat
    /\ Faults \in BOOLEAN

VARIABLES
    convs,      \* conversation table: Convs -> row or None
    items,      \* item table: Convs -> ItemIds -> row or None
    now,        \* ctx.time_source, in seconds
    started,    \* number of requests received so far
    pc,         \* next store call of each slot's handler, "idle" when none
    input,      \* the request each slot handles
    existing,   \* the ConversationRecord a handler holds
    start,      \* start_position of a create-items handler
    acc,        \* messages collected so far by a message sync
    cursor,     \* [id, pos]: the `after` cursor of a message sync
    status,     \* status of the last response of each slot
    announced,  \* conversations whose id a client has been told
    birth,      \* history: created_at given to a conversation id
    seen,       \* history: items present since a slot's reference point
    older       \* history: items stored before an item's request began

tables  == <<convs, items>>
handler == <<input, existing, start, acc, cursor>>
vars == <<convs, items, now, started, pc, input, existing, start, acc,
          cursor, status, announced, birth, seen, older>>

-----------------------------------------------------------------------------
Ops == {"create_conversation", "update_conversation", "delete_conversation",
        "create_items", "delete_item"}

\* metadata of an update body: a value, JSON null, or no such field
MetaFields == Metas \cup {"null", "absent"}

\* How far a create-items body gets: accepted, rejected by parse_items_field
\* or rejected by build_item_records.
Bodies == {"ok", "bad_items_field", "bad_item"}

Requests ==
    [op : Ops, conv : Convs, meta : MetaFields, items : Seq(Messages),
     body : Bodies, item : ItemIds \cup {None}]

ASSUME NoneAssumption ==
    /\ None \notin ConvRow
    /\ None \notin ItemRow
    /\ None \notin ItemIds
    /\ None \notin Nat
    /\ None \notin Metas
    /\ None \notin Requests

NoCursor == [id |-> None, pos |-> 0]

Steps == {"idle", "get_conversation", "upsert_conversation",
          "delete_conversation", "max_item_position", "existing_item_ids",
          "create_conversation_items", "delete_conversation_item",
          "item_position", "list_items", "update_messages", "get_result"}

Ids(its) == {its[k][1] : k \in DOMAIN its}

\* duplicate_item_id: two entries of one request carry the same id
Duplicate(its) == \E j, k \in DOMAIN its : j # k /\ its[j][1] = its[k][1]

Present(c) == {i \in ItemIds : items[c][i] # None}

\* ORDER BY position, item_id
Precedes(c, i, j) ==
    \/ items[c][i].position < items[c][j].position
    \/ items[c][i].position = items[c][j].position /\ i < j

\* The rows past a cursor: position > p OR (position = p AND item_id > i)
AfterPositionOnly(c, cur) ==
    {i \in Present(c) : items[c][i].position > cur.pos}
After(c, cur) ==
    {i \in Present(c) : \/ items[c][i].position > cur.pos
                        \/ items[c][i].position = cur.pos /\ i > cur.id}

Selected(c, cur) == IF cur.id = None THEN Present(c) ELSE After(c, cur)

\* SELECT ... ORDER BY position ASC, item_id ASC LIMIT PageLimit.  The set has
\* one element: the ascending enumeration of the first PageLimit rows.
Pages(c, cur) ==
    LET S == Selected(c, cur) IN
    {page \in UNION {[1..n -> S] : n \in 0..PageLimit} :
        /\ \A j, k \in DOMAIN page : j < k => Precedes(c, page[j], page[k])
        /\ \A i \in S : \/ \E k \in DOMAIN page : page[k] = i
                        \/ /\ Len(page) = PageLimit
                           /\ \A k \in DOMAIN page : Precedes(c, page[k], i)}

\* COALESCE(MAX(position), 0): an upper bound that a row attains
MaxPositionsByCount(c) == {Cardinality(Present(c))}
MaxPositions(c) ==
    {p \in {0} \cup {items[c][i].position : i \in Present(c)} :
        \A i \in Present(c) : items[c][i].position <= p}

-----------------------------------------------------------------------------
Init ==
    /\ convs = [c \in Convs |-> None]
    /\ items = [c \in Convs |-> [i \in ItemIds |-> None]]
    /\ now = 0
    /\ started = 0
    /\ pc = [s \in Slots |-> "idle"]
    /\ input = [s \in Slots |-> None]
    /\ existing = [s \in Slots |-> None]
    /\ start = [s \in Slots |-> 0]
    /\ acc = [s \in Slots |-> <<>>]
    /\ cursor = [s \in Slots |-> NoCursor]
    /\ status = [s \in Slots |-> 0]
    /\ announced = {}
    /\ birth = [c \in Convs |-> None]
    /\ seen = [s \in Slots |-> {}]
    /\ older = [c \in Convs |-> [i \in ItemIds |-> {}]]
-----------------------------------------------------------------------------
\* The handler of slot s returns a response with the given status.
Respond(s, code) ==
    /\ pc' = [pc EXCEPT ![s] = "idle"]
    /\ status' = [status EXCEPT ![s] = code]
    /\ input' = [input EXCEPT ![s] = None]
    /\ existing' = [existing EXCEPT ![s] = None]
    /\ start' = [start EXCEPT ![s] = 0]
    /\ acc' = [acc EXCEPT ![s] = <<>>]
    /\ cursor' = [cursor EXCEPT ![s] = NoCursor]
    /\ seen' = [seen EXCEPT ![s] = {}]

\* The handler of slot s keeps its locals and awaits store call step next.
Continue(s, next) ==
    /\ pc' = [pc EXCEPT ![s] = next]
    /\ UNCHANGED <<status, seen>>

Unwritten == UNCHANGED <<tables, older>>

\* A request arrives: the local code of its handler up to the first await.
Accept(s, req, step, record) ==
    /\ pc[s] = "idle"
    /\ started < MaxRequests
    /\ started' = started + 1
    /\ pc' = [pc EXCEPT ![s] = step]
    /\ input' = [input EXCEPT ![s] = req]
    /\ existing' = [existing EXCEPT ![s] = record]
    /\ status' = [status EXCEPT ![s] = 0]
    /\ seen' = [seen EXCEPT ![s] = Present(req.conv)]
    /\ UNCHANGED <<tables, now, start, acc, cursor, announced, older>>

Request(op, c, m, its, body, i) ==
    [op |-> op, conv |-> c, meta |-> m, items |-> its, body |-> body,
     item |-> i]

\* Conversation ids are unguessable: a client names one only after a response
\* has told it.

\* POST /v1/conversations: the id generator yields an id never used before,
\* items get positions from 1 and the message cache is built from them.
CreateConversation(s) ==
    \E c \in Convs, m \in Metas, its \in Payloads :
        /\ birth[c] = None
        /\ ~Duplicate(its)
        /\ birth' = [birth EXCEPT ![c] = now]
        /\ Accept(s, Request("create_conversation", c, m, its, "ok", None),
                  "upsert_conversation",
                  [created_at |-> now, metadata |-> m, messages |-> its])

\* POST /v1/conversations/{id}
UpdateConversation(s) ==
    \E c \in announced, m \in MetaFields :
        /\ Accept(s, Request("update_conversation", c, m, <<>>, "ok", None),
                  "get_conversation", None)
        /\ UNCHANGED birth

\* DELETE /v1/conversations/{id}
DeleteConversation(s) ==
    \E c \in announced :
        /\ Accept(s, Request("delete_conversation", c, "absent", <<>>, "ok", None),
                  "delete_conversation", None)
        /\ UNCHANGED birth

\* POST /v1/conversations/{id}/items
CreateItems(s) ==
    \E c \in announced, its \in Payloads, body \in Bodies :
        /\ Accept(s, Request("create_items", c, "absent", its, body, None),
                  "get_conversation", None)
        /\ UNCHANGED birth

\* DELETE /v1/conversations/{id}/items/{item_id}
DeleteItem(s) ==
    \E c \in announced, i \in ItemIds :
        /\ Accept(s, Request("delete_item", c, "absent", <<>>, "ok", i),
                  "get_conversation", None)
        /\ UNCHANGED birth

\* A request whose body, metadata, path segment or (on create) item array is
\* refused before the first store call.
RejectInvalid(s) ==
    /\ pc[s] = "idle"
    /\ started < MaxRequests
    /\ started' = started + 1
    /\ Respond(s, 400)
    /\ UNCHANGED <<tables, now, announced, birth, older>>

-----------------------------------------------------------------------------
\* store.get_conversation of update, create-items and delete-item
GetConversation(s) ==
    LET req == input[s] IN
    /\ pc[s] = "get_conversation"
    /\ \/ /\ convs[req.conv] = None
          /\ Respond(s, 404)
       \/ /\ convs[req.conv] # None
          /\ req.op = "create_items" /\ req.body = "bad_items_field"
          /\ Respond(s, 400)
       \/ /\ convs[req.conv] # None
          /\ ~(req.op = "create_items" /\ req.body = "bad_items_field")
          /\ existing' = [existing EXCEPT ![s] = convs[req.conv]]
          /\ Continue(s, CASE req.op = "update_conversation" -> "upsert_conversation"
                           [] req.op = "create_items" -> "max_item_position"
                           [] OTHER -> "delete_conversation_item")
          /\ UNCHANGED <<input, start, acc, cursor>>
    /\ Unwritten
    /\ UNCHANGED <<now, started, announced, birth>>

\* The metadata of the record an update or a create writes
NewMetadata(s) ==
    CASE input[s].meta = "absent" -> existing[s].metadata
      [] input[s].meta = "null" -> EmptyMeta
      [] OTHER -> input[s].meta

\* INSERT ... ON CONFLICT DO UPDATE SET messages, metadata
UpsertedRowRestamped(s) ==
    LET old == convs[input[s].conv]
        record == IF input[s].op = "update_conversation"
                  THEN [existing[s] EXCEPT !.created_at = now] ELSE existing[s] IN
    [created_at |-> IF old = None THEN record.created_at ELSE old.created_at,
     metadata |-> NewMetadata(s),
     messages |-> record.messages]
UpsertedRow(s) ==
    LET old == convs[input[s].conv] IN
    [created_at |-> IF old = None THEN existing[s].created_at ELSE old.created_at,
     metadata |-> NewMetadata(s),
     messages |-> existing[s].messages]

\* store.upsert_conversation of create and update
UpsertConversation(s) ==
    LET req == input[s] IN
    /\ pc[s] = "upsert_conversation"
    /\ convs' = [convs EXCEPT ![req.conv] = UpsertedRow(s)]
    /\ \/ /\ req.op = "create_conversation" /\ req.items # <<>>
          /\ start' = [start EXCEPT ![s] = 1]
          /\ Continue(s, "create_conversation_items")
          /\ UNCHANGED <<input, existing, acc, cursor>>
          /\ UNCHANGED announced
       \/ /\ req.op = "create_conversation" /\ req.items = <<>>
          /\ Respond(s, 200)
          /\ announced' = announced \cup {req.conv}
       \/ /\ req.op = "update_conversation"
          /\ Respond(s, 200)
          /\ UNCHANGED announced
    /\ UNCHANGED <<items, now, started, birth, older>>

\* store.delete_conversation: the row only, the items stay
DeleteConversationRow(s) ==
    LET c == input[s].conv IN
    /\ pc[s] = "delete_conversation"
    /\ convs' = [convs EXCEPT ![c] = None]
    /\ Respond(s, IF convs[c] # None THEN 200 ELSE 404)
    /\ UNCHANGED <<items, now, started, announced, birth, older>>

\* store.max_item_position, then build_item_records and duplicate_item_id
MaxItemPosition(s) ==
    LET req == input[s] IN
    /\ pc[s] = "max_item_position"
    /\ \/ /\ req.body = "bad_item" \/ Duplicate(req.items)
          /\ Respond(s, 400)
       \/ /\ req.body # "bad_item" /\ ~Duplicate(req.items)
          /\ \E p \in MaxPositions(req.conv) :
                start' = [start EXCEPT ![s] = p + 1]
          /\ Continue(s, "existing_item_ids")
          /\ UNCHANGED <<input, existing, acc, cursor>>
    /\ Unwritten
    /\ UNCHANGED <<now, started, announced, birth>>

\* store.get_existing_conversation_item_ids
ExistingItemIds(s) ==
    LET req == input[s]
        taken == Ids(req.items) \cap Present(req.conv) # {} IN
    /\ pc[s] = "existing_item_ids"
    /\ \/ /\ taken
          /\ Respond(s, 400)
       \/ /\ ~taken
          /\ Continue(s, "create_conversation_items")
          /\ UNCHANGED handler
    /\ Unwritten
    /\ UNCHANGED <<now, started, announced, birth>>

\* Position and data of each entry of a create request: build_item_records
\* numbers the entries from start_position.
NewRow(s, i) ==
    LET k == CHOOSE k \in DOMAIN input[s].items : input[s].items[k][1] = i
    IN  [position |-> start[s] + k - 1, data |-> input[s].items[k][2]]

\* Items the new row i sorts after: those present since the request began,
\* and the entries before it in its own batch.
OlderThanNew(s, i) ==
    seen[s] \cup {input[s].items[j][1] : j \in
        {j \in DOMAIN input[s].items :
            \E k \in DOMAIN input[s].items : j < k /\ input[s].items[k][1] = i}}

\* An id of the batch is in the table: PRIMARY KEY (item_id, tenant_id,
\* conversation_id)
NeverConflicts(s) == FALSE
KeyConflict(s) == Ids(input[s].items) \cap Present(input[s].conv) # {}

\* The item table after the transaction of a conflicting batch rolled back
KeptBeforeConflict(s) ==
    LET c == input[s].conv
        its == input[s].items
        kept == {its[k][1] : k \in {k \in DOMAIN its :
                    \A j \in 1..k : its[j][1] \notin Present(c)}} IN
    [items EXCEPT ![c] =
        [i \in ItemIds |-> IF i \in kept THEN NewRow(s, i) ELSE items[c][i]]]
AfterRollback(s) == items

\* store.create_conversation_items: one transaction for the whole batch
CreateConversationItems(s) ==
    LET c == input[s].conv
        new == Ids(input[s].items) IN
    /\ pc[s] = "create_conversation_items"
    /\ \/ /\ KeyConflict(s)
          /\ Respond(s, 500)
          /\ items' = AfterRollback(s)
          /\ UNCHANGED <<older, announced>>
       \/ /\ ~KeyConflict(s)
          /\ items' = [items EXCEPT ![c] =
                [i \in ItemIds |-> IF i \in new THEN NewRow(s, i) ELSE items[c][i]]]
          /\ older' = [older EXCEPT ![c] =
                [i \in ItemIds |-> IF i \in new THEN OlderThanNew(s, i) ELSE older[c][i]]]
          /\ \/ /\ input[s].op = "create_conversation"
                /\ Respond(s, 200)
                /\ announced' = announced \cup {c}
             \/ /\ input[s].op = "create_items"
                /\ pc' = [pc EXCEPT ![s] = "list_items"]
                /\ seen' = [seen EXCEPT ![s] = Present(c) \cup new]
                /\ UNCHANGED <<handler, status, announced>>
    /\ UNCHANGED <<convs, now, started, birth>>

\* What the other requests on conversation c may still rely on once item i is
\* gone: a sync that stands on i as its cursor relies on nothing.
SeenWithout(c, i) ==
    [t \in Slots |->
        IF input[t] = None \/ input[t].conv # c THEN seen[t]
        ELSE IF cursor[t].id = i THEN {} ELSE seen[t] \ {i}]

\* store.delete_conversation_item
DeleteConversationItem(s) ==
    LET c == input[s].conv
        i == input[s].item IN
    /\ pc[s] = "delete_conversation_item"
    /\ \/ /\ items[c][i] = None
          /\ Respond(s, 404)
          /\ Unwritten
       \/ /\ items[c][i] # None
          /\ items' = [items EXCEPT ![c][i] = None]
          /\ older' = [older EXCEPT ![c] =
                [j \in ItemIds |-> IF j = i THEN {} ELSE older[c][j] \ {i}]]
          /\ pc' = [pc EXCEPT ![s] = "list_items"]
          /\ seen' = [SeenWithout(c, i) EXCEPT ![s] = Present(c) \ {i}]
          /\ UNCHANGED <<convs, handler, status>>
    /\ UNCHANGED <<now, started, announced, birth>>

-----------------------------------------------------------------------------
(* sync_conversation_messages and collect_conversation_messages            *)

\* conversation_item_position: the store resolves the cursor first; a cursor
\* item that is gone makes the page empty, which ends the collection.
ItemPosition(s) ==
    LET row == items[input[s].conv][cursor[s].id] IN
    /\ pc[s] = "item_position"
    /\ \/ /\ row = None
          /\ Continue(s, "update_messages")
          /\ UNCHANGED handler
       \/ /\ row # None
          /\ cursor' = [cursor EXCEPT ![s].pos = row.position]
          /\ Continue(s, "list_items")
          /\ UNCHANGED <<input, existing, start, acc>>
    /\ Unwritten
    /\ UNCHANGED <<now, started, announced, birth>>

\* A page shorter than the limit is the last one.
StopAfterAnyPage(page) == TRUE
LastPage(page) == Len(page) < PageLimit

\* The next page starts after the last item of this one.
CursorAfter(page) == [id |-> page[Len(page)], pos |-> 0]

\* One page of the listing; a full page is followed by another.
ListItems(s) ==
    LET c == input[s].conv IN
    /\ pc[s] = "list_items"
    /\ \E page \in Pages(c, cursor[s]) :
        /\ acc' = [acc EXCEPT ![s] =
                @ \o [k \in 1..Len(page) |-> <<page[k], items[c][page[k]].data>>]]
        /\ \/ /\ LastPage(page)
              /\ Continue(s, "update_messages")
              /\ UNCHANGED cursor
           \/ /\ ~LastPage(page)
              /\ cursor' = [cursor EXCEPT ![s] = CursorAfter(page)]
              /\ Continue(s, "item_position")
    /\ Unwritten
    /\ UNCHANGED <<input, existing, start, now, started, announced, birth>>

\* UPDATE ... SET messages: only a row that is still there
SyncUpserts(s) ==
    [convs EXCEPT ![input[s].conv] = [existing[s] EXCEPT !.messages = acc[s]]]
SyncedTable(s) ==
    [convs EXCEPT ![input[s].conv] =
        IF @ = None THEN None ELSE [@ EXCEPT !.messages = acc[s]]]

\* store.update_conversation_messages; no row left is a store error
UpdateMessagesRetrying(s) ==
    /\ pc[s] = "update_messages"
    /\ convs' = SyncedTable(s)
    /\ \/ /\ convs[input[s].conv] = None
          /\ acc' = [acc EXCEPT ![s] = <<>>]
          /\ cursor' = [cursor EXCEPT ![s] = NoCursor]
          /\ Continue(s, "list_items")
          /\ UNCHANGED <<input, existing, start>>
       \/ /\ convs[input[s].conv] # None
          /\ Respond(s, 200)
    /\ UNCHANGED <<items, older, now, started, announced, birth>>
UpdateMessages(s) ==
    LET c == input[s].conv IN
    /\ pc[s] = "update_messages"
    /\ convs' = SyncedTable(s)
    /\ \/ /\ convs[c] = None
          /\ Respond(s, 500)
       \/ /\ convs[c] # None /\ input[s].op = "create_items"
          /\ Respond(s, 200)
       \/ /\ convs[c] # None /\ input[s].op = "delete_item"
          /\ Continue(s, "get_result")
          /\ UNCHANGED handler
    /\ UNCHANGED <<items, older, now, started, announced, birth>>

\* delete-item reads the conversation back for its response
GetResult(s) ==
    /\ pc[s] = "get_result"
    /\ Respond(s, IF convs[input[s].conv] # None THEN 200 ELSE 404)
    /\ Unwritten
    /\ UNCHANGED <<now, started, announced, birth>>

-----------------------------------------------------------------------------
\* Any awaited store call may return an error: the handler answers 500.
StoreError(s) ==
    /\ Faults
    /\ pc[s] # "idle"
    /\ Respond(s, 500)
    /\ Unwritten
    /\ UNCHANGED <<now, started, announced, birth>>

\* The proxy stops and starts again: handlers are gone, the tables stay.
Restart ==
    /\ Faults
    /\ \E s \in Slots : pc[s] # "idle"
    /\ pc' = [s \in Slots |-> "idle"]
    /\ input' = [s \in Slots |-> None]
    /\ existing' = [s \in Slots |-> None]
    /\ start' = [s \in Slots |-> 0]
    /\ acc' = [s \in Slots |-> <<>>]
    /\ cursor' = [s \in Slots |-> NoCursor]
    /\ seen' = [s \in Slots |-> {}]
    /\ Unwritten
    /\ UNCHANGED <<now, started, status, announced, birth>>

Tick ==
    /\ now < MaxNow
    /\ now' = now + 1
    /\ UNCHANGED <<tables, started, pc, handler, status, announced, birth, seen, older>>

\* The behaviour ends when the bound on requests is used up.
Quiesced ==
    /\ started = MaxRequests /\ now = MaxNow
    /\ \A s \in Slots : pc[s] = "idle"
    /\ UNCHANGED vars

Arrive(s) ==
    \/ CreateConversation(s) \/ UpdateConversation(s) \/ DeleteConversation(s)
    \/ CreateItems(s) \/ DeleteItem(s) \/ RejectInvalid(s)

StoreCall(s) ==
    \/ GetConversation(s) \/ UpsertConversation(s) \/ DeleteConversationRow(s)
    \/ MaxItemPosition(s) \/ ExistingItemIds(s) \/ CreateConversationItems(s)
    \/ DeleteConversationItem(s)
    \/ ItemPosition(s) \/ ListItems(s) \/ UpdateMessages(s) \/ GetResult(s)

Next ==
    \/ \E s \in Slots : Arrive(s) \/ StoreCall(s) \/ StoreError(s)
    \/ Restart \/ Tick \/ Quiesced

Spec == Init /\ [][Next]_vars

\* Every awaited store call returns: the executor polls each handler and a
\* call ends with a result or an error.  Clients owe nothing.
FairSpec == Spec /\ \A s \in Slots : WF_vars(StoreCall(s) \/ StoreError(s))

-----------------------------------------------------------------------------
TypeOK ==
    /\ convs \in [Convs -> ConvRow \cup {None}]
    /\ items \in [Convs -> [ItemIds -> ItemRow \cup {None}]]
    /\ now \in Nat
    /\ started \in Nat
    /\ pc \in [Slots -> Steps]
    /\ input \in [Slots -> Requests \cup {None}]
    /\ existing \in [Slots -> ConvRow \cup {None}]
    /\ start \in [Slots -> Nat]
    /\ acc \in [Slots -> Seq(Messages)]
    /\ cursor \in [Slots -> [id : ItemIds \cup {None}, pos : Nat]]
    /\ status \in [Slots -> {0, 200, 400, 404, 500}]
    /\ announced \in SUBSET Convs
    /\ birth \in [Convs -> Nat \cup {None}]
    /\ seen \in [Slots -> SUBSET ItemIds]
    /\ older \in [Convs -> [ItemIds -> SUBSET ItemIds]]

\* types.rs, ConversationRecord::created_at: "Conversation upserts preserve
\* the original creation time", whatever updates, deletions and re-insertions
\* race with each other.
CreatedAtPreserved ==
    \A c \in Convs : convs[c] # None => convs[c].created_at = birth[c]

\* An item that was stored before the request creating another one began, or
\* that precedes it in the same request, stands before it in every listing.
AppendOrder ==
    \A c \in Convs : \A i \in Present(c) : \A j \in older[c][i] :
        j \in Present(c) /\ items[c][j].position < items[c][i].position

\* A message sync writes back every item that has been in the table since
\* the sync began, with the data stored for it, unless the item it stood on
\* as a page cursor was deleted.
SyncKeepsStableItems ==
    \A s \in Slots : pc[s] = "update_messages" =>
        \A i \in seen[s] : \E k \in DOMAIN acc[s] :
            acc[s][k] = <<i, items[input[s].conv][i].data>>

\* A batch that collides with a concurrent one is answered with an error and
\* leaves none of its rows behind.
FailedInsertLeavesNoRows ==
    [][\A s \in Slots :
        pc[s] = "create_conversation_items" /\ pc'[s] = "idle" /\ status'[s] # 200
            => items' = items]_<<pc, items, status>>

\* A conversation appears, and its metadata changes, only by the upsert of a
\* create or an update: a message sync neither revives a conversation that
\* was deleted under it nor puts back metadata it read earlier.
SyncKeepsToMessages ==
    [][\A c \in Convs :
        /\ convs'[c] # None
        /\ convs[c] = None \/ convs'[c].metadata # convs[c].metadata
        => \E s \in Slots : /\ pc[s] = "upsert_conversation"
                            /\ input[s].conv = c]_convs

\* An item row is never overwritten: it keeps position and data until it is
\* deleted, though the id check and the insert are separate store calls.
ItemRowsImmutable ==
    [][\A c \in Convs : \A i \in ItemIds :
        items[c][i] # None /\ items'[c][i] # None => items'[c][i] = items[c][i]]_items

\* Every request is answered: the page loop of a sync ends.
RequestsAnswered ==
    \A s \in Slots : pc[s] # "idle" ~> pc[s] = "idle"

\* The listing of a conversation, oldest first
Listing(c) ==
    CHOOSE l \in [1..Cardinality(Present(c)) -> Present(c)] :
        \A j, k \in DOMAIN l : j < k => Precedes(c, l[j], l[k])

\* With no request in flight, the message cache of a conversation is its item
\* listing.
MessagesInSync ==
    (\A s \in Slots : pc[s] = "idle") =>
        \A c \in Convs : convs[c] # None =>
            convs[c].messages =
                [k \in 1..Cardinality(Present(c)) |->
                    <<Listing(c)[k], items[c][Listing(c)[k]].data>>]
=============================================================================
