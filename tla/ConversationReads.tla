-------------------------- MODULE ConversationReads --------------------------
(***************************************************************************)
(* Reading a conversation of the PostgreSQL store while other requests     *)
(* write to it: a client walks GET /v1/conversations/{id}/items page by    *)
(* page, passing back the last_id it got, and every SQL statement of the   *)
(* handlers is a step of its own.  The tables hold the rows of all         *)
(* tenants, and a WHERE clause selects among them; the clients of two      *)
(* tenants may use the same conversation and item ids.                     *)
(*                                                                         *)
(* Item ids are numbers, ordered as TEXT is.  Bad is what a rejected item  *)
(* normalizes to.                                                          *)
(***************************************************************************)
EXTENDS Integers, FiniteSets, SequencesExt

CONSTANTS
    Tenants, Convs, ItemIds,
    Inputs,         \* item id -> the items that clients may send under it
    Queries,        \* [limit, ascending] of a listing; NoParam when absent
    DefaultLimit,   \* DEFAULT_PAGE_LIMIT
    MaxLimit,       \* MAX_PAGE_LIMIT
    MaxWrites,      \* bound on the writes of one behaviour
    NoParam, Bad

VARIABLES
    convs,   \* rows [tenant, id]
    items,   \* rows [tenant, conv, id, position, data]
    walk,    \* the walk of one client
    steady,  \* items there when the walk began that their own tenant has not deleted
    writes

vars == <<convs, items, walk, steady, writes>>

-----------------------------------------------------------------------------
(* Statements of the store *)

\* SELECT ... WHERE tenant_id = $1 AND conversation_id = $2
RowsOf(t, c) == {r \in items : r.tenant = t /\ r.conv = c}

\* get_conversation_record
ConversationExists(t, c) == [tenant |-> t, id |-> c] \in convs

\* get_conversation_item
ConversationItem(t, c, i) == {r \in RowsOf(t, c) : r.id = i}

\* get_existing_conversation_item_ids
ExistingItemIds(t, c, ids) == ids \cap {r.id : r \in RowsOf(t, c)}

\* conversation_item_position: the empty set when there is no such item
ItemPosition(t, c, i) == {r.position : r \in ConversationItem(t, c, i)}

\* max_item_position
MaxItemPosition(t, c) == Max({0} \cup {r.position : r \in RowsOf(t, c)})

\* ORDER BY position, item_id
Before(r, s) == r.position < s.position \/ (r.position = s.position /\ r.id < s.id)
Precedes(r, s, ascending) == IF ascending THEN Before(r, s) ELSE Before(s, r)
Sorted(s, ascending) ==
    \A i, j \in DOMAIN s : i < j => Precedes(s[i], s[j], ascending)
InOrder(rows, ascending) ==
    CHOOSE s \in [1..Cardinality(rows) -> rows] : Sorted(s, ascending)

\* list_conversation_items past a cursor, itself not included
PastPosition(t, c, cursor, position, ascending) ==
    {r \in RowsOf(t, c) : IF ascending THEN r.position > position ELSE r.position < position}
Past(t, c, cursor, position, ascending) ==
    LET at == [id |-> cursor, position |-> position] IN
    {r \in RowsOf(t, c) : Precedes(at, r, ascending)}

Limited(s, n) == SubSeq(s, 1, IF n < Len(s) THEN n ELSE Len(s))

-----------------------------------------------------------------------------
(* Parameters and answers *)

\* parse_item_list_params: an absent parameter keeps its default
ListParams(q) ==
    [limit |-> IF q.limit = NoParam THEN DefaultLimit ELSE q.limit,
     ascending |-> q.ascending = "asc"]

\* effective_limit
AsAsked(p) == p.limit
EffectiveLimit(p) ==
    CASE p.limit < 1        -> 1
      [] p.limit > MaxLimit -> MaxLimit
      [] OTHER              -> p.limit

\* One row more than the limit is fetched, to know whether there are more
FetchLimit(p) == EffectiveLimit(p) + 1

HasMore(rows, p) == Len(rows) > EffectiveLimit(p)

\* normalize_message_content; a content is "text" or the type of a list
WrapLists(role, content) ==
    CASE content = "text" -> IF role = "assistant" THEN "output_text" ELSE "input_text"
      [] content \in {"input_text", "output_text"} -> "nested_list"
      [] OTHER -> Bad
NormalizeContent(role, content) ==
    CASE content = "text" -> IF role = "assistant" THEN "output_text" ELSE "input_text"
      [] content \in {"input_text", "output_text"} -> content
      [] OTHER -> Bad

\* normalize_item and normalize_message_item, for an item with an id
StatusOf(map) == IF map.status = "absent" THEN "completed" ELSE map.status
NormalizeItem(item) ==
    CASE item = Bad -> Bad
      [] item # Bad /\ item.type # "message" -> item
      [] OTHER ->
            IF item.role \in {"absent", "empty", "number"}
               \/ NormalizeContent(item.role, item.content) = Bad
            THEN Bad
            ELSE [item EXCEPT !.content = NormalizeContent(item.role, @),
                              !.status = StatusOf(item)]

-----------------------------------------------------------------------------
NoWalk == [state |-> "none"]

Init ==
    /\ convs = {} /\ items = {} /\ walk = NoWalk /\ steady = {} /\ writes = 0

(* Other requests, each seen as the write it makes *)

Write == writes < MaxWrites /\ writes' = writes + 1

CreateConversation(t, c) ==
    /\ Write /\ ~ConversationExists(t, c)
    /\ convs' = convs \cup {[tenant |-> t, id |-> c]}
    /\ UNCHANGED <<items, walk, steady>>

DeleteConversation(t, c) ==
    /\ Write /\ ConversationExists(t, c)
    /\ convs' = convs \ {[tenant |-> t, id |-> c]}
    /\ UNCHANGED <<items, walk, steady>>

\* create_conversation_items.  The position was computed from a maximum read
\* before: others may have taken it, and any number after it, since
CreateItem(t, c, i, data) ==
    /\ Write /\ ConversationExists(t, c)
    /\ NormalizeItem(data) # Bad /\ ExistingItemIds(t, c, {i}) = {}
    /\ \E position \in 1..(MaxItemPosition(t, c) + 1) :
        items' = items \cup {[tenant |-> t, conv |-> c, id |-> i, position |-> position,
                              data |-> NormalizeItem(data)]}
    /\ UNCHANGED <<convs, walk, steady>>

\* delete_conversation_item
DeleteByIds(t, c, i) == {r \in items : r.id = i /\ r.conv = c}
DeletedRows(t, c, i) == {r \in items : r.id = i /\ r.tenant = t /\ r.conv = c}
DeleteItem(t, c, i) ==
    /\ Write /\ ConversationExists(t, c) /\ ItemPosition(t, c, i) # {}
    /\ items' = items \ DeletedRows(t, c, i)
    /\ steady' = {r \in steady : <<r.tenant, r.conv, r.id>> # <<t, c, i>>}
    /\ UNCHANGED <<convs, walk>>

(* handle_list_items, once for each page *)

\* The client asks for the first page
Begin(t, c) ==
    /\ walk.state = "none"
    /\ \E q \in Queries :
        walk' = [state |-> "asked", tenant |-> t, conv |-> c, params |-> ListParams(q),
                 cursor |-> 0, position |-> 0, page |-> <<>>, more |-> FALSE, got |-> <<>>,
                 lost |-> FALSE]
    /\ steady' = RowsOf(t, c)
    /\ UNCHANGED <<convs, items, writes>>

GetConversation ==
    /\ walk.state = "asked"
    /\ walk' = [walk EXCEPT !.state =
            CASE ~ConversationExists(walk.tenant, walk.conv) -> "not_found"
              [] ConversationExists(walk.tenant, walk.conv) /\ walk.cursor # 0 -> "position"
              [] OTHER -> "list"]
    /\ UNCHANGED <<convs, items, steady, writes>>

\* A cursor that names no item gives an empty last page.  lost notes that the
\* item is not where the client saw it: deleted, or deleted and created again
ReadPosition ==
    /\ walk.state = "position"
    /\ LET found == ItemPosition(walk.tenant, walk.conv, walk.cursor)
           moved == walk.lost \/ found # {Last(walk.got).position}
       IN walk' = IF found = {}
                  THEN [walk EXCEPT !.state = "answered", !.page = <<>>, !.more = FALSE, !.lost = moved]
                  ELSE [walk EXCEPT !.state = "list", !.position = CHOOSE p \in found : TRUE,
                                    !.lost = moved]
    /\ UNCHANGED <<convs, items, steady, writes>>

ListPage ==
    /\ walk.state = "list"
    /\ LET p == walk.params
           rows == IF walk.cursor = 0 THEN RowsOf(walk.tenant, walk.conv)
                   ELSE Past(walk.tenant, walk.conv, walk.cursor, walk.position, p.ascending)
           fetched == Limited(InOrder(rows, p.ascending), FetchLimit(p))
       IN walk' = [walk EXCEPT !.state = "answered",
                               !.page = Limited(fetched, EffectiveLimit(p)),
                               !.more = HasMore(fetched, p)]
    /\ UNCHANGED <<convs, items, steady, writes>>

\* The client takes the page and goes on from its last_id, "" for no item
TakePage ==
    /\ walk.state = "answered"
    /\ walk' = [walk EXCEPT
            !.got = @ \o walk.page,
            !.cursor = IF walk.page = <<>> THEN 0 ELSE Last(walk.page).id,
            !.state = IF walk.more THEN "asked" ELSE "done"]
    /\ UNCHANGED <<convs, items, steady, writes>>

\* handle_get_item looks at no conversation row
GetItem(t, c, i) ==
    /\ walk.state = "none"
    /\ LET found == ConversationItem(t, c, i) IN
        walk' = [state |-> IF found = {} THEN "item_not_found" ELSE "item", tenant |-> t,
                 conv |-> c, got |-> SetToSeq(found), page |-> <<>>, more |-> FALSE, lost |-> FALSE]
    /\ UNCHANGED <<convs, items, steady, writes>>

Next ==
    \/ \E t \in Tenants, c \in Convs :
        \/ CreateConversation(t, c) \/ DeleteConversation(t, c) \/ Begin(t, c)
        \/ \E i \in ItemIds :
            \/ \E data \in Inputs[i] : CreateItem(t, c, i, data)
            \/ DeleteItem(t, c, i) \/ GetItem(t, c, i)
    \/ GetConversation \/ ReadPosition \/ ListPage \/ TakePage

Reads == GetConversation \/ ReadPosition \/ ListPage \/ TakePage

\* The client and the handlers go on; nobody has to write
Spec == Init /\ [][Next]_vars /\ WF_vars(Reads)

-----------------------------------------------------------------------------
(* Properties *)

(***************************************************************************)
(* A walk that ends has shown every item that was there when it began and  *)
(* that its tenant has not deleted, exactly once and in listing order,     *)
(* whatever was created and deleted between its pages, by other tenants    *)
(* under the same ids and on equal positions included: unless the item the *)
(* client's cursor names was itself deleted, which ends the walk with an   *)
(* empty page, or restarts it where the item was created again             *)
(* (list_conversation_items, handle_list_items).                           *)
(***************************************************************************)
WalkComplete ==
    walk.state = "done" /\ ~walk.lost =>
        steady \subseteq ToSet(walk.got) /\ Sorted(walk.got, walk.params.ascending)

(***************************************************************************)
(* A page that promises more has a last_id to go on from, and no page is   *)
(* larger than MAX_PAGE_LIMIT, for every limit a query may hold            *)
(* (effective_limit, conversation_items_to_json).                          *)
(***************************************************************************)
MoreIsReachable ==
    walk.state = "answered" =>
        /\ walk.more => walk.page # <<>>
        /\ Len(walk.page) <= MaxLimit

(***************************************************************************)
(* Tenants that use the same ids stay apart: what a walk shows is the      *)
(* reader's own, whoever wrote in between (the WHERE clauses of the store, *)
(* on reading and on writing).                                             *)
(***************************************************************************)
TenantsApart ==
    walk.state # "none" => \A r \in ToSet(walk.got) : r.tenant = walk.tenant

(***************************************************************************)
(* An item as it is listed can be sent again and is stored as it was: what *)
(* normalize_item makes of an item is a fixed point of it.                 *)
(***************************************************************************)
ListedItemsReusable == \A r \in items : NormalizeItem(r.data) = r.data

\* What a client that lists items relies on
WalksComplete == WalkComplete /\ MoreIsReachable /\ TenantsApart /\ ListedItemsReusable

(***************************************************************************)
(* Every walk ends, although items are created behind its back.  Writers   *)
(* are bounded here, as is what a client can send while a page is read     *)
(* (handle_list_items).                                                    *)
(***************************************************************************)
WalkEnds == walk.state = "asked" ~> walk.state \in {"done", "not_found"}
=============================================================================
