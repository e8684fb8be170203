----------------------------- MODULE InputItems -----------------------------
(***************************************************************************)
(* GET /v1/responses/{id}/input_items: a client walks the stored input of  *)
(* one response page by page.  The handler is stateless; the client passes *)
(* back the last_id of the page it has, or, for items that carry no id,    *)
(* the number of items it has seen, which the handler accepts as an        *)
(* offset.  Machine words are MaxUsize wide.                               *)
(***************************************************************************)
EXTENDS Naturals, Sequences, SequencesExt

CONSTANTS
    Inputs,         \* stored inputs: sequences of items [name, id]
    Limits,         \* `limit` of the query: a number, or NoParam
    Cursors,        \* cursors a client may start from
    DefaultLimit,   \* DEFAULT_PAGE_LIMIT
    MaxLimit,       \* MAX_PAGE_LIMIT
    MaxUsize,       \* usize::MAX
    NoId, NoParam

VARIABLES input, params, got, walk

vars == <<input, params, got, walk>>

\* parse_query_params: an absent or unparsable parameter keeps its default
ParseQueryParams(limit, order, after) ==
    [limit  |-> IF limit = NoParam THEN DefaultLimit ELSE limit,
     order  |-> IF order = "asc" THEN "asc" ELSE "desc",
     cursor |-> after]

\* effective_limit: clamped to 1..MAX_PAGE_LIMIT
UnclampedLimit(p) == p.limit
EffectiveLimit(p) ==
    IF p.limit < 1 THEN 1 ELSE IF p.limit > MaxLimit THEN MaxLimit ELSE p.limit

\* cursor_id_offset: the position after the first item with that id
CursorIdAt(list, c) ==
    {k - 1 : k \in {k \in DOMAIN list :
        list[k].id = c /\ \A j \in 1..(k - 1) : list[j].id # c}}
CursorIdOffset(list, c) ==
    {k \in DOMAIN list :
        list[k].id = c /\ \A j \in 1..(k - 1) : list[j].id # c}

\* cursor_offset: an id first, then a number; "invalid" is a 400
CursorOffset(list, c) ==
    CASE c = NoParam                      -> 0
      [] CursorIdOffset(list, c) # {}    ->
            CHOOSE k \in CursorIdOffset(list, c) : TRUE
      [] c \in Nat /\ CursorIdOffset(list, c) = {} -> c
      [] OTHER                            -> MaxUsize + 1

\* page_next_cursor: the id of the last item, else the offset reached
PageNextCursor(data, end, has_more) ==
    CASE ~has_more -> NoParam
      [] OTHER -> IF data # <<>> /\ Last(data).id # NoId
                  THEN Last(data).id ELSE end

Ordered(list, order) == IF order = "asc" THEN list ELSE Reverse(list)

ListLosesLast(stored, p) ==
    LET list == Ordered(stored, p.order)
        offset == CursorOffset(list, p.cursor)
        end == offset + EffectiveLimit(p) IN
    [ok |-> offset <= MaxUsize, has_more |-> end + 1 < Len(list),
     next |-> NoParam,
     data |-> SubSeq(list, offset + 1, IF end < Len(list) THEN end ELSE Len(list))]

\* list_input_items; an input that is not an array counts as one item.
\* A window that overflows usize is an error, like a cursor that is neither an
\* id nor a number.
ListInputItems(stored, p) ==
    LET list == Ordered(stored, p.order)
        offset == CursorOffset(list, p.cursor)
        limit == EffectiveLimit(p)
        least(a, b) == IF a < b THEN a ELSE b
        end == least(offset + limit, Len(list))
        data == SubSeq(list, offset + 1, least(offset + limit, Len(list))) IN
    IF offset > MaxUsize \/ offset + limit > MaxUsize
    THEN [ok |-> FALSE, data |-> <<>>, has_more |-> FALSE, next |-> NoParam]
    ELSE [ok |-> TRUE, data |-> data, has_more |-> end < Len(list),
          next |-> PageNextCursor(data, end, end < Len(list))]

\* build_input_items_ok: last_id is null when the last item has no id, and
\* the handler's own next cursor is not part of the answer
LastId(page) ==
    IF page.data = <<>> \/ Last(page.data).id = NoId THEN NoParam
    ELSE Last(page.data).id

-----------------------------------------------------------------------------
\* A walk from the start of the list, or one request with an odd cursor
Init ==
    /\ input \in Inputs
    /\ \E limit \in Limits, order \in {"asc", "desc", "other"} :
         \/ params = ParseQueryParams(limit, order, NoParam) /\ walk = "walking"
         \/ \E c \in Cursors :
              params = ParseQueryParams(limit, order, c) /\ walk = "single"
    /\ got = <<>>

\* One page; the client goes on with last_id, or by counting
NextPage ==
    LET page == ListInputItems(input, params) IN
    /\ walk = "walking" /\ page.ok
    /\ got' = got \o page.data
    /\ IF page.has_more
       THEN /\ params' = [params EXCEPT !.cursor =
                   IF LastId(page) # NoParam THEN LastId(page) ELSE Len(got')]
            /\ UNCHANGED walk
       ELSE walk' = "done" /\ UNCHANGED params
    /\ UNCHANGED input

\* A single request with any cursor
OnePage ==
    LET page == ListInputItems(input, params) IN
    /\ walk = "single"
    /\ walk' = IF page.ok THEN "answered" ELSE "rejected"
    /\ got' = page.data
    /\ UNCHANGED <<input, params>>

Done == walk \in {"done", "answered", "rejected"} /\ UNCHANGED vars

Next == NextPage \/ OnePage \/ Done

Spec == Init /\ [][Next]_vars /\ WF_vars(NextPage)

-----------------------------------------------------------------------------
\* What the client has is always a prefix of the list in the order it asked
\* for: no page repeats, skips or reorders an item of the stored input.
WalkFollowsList == walk = "walking" => IsPrefix(got, Ordered(input, params.order))

\* A finished walk has delivered every item exactly once
WalkComplete == walk = "done" => got = Ordered(input, params.order)

\* What a client that reads a stored input relies on
WalksComplete == WalkFollowsList /\ WalkComplete

\* Every walk ends, whatever limit the client passed: a page that announces
\* more is never empty.
WalkEnds == <>(walk # "walking")
=============================================================================
