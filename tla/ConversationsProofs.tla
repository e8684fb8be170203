------------------------ MODULE ConversationsProofs ------------------------
(***************************************************************************)
(* Proofs about Conversations: the types, the rows of conversations and of *)
(* items, the message sync, and the message cache of a conversation row    *)
(* against the item table.                                                 *)
(***************************************************************************)
EXTENDS Conversations, FiniteSetTheorems, TLAPS

\* Which requests stand at which store call, and what their handlers hold.
Shape ==
    \A s \in Slots :
        /\ pc[s] = "idle" <=> input[s] = None
        /\ pc[s] = "get_conversation" =>
              input[s].op \in {"update_conversation", "create_items", "delete_item"}
        /\ pc[s] = "upsert_conversation" =>
              /\ input[s].op \in {"create_conversation", "update_conversation"}
              /\ existing[s] # None
        /\ pc[s] \in {"max_item_position", "existing_item_ids"} =>
              input[s].op = "create_items"
        /\ pc[s] = "create_conversation_items" =>
              input[s].op \in {"create_conversation", "create_items"}
        /\ pc[s] = "delete_conversation_item" => input[s].op = "delete_item"
        /\ input[s] # None /\ input[s].op = "delete_item" => input[s].item # None
        /\ pc[s] = "item_position" => cursor[s].id # None

TypeInv == TypeOK /\ Shape

-----------------------------------------------------------------------------
LEMMA RespondType ==
    ASSUME TypeInv, NEW s \in Slots, NEW code \in {0, 200, 400, 404, 500},
           Respond(s, code)
    PROVE  /\ pc' \in [Slots -> Steps]
           /\ input' \in [Slots -> Requests \cup {None}]
           /\ existing' \in [Slots -> ConvRow \cup {None}]
           /\ start' \in [Slots -> Nat]
           /\ acc' \in [Slots -> Seq(Messages)]
           /\ cursor' \in [Slots -> [id : ItemIds \cup {None}, pos : Nat]]
           /\ status' \in [Slots -> {0, 200, 400, 404, 500}]
           /\ seen' \in [Slots -> SUBSET ItemIds]
           /\ Shape'
BY DEF TypeInv, TypeOK, Shape, Respond, Steps, NoCursor, Requests, Ops

LEMMA AcceptType ==
    ASSUME TypeInv, NEW s \in Slots, NEW req \in Requests, NEW step \in Steps,
           NEW record \in ConvRow \cup {None}, Accept(s, req, step, record),
           birth' \in [Convs -> Nat \cup {None}],
           \/ step = "get_conversation" /\ req.op \in {"update_conversation", "create_items", "delete_item"}
           \/ step = "upsert_conversation" /\ req.op = "create_conversation" /\ record # None
           \/ step = "delete_conversation" /\ req.op = "delete_conversation",
           req.op = "delete_item" => req.item # None
    PROVE  TypeInv'
<1>1. Present(req.conv) \in SUBSET ItemIds
  BY DEF Present
<1>2. None \notin Requests
  BY NoneAssumption
<1>3. TypeOK'
  BY <1>1 DEF TypeInv, TypeOK, Accept, tables, Steps
<1>4. Shape'
  BY <1>2 DEF TypeInv, TypeOK, Shape, Accept, tables, Steps
<1> QED BY <1>3, <1>4 DEF TypeInv

\* The parts of TypeOK and Shape a step of handler s may change when it goes
\* on to its next store call.
LEMMA ContinueType ==
    ASSUME TypeInv, NEW s \in Slots, NEW next \in Steps \ {"idle"},
           Continue(s, next), pc[s] # "idle"
    PROVE  /\ pc' \in [Slots -> Steps]
           /\ status' \in [Slots -> {0, 200, 400, 404, 500}]
           /\ seen' \in [Slots -> SUBSET ItemIds]
BY DEF TypeInv, TypeOK, Continue

\* A request on an existing conversation names one a client was told of.
LEMMA ArriveForm ==
    ASSUME TypeInv, NEW s \in Slots, Arrive(s),
           ~CreateConversation(s), ~RejectInvalid(s)
    PROVE  \E req \in Requests, step \in {"get_conversation", "delete_conversation"} :
              /\ Accept(s, req, step, None)
              /\ UNCHANGED birth
              /\ req.conv \in announced
              /\ \/ /\ step = "get_conversation"
                    /\ req.op \in {"update_conversation", "create_items", "delete_item"}
                 \/ step = "delete_conversation" /\ req.op = "delete_conversation"
              /\ req.op = "delete_item" => req.item # None
<1> USE DEF Request, Ops, MetaFields, Bodies
<1>1. announced \subseteq Convs /\ Payloads \subseteq Seq(Messages)
      /\ <<>> \in Seq(Messages) /\ None \notin ItemIds
  BY ConstantsAssumption, NoneAssumption DEF TypeInv, TypeOK
<1>2. CASE UpdateConversation(s)
  <2>1. PICK c \in announced, m \in MetaFields :
            /\ Accept(s, Request("update_conversation", c, m, <<>>, "ok", None),
                      "get_conversation", None)
            /\ UNCHANGED birth
    BY <1>2 DEF UpdateConversation
  <2>2. Request("update_conversation", c, m, <<>>, "ok", None) \in Requests
    BY <1>1 DEF Requests
  <2> QED BY <2>1, <2>2
<1>3. CASE DeleteConversation(s)
  <2>1. PICK c \in announced :
            /\ Accept(s, Request("delete_conversation", c, "absent", <<>>, "ok", None),
                      "delete_conversation", None)
            /\ UNCHANGED birth
    BY <1>3 DEF DeleteConversation
  <2>2. Request("delete_conversation", c, "absent", <<>>, "ok", None) \in Requests
    BY <1>1 DEF Requests
  <2> QED BY <2>1, <2>2
<1>4. CASE CreateItems(s)
  <2>1. PICK c \in announced, its \in Payloads, body \in Bodies :
            /\ Accept(s, Request("create_items", c, "absent", its, body, None),
                      "get_conversation", None)
            /\ UNCHANGED birth
    BY <1>4 DEF CreateItems
  <2>2. Request("create_items", c, "absent", its, body, None) \in Requests
    BY <1>1 DEF Requests
  <2> QED BY <2>1, <2>2
<1>5. CASE DeleteItem(s)
  <2>1. PICK c \in announced, i \in ItemIds :
            /\ Accept(s, Request("delete_item", c, "absent", <<>>, "ok", i),
                      "get_conversation", None)
            /\ UNCHANGED birth
    BY <1>5 DEF DeleteItem
  <2>2. Request("delete_item", c, "absent", <<>>, "ok", i) \in Requests
    BY <1>1 DEF Requests
  <2> QED BY <1>1, <2>1, <2>2
<1> QED BY <1>2, <1>3, <1>4, <1>5 DEF Arrive

LEMMA TypeArrive ==
    ASSUME TypeInv, NEW s \in Slots, Arrive(s)
    PROVE  TypeInv'
<1>1. CASE CreateConversation(s)
  <2>1. PICK c \in Convs, m \in Metas, its \in Payloads :
            /\ birth[c] = None
            /\ birth' = [birth EXCEPT ![c] = now]
            /\ Accept(s, Request("create_conversation", c, m, its, "ok", None),
                      "upsert_conversation",
                      [created_at |-> now, metadata |-> m, messages |-> its])
    BY <1>1 DEF CreateConversation
  <2>2. its \in Seq(Messages)
    BY ConstantsAssumption
  <2>3. [created_at |-> now, metadata |-> m, messages |-> its] \in ConvRow
    BY <2>2 DEF TypeInv, TypeOK, ConvRow
  <2>4. birth' \in [Convs -> Nat \cup {None}]
    BY <2>1 DEF TypeInv, TypeOK
  <2>5. [created_at |-> now, metadata |-> m, messages |-> its] # None
    BY <2>3, NoneAssumption
  <2> QED BY <2>1, <2>2, <2>3, <2>4, <2>5, AcceptType
    DEF Request, Requests, Ops, MetaFields, Bodies, Steps
<1>2. CASE RejectInvalid(s)
  <2>1. Respond(s, 400) /\ UNCHANGED <<tables, now, announced, birth, older>>
    BY <1>2 DEF RejectInvalid
  <2>2. started' \in Nat
    BY <1>2 DEF RejectInvalid, TypeInv, TypeOK
  <2> QED BY <2>1, <2>2, RespondType DEF TypeInv, TypeOK, tables
<1>3. CASE ~CreateConversation(s) /\ ~RejectInvalid(s)
  <2>1. birth' = birth => birth' \in [Convs -> Nat \cup {None}]
    BY DEF TypeInv, TypeOK
  <2> QED BY <1>3, <2>1, ArriveForm, AcceptType DEF Steps
<1> QED BY <1>1, <1>2, <1>3

-----------------------------------------------------------------------------
(* What the helpers return                                                 *)

LEMMA PagesFacts ==
    ASSUME TypeOK, NEW c \in Convs, NEW cur, NEW page \in Pages(c, cur)
    PROVE  /\ page \in Seq(ItemIds)
           /\ Len(page) \in 0..PageLimit
           /\ DOMAIN page = 1..Len(page)
           /\ \A k \in 1..Len(page) : page[k] \in Present(c)
<1>1. PICK n \in 0..PageLimit : page \in [1..n -> Selected(c, cur)]
  BY DEF Pages
<1>2. Selected(c, cur) \subseteq Present(c) /\ Present(c) \subseteq ItemIds
  BY DEF Selected, After, Present
<1>3. n \in Nat
  BY <1>1, ConstantsAssumption
<1>4. page \in Seq(ItemIds) /\ Len(page) = n /\ DOMAIN page = 1..n
  BY <1>1, <1>2, <1>3
<1> QED BY <1>1, <1>2, <1>4

LEMMA PresentRow ==
    ASSUME TypeOK, NEW c \in Convs, NEW i \in Present(c)
    PROVE  i \in ItemIds /\ items[c][i] \in ItemRow /\ items[c][i] # None
BY DEF TypeOK, Present

LEMMA MaxPositionsFacts ==
    ASSUME TypeOK, NEW c \in Convs, NEW p \in MaxPositions(c)
    PROVE  p \in Nat /\ \A i \in Present(c) : items[c][i].position <= p
BY PresentRow DEF MaxPositions, ItemRow

LEMMA NewRowFacts ==
    ASSUME TypeOK, NEW s \in Slots, input[s] # None,
           NEW i \in Ids(input[s].items)
    PROVE  \E k \in DOMAIN input[s].items :
              /\ input[s].items[k][1] = i
              /\ k \in Nat \ {0}
              /\ NewRow(s, i) = [position |-> start[s] + k - 1,
                                 data |-> input[s].items[k][2]]
              /\ NewRow(s, i) \in ItemRow
<1> DEFINE its == input[s].items
           k == CHOOSE k \in DOMAIN its : its[k][1] = i
<1>0. input[s] \in Requests
  BY DEF TypeOK
<1>1. its \in Seq(Messages)
  BY <1>0 DEF Requests
<1>2. k \in DOMAIN its /\ its[k][1] = i
  BY DEF Ids
<1> HIDE DEF its, k
<1>3. k \in Nat \ {0} /\ its[k] \in Messages
  BY <1>1, <1>2
<1>4. start[s] \in Nat
  BY DEF TypeOK
<1>5. NewRow(s, i) = [position |-> start[s] + k - 1, data |-> its[k][2]]
  BY DEF NewRow, its, k
<1>6. its[k][2] \in Data
  BY <1>3 DEF Messages
<1>7. NewRow(s, i) \in ItemRow
  BY <1>3, <1>4, <1>5, <1>6 DEF ItemRow
<1> QED BY <1>2, <1>3, <1>5, <1>7 DEF its

-----------------------------------------------------------------------------
LEMMA TypeGetConversation ==
    ASSUME TypeInv, NEW s \in Slots, GetConversation(s)
    PROVE  TypeInv'
<1>1. /\ pc[s] = "get_conversation"
      /\ UNCHANGED <<convs, items, older, now, started, announced, birth>>
  BY DEF GetConversation, Unwritten, tables
<1>2. CASE Respond(s, 404) \/ Respond(s, 400)
  BY <1>1, <1>2, RespondType DEF TypeInv, TypeOK
<1>3. CASE ~(Respond(s, 404) \/ Respond(s, 400))
  <2>1. PICK next \in {"upsert_conversation", "max_item_position",
                       "delete_conversation_item"} :
          /\ Continue(s, next)
          /\ next = "upsert_conversation" => input[s].op = "update_conversation"
          /\ next = "max_item_position" => input[s].op = "create_items"
          /\ next = "delete_conversation_item" => input[s].op = "delete_item"
    BY <1>3 DEF GetConversation, TypeInv, Shape
  <2>2. /\ convs[input[s].conv] # None
        /\ existing' = [existing EXCEPT ![s] = convs[input[s].conv]]
        /\ UNCHANGED <<input, start, acc, cursor>>
    BY <1>3 DEF GetConversation
  <2>3. convs[input[s].conv] \in ConvRow
    BY <1>1, <2>2 DEF TypeInv, TypeOK, Shape, Requests
  <2>4. TypeOK'
    BY <1>1, <2>1, <2>2, <2>3 DEF TypeInv, TypeOK, Continue, Steps
  <2>5. Shape'
    BY <1>1, <2>1, <2>2, <2>3 DEF TypeInv, TypeOK, Shape, Continue, Steps
  <2> QED BY <2>4, <2>5 DEF TypeInv
<1> QED BY <1>2, <1>3

LEMMA TypeUpsert ==
    ASSUME TypeInv, NEW s \in Slots, UpsertConversation(s)
    PROVE  TypeInv'
<1>1. /\ pc[s] = "upsert_conversation"
      /\ convs' = [convs EXCEPT ![input[s].conv] = UpsertedRow(s)]
      /\ UNCHANGED <<items, older, now, started, birth>>
  BY DEF UpsertConversation
<1>2. input[s] \in Requests /\ existing[s] \in ConvRow
  BY <1>1 DEF TypeInv, TypeOK, Shape
<1>3. NewMetadata(s) \in Metas
  BY <1>2, ConstantsAssumption DEF NewMetadata, Requests, MetaFields, ConvRow
<1>4. convs[input[s].conv] \in ConvRow \cup {None}
  BY <1>2 DEF TypeInv, TypeOK, Requests
<1>5. UpsertedRow(s) \in ConvRow
  BY <1>2, <1>3, <1>4 DEF UpsertedRow, ConvRow
<1>6. convs' \in [Convs -> ConvRow \cup {None}]
  BY <1>1, <1>2, <1>5 DEF TypeInv, TypeOK, Requests
<1>7. announced' \in SUBSET Convs
  BY <1>2 DEF UpsertConversation, TypeInv, TypeOK, Requests
<1>8. CASE Respond(s, 200)
  BY <1>1, <1>6, <1>7, <1>8, RespondType DEF TypeInv, TypeOK
<1>9. CASE ~Respond(s, 200)
  <2>1. /\ input[s].op = "create_conversation"
        /\ start' = [start EXCEPT ![s] = 1]
        /\ Continue(s, "create_conversation_items")
        /\ UNCHANGED <<input, existing, acc, cursor>>
    BY <1>9 DEF UpsertConversation
  <2>2. TypeOK'
    BY <1>1, <1>6, <1>7, <2>1 DEF TypeInv, TypeOK, Continue, Steps
  <2>3. Shape'
    BY <1>1, <2>1 DEF TypeInv, TypeOK, Shape, Continue, Steps
  <2> QED BY <2>2, <2>3 DEF TypeInv
<1> QED BY <1>8, <1>9

LEMMA TypeDeleteConversationRow ==
    ASSUME TypeInv, NEW s \in Slots, DeleteConversationRow(s)
    PROVE  TypeInv'
<1>1. /\ convs' = [convs EXCEPT ![input[s].conv] = None]
      /\ UNCHANGED <<items, older, now, started, announced, birth>>
      /\ Respond(s, 200) \/ Respond(s, 404)
  BY DEF DeleteConversationRow
<1>2. convs' \in [Convs -> ConvRow \cup {None}]
  BY <1>1 DEF TypeInv, TypeOK
<1>3. CASE Respond(s, 200)
  BY <1>1, <1>2, <1>3, RespondType, SMTT(30) DEF TypeInv, TypeOK
<1>4. CASE Respond(s, 404)
  BY <1>1, <1>2, <1>4, RespondType DEF TypeInv, TypeOK
<1> QED BY <1>1, <1>3, <1>4

LEMMA TypeMaxItemPosition ==
    ASSUME TypeInv, NEW s \in Slots, MaxItemPosition(s)
    PROVE  TypeInv'
<1>1. /\ pc[s] = "max_item_position"
      /\ UNCHANGED <<convs, items, older, now, started, announced, birth>>
  BY DEF MaxItemPosition, Unwritten, tables
<1>2. CASE Respond(s, 400)
  BY <1>1, <1>2, RespondType DEF TypeInv, TypeOK
<1>3. CASE ~Respond(s, 400)
  <2>1. /\ Continue(s, "existing_item_ids")
        /\ UNCHANGED <<input, existing, acc, cursor>>
    BY <1>3 DEF MaxItemPosition
  <2>2. PICK p \in MaxPositions(input[s].conv) :
            start' = [start EXCEPT ![s] = p + 1]
    BY <1>3 DEF MaxItemPosition
  <2>3. input[s].conv \in Convs
    BY <1>1 DEF TypeInv, TypeOK, Shape, Requests
  <2>4. p \in Nat
    BY <2>2, <2>3, MaxPositionsFacts DEF TypeInv
  <2>5. TypeOK'
    BY <1>1, <2>1, <2>2, <2>4 DEF TypeInv, TypeOK, Continue, Steps
  <2>6. Shape'
    BY <1>1, <2>1 DEF TypeInv, TypeOK, Shape, Continue, Steps
  <2> QED BY <2>5, <2>6 DEF TypeInv
<1> QED BY <1>2, <1>3

LEMMA TypeExistingItemIds ==
    ASSUME TypeInv, NEW s \in Slots, ExistingItemIds(s)
    PROVE  TypeInv'
<1>1. /\ pc[s] = "existing_item_ids"
      /\ UNCHANGED <<convs, items, older, now, started, announced, birth>>
  BY DEF ExistingItemIds, Unwritten, tables
<1>2. CASE Respond(s, 400)
  BY <1>1, <1>2, RespondType DEF TypeInv, TypeOK
<1>3. CASE ~Respond(s, 400)
  <2>1. /\ Continue(s, "create_conversation_items")
        /\ UNCHANGED <<input, existing, start, acc, cursor>>
    BY <1>3 DEF ExistingItemIds, handler
  <2>2. TypeOK'
    BY <1>1, <2>1 DEF TypeInv, TypeOK, Continue, Steps
  <2>3. Shape'
    BY <1>1, <2>1 DEF TypeInv, TypeOK, Shape, Continue, Steps
  <2> QED BY <2>2, <2>3 DEF TypeInv
<1> QED BY <1>2, <1>3

LEMMA TypeCreateConversationItems ==
    ASSUME TypeInv, NEW s \in Slots, CreateConversationItems(s)
    PROVE  TypeInv'
<1> DEFINE c == input[s].conv
           new == Ids(input[s].items)
<1>1. /\ pc[s] = "create_conversation_items"
      /\ UNCHANGED <<convs, now, started, birth>>
  BY DEF CreateConversationItems
<1>2. input[s] \in Requests /\ input[s] # None
  BY <1>1 DEF TypeInv, TypeOK, Shape
<1>3. c \in Convs /\ announced' \in SUBSET Convs
  BY <1>2 DEF CreateConversationItems, TypeInv, TypeOK, Requests
<1>4. CASE KeyConflict(s)
  BY <1>1, <1>3, <1>4, RespondType
     DEF CreateConversationItems, AfterRollback, TypeInv, TypeOK
<1>5. CASE ~KeyConflict(s)
  <2>1. /\ items' = [items EXCEPT ![c] =
              [i \in ItemIds |-> IF i \in new THEN NewRow(s, i) ELSE items[c][i]]]
        /\ older' = [older EXCEPT ![c] =
              [i \in ItemIds |-> IF i \in new THEN OlderThanNew(s, i) ELSE older[c][i]]]
    BY <1>5 DEF CreateConversationItems
  <2>2. \A i \in new : NewRow(s, i) \in ItemRow
    BY <1>2, NewRowFacts DEF TypeInv
  <2>3. items' \in [Convs -> [ItemIds -> ItemRow \cup {None}]]
    BY <1>3, <2>1, <2>2 DEF TypeInv, TypeOK
  <2>4. input[s].items \in Seq(Messages)
    BY <1>2 DEF Requests
  <2>5. \A k \in DOMAIN input[s].items : input[s].items[k][1] \in ItemIds
    <3>1. \A k \in DOMAIN input[s].items : input[s].items[k] \in Messages
      BY <2>4
    <3> QED BY <3>1 DEF Messages
  <2>6. new \subseteq ItemIds /\ \A i \in new : OlderThanNew(s, i) \in SUBSET ItemIds
    BY <2>5 DEF Ids, OlderThanNew, TypeInv, TypeOK
  <2>7. older' \in [Convs -> [ItemIds -> SUBSET ItemIds]]
    BY <1>3, <2>1, <2>6 DEF TypeInv, TypeOK
  <2>8. CASE Respond(s, 200)
    <3>1. 200 \in {0, 200, 400, 404, 500}
      OBVIOUS
    <3> HIDE DEF c, new
    <3> QED BY <1>1, <1>3, <2>3, <2>7, <2>8, <3>1, RespondType, SMTT(30) DEF TypeInv, TypeOK
  <2>9. CASE ~Respond(s, 200)
    <3>1. /\ input[s].op = "create_items"
          /\ pc' = [pc EXCEPT ![s] = "list_items"]
          /\ seen' = [seen EXCEPT ![s] = Present(c) \cup new]
          /\ UNCHANGED <<input, existing, start, acc, cursor, status>>
      BY <1>5, <2>9 DEF CreateConversationItems, handler
    <3>2. Present(c) \cup new \in SUBSET ItemIds
      BY <2>6 DEF Present
    <3>3. TypeOK'
      BY <1>1, <1>3, <2>3, <2>7, <3>1, <3>2 DEF TypeInv, TypeOK, Steps
    <3>4. Shape'
      BY <1>1, <3>1 DEF TypeInv, TypeOK, Shape, Steps
    <3> QED BY <3>3, <3>4 DEF TypeInv
  <2> QED BY <2>8, <2>9
<1> QED BY <1>4, <1>5

LEMMA TypeDeleteConversationItem ==
    ASSUME TypeInv, NEW s \in Slots, DeleteConversationItem(s)
    PROVE  TypeInv'
<1> DEFINE c == input[s].conv
           i == input[s].item
<1>1. /\ pc[s] = "delete_conversation_item"
      /\ UNCHANGED <<convs, now, started, announced, birth>>
  BY DEF DeleteConversationItem, Unwritten, tables
<1>2. input[s] \in Requests /\ input[s] # None
  BY <1>1 DEF TypeInv, TypeOK, Shape
<1>3. c \in Convs /\ i \in ItemIds
  BY <1>1, <1>2 DEF TypeInv, Shape, Requests
<1>4. CASE items[c][i] = None
  BY <1>1, <1>4, RespondType
     DEF DeleteConversationItem, Unwritten, tables, TypeInv, TypeOK
<1>5. CASE items[c][i] # None
  <2>1. /\ items' = [items EXCEPT ![c][i] = None]
        /\ older' = [older EXCEPT ![c] =
              [j \in ItemIds |-> IF j = i THEN {} ELSE older[c][j] \ {i}]]
        /\ pc' = [pc EXCEPT ![s] = "list_items"]
        /\ seen' = [SeenWithout(c, i) EXCEPT ![s] = Present(c) \ {i}]
        /\ UNCHANGED <<input, existing, start, acc, cursor, status>>
    BY <1>5 DEF DeleteConversationItem, handler
  <2>2. items' \in [Convs -> [ItemIds -> ItemRow \cup {None}]]
    BY <1>3, <2>1 DEF TypeInv, TypeOK
  <2>3. older' \in [Convs -> [ItemIds -> SUBSET ItemIds]]
    BY <1>3, <2>1 DEF TypeInv, TypeOK
  <2>4. seen' \in [Slots -> SUBSET ItemIds]
    BY <2>1 DEF SeenWithout, Present, TypeInv, TypeOK
  <2>5. TypeOK'
    BY <1>1, <2>1, <2>2, <2>3, <2>4 DEF TypeInv, TypeOK, Steps
  <2>6. Shape'
    BY <1>1, <2>1 DEF TypeInv, TypeOK, Shape, Steps
  <2> QED BY <2>5, <2>6 DEF TypeInv
<1> QED BY <1>4, <1>5

LEMMA TypeItemPosition ==
    ASSUME TypeInv, NEW s \in Slots, ItemPosition(s)
    PROVE  TypeInv'
<1> DEFINE row == items[input[s].conv][cursor[s].id]
<1>1. /\ pc[s] = "item_position"
      /\ UNCHANGED <<convs, items, older, now, started, announced, birth>>
      /\ UNCHANGED <<input, existing, start, acc>>
  BY DEF ItemPosition, Unwritten, tables, handler
<1>2. input[s] \in Requests /\ cursor[s].id \in ItemIds
  BY <1>1 DEF TypeInv, TypeOK, Shape
<1>3. row \in ItemRow \cup {None}
  BY <1>2 DEF TypeInv, TypeOK, Requests
<1>4. \/ /\ row = None
         /\ Continue(s, "update_messages")
         /\ UNCHANGED cursor
      \/ /\ row # None
         /\ cursor' = [cursor EXCEPT ![s].pos = row.position]
         /\ Continue(s, "list_items")
  BY DEF ItemPosition, handler
<1>5. TypeOK'
  <2>1. cursor' \in [Slots -> [id : ItemIds \cup {None}, pos : Nat]]
    <3>1. cursor \in [Slots -> [id : ItemIds \cup {None}, pos : Nat]]
      BY DEF TypeInv, TypeOK
    <3>2. row # None => row.position \in Nat
      BY <1>3 DEF ItemRow
    <3> HIDE DEF row
    <3> QED BY <1>4, <3>1, <3>2
  <2>2. /\ pc' \in [Slots -> Steps]
        /\ status' \in [Slots -> {0, 200, 400, 404, 500}]
        /\ seen' \in [Slots -> SUBSET ItemIds]
    <3>1. PICK next \in {"update_messages", "list_items"} : Continue(s, next)
      BY <1>4
    <3> QED BY <1>1, <3>1, ContinueType DEF Steps
  <2> QED BY <1>1, <2>1, <2>2 DEF TypeInv, TypeOK
<1>6. Shape'
  BY <1>1, <1>4 DEF TypeInv, TypeOK, Shape, Continue, Steps
<1> QED BY <1>5, <1>6 DEF TypeInv

LEMMA TypeListItems ==
    ASSUME TypeInv, NEW s \in Slots, ListItems(s)
    PROVE  TypeInv'
<1> DEFINE c == input[s].conv
<1>1. /\ pc[s] = "list_items"
      /\ UNCHANGED <<convs, items, older, now, started, announced, birth>>
      /\ UNCHANGED <<input, existing, start>>
  BY DEF ListItems, Unwritten, tables
<1>2. input[s] \in Requests /\ c \in Convs
  BY <1>1 DEF TypeInv, TypeOK, Shape, Requests
<1>3. PICK page \in Pages(c, cursor[s]) :
        /\ acc' = [acc EXCEPT ![s] =
              @ \o [k \in 1..Len(page) |-> <<page[k], items[c][page[k]].data>>]]
        /\ \/ /\ LastPage(page)
              /\ Continue(s, "update_messages")
              /\ UNCHANGED cursor
           \/ /\ ~LastPage(page)
              /\ cursor' = [cursor EXCEPT ![s] = CursorAfter(page)]
              /\ Continue(s, "item_position")
  BY DEF ListItems
<1>4. /\ page \in Seq(ItemIds) /\ Len(page) \in 0..PageLimit
      /\ \A k \in 1..Len(page) : page[k] \in Present(c)
  BY <1>2, <1>3, PagesFacts DEF TypeInv
<1>5. \A k \in 1..Len(page) : <<page[k], items[c][page[k]].data>> \in Messages
  <2> TAKE k \in 1..Len(page)
  <2>1. page[k] \in ItemIds /\ items[c][page[k]] \in ItemRow
    BY <1>2, <1>4, PresentRow DEF TypeInv
  <2> QED BY <2>1 DEF ItemRow, Messages
<1>6. [k \in 1..Len(page) |-> <<page[k], items[c][page[k]].data>>] \in Seq(Messages)
  BY <1>4, <1>5
<1>7. acc' \in [Slots -> Seq(Messages)]
  BY <1>3, <1>6 DEF TypeInv, TypeOK
<1>8. ~LastPage(page) => CursorAfter(page).id \in ItemIds /\ CursorAfter(page).pos = 0
                         /\ CursorAfter(page) \in [id : ItemIds \cup {None}, pos : Nat]
  BY <1>4, ConstantsAssumption DEF LastPage, CursorAfter
<1>9. cursor' \in [Slots -> [id : ItemIds \cup {None}, pos : Nat]]
  <2>1. cursor \in [Slots -> [id : ItemIds \cup {None}, pos : Nat]]
    BY DEF TypeInv, TypeOK
  <2> QED BY <1>3, <1>8, <2>1
<1>10. /\ pc' \in [Slots -> Steps]
       /\ status' \in [Slots -> {0, 200, 400, 404, 500}]
       /\ seen' \in [Slots -> SUBSET ItemIds]
  <2>1. PICK next \in {"update_messages", "item_position"} :
            Continue(s, next)
    BY <1>3
  <2> QED BY <1>1, <2>1, ContinueType DEF Steps
<1>11. TypeOK'
  BY <1>1, <1>7, <1>9, <1>10 DEF TypeInv, TypeOK
<1>12. Shape'
  BY <1>1, <1>3, <1>8, NoneAssumption DEF TypeInv, TypeOK, Shape, Continue
<1> QED BY <1>11, <1>12 DEF TypeInv

LEMMA TypeUpdateMessages ==
    ASSUME TypeInv, NEW s \in Slots, UpdateMessages(s)
    PROVE  TypeInv'
<1>1. /\ pc[s] = "update_messages"
      /\ convs' = SyncedTable(s)
      /\ UNCHANGED <<items, older, now, started, announced, birth>>
  BY DEF UpdateMessages
<1>2. input[s] \in Requests /\ acc[s] \in Seq(Messages)
  BY <1>1 DEF TypeInv, TypeOK, Shape
<1>3. convs' \in [Convs -> ConvRow \cup {None}]
  <2>1. input[s].conv \in Convs
    BY <1>2 DEF Requests
  <2>2. \A r \in ConvRow : [r EXCEPT !.messages = acc[s]] \in ConvRow
    BY <1>2 DEF ConvRow
  <2> QED BY <1>1, <2>1, <2>2 DEF SyncedTable, TypeInv, TypeOK
<1>4. CASE Respond(s, 500)
  BY <1>1, <1>3, <1>4, RespondType DEF TypeInv, TypeOK
<1>5. CASE Respond(s, 200)
  BY <1>1, <1>3, <1>5, RespondType DEF TypeInv, TypeOK
<1>6. CASE ~Respond(s, 500) /\ ~Respond(s, 200)
  <2>1. /\ Continue(s, "get_result")
        /\ UNCHANGED <<input, existing, start, acc, cursor>>
    BY <1>6 DEF UpdateMessages, handler
  <2>2. TypeOK'
    BY <1>1, <1>3, <2>1 DEF TypeInv, TypeOK, Continue, Steps
  <2>3. Shape'
    BY <1>1, <2>1 DEF TypeInv, TypeOK, Shape, Continue, Steps
  <2> QED BY <2>2, <2>3 DEF TypeInv
<1> QED BY <1>4, <1>5, <1>6

LEMMA TypeGetResult ==
    ASSUME TypeInv, NEW s \in Slots, GetResult(s)
    PROVE  TypeInv'
<1>1. UNCHANGED <<convs, items, older, now, started, announced, birth>>
  BY DEF GetResult, Unwritten, tables
<1>2. CASE Respond(s, 200)
  BY <1>1, <1>2, RespondType DEF TypeInv, TypeOK
<1>3. CASE Respond(s, 404)
  BY <1>1, <1>3, RespondType DEF TypeInv, TypeOK
<1> QED BY <1>2, <1>3 DEF GetResult

LEMMA TypeStep ==
    ASSUME TypeInv, [Next]_vars
    PROVE  TypeInv'
<1>1. ASSUME NEW s \in Slots, Arrive(s) PROVE TypeInv'
  BY <1>1, TypeArrive
<1>2. ASSUME NEW s \in Slots, StoreCall(s) PROVE TypeInv'
  BY <1>2, TypeGetConversation, TypeUpsert, TypeDeleteConversationRow,
     TypeMaxItemPosition, TypeExistingItemIds, TypeCreateConversationItems,
     TypeDeleteConversationItem, TypeItemPosition, TypeListItems,
     TypeUpdateMessages, TypeGetResult DEF StoreCall
<1>3. ASSUME NEW s \in Slots, StoreError(s) PROVE TypeInv'
  <2>1. /\ Respond(s, 500)
        /\ UNCHANGED <<convs, items, older, now, started, announced, birth>>
    BY <1>3 DEF StoreError, Unwritten, tables
  <2> QED BY <2>1, RespondType DEF TypeInv, TypeOK
<1>4. CASE Restart
  BY <1>4 DEF Restart, Unwritten, tables, TypeInv, TypeOK, Shape, Steps, NoCursor
<1>5. CASE Tick
  BY <1>5 DEF Tick, tables, handler, TypeInv, TypeOK, Shape
<1>6. CASE UNCHANGED vars
  BY <1>6 DEF vars, TypeInv, TypeOK, Shape
<1> QED BY <1>1, <1>2, <1>3, <1>4, <1>5, <1>6 DEF Next, Quiesced

\* The type invariant together with Shape, which makes it inductive.
LEMMA TypeInvariance == Spec => []TypeInv
<1>1. Init => TypeInv
  BY DEF Init, TypeInv, TypeOK, Shape, Steps, NoCursor
<1>2. TypeInv /\ [Next]_vars => TypeInv'
  BY TypeStep
<1> QED BY <1>1, <1>2, PTL DEF Spec

\* Every state of every behaviour is well-typed: whatever the interleaving, a
\* handler finds the record, cursor or position its store call needs.
THEOREM TypeCorrect == Spec => []TypeOK
BY TypeInvariance, PTL DEF TypeInv

-----------------------------------------------------------------------------
(* The creation time                                                       *)

\* A handler that holds a conversation record holds the creation time its id
\* was given, however long ago it read the row.
BirthSlot(s) ==
    input[s] # None =>
        /\ birth[input[s].conv] # None
        /\ existing[s] # None => existing[s].created_at = birth[input[s].conv]

BirthInv ==
    /\ \A s \in Slots : BirthSlot(s)
    /\ \A c \in announced : birth[c] # None
    /\ CreatedAtPreserved

LEMMA BirthQuiet ==
    ASSUME TypeInv, BirthInv, NEW s \in Slots,
           UNCHANGED <<convs, birth>>,
           \A t \in Slots \ {s} : input'[t] = input[t] /\ existing'[t] = existing[t],
           \A c \in announced' : birth[c] # None,
           BirthSlot(s)'
    PROVE  BirthInv'
BY DEF BirthInv, BirthSlot, CreatedAtPreserved

LEMMA BirthArrive ==
    ASSUME TypeInv, BirthInv, NEW s \in Slots, Arrive(s)
    PROVE  BirthInv'
<1>1. CASE CreateConversation(s)
  <2>1. PICK c \in Convs, m \in Metas, its \in Payloads :
            /\ birth[c] = None
            /\ birth' = [birth EXCEPT ![c] = now]
            /\ Accept(s, Request("create_conversation", c, m, its, "ok", None),
                      "upsert_conversation",
                      [created_at |-> now, metadata |-> m, messages |-> its])
    BY <1>1 DEF CreateConversation
  <2>2. now # None /\ birth'[c] = now
    BY <2>1, NoneAssumption DEF TypeInv, TypeOK
  <2>3. /\ input' = [input EXCEPT ![s] =
                Request("create_conversation", c, m, its, "ok", None)]
        /\ existing' = [existing EXCEPT ![s] =
                [created_at |-> now, metadata |-> m, messages |-> its]]
        /\ UNCHANGED <<convs, announced>>
    BY <2>1 DEF Accept, tables
  <2>4. \A d \in Convs : birth[d] # None => birth'[d] = birth[d]
    BY <2>1 DEF TypeInv, TypeOK
  <2>5. BirthSlot(s)'
    BY <2>2, <2>3 DEF BirthSlot, Request, TypeInv, TypeOK
  <2>6. ASSUME NEW t \in Slots \ {s} PROVE BirthSlot(t)'
    <3>1. input'[t] = input[t] /\ existing'[t] = existing[t]
      BY <2>3 DEF TypeInv, TypeOK
    <3>2. input[t] # None => input[t].conv \in Convs
      BY DEF TypeInv, TypeOK, Requests
    <3> QED BY <2>4, <3>1, <3>2 DEF BirthInv, BirthSlot
  <2>7. CreatedAtPreserved'
    <3>1. convs[c] = None
      BY <2>1, NoneAssumption DEF BirthInv, CreatedAtPreserved, TypeInv, TypeOK, ConvRow
    <3> QED BY <2>1, <2>3, <2>4, <3>1 DEF BirthInv, CreatedAtPreserved, TypeInv, TypeOK
  <2>8. \A d \in announced' : birth'[d] # None
    BY <2>3, <2>4 DEF BirthInv, TypeInv, TypeOK
  <2> QED BY <2>5, <2>6, <2>7, <2>8 DEF BirthInv
<1>2. CASE ~CreateConversation(s) /\ ~RejectInvalid(s)
  <2>1. PICK req \in Requests, step \in Steps :
            /\ Accept(s, req, step, None) /\ UNCHANGED birth
            /\ req.conv \in announced
    BY <1>2, ArriveForm DEF Steps
  <2> QED BY <2>1, BirthQuiet DEF Accept, tables, BirthInv, BirthSlot, TypeInv, TypeOK
<1>3. CASE RejectInvalid(s)
  BY <1>3, BirthQuiet
     DEF RejectInvalid, Respond, tables, BirthInv, BirthSlot, TypeInv, TypeOK
<1> QED BY <1>1, <1>2, <1>3

\* A store call is made by a request in flight and leaves the handlers of the
\* other requests alone.
LEMMA StoreCallFrame ==
    ASSUME TypeInv, NEW s \in Slots, StoreCall(s)
    PROVE  /\ pc[s] # "idle"
           /\ input[s] # None /\ input[s] \in Requests /\ input[s].conv \in Convs
           /\ input'[s] \in {input[s], None}
           /\ birth' = birth
           /\ announced' \subseteq announced \cup {input[s].conv}
           /\ \A t \in Slots \ {s} :
                 /\ pc'[t] = pc[t] /\ input'[t] = input[t]
                 /\ existing'[t] = existing[t] /\ start'[t] = start[t]
                 /\ acc'[t] = acc[t] /\ cursor'[t] = cursor[t]
<1>1. pc[s] # "idle" /\ birth' = birth
  BY DEF StoreCall, GetConversation, UpsertConversation, DeleteConversationRow,
         MaxItemPosition, ExistingItemIds, CreateConversationItems,
         DeleteConversationItem, ItemPosition, ListItems, UpdateMessages,
         GetResult
<1>2. input[s] # None /\ input[s] \in Requests /\ input[s].conv \in Convs
  BY <1>1 DEF TypeInv, TypeOK, Shape, Requests
<1>3. announced' \subseteq announced \cup {input[s].conv}
  BY DEF StoreCall, GetConversation, UpsertConversation, DeleteConversationRow,
         MaxItemPosition, ExistingItemIds, CreateConversationItems,
         DeleteConversationItem, ItemPosition, ListItems, UpdateMessages,
         GetResult
<1> DEFINE Frame ==
        /\ input'[s] \in {input[s], None}
        /\ \A t \in Slots \ {s} :
              /\ pc'[t] = pc[t] /\ input'[t] = input[t]
              /\ existing'[t] = existing[t] /\ start'[t] = start[t]
              /\ acc'[t] = acc[t] /\ cursor'[t] = cursor[t]
<1>4. ASSUME NEW code, Respond(s, code) PROVE Frame
  BY <1>4 DEF Respond, TypeInv, TypeOK
<1>5. ASSUME NEW n, pc' = [pc EXCEPT ![s] = n], input' = input,
             \A t \in Slots \ {s} :
                 /\ existing'[t] = existing[t] /\ start'[t] = start[t]
                 /\ acc'[t] = acc[t] /\ cursor'[t] = cursor[t]
      PROVE  Frame
  BY <1>5 DEF TypeInv, TypeOK
<1> HIDE DEF Frame
<1>6. ASSUME GetConversation(s) PROVE Frame
  BY <1>4, <1>5, <1>6 DEF GetConversation, Continue, handler, TypeInv, TypeOK
<1>7. ASSUME UpsertConversation(s) PROVE Frame
  BY <1>4, <1>5, <1>7 DEF UpsertConversation, Continue, handler, TypeInv, TypeOK
<1>8. ASSUME DeleteConversationRow(s) PROVE Frame
  BY <1>4, <1>5, <1>8 DEF DeleteConversationRow, Continue, handler, TypeInv, TypeOK
<1>9. ASSUME MaxItemPosition(s) PROVE Frame
  BY <1>4, <1>5, <1>9 DEF MaxItemPosition, Continue, handler, TypeInv, TypeOK
<1>10. ASSUME ExistingItemIds(s) PROVE Frame
  BY <1>4, <1>5, <1>10 DEF ExistingItemIds, Continue, handler, TypeInv, TypeOK
<1>11. ASSUME CreateConversationItems(s) PROVE Frame
  BY <1>4, <1>5, <1>11 DEF CreateConversationItems, Continue, handler, TypeInv, TypeOK
<1>12. ASSUME DeleteConversationItem(s) PROVE Frame
  BY <1>4, <1>5, <1>12 DEF DeleteConversationItem, Continue, handler, TypeInv, TypeOK
<1>13. ASSUME ItemPosition(s) PROVE Frame
  BY <1>4, <1>5, <1>13 DEF ItemPosition, Continue, handler, TypeInv, TypeOK
<1>14. ASSUME ListItems(s) PROVE Frame
  BY <1>4, <1>5, <1>14 DEF ListItems, Continue, handler, TypeInv, TypeOK
<1>15. ASSUME UpdateMessages(s) PROVE Frame
  BY <1>4, <1>5, <1>15 DEF UpdateMessages, Continue, handler, TypeInv, TypeOK
<1>16. ASSUME GetResult(s) PROVE Frame
  BY <1>4, <1>5, <1>16 DEF GetResult, Continue, handler, TypeInv, TypeOK
<1>17. Frame
  BY <1>6, <1>7, <1>8, <1>9, <1>10, <1>11, <1>12, <1>13, <1>14, <1>15, <1>16
     DEF StoreCall
<1> QED BY <1>1, <1>2, <1>3, <1>17 DEF Frame

LEMMA BirthStoreCall ==
    ASSUME TypeInv, BirthInv, NEW s \in Slots, StoreCall(s)
    PROVE  BirthInv'
<1> DEFINE c == input[s].conv
<1>1. /\ c \in Convs /\ birth[c] # None
      /\ \A d \in announced' : birth[d] # None
      /\ birth' = birth
  BY StoreCallFrame DEF BirthInv, BirthSlot
<1>2. \A t \in Slots \ {s} : BirthSlot(t)'
  BY StoreCallFrame DEF BirthInv, BirthSlot
<1>3. \/ existing'[s] \in {existing[s], None}
      \/ existing'[s] = convs[c] /\ convs[c] # None
  <2>1. ASSUME NEW code, Respond(s, code) PROVE existing'[s] = None
    BY <2>1 DEF Respond, TypeInv, TypeOK
  <2>2. CASE GetConversation(s)
    BY <2>1, <2>2 DEF GetConversation, TypeInv, TypeOK
  <2>3. CASE UNCHANGED existing \/ existing'[s] = None
    BY <2>3
  <2>4. CASE UpsertConversation(s)
    BY <2>1, <2>3, <2>4 DEF UpsertConversation
  <2>5. CASE DeleteConversationRow(s)
    BY <2>1, <2>5 DEF DeleteConversationRow
  <2>6. CASE MaxItemPosition(s) \/ ExistingItemIds(s)
    BY <2>1, <2>3, <2>6 DEF MaxItemPosition, ExistingItemIds, handler
  <2>7. CASE CreateConversationItems(s) \/ DeleteConversationItem(s)
    BY <2>1, <2>3, <2>7 DEF CreateConversationItems, DeleteConversationItem, handler
  <2>8. CASE ItemPosition(s) \/ ListItems(s)
    BY <2>3, <2>8 DEF ItemPosition, ListItems, handler
  <2>9. CASE UpdateMessages(s) \/ GetResult(s)
    BY <2>1, <2>3, <2>9 DEF UpdateMessages, GetResult, handler
  <2> QED BY <2>2, <2>4, <2>5, <2>6, <2>7, <2>8, <2>9 DEF StoreCall
<1>4. BirthSlot(s)'
  BY <1>1, <1>3, StoreCallFrame DEF BirthInv, BirthSlot, CreatedAtPreserved
<1>5. CreatedAtPreserved'
  <2>1. CASE UpsertConversation(s)
    <3>1. convs' = [convs EXCEPT ![c] = UpsertedRow(s)] /\ existing[s] # None
      BY <2>1 DEF UpsertConversation, TypeInv, Shape
    <3>2. UpsertedRow(s).created_at = birth[c]
      BY <1>1, <3>1, StoreCallFrame
         DEF UpsertedRow, BirthInv, BirthSlot, CreatedAtPreserved
    <3> QED BY <1>1, <3>1, <3>2 DEF BirthInv, CreatedAtPreserved, TypeInv, TypeOK
  <2>2. CASE DeleteConversationRow(s)
    BY <1>1, <2>2 DEF DeleteConversationRow, BirthInv, CreatedAtPreserved, TypeInv, TypeOK
  <2>3. CASE UpdateMessages(s)
    <3>1. \A r \in ConvRow : [r EXCEPT !.messages = acc[s]].created_at = r.created_at
      BY DEF ConvRow
    <3> QED BY <1>1, <2>3, <3>1
       DEF UpdateMessages, SyncedTable, BirthInv, CreatedAtPreserved, TypeInv, TypeOK
  <2>4. CASE UNCHANGED convs
    BY <1>1, <2>4 DEF BirthInv, CreatedAtPreserved
  <2> QED BY <2>1, <2>2, <2>3, <2>4
     DEF StoreCall, GetConversation, MaxItemPosition, ExistingItemIds,
         CreateConversationItems, DeleteConversationItem, ItemPosition,
         ListItems, GetResult, Unwritten, tables
<1> QED BY <1>1, <1>2, <1>4, <1>5 DEF BirthInv

LEMMA BirthStep ==
    ASSUME TypeInv, BirthInv, [Next]_vars
    PROVE  BirthInv'
<1>1. ASSUME NEW s \in Slots, StoreError(s) PROVE BirthInv'
  BY <1>1, BirthQuiet
     DEF StoreError, Respond, Unwritten, tables, BirthInv, BirthSlot, TypeInv, TypeOK
<1>2. CASE Restart
  BY <1>2 DEF Restart, Unwritten, tables, BirthInv, BirthSlot, CreatedAtPreserved
<1>3. CASE Tick
  BY <1>3 DEF Tick, tables, handler, BirthInv, BirthSlot, CreatedAtPreserved
<1>4. CASE UNCHANGED vars
  BY <1>4 DEF vars, BirthInv, BirthSlot, CreatedAtPreserved
<1> QED BY <1>1, <1>2, <1>3, <1>4, BirthArrive, BirthStoreCall DEF Next, Quiesced

\* A conversation row always carries the creation time its id was given, also
\* when an update puts the row back after a concurrent deletion.
THEOREM CreationTimePreserved == Spec => []CreatedAtPreserved
<1>1. Init => BirthInv
  BY DEF Init, BirthInv, BirthSlot, CreatedAtPreserved
<1>2. TypeInv /\ BirthInv /\ [Next]_vars => BirthInv'
  BY BirthStep
<1>3. BirthInv => CreatedAtPreserved
  BY DEF BirthInv
<1> QED BY <1>1, <1>2, <1>3, TypeInvariance, PTL DEF Spec

-----------------------------------------------------------------------------
(* The item table and the message sync                                     *)

\* Once an items batch is numbered, its numbers lie above every item that has
\* been there since the request began.
AppendSlot(s) ==
    input[s] # None =>
        /\ seen[s] \subseteq Present(input[s].conv)
        /\ input[s].op = "create_conversation" =>
              seen[s] = {} /\ ~Duplicate(input[s].items)
        /\ pc[s] \in {"existing_item_ids", "create_conversation_items"} =>
              /\ ~Duplicate(input[s].items)
              /\ \A i \in seen[s] : items[input[s].conv][i].position < start[s]

AppendInv ==
    /\ \A s \in Slots : AppendSlot(s)
    /\ \A c \in Convs : birth[c] = None => Present(c) = {}
    /\ AppendOrder

\* The item rows that a step leaves in the table are the rows it found there.
RowsKept ==
    \A c \in Convs : \A i \in ItemIds :
        items[c][i] # None /\ items'[c][i] # None => items'[c][i] = items[c][i]

-----------------------------------------------------------------------------
(* The three ways a store call treats the item table                       *)

Inserts(s) == CreateConversationItems(s) /\ ~KeyConflict(s)

Deletes(s) ==
    DeleteConversationItem(s) /\ items[input[s].conv][input[s].item] # None

LEMMA StoreCallKinds ==
    ASSUME TypeInv, NEW s \in Slots, StoreCall(s), ~Inserts(s), ~Deletes(s)
    PROVE  /\ UNCHANGED <<items, older>>
           /\ \A t \in Slots \ {s} : seen'[t] = seen[t]
           /\ \/ input'[s] = None
              \/ input'[s] = input[s] /\ seen'[s] = seen[s]
<1> DEFINE Kind ==
        /\ UNCHANGED <<items, older>>
        /\ \A t \in Slots \ {s} : seen'[t] = seen[t]
        /\ \/ input'[s] = None
           \/ input'[s] = input[s] /\ seen'[s] = seen[s]
<1>1. ASSUME NEW code, Respond(s, code), UNCHANGED <<items, older>> PROVE Kind
  BY <1>1 DEF Respond, TypeInv, TypeOK
<1>2. ASSUME NEW n, Continue(s, n), UNCHANGED <<items, older, input>> PROVE Kind
  BY <1>2 DEF Continue
<1> HIDE DEF Kind
<1>3. CASE GetConversation(s)
  BY <1>1, <1>2, <1>3 DEF GetConversation, Unwritten, tables, Kind
<1>4. CASE UpsertConversation(s)
  BY <1>1, <1>2, <1>4 DEF UpsertConversation, Kind
<1>5. CASE DeleteConversationRow(s)
  BY <1>1, <1>5 DEF DeleteConversationRow, Kind
<1>6. CASE MaxItemPosition(s)
  BY <1>1, <1>2, <1>6 DEF MaxItemPosition, Unwritten, tables, Kind
<1>7. CASE ExistingItemIds(s)
  BY <1>1, <1>2, <1>7 DEF ExistingItemIds, Unwritten, tables, handler, Kind
<1>8. CASE CreateConversationItems(s)
  BY <1>1, <1>8 DEF CreateConversationItems, Inserts, AfterRollback, Kind
<1>9. CASE DeleteConversationItem(s)
  BY <1>1, <1>9 DEF DeleteConversationItem, Deletes, Unwritten, tables, Kind
<1>10. CASE ItemPosition(s)
  BY <1>2, <1>10 DEF ItemPosition, Unwritten, tables, handler, Kind
<1>11. CASE ListItems(s)
  BY <1>2, <1>11 DEF ListItems, Unwritten, tables, Kind
<1>12. CASE UpdateMessages(s)
  BY <1>1, <1>2, <1>12 DEF UpdateMessages, handler, Kind
<1>13. CASE GetResult(s)
  BY <1>1, <1>13 DEF GetResult, Unwritten, tables, Kind
<1> QED
  BY <1>3, <1>4, <1>5, <1>6, <1>7, <1>8, <1>9, <1>10, <1>11, <1>12, <1>13
     DEF StoreCall

LEMMA InsertFacts ==
    ASSUME TypeInv, NEW s \in Slots, Inserts(s),
           NEW c, c = input[s].conv, NEW new, new = Ids(input[s].items)
    PROVE  /\ c \in Convs /\ new \subseteq ItemIds /\ new \cap Present(c) = {}
           /\ \A d \in Convs : \A i \in ItemIds :
                 /\ items'[d][i] = IF d = c /\ i \in new THEN NewRow(s, i) ELSE items[d][i]
                 /\ older'[d][i] = IF d = c /\ i \in new THEN OlderThanNew(s, i) ELSE older[d][i]
           /\ \A i \in new : NewRow(s, i) \in ItemRow /\ NewRow(s, i) # None
           /\ \A t \in Slots \ {s} : seen'[t] = seen[t]
           /\ \/ input'[s] = None
              \/ /\ input'[s] = input[s] /\ pc'[s] = "list_items"
                 /\ seen'[s] = Present(c) \cup new
<1>1. pc[s] = "create_conversation_items"
  BY DEF Inserts, CreateConversationItems
<1>2. input[s] \in Requests /\ input[s] # None
  BY <1>1 DEF TypeInv, TypeOK, Shape
<1>3. c \in Convs /\ input[s].items \in Seq(Messages)
  BY <1>2 DEF Requests
<1>4. \A k \in DOMAIN input[s].items : input[s].items[k] \in Messages
  BY <1>3
<1>5. new \subseteq ItemIds
  BY <1>4 DEF Messages, Ids
<1>6. new \cap Present(c) = {}
  BY DEF Inserts, KeyConflict
<1>7. /\ items' = [items EXCEPT ![c] =
            [i \in ItemIds |-> IF i \in new THEN NewRow(s, i) ELSE items[c][i]]]
      /\ older' = [older EXCEPT ![c] =
            [i \in ItemIds |-> IF i \in new THEN OlderThanNew(s, i) ELSE older[c][i]]]
      /\ \/ Respond(s, 200)
         \/ /\ pc' = [pc EXCEPT ![s] = "list_items"]
            /\ seen' = [seen EXCEPT ![s] = Present(c) \cup new]
            /\ input' = input
  BY DEF Inserts, CreateConversationItems, handler
<1>8. \A i \in new : NewRow(s, i) \in ItemRow
  BY <1>2, NewRowFacts DEF TypeInv
<1>9. \A i \in new : NewRow(s, i) # None
  BY <1>8, NoneAssumption
<1>10. \A d \in Convs : \A i \in ItemIds :
         /\ items'[d][i] = IF d = c /\ i \in new THEN NewRow(s, i) ELSE items[d][i]
         /\ older'[d][i] = IF d = c /\ i \in new THEN OlderThanNew(s, i) ELSE older[d][i]
  BY <1>3, <1>7 DEF TypeInv, TypeOK
<1>11. /\ \A t \in Slots \ {s} : seen'[t] = seen[t]
       /\ \/ input'[s] = None
          \/ /\ input'[s] = input[s] /\ pc'[s] = "list_items"
             /\ seen'[s] = Present(c) \cup new
  BY <1>7 DEF Respond, TypeInv, TypeOK
<1> QED BY <1>3, <1>5, <1>6, <1>8, <1>9, <1>10, <1>11

\* The deletion of item i takes i out of the table, out of every order and out
\* of what the other requests rely on.
DeleteEffect(s, c, i) ==
    /\ c \in Convs /\ i \in Present(c) /\ items'[c][i] = None
    /\ \A d \in Convs : \A j \in ItemIds :
          d # c \/ j # i => items'[d][j] = items[d][j]
    /\ \A d \in Convs : \A j \in ItemIds : older'[d][j] \subseteq older[d][j]
    /\ \A j \in ItemIds : i \notin older'[c][j]
    /\ \A t \in Slots \ {s} :
          /\ seen'[t] \subseteq seen[t]
          /\ input[t] # None /\ input[t].conv = c =>
                i \notin seen'[t] /\ (cursor[t].id = i => seen'[t] = {})
    /\ seen'[s] = Present(c) \ {i}
    /\ pc'[s] = "list_items" /\ UNCHANGED <<input, acc, cursor>>

LEMMA DeleteFacts ==
    ASSUME TypeInv, NEW s \in Slots, Deletes(s)
    PROVE  DeleteEffect(s, input[s].conv, input[s].item)
<1>0. PICK c, i : c = input[s].conv /\ i = input[s].item
  OBVIOUS
<1>1. pc[s] = "delete_conversation_item" /\ items[c][i] # None
  BY <1>0 DEF Deletes, DeleteConversationItem
<1>2. input[s] \in Requests /\ input[s] # None
  BY <1>1 DEF TypeInv, TypeOK, Shape
<1>3. c \in Convs /\ i \in ItemIds
  BY <1>0, <1>1, <1>2 DEF TypeInv, Shape, Requests
<1>4. /\ items' = [items EXCEPT ![c][i] = None]
      /\ older' = [older EXCEPT ![c] =
            [j \in ItemIds |-> IF j = i THEN {} ELSE older[c][j] \ {i}]]
      /\ pc' = [pc EXCEPT ![s] = "list_items"]
      /\ seen' = [SeenWithout(c, i) EXCEPT ![s] = Present(c) \ {i}]
      /\ UNCHANGED <<input, acc, cursor>>
  BY <1>0, <1>1 DEF Deletes, DeleteConversationItem, handler
<1>5. i \in Present(c)
  BY <1>1, <1>3 DEF Present
<1>6. /\ items'[c][i] = None
      /\ \A d \in Convs : \A j \in ItemIds :
            d # c \/ j # i => items'[d][j] = items[d][j]
  BY <1>3, <1>4 DEF TypeInv, TypeOK
<1>7. \A d \in Convs : \A j \in ItemIds : /\ older'[d][j] \subseteq older[d][j]
                                          /\ i \notin older'[c][j]
  BY <1>3, <1>4 DEF TypeInv, TypeOK
<1>8. \A t \in Slots \ {s} :
          /\ seen'[t] \subseteq seen[t]
          /\ input[t] # None /\ input[t].conv = c =>
                i \notin seen'[t] /\ (cursor[t].id = i => seen'[t] = {})
  BY <1>4 DEF SeenWithout
<1>9. seen'[s] = Present(c) \ {i} /\ pc'[s] = "list_items"
  BY <1>4 DEF SeenWithout, TypeInv, TypeOK
<1>10. DeleteEffect(s, c, i)
  BY <1>3, <1>4, <1>5, <1>6, <1>7, <1>8, <1>9 DEF DeleteEffect
<1> QED BY <1>0, <1>10

LEMMA RowsKeptByStoreCall ==
    ASSUME TypeInv, NEW s \in Slots, StoreCall(s)
    PROVE  RowsKept
<1>0. PICK c, new, i : c = input[s].conv /\ new = Ids(input[s].items) /\ i = input[s].item
  OBVIOUS
<1>1. CASE Inserts(s)
  BY <1>0, <1>1, InsertFacts DEF RowsKept, Present
<1>2. CASE Deletes(s)
  <2>1. DeleteEffect(s, c, i)
    BY <1>0, <1>2, DeleteFacts
  <2> QED BY <2>1 DEF RowsKept, DeleteEffect
<1>3. CASE ~Inserts(s) /\ ~Deletes(s)
  BY <1>3, StoreCallKinds DEF RowsKept
<1> QED BY <1>1, <1>2, <1>3

\* The other steps leave both tables of items alone.
LEMMA OtherStepsKeepItems ==
    ASSUME [Next]_vars, ~\E s \in Slots : StoreCall(s)
    PROVE  UNCHANGED <<items, older>>
BY DEF Next, Arrive, CreateConversation, UpdateConversation, DeleteConversation,
       CreateItems, DeleteItem, RejectInvalid, Accept, StoreError, Restart, Tick,
       Quiesced, Unwritten, tables, vars

\* No step overwrites an item row: the unchecked race between the id check and
\* the insert of two requests ends in a key conflict, never in a replaced row.
THEOREM ItemRowsNeverOverwritten == Spec => ItemRowsImmutable
<1>1. TypeInv /\ [Next]_vars =>
        [\A c \in Convs : \A i \in ItemIds :
            items[c][i] # None /\ items'[c][i] # None => items'[c][i] = items[c][i]]_items
  <2> SUFFICES ASSUME TypeInv, [Next]_vars PROVE RowsKept
    BY DEF RowsKept
  <2>1. CASE \E s \in Slots : StoreCall(s)
    BY <2>1, RowsKeptByStoreCall
  <2>2. CASE ~\E s \in Slots : StoreCall(s)
    BY <2>2, OtherStepsKeepItems DEF RowsKept
  <2> QED BY <2>1, <2>2
<1> QED BY <1>1, TypeInvariance, PTL DEF Spec, ItemRowsImmutable

-----------------------------------------------------------------------------
(* The order of the listing                                                *)

LEMMA AppendArrive ==
    ASSUME TypeInv, BirthInv, AppendInv, NEW s \in Slots, Arrive(s)
    PROVE  AppendInv'
<1>1. UNCHANGED <<items, older>> /\ \A d \in Convs : birth'[d] = None => birth[d] = None
  BY NoneAssumption
     DEF Arrive, CreateConversation, UpdateConversation, DeleteConversation,
         CreateItems, DeleteItem, RejectInvalid, Accept, tables, TypeInv, TypeOK
<1>2. \A c \in Convs : Present(c)' = Present(c)
  BY <1>1 DEF Present
<1>3. AppendOrder' /\ \A c \in Convs : birth'[c] = None => Present(c)' = {}
  BY <1>1, <1>2 DEF AppendInv, AppendOrder
<1>4. \A t \in Slots \ {s} : /\ pc'[t] = pc[t] /\ input'[t] = input[t]
                             /\ seen'[t] = seen[t] /\ start'[t] = start[t]
  <2>1. CASE RejectInvalid(s)
    BY <2>1 DEF RejectInvalid, Respond, TypeInv, TypeOK
  <2>2. CASE ~RejectInvalid(s)
    BY <2>2 DEF Arrive, CreateConversation, UpdateConversation, DeleteConversation,
         CreateItems, DeleteItem, Accept, TypeInv, TypeOK
  <2> QED BY <2>1, <2>2
<1>5. \A t \in Slots \ {s} : AppendSlot(t)'
  <2> TAKE t \in Slots \ {s}
  <2>1. input[t] # None => input[t].conv \in Convs
    BY DEF TypeInv, TypeOK, Requests
  <2> QED BY <1>1, <1>2, <1>4, <2>1 DEF AppendInv, AppendSlot
<1>6. AppendSlot(s)'
  <2>1. CASE CreateConversation(s)
    <3>1. PICK c \in Convs, m \in Metas, its \in Payloads :
            /\ birth[c] = None
            /\ ~Duplicate(its)
            /\ Accept(s, Request("create_conversation", c, m, its, "ok", None),
                      "upsert_conversation",
                      [created_at |-> now, metadata |-> m, messages |-> its])
      BY <2>1 DEF CreateConversation
    <3>2. Present(c) = {}
      BY <3>1 DEF AppendInv
    <3>3. /\ input'[s] = Request("create_conversation", c, m, its, "ok", None)
          /\ seen'[s] = {} /\ pc'[s] = "upsert_conversation"
      BY <3>1, <3>2 DEF Accept, Request, TypeInv, TypeOK
    <3> QED BY <3>1, <3>3 DEF AppendSlot, Request
  <2>2. CASE RejectInvalid(s)
    BY <2>2 DEF RejectInvalid, Respond, AppendSlot, TypeInv, TypeOK
  <2>3. CASE ~CreateConversation(s) /\ ~RejectInvalid(s)
    <3>1. PICK req \in Requests, step \in {"get_conversation", "delete_conversation"} :
            /\ Accept(s, req, step, None)
            /\ req.conv \in announced
            /\ req.op # "create_conversation"
      BY <2>3, ArriveForm
    <3>2. /\ input'[s] = req /\ seen'[s] = Present(req.conv) /\ pc'[s] = step
      BY <3>1 DEF Accept, TypeInv, TypeOK
    <3>3. Present(req.conv)' = Present(req.conv)
      BY <1>2, <3>1 DEF TypeInv, TypeOK
    <3> QED BY <3>1, <3>2, <3>3 DEF AppendSlot
  <2> QED BY <2>1, <2>2, <2>3
<1> QED BY <1>3, <1>5, <1>6 DEF AppendInv

LEMMA AppendInsert ==
    ASSUME TypeInv, BirthInv, AppendInv, NEW s \in Slots, StoreCall(s), Inserts(s)
    PROVE  AppendInv'
<1>0. PICK c, its, new : c = input[s].conv /\ its = input[s].items /\ new = Ids(its)
  OBVIOUS
<1>1. /\ c \in Convs /\ new \subseteq ItemIds /\ new \cap Present(c) = {}
      /\ \A d \in Convs : \A i \in ItemIds :
            /\ items'[d][i] = IF d = c /\ i \in new THEN NewRow(s, i) ELSE items[d][i]
            /\ older'[d][i] = IF d = c /\ i \in new THEN OlderThanNew(s, i) ELSE older[d][i]
      /\ \A i \in new : NewRow(s, i) \in ItemRow /\ NewRow(s, i) # None
      /\ \A t \in Slots \ {s} : seen'[t] = seen[t]
      /\ \/ input'[s] = None
         \/ /\ input'[s] = input[s] /\ pc'[s] = "list_items"
            /\ seen'[s] = Present(c) \cup new
  BY <1>0, InsertFacts
<1>2. /\ input[s] # None /\ birth' = birth /\ birth[c] # None
      /\ pc[s] = "create_conversation_items" /\ start[s] \in Nat
      /\ its \in Seq(Messages)
  <2>1. input[s] # None /\ input[s] \in Requests /\ birth' = birth
    BY StoreCallFrame
  <2> QED BY <1>0, <2>1 DEF BirthInv, BirthSlot, Inserts, CreateConversationItems, Requests,
                      TypeInv, TypeOK
<1>3. /\ ~Duplicate(its) /\ seen[s] \subseteq Present(c)
      /\ \A i \in seen[s] : items[c][i].position < start[s]
  BY <1>0, <1>2 DEF AppendInv, AppendSlot
<1>4. ASSUME NEW i \in new
      PROVE  \E k \in DOMAIN its : /\ its[k][1] = i /\ k \in Nat \ {0}
                                   /\ NewRow(s, i).position = start[s] + k - 1
  <2>1. PICK k \in DOMAIN its : /\ its[k][1] = i
                               /\ k \in Nat \ {0}
                               /\ NewRow(s, i) = [position |-> start[s] + k - 1,
                                                  data |-> its[k][2]]
    BY <1>0, <1>2, NewRowFacts, SMTT(30) DEF TypeInv
  <2> QED BY <2>1
<1>5. \A d \in Convs : Present(d) \subseteq Present(d)'
                     /\ \A i \in Present(d) : items'[d][i] = items[d][i]
  BY <1>1 DEF Present
<1>6. Present(c)' = Present(c) \cup new
  BY <1>1 DEF Present
<1>7. \A d \in Convs \ {c} : Present(d)' = Present(d)
  BY <1>1 DEF Present
<1>8. \A d \in Convs : birth'[d] = None => Present(d)' = {}
  BY <1>2, <1>7 DEF AppendInv
<1>9. ASSUME NEW t \in Slots PROVE AppendSlot(t)'
  <2>1. CASE t = s /\ input'[s] = None
    BY <2>1 DEF AppendSlot
  <2>2. CASE t = s /\ input'[s] # None
    <3>1. /\ input'[s] = input[s] /\ pc'[s] = "list_items"
          /\ seen'[s] = Present(c)'
      BY <1>1, <1>6, <2>2
    <3>2. input[s].op # "create_conversation"
      BY <2>2 DEF Inserts, CreateConversationItems, Respond, TypeInv, TypeOK
    <3> QED BY <1>0, <2>2, <3>1, <3>2 DEF AppendSlot
  <2>3. CASE t # s
    <3>1. pc'[t] = pc[t] /\ input'[t] = input[t] /\ start'[t] = start[t]
          /\ seen'[t] = seen[t]
      BY <1>1, <2>3, StoreCallFrame
    <3>2. input[t] # None => input[t].conv \in Convs
      BY DEF TypeInv, TypeOK, Requests
    <3> QED BY <1>5, <3>1, <3>2 DEF AppendInv, AppendSlot
  <2> QED BY <2>1, <2>2, <2>3
<1>10. AppendOrder'
  <2> SUFFICES ASSUME NEW d \in Convs, NEW i \in Present(d)', NEW j \in older'[d][i]
               PROVE  j \in Present(d)' /\ items'[d][j].position < items'[d][i].position
    BY DEF AppendOrder
  <2>0. i \in ItemIds
    BY DEF Present
  <2>1. CASE ~(d = c /\ i \in new)
    <3>1. i \in Present(d) /\ older'[d][i] = older[d][i]
      BY <1>1, <1>6, <1>7, <2>0, <2>1
    <3>2. j \in Present(d) /\ items[d][j].position < items[d][i].position
      BY <3>1 DEF AppendInv, AppendOrder
    <3> QED BY <1>5, <3>1, <3>2
  <2>2. CASE d = c /\ i \in new
    <3>1. items'[c][i] = NewRow(s, i) /\ older'[c][i] = OlderThanNew(s, i)
      BY <1>1, <2>0, <2>2
    <3>2. PICK k \in DOMAIN its : /\ its[k][1] = i /\ k \in Nat \ {0}
                                 /\ NewRow(s, i).position = start[s] + k - 1
      BY <1>4, <2>2
    <3>3. CASE j \in seen[s]
      <4>1. /\ j \in Present(c) /\ items[c][j].position < start[s]
            /\ items'[c][j] = items[c][j]
        BY <1>1, <1>3, <1>5, <3>3
      <4>2. items[c][j].position \in Nat
        BY <1>1, <4>1, PresentRow DEF ItemRow, TypeInv
      <4> QED BY <1>2, <1>5, <2>2, <3>1, <3>2, <4>1, <4>2
    <3>4. CASE j \notin seen[s]
      <4>1. PICK a \in DOMAIN its, b \in DOMAIN its :
                j = its[a][1] /\ a < b /\ its[b][1] = i
        BY <1>0, <2>2, <3>1, <3>4 DEF OlderThanNew
      <4>2. b = k
        BY <1>3, <3>2, <4>1 DEF Duplicate
      <4>3. j \in new
        BY <1>0, <4>1 DEF Ids
      <4>4. PICK l \in DOMAIN its : /\ its[l][1] = j /\ l \in Nat \ {0}
                                   /\ NewRow(s, j).position = start[s] + l - 1
        BY <1>4, <4>3
      <4>5. l = a
        BY <1>3, <4>1, <4>4 DEF Duplicate
      <4>6. items'[c][j] = NewRow(s, j)
        BY <1>1, <4>3
      <4> QED BY <1>2, <1>6, <2>2, <3>1, <3>2, <4>1, <4>2, <4>3, <4>4, <4>5, <4>6
    <3> QED BY <3>3, <3>4
  <2> QED BY <2>1, <2>2
<1> QED BY <1>8, <1>9, <1>10 DEF AppendInv

LEMMA AppendDelete ==
    ASSUME TypeInv, BirthInv, AppendInv, NEW s \in Slots, StoreCall(s), Deletes(s)
    PROVE  AppendInv'
<1>0. PICK c, i : c = input[s].conv /\ i = input[s].item
  OBVIOUS
<1>1. DeleteEffect(s, c, i)
  BY <1>0, DeleteFacts
<1>2. input[s] # None /\ birth' = birth /\ input[s].op = "delete_item"
  BY StoreCallFrame DEF Deletes, DeleteConversationItem, TypeInv, Shape
<1>3. \A d \in Convs : Present(d)' = IF d = c THEN Present(d) \ {i} ELSE Present(d)
  BY <1>1 DEF Present, DeleteEffect
<1>4. \A d \in Convs : \A j \in Present(d)' : j \in Present(d) /\ items'[d][j] = items[d][j]
  BY <1>1 DEF Present, DeleteEffect
<1>5. \A d \in Convs : birth'[d] = None => Present(d)' = {}
  BY <1>2, <1>4 DEF AppendInv
<1>6. ASSUME NEW t \in Slots PROVE AppendSlot(t)'
  <2>1. CASE t = s
    <3>1. /\ input'[s] = input[s] /\ pc'[s] = "list_items"
          /\ seen'[s] = Present(c) \ {i} /\ c \in Convs
      BY <1>1 DEF DeleteEffect
    <3>2. seen'[s] = Present(c)'
      BY <1>3, <3>1
    <3> QED BY <1>0, <1>2, <2>1, <3>1, <3>2 DEF AppendSlot
  <2>2. CASE t # s
    <3>1. pc'[t] = pc[t] /\ input'[t] = input[t] /\ start'[t] = start[t]
      BY <2>2, StoreCallFrame
    <3>2. input[t] # None => input[t].conv \in Convs
      BY DEF TypeInv, TypeOK, Requests
    <3>3. PICK d : d = input[t].conv
      OBVIOUS
    <3>4. seen'[t] \subseteq seen[t] /\ (input[t] # None /\ d = c => i \notin seen'[t])
      BY <1>1, <2>2, <3>3 DEF DeleteEffect
    <3>5. input[t] # None => seen'[t] \subseteq Present(d)'
      BY <1>3, <3>2, <3>3, <3>4 DEF AppendInv, AppendSlot
    <3> QED BY <1>4, <3>1, <3>2, <3>3, <3>4, <3>5 DEF AppendInv, AppendSlot
  <2> QED BY <2>1, <2>2
<1>7. AppendOrder'
  <2> SUFFICES ASSUME NEW d \in Convs, NEW k \in Present(d)', NEW j \in older'[d][k]
               PROVE  j \in Present(d)' /\ items'[d][j].position < items'[d][k].position
    BY DEF AppendOrder
  <2>1. k \in Present(d) /\ k \in ItemIds /\ items'[d][k] = items[d][k]
    BY <1>4 DEF Present
  <2>2. j \in older[d][k] /\ ~(d = c /\ j = i)
    BY <1>1, <2>1 DEF DeleteEffect
  <2>3. j \in Present(d) /\ items[d][j].position < items[d][k].position
    BY <2>1, <2>2 DEF AppendInv, AppendOrder
  <2>4. j \in Present(d)'
    BY <1>3, <2>2, <2>3
  <2> QED BY <1>4, <2>1, <2>3, <2>4
<1> QED BY <1>5, <1>6, <1>7 DEF AppendInv

\* A step that leaves the items alone, and after which slot s is well numbered
LEMMA AppendQuiet ==
    ASSUME TypeInv, AppendInv, NEW s \in Slots,
           UNCHANGED <<items, older, birth>>,
           \A t \in Slots \ {s} : /\ pc'[t] = pc[t] /\ input'[t] = input[t]
                                  /\ start'[t] = start[t] /\ seen'[t] = seen[t],
           AppendSlot(s)'
    PROVE  AppendInv'
<1>1. \A c \in Convs : Present(c)' = Present(c)
  BY DEF Present
<1>2. AppendOrder' /\ \A c \in Convs : birth'[c] = None => Present(c)' = {}
  BY <1>1 DEF AppendInv, AppendOrder
<1>3. ASSUME NEW t \in Slots \ {s} PROVE AppendSlot(t)'
  <2>1. input[t] # None => input[t].conv \in Convs
    BY DEF TypeInv, TypeOK, Requests
  <2> QED BY <1>1, <2>1 DEF AppendInv, AppendSlot
<1> QED BY <1>2, <1>3 DEF AppendInv

\* How the numbering of a batch comes about
LEMMA AppendNumbered ==
    ASSUME TypeInv, AppendInv, NEW s \in Slots, StoreCall(s),
           ~Inserts(s), ~Deletes(s), input'[s] # None
    PROVE  pc'[s] \in {"existing_item_ids", "create_conversation_items"} =>
              /\ ~Duplicate(input[s].items)
              /\ \A i \in seen[s] : items[input[s].conv][i].position < start'[s]
<1> SUFFICES ASSUME pc'[s] \in {"existing_item_ids", "create_conversation_items"}
             PROVE  /\ ~Duplicate(input[s].items)
                    /\ \A i \in seen[s] : items[input[s].conv][i].position < start'[s]
  OBVIOUS
<1>0. PICK c : c = input[s].conv
  OBVIOUS
<1>1. /\ input[s] # None /\ c \in Convs
      /\ seen[s] \subseteq Present(c)
      /\ \A i \in seen[s] : items[c][i].position \in Nat
  <2>1. input[s] # None /\ c \in Convs
    BY <1>0, StoreCallFrame
  <2>2. seen[s] \subseteq Present(c)
    BY <1>0, <2>1 DEF AppendInv, AppendSlot
  <2> QED BY <2>1, <2>2, PresentRow DEF TypeInv, ItemRow
<1>2. \A code : ~Respond(s, code)
  BY DEF Respond, TypeInv, TypeOK
<1>3. CASE MaxItemPosition(s)
  <2>1. /\ ~Duplicate(input[s].items)
        /\ \E p \in MaxPositions(c) : start' = [start EXCEPT ![s] = p + 1]
    BY <1>0, <1>2, <1>3 DEF MaxItemPosition
  <2>2. PICK p \in MaxPositions(c) : start' = [start EXCEPT ![s] = p + 1]
    BY <2>1
  <2>3. p \in Nat /\ \A i \in Present(c) : items[c][i].position <= p
    BY <1>1, MaxPositionsFacts DEF TypeInv
  <2>4. start'[s] = p + 1
    BY <2>2 DEF TypeInv, TypeOK
  <2> QED BY <1>0, <1>1, <2>1, <2>3, <2>4
<1>4. CASE ExistingItemIds(s)
  <2>1. start' = start /\ pc[s] = "existing_item_ids"
    BY <1>2, <1>4 DEF ExistingItemIds, handler
  <2> QED BY <1>1, <2>1 DEF AppendInv, AppendSlot
<1>5. CASE UpsertConversation(s)
  <2>1. input[s].op = "create_conversation"
    BY <1>2, <1>5 DEF UpsertConversation
  <2> QED BY <1>1, <2>1 DEF AppendInv, AppendSlot
<1>6. CASE ~MaxItemPosition(s) /\ ~ExistingItemIds(s) /\ ~UpsertConversation(s)
  <2>1. \A n : Continue(s, n) => pc'[s] = n
    BY DEF Continue, TypeInv, TypeOK
  <2>2. CASE GetConversation(s)
    BY <1>2, <2>1, <2>2 DEF GetConversation
  <2>3. CASE ItemPosition(s)
    BY <2>1, <2>3 DEF ItemPosition
  <2>4. CASE ListItems(s)
    BY <2>1, <2>4 DEF ListItems
  <2>5. CASE UpdateMessages(s)
    BY <1>2, <2>1, <2>5 DEF UpdateMessages
  <2>6. CASE DeleteConversationRow(s) \/ GetResult(s)
    BY <1>2, <2>6 DEF DeleteConversationRow, GetResult
  <2>7. CASE CreateConversationItems(s)
    BY <1>2, <2>7 DEF CreateConversationItems, Inserts
  <2>8. CASE DeleteConversationItem(s)
    BY <1>2, <2>8 DEF DeleteConversationItem, Deletes
  <2> QED BY <1>6, <2>2, <2>3, <2>4, <2>5, <2>6, <2>7, <2>8 DEF StoreCall
<1> QED BY <1>3, <1>4, <1>5, <1>6

LEMMA AppendStoreCall ==
    ASSUME TypeInv, BirthInv, AppendInv, NEW s \in Slots, StoreCall(s)
    PROVE  AppendInv'
<1>1. CASE Inserts(s)
  BY <1>1, AppendInsert
<1>2. CASE Deletes(s)
  BY <1>2, AppendDelete
<1>3. CASE ~Inserts(s) /\ ~Deletes(s)
  <2>1. /\ UNCHANGED <<items, older>>
        /\ \A t \in Slots \ {s} : seen'[t] = seen[t]
        /\ input'[s] = None \/ (input'[s] = input[s] /\ seen'[s] = seen[s])
    BY <1>3, StoreCallKinds
  <2>2. /\ birth' = birth /\ input[s] # None
        /\ \A t \in Slots \ {s} : /\ pc'[t] = pc[t] /\ input'[t] = input[t]
                                  /\ start'[t] = start[t]
    BY StoreCallFrame
  <2>3. AppendSlot(s)'
    <3>1. CASE input'[s] = None
      BY <3>1 DEF AppendSlot
    <3>2. CASE input'[s] # None
      <4>1. Present(input[s].conv)' = Present(input'[s].conv)
        BY <2>1, <3>2 DEF Present
      <4>2. pc'[s] \in {"existing_item_ids", "create_conversation_items"} =>
              /\ ~Duplicate(input[s].items)
              /\ \A i \in seen[s] : items[input[s].conv][i].position < start'[s]
        BY <1>3, <3>2, AppendNumbered
      <4>3. /\ seen[s] \subseteq Present(input[s].conv)
            /\ input[s].op = "create_conversation" =>
                  seen[s] = {} /\ ~Duplicate(input[s].items)
        BY <2>2 DEF AppendInv, AppendSlot
      <4> QED BY <2>1, <3>2, <4>2, <4>3 DEF AppendSlot, Present
    <3> QED BY <3>1, <3>2
  <2> QED BY <2>1, <2>2, <2>3, AppendQuiet
<1> QED BY <1>1, <1>2, <1>3

LEMMA AppendStep ==
    ASSUME TypeInv, BirthInv, AppendInv, [Next]_vars
    PROVE  AppendInv'
<1>1. ASSUME NEW s \in Slots, StoreError(s) PROVE AppendInv'
  <2>1. UNCHANGED <<items, older, birth>> /\ Respond(s, 500)
    BY <1>1 DEF StoreError, Unwritten, tables
  <2>2. AppendSlot(s)'
    BY <2>1 DEF Respond, AppendSlot, TypeInv, TypeOK
  <2>3. \A t \in Slots \ {s} : /\ pc'[t] = pc[t] /\ input'[t] = input[t]
                               /\ start'[t] = start[t] /\ seen'[t] = seen[t]
    BY <2>1 DEF Respond, TypeInv, TypeOK
  <2> QED BY <2>1, <2>2, <2>3, AppendQuiet
<1>2. CASE Restart
  BY <1>2 DEF Restart, Unwritten, tables, AppendInv, AppendSlot, AppendOrder, Present
<1>3. CASE Tick
  BY <1>3 DEF Tick, tables, handler, AppendInv, AppendSlot, AppendOrder, Present
<1>4. CASE UNCHANGED vars
  BY <1>4 DEF vars, AppendInv, AppendSlot, AppendOrder, Present
<1> QED BY <1>1, <1>2, <1>3, <1>4, AppendArrive, AppendStoreCall DEF Next, Quiesced

\* An item stored before the request that creates another one began, or before
\* it in the same request, keeps a smaller position for as long as both exist:
\* the position is read in one store call and used in a later one, and the race
\* between the two never lets a later item overtake an earlier one.
THEOREM LaterItemsSortAfter == Spec => []AppendOrder
<1>1. Init => BirthInv
  BY DEF Init, BirthInv, BirthSlot, CreatedAtPreserved
<1>2. Init => AppendInv
  BY DEF Init, AppendInv, AppendSlot, AppendOrder, Present
<1>3. TypeInv /\ BirthInv /\ [Next]_vars => BirthInv'
  BY BirthStep
<1>4. TypeInv /\ BirthInv /\ AppendInv /\ [Next]_vars => AppendInv'
  BY AppendStep
<1>5. AppendInv => AppendOrder
  BY DEF AppendInv
<1> QED BY <1>1, <1>2, <1>3, <1>4, <1>5, TypeInvariance, PTL DEF Spec

-----------------------------------------------------------------------------
(* What one step may never do                                              *)

\* A batch that fails leaves no row: neither the rolled back transaction nor a
\* store error nor a restart in the middle of the call.
THEOREM FailedBatchesLeaveNothing == Spec => FailedInsertLeavesNoRows
<1>1. TypeInv /\ [Next]_vars =>
        [\A s \in Slots :
            pc[s] = "create_conversation_items" /\ pc'[s] = "idle" /\ status'[s] # 200
                => items' = items]_<<pc, items, status>>
  <2> SUFFICES ASSUME TypeInv, [Next]_vars, NEW s \in Slots,
                      pc[s] = "create_conversation_items", pc'[s] = "idle",
                      status'[s] # 200
               PROVE  items' = items
    OBVIOUS
  <2>1. CASE \E t \in Slots : StoreCall(t)
    <3>1. PICK t \in Slots : StoreCall(t)
      BY <2>1
    <3>2. t = s
      BY <3>1, StoreCallFrame
    <3>3. ~Inserts(s)
      BY DEF Inserts, CreateConversationItems, Respond, TypeInv, TypeOK
    <3>4. ~Deletes(s)
      BY DEF Deletes, DeleteConversationItem
    <3> QED BY <3>1, <3>2, <3>3, <3>4, StoreCallKinds
  <2>2. CASE ~\E t \in Slots : StoreCall(t)
    BY <2>2, OtherStepsKeepItems
  <2> QED BY <2>1, <2>2
<1> QED BY <1>1, TypeInvariance, PTL DEF Spec, FailedInsertLeavesNoRows

\* Only the upsert of a create or an update brings a conversation into being or
\* changes its metadata; a message sync that outlives the conversation, or that
\* runs while an update writes, does neither.
THEOREM SyncWritesMessagesOnly == Spec => SyncKeepsToMessages
<1>1. TypeInv /\ [Next]_vars =>
        [\A c \in Convs :
            /\ convs'[c] # None
            /\ convs[c] = None \/ convs'[c].metadata # convs[c].metadata
            => \E s \in Slots : /\ pc[s] = "upsert_conversation"
                                /\ input[s].conv = c]_convs
  <2> SUFFICES ASSUME TypeInv, [Next]_vars, NEW c \in Convs, convs'[c] # None,
                      convs[c] = None \/ convs'[c].metadata # convs[c].metadata
               PROVE  \E s \in Slots : pc[s] = "upsert_conversation" /\ input[s].conv = c
    OBVIOUS
  <2>1. convs' # convs
    OBVIOUS
  <2>2. PICK s \in Slots : StoreCall(s)
    BY <2>1 DEF Next, Arrive, CreateConversation, UpdateConversation,
         DeleteConversation, CreateItems, DeleteItem, RejectInvalid, Accept,
         StoreError, Restart, Tick, Quiesced, Unwritten, tables, vars
  <2>3. CASE UpsertConversation(s)
    BY <2>3 DEF UpsertConversation, TypeInv, TypeOK
  <2>4. CASE DeleteConversationRow(s)
    BY <2>4 DEF DeleteConversationRow, TypeInv, TypeOK
  <2>5. CASE UpdateMessages(s)
    <3>1. \A r \in ConvRow : [r EXCEPT !.messages = acc[s]].metadata = r.metadata
      BY DEF ConvRow
    <3>2. convs'[c] = IF input[s].conv # c \/ convs[c] = None THEN convs[c]
                      ELSE [convs[c] EXCEPT !.messages = acc[s]]
      BY <2>5 DEF UpdateMessages, SyncedTable, TypeInv, TypeOK
    <3>3. convs[c] \in ConvRow \cup {None}
      BY DEF TypeInv, TypeOK
    <3> QED BY <3>1, <3>2, <3>3
  <2>6. CASE UNCHANGED convs
    BY <2>1, <2>6
  <2> QED BY <2>2, <2>3, <2>4, <2>5, <2>6
     DEF StoreCall, GetConversation, MaxItemPosition, ExistingItemIds,
         CreateConversationItems, DeleteConversationItem, ItemPosition,
         ListItems, GetResult, Unwritten, tables
<1> QED BY <1>1, TypeInvariance, PTL DEF Spec, SyncKeepsToMessages

-----------------------------------------------------------------------------
(* The pages of a message sync                                             *)

\* Item i has been read into the messages of the sync, with its data.
Collected(s, i) ==
    \E k \in DOMAIN acc[s] : acc[s][k] = <<i, items[input[s].conv][i].data>>

\* The item that serves as cursor is there, and i was read or comes after it.
Ahead(s, i) ==
    /\ items[input[s].conv][cursor[s].id] # None
    /\ Collected(s, i) \/ Precedes(input[s].conv, cursor[s].id, i)

\* What a sync has collected and what still lies after its cursor cover the
\* items it may not lose.
SyncSlot(s) ==
    /\ pc[s] \notin {"list_items", "item_position", "update_messages", "get_result"} =>
          cursor[s] = NoCursor
    /\ pc[s] = "list_items" =>
          \A i \in seen[s] : Collected(s, i) \/ i \in Selected(input[s].conv, cursor[s])
    /\ pc[s] = "item_position" => \A i \in seen[s] : Ahead(s, i)
    /\ pc[s] = "update_messages" => \A i \in seen[s] : Collected(s, i)

SyncInv == \A s \in Slots : SyncSlot(s)

-----------------------------------------------------------------------------
\* Steps of others: they may add rows, and take rows away that the sync of t
\* no longer relies on.
LEMMA SyncOthers ==
    ASSUME TypeInv, AppendInv, AppendInv', NEW t \in Slots, SyncSlot(t), RowsKept,
           pc'[t] = pc[t], input'[t] = input[t], acc'[t] = acc[t],
           cursor'[t] = cursor[t], seen'[t] \subseteq seen[t],
           input[t] # None /\ seen'[t] # {} /\ cursor[t].id \in Present(input[t].conv)
              => cursor[t].id \in Present(input[t].conv)'
    PROVE  SyncSlot(t)'
<1>1. CASE pc[t] \notin {"list_items", "item_position", "update_messages"}
  BY <1>1 DEF SyncSlot
<1>2. CASE pc[t] \in {"list_items", "item_position", "update_messages"}
  <2>0. PICK c : c = input[t].conv
    OBVIOUS
  <2>1. input[t] # None /\ input'[t].conv = c /\ c \in Convs /\ seen[t] \subseteq ItemIds
    BY <1>2, <2>0 DEF TypeInv, TypeOK, Shape, Requests
  <2>2. seen[t] \subseteq Present(c) /\ seen'[t] \subseteq Present(c)'
    BY <2>0, <2>1 DEF AppendInv, AppendSlot
  <2>3. ASSUME NEW i \in Present(c), i \in Present(c)' PROVE items'[c][i] = items[c][i]
    BY <2>1, <2>3 DEF RowsKept, Present
  <2>4. ASSUME NEW i \in seen'[t], Collected(t, i) PROVE Collected(t, i)'
    BY <2>0, <2>1, <2>2, <2>3, <2>4 DEF Collected
  <2>5. CASE pc[t] = "list_items"
    <3>1. ASSUME NEW i \in seen'[t], i \in Selected(c, cursor[t])
          PROVE  i \in Selected(c, cursor[t])'
      BY <2>2, <2>3, <3>1 DEF Selected, After
    <3> QED BY <2>0, <2>1, <2>4, <2>5, <3>1 DEF SyncSlot
  <2>6. CASE pc[t] = "item_position"
    <3>1. cursor[t].id \in ItemIds
      BY <2>6 DEF TypeInv, TypeOK, Shape
    <3>2. ASSUME NEW i \in seen'[t] PROVE Ahead(t, i)'
      <4>1. Ahead(t, i)
        BY <2>6 DEF SyncSlot
      <4>2. cursor[t].id \in Present(c) /\ cursor[t].id \in Present(c)'
        BY <2>0, <2>1, <3>1, <4>1 DEF Ahead, Present
      <4>3. /\ items'[c][cursor[t].id] = items[c][cursor[t].id]
            /\ items'[c][i] = items[c][i]
            /\ items[c][cursor[t].id] # None
        BY <2>2, <2>3, <4>2 DEF Present
      <4> QED BY <2>0, <2>1, <2>4, <4>1, <4>3 DEF Ahead, Precedes
    <3> QED BY <2>6, <3>2 DEF SyncSlot
  <2>7. CASE pc[t] = "update_messages"
    BY <2>4, <2>7 DEF SyncSlot
  <2> QED BY <1>2, <2>5, <2>6, <2>7
<1> QED BY <1>1, <1>2

\* One page: what it does not hold sorts after its last item, and it holds
\* everything when it is short.
LEMMA PageCovers ==
    ASSUME TypeOK, NEW c \in Convs, NEW cur, NEW page \in Pages(c, cur)
    PROVE  \A i \in Selected(c, cur) :
              \/ \E k \in 1..Len(page) : page[k] = i
              \/ /\ ~LastPage(page)
                 /\ page[Len(page)] \in Present(c)
                 /\ Precedes(c, page[Len(page)], i)
<1>1. /\ DOMAIN page = 1..Len(page) /\ Len(page) \in Nat
      /\ \A k \in 1..Len(page) : page[k] \in Present(c)
  BY PagesFacts, ConstantsAssumption
<1>2. SUFFICES ASSUME NEW i \in Selected(c, cur), ~\E k \in 1..Len(page) : page[k] = i
               PROVE  /\ ~LastPage(page)
                      /\ page[Len(page)] \in Present(c)
                      /\ Precedes(c, page[Len(page)], i)
  OBVIOUS
<1>3. Len(page) = PageLimit /\ \A k \in DOMAIN page : Precedes(c, page[k], i)
  BY <1>1, <1>2 DEF Pages
<1>4. Len(page) \in 1..Len(page) /\ ~LastPage(page)
  BY <1>1, <1>3, ConstantsAssumption DEF LastPage
<1> QED BY <1>1, <1>3, <1>4

LEMMA Appended ==
    ASSUME NEW S, NEW a \in Seq(S), NEW b \in Seq(S)
    PROVE  /\ DOMAIN (a \o b) = 1..(Len(a) + Len(b))
           /\ \A k \in 1..Len(a) : (a \o b)[k] = a[k]
           /\ \A k \in 1..Len(b) : (a \o b)[Len(a) + k] = b[k]
OBVIOUS

\* The page loop: one page is read, and the next starts after its last item.
LEMMA SyncListItems ==
    ASSUME TypeInv, AppendInv, NEW s \in Slots, SyncSlot(s), ListItems(s)
    PROVE  SyncSlot(s)'
<1>0. PICK c : c = input[s].conv
  OBVIOUS
<1>1. /\ pc[s] = "list_items" /\ UNCHANGED <<items, input>>
      /\ input[s] # None /\ c \in Convs
  BY <1>0 DEF ListItems, Unwritten, tables, TypeInv, TypeOK, Shape, Requests
<1>2. PICK page \in Pages(c, cursor[s]) :
        /\ acc' = [acc EXCEPT ![s] =
              @ \o [k \in 1..Len(page) |-> <<page[k], items[c][page[k]].data>>]]
        /\ \/ /\ LastPage(page)
              /\ Continue(s, "update_messages")
              /\ UNCHANGED cursor
           \/ /\ ~LastPage(page)
              /\ cursor' = [cursor EXCEPT ![s] = CursorAfter(page)]
              /\ Continue(s, "item_position")
  BY <1>0 DEF ListItems
<1>3. /\ Len(page) \in Nat
      /\ \A i \in Selected(c, cursor[s]) :
            \/ \E k \in 1..Len(page) : page[k] = i
            \/ /\ ~LastPage(page)
               /\ page[Len(page)] \in Present(c)
               /\ Precedes(c, page[Len(page)], i)
  BY <1>1, <1>2, PagesFacts, PageCovers, ConstantsAssumption DEF TypeInv
<1> DEFINE read == [k \in 1..Len(page) |-> <<page[k], items[c][page[k]].data>>]
<1>4. /\ acc'[s] = acc[s] \o read /\ Len(acc[s]) \in Nat /\ DOMAIN acc[s] = 1..Len(acc[s])
      /\ Len(read) = Len(page)
  BY <1>2, <1>3 DEF TypeInv, TypeOK
<1>5. /\ DOMAIN (acc[s] \o read) = 1..(Len(acc[s]) + Len(page))
      /\ \A k \in 1..Len(acc[s]) : (acc[s] \o read)[k] = acc[s][k]
      /\ \A k \in 1..Len(page) : (acc[s] \o read)[Len(acc[s]) + k] = read[k]
  <2>1. acc[s] \in Seq(Messages) /\ read \in Seq({read[k] : k \in 1..Len(page)})
    BY <1>3 DEF TypeInv, TypeOK
  <2>2. acc[s] \in Seq(Messages \cup {read[k] : k \in 1..Len(page)})
        /\ read \in Seq(Messages \cup {read[k] : k \in 1..Len(page)})
    BY <2>1
  <2> DEFINE S == Messages \cup {read[k] : k \in 1..Len(page)}
  <2>3. acc[s] \in Seq(S) /\ read \in Seq(S)
    BY <2>2
  <2> HIDE DEF read, S
  <2>4. /\ DOMAIN (acc[s] \o read) = 1..(Len(acc[s]) + Len(read))
        /\ \A k \in 1..Len(acc[s]) : (acc[s] \o read)[k] = acc[s][k]
        /\ \A k \in 1..Len(read) : (acc[s] \o read)[Len(acc[s]) + k] = read[k]
    BY <2>3, Appended
  <2> QED BY <1>4, <2>4
<1> HIDE DEF read
<1>6. ASSUME NEW i, Collected(s, i) PROVE Collected(s, i)'
  <2>1. PICK k \in DOMAIN acc[s] : acc[s][k] = <<i, items[c][i].data>>
    BY <1>0, <1>6 DEF Collected
  <2>2. k \in DOMAIN acc'[s] /\ acc'[s][k] = acc[s][k]
    BY <1>3, <1>4, <1>5, <2>1
  <2> QED BY <1>0, <1>1, <2>1, <2>2 DEF Collected
<1>7. ASSUME NEW k \in 1..Len(page) PROVE Collected(s, page[k])'
  <2>1. Len(acc[s]) + k \in DOMAIN acc'[s]
    BY <1>3, <1>4, <1>5
  <2>2. acc'[s][Len(acc[s]) + k] = <<page[k], items[c][page[k]].data>>
    BY <1>4, <1>5 DEF read
  <2> QED BY <1>0, <1>1, <2>1, <2>2 DEF Collected
<1>8. seen'[s] = seen[s]
      /\ \A i \in seen[s] : Collected(s, i) \/ i \in Selected(c, cursor[s])
  BY <1>0, <1>1, <1>2 DEF SyncSlot, Continue
<1>9. CASE LastPage(page)
  <2>1. pc'[s] = "update_messages"
    BY <1>2, <1>9 DEF Continue, TypeInv, TypeOK
  <2> QED BY <1>3, <1>6, <1>7, <1>8, <1>9, <2>1 DEF SyncSlot
<1>10. CASE ~LastPage(page)
  <2>1. pc'[s] = "item_position" /\ cursor'[s].id = page[Len(page)]
    BY <1>2, <1>10 DEF Continue, CursorAfter, TypeInv, TypeOK
  <2>2. page[Len(page)] \in Present(c)
    <3>1. Len(page) \in 1..Len(page)
      BY <1>3, <1>10, ConstantsAssumption DEF LastPage
    <3> QED BY <1>1, <1>2, <3>1, PagesFacts DEF TypeInv
  <2>3. ASSUME NEW i \in seen[s] PROVE Ahead(s, i)'
    <3>1. Collected(s, i)' \/ Precedes(c, page[Len(page)], i)
      BY <1>3, <1>6, <1>7, <1>8
    <3> QED BY <1>0, <1>1, <2>1, <2>2, <3>1 DEF Ahead, Precedes, Present
  <2> QED BY <1>8, <2>1, <2>3 DEF SyncSlot
<1> QED BY <1>9, <1>10

\* The cursor item's row is resolved: everything not read yet lies after it.
LEMMA SyncItemPosition ==
    ASSUME TypeInv, AppendInv, NEW s \in Slots, SyncSlot(s), ItemPosition(s)
    PROVE  SyncSlot(s)'
<1>0. PICK c : c = input[s].conv
  OBVIOUS
<1>1. /\ pc[s] = "item_position" /\ UNCHANGED <<items, input, acc, seen>>
      /\ input[s] # None /\ c \in Convs /\ cursor[s].id \in ItemIds
  BY <1>0 DEF ItemPosition, Unwritten, tables, handler, Continue, TypeInv, TypeOK, Shape, Requests
<1>2. \A i \in seen[s] : Ahead(s, i)
  BY <1>1 DEF SyncSlot
<1>3. CASE items[c][cursor[s].id] = None
  <2>1. pc'[s] = "update_messages"
    BY <1>0, <1>3 DEF ItemPosition, Continue, TypeInv, TypeOK
  <2> QED BY <1>0, <1>1, <1>2, <1>3, <2>1 DEF SyncSlot, Ahead
<1>4. CASE items[c][cursor[s].id] # None
  <2>1. /\ pc'[s] = "list_items"
        /\ cursor' = [cursor EXCEPT ![s].pos = items[c][cursor[s].id].position]
    BY <1>0, <1>4 DEF ItemPosition, Continue, TypeInv, TypeOK
  <2>2. cursor'[s].id = cursor[s].id /\ cursor'[s].pos = items[c][cursor[s].id].position
    <3>1. cursor \in [Slots -> [id : ItemIds \cup {None}, pos : Nat]]
      BY DEF TypeInv, TypeOK
    <3> QED BY <2>1, <3>1
  <2>3. cursor[s].id # None
    BY <1>1, NoneAssumption
  <2>4. ASSUME NEW i \in seen[s], Precedes(c, cursor[s].id, i)
        PROVE  i \in Selected(c, cursor[s])'
    <3>1. i \in Present(c)
      BY <1>0, <1>1 DEF AppendInv, AppendSlot
    <3>2. /\ items[c][i] \in ItemRow /\ items[c][cursor[s].id] \in ItemRow
          /\ i \in Nat /\ cursor[s].id \in Nat
      <4>1. cursor[s].id \in Present(c) /\ TypeOK
        BY <1>1, <1>4 DEF Present, TypeInv
      <4>2. i \in ItemIds /\ items[c][i] \in ItemRow /\ items[c][cursor[s].id] \in ItemRow
        BY <1>1, <3>1, <4>1, PresentRow
      <4> QED BY <1>1, <4>2, ConstantsAssumption
    <3>3. items[c][i].position \in Nat /\ items[c][cursor[s].id].position \in Nat
      BY <3>2 DEF ItemRow
    <3>4. \/ items[c][i].position > items[c][cursor[s].id].position
          \/ items[c][i].position = items[c][cursor[s].id].position /\ i > cursor[s].id
      BY <2>4, <3>2, <3>3 DEF Precedes
    <3> QED BY <1>1, <2>2, <2>3, <3>1, <3>4 DEF Selected, After, Present
  <2>5. \A i \in seen[s] : Collected(s, i) => Collected(s, i)'
    BY <1>1 DEF Collected
  <2>6. \A i \in seen'[s] : Collected(s, i)' \/ i \in Selected(c, cursor[s])'
    BY <1>0, <1>1, <1>2, <2>4, <2>5 DEF Ahead
  <2> QED BY <1>0, <1>1, <2>1, <2>6 DEF SyncSlot
<1> QED BY <1>3, <1>4

\* The other steps of a handler: into the page loop, out of it, or past it.
LEMMA SyncOwn ==
    ASSUME TypeInv, AppendInv, AppendInv', NEW s \in Slots, SyncSlot(s), StoreCall(s),
           ~ListItems(s), ~ItemPosition(s)
    PROVE  SyncSlot(s)'
<1> DEFINE Early == Steps \ {"list_items", "item_position", "update_messages", "get_result"}
<1>1. ASSUME NEW code, Respond(s, code) PROVE SyncSlot(s)'
  BY <1>1 DEF Respond, SyncSlot, TypeInv, TypeOK
<1>2. ASSUME pc[s] \in Early, pc'[s] \in Early, cursor' = cursor PROVE SyncSlot(s)'
  BY <1>2 DEF SyncSlot
<1>3. ASSUME pc'[s] = "get_result" PROVE SyncSlot(s)'
  BY <1>3 DEF SyncSlot
<1>4. ASSUME pc[s] \in Early, pc'[s] = "list_items", input'[s] = input[s], cursor' = cursor
      PROVE  SyncSlot(s)'
  <2>1. cursor'[s] = NoCursor
    BY <1>4 DEF SyncSlot
  <2>2. AppendSlot(s)' /\ input'[s] # None
    BY <1>4, StoreCallFrame DEF AppendInv
  <2>3. cursor'[s].id = None
    BY <2>1 DEF NoCursor
  <2>4. seen'[s] \subseteq Selected(input[s].conv, cursor[s])'
    BY <2>2, <2>3 DEF AppendSlot, Selected
  <2> QED BY <1>4, <2>4 DEF SyncSlot
<1>5. \A n : Continue(s, n) => pc'[s] = n
  BY DEF Continue, TypeInv, TypeOK
<1> USE DEF Steps
<1>6. CASE GetConversation(s)
  BY <1>1, <1>2, <1>5, <1>6 DEF GetConversation
<1>7. CASE UpsertConversation(s)
  BY <1>1, <1>2, <1>5, <1>7 DEF UpsertConversation
<1>8. CASE DeleteConversationRow(s)
  BY <1>1, <1>8 DEF DeleteConversationRow
<1>9. CASE MaxItemPosition(s)
  BY <1>1, <1>2, <1>5, <1>9 DEF MaxItemPosition
<1>10. CASE ExistingItemIds(s)
  BY <1>1, <1>2, <1>5, <1>10 DEF ExistingItemIds, handler
<1>11. CASE CreateConversationItems(s)
  <2>1. \/ \E code : Respond(s, code)
        \/ pc' = [pc EXCEPT ![s] = "list_items"] /\ UNCHANGED handler
    BY <1>11 DEF CreateConversationItems
  <2>2. pc[s] = "create_conversation_items" /\ (pc' = [pc EXCEPT ![s] = "list_items"] =>
                                                  pc'[s] = "list_items")
    BY <1>11 DEF CreateConversationItems, TypeInv, TypeOK
  <2> QED BY <1>1, <1>4, <2>1, <2>2 DEF handler
<1>12. CASE DeleteConversationItem(s)
  <2>1. \/ \E code : Respond(s, code)
        \/ pc' = [pc EXCEPT ![s] = "list_items"] /\ UNCHANGED handler
    BY <1>12 DEF DeleteConversationItem
  <2>2. pc[s] = "delete_conversation_item" /\ (pc' = [pc EXCEPT ![s] = "list_items"] =>
                                                 pc'[s] = "list_items")
    BY <1>12 DEF DeleteConversationItem, TypeInv, TypeOK
  <2> QED BY <1>1, <1>4, <2>1, <2>2 DEF handler
<1>13. CASE UpdateMessages(s)
  BY <1>1, <1>3, <1>5, <1>13 DEF UpdateMessages
<1>14. CASE GetResult(s)
  BY <1>1, <1>14 DEF GetResult
<1> QED
  BY <1>6, <1>7, <1>8, <1>9, <1>10, <1>11, <1>12, <1>13, <1>14 DEF StoreCall

LEMMA SyncStoreCall ==
    ASSUME TypeInv, AppendInv, AppendInv', SyncInv, NEW s \in Slots, StoreCall(s)
    PROVE  SyncInv'
<1>1. SyncSlot(s)'
  BY SyncListItems, SyncItemPosition, SyncOwn DEF SyncInv
<1>2. ASSUME NEW t \in Slots, t # s PROVE SyncSlot(t)'
  <2>1. /\ pc'[t] = pc[t] /\ input'[t] = input[t]
        /\ acc'[t] = acc[t] /\ cursor'[t] = cursor[t]
    BY <1>2, StoreCallFrame
  <2>2. RowsKept
    BY RowsKeptByStoreCall
  <2>3. input[t] # None => input[t].conv \in Convs
    BY DEF TypeInv, TypeOK, Requests
  <2>4. PICK d, j : d = input[t].conv /\ j = cursor[t].id
    OBVIOUS
  <2>5. seen'[t] \subseteq seen[t]
        /\ (input[t] # None /\ seen'[t] # {} /\ j \in Present(d) => j \in Present(d)')
    <3>1. CASE Inserts(s)
      <4>1. PICK c, new : c = input[s].conv /\ new = Ids(input[s].items)
        OBVIOUS
      <4>2. /\ \A e \in Convs : \A i \in ItemIds :
                  items'[e][i] = IF e = c /\ i \in new THEN NewRow(s, i) ELSE items[e][i]
            /\ \A i \in new : NewRow(s, i) # None
            /\ seen'[t] = seen[t]
        BY <1>2, <3>1, <4>1, InsertFacts
      <4> QED BY <2>3, <2>4, <4>2 DEF Present
    <3>2. CASE Deletes(s)
      <4>1. PICK c, i : c = input[s].conv /\ i = input[s].item
        OBVIOUS
      <4>2. DeleteEffect(s, c, i)
        BY <3>2, <4>1, DeleteFacts
      <4> QED BY <1>2, <2>3, <2>4, <4>2 DEF DeleteEffect, Present
    <3>3. CASE ~Inserts(s) /\ ~Deletes(s)
      BY <1>2, <3>3, StoreCallKinds DEF Present
    <3> QED BY <3>1, <3>2, <3>3
  <2> QED BY <2>1, <2>2, <2>4, <2>5, SyncOthers DEF SyncInv
<1> QED BY <1>1, <1>2 DEF SyncInv

\* A step that leaves the items alone, and after which slot s is in order
LEMMA SyncQuiet ==
    ASSUME TypeInv, AppendInv, AppendInv', SyncInv, NEW s \in Slots, items' = items,
           \A t \in Slots \ {s} : /\ pc'[t] = pc[t] /\ input'[t] = input[t]
                                  /\ acc'[t] = acc[t] /\ cursor'[t] = cursor[t]
                                  /\ seen'[t] = seen[t],
           SyncSlot(s)'
    PROVE  SyncInv'
<1>1. RowsKept
  BY DEF RowsKept
<1>2. ASSUME NEW t \in Slots \ {s} PROVE SyncSlot(t)'
  <2>1. Present(input[t].conv)' = Present(input'[t].conv)
    BY DEF Present
  <2>2. Present(input'[t].conv) = Present(input[t].conv)
    BY <1>2
  <2> QED BY <1>1, <2>1, <2>2, SyncOthers DEF SyncInv, Present
<1> QED BY <1>2 DEF SyncInv

LEMMA SyncArrive ==
    ASSUME TypeInv, AppendInv, AppendInv', SyncInv, NEW s \in Slots, Arrive(s)
    PROVE  SyncInv'
<1>1. items' = items
  BY DEF Arrive, CreateConversation, UpdateConversation, DeleteConversation,
         CreateItems, DeleteItem, RejectInvalid, Accept, tables
<1>2. CASE RejectInvalid(s)
  <2>1. SyncSlot(s)'
    BY <1>2 DEF RejectInvalid, Respond, SyncSlot, TypeInv, TypeOK
  <2>2. \A t \in Slots \ {s} : /\ pc'[t] = pc[t] /\ input'[t] = input[t]
                               /\ acc'[t] = acc[t] /\ cursor'[t] = cursor[t]
                               /\ seen'[t] = seen[t]
    BY <1>2 DEF RejectInvalid, Respond, TypeInv, TypeOK
  <2> QED BY <1>1, <2>1, <2>2, SyncQuiet
<1>3. CASE ~RejectInvalid(s)
  <2>1. ASSUME NEW req, NEW record,
               NEW step \in {"upsert_conversation", "get_conversation", "delete_conversation"},
               Accept(s, req, step, record)
        PROVE  SyncInv'
    <3>1. pc[s] = "idle" /\ pc'[s] = step /\ cursor' = cursor
      BY <2>1 DEF Accept, TypeInv, TypeOK
    <3>2. SyncSlot(s)'
      BY <3>1 DEF SyncInv, SyncSlot
    <3>3. \A t \in Slots \ {s} : /\ pc'[t] = pc[t] /\ input'[t] = input[t]
                                 /\ acc'[t] = acc[t] /\ cursor'[t] = cursor[t]
                                 /\ seen'[t] = seen[t]
      BY <2>1 DEF Accept, TypeInv, TypeOK
    <3> QED BY <1>1, <3>2, <3>3, SyncQuiet
  <2>2. CASE CreateConversation(s)
    <3>1. PICK c \in Convs, m \in Metas, its \in Payloads :
            Accept(s, Request("create_conversation", c, m, its, "ok", None),
                   "upsert_conversation",
                   [created_at |-> now, metadata |-> m, messages |-> its])
      BY <2>2 DEF CreateConversation
    <3> QED BY <2>1, <3>1
  <2>3. CASE ~CreateConversation(s)
    <3>1. PICK req \in Requests, step \in {"get_conversation", "delete_conversation"} :
            Accept(s, req, step, None)
      BY <1>3, <2>3, ArriveForm
    <3> QED BY <2>1, <3>1
  <2> QED BY <2>2, <2>3
<1> QED BY <1>2, <1>3

LEMMA SyncStep ==
    ASSUME TypeInv, AppendInv, AppendInv', SyncInv, [Next]_vars
    PROVE  SyncInv'
<1>1. ASSUME NEW s \in Slots, StoreError(s) PROVE SyncInv'
  <2>1. items' = items /\ Respond(s, 500)
    BY <1>1 DEF StoreError, Unwritten, tables
  <2>2. SyncSlot(s)'
    BY <2>1 DEF Respond, SyncSlot, TypeInv, TypeOK
  <2>3. \A t \in Slots \ {s} : /\ pc'[t] = pc[t] /\ input'[t] = input[t]
                               /\ acc'[t] = acc[t] /\ cursor'[t] = cursor[t]
                               /\ seen'[t] = seen[t]
    BY <2>1 DEF Respond, TypeInv, TypeOK
  <2> QED BY <2>1, <2>2, <2>3, SyncQuiet
<1>2. CASE Restart
  BY <1>2 DEF Restart, SyncInv, SyncSlot
<1>3. CASE Tick \/ UNCHANGED vars
  <2>1. UNCHANGED <<items, pc, input, acc, cursor, seen>>
    BY <1>3 DEF Tick, tables, handler, vars
  <2>2. RowsKept
    BY <2>1 DEF RowsKept
  <2>3. ASSUME NEW t \in Slots PROVE SyncSlot(t)'
    BY <2>1, <2>2, SyncOthers DEF SyncInv, Present
  <2> QED BY <2>3 DEF SyncInv
<1> QED BY <1>1, <1>2, <1>3, SyncArrive, SyncStoreCall DEF Next, Quiesced

\* collect_conversation_messages and conversation_item_position: whatever other
\* requests insert and delete between two pages, a sync writes back every item
\* that stayed in the table since it began, with its data.
THEOREM SyncsKeepStableItems == Spec => []SyncKeepsStableItems
<1>1. Init => BirthInv /\ AppendInv /\ SyncInv
  BY DEF Init, BirthInv, BirthSlot, CreatedAtPreserved, AppendInv, AppendSlot, AppendOrder,
         Present, SyncInv, SyncSlot
<1>2. TypeInv /\ BirthInv /\ [Next]_vars => BirthInv'
  BY BirthStep
<1>3. TypeInv /\ BirthInv /\ AppendInv /\ [Next]_vars => AppendInv'
  BY AppendStep
<1>4. TypeInv /\ AppendInv /\ AppendInv' /\ SyncInv /\ [Next]_vars => SyncInv'
  BY SyncStep
<1>5. SyncInv => SyncKeepsStableItems
  BY DEF SyncInv, SyncSlot, SyncKeepsStableItems, Collected
<1> QED BY <1>1, <1>2, <1>3, <1>4, <1>5, TypeInvariance, PTL DEF Spec

-----------------------------------------------------------------------------
(***************************************************************************)
(* The message cache of a conversation row against the item table: without *)
(* overlapping requests on one conversation and without store errors,      *)
(* every handler leaves them in sync.                                      *)
(*                                                                         *)
(* A listing is unique because an item's place in it is the number of the  *)
(* items before it (Rank), so what a sync wrote page by page is the one    *)
(* listing that MessagesInSync compares with.                              *)
(***************************************************************************)
(* Listings                                                                *)

\* m holds items of c in their order, each with its data.
Lists(c, m) ==
    /\ \A k \in 1..Len(m) : /\ m[k][1] \in Present(c)
                            /\ m[k] = <<m[k][1], items[c][m[k][1]].data>>
    /\ \A j, k \in 1..Len(m) : j < k => Precedes(c, m[j][1], m[k][1])

Holds(m, i) == \E k \in 1..Len(m) : m[k][1] = i

\* m lists the items of c, oldest first.
IsListing(c, m) == Lists(c, m) /\ \A i \in Present(c) : Holds(m, i)

\* ORDER BY position, item_id orders the rows of a conversation totally.
LEMMA PrecedesOrders ==
    ASSUME TypeOK, NEW c \in Convs, NEW i \in Present(c), NEW j \in Present(c)
    PROVE  /\ ~(Precedes(c, i, j) /\ Precedes(c, j, i))
           /\ Precedes(c, i, j) \/ Precedes(c, j, i) \/ i = j
           /\ \A k \in Present(c) : Precedes(c, i, j) /\ Precedes(c, j, k) => Precedes(c, i, k)
<1>1. \A k \in Present(c) : k \in Nat /\ items[c][k].position \in Nat
  BY PresentRow, ConstantsAssumption DEF ItemRow
<1> QED BY <1>1 DEF Precedes

\* The items before the k-th of an ordered enumeration are the k - 1 before it.
LEMMA Rank ==
    ASSUME TypeOK, NEW c \in Convs, NEW n \in Nat, NEW f \in [1..n -> Present(c)],
           \A j, k \in 1..n : j < k => Precedes(c, f[j], f[k]),
           \A i \in Present(c) : \E j \in 1..n : f[j] = i,
           NEW k \in 1..n
    PROVE  Cardinality({i \in Present(c) : Precedes(c, i, f[k])}) = k - 1
<1> DEFINE S == {i \in Present(c) : Precedes(c, i, f[k])}
           g == [j \in 1..(k - 1) |-> f[j]]
<1>1. \A i, j \in Present(c) : ~(Precedes(c, i, j) /\ Precedes(c, j, i))
  BY PrecedesOrders
<1>2. \A i, j \in 1..n : f[i] = f[j] => i = j
  <2> SUFFICES ASSUME NEW i \in 1..n, NEW j \in 1..n, f[i] = f[j], i # j PROVE FALSE
    OBVIOUS
  <2>1. i < j \/ j < i
    OBVIOUS
  <2>2. Precedes(c, f[i], f[j]) \/ Precedes(c, f[j], f[i])
    BY <2>1
  <2>3. f[i] \in Present(c) /\ f[j] \in Present(c)
    OBVIOUS
  <2> QED BY <1>1, <2>2, <2>3
<1>3. k - 1 \in Nat /\ 1..(k - 1) \subseteq 1..n /\ \A j \in 1..(k - 1) : j < k
  OBVIOUS
<1>4. g \in [1..(k - 1) -> S]
  BY <1>3
<1>5. \A i \in S : \E j \in 1..(k - 1) : g[j] = i
  <2> SUFFICES ASSUME NEW i \in S PROVE \E j \in 1..(k - 1) : g[j] = i
    OBVIOUS
  <2>1. PICK j \in 1..n : f[j] = i
    OBVIOUS
  <2>2. ~(k < j) /\ j # k
    BY <1>1, <2>1
  <2>3. j \in 1..(k - 1)
    BY <2>2
  <2> QED BY <2>1, <2>3
<1>6. \A i, j \in 1..(k - 1) : g[i] = g[j] => i = j
  BY <1>2, <1>3
<1> HIDE DEF S, g
<1>7. g \in Bijection(1..(k - 1), S)
  BY <1>4, <1>5, <1>6 DEF Bijection, Injection, Surjection, IsInjective
<1>8. Cardinality(S) = k - 1
  BY <1>3, <1>7, FS_CountingElements DEF ExistsBijection
<1> QED BY <1>8 DEF S

\* Two ordered enumerations of one set are the same.
LEMMA SameOrder ==
    ASSUME TypeOK, NEW c \in Convs, NEW n \in Nat,
           NEW f \in [1..n -> Present(c)], NEW g \in [1..n -> Present(c)],
           \A j, k \in 1..n : j < k => Precedes(c, f[j], f[k]) /\ Precedes(c, g[j], g[k]),
           \A i \in Present(c) : \E j \in 1..n : f[j] = i,
           \A i \in Present(c) : \E j \in 1..n : g[j] = i
    PROVE  f = g
<1>1. ASSUME NEW k \in 1..n PROVE f[k] = g[k]
  <2>1. PICK j \in 1..n : f[j] = g[k]
    OBVIOUS
  <2>2. Cardinality({i \in Present(c) : Precedes(c, i, f[j])}) = j - 1
    BY Rank
  <2>3. Cardinality({i \in Present(c) : Precedes(c, i, g[k])}) = k - 1
    BY Rank
  <2>4. j - 1 = k - 1
    BY <2>1, <2>2, <2>3
  <2>5. j = k
    BY <2>4
  <2> QED BY <2>1, <2>5
<1> QED BY <1>1

\* A conversation has one listing, the one MessagesInSync compares with.
LEMMA ListingUnique ==
    ASSUME TypeOK, NEW c \in Convs, NEW m \in Seq(Messages), IsListing(c, m)
    PROVE  m = [k \in 1..Cardinality(Present(c)) |->
                    <<Listing(c)[k], items[c][Listing(c)[k]].data>>]
<1> DEFINE n == Len(m)
           f == [k \in 1..n |-> m[k][1]]
           l == Listing(c)
<1>1. n \in Nat /\ f \in [1..n -> Present(c)] /\ m = [k \in 1..n |-> m[k]]
  BY DEF IsListing, Lists, Holds
<1>2. /\ \A j, k \in 1..n : j < k => Precedes(c, f[j], f[k])
      /\ \A i \in Present(c) : \E k \in 1..n : f[k] = i
      /\ \A k \in 1..n : m[k] = <<f[k], items[c][f[k]].data>>
  BY <1>1 DEF IsListing, Lists, Holds
<1> HIDE DEF n, f
<1>3. \A i, j \in 1..n : i # j => f[i] # f[j]
  <2> SUFFICES ASSUME NEW i \in 1..n, NEW j \in 1..n, i < j PROVE f[i] # f[j]
    BY <1>1
  <2>1. Precedes(c, f[i], f[j]) /\ f[i] \in Present(c) /\ f[j] \in Present(c)
    BY <1>1, <1>2
  <2>2. \A a, b \in Present(c) : ~(Precedes(c, a, b) /\ Precedes(c, b, a))
    BY PrecedesOrders
  <2> QED BY <2>1, <2>2
<1>4. f \in Bijection(1..n, Present(c))
  BY <1>1, <1>2, <1>3 DEF Bijection, Injection, Surjection, IsInjective
<1>5. Cardinality(Present(c)) = n
  BY <1>1, <1>4, FS_CountingElements DEF ExistsBijection
<1>6. /\ l \in [1..n -> Present(c)]
      /\ \A j, k \in DOMAIN l : j < k => Precedes(c, l[j], l[k])
  <2>1. \A j, k \in DOMAIN f : j < k => Precedes(c, f[j], f[k])
    BY <1>1, <1>2
  <2> QED BY <1>1, <1>5, <2>1 DEF Listing
<1> HIDE DEF l
<1>7. \A j, k \in 1..n : j < k => Precedes(c, l[j], l[k])
  BY <1>6
<1>8. l \in Injection(1..n, Present(c))
  <2>1. \A i, j \in 1..n : l[i] = l[j] => i = j
    <3> SUFFICES ASSUME NEW i \in 1..n, NEW j \in 1..n, i < j PROVE l[i] # l[j]
      BY <1>1
    <3>1. Precedes(c, l[i], l[j]) /\ l[i] \in Present(c) /\ l[j] \in Present(c)
      BY <1>6, <1>7
    <3>2. \A a, b \in Present(c) : ~(Precedes(c, a, b) /\ Precedes(c, b, a))
      BY PrecedesOrders
    <3> QED BY <3>1, <3>2
  <2> QED BY <1>6, <2>1 DEF Injection, IsInjective
<1>9. IsFiniteSet(1..n) /\ Cardinality(1..n) = n
  <2>1. 1 \in Int /\ n \in Int
    BY <1>1
  <2>2. IsFiniteSet(1..n) /\ Cardinality(1..n) = IF 1 > n THEN 0 ELSE n - 1 + 1
    BY <2>1, FS_Interval
  <2> QED BY <1>1, <2>2
<1>10. IsFiniteSet(Present(c))
  <2>1. ExistsBijection(1..n, Present(c))
    BY <1>4 DEF ExistsBijection
  <2> QED BY <1>9, <2>1, FS_Bijection
<1>11. l \in Surjection(1..n, Present(c))
  <2>1. Cardinality(1..n) = Cardinality(Present(c)) <=> l \in Surjection(1..n, Present(c))
    BY <1>8, <1>10, FS_Injection
  <2> QED BY <1>5, <1>9, <2>1
<1>12. \A i \in Present(c) : \E k \in 1..n : l[k] = i
  BY <1>11 DEF Surjection
<1>13. f = l
  BY <1>1, <1>2, <1>6, <1>7, <1>12, SameOrder
<1> QED BY <1>1, <1>2, <1>5, <1>13 DEF l
-----------------------------------------------------------------------------
(* The invariant                                                           *)

\* Requests on one conversation do not overlap.
OneAtATime ==
    \A s, t \in Slots :
        input[s] # None /\ input[t] # None /\ input[s].conv = input[t].conv => s = t

InSync(c) == convs[c] # None => IsListing(c, convs[c].messages)

Syncing == {"list_items", "item_position", "update_messages", "get_result"}

\* What a create has written so far
CreatePart(s) ==
    LET c == input[s].conv IN
    input[s].op = "create_conversation" =>
        /\ Present(c) = {}
        /\ pc[s] = "upsert_conversation" => existing[s].messages = input[s].items
        /\ pc[s] = "create_conversation_items" =>
              /\ start[s] = 1
              /\ convs[c] # None => convs[c].messages = input[s].items

\* What a sync has read so far
SyncPart(s) ==
    LET c == input[s].conv IN
    /\ pc[s] = "list_items" =>
        /\ Lists(c, acc[s])
        /\ \A i \in Present(c) : Holds(acc[s], i) \/ i \in Selected(c, cursor[s])
        /\ \A k \in 1..Len(acc[s]) : \A i \in Selected(c, cursor[s]) :
              Precedes(c, acc[s][k][1], i)
    /\ pc[s] = "item_position" =>
        /\ Lists(c, acc[s])
        /\ Len(acc[s]) > 0 /\ acc[s][Len(acc[s])][1] = cursor[s].id
        /\ \A i \in Present(c) : Holds(acc[s], i) \/ Precedes(c, cursor[s].id, i)
    /\ pc[s] = "update_messages" => IsListing(c, acc[s])

\* A handler finds its conversation in sync and holds what will bring it back
\* in sync.
CacheSlot(s) ==
    /\ pc[s] \notin Syncing => acc[s] = <<>>
    /\ input[s] # None =>
        LET c == input[s].conv IN
        /\ pc[s] \in {"get_conversation", "delete_conversation", "max_item_position",
                      "existing_item_ids", "delete_conversation_item", "get_result"}
              => InSync(c)
        /\ pc[s] = "upsert_conversation" /\ input[s].op = "update_conversation" =>
              IsListing(c, existing[s].messages)
        /\ pc[s] = "create_conversation_items" /\ input[s].op = "create_items" => InSync(c)
        /\ CreatePart(s)
        /\ SyncPart(s)

Quiet(c) == \A s \in Slots : input[s] # None => input[s].conv # c

CacheInv ==
    /\ \A s \in Slots : CacheSlot(s)
    /\ \A c \in Convs : Quiet(c) => InSync(c)

-----------------------------------------------------------------------------
(* What a step leaves alone                                                *)

LEMMA ListsFrame ==
    ASSUME NEW c, items'[c] = items[c], NEW m
    PROVE  /\ Lists(c, m) => Lists(c, m)'
           /\ IsListing(c, m) => IsListing(c, m)'
           /\ Present(c)' = Present(c)
BY DEF Lists, IsListing, Precedes, Present

LEMMA InSyncFrame ==
    ASSUME NEW c, InSync(c), items'[c] = items[c], convs'[c] = convs[c]
    PROVE  InSync(c)'
BY ListsFrame DEF InSync

\* A slot that does not move, on a conversation that nobody touches
LEMMA CacheFrame ==
    ASSUME NEW t \in Slots, CacheSlot(t),
           input[t] # None => /\ items'[input[t].conv] = items[input[t].conv]
                              /\ convs'[input[t].conv] = convs[input[t].conv],
           pc'[t] = pc[t], input'[t] = input[t], existing'[t] = existing[t],
           start'[t] = start[t], acc'[t] = acc[t], cursor'[t] = cursor[t]
    PROVE  CacheSlot(t)'
<1>1. CASE input[t] = None
  BY <1>1 DEF CacheSlot
<1>2. CASE input[t] # None
  <2>1. PICK c : c = input[t].conv
    OBVIOUS
  <2>2. items'[c] = items[c] /\ convs'[c] = convs[c] /\ input'[t].conv = c
    BY <1>2, <2>1
  <2>3. PICK m, cur, e : m = acc[t] /\ cur = cursor[t] /\ e = existing[t].messages
    OBVIOUS
  <2>4. /\ Present(c)' = Present(c) /\ Selected(c, cur)' = Selected(c, cur)
        /\ (Lists(c, m) => Lists(c, m)') /\ (IsListing(c, m) => IsListing(c, m)')
        /\ (IsListing(c, e) => IsListing(c, e)')
        /\ (InSync(c) => InSync(c)')
        /\ \A i, j : Precedes(c, i, j)' <=> Precedes(c, i, j)
    BY <2>2, ListsFrame, InSyncFrame DEF Selected, After, Present, Precedes
  <2>5. SyncPart(t)'
    <3>1. SyncPart(t)
      BY <1>2 DEF CacheSlot
    <3>2. CASE pc[t] = "list_items"
      BY <2>1, <2>2, <2>3, <2>4, <3>1, <3>2 DEF SyncPart, Holds
    <3>3. CASE pc[t] = "item_position"
      BY <2>1, <2>2, <2>3, <2>4, <3>1, <3>3 DEF SyncPart, Holds
    <3>4. CASE pc[t] \notin {"list_items", "item_position"}
      BY <2>1, <2>2, <2>3, <2>4, <3>1, <3>4 DEF SyncPart
    <3> QED BY <3>2, <3>3, <3>4
  <2>6. CreatePart(t)'
    BY <1>2, <2>1, <2>2, <2>4 DEF CacheSlot, CreatePart
  <2> QED BY <1>2, <2>1, <2>2, <2>3, <2>4, <2>5, <2>6 DEF CacheSlot
<1> QED BY <1>1, <1>2

\* A store call touches its own conversation only.
LEMMA TablesFrame ==
    ASSUME TypeInv, NEW s \in Slots, StoreCall(s), NEW d \in Convs, d # input[s].conv
    PROVE  items'[d] = items[d] /\ convs'[d] = convs[d]
<1>1. input[s].conv \in Convs /\ input[s] \in Requests /\ input[s] # None
  BY StoreCallFrame
<1>2. /\ items' = items \/ \E row : items' = [items EXCEPT ![input[s].conv] = row]
      /\ convs' = convs \/ \E row : convs' = [convs EXCEPT ![input[s].conv] = row]
  <2>1. CASE UpsertConversation(s) \/ DeleteConversationRow(s) \/ UpdateMessages(s)
    BY <2>1 DEF UpsertConversation, DeleteConversationRow, UpdateMessages, SyncedTable
  <2>2. CASE CreateConversationItems(s)
    BY <2>2 DEF CreateConversationItems, AfterRollback
  <2>3. CASE DeleteConversationItem(s)
    <3>1. CASE Unwritten
      BY <3>1 DEF Unwritten, tables
    <3>2. CASE ~Unwritten
      <4>1. items' = [items EXCEPT ![input[s].conv][input[s].item] = None] /\ convs' = convs
        BY <2>3, <3>2 DEF DeleteConversationItem
      <4>2. \E row : items' = [items EXCEPT ![input[s].conv] = row]
        <5> DEFINE row == [items[input[s].conv] EXCEPT ![input[s].item] = None]
        <5>1. items' = [items EXCEPT ![input[s].conv] = row]
          BY <4>1
        <5> HIDE DEF row
        <5> QED BY <5>1, Zenon
      <4>3. convs' = convs
        BY <4>1
      <4> QED BY <4>2, <4>3
    <3> QED BY <3>1, <3>2
  <2>4. CASE GetConversation(s) \/ MaxItemPosition(s) \/ ExistingItemIds(s) \/ ItemPosition(s)
             \/ ListItems(s) \/ GetResult(s)
    BY <2>4 DEF GetConversation, MaxItemPosition, ExistingItemIds, ItemPosition, ListItems,
                GetResult, Unwritten, tables
  <2> QED BY <2>1, <2>2, <2>3, <2>4, Zenon DEF StoreCall
<1> QED BY <1>1, <1>2 DEF TypeInv, TypeOK

-----------------------------------------------------------------------------
(* What a handler's own step makes of its conversation                     *)

\* The handler stays in order, and leaves its conversation in sync.
Keeps(s, c) == CacheSlot(s)' /\ (input'[s] = None => InSync(c)')

LEMMA CacheRespond ==
    ASSUME TypeInv, NEW s \in Slots, NEW code, Respond(s, code)
    PROVE  CacheSlot(s)' /\ input'[s] = None
BY DEF Respond, CacheSlot, Syncing, TypeInv, TypeOK

\* The store calls before the first write
LEMMA CacheReads ==
    ASSUME TypeInv, NEW s \in Slots, CacheSlot(s), NEW c, c = input[s].conv,
           \/ GetConversation(s) \/ DeleteConversationRow(s) \/ MaxItemPosition(s)
           \/ ExistingItemIds(s) \/ GetResult(s)
    PROVE  Keeps(s, c)
<1>1. /\ pc[s] \in {"get_conversation", "delete_conversation", "max_item_position",
                    "existing_item_ids", "get_result"}
      /\ items' = items
  BY DEF GetConversation, DeleteConversationRow, MaxItemPosition, ExistingItemIds, GetResult,
         Unwritten, tables
<1>2. input[s] # None /\ input[s] \in Requests /\ c \in Convs
  BY <1>1 DEF TypeInv, TypeOK, Shape, Requests
<1>3. InSync(c)
  BY <1>1, <1>2 DEF CacheSlot
<1>4. /\ pc[s] = "get_conversation" => input[s].op \in {"update_conversation", "create_items", "delete_item"}
      /\ pc[s] \in {"max_item_position", "existing_item_ids"} => input[s].op = "create_items"
  BY <1>2 DEF TypeInv, Shape
<1>5. CASE DeleteConversationRow(s)
  <2>1. convs'[c] = None /\ \E code : Respond(s, code)
    BY <1>2, <1>5 DEF DeleteConversationRow, TypeInv, TypeOK
  <2> QED BY <2>1, CacheRespond DEF Keeps, InSync
<1>6. CASE convs' = convs
  <2>1. InSync(c)'
    BY <1>1, <1>3, <1>6, InSyncFrame
  <2>2. CASE \E code : Respond(s, code)
    BY <2>1, <2>2, CacheRespond DEF Keeps
  <2>3. CASE GetConversation(s) /\ ~\E code : Respond(s, code)
    <3>1. /\ convs[c] # None /\ existing' = [existing EXCEPT ![s] = convs[c]]
          /\ UNCHANGED <<input, start, acc, cursor>>
          /\ pc[s] = "get_conversation"
          /\ pc' = [pc EXCEPT ![s] =
                CASE input[s].op = "update_conversation" -> "upsert_conversation"
                  [] input[s].op = "create_items" -> "max_item_position"
                  [] OTHER -> "delete_conversation_item"]
      BY <2>3 DEF GetConversation, Continue
    <3>2. /\ existing'[s] = convs[c] /\ acc'[s] = <<>> /\ input'[s] = input[s]
          /\ pc'[s] = CASE input[s].op = "update_conversation" -> "upsert_conversation"
                        [] input[s].op = "create_items" -> "max_item_position"
                        [] OTHER -> "delete_conversation_item"
      BY <3>1 DEF CacheSlot, Syncing, TypeInv, TypeOK
    <3>3. IsListing(c, existing[s].messages)'
      BY <1>1, <1>3, <3>1, <3>2, ListsFrame DEF InSync
    <3>4. input[s].op \in {"update_conversation", "create_items", "delete_item"}
      BY <1>4, <3>1
    <3>5. SyncPart(s)' /\ CreatePart(s)'
      BY <3>2, <3>4 DEF SyncPart, CreatePart
    <3> QED BY <1>2, <2>1, <3>2, <3>3, <3>4, <3>5 DEF Keeps, CacheSlot
  <2>4. CASE (MaxItemPosition(s) \/ ExistingItemIds(s)) /\ ~\E code : Respond(s, code)
    <3>1. /\ UNCHANGED <<input, existing, acc, cursor>>
          /\ pc[s] \in {"max_item_position", "existing_item_ids"}
          /\ \/ Continue(s, "existing_item_ids")
             \/ Continue(s, "create_conversation_items")
      BY <2>4 DEF MaxItemPosition, ExistingItemIds, handler
    <3>2. /\ acc'[s] = <<>> /\ input'[s] = input[s]
          /\ pc'[s] \in {"existing_item_ids", "create_conversation_items"}
      BY <3>1 DEF Continue, CacheSlot, Syncing, TypeInv, TypeOK
    <3>3. input[s].op = "create_items"
      BY <1>4, <3>1
    <3>4. SyncPart(s)' /\ CreatePart(s)'
      BY <3>2, <3>3 DEF SyncPart, CreatePart
    <3> QED BY <1>2, <2>1, <3>2, <3>3, <3>4 DEF Keeps, CacheSlot
  <2>5. CASE GetResult(s)
    BY <2>1, <2>2, <2>5 DEF GetResult
  <2>6. CASE DeleteConversationRow(s)
    BY <1>5, <2>6
  <2> QED BY <2>2, <2>3, <2>4, <2>5, <2>6
<1> QED BY <1>5, <1>6
    DEF GetConversation, MaxItemPosition, ExistingItemIds, GetResult, Unwritten, tables

\* The row is written by a create, before its items, or by an update, which
\* puts back the messages it read.
LEMMA CacheUpsert ==
    ASSUME TypeInv, NEW s \in Slots, CacheSlot(s), NEW c, c = input[s].conv,
           UpsertConversation(s)
    PROVE  Keeps(s, c)
<1>1. pc[s] = "upsert_conversation" /\ items' = items /\ input[s] # None /\ c \in Convs
  BY DEF UpsertConversation, TypeInv, TypeOK, Shape, Requests
<1>2. /\ convs'[c].messages = existing[s].messages
      /\ input[s].op \in {"create_conversation", "update_conversation"}
      /\ acc[s] = <<>>
  <2>1. convs'[c] = UpsertedRow(s)
    BY <1>1 DEF UpsertConversation, TypeInv, TypeOK
  <2>2. UpsertedRow(s).messages = existing[s].messages
    BY DEF UpsertedRow
  <2> QED BY <1>1, <2>1, <2>2 DEF TypeInv, Shape, CacheSlot, Syncing
<1>3. CASE input[s].op = "update_conversation"
  <2>1. IsListing(c, existing[s].messages)
    BY <1>1, <1>3 DEF CacheSlot
  <2>2. PICK m : m = existing[s].messages
    OBVIOUS
  <2>3. IsListing(c, m)'
    BY <1>1, <2>1, <2>2, ListsFrame
  <2>4. InSync(c)'
    BY <1>2, <2>2, <2>3 DEF InSync
  <2>5. \E code : Respond(s, code)
    BY <1>3 DEF UpsertConversation
  <2> QED BY <2>4, <2>5, CacheRespond DEF Keeps
<1>4. CASE input[s].op = "create_conversation"
  <2>1. Present(c) = {} /\ existing[s].messages = input[s].items
    BY <1>1, <1>4 DEF CacheSlot, CreatePart
  <2>2. Present(c)' = {}
    BY <1>1, <2>1, ListsFrame
  <2>3. CASE input[s].items = <<>>
    <3>1. IsListing(c, <<>>)'
      BY <2>2 DEF IsListing, Lists, Holds
    <3>2. InSync(c)'
      BY <1>2, <2>1, <2>3, <3>1 DEF InSync
    <3>3. Respond(s, 200)
      BY <1>4, <2>3 DEF UpsertConversation
    <3> QED BY <3>2, <3>3, CacheRespond DEF Keeps
  <2>4. CASE input[s].items # <<>>
    <3>1. start'[s] = 1 /\ input'[s] = input[s] /\ acc'[s] = acc[s]
          /\ pc'[s] = "create_conversation_items"
      BY <1>4, <2>4 DEF UpsertConversation, Continue, TypeInv, TypeOK
    <3>2. CreatePart(s)' /\ SyncPart(s)'
      BY <1>2, <2>1, <2>2, <3>1 DEF CreatePart, SyncPart
    <3> QED BY <1>1, <1>2, <1>4, <3>1, <3>2 DEF Keeps, CacheSlot, Syncing
  <2> QED BY <2>3, <2>4
<1> QED BY <1>2, <1>3, <1>4

\* A sync that starts has everything still to read.
LEMMA CacheSyncStarts ==
    ASSUME TypeInv, NEW s \in Slots, CacheSlot(s), SyncSlot(s), NEW c, c = input[s].conv,
           pc[s] \notin Syncing, input[s] # None, input[s].op # "create_conversation",
           pc'[s] = "list_items", input'[s] = input[s], acc'[s] = acc[s], cursor'[s] = cursor[s]
    PROVE  Keeps(s, c)
<1>1. acc'[s] = <<>> /\ cursor'[s].id = None
  BY DEF CacheSlot, SyncSlot, Syncing, NoCursor
<1>2. Lists(c, <<>>)' /\ Selected(c, cursor[s])' = Present(c)'
  BY <1>1 DEF Lists, Selected
<1>3. SyncPart(s)' /\ CreatePart(s)'
  BY <1>1, <1>2 DEF SyncPart, CreatePart
<1> QED BY <1>3 DEF Keeps, CacheSlot, Syncing

\* A create's batch becomes the listing that its row already holds.
LEMMA CacheInserts ==
    ASSUME TypeInv, AppendInv, NEW s \in Slots, CacheSlot(s), SyncSlot(s),
           NEW c, c = input[s].conv, CreateConversationItems(s)
    PROVE  Keeps(s, c)
<1> DEFINE its == input[s].items
<1>1. /\ pc[s] = "create_conversation_items" /\ input[s] # None /\ c \in Convs
      /\ input[s].op \in {"create_conversation", "create_items"}
      /\ its \in Seq(Messages) /\ ~Duplicate(its) /\ convs' = convs
  BY DEF CreateConversationItems, TypeInv, TypeOK, Shape, Requests, AppendInv, AppendSlot
<1>2. CASE KeyConflict(s)
  <2>1. items' = items /\ Respond(s, 500)
    BY <1>2 DEF CreateConversationItems, AfterRollback
  <2>2. input[s].op = "create_items"
    BY <1>1, <1>2 DEF CacheSlot, CreatePart, KeyConflict
  <2>3. InSync(c)
    BY <1>1, <2>2 DEF CacheSlot
  <2> QED BY <1>1, <2>1, <2>3, CacheRespond, InSyncFrame DEF Keeps
<1>3. CASE ~KeyConflict(s) /\ input[s].op = "create_items"
  <2>1. pc' = [pc EXCEPT ![s] = "list_items"] /\ UNCHANGED handler
    BY <1>3 DEF CreateConversationItems
  <2>2. pc'[s] = "list_items"
    BY <2>1 DEF TypeInv, TypeOK
  <2> QED BY <1>1, <1>3, <2>1, <2>2, CacheSyncStarts DEF handler, Syncing
<1>4. CASE ~KeyConflict(s) /\ input[s].op = "create_conversation"
  <2>1. /\ Present(c) = {} /\ start[s] = 1
        /\ convs[c] # None => convs[c].messages = its
    BY <1>1, <1>4 DEF CacheSlot, CreatePart
  <2>2. PICK new : new = Ids(its)
    OBVIOUS
  <2>3. /\ new \subseteq ItemIds
        /\ \A i \in ItemIds : items'[c][i] = IF i \in new THEN NewRow(s, i) ELSE items[c][i]
        /\ \A i \in new : NewRow(s, i) # None
    BY <1>1, <1>4, <2>2, InsertFacts DEF Inserts
  <2>4. Present(c)' = new
    BY <2>1, <2>3 DEF Present
  <2>5. ASSUME NEW k \in 1..Len(its)
        PROVE  /\ its[k] = <<its[k][1], its[k][2]>> /\ its[k][1] \in new
               /\ items'[c][its[k][1]] = [position |-> k, data |-> its[k][2]]
    <3>1. its[k] \in Messages /\ k \in DOMAIN its
      BY <1>1
    <3>2. its[k] = <<its[k][1], its[k][2]>> /\ its[k][1] \in new
      BY <2>2, <3>1 DEF Messages, Ids
    <3>3. PICK j \in DOMAIN its : /\ its[j][1] = its[k][1] /\ j \in Nat
                                  /\ NewRow(s, its[k][1]) =
                                       [position |-> start[s] + j - 1, data |-> its[j][2]]
      <4>1. PICK i : i = its[k][1]
        OBVIOUS
      <4>2. i \in Ids(input[s].items)
        BY <2>2, <3>2, <4>1
      <4>3. \E j \in DOMAIN its : /\ its[j][1] = i /\ j \in Nat \ {0}
                                   /\ NewRow(s, i) = [position |-> start[s] + j - 1,
                                                      data |-> its[j][2]]
        BY <1>1, <4>2, NewRowFacts DEF TypeInv
      <4> QED BY <4>1, <4>3
    <3>4. j = k
      BY <1>1, <3>1, <3>3 DEF Duplicate
    <3>5. start[s] + j - 1 = k
      BY <2>1, <3>3, <3>4
    <3>6. items'[c][its[k][1]] = [position |-> k, data |-> its[k][2]]
      BY <2>3, <3>2, <3>3, <3>4, <3>5
    <3> QED BY <3>2, <3>6
  <2>6. PICK m : m = its
    OBVIOUS
  <2>7. Lists(c, m)'
    <3>1. \A k \in 1..Len(m) : /\ m[k][1] \in Present(c)'
                               /\ m[k] = <<m[k][1], items'[c][m[k][1]].data>>
                               /\ items'[c][m[k][1]].position = k
      <4> SUFFICES ASSUME NEW k \in 1..Len(m)
                   PROVE  /\ m[k][1] \in Present(c)'
                          /\ m[k] = <<m[k][1], items'[c][m[k][1]].data>>
                          /\ items'[c][m[k][1]].position = k
        OBVIOUS
      <4>1. /\ m[k] = <<m[k][1], m[k][2]>> /\ m[k][1] \in new
            /\ items'[c][m[k][1]] = [position |-> k, data |-> m[k][2]]
        BY <2>5, <2>6
      <4> QED BY <2>4, <4>1
    <3>2. \A j, k \in 1..Len(m) : j < k => Precedes(c, m[j][1], m[k][1])'
      BY <3>1 DEF Precedes
    <3> QED BY <3>1, <3>2 DEF Lists
  <2>8. IsListing(c, m)'
    <3>1. \A i \in new : \E k \in 1..Len(m) : m[k][1] = i
      BY <1>1, <2>2, <2>6 DEF Ids
    <3> QED BY <2>4, <2>7, <3>1 DEF IsListing, Holds
  <2>9. InSync(c)'
    BY <1>1, <2>1, <2>6, <2>8 DEF InSync
  <2>10. Respond(s, 200)
    BY <1>4 DEF CreateConversationItems
  <2> QED BY <2>9, <2>10, CacheRespond DEF Keeps
<1> QED BY <1>1, <1>2, <1>3, <1>4

LEMMA CacheDeletes ==
    ASSUME TypeInv, NEW s \in Slots, CacheSlot(s), SyncSlot(s),
           NEW c, c = input[s].conv, DeleteConversationItem(s)
    PROVE  Keeps(s, c)
<1>1. /\ pc[s] = "delete_conversation_item" /\ input[s] # None
      /\ input[s].op = "delete_item" /\ InSync(c)
  BY DEF DeleteConversationItem, TypeInv, Shape, CacheSlot
<1>2. CASE Respond(s, 404) /\ Unwritten
  BY <1>1, <1>2, CacheRespond, InSyncFrame DEF Keeps, Unwritten, tables
<1>3. CASE ~(Respond(s, 404) /\ Unwritten)
  <2>1. pc' = [pc EXCEPT ![s] = "list_items"] /\ UNCHANGED <<input, acc, cursor>>
    BY <1>3 DEF DeleteConversationItem, handler
  <2>2. pc'[s] = "list_items"
    BY <2>1 DEF TypeInv, TypeOK
  <2> QED BY <1>1, <2>1, <2>2, CacheSyncStarts DEF Syncing
<1> QED BY <1>2, <1>3

\* The cursor is the last item read; what it precedes is the rest.
LEMMA CacheItemPosition ==
    ASSUME TypeInv, NEW s \in Slots, CacheSlot(s), NEW c, c = input[s].conv, ItemPosition(s)
    PROVE  Keeps(s, c)
<1>1. /\ pc[s] = "item_position" /\ UNCHANGED <<items, input, acc>>
      /\ input[s] # None /\ c \in Convs /\ cursor[s].id \in ItemIds
  BY DEF ItemPosition, Unwritten, tables, handler, Continue, TypeInv, TypeOK, Shape, Requests
<1>2. PICK m, i : m = acc[s] /\ i = cursor[s].id
  OBVIOUS
<1>3. /\ Lists(c, m) /\ Len(m) \in 1..Len(m) /\ m[Len(m)][1] = i
      /\ \A j \in Present(c) : Holds(m, j) \/ Precedes(c, i, j)
      /\ m \in Seq(Messages)
  BY <1>1, <1>2 DEF CacheSlot, SyncPart, TypeInv, TypeOK
<1>4. i \in Present(c) /\ \A k \in 1..Len(m) : m[k][1] = i \/ Precedes(c, m[k][1], i)
  BY <1>3 DEF Lists
<1>5. /\ pc'[s] = "list_items"
      /\ cursor' = [cursor EXCEPT ![s].pos = items[c][i].position]
  BY <1>1, <1>2, <1>4 DEF ItemPosition, Continue, TypeInv, TypeOK, Present
<1>6. cursor'[s].id = i /\ cursor'[s].pos = items[c][i].position /\ i # None
  <2>1. cursor \in [Slots -> [id : ItemIds \cup {None}, pos : Nat]]
    BY DEF TypeInv, TypeOK
  <2> QED BY <1>1, <1>2, <1>5, <2>1, NoneAssumption
<1>7. \A j \in Present(c) : j \in Nat /\ items[c][j].position \in Nat
  BY <1>1, PresentRow, ConstantsAssumption DEF TypeInv, ItemRow
<1>8. \A j : j \in Selected(c, cursor[s])' <=> j \in Present(c) /\ Precedes(c, i, j)
  BY <1>1, <1>4, <1>6, <1>7 DEF Selected, After, Precedes, Present
<1>9. \A k \in 1..Len(m) : \A j \in Present(c) :
          Precedes(c, i, j) => Precedes(c, m[k][1], j)
  <2>1. \A k \in 1..Len(m) : m[k][1] \in Present(c)
    BY <1>3 DEF Lists
  <2> QED BY <1>1, <1>4, <2>1, PrecedesOrders DEF TypeInv
<1>10. Lists(c, m)' /\ Present(c)' = Present(c)
       /\ \A a, b : Precedes(c, a, b)' <=> Precedes(c, a, b)
  BY <1>1, <1>3, ListsFrame DEF Precedes
<1>11. SyncPart(s)'
  BY <1>1, <1>2, <1>3, <1>5, <1>8, <1>9, <1>10 DEF SyncPart, Holds
<1>12. CreatePart(s)'
  BY <1>1, <1>5, <1>10 DEF CacheSlot, CreatePart
<1> QED BY <1>1, <1>5, <1>11, <1>12 DEF Keeps, CacheSlot, Syncing

\* Messages followed by a page of rows
LEMMA PageAppended ==
    ASSUME TypeOK, NEW c \in Convs, NEW cur, NEW page \in Pages(c, cur), NEW m \in Seq(Messages),
           NEW r, r = [k \in 1..Len(page) |-> <<page[k], items[c][page[k]].data>>]
    PROVE  /\ Len(page) \in Nat /\ Len(m) \in Nat /\ Len(m \o r) = Len(m) + Len(page)
           /\ \A k \in 1..Len(m) : (m \o r)[k] = m[k]
           /\ \A k \in 1..Len(page) : (m \o r)[Len(m) + k] = <<page[k], items[c][page[k]].data>>
<1>1. Len(page) \in Nat /\ Len(m) \in Nat
  BY PagesFacts, ConstantsAssumption
<1> DEFINE S == Messages \cup {r[k] : k \in 1..Len(page)}
<1>2. r \in Seq({r[k] : k \in 1..Len(page)}) /\ Len(r) = Len(page)
  BY <1>1
<1>3. m \in Seq(S) /\ r \in Seq(S)
  BY <1>2
<1> HIDE DEF S
<1>4. /\ DOMAIN (m \o r) = 1..(Len(m) + Len(r))
      /\ \A k \in 1..Len(m) : (m \o r)[k] = m[k]
      /\ \A k \in 1..Len(r) : (m \o r)[Len(m) + k] = r[k]
  BY <1>3, Appended
<1>5. Len(m \o r) = Len(m) + Len(r)
  BY <1>3
<1>6. \A k \in 1..Len(page) : r[k] = <<page[k], items[c][page[k]].data>>
  OBVIOUS
<1> QED BY <1>1, <1>2, <1>4, <1>5, <1>6

\* A page continues the listing that a sync has read so far.
LEMMA PageContinues ==
    ASSUME TypeOK, NEW c \in Convs, NEW cur, NEW page \in Pages(c, cur), NEW m \in Seq(Messages),
           NEW r, r = [k \in 1..Len(page) |-> <<page[k], items[c][page[k]].data>>],
           Lists(c, m),
           \A i \in Present(c) : Holds(m, i) \/ i \in Selected(c, cur),
           \A k \in 1..Len(m) : \A i \in Selected(c, cur) : Precedes(c, m[k][1], i)
    PROVE  /\ Lists(c, m \o r)
           /\ LastPage(page) => IsListing(c, m \o r)
           /\ ~LastPage(page) =>
                /\ Len(m \o r) > 0 /\ (m \o r)[Len(m \o r)][1] = page[Len(page)]
                /\ \A i \in Present(c) : Holds(m \o r, i) \/ Precedes(c, page[Len(page)], i)
<1>1. PICK n, p, a : n = Len(m) /\ p = Len(page) /\ a = m \o r
  OBVIOUS
<1>2. /\ n \in Nat /\ p \in Nat /\ Len(a) = n + p
      /\ \A k \in 1..n : a[k] = m[k]
      /\ \A k \in 1..p : a[n + k] = <<page[k], items[c][page[k]].data>>
  BY <1>1, PageAppended
<1>3. /\ \A k \in 1..p : page[k] \in Present(c) /\ page[k] \in Selected(c, cur)
      /\ \A j, k \in 1..p : j < k => Precedes(c, page[j], page[k])
  <2>1. DOMAIN page = 1..p /\ \A k \in 1..p : page[k] \in Present(c)
    BY <1>1, PagesFacts
  <2>2. PICK l \in 0..PageLimit : page \in [1..l -> Selected(c, cur)]
    BY DEF Pages
  <2>3. \A j, k \in DOMAIN page : j < k => Precedes(c, page[j], page[k])
    BY DEF Pages
  <2> QED BY <2>1, <2>2, <2>3
<1>4. \A k \in 1..(n + p) : \/ k \in 1..n /\ a[k] = m[k]
                            \/ \E j \in 1..p : k = n + j /\ a[k] = <<page[j], items[c][page[j]].data>>
  <2> SUFFICES ASSUME NEW k \in 1..(n + p), ~(k \in 1..n)
               PROVE  \E j \in 1..p : k = n + j /\ a[k] = <<page[j], items[c][page[j]].data>>
    BY <1>2
  <2>1. k - n \in 1..p /\ k = n + (k - n)
    BY <1>2
  <2> QED BY <1>2, <2>1
<1>5. Lists(c, a)
  <2>1. ASSUME NEW k \in 1..Len(a)
        PROVE  a[k][1] \in Present(c) /\ a[k] = <<a[k][1], items[c][a[k][1]].data>>
    <3>1. CASE k \in 1..n /\ a[k] = m[k]
      BY <1>1, <3>1 DEF Lists
    <3>2. ASSUME NEW j \in 1..p, a[k] = <<page[j], items[c][page[j]].data>>
          PROVE  a[k][1] \in Present(c) /\ a[k] = <<a[k][1], items[c][a[k][1]].data>>
      BY <1>3, <3>2
    <3> QED BY <1>2, <1>4, <3>1, <3>2
  <2>2. ASSUME NEW j \in 1..Len(a), NEW k \in 1..Len(a), j < k
        PROVE  Precedes(c, a[j][1], a[k][1])
    <3>1. CASE j \in 1..n /\ k \in 1..n
      BY <1>1, <1>2, <2>2, <3>1 DEF Lists
    <3>2. CASE j \in 1..n /\ k \notin 1..n
      <4>1. PICK q \in 1..p : a[k] = <<page[q], items[c][page[q]].data>>
        BY <1>2, <1>4, <3>2
      <4>2. a[k][1] = page[q] /\ page[q] \in Selected(c, cur) /\ a[j] = m[j]
        BY <1>2, <1>3, <3>2, <4>1
      <4> QED BY <1>1, <3>2, <4>2
    <3>3. CASE j \notin 1..n
      <4>1. k \notin 1..n
        BY <1>2, <2>2, <3>3
      <4>2. PICK q \in 1..p : j = n + q /\ a[j] = <<page[q], items[c][page[q]].data>>
        BY <1>2, <1>4, <3>3
      <4>3. PICK t \in 1..p : k = n + t /\ a[k] = <<page[t], items[c][page[t]].data>>
        BY <1>2, <1>4, <4>1
      <4>4. q < t
        BY <1>2, <2>2, <4>2, <4>3
      <4>5. a[j][1] = page[q] /\ a[k][1] = page[t]
        BY <4>2, <4>3
      <4> QED BY <1>3, <4>4, <4>5
    <3> QED BY <3>1, <3>2, <3>3
  <2> QED BY <2>1, <2>2 DEF Lists
<1>6. \A i : Holds(m, i) => Holds(a, i)
  <2> SUFFICES ASSUME NEW i, NEW k \in 1..n, m[k][1] = i PROVE Holds(a, i)
    BY <1>1 DEF Holds
  <2>1. k \in 1..Len(a) /\ a[k][1] = i
    BY <1>2
  <2> QED BY <2>1 DEF Holds
<1>7. \A k \in 1..p : Holds(a, page[k])
  <2> SUFFICES ASSUME NEW k \in 1..p PROVE Holds(a, page[k])
    OBVIOUS
  <2>1. n + k \in 1..Len(a) /\ a[n + k][1] = page[k]
    BY <1>2
  <2> QED BY <2>1 DEF Holds
<1>8. \A i \in Present(c) : Holds(a, i) \/ (~LastPage(page) /\ Precedes(c, page[p], i))
  BY <1>1, <1>6, <1>7, PageCovers
<1>9. LastPage(page) => IsListing(c, a)
  BY <1>5, <1>8 DEF IsListing
<1>10. ASSUME ~LastPage(page)
       PROVE  Len(a) > 0 /\ a[Len(a)][1] = page[p]
  <2>1. p \in 1..p
    BY <1>1, <1>2, <1>10, ConstantsAssumption DEF LastPage
  <2> QED BY <1>2, <2>1
<1> QED BY <1>1, <1>5, <1>8, <1>9, <1>10

LEMMA CacheListItems ==
    ASSUME TypeInv, NEW s \in Slots, CacheSlot(s), NEW c, c = input[s].conv, ListItems(s)
    PROVE  Keeps(s, c)
<1>1. /\ pc[s] = "list_items" /\ UNCHANGED <<items, input>>
      /\ input[s] # None /\ c \in Convs
  BY DEF ListItems, Unwritten, tables, TypeInv, TypeOK, Shape, Requests
<1>2. PICK page \in Pages(c, cursor[s]) :
        /\ acc' = [acc EXCEPT ![s] =
              @ \o [k \in 1..Len(page) |-> <<page[k], items[c][page[k]].data>>]]
        /\ \/ /\ LastPage(page)
              /\ Continue(s, "update_messages")
              /\ UNCHANGED cursor
           \/ /\ ~LastPage(page)
              /\ cursor' = [cursor EXCEPT ![s] = CursorAfter(page)]
              /\ Continue(s, "item_position")
  BY DEF ListItems
<1>3. PICK m, r, cur, a : /\ m = acc[s] /\ cur = cursor[s]
                          /\ r = [k \in 1..Len(page) |-> <<page[k], items[c][page[k]].data>>]
                          /\ a = m \o r
  OBVIOUS
<1>4. acc'[s] = a /\ m \in Seq(Messages)
  BY <1>2, <1>3, ZenonT(60) DEF TypeInv, TypeOK
<1>5. /\ Lists(c, m)
      /\ \A i \in Present(c) : Holds(m, i) \/ i \in Selected(c, cur)
      /\ \A k \in 1..Len(m) : \A i \in Selected(c, cur) : Precedes(c, m[k][1], i)
  BY <1>1, <1>3 DEF CacheSlot, SyncPart
<1>6. /\ Lists(c, a)
      /\ LastPage(page) => IsListing(c, a)
      /\ ~LastPage(page) =>
           /\ Len(a) > 0 /\ a[Len(a)][1] = page[Len(page)]
           /\ \A i \in Present(c) : Holds(a, i) \/ Precedes(c, page[Len(page)], i)
  <2>1. TypeOK /\ page \in Pages(c, cur)
    BY <1>2, <1>3 DEF TypeInv
  <2>2. r = [k \in 1..Len(page) |-> <<page[k], items[c][page[k]].data>>] /\ a = m \o r
    BY <1>3
  <2>3. /\ Lists(c, m \o r)
        /\ LastPage(page) => IsListing(c, m \o r)
        /\ ~LastPage(page) =>
             /\ Len(m \o r) > 0 /\ (m \o r)[Len(m \o r)][1] = page[Len(page)]
             /\ \A i \in Present(c) : Holds(m \o r, i) \/ Precedes(c, page[Len(page)], i)
    BY <1>1, <1>4, <1>5, <2>1, <2>2, PageContinues, ZenonT(60)
  <2> QED BY <2>2, <2>3
<1>7. /\ Lists(c, a)' /\ (IsListing(c, a) => IsListing(c, a)') /\ Present(c)' = Present(c)
      /\ \A i, j : Precedes(c, i, j)' <=> Precedes(c, i, j)
  BY <1>1, <1>6, ListsFrame DEF Precedes
<1>8. /\ \/ LastPage(page) /\ pc'[s] = "update_messages"
         \/ ~LastPage(page) /\ pc'[s] = "item_position" /\ cursor'[s].id = page[Len(page)]
  BY <1>2 DEF Continue, CursorAfter, TypeInv, TypeOK
<1>9. SyncPart(s)'
  <2>1. CASE LastPage(page)
    BY <1>1, <1>4, <1>6, <1>7, <1>8, <2>1 DEF SyncPart
  <2>2. CASE ~LastPage(page)
    BY <1>1, <1>4, <1>6, <1>7, <1>8, <2>2 DEF SyncPart, Holds
  <2> QED BY <2>1, <2>2
<1>10. CreatePart(s)'
  BY <1>1, <1>7, <1>8 DEF CacheSlot, CreatePart
<1> QED BY <1>1, <1>8, <1>9, <1>10 DEF Keeps, CacheSlot, Syncing

\* The listing that was read is what the row now holds.
LEMMA CacheUpdates ==
    ASSUME TypeInv, NEW s \in Slots, CacheSlot(s), NEW c, c = input[s].conv, UpdateMessages(s)
    PROVE  Keeps(s, c)
<1>1. /\ pc[s] = "update_messages" /\ items' = items /\ input[s] # None /\ c \in Convs
  BY DEF UpdateMessages, TypeInv, TypeOK, Shape, Requests
<1>2. PICK m : m = acc[s]
  OBVIOUS
<1>3. IsListing(c, m)'
  BY <1>1, <1>2, ListsFrame DEF CacheSlot, SyncPart
<1>4. convs'[c] = None \/ convs'[c].messages = m
  <2>1. convs'[c] = IF convs[c] = None THEN None ELSE [convs[c] EXCEPT !.messages = m]
    <3>1. convs' = [convs EXCEPT ![c] =
                        IF @ = None THEN None ELSE [@ EXCEPT !.messages = m]]
      BY <1>2 DEF UpdateMessages, SyncedTable
    <3>2. c \in DOMAIN convs
      BY <1>1 DEF TypeInv, TypeOK
    <3> QED BY <3>1, <3>2
  <2>2. convs[c] # None => [convs[c] EXCEPT !.messages = m].messages = m
    <3>1. convs[c] \in ConvRow \cup {None}
      BY <1>1 DEF TypeInv, TypeOK
    <3>2. \A row \in ConvRow : [row EXCEPT !.messages = m].messages = m
      BY DEF ConvRow
    <3> QED BY <3>1, <3>2
  <2> QED BY <2>1, <2>2
<1>5. InSync(c)'
  BY <1>3, <1>4 DEF InSync
<1>6. CASE \E code : Respond(s, code)
  BY <1>5, <1>6, CacheRespond DEF Keeps
<1>7. CASE ~\E code : Respond(s, code)
  <2>1. Continue(s, "get_result") /\ UNCHANGED handler /\ input[s].op = "delete_item"
    BY <1>1, <1>7 DEF UpdateMessages
  <2>2. pc'[s] = "get_result" /\ input'[s] = input[s]
    BY <2>1 DEF Continue, handler, TypeInv, TypeOK
  <2>3. SyncPart(s)' /\ CreatePart(s)'
    BY <2>1, <2>2 DEF SyncPart, CreatePart
  <2> QED BY <1>1, <1>5, <2>2, <2>3 DEF Keeps, CacheSlot, Syncing
<1> QED BY <1>6, <1>7

LEMMA CacheStoreCall ==
    ASSUME TypeInv, AppendInv, SyncInv, CacheInv, OneAtATime, NEW s \in Slots, StoreCall(s)
    PROVE  CacheInv'
<1>1. PICK c : c = input[s].conv
  OBVIOUS
<1>2. c \in Convs /\ input[s] # None /\ CacheSlot(s) /\ SyncSlot(s)
  BY <1>1, StoreCallFrame DEF CacheInv, SyncInv
<1>3. Keeps(s, c)
  <2>1. CASE \/ GetConversation(s) \/ DeleteConversationRow(s) \/ MaxItemPosition(s)
             \/ ExistingItemIds(s) \/ GetResult(s)
    BY <1>1, <1>2, <2>1, CacheReads
  <2>2. CASE UpsertConversation(s)
    BY <1>1, <1>2, <2>2, CacheUpsert
  <2>3. CASE CreateConversationItems(s)
    BY <1>1, <1>2, <2>3, CacheInserts
  <2>4. CASE DeleteConversationItem(s)
    BY <1>1, <1>2, <2>4, CacheDeletes
  <2>5. CASE ItemPosition(s)
    BY <1>1, <1>2, <2>5, CacheItemPosition
  <2>6. CASE ListItems(s)
    BY <1>1, <1>2, <2>6, CacheListItems
  <2>7. CASE UpdateMessages(s)
    BY <1>1, <1>2, <2>7, CacheUpdates
  <2> QED BY <2>1, <2>2, <2>3, <2>4, <2>5, <2>6, <2>7 DEF StoreCall
<1>4. ASSUME NEW t \in Slots, t # s PROVE CacheSlot(t)'
  <2>1. /\ pc'[t] = pc[t] /\ input'[t] = input[t] /\ existing'[t] = existing[t]
        /\ start'[t] = start[t] /\ acc'[t] = acc[t] /\ cursor'[t] = cursor[t]
    BY <1>4, StoreCallFrame
  <2>2. input[t] # None => input[t].conv \in Convs /\ input[t].conv # c
    BY <1>1, <1>2, <1>4 DEF OneAtATime, TypeInv, TypeOK, Requests
  <2>3. input[t] # None => /\ items'[input[t].conv] = items[input[t].conv]
                           /\ convs'[input[t].conv] = convs[input[t].conv]
    BY <1>1, <2>2, TablesFrame
  <2> QED BY <2>1, <2>3, CacheFrame DEF CacheInv
<1>5. ASSUME NEW d \in Convs, Quiet(d)' PROVE InSync(d)'
  <2>1. CASE d = c
    <3>1. input'[s] = None
      BY <1>1, <1>2, <1>5, <2>1, StoreCallFrame DEF Quiet
    <3> QED BY <1>3, <2>1, <3>1 DEF Keeps
  <2>2. CASE d # c
    <3>1. Quiet(d)
      BY <1>1, <1>5, <2>2, StoreCallFrame DEF Quiet
    <3>2. items'[d] = items[d] /\ convs'[d] = convs[d]
      BY <1>1, <2>2, TablesFrame
    <3> QED BY <3>1, <3>2, InSyncFrame DEF CacheInv
  <2> QED BY <2>1, <2>2
<1>6. CacheSlot(s)'
  BY <1>3 DEF Keeps
<1> QED BY <1>4, <1>5, <1>6 DEF CacheInv

\* A request finds its conversation in sync.
LEMMA CacheArrive ==
    ASSUME TypeInv, AppendInv, CacheInv, OneAtATime', NEW s \in Slots, Arrive(s)
    PROVE  CacheInv'
<1>1. UNCHANGED tables /\ pc[s] = "idle" /\ input[s] = None /\ acc[s] = <<>> /\ CacheSlot(s)
  <2>1. UNCHANGED tables /\ pc[s] = "idle"
    BY DEF Arrive, CreateConversation, UpdateConversation, DeleteConversation, CreateItems,
           DeleteItem, RejectInvalid, Accept
  <2> QED BY <2>1 DEF TypeInv, Shape, CacheInv, CacheSlot, Syncing
<1>2. ASSUME \A t \in Slots \ {s} : /\ pc'[t] = pc[t] /\ input'[t] = input[t]
                                    /\ existing'[t] = existing[t] /\ start'[t] = start[t]
                                    /\ acc'[t] = acc[t] /\ cursor'[t] = cursor[t],
             CacheSlot(s)'
      PROVE  CacheInv'
  <2>1. ASSUME NEW t \in Slots, t # s PROVE CacheSlot(t)'
    BY <1>1, <1>2, <2>1, CacheFrame DEF CacheInv, tables
  <2>2. ASSUME NEW d \in Convs, Quiet(d)' PROVE InSync(d)'
    <3>1. Quiet(d)
      BY <1>1, <1>2, <2>2 DEF Quiet
    <3> QED BY <1>1, <3>1, InSyncFrame DEF CacheInv, tables
  <2> QED BY <1>2, <2>1, <2>2 DEF CacheInv
<1>3. ASSUME NEW req \in Requests, NEW step, NEW record, Accept(s, req, step, record)
      PROVE  /\ \A t \in Slots \ {s} : /\ pc'[t] = pc[t] /\ input'[t] = input[t]
                                       /\ existing'[t] = existing[t] /\ start'[t] = start[t]
                                       /\ acc'[t] = acc[t] /\ cursor'[t] = cursor[t]
             /\ pc'[s] = step /\ input'[s] = req /\ existing'[s] = record /\ acc'[s] = <<>>
             /\ InSync(req.conv)'
  <2>1. /\ \A t \in Slots \ {s} : /\ pc'[t] = pc[t] /\ input'[t] = input[t]
                                  /\ existing'[t] = existing[t] /\ start'[t] = start[t]
                                  /\ acc'[t] = acc[t] /\ cursor'[t] = cursor[t]
        /\ pc'[s] = step /\ input'[s] = req /\ existing'[s] = record /\ acc'[s] = <<>>
    BY <1>1, <1>3 DEF Accept, TypeInv, TypeOK
  <2>2. req \in Requests /\ req # None /\ req.conv \in Convs
    BY NoneAssumption DEF Requests
  <2>3. Quiet(req.conv)
    BY <1>1, <2>1, <2>2 DEF Quiet, OneAtATime
  <2>4. InSync(req.conv)'
    BY <1>1, <2>2, <2>3, InSyncFrame DEF CacheInv, tables
  <2> QED BY <2>1, <2>4
<1>4. CASE CreateConversation(s)
  <2>1. PICK d \in Convs, m \in Metas, its \in Payloads :
            /\ birth[d] = None
            /\ Accept(s, Request("create_conversation", d, m, its, "ok", None),
                      "upsert_conversation",
                      [created_at |-> now, metadata |-> m, messages |-> its])
    BY <1>4 DEF CreateConversation
  <2>2. PICK req, record : /\ req = Request("create_conversation", d, m, its, "ok", None)
                           /\ record = [created_at |-> now, metadata |-> m, messages |-> its]
    OBVIOUS
  <2>3. /\ req \in Requests /\ req.op = "create_conversation" /\ req.conv = d
        /\ req.items = its /\ record.messages = its
    BY <2>2, ConstantsAssumption DEF Request, Requests, Ops, MetaFields, Bodies
  <2>4. /\ pc'[s] = "upsert_conversation" /\ input'[s] = req
        /\ existing'[s] = record /\ acc'[s] = <<>>
    BY <1>3, <2>1, <2>2, <2>3
  <2>5. Present(d)' = {}
    BY <1>1, <2>1, ListsFrame DEF AppendInv, tables
  <2>6. CreatePart(s)' /\ SyncPart(s)'
    BY <2>3, <2>4, <2>5 DEF CreatePart, SyncPart
  <2>7. CacheSlot(s)'
    BY <2>3, <2>4, <2>6 DEF CacheSlot
  <2> QED BY <1>2, <1>3, <2>1, <2>2, <2>3, <2>7
<1>5. CASE RejectInvalid(s)
  <2>1. Respond(s, 400)
    BY <1>5 DEF RejectInvalid
  <2>2. \A t \in Slots \ {s} : /\ pc'[t] = pc[t] /\ input'[t] = input[t]
                               /\ existing'[t] = existing[t] /\ start'[t] = start[t]
                               /\ acc'[t] = acc[t] /\ cursor'[t] = cursor[t]
    BY <2>1 DEF Respond, TypeInv, TypeOK
  <2> QED BY <1>2, <2>1, <2>2, CacheRespond
<1>6. CASE ~CreateConversation(s) /\ ~RejectInvalid(s)
  <2>1. PICK req \in Requests, step \in {"get_conversation", "delete_conversation"} :
            /\ Accept(s, req, step, None)
            /\ \/ /\ step = "get_conversation"
                  /\ req.op \in {"update_conversation", "create_items", "delete_item"}
               \/ step = "delete_conversation" /\ req.op = "delete_conversation"
    BY <1>6, ArriveForm
  <2>2. pc'[s] = step /\ input'[s] = req /\ acc'[s] = <<>> /\ InSync(req.conv)'
    BY <1>3, <2>1
  <2>3. CreatePart(s)' /\ SyncPart(s)'
    BY <2>1, <2>2 DEF CreatePart, SyncPart
  <2>4. CacheSlot(s)'
    BY <2>1, <2>2, <2>3 DEF CacheSlot
  <2> QED BY <1>2, <1>3, <2>1, <2>4
<1> QED BY <1>4, <1>5, <1>6

LEMMA CacheStep ==
    ASSUME ~Faults, TypeInv, AppendInv, SyncInv, CacheInv, OneAtATime, OneAtATime', [Next]_vars
    PROVE  CacheInv'
<1>1. CASE UNCHANGED vars \/ Tick
  <2>1. UNCHANGED <<tables, pc, handler>>
    BY <1>1 DEF vars, Tick, tables, handler
  <2>2. ASSUME NEW t \in Slots PROVE CacheSlot(t)'
    BY <2>1, CacheFrame DEF CacheInv, tables, handler
  <2>3. ASSUME NEW d \in Convs, Quiet(d)' PROVE InSync(d)'
    BY <2>1, <2>3, InSyncFrame DEF CacheInv, Quiet, tables, handler
  <2> QED BY <2>2, <2>3 DEF CacheInv
<1> QED BY <1>1, CacheStoreCall, CacheArrive DEF Next, StoreError, Restart, Quiesced

\* sync_conversation_messages: where requests on one conversation do not
\* overlap and no store call fails, the message cache of every conversation is
\* its item listing whenever nothing is in flight, whatever requests on other
\* conversations interleave.  (With an overlap the two drift apart: nothing
\* wraps a handler's store calls in a transaction.)
THEOREM CacheFollowsItems ==
    ASSUME ~Faults
    PROVE  Spec /\ []OneAtATime => []MessagesInSync
<1>1. Init => BirthInv /\ AppendInv /\ SyncInv /\ CacheInv
  <2>1. Init => BirthInv /\ AppendInv /\ SyncInv
    BY DEF Init, BirthInv, BirthSlot, CreatedAtPreserved, AppendInv, AppendSlot, AppendOrder,
           Present, SyncInv, SyncSlot
  <2>2. Init => CacheInv
    BY DEF Init, CacheInv, CacheSlot, InSync
  <2> QED BY <2>1, <2>2
<1>2. TypeInv /\ BirthInv /\ [Next]_vars => BirthInv'
  BY BirthStep
<1>3. TypeInv /\ BirthInv /\ AppendInv /\ [Next]_vars => AppendInv'
  BY AppendStep
<1>4. TypeInv /\ AppendInv /\ AppendInv' /\ SyncInv /\ [Next]_vars => SyncInv'
  BY SyncStep
<1>5. TypeInv /\ AppendInv /\ SyncInv /\ CacheInv /\ OneAtATime /\ OneAtATime' /\ [Next]_vars
        => CacheInv'
  BY CacheStep
<1>6. TypeInv /\ CacheInv => MessagesInSync
  <2> SUFFICES ASSUME TypeInv, CacheInv, \A s \in Slots : pc[s] = "idle",
                      NEW c \in Convs, convs[c] # None
               PROVE  convs[c].messages =
                        [k \in 1..Cardinality(Present(c)) |->
                            <<Listing(c)[k], items[c][Listing(c)[k]].data>>]
    BY DEF MessagesInSync
  <2>1. IsListing(c, convs[c].messages)
    BY DEF CacheInv, Quiet, InSync, TypeInv, Shape
  <2>2. convs[c].messages \in Seq(Messages)
    BY DEF TypeInv, TypeOK, ConvRow
  <2> QED BY <2>1, <2>2, ListingUnique DEF TypeInv
<1> QED BY <1>1, <1>2, <1>3, <1>4, <1>5, <1>6, TypeInvariance, PTL DEF Spec
=============================================================================
