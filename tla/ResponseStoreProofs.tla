------------------------ MODULE ResponseStoreProofs ------------------------
(* Proofs about ResponseStore.                                              *)
EXTENDS ResponseStore, SequenceTheorems, TLAPS

\* A POST .../cancel that names a response stores the backend's answer over the
\* row of that response, without its input and also after a DELETE (the run
\* responses_cancel shows it); and an input that is neither text nor a list has
\* no replayable form.  The theorems on what a row holds and on deleted rows are
\* about all other requests.
OrdinaryRequests ==
    \A r \in Requests :
        /\ r.endpoint = "cancel" => r.target = None
        /\ r.body.input # "object"

Steps == {"idle", "store_body", "rehydrate", "on_request", "get", "delete",
          "upstream", "on_response", "body", "persist", "deliver"}
BeforeAnswer == {"store_body", "rehydrate", "on_request", "upstream"}
Answered == {"on_response", "body", "persist", "deliver"}

Meta(r) == WriteMetadata(Classified(r))

-----------------------------------------------------------------------------
(* The inductive invariant, in parts *)

Types ==
    /\ pc \in [Slots -> Steps]
    /\ table \in [Ids -> Rows \cup {None}]
    /\ trouble \in [Slots -> BOOLEAN] /\ skip \in [Slots -> BOOLEAN]
    /\ reformat \in [Slots -> BOOLEAN]
    /\ DOMAIN req = Slots /\ DOMAIN meta = Slots /\ DOMAIN routed = Slots
    /\ DOMAIN state = Slots /\ DOMAIN sent = Slots
    /\ \A s \in Slots : state[s] # None => state[s].persisted \in Seq(STRING)
    /\ captured \in [Slots -> Seq(STRING) \cup {None}]
    /\ DOMAIN answer = Slots /\ DOMAIN reply = Slots
    /\ DOMAIN inputs = Ids /\ DOMAIN transcript = Ids
    /\ up \in BOOLEAN /\ registered \in BOOLEAN
    /\ cell \in {"empty", "ready", "failed"}
    /\ backend \in Backends

\* What is known of the request an exchange carries
RequestKnown(s) ==
    pc[s] # "idle" \/ req[s] # None =>
        /\ req[s] \in Requests
        /\ meta[s] = Meta(req[s])
        /\ routed[s].results.mode = meta[s].mode
        /\ req[s].target \in told \cup {None}

StepKnown(s) ==
    /\ pc[s] # "idle" => ~ValidateRejects(req[s], meta[s])
    /\ pc[s] \in {"store_body", "rehydrate"} => req[s].method = "POST"
    /\ pc[s] = "get" => req[s].method = "GET"
    /\ pc[s] = "delete" => req[s].method = "DELETE" /\ req[s].target \in told

\* An answer that creates a response carries an id nobody has been told; any
\* other answer with an id is about a response a client already knows.
AnswerKnown(s) ==
    pc[s] \in Answered =>
        /\ answer[s].output \in Seq(STRING) /\ answer[s].run \in RunStates
        /\ answer[s].input \in Seq(STRING) \cup {None}
        /\ answer[s].complete => answer[s].id # None
        /\ answer[s].id # None =>
              IF IsResponsesCreate(req[s])
              THEN answer[s].id \in issued \ told
              ELSE answer[s].id = req[s].target /\ req[s].endpoint = "cancel"
        /\ pc[s] = "persist" =>
              answer[s].complete /\ RequestWillPersist(req[s], meta[s])

\* Two exchanges never create the same response
AnswersApart ==
    \A s, t \in Slots :
        /\ s # t /\ pc[s] \in Answered /\ pc[t] \in Answered
        /\ IsResponsesCreate(req[s]) /\ IsResponsesCreate(req[t])
        /\ answer[s].id # None
        => answer[s].id # answer[t].id

IdsKnown ==
    /\ issued \subseteq Ids /\ told \subseteq issued /\ deleted \subseteq told
    /\ promised \subseteq told
    /\ \A i \in Ids : table[i] # None => i \in issued

\* Without database trouble during the exchange, and unless a failed
\* initialization is final, the exchange has the store it needs.
Usable(s) == ~trouble[s] /\ cell # "failed"
StoreKnown(s) ==
    /\ pc[s] # "idle" /\ ~trouble[s] => up
    /\ pc[s] \in BeforeAnswer \cup {"on_response"} /\ Usable(s) => ~skip[s]
    /\ pc[s] \in {"rehydrate", "on_request", "upstream", "on_response"}
       /\ ShouldInitStore(req[s], meta[s]) /\ Usable(s)
       => cell = "ready" /\ registered
    /\ pc[s] = "body" /\ RequestWillPersist(req[s], meta[s]) /\ Usable(s)
       /\ IsSuccess(answer[s]) /\ answer[s].content = "json"
       => ~skip[s] /\ cell = "ready"
PostgresRetries == backend = "postgres" => cell # "failed"

\* A complete answer to a request that is to be stored
Storable(s) ==
    /\ IsResponsesCreate(req[s]) /\ IsResponses(meta[s])
    /\ answer[s].complete /\ IsSuccess(answer[s]) /\ answer[s].content = "json"
    /\ req[s].body.store \in {"absent", "true"} /\ req[s].body.stream # "true"

\* The row is there before the client has the answer
StoredFirst ==
    \A s \in Slots :
        pc[s] = "deliver" /\ Storable(s) /\ Usable(s) => table[answer[s].id] # None

ReplyKnown(s) ==
    /\ pc[s] \in Steps \ {"idle", "body", "persist", "deliver"} => reply[s].body = "none"
    /\ pc[s] \in {"body", "persist", "deliver"} =>
          /\ reply[s].body \in {"none", "partial"}
          /\ reply[s].body = "partial" => ~reformat[s]
    /\ pc[s] # "idle" => reply[s].body # "local"
    /\ reply[s].body # "mixed"

StoreInv ==
    /\ Types /\ IdsKnown /\ AnswersApart /\ PostgresRetries
    /\ \A s \in Slots :
          RequestKnown(s) /\ StepKnown(s) /\ AnswerKnown(s) /\ StoreKnown(s)

-----------------------------------------------------------------------------
(* What rows and rehydrated states hold, for ordinary requests *)

\* A row is the conversation up to its response, also as rehydrate reads it
RowsFollow ==
    /\ \A i \in issued : transcript[i] \in Seq(STRING)
    /\ \A i \in Ids : table[i] # None =>
          table[i].messages = transcript[i] /\ StoredMessages(table[i]) = transcript[i]

Rehydrated(s) ==
    [messages  |-> Replayed(transcript[req[s].target]) \o NormalizeInput(req[s]),
     persisted |-> transcript[req[s].target] \o NormalizeInput(req[s])]
StateFollows(s) ==
    /\ pc[s] \in {"store_body", "rehydrate"} => state[s] = None
    /\ pc[s] \in {"on_request", "upstream"} \cup Answered /\ state[s] # None =>
          state[s] = Rehydrated(s) /\ req[s].target \in issued
    /\ pc[s] \in {"on_request", "upstream"} /\ state[s] # None =>
          sent[s] = Rehydrated(s).messages

\* The input is captured for every create request that is to be stored
CaptureFollows(s) ==
    /\ pc[s] \in {"rehydrate", "on_request", "upstream"} \cup Answered
    /\ IsResponsesCreate(req[s]) /\ RequestWillPersist(req[s], meta[s])
    => captured[s] = IF req[s].body.input = "absent" THEN None
                     ELSE StoredInputItems(req[s])

AnswerFollows(s) ==
    pc[s] \in Answered /\ answer[s].id # None =>
        /\ transcript[answer[s].id] =
              (IF state[s] = None THEN <<>> ELSE transcript[req[s].target])
                  \o TurnInput(req[s], state[s], answer[s].input) \o answer[s].output
        /\ state[s] # None /\ state[s].persisted = <<>> => answer[s].input = None

HistoryInv ==
    /\ RowsFollow
    /\ \A s \in Slots : StateFollows(s) /\ CaptureFollows(s) /\ AnswerFollows(s)

-----------------------------------------------------------------------------
(* What the filters' decisions say of one request *)

\* A create request is classified by its body, so every fact comes from there.
LEMMA CreateFacts ==
    ASSUME NEW r \in Requests, IsResponsesCreate(r), IsResponses(Meta(r))
    PROVE  /\ r.body.kind = "object"
           /\ Meta(r).stream = AsBool(r.body.stream)
           /\ Meta(r).store = AsBool(r.body.store)
<1>1. r.body \in BodyShape
  BY StoreConstants
<1>2. Classified(r) = ClassifyRequestBody(r.body)
  BY DEF Classified, IsResponsesPath, IsResponsesCreate
<1>3. r.body.kind = "object"
  BY <1>1, <1>2 DEF Meta, IsResponses, WriteMetadata, ClassifyRequestBody, EmptyResult,
                    BodyShape
<1> QED BY <1>2, <1>3 DEF Meta, WriteMetadata, ClassifyRequestBody

\* What a client may rely on to be stored is what the store filter stores.
LEMMA StorableWillPersist ==
    ASSUME NEW r \in Requests, IsResponsesCreate(r), IsResponses(Meta(r)),
           r.body.store \in {"absent", "true"}, r.body.stream # "true"
    PROVE  RequestWillPersist(r, Meta(r))
BY CreateFacts DEF RequestWillPersist, AsBool, IsResponsesCreate

\* A request that rehydrate resolves is one for which the store is initialized.
LEMMA RehydrateNeedsStore ==
    ASSUME NEW r \in Requests, RehydrateApplies(r, Meta(r)), PreviousId(r) = "id"
    PROVE  ShouldInitStore(r, Meta(r)) /\ r.target # None
<1>1. r.body \in BodyShape
  BY StoreConstants
<1>2. r.body.kind = "object" /\ r.body.previous_response_id = "string"
  BY <1>1 DEF PreviousId, BodyShape
<1>3. CASE IsResponsesPath(r)
  <2>1. Meta(r).store = "none" /\ Meta(r).stream = "none"
    BY <1>3 DEF Meta, WriteMetadata, Classified, EmptyResult
  <2> QED BY <1>2, <2>1, StoreConstants
         DEF ShouldInitStore, RequestWillPersist, RehydrateApplies
<1>4. CASE ~IsResponsesPath(r)
  <2>1. Meta(r).has_previous_response_id
    BY <1>2, <1>4 DEF Meta, WriteMetadata, Classified, ClassifyRequestBody
  <2> QED BY <1>2, <2>1, StoreConstants
         DEF ShouldInitStore, RequestNeedsRehydrateStore, RehydrateApplies
<1> QED BY <1>3, <1>4

\* compute_mode: a stateless request needs no store.
LEMMA StatelessFacts ==
    ASSUME NEW r \in Requests, Meta(r).mode = "stateless"
    PROVE  ~ShouldInitStore(r, Meta(r))
<1>1. Meta(r).mode = ComputeMode(Classified(r))
  BY DEF Meta, WriteMetadata
<1>2. /\ Classified(r).store = "false"
      /\ ~Classified(r).has_previous_response_id
  BY <1>1 DEF ComputeMode
<1>3. Meta(r).store = "false" /\ ~Meta(r).has_previous_response_id
  BY <1>2 DEF Meta, WriteMetadata
<1> QED BY <1>3 DEF ShouldInitStore, RequestWillPersist, RequestNeedsRehydrateStore

\* promote_filter_results keeps the mode.
LEMMA PromotedMode ==
    ASSUME NEW c PROVE PromoteFilterResults(c).mode = WriteMetadata(c).mode
BY DEF PromoteFilterResults, WriteMetadata

\* validate: a background request that is not rejected will be stored.
LEMMA BackgroundFacts ==
    ASSUME NEW r \in Requests, ~ValidateRejects(r, Meta(r)), r.method = "POST",
           IsResponses(Meta(r)), Meta(r).background = "true"
    PROVE  RequestWillPersist(r, Meta(r))
<1>1. ~IsBodyless(r)
  <2>1. ASSUME IsBodyless(r) PROVE FALSE
    <3>1. IsResponsesPath(r)
      BY <2>1 DEF IsBodyless, IsResponsesPath
    <3>2. Meta(r).background = "none"
      BY <3>1 DEF Meta, WriteMetadata, Classified, EmptyResult
    <3> QED BY <3>2
  <2> QED BY <2>1
<1> QED BY <1>1 DEF ValidateRejects, ParseAndValidate, RulesHold, RequestWillPersist

-----------------------------------------------------------------------------
(* The invariant holds initially and every step preserves it *)

LEMMA InitStore == Init => StoreInv
<1> SUFFICES ASSUME Init PROVE StoreInv
  OBVIOUS
<1>1. Types
  BY DEF Init, Types, Steps
<1>2. \A s \in Slots : pc[s] = "idle" /\ req[s] = None
  BY DEF Init
<1>3. IdsKnown /\ PostgresRetries
  BY DEF Init, IdsKnown, PostgresRetries
<1>4. AnswersApart
  BY <1>2 DEF AnswersApart, Answered
<1>5. \A s \in Slots : RequestKnown(s) /\ StepKnown(s) /\ AnswerKnown(s) /\ StoreKnown(s)
  BY <1>2 DEF RequestKnown, StepKnown, AnswerKnown, StoreKnown, Answered, BeforeAnswer
<1> QED BY <1>1, <1>3, <1>4, <1>5 DEF StoreInv

\* The row an upsert writes is a row, so it is not None.
LEMMA UpsertedRow ==
    ASSUME StoreInv, NEW s \in Slots, pc[s] \in Answered
    PROVE  ParseResponseRecord(answer[s], captured[s], state[s]) \in Rows
<1>1. answer[s].output \in Seq(STRING) /\ answer[s].run \in RunStates
      /\ answer[s].input \in Seq(STRING) \cup {None}
  BY DEF StoreInv, AnswerKnown
<1>2. captured[s] \in Seq(STRING) \cup {None}
  BY DEF StoreInv, Types
<1>3. state[s] # None => state[s].persisted \in Seq(STRING)
  BY DEF StoreInv, Types
<1>4. <<>> \in Seq(STRING)
  OBVIOUS
<1> QED BY <1>1, <1>2, <1>3, <1>4, ConcatProperties DEF ParseResponseRecord, Rows

\* So is what rehydrate reads from one.
LEMMA StoredTyped ==
    ASSUME NEW row \in Rows PROVE StoredMessages(row) \in Seq(STRING)
BY ConcatProperties DEF StoredMessages, Rows

LEMMA InputTyped ==
    ASSUME NEW r \in Requests
    PROVE  NormalizeInput(r) \in Seq(STRING) /\ StoredInputItems(r) \in Seq(STRING)
<1>1. r.items \in Seq(STRING) /\ <<>> \in Seq(STRING)
  BY StoreConstants
<1> QED BY <1>1 DEF NormalizeInput, StoredInputItems

LEMMA TypesStep == ASSUME StoreInv, [Next]_vars PROVE Types'
<1> USE DEF StoreInv, Types, Steps, Goto, Reject, db, store, exchange, history
<1>1. ASSUME NEW s \in Slots, SlotStep(s), UNCHANGED backend PROVE Types'
  <2>1. CASE Receive(s)
    BY <1>1, <2>1 DEF Receive
  <2>2. CASE StoreRequestBody(s)
    <3>1. StoredInputItems(req[s]) \in Seq(STRING)
      BY <2>2, InputTyped DEF StoreRequestBody, RequestKnown
    <3> QED BY <1>1, <2>2, <3>1 DEF StoreRequestBody, InitForRequest, GetOrInitStore
  <2>3. CASE Rehydrate(s)
    <3>1. \/ state' = state
          \/ \E row \in Rows : state' = [state EXCEPT ![s] = BuildState(row, req[s])]
      <4>1. CASE RehydrateApplies(req[s], meta[s]) /\ PreviousId(req[s]) = "id"
        <5>1. req[s].target \in Ids
          BY <2>3, <4>1, RehydrateNeedsStore
             DEF Rehydrate, RequestKnown, IdsKnown
        <5>2. table[req[s].target] # None => table[req[s].target] \in Rows
          BY <5>1
        <5> QED BY <2>3, <4>1, <5>2 DEF Rehydrate
      <4>2. CASE ~(RehydrateApplies(req[s], meta[s]) /\ PreviousId(req[s]) = "id")
        BY <2>3, <4>2 DEF Rehydrate
      <4> QED BY <4>1, <4>2
    <3>2. NormalizeInput(req[s]) \in Seq(STRING)
      BY <2>3, InputTyped DEF Rehydrate, RequestKnown
    <3>3. \A row \in Rows : BuildState(row, req[s]).persisted \in Seq(STRING)
      BY <3>2, StoredTyped, ConcatProperties DEF BuildState
    <3>4. /\ DOMAIN state' = Slots
          /\ \A t \in Slots : state'[t] # None => state'[t].persisted \in Seq(STRING)
      BY <3>1, <3>3
    <3> QED BY <1>1, <2>3, <3>4 DEF Rehydrate, ProxyBody
  <2>4. CASE OnRequest(s)
    <3>1. GetOrInitStore \in {"empty", "ready", "failed"}
      BY DEF GetOrInitStore
    <3>2. /\ cell' \in {"empty", "ready", "failed"} /\ registered' \in BOOLEAN
          /\ skip' \in [Slots -> BOOLEAN]
      <4>1. CASE InitForRequest(s)
        BY <4>1, <3>1 DEF InitForRequest
      <4>2. CASE ~InitForRequest(s)
        BY <2>4, <3>1, <4>2 DEF OnRequest
      <4> QED BY <4>1, <4>2
    <3>3. pc' \in [Slots -> Steps] /\ DOMAIN reply' = Slots
      BY <2>4 DEF OnRequest
    <3> QED BY <1>1, <2>4, <3>2, <3>3 DEF OnRequest
  <2>5. CASE GetResponse(s)
    BY <1>1, <2>5 DEF GetResponse
  <2>6. CASE HandleDelete(s)
    BY <1>1, <2>6, ZenonT(60) DEF HandleDelete
  <2>7. CASE Upstream(s)
    BY <1>1, <2>7 DEF Upstream
  <2>8. CASE OnResponse(s)
    BY <1>1, <2>8 DEF OnResponse, GetOrInitStore
  <2>9. CASE BodyChunk(s) \/ EndOfStream(s) \/ Deliver(s)
    BY <1>1, <2>9 DEF BodyChunk, EndOfStream, Deliver
  <2>10. CASE PersistResponse(s)
    <3>1. ParseResponseRecord(answer[s], captured[s], state[s]) \in Rows
      BY <2>10, UpsertedRow DEF PersistResponse, Answered
    <3>2. table' \in [Ids -> Rows \cup {None}]
      BY <2>10, <3>1 DEF PersistResponse
    <3>3. pc' \in [Slots -> Steps] /\ DOMAIN reply' = Slots
      BY <2>10 DEF PersistResponse
    <3> QED BY <1>1, <2>10, <3>2, <3>3 DEF PersistResponse
  <2> QED BY <1>1, <2>1, <2>2, <2>3, <2>4, <2>5, <2>6, <2>7, <2>8, <2>9, <2>10 DEF SlotStep
<1>2. CASE (DatabaseDown \/ DatabaseUp \/ Restart) /\ UNCHANGED backend
  BY <1>2 DEF DatabaseDown, DatabaseUp, Restart
<1>3. CASE UNCHANGED vars
  BY <1>3 DEF vars
<1> QED BY <1>1, <1>2, <1>3 DEF Next, Finished

\* A step of one exchange leaves the others alone, and the ids, the store and
\* the database change in one direction only.
LEMMA FrameStep ==
    ASSUME StoreInv, NEW s \in Slots, SlotStep(s)
    PROVE  /\ \A t \in Slots : t # s =>
                 /\ pc'[t] = pc[t] /\ req'[t] = req[t] /\ meta'[t] = meta[t]
                 /\ routed'[t] = routed[t] /\ state'[t] = state[t]
                 /\ captured'[t] = captured[t] /\ skip'[t] = skip[t]
                 /\ answer'[t] = answer[t] /\ sent'[t] = sent[t]
                 /\ trouble'[t] = trouble[t]
                 /\ reformat'[t] = reformat[t] /\ reply'[t] = reply[t]
           /\ up' = up
           /\ cell' \in {cell, GetOrInitStore}
           /\ registered => registered'
           /\ told \subseteq told' /\ issued \subseteq issued'
<1> USE DEF StoreInv, Types, Goto, Reject, db, store, exchange, history
<1>1. CASE Receive(s)
  BY <1>1 DEF Receive
<1>2. CASE StoreRequestBody(s)
  BY <1>2 DEF StoreRequestBody, InitForRequest
<1>3. CASE Rehydrate(s)
  BY <1>3 DEF Rehydrate, ProxyBody
<1>4. CASE OnRequest(s)
  BY <1>4 DEF OnRequest, InitForRequest
<1>5. CASE GetResponse(s) \/ HandleDelete(s)
  BY <1>5 DEF GetResponse, HandleDelete
<1>6. CASE Upstream(s)
  BY <1>6 DEF Upstream
<1>7. CASE OnResponse(s)
  BY <1>7 DEF OnResponse
<1>8. CASE BodyChunk(s) \/ EndOfStream(s)
  BY <1>8 DEF BodyChunk, EndOfStream
<1>9. CASE PersistResponse(s)
  BY <1>9 DEF PersistResponse
<1>10. CASE Deliver(s)
  BY <1>10 DEF Deliver
<1> QED BY <1>1, <1>2, <1>3, <1>4, <1>5, <1>6, <1>7, <1>8, <1>9, <1>10 DEF SlotStep

\* An id is told by the delivery of the answer that carries it.
LEMMA ToldStep ==
    ASSUME StoreInv, NEW s \in Slots, SlotStep(s)
    PROVE  \/ told' = told
           \/ Deliver(s) /\ answer[s].id # None /\ told' = told \cup {answer[s].id}
<1> USE DEF history
<1>1. CASE Receive(s) \/ StoreRequestBody(s) \/ Rehydrate(s) \/ OnRequest(s)
  BY <1>1 DEF Receive, StoreRequestBody, Rehydrate, OnRequest
<1>2. CASE GetResponse(s) \/ HandleDelete(s) \/ Upstream(s) \/ OnResponse(s)
  BY <1>2 DEF GetResponse, HandleDelete, Upstream, OnResponse
<1>3. CASE BodyChunk(s) \/ EndOfStream(s) \/ PersistResponse(s) \/ Deliver(s)
  BY <1>3 DEF BodyChunk, EndOfStream, PersistResponse, Deliver
<1> QED BY <1>1, <1>2, <1>3 DEF SlotStep

\* The id of an answer has been issued.
LEMMA AnswerIssued ==
    ASSUME StoreInv, NEW s \in Slots, pc[s] \in Answered, answer[s].id # None
    PROVE  answer[s].id \in issued /\ answer[s].id \in Ids
BY DEF StoreInv, AnswerKnown, RequestKnown, IdsKnown, Answered

LEMMA RequestStep == ASSUME StoreInv, [Next]_vars, NEW t \in Slots PROVE RequestKnown(t)'
<1> USE DEF StoreInv, Types, Goto, Reject, db, store, exchange, history
<1>1. ASSUME NEW s \in Slots, SlotStep(s) PROVE RequestKnown(t)'
  <2>1. CASE t # s
    <3>1. /\ pc'[t] = pc[t] /\ req'[t] = req[t] /\ meta'[t] = meta[t]
          /\ routed'[t] = routed[t] /\ told \subseteq told'
      BY <1>1, <2>1, FrameStep
    <3> QED BY <3>1 DEF RequestKnown
  <2>2. CASE t = s /\ Receive(s)
    <3>1. PICK r \in Requests :
             /\ r.target = None \/ r.target \in told
             /\ req' = [req EXCEPT ![s] = r]
             /\ meta' = [meta EXCEPT ![s] = WriteMetadata(Classified(r))]
             /\ routed' = [routed EXCEPT ![s] =
                   [results |-> PromoteFilterResults(Classified(r)),
                    headers |-> PromoteHeaders(Classified(r), Headers)]]
      BY <2>2 DEF Receive
    <3>2. told' = told
      BY <2>2 DEF Receive
    <3> QED BY <2>2, <3>1, <3>2, PromotedMode DEF RequestKnown, Meta
  <2>3. CASE t = s /\ ~Receive(s)
    <3>1. pc[s] # "idle" /\ req' = req /\ meta' = meta /\ routed' = routed
      <4>1. CASE StoreRequestBody(s) \/ Rehydrate(s) \/ OnRequest(s)
        BY <4>1 DEF StoreRequestBody, Rehydrate, OnRequest
      <4>2. CASE GetResponse(s) \/ HandleDelete(s) \/ Upstream(s) \/ OnResponse(s)
        BY <4>2 DEF GetResponse, HandleDelete, Upstream, OnResponse
      <4>3. CASE BodyChunk(s) \/ EndOfStream(s) \/ PersistResponse(s) \/ Deliver(s)
        BY <4>3 DEF BodyChunk, EndOfStream, PersistResponse, Deliver
      <4> QED BY <1>1, <2>3, <4>1, <4>2, <4>3 DEF SlotStep
    <3>2. told \subseteq told'
      BY <1>1, FrameStep
    <3> QED BY <2>3, <3>1, <3>2 DEF RequestKnown
  <2> QED BY <2>1, <2>2, <2>3
<1>2. CASE DatabaseDown \/ DatabaseUp \/ Restart
  BY <1>2 DEF DatabaseDown, DatabaseUp, Restart, RequestKnown
<1>3. CASE UNCHANGED vars
  BY <1>3 DEF vars, RequestKnown
<1> QED BY <1>1, <1>2, <1>3 DEF Next, Finished

LEMMA StepStep == ASSUME StoreInv, [Next]_vars, NEW t \in Slots PROVE StepKnown(t)'
<1> USE DEF StoreInv, Types, Goto, Reject, db, store, exchange, history
<1>1. ASSUME NEW s \in Slots, SlotStep(s) PROVE StepKnown(t)'
  <2>1. CASE t # s
    <3>1. /\ pc'[t] = pc[t] /\ req'[t] = req[t] /\ meta'[t] = meta[t]
          /\ told \subseteq told'
      BY <1>1, <2>1, FrameStep
    <3> QED BY <3>1 DEF StepKnown
  <2>2. CASE t = s /\ Receive(s)
    <3>1. PICK r \in Requests :
             /\ req' = [req EXCEPT ![s] = r]
             /\ meta' = [meta EXCEPT ![s] = WriteMetadata(Classified(r))]
             /\ IF HandleInvalidFormat(Classified(r).format, OnInvalid)
                THEN Reject(s, 400, "json")
                ELSE IF ValidateRejects(r, WriteMetadata(Classified(r)))
                THEN Reject(s, 400, ErrorForm(WriteMetadata(Classified(r)).stream = "true"))
                ELSE Goto(s, IF r.method = "POST" THEN "store_body" ELSE "on_request")
      BY <2>2, Zenon DEF Receive
    <3>2. \/ pc'[s] = "idle"
          \/ /\ ~ValidateRejects(r, WriteMetadata(Classified(r)))
             /\ pc'[s] = IF r.method = "POST" THEN "store_body" ELSE "on_request"
      BY <3>1
    <3> QED BY <2>2, <3>1, <3>2 DEF StepKnown
  <2>3. CASE t = s /\ (StoreRequestBody(s) \/ Rehydrate(s))
    BY <2>3 DEF StoreRequestBody, Rehydrate, ProxyBody, StepKnown
  <2>4. CASE t = s /\ OnRequest(s)
    <3>1. /\ pc[s] = "on_request" /\ req' = req /\ meta' = meta /\ told' = told
          /\ \/ pc'[s] \in {"idle", "upstream"}
             \/ pc'[s] = "get" /\ req[s].method = "GET"
             \/ pc'[s] = "delete" /\ req[s].method = "DELETE" /\ Local(req[s])
      BY <2>4 DEF OnRequest
    <3>2. Local(req[s]) /\ req[s].method = "DELETE" => req[s].target \in told
      BY <3>1, StoreConstants DEF Local, RequestKnown
    <3> QED BY <2>4, <3>1, <3>2 DEF StepKnown
  <2>5. CASE t = s /\ (GetResponse(s) \/ HandleDelete(s) \/ Upstream(s) \/ OnResponse(s))
    <3>1. CASE GetResponse(s)
      BY <2>5, <3>1 DEF GetResponse, StepKnown
    <3>2. CASE HandleDelete(s)
      BY <2>5, <3>2 DEF HandleDelete, StepKnown
    <3>3. CASE Upstream(s)
      BY <2>5, <3>3 DEF Upstream, StepKnown
    <3>4. CASE OnResponse(s)
      BY <2>5, <3>4 DEF OnResponse, StepKnown
    <3> QED BY <2>5, <3>1, <3>2, <3>3, <3>4
  <2>6. CASE t = s /\ (BodyChunk(s) \/ EndOfStream(s) \/ PersistResponse(s) \/ Deliver(s))
    BY <2>6 DEF BodyChunk, EndOfStream, PersistResponse, Deliver, StepKnown
  <2> QED BY <1>1, <2>1, <2>2, <2>3, <2>4, <2>5, <2>6 DEF SlotStep
<1>2. CASE DatabaseDown \/ DatabaseUp \/ Restart
  BY <1>2 DEF DatabaseDown, DatabaseUp, Restart, StepKnown
<1>3. CASE UNCHANGED vars
  BY <1>3 DEF vars, StepKnown
<1> QED BY <1>1, <1>2, <1>3 DEF Next, Finished

LEMMA IdsStep == ASSUME StoreInv, [Next]_vars PROVE IdsKnown'
<1> USE DEF StoreInv, Types, Goto, Reject, db, store, exchange, history, IdsKnown
<1>1. ASSUME NEW s \in Slots, SlotStep(s) PROVE IdsKnown'
  <2>1. CASE Receive(s) \/ StoreRequestBody(s) \/ Rehydrate(s) \/ OnRequest(s)
    BY <2>1 DEF Receive, StoreRequestBody, Rehydrate, OnRequest
  <2>2. CASE GetResponse(s) \/ OnResponse(s) \/ BodyChunk(s) \/ EndOfStream(s)
    BY <2>2 DEF GetResponse, OnResponse, BodyChunk, EndOfStream
  <2>3. CASE HandleDelete(s)
    <3>1. req[s].target \in told
      BY <2>3 DEF HandleDelete, StepKnown
    <3> QED BY <2>3, <3>1 DEF HandleDelete
  <2>4. CASE Upstream(s)
    BY <2>4 DEF Upstream
  <2>5. CASE PersistResponse(s)
    <3>1. answer[s].id \in issued
      BY <2>5, AnswerIssued DEF PersistResponse, AnswerKnown, Answered
    <3> QED BY <2>5, <3>1 DEF PersistResponse
  <2>6. CASE Deliver(s)
    <3>1. answer[s].id # None => answer[s].id \in issued
      BY <2>6, AnswerIssued DEF Deliver, Answered
    <3>2. answer[s].complete => answer[s].id # None
      BY <2>6 DEF Deliver, AnswerKnown, Answered
    <3> QED BY <2>6, <3>1, <3>2 DEF Deliver
  <2> QED BY <1>1, <2>1, <2>2, <2>3, <2>4, <2>5, <2>6 DEF SlotStep
<1>2. CASE DatabaseDown \/ DatabaseUp \/ Restart
  BY <1>2 DEF DatabaseDown, DatabaseUp, Restart
<1>3. CASE UNCHANGED vars
  BY <1>3 DEF vars
<1> QED BY <1>1, <1>2, <1>3 DEF Next, Finished

\* Delivering one answer does not tell the id that another exchange created.
LEMMA OthersUntold ==
    ASSUME StoreInv, NEW s \in Slots, NEW t \in Slots, t # s, SlotStep(s),
           pc[t] \in Answered, IsResponsesCreate(req[t]), answer[t].id # None
    PROVE  answer[t].id \in issued' \ told'
<1>1. answer[t].id \in issued \ told
  BY DEF StoreInv, AnswerKnown
<1>2. issued \subseteq issued'
  BY FrameStep
<1>3. ASSUME Deliver(s), answer[s].id # None, answer[s].id = answer[t].id PROVE FALSE
  <2>1. pc[s] \in Answered
    BY <1>3 DEF Deliver, Answered
  <2>2. IsResponsesCreate(req[s])
    BY <1>1, <1>3, <2>1 DEF StoreInv, AnswerKnown, RequestKnown, Answered
  <2> QED BY <1>3, <2>1, <2>2 DEF StoreInv, AnswersApart
<1> QED BY <1>1, <1>2, <1>3, ToldStep

LEMMA AnswerStep == ASSUME StoreInv, [Next]_vars, NEW t \in Slots PROVE AnswerKnown(t)'
<1> USE DEF StoreInv, Types, Goto, Reject, db, store, exchange, history
<1>1. ASSUME NEW s \in Slots, SlotStep(s) PROVE AnswerKnown(t)'
  <2>1. CASE t # s
    <3>1. /\ pc'[t] = pc[t] /\ req'[t] = req[t] /\ meta'[t] = meta[t]
          /\ answer'[t] = answer[t]
      BY <1>1, <2>1, FrameStep
    <3> QED BY <1>1, <2>1, <3>1, OthersUntold DEF AnswerKnown
  <2>2. CASE t = s /\ (Receive(s) \/ StoreRequestBody(s) \/ Rehydrate(s) \/ OnRequest(s)
                       \/ GetResponse(s) \/ HandleDelete(s) \/ Deliver(s))
    <3>1. pc'[s] \notin Answered
      BY <2>2 DEF Receive, StoreRequestBody, Rehydrate, ProxyBody, OnRequest,
                  GetResponse, HandleDelete, Deliver, Answered
    <3> QED BY <2>2, <3>1 DEF AnswerKnown
  <2>3. CASE t = s /\ Upstream(s)
    <3>1. /\ pc'[s] = "on_response" /\ req' = req /\ meta' = meta /\ told' = told
      BY <2>3 DEF Upstream
    <3>2. CASE IsResponsesCreate(req[s])
      <4>1. PICK a \in Answers, out \in Outputs, i \in Ids \ issued :
               /\ answer' = [answer EXCEPT ![s] =
                     [status |-> a.status, content |-> a.content,
                      complete |-> a.complete, run |-> a.run, error |-> a.error,
                      id |-> i, input |-> NamedInput(s, a), output |-> out]]
               /\ issued' = issued \cup {i}
        BY <2>3, <3>2, SMTT(60) DEF Upstream, IsResponsesCreate
      <4>2. answer'[s].id = i /\ answer'[s].output = out /\ answer'[s].run = a.run
            /\ answer'[s].input = NamedInput(s, a)
        BY <4>1
      <4>3. out \in Seq(STRING) /\ a.run \in RunStates /\ i # None
            /\ NamedInput(s, a) \in Seq(STRING) \cup {None}
        BY StoreConstants DEF NamedInput
      <4> QED BY <2>3, <3>1, <3>2, <4>1, <4>2, <4>3 DEF AnswerKnown, IdsKnown
    <3>3. CASE ~IsResponsesCreate(req[s])
      <4>1. /\ answer'[s].output \in Seq(STRING) /\ answer'[s].run \in RunStates
            /\ answer'[s].input \in Seq(STRING) \cup {None}
            /\ answer'[s].complete => answer'[s].id # None
            /\ answer'[s].id # None =>
                 answer'[s].id = req[s].target /\ req[s].endpoint = "cancel"
        <5>1. CASE req[s].endpoint = "cancel" /\ req[s].target # None
          <6>1. PICK a \in Answers, out \in Outputs : answer' = [answer EXCEPT ![s] =
                   [status |-> 200, content |-> "json", complete |-> TRUE,
                    run |-> "cancelled", error |-> None,
                    id |-> req[s].target, input |-> a.input, output |-> out]]
            BY <2>3, <3>3, <5>1 DEF Upstream
          <6>2. out \in Seq(STRING) /\ a.input \in Seq(STRING) \cup {None}
            BY StoreConstants
          <6>3. /\ answer'[s].id = req[s].target /\ answer'[s].output = out
                /\ answer'[s].run = "cancelled" /\ answer'[s].input = a.input
            BY <6>1
          <6> QED BY <5>1, <6>2, <6>3 DEF RunStates
        <5>2. CASE ~(req[s].endpoint = "cancel" /\ req[s].target # None)
          <6>1. PICK a \in Answers : answer' = [answer EXCEPT ![s] =
                   [status |-> a.status, content |-> a.content,
                    complete |-> FALSE, run |-> a.run, error |-> a.error,
                    id |-> None, input |-> a.input, output |-> <<>>]]
            BY <2>3, <3>3, <5>2 DEF Upstream
          <6>2. a.run \in RunStates /\ <<>> \in Seq(STRING)
                /\ a.input \in Seq(STRING) \cup {None}
            BY StoreConstants
          <6> QED BY <6>1, <6>2
        <5> QED BY <5>1, <5>2
      <4> QED BY <2>3, <3>1, <3>3, <4>1 DEF AnswerKnown
    <3> QED BY <3>2, <3>3
  <2>4. CASE t = s /\ (OnResponse(s) \/ BodyChunk(s))
    BY <2>4 DEF OnResponse, BodyChunk, AnswerKnown, Answered
  <2>5. CASE t = s /\ EndOfStream(s)
    <3>1. pc'[s] = "persist" => answer[s].complete /\ RequestWillPersist(req[s], meta[s])
      BY <2>5 DEF EndOfStream, ShouldSkipPersist, ShouldSkip
    <3> QED BY <2>5, <3>1 DEF EndOfStream, AnswerKnown, Answered
  <2>6. CASE t = s /\ PersistResponse(s)
    BY <2>6 DEF PersistResponse, AnswerKnown, Answered
  <2> QED BY <1>1, <2>1, <2>2, <2>3, <2>4, <2>5, <2>6 DEF SlotStep
<1>2. CASE DatabaseDown \/ DatabaseUp \/ Restart
  BY <1>2 DEF DatabaseDown, DatabaseUp, Restart, AnswerKnown, Answered
<1>3. CASE UNCHANGED vars
  BY <1>3 DEF vars, AnswerKnown
<1> QED BY <1>1, <1>2, <1>3 DEF Next, Finished

LEMMA ApartStep == ASSUME StoreInv, [Next]_vars PROVE AnswersApart'
<1> USE DEF StoreInv, Types, Goto, Reject, db, store, exchange, history
<1>1. ASSUME NEW s \in Slots, SlotStep(s) PROVE AnswersApart'
  \* Whatever s carries now it carried before, or it is new
  <2>1. ASSUME pc'[s] \in Answered, IsResponsesCreate(req'[s]), answer'[s].id # None
        PROVE  \/ /\ pc[s] \in Answered /\ IsResponsesCreate(req[s])
                  /\ answer'[s].id = answer[s].id
               \/ answer'[s].id \notin issued
    <3>1. CASE Receive(s) \/ StoreRequestBody(s) \/ Rehydrate(s) \/ OnRequest(s)
               \/ GetResponse(s) \/ HandleDelete(s) \/ Deliver(s)
      BY <2>1, <3>1 DEF Receive, StoreRequestBody, Rehydrate, ProxyBody, OnRequest,
                  GetResponse, HandleDelete, Deliver, Answered
    <3>2. CASE Upstream(s)
      BY <2>1, <3>2 DEF Upstream, IsResponsesCreate
    <3>3. CASE OnResponse(s) \/ BodyChunk(s) \/ EndOfStream(s) \/ PersistResponse(s)
      BY <2>1, <3>3 DEF OnResponse, BodyChunk, EndOfStream, PersistResponse, Answered
    <3> QED BY <1>1, <3>1, <3>2, <3>3 DEF SlotStep
  <2>2. \A t \in Slots : t # s =>
           pc'[t] = pc[t] /\ req'[t] = req[t] /\ answer'[t] = answer[t]
    BY <1>1, FrameStep
  <2>3. \A t \in Slots : pc[t] \in Answered /\ answer[t].id # None => answer[t].id \in issued
    BY AnswerIssued
  <2> QED BY <2>1, <2>2, <2>3 DEF AnswersApart
<1>2. CASE DatabaseDown \/ DatabaseUp \/ Restart
  BY <1>2 DEF DatabaseDown, DatabaseUp, Restart, AnswersApart, Answered
<1>3. CASE UNCHANGED vars
  BY <1>3 DEF vars, AnswersApart
<1> QED BY <1>1, <1>2, <1>3 DEF Next, Finished

\* get_or_init_store: what becomes of the cell.  A database that is up gives a
\* store unless a failure was final before.
LEMMA CellFacts ==
    ASSUME StoreInv
    PROVE  /\ cell = "failed" => GetOrInitStore = "failed"
           /\ cell = "ready" => GetOrInitStore = "ready"
           /\ up /\ cell # "failed" => GetOrInitStore = "ready"
           /\ backend = "postgres" => GetOrInitStore # "failed"
BY DEF StoreInv, Types, PostgresRetries, GetOrInitStore

LEMMA PostgresStep == ASSUME StoreInv, [Next]_vars PROVE PostgresRetries'
<1>1. backend' = backend /\ (backend = "postgres" => cell # "failed")
  BY DEF StoreInv, PostgresRetries, Next, vars
<1>2. ASSUME NEW s \in Slots, SlotStep(s) PROVE PostgresRetries'
  BY <1>1, <1>2, FrameStep, CellFacts DEF PostgresRetries
<1>3. CASE DatabaseDown \/ DatabaseUp \/ Restart \/ UNCHANGED vars
  BY <1>1, <1>3 DEF DatabaseDown, DatabaseUp, Restart, store, vars, PostgresRetries
<1> QED BY <1>2, <1>3 DEF Next, Finished

LEMMA StoreStep == ASSUME StoreInv, [Next]_vars, NEW t \in Slots PROVE StoreKnown(t)'
<1> USE DEF StoreInv, Types, Goto, Reject, db, store, exchange, history
<1>1. ASSUME NEW s \in Slots, SlotStep(s) PROVE StoreKnown(t)'
  <2>1. CASE t # s
    <3>1. /\ pc'[t] = pc[t] /\ req'[t] = req[t] /\ meta'[t] = meta[t]
          /\ answer'[t] = answer[t] /\ skip'[t] = skip[t] /\ trouble'[t] = trouble[t]
          /\ up' = up /\ (registered => registered')
          /\ cell' # "failed" => cell # "failed"
          /\ cell = "ready" => cell' = "ready"
      BY <1>1, <2>1, FrameStep, CellFacts
    <3> QED BY <3>1 DEF StoreKnown, Usable
  <2>2. CASE t = s /\ Receive(s)
    <3>1. /\ up' = up /\ trouble'[s] = ~up /\ skip'[s] = FALSE
          /\ pc'[s] \in {"idle", "store_body", "on_request"}
      BY <2>2 DEF Receive
    <3>2. pc'[s] = "on_request" => ~ShouldInitStore(req'[s], meta'[s])
      <4>1. PICK r \in Requests :
               /\ req' = [req EXCEPT ![s] = r]
               /\ IF HandleInvalidFormat(Classified(r).format, OnInvalid)
                  THEN Reject(s, 400, "json")
                  ELSE IF ValidateRejects(r, WriteMetadata(Classified(r)))
                  THEN Reject(s, 400, ErrorForm(WriteMetadata(Classified(r)).stream = "true"))
                  ELSE Goto(s, IF r.method = "POST" THEN "store_body" ELSE "on_request")
        BY <2>2, Zenon DEF Receive
      <4>2. pc'[s] = "on_request" => r.method # "POST"
        BY <4>1
      <4> QED BY <4>1, <4>2
             DEF ShouldInitStore, RequestWillPersist, RequestNeedsRehydrateStore
    <3> QED BY <2>2, <3>1, <3>2 DEF StoreKnown, BeforeAnswer
  <2>3. CASE t = s /\ StoreRequestBody(s)
    <3>1. /\ pc[s] = "store_body" /\ pc'[s] = "rehydrate" /\ req' = req /\ meta' = meta
          /\ trouble' = trouble /\ up' = up /\ InitForRequest(s)
      BY <2>3 DEF StoreRequestBody
    <3>2. ~trouble[s] => up
      BY <3>1 DEF StoreKnown
    <3>3. CASE ShouldInitStore(req[s], meta[s])
      <4>1. cell' = GetOrInitStore /\ registered' = (registered \/ cell' = "ready")
            /\ (cell' = "ready" /\ ~skip[s] => ~skip'[s])
        BY <3>1, <3>3 DEF InitForRequest
      <4> QED BY <2>3, <3>1, <3>2, <4>1, CellFacts DEF StoreKnown, BeforeAnswer, Usable
    <3>4. CASE ~ShouldInitStore(req[s], meta[s])
      BY <2>3, <3>1, <3>4 DEF InitForRequest, StoreKnown, BeforeAnswer, Usable
    <3> QED BY <3>3, <3>4
  <2>4. CASE t = s /\ Rehydrate(s)
    BY <2>4 DEF Rehydrate, ProxyBody, StoreKnown, BeforeAnswer, Usable
  <2>5. CASE t = s /\ OnRequest(s)
    <3>1. /\ pc[s] = "on_request" /\ req' = req /\ meta' = meta
          /\ trouble' = trouble /\ up' = up
      BY <2>5 DEF OnRequest
    <3>2. ~trouble[s] => up
      BY <3>1 DEF StoreKnown
    <3>3. CASE req[s].method = "POST"
      <4>1. InitForRequest(s) /\ pc'[s] = "upstream"
        BY <2>5, <3>3 DEF OnRequest
      <4>2. CASE ShouldInitStore(req[s], meta[s])
        <5>1. cell' = GetOrInitStore /\ registered' = (registered \/ cell' = "ready")
              /\ (cell' = "ready" /\ ~skip[s] => ~skip'[s])
          BY <4>1, <4>2 DEF InitForRequest
        <5> QED BY <2>5, <3>1, <3>2, <4>1, <5>1, CellFacts
               DEF StoreKnown, BeforeAnswer, Usable
      <4>3. CASE ~ShouldInitStore(req[s], meta[s])
        BY <2>5, <3>1, <4>1, <4>3 DEF InitForRequest, StoreKnown, BeforeAnswer, Usable
      <4> QED BY <4>2, <4>3
    <3>4. CASE req[s].method # "POST"
      <4>1. ~ShouldInitStore(req[s], meta[s])
        BY <3>4 DEF ShouldInitStore, RequestWillPersist, RequestNeedsRehydrateStore
      <4>2. /\ pc'[s] \in {"idle", "get", "delete", "upstream"} /\ skip' = skip
            /\ cell' \in {cell, GetOrInitStore}
        BY <2>5, <3>4 DEF OnRequest
      <4> QED BY <2>5, <3>1, <3>2, <4>1, <4>2, CellFacts
             DEF StoreKnown, BeforeAnswer, Usable
    <3> QED BY <3>3, <3>4
  <2>6. CASE t = s /\ (GetResponse(s) \/ HandleDelete(s))
    BY <2>6 DEF GetResponse, HandleDelete, StoreKnown, BeforeAnswer
  <2>7. CASE t = s /\ Upstream(s)
    BY <2>7 DEF Upstream, StoreKnown, BeforeAnswer, Usable
  <2>8. CASE t = s /\ OnResponse(s)
    <3>1. /\ pc[s] = "on_response" /\ pc'[s] = "body" /\ req' = req /\ meta' = meta
          /\ trouble' = trouble /\ up' = up /\ answer' = answer
      BY <2>8 DEF OnResponse
    <3>2. cell' \in {cell, GetOrInitStore}
      BY <1>1, FrameStep
    <3>3. ASSUME RequestWillPersist(req[s], meta[s]), Usable(s)',
                 IsSuccess(answer[s]), answer[s].content = "json"
          PROVE  ~skip'[s] /\ cell' = "ready"
      <4>1. cell # "failed" /\ ~trouble[s]
        BY <3>1, <3>2, <3>3, CellFacts DEF Usable
      <4>2. ~skip[s] /\ up
        BY <3>1, <4>1 DEF StoreKnown, Usable
      <4>3. ~ShouldSkipPersist(s) /\ ~ShouldSkip(req[s], meta[s])
        BY <3>3, <4>2 DEF ShouldSkipPersist, ShouldSkip
      <4>4. cell' = GetOrInitStore
        BY <2>8, <3>3, <4>3 DEF OnResponse
      <4>5. cell' = "ready"
        BY <4>1, <4>2, <4>4, CellFacts
      <4>6. ~skip'[s]
        BY <2>8, <3>3, <4>2, <4>3, <4>5 DEF OnResponse
      <4> QED BY <4>5, <4>6
    <3>4. ~trouble'[s] => up'
      BY <3>1 DEF StoreKnown
    <3> QED BY <2>8, <3>1, <3>3, <3>4 DEF StoreKnown, BeforeAnswer
  <2>9. CASE t = s /\ (BodyChunk(s) \/ EndOfStream(s) \/ PersistResponse(s) \/ Deliver(s))
    BY <2>9 DEF BodyChunk, EndOfStream, PersistResponse, Deliver, StoreKnown,
                BeforeAnswer, Usable
  <2> QED BY <1>1, <2>1, <2>2, <2>3, <2>4, <2>5, <2>6, <2>7, <2>8, <2>9 DEF SlotStep
<1>2. CASE DatabaseDown \/ DatabaseUp \/ Restart
  BY <1>2 DEF DatabaseDown, DatabaseUp, Restart, StoreKnown, BeforeAnswer, Usable
<1>3. CASE UNCHANGED vars
  BY <1>3 DEF vars, StoreKnown, Usable
<1> QED BY <1>1, <1>2, <1>3 DEF Next, Finished

\* What is known of every exchange and of the store holds in every state.
THEOREM StoreInvariant == Spec => []StoreInv
<1>1. StoreInv /\ [Next]_vars => StoreInv'
  <2> SUFFICES ASSUME StoreInv, [Next]_vars PROVE StoreInv'
    OBVIOUS
  <2>1. Types' /\ IdsKnown' /\ AnswersApart' /\ PostgresRetries'
    BY TypesStep, IdsStep, ApartStep, PostgresStep
  <2>2. \A t \in Slots : RequestKnown(t)' /\ StepKnown(t)' /\ AnswerKnown(t)' /\ StoreKnown(t)'
    BY RequestStep, StepStep, AnswerStep, StoreStep
  <2> QED BY <2>1, <2>2 DEF StoreInv
<1> QED BY <1>1, InitStore, PTL DEF Spec

-----------------------------------------------------------------------------
(* The decisions about one request fit together *)

\* compute_mode, validate_request and the store's predicates: a request routed
\* as stateless needs no store, and a background request that was accepted is
\* one the store filter persists.
THEOREM DecisionsTheorem == Spec => []DecisionsAgree
<1>1. StoreInv => DecisionsAgree
  <2> SUFFICES ASSUME StoreInv PROVE DecisionsAgree
    OBVIOUS
  <2>1. ASSUME NEW s \in Slots, pc[s] # "idle"
        PROVE  req[s] \in Requests /\ meta[s] = Meta(req[s])
               /\ routed[s].results.mode = meta[s].mode /\ ~ValidateRejects(req[s], meta[s])
    BY <2>1 DEF StoreInv, RequestKnown, StepKnown
  <2>2. StatelessNeedsNoStore
    BY <2>1, StatelessFacts DEF StatelessNeedsNoStore
  <2>3. BackgroundIsStored
    BY <2>1, BackgroundFacts DEF BackgroundIsStored
  <2> QED BY <2>2, <2>3 DEF DecisionsAgree
<1> QED BY <1>1, StoreInvariant, PTL

-----------------------------------------------------------------------------
(* What was stored is there, what was deleted is gone *)

\* How a step can change the table: an upsert of the row of an answer, or a
\* DELETE of a response some client knows.
LEMMA TableStep ==
    ASSUME StoreInv, [Next]_vars
    PROVE  \/ table' = table /\ deleted' = deleted
           \/ \E s \in Slots :
                 /\ PersistResponse(s) /\ pc[s] = "persist" /\ deleted' = deleted
                 /\ table' = [table EXCEPT ![answer[s].id] =
                       ParseResponseRecord(answer[s], captured[s], state[s])]
           \/ \E s \in Slots :
                 /\ HandleDelete(s) /\ req[s].target \in told
                 /\ table' = [table EXCEPT ![req[s].target] = None]
                 /\ deleted' = deleted \cup {req[s].target}
<1> USE DEF db, history
<1>1. ASSUME NEW s \in Slots, SlotStep(s), ~PersistResponse(s), ~HandleDelete(s)
      PROVE  table' = table /\ deleted' = deleted
  <2>1. CASE Receive(s) \/ StoreRequestBody(s) \/ Rehydrate(s) \/ OnRequest(s)
    BY <2>1 DEF Receive, StoreRequestBody, Rehydrate, OnRequest
  <2>2. CASE GetResponse(s) \/ Upstream(s) \/ OnResponse(s)
    BY <2>2 DEF GetResponse, Upstream, OnResponse
  <2>3. CASE BodyChunk(s) \/ EndOfStream(s) \/ Deliver(s)
    BY <2>3 DEF BodyChunk, EndOfStream, Deliver
  <2> QED BY <1>1, <2>1, <2>2, <2>3 DEF SlotStep
<1>2. ASSUME NEW s \in Slots, HandleDelete(s)
      PROVE  \/ table' = table /\ deleted' = deleted
             \/ /\ req[s].target \in told
                /\ table' = [table EXCEPT ![req[s].target] = None]
                /\ deleted' = deleted \cup {req[s].target}
  BY <1>2 DEF HandleDelete, StoreInv, StepKnown
<1>3. ASSUME NEW s \in Slots, PersistResponse(s)
      PROVE  \/ table' = table /\ deleted' = deleted
             \/ /\ pc[s] = "persist" /\ deleted' = deleted
                /\ table' = [table EXCEPT ![answer[s].id] =
                      ParseResponseRecord(answer[s], captured[s], state[s])]
  BY <1>3 DEF PersistResponse
<1>4. CASE DatabaseDown \/ DatabaseUp \/ Restart
  BY <1>4 DEF DatabaseDown, DatabaseUp, Restart
<1>5. CASE UNCHANGED vars
  BY <1>5 DEF vars
<1> QED BY <1>1, <1>2, <1>3, <1>4, <1>5 DEF Next, Finished

LEMMA StoredFirstStep == ASSUME StoreInv, StoredFirst, [Next]_vars PROVE StoredFirst'
<1> USE DEF StoreInv, Types, Goto, Reject, db, store, exchange, history
<1> SUFFICES ASSUME NEW t \in Slots, pc'[t] = "deliver", Storable(t)', Usable(t)'
             PROVE  table'[answer'[t].id] # None
  BY DEF StoredFirst
\* An answer that waits for its delivery keeps its row: nobody can ask for its
\* deletion before its id has been told.
<1>1. ASSUME pc[t] = "deliver", req'[t] = req[t], meta'[t] = meta[t],
             answer'[t] = answer[t], ~trouble[t], cell # "failed"
      PROVE  table'[answer'[t].id] # None
  <2>1. Storable(t)
    BY <1>1 DEF Storable
  <2>2. table[answer[t].id] # None
    BY <1>1, <2>1 DEF StoredFirst, Usable
  <2>3. answer[t].id \in Ids /\ answer[t].id \notin told
    BY <1>1, <2>1, AnswerIssued DEF Storable, AnswerKnown, Answered
  <2>4. ASSUME NEW s \in Slots, pc[s] = "persist"
        PROVE  ParseResponseRecord(answer[s], captured[s], state[s]) # None
    BY <2>4, UpsertedRow, StoreConstants DEF Answered
  <2> QED BY <1>1, <2>2, <2>3, <2>4, TableStep
<1>2. ASSUME NEW s \in Slots, SlotStep(s) PROVE table'[answer'[t].id] # None
  <2>1. (~trouble[t] /\ cell # "failed") \/ t = s
    BY <1>2, FrameStep, CellFacts DEF Usable
  <2>2. CASE t # s
    <3>1. /\ pc[t] = "deliver" /\ req'[t] = req[t] /\ meta'[t] = meta[t]
          /\ answer'[t] = answer[t]
      BY <1>2, <2>2, FrameStep
    <3> QED BY <1>1, <2>1, <2>2, <3>1
  <2>3. CASE t = s /\ PersistResponse(s)
    <3>1. ParseResponseRecord(answer[s], captured[s], state[s]) # None
      BY <2>3, UpsertedRow, StoreConstants DEF PersistResponse, Answered
    <3>2. answer[s].id \in Ids
      BY <2>3, AnswerIssued DEF PersistResponse, AnswerKnown, Answered
    <3> QED BY <2>3, <3>1, <3>2 DEF PersistResponse
  <2>4. CASE t = s /\ EndOfStream(s)
    <3>1. /\ pc[s] = "body" /\ req' = req /\ meta' = meta /\ answer' = answer
          /\ trouble' = trouble /\ cell' = cell
      BY <2>4 DEF EndOfStream
    <3>2. Storable(s) /\ Usable(s)
      BY <2>4, <3>1 DEF Storable, Usable
    <3>3. RequestWillPersist(req[s], meta[s])
      BY <3>1, <3>2, StorableWillPersist DEF Storable, RequestKnown
    <3>4. ~skip[s] /\ cell = "ready"
      BY <3>1, <3>2, <3>3 DEF StoreKnown, Storable
    <3>5. ~ShouldSkipPersist(s)
      BY <3>3, <3>4 DEF ShouldSkipPersist, ShouldSkip
    <3>6. pc'[s] = "persist"
      BY <2>4, <3>2, <3>4, <3>5 DEF EndOfStream, ReleaseBody, Storable
    <3> QED BY <2>4, <3>6
  <2>5. CASE t = s /\ ~PersistResponse(s) /\ ~EndOfStream(s)
    <3>1. pc'[s] # "deliver"
      <4>1. CASE Receive(s) \/ StoreRequestBody(s) \/ Rehydrate(s) \/ OnRequest(s)
        BY <4>1 DEF Receive, StoreRequestBody, Rehydrate, ProxyBody, OnRequest
      <4>2. CASE GetResponse(s) \/ HandleDelete(s) \/ Upstream(s) \/ OnResponse(s)
        BY <4>2, ZenonT(60) DEF GetResponse, HandleDelete, Upstream, OnResponse
      <4>3. CASE BodyChunk(s) \/ Deliver(s)
        BY <4>3 DEF BodyChunk, Deliver
      <4> QED BY <1>2, <2>5, <4>1, <4>2, <4>3 DEF SlotStep
    <3> QED BY <2>5, <3>1
  <2> QED BY <1>2, <2>2, <2>3, <2>4, <2>5
<1>3. CASE DatabaseDown \/ Restart
  BY <1>3 DEF DatabaseDown, Restart, Usable
<1>4. CASE DatabaseUp
  BY <1>1, <1>4 DEF DatabaseUp, Usable
<1>5. CASE UNCHANGED vars
  BY <1>1, <1>5 DEF vars, Usable
<1> QED BY <1>2, <1>3, <1>4, <1>5 DEF Next, Finished

LEMMA DurableStep ==
    ASSUME StoreInv, StoredFirst, DurableWhenSeen, [Next]_vars
    PROVE  DurableWhenSeen'
<1> SUFFICES ASSUME NEW i \in promised', i \notin deleted' PROVE table'[i] # None
  BY DEF DurableWhenSeen
<1>1. CASE i \in promised
  <2>1. i \in Ids /\ (table[i] # None \/ i \in deleted)
    BY <1>1 DEF DurableWhenSeen, StoreInv, IdsKnown
  <2>2. ASSUME NEW s \in Slots, pc[s] = "persist"
        PROVE  ParseResponseRecord(answer[s], captured[s], state[s]) # None
    BY <2>2, UpsertedRow, StoreConstants DEF Answered
  <2> QED BY <2>1, <2>2, TableStep DEF StoreInv, Types
<1>2. CASE i \notin promised
  <2>1. PICK s \in Slots : Deliver(s)
    <3>1. ASSUME NEW s \in Slots, SlotStep(s), ~Deliver(s) PROVE promised' = promised
      <4> USE DEF history
      <4>1. CASE Receive(s) \/ StoreRequestBody(s) \/ Rehydrate(s) \/ OnRequest(s)
        BY <4>1 DEF Receive, StoreRequestBody, Rehydrate, OnRequest
      <4>2. CASE GetResponse(s) \/ HandleDelete(s) \/ Upstream(s) \/ OnResponse(s)
        BY <4>2 DEF GetResponse, HandleDelete, Upstream, OnResponse
      <4>3. CASE BodyChunk(s) \/ EndOfStream(s) \/ PersistResponse(s)
        BY <4>3 DEF BodyChunk, EndOfStream, PersistResponse
      <4> QED BY <3>1, <4>1, <4>2, <4>3 DEF SlotStep
    <3>2. CASE DatabaseDown \/ DatabaseUp \/ Restart \/ UNCHANGED vars
      BY <1>2, <3>2 DEF DatabaseDown, DatabaseUp, Restart, vars, history
    <3> QED BY <1>2, <3>1, <3>2 DEF Next, Finished
  <2>2. /\ pc[s] = "deliver" /\ i = answer[s].id /\ Storable(s) /\ Usable(s)
        /\ table' = table
    BY <1>2, <2>1 DEF Deliver, Storable, Usable, db
  <2> QED BY <2>2 DEF StoredFirst
<1> QED BY <1>1, <1>2

\* persist_response_blocking: a client that asked to store its response and has
\* the complete answer, with no database trouble on the way, finds the row until
\* a DELETE removes it, whatever the other exchanges do meanwhile.
THEOREM DurableTheorem == Spec => []DurableWhenSeen
<1>1. Init => StoredFirst /\ DurableWhenSeen
  BY DEF Init, StoredFirst, DurableWhenSeen
<1>2. StoreInv /\ StoredFirst /\ DurableWhenSeen /\ [Next]_vars
        => (StoredFirst /\ DurableWhenSeen)'
  BY StoredFirstStep, DurableStep
<1> QED BY <1>1, <1>2, StoreInvariant, PTL DEF Spec

LEMMA DeletedStep ==
    ASSUME OrdinaryRequests, StoreInv, DeletedStaysDeleted, [Next]_vars
    PROVE  DeletedStaysDeleted'
<1> USE DEF DeletedStaysDeleted
<1>1. table \in [Ids -> Rows \cup {None}] /\ deleted \subseteq told /\ told \subseteq Ids
  BY DEF StoreInv, Types, IdsKnown
<1>2. ASSUME NEW s \in Slots, pc[s] = "persist" PROVE answer[s].id \notin told
  <2>1. answer[s].id # None /\ req[s] \in Requests
    BY <1>2 DEF StoreInv, AnswerKnown, RequestKnown, Answered
  <2> QED BY <1>2, <2>1 DEF StoreInv, AnswerKnown, Answered, OrdinaryRequests
<1> QED BY <1>1, <1>2, TableStep

\* handle_delete and persist_response_blocking: a response whose deletion was
\* confirmed never comes back, because an exchange that still has to store a
\* response has told its id to nobody.
THEOREM DeletedTheorem == ASSUME OrdinaryRequests PROVE Spec => []DeletedStaysDeleted
<1>1. Init => DeletedStaysDeleted
  BY DEF Init, DeletedStaysDeleted
<1>2. StoreInv /\ DeletedStaysDeleted /\ [Next]_vars => DeletedStaysDeleted'
  BY DeletedStep
<1> QED BY <1>1, <1>2, StoreInvariant, PTL DEF Spec

-----------------------------------------------------------------------------
(* Refusals and errors *)

LEMMA GivesUpStep ==
    ASSUME StoreInv, GivesUpOnlyInTrouble, [Next]_vars PROVE GivesUpOnlyInTrouble'
<1> USE DEF StoreInv, Types, Goto, Reject, db, store, exchange, history
<1> SUFFICES ASSUME NEW t \in Slots, backend' = "postgres", ~trouble'[t]
             PROVE  /\ ~(reply'[t].status = 500 /\ reply'[t].body = "local")
                    /\ ~(skip'[t] /\ pc'[t] \in {"rehydrate", "on_request", "upstream"})
  BY DEF GivesUpOnlyInTrouble
<1>1. backend = "postgres" /\ cell # "failed" /\ cell' # "failed"
  BY PostgresStep DEF Next, vars, PostgresRetries
<1>2. ~(skip'[t] /\ pc'[t] \in {"rehydrate", "on_request", "upstream"})
  BY <1>1, StoreStep DEF StoreKnown, Usable, BeforeAnswer
<1>3. ASSUME NEW s \in Slots, SlotStep(s)
      PROVE  ~(reply'[t].status = 500 /\ reply'[t].body = "local")
  <2>1. CASE trouble[t]
    <3>1. t = s
      BY <1>3, <2>1, FrameStep
    <3>2. CASE Receive(s)
      BY <3>1, <3>2 DEF Receive, NoReply
    <3>3. CASE ~Receive(s)
      <4>1. trouble' = trouble
        <5>1. CASE StoreRequestBody(s) \/ Rehydrate(s) \/ OnRequest(s)
          BY <5>1 DEF StoreRequestBody, Rehydrate, OnRequest
        <5>2. CASE GetResponse(s) \/ HandleDelete(s) \/ Upstream(s) \/ OnResponse(s)
          BY <5>2 DEF GetResponse, HandleDelete, Upstream, OnResponse
        <5>3. CASE BodyChunk(s) \/ EndOfStream(s) \/ PersistResponse(s) \/ Deliver(s)
          BY <5>3 DEF BodyChunk, EndOfStream, PersistResponse, Deliver
        <5> QED BY <1>3, <3>3, <5>1, <5>2, <5>3 DEF SlotStep
      <4> QED BY <2>1, <4>1
    <3> QED BY <3>2, <3>3
  <2>2. CASE ~trouble[t] /\ t # s
    BY <1>1, <1>3, <2>2, FrameStep DEF GivesUpOnlyInTrouble
  <2>3. CASE ~trouble[t] /\ t = s
    <3>1. ~(reply[s].status = 500 /\ reply[s].body = "local")
      BY <1>1, <2>3 DEF GivesUpOnlyInTrouble
    <3>2. pc[s] # "idle" => up
      BY <2>3 DEF StoreKnown
    <3>3. CASE Receive(s)
      BY <2>3, <3>3 DEF Receive, NoReply
    <3>4. CASE Rehydrate(s)
      <4>1. RehydrateApplies(req[s], meta[s]) /\ PreviousId(req[s]) = "id" => registered
        BY <1>1, <2>3, <3>4, RehydrateNeedsStore
           DEF Rehydrate, StoreKnown, Usable, RequestKnown
      <4> QED BY <2>3, <3>1, <3>2, <3>4, <4>1 DEF Rehydrate, ProxyBody
    <3>5. CASE OnRequest(s)
      <4>1. GetOrInitStore = "ready"
        BY <1>1, <3>2, <3>5, CellFacts DEF OnRequest
      <4> QED BY <2>3, <3>1, <3>5, <4>1 DEF OnRequest
    <3>6. CASE StoreRequestBody(s) \/ Upstream(s) \/ OnResponse(s) \/ EndOfStream(s)
      BY <2>3, <3>1, <3>6, ZenonT(60) DEF StoreRequestBody, Upstream, OnResponse, EndOfStream
    <3>7. CASE GetResponse(s) \/ HandleDelete(s)
      BY <2>3, <3>1, <3>2, <3>7 DEF GetResponse, HandleDelete
    <3>8. CASE BodyChunk(s) \/ PersistResponse(s) \/ Deliver(s)
      BY <2>3, <3>1, <3>8 DEF BodyChunk, PersistResponse, Deliver
    <3> QED BY <1>3, <3>3, <3>4, <3>5, <3>6, <3>7, <3>8 DEF SlotStep
  <2> QED BY <2>1, <2>2, <2>3
<1>4. CASE DatabaseDown \/ DatabaseUp \/ Restart
  BY <1>1, <1>4 DEF DatabaseDown, DatabaseUp, Restart, GivesUpOnlyInTrouble, NoReply
<1>5. CASE UNCHANGED vars
  BY <1>1, <1>5 DEF vars, GivesUpOnlyInTrouble
<1> QED BY <1>2, <1>3, <1>4, <1>5 DEF Next, Finished

\* get_or_init_store with PostgreSQL, which retries: an exchange is refused for
\* want of a store, or gives up storing, only when the database was down at some
\* time during that same exchange.
THEOREM GivesUpTheorem == Spec => []GivesUpOnlyInTrouble
<1>1. Init => GivesUpOnlyInTrouble
  BY DEF Init, NoReply, GivesUpOnlyInTrouble
<1>2. StoreInv /\ GivesUpOnlyInTrouble /\ [Next]_vars => GivesUpOnlyInTrouble'
  BY GivesUpStep
<1> QED BY <1>1, <1>2, StoreInvariant, PTL DEF Spec

LEMMA ReplyStep ==
    ASSUME StoreInv, \A s \in Slots : ReplyKnown(s), [Next]_vars, NEW t \in Slots
    PROVE  ReplyKnown(t)'
<1> USE DEF StoreInv, Types, Goto, Reject, NoReply, Steps, db, store, exchange, history
<1>1. ASSUME NEW s \in Slots, SlotStep(s) PROVE ReplyKnown(t)'
  <2>1. CASE t # s
    <3>1. pc'[t] = pc[t] /\ reply'[t] = reply[t] /\ reformat'[t] = reformat[t]
      BY <1>1, <2>1, FrameStep
    <3> QED BY <3>1 DEF ReplyKnown
  <2>2. CASE t = s /\ (Receive(s) \/ StoreRequestBody(s) \/ OnRequest(s))
    BY <2>2 DEF Receive, StoreRequestBody, OnRequest, ReplyKnown
  <2>3. CASE t = s /\ Rehydrate(s)
    BY <2>3 DEF Rehydrate, ProxyBody, ReplyKnown
  <2>4. CASE t = s /\ (GetResponse(s) \/ HandleDelete(s) \/ Upstream(s) \/ OnResponse(s))
    <3>1. CASE GetResponse(s)
      BY <2>4, <3>1 DEF GetResponse, ReplyKnown
    <3>2. CASE HandleDelete(s)
      BY <2>4, <3>2 DEF HandleDelete, ReplyKnown
    <3>3. CASE Upstream(s)
      BY <2>4, <3>3 DEF Upstream, ReplyKnown
    <3>4. CASE OnResponse(s)
      BY <2>4, <3>4 DEF OnResponse, ReplyKnown
    <3> QED BY <2>4, <3>1, <3>2, <3>3, <3>4
  <2>5. CASE t = s /\ (BodyChunk(s) \/ EndOfStream(s) \/ PersistResponse(s))
    BY <2>5 DEF BodyChunk, ReleaseBody, EndOfStream, PersistResponse, ReplyKnown
  <2>6. CASE t = s /\ Deliver(s)
    BY <2>6 DEF Deliver, ReplyKnown
  <2> QED BY <1>1, <2>1, <2>2, <2>3, <2>4, <2>5, <2>6 DEF SlotStep
<1>2. CASE DatabaseDown \/ DatabaseUp \/ Restart
  BY <1>2 DEF DatabaseDown, DatabaseUp, Restart, ReplyKnown
<1>3. CASE UNCHANGED vars
  BY <1>3 DEF vars, ReplyKnown
<1> QED BY <1>1, <1>2, <1>3 DEF Next, Finished

\* A rejection of a create request has the form its stream field asks for.
LEMMA FormFacts ==
    ASSUME NEW r \in Requests, IsResponsesCreate(r), IsResponses(Meta(r))
    PROVE  /\ Meta(r).stream = "true" <=> r.body.stream = "true"
           /\ EnrichContext(r, Meta(r)).stream <=> r.body.stream = "true"
           /\ ~HandleInvalidFormat(Classified(r).format, OnInvalid)
<1>1. Meta(r).stream = AsBool(r.body.stream) /\ r.body \in BodyShape
  BY CreateFacts, StoreConstants
<1>2. Meta(r).stream = "true" <=> r.body.stream = "true"
  BY <1>1 DEF AsBool
<1>3. ~IsBodyless(r)
  BY DEF IsBodyless, IsResponsesCreate
<1>4. Classified(r).format = "openai_responses"
  BY DEF IsResponses, Meta, WriteMetadata
<1> QED BY <1>2, <1>3, <1>4 DEF EnrichContext, HandleInvalidFormat

LEMMA FormStep ==
    ASSUME StoreInv, ErrorFormFollowsRequest, [Next]_vars
    PROVE  ErrorFormFollowsRequest'
<1> USE DEF StoreInv, Types, Goto, Reject, NoReply, db, store, exchange, history
<1> SUFFICES ASSUME NEW t \in Slots, pc'[t] = "idle", req'[t] # None,
                    IsResponsesCreate(req'[t]), IsResponses(meta'[t]),
                    reply'[t].form \in {"sse", "json"}, reply'[t].status > 0
             PROVE  reply'[t].form = "sse" <=> req'[t].body.stream = "true"
  BY DEF ErrorFormFollowsRequest
<1>1. req'[t] \in Requests /\ meta'[t] = Meta(req'[t]) /\ req'[t].method = "POST"
  BY RequestStep DEF RequestKnown, IsResponsesCreate
<1>2. /\ meta'[t].stream = "true" <=> req'[t].body.stream = "true"
      /\ EnrichContext(req'[t], meta'[t]).stream <=> req'[t].body.stream = "true"
      /\ ~HandleInvalidFormat(Classified(req'[t]).format, OnInvalid)
  BY <1>1, FormFacts
<1>3. ASSUME NEW s \in Slots, SlotStep(s)
      PROVE  reply'[t].form = "sse" <=> req'[t].body.stream = "true"
  <2>1. CASE t # s
    <3>1. /\ pc'[t] = pc[t] /\ req'[t] = req[t] /\ meta'[t] = meta[t]
          /\ reply'[t] = reply[t]
      BY <1>3, <2>1, FrameStep
    <3> QED BY <3>1 DEF ErrorFormFollowsRequest
  <2>2. CASE t = s /\ Receive(s)
    <3>1. PICK r \in Requests :
             /\ req' = [req EXCEPT ![s] = r]
             /\ meta' = [meta EXCEPT ![s] = WriteMetadata(Classified(r))]
             /\ IF HandleInvalidFormat(Classified(r).format, OnInvalid)
                THEN Reject(s, 400, "json")
                ELSE IF ValidateRejects(r, WriteMetadata(Classified(r)))
                THEN Reject(s, 400, ErrorForm(WriteMetadata(Classified(r)).stream = "true"))
                ELSE Goto(s, IF r.method = "POST" THEN "store_body" ELSE "on_request")
      BY <2>2, Zenon DEF Receive
    <3>2. reply'[s].form = ErrorForm(WriteMetadata(Classified(r)).stream = "true")
      BY <1>2, <2>2, <3>1
    <3> QED BY <1>2, <2>2, <3>1, <3>2 DEF ErrorForm
  <2>3. CASE t = s /\ Rehydrate(s)
    <3>1. /\ req' = req /\ meta' = meta /\ pc[s] = "rehydrate"
          /\ reply'[s].form = ErrorForm(Streaming(s))
      BY <2>3 DEF Rehydrate, ProxyBody
    <3> QED BY <1>2, <2>3, <3>1 DEF ErrorForm, Streaming
  <2>4. CASE t = s /\ (StoreRequestBody(s) \/ OnRequest(s) \/ Upstream(s) \/ OnResponse(s)
                       \/ BodyChunk(s) \/ EndOfStream(s))
    BY <1>1, <2>4 DEF StoreRequestBody, OnRequest, Upstream, OnResponse, BodyChunk,
                      EndOfStream
  <2>5. CASE t = s /\ (GetResponse(s) \/ HandleDelete(s))
    BY <1>1, <2>5 DEF GetResponse, HandleDelete, StepKnown
  <2>6. CASE t = s /\ PersistResponse(s)
    BY <2>6 DEF PersistResponse
  <2>7. CASE t = s /\ Deliver(s)
    <3>1. req' = req /\ meta' = meta
      BY <2>7 DEF Deliver
    <3>2. CASE reformat[s]
      <4>1. reply'[s].form = ErrorForm(EnrichContext(req[s], meta[s]).stream)
        BY <2>7, <3>2 DEF Deliver, ErrorBody
      <4> QED BY <1>2, <2>7, <3>1, <4>1 DEF ErrorForm
    <3>3. CASE ~reformat[s]
      BY <2>7, <3>3 DEF Deliver
    <3> QED BY <3>2, <3>3
  <2> QED BY <1>3, <2>1, <2>2, <2>3, <2>4, <2>5, <2>6, <2>7 DEF SlotStep
<1>4. CASE DatabaseDown \/ DatabaseUp
  BY <1>4 DEF DatabaseDown, DatabaseUp, ErrorFormFollowsRequest
<1>5. CASE Restart
  BY <1>5 DEF Restart
<1>6. CASE UNCHANGED vars
  BY <1>6 DEF vars, ErrorFormFollowsRequest
<1> QED BY <1>3, <1>4, <1>5, <1>6 DEF Next, Finished

\* should_release_skipped_response_body and reformat_error_body: a client gets
\* one error body, in the form its request asked for, never behind a piece of
\* the backend's own.
THEOREM ErrorsTheorem == Spec => []ErrorsWellFormed
<1> DEFINE Replies == \A s \in Slots : ReplyKnown(s)
<1>1. Init => Replies /\ ErrorFormFollowsRequest
  BY DEF Init, NoReply, ReplyKnown, Steps, ErrorFormFollowsRequest
<1>2. StoreInv /\ Replies /\ ErrorFormFollowsRequest /\ [Next]_vars
        => (Replies /\ ErrorFormFollowsRequest)'
  BY ReplyStep, FormStep
<1>3. Replies /\ ErrorFormFollowsRequest => ErrorsWellFormed
  BY DEF ReplyKnown, ErrorsWellFormed, ErrorBodyWhole
<1> HIDE DEF Replies
<1> QED BY <1>1, <1>2, <1>3, StoreInvariant, PTL DEF Spec

-----------------------------------------------------------------------------
(* The stored history *)

LEMMA ConcatEmpty ==
    ASSUME NEW u \in Seq(STRING), NEW v \in Seq(STRING), u \o v = <<>>
    PROVE  u = <<>> /\ v = <<>>
<1>1. Len(u) + Len(v) = 0
  BY ConcatProperties
<1>2. Len(u) = 0 /\ Len(v) = 0
  BY <1>1
<1> QED BY <1>2

\* normalize_input and append_stored_input_items agree on text and lists.
LEMMA InputsAgree ==
    ASSUME OrdinaryRequests, NEW r \in Requests
    PROVE  StoredInputItems(r) = NormalizeInput(r) /\ NormalizeInput(r) = r.items
<1>1. r.body \in BodyShape /\ r.body.input # "object"
      /\ (r.body.input \in {"absent", "null"} => r.items = <<>>)
  BY StoreConstants DEF OrdinaryRequests
<1>2. r.body.input \in {"absent", "null", "string", "array"}
  BY <1>1 DEF BodyShape
<1> QED BY <1>1, <1>2 DEF StoredInputItems, NormalizeInput

\* The conversation up to an id does not change once the id is given out.
LEMMA TranscriptStep ==
    ASSUME StoreInv, [Next]_vars, NEW i \in issued
    PROVE  transcript'[i] = transcript[i] /\ i \in issued'
<1> USE DEF history
<1>1. ASSUME NEW s \in Slots, SlotStep(s), ~Upstream(s)
      PROVE  transcript' = transcript /\ issued' = issued
  <2>1. CASE Receive(s) \/ StoreRequestBody(s) \/ Rehydrate(s) \/ OnRequest(s)
    BY <2>1 DEF Receive, StoreRequestBody, Rehydrate, OnRequest
  <2>2. CASE GetResponse(s) \/ HandleDelete(s) \/ OnResponse(s)
    BY <2>2 DEF GetResponse, HandleDelete, OnResponse
  <2>3. CASE BodyChunk(s) \/ EndOfStream(s) \/ PersistResponse(s) \/ Deliver(s)
    BY <2>3 DEF BodyChunk, EndOfStream, PersistResponse, Deliver
  <2> QED BY <1>1, <2>1, <2>2, <2>3 DEF SlotStep
<1>2. ASSUME NEW s \in Slots, Upstream(s)
      PROVE  transcript'[i] = transcript[i] /\ i \in issued'
  BY <1>2 DEF Upstream, StoreInv, Types, IdsKnown
<1>3. CASE DatabaseDown \/ DatabaseUp \/ Restart
  BY <1>3 DEF DatabaseDown, DatabaseUp, Restart
<1>4. CASE UNCHANGED vars
  BY <1>4 DEF vars
<1> QED BY <1>1, <1>2, <1>3, <1>4 DEF Next, Finished

LEMMA RehydratedFields ==
    ASSUME NEW s
    PROVE  /\ Rehydrated(s).persisted =
                 transcript[req[s].target] \o NormalizeInput(req[s])
           /\ Rehydrated(s).messages =
                 Replayed(transcript[req[s].target]) \o NormalizeInput(req[s])
BY DEF Rehydrated

\* The row that an upsert writes holds the conversation up to its response.
LEMMA UpsertFollows ==
    ASSUME OrdinaryRequests, StoreInv, HistoryInv, NEW s \in Slots, pc[s] = "persist"
    PROVE  LET row == ParseResponseRecord(answer[s], captured[s], state[s]) IN
           /\ row.messages = transcript[answer[s].id]
           /\ StoredMessages(row) = transcript[answer[s].id]
<1> DEFINE r == req[s]
           out == answer[s].output
           named == answer[s].input
           input == IF captured[s] # None THEN captured[s]
                    ELSE IF named # None THEN named ELSE <<>>
           before == IF state[s] = None THEN input ELSE state[s].persisted
           row == ParseResponseRecord(answer[s], captured[s], state[s])
<1>1. /\ r \in Requests /\ meta[s] = Meta(r) /\ answer[s].id # None
      /\ RequestWillPersist(r, meta[s]) /\ out \in Seq(STRING)
      /\ captured[s] \in Seq(STRING) \cup {None} /\ named \in Seq(STRING) \cup {None}
      /\ state[s] # None => state[s].persisted \in Seq(STRING)
  BY DEF StoreInv, Types, RequestKnown, AnswerKnown, Answered
<1>2. IsResponsesCreate(r)
  BY <1>1 DEF StoreInv, AnswerKnown, Answered, OrdinaryRequests
<1>3. /\ StoredInputItems(r) = NormalizeInput(r)
      /\ NormalizeInput(r) \in Seq(STRING) /\ NormalizeInput(r) # None
  BY <1>1, InputsAgree, InputTyped, StoreConstants
<1>4. captured[s] = IF r.body.input = "absent" THEN None ELSE StoredInputItems(r)
  BY <1>1, <1>2 DEF HistoryInv, CaptureFollows, Answered
<1>5. /\ TurnInput(r, state[s], named) = IF state[s] = None THEN input ELSE NormalizeInput(r)
      /\ named = None => input = NormalizeInput(r)
      /\ r.body.input # "absent" => input = NormalizeInput(r)
  BY <1>3, <1>4 DEF TurnInput, NormalizeInput
<1>6. transcript[answer[s].id] =
         (IF state[s] = None THEN <<>> ELSE transcript[r.target])
            \o (IF state[s] = None THEN input ELSE NormalizeInput(r)) \o out
  BY <1>1, <1>5 DEF HistoryInv, AnswerFollows, Answered
<1>7. before \in Seq(STRING) /\ transcript[answer[s].id] = before \o out
  <2>1. CASE state[s] = None
    <3>1. input \in Seq(STRING)
      <4>1. <<>> \in Seq(STRING)
        OBVIOUS
      <4> QED BY <1>1, <4>1, Zenon
    <3>2. before = input /\ transcript[answer[s].id] = <<>> \o input \o out
      BY <1>6, <2>1
    <3> QED BY <1>1, <3>1, <3>2, ConcatEmptySeq
  <2>2. CASE state[s] # None
    <3>1. state[s].persisted = transcript[r.target] \o NormalizeInput(r)
      BY <2>2, RehydratedFields DEF HistoryInv, StateFollows, Answered
    <3>2. before = state[s].persisted
      BY <2>2
    <3>3. transcript[answer[s].id] = transcript[r.target] \o NormalizeInput(r) \o out
      BY <1>6, <2>2
    <3> HIDE DEF before, r, out
    <3> QED BY <1>1, <2>2, <3>1, <3>2, <3>3
  <2> QED BY <2>1, <2>2
<1>8. row.messages = before \o out /\ row.input = input /\ row.output = out
  BY DEF ParseResponseRecord
<1>9. ASSUME before \o out = <<>> PROVE input \o out = <<>>
  <2>1. before = <<>> /\ out = <<>>
    BY <1>1, <1>7, <1>9, ConcatEmpty
  <2>2. input = <<>>
    <3>1. CASE state[s] = None
      BY <2>1, <3>1
    <3>2. CASE state[s] # None
      <4>1. state[s] = Rehydrated(s) /\ transcript[r.target] \in Seq(STRING)
        BY <3>2 DEF HistoryInv, RowsFollow, StateFollows, Answered
      <4>2. before = transcript[r.target] \o NormalizeInput(r)
        BY <3>2, <4>1, RehydratedFields
      <4>3. transcript[r.target] \o NormalizeInput(r) = <<>>
        BY <2>1, <4>2
      <4>4. NormalizeInput(r) = <<>>
        BY <1>3, <4>1, <4>3, ConcatEmpty
      <4>5. named = None
        BY <1>1, <2>1, <3>2 DEF HistoryInv, AnswerFollows, Answered
      <4> QED BY <1>5, <4>4, <4>5
    <3> QED BY <3>1, <3>2
  <2>3. <<>> \in Seq(STRING) /\ <<>> \o <<>> = <<>>
    BY ConcatEmptySeq
  <2> QED BY <2>1, <2>2, <2>3
<1>10. StoredMessages(row) = before \o out
  BY <1>8, <1>9 DEF StoredMessages
<1> QED BY <1>7, <1>8, <1>10

LEMMA RowsStep ==
    ASSUME OrdinaryRequests, StoreInv, HistoryInv, [Next]_vars PROVE RowsFollow'
<1>1. \A i \in issued' : transcript'[i] \in Seq(STRING)
  <2> SUFFICES ASSUME NEW i \in issued' PROVE transcript'[i] \in Seq(STRING)
    OBVIOUS
  <2>1. CASE i \in issued
    BY <2>1, TranscriptStep DEF HistoryInv, RowsFollow
  <2>2. CASE i \notin issued
    <3>1. PICK s \in Slots : Upstream(s)
      <4> USE DEF history
      <4>1. ASSUME NEW s \in Slots, SlotStep(s), ~Upstream(s) PROVE issued' = issued
        <5>1. CASE Receive(s) \/ StoreRequestBody(s) \/ Rehydrate(s) \/ OnRequest(s)
          BY <5>1 DEF Receive, StoreRequestBody, Rehydrate, OnRequest
        <5>2. CASE GetResponse(s) \/ HandleDelete(s) \/ OnResponse(s)
          BY <5>2 DEF GetResponse, HandleDelete, OnResponse
        <5>3. CASE BodyChunk(s) \/ EndOfStream(s) \/ PersistResponse(s) \/ Deliver(s)
          BY <5>3 DEF BodyChunk, EndOfStream, PersistResponse, Deliver
        <5> QED BY <4>1, <5>1, <5>2, <5>3 DEF SlotStep
      <4>2. CASE DatabaseDown \/ DatabaseUp \/ Restart \/ UNCHANGED vars
        BY <2>2, <4>2 DEF DatabaseDown, DatabaseUp, Restart, vars
      <4> QED BY <2>2, <4>1, <4>2 DEF Next, Finished
    <3>2. req[s] \in Requests /\ (state[s] # None => req[s].target \in issued)
      BY <3>1 DEF Upstream, StoreInv, RequestKnown, HistoryInv, StateFollows
    <3> DEFINE before == IF state[s] = None THEN <<>> ELSE transcript[req[s].target]
    <3> DEFINE turn(a) == TurnInput(req[s], state[s], NamedInput(s, a))
    <3>3. PICK a \in Answers, out \in Outputs :
             transcript' = [transcript EXCEPT ![i] = before \o turn(a) \o out]
      <4>1. PICK a \in Answers, out \in Outputs, j \in Ids \ issued :
               /\ issued' = issued \cup {j}
               /\ transcript' = [transcript EXCEPT ![j] = before \o turn(a) \o out]
        BY <2>2, <3>1 DEF Upstream
      <4> HIDE DEF before, turn
      <4>2. i = j
        BY <2>2, <4>1
      <4> QED BY <4>1, <4>2
    <3>4. before \in Seq(STRING) /\ turn(a) \in Seq(STRING) /\ out \in Seq(STRING)
      <4>1. <<>> \in Seq(STRING) /\ out \in Seq(STRING) /\ a.input \in Seq(STRING) \cup {None}
        BY StoreConstants
      <4>2. state[s] # None => transcript[req[s].target] \in Seq(STRING)
        BY <3>2 DEF HistoryInv, RowsFollow
      <4> QED BY <3>2, <4>1, <4>2, InputTyped DEF TurnInput, NamedInput
    <3> HIDE DEF before, turn
    <3>5. before \o turn(a) \o out \in Seq(STRING)
      BY <3>4, ConcatProperties
    <3>6. i \in DOMAIN transcript
      BY IdsStep DEF StoreInv, Types, IdsKnown
    <3> QED BY <3>3, <3>5, <3>6
  <2> QED BY <2>1, <2>2
<1>2. ASSUME NEW i \in Ids, table'[i] # None
      PROVE  table'[i].messages = transcript'[i] /\ StoredMessages(table'[i]) = transcript'[i]
  <2>1. CASE table'[i] = table[i]
    <3>1. i \in issued
      BY <1>2, <2>1 DEF StoreInv, IdsKnown
    <3> QED BY <1>2, <2>1, <3>1, TranscriptStep DEF HistoryInv, RowsFollow
  <2>2. CASE table'[i] # table[i]
    <3>1. PICK s \in Slots :
             /\ pc[s] = "persist" /\ i = answer[s].id
             /\ table'[i] = ParseResponseRecord(answer[s], captured[s], state[s])
      BY <1>2, <2>2, TableStep DEF StoreInv, Types
    <3>2. i \in issued
      BY <3>1, AnswerIssued DEF StoreInv, AnswerKnown, Answered
    <3> QED BY <3>1, <3>2, UpsertFollows, TranscriptStep
  <2> QED BY <2>1, <2>2
<1> QED BY <1>1, <1>2 DEF RowsFollow

\* What a step of exchange s does to what it carries, before the answer.
LEMMA StateStep ==
    ASSUME OrdinaryRequests, StoreInv, HistoryInv, [Next]_vars, NEW t \in Slots
    PROVE  StateFollows(t)'
<1> USE DEF StoreInv, Types, Goto, Reject, db, store, exchange, history
<1>1. ASSUME req'[t] = req[t], req[t].target \in issued
      PROVE  Rehydrated(t)' = Rehydrated(t) /\ req'[t].target \in issued'
  BY <1>1, TranscriptStep DEF Rehydrated
<1>2. ASSUME pc'[t] = pc[t], req'[t] = req[t], state'[t] = state[t], sent'[t] = sent[t]
      PROVE  StateFollows(t)'
  BY <1>1, <1>2 DEF StateFollows, HistoryInv
<1>3. ASSUME NEW s \in Slots, SlotStep(s) PROVE StateFollows(t)'
  <2>1. CASE t # s
    BY <1>2, <1>3, <2>1, FrameStep
  <2>2. CASE t = s /\ Receive(s)
    BY <2>2 DEF Receive, StateFollows
  <2>3. CASE t = s /\ StoreRequestBody(s)
    BY <2>3 DEF StoreRequestBody, StateFollows, HistoryInv, Answered
  <2>4. CASE t = s /\ Rehydrate(s)
    <3>1. pc[s] = "rehydrate" /\ state[s] = None /\ req' = req
      BY <2>4 DEF Rehydrate, StateFollows, HistoryInv
    <3>2. CASE pc'[s] = "idle"
      BY <2>4, <3>2 DEF StateFollows, Answered
    <3>3. CASE pc'[s] # "idle" /\ state' = state
      BY <2>4, <3>1, <3>3 DEF Rehydrate, ProxyBody, StateFollows, Answered
    <3>4. CASE pc'[s] # "idle" /\ state' # state
      <4>1. /\ RehydrateApplies(req[s], meta[s]) /\ PreviousId(req[s]) = "id"
            /\ table[req[s].target] # None
            /\ state' = [state EXCEPT ![s] = BuildState(table[req[s].target], req[s])]
            /\ ProxyBody(s, BuildState(table[req[s].target], req[s]))
        BY <2>4, <3>4 DEF Rehydrate
      <4>2. req[s].target \in Ids /\ req[s].target \in issued
        BY <3>1, <4>1, RehydrateNeedsStore DEF RequestKnown, IdsKnown
      <4>3. BuildState(table[req[s].target], req[s]) = Rehydrated(s)
        BY <4>1, <4>2 DEF BuildState, Rehydrated, HistoryInv, RowsFollow
      <4>4. Rehydrated(s)' = Rehydrated(s) /\ req'[s].target \in issued'
        BY <1>1, <2>4, <3>1, <4>2
      <4>5. state'[s] = Rehydrated(s)
        BY <4>1, <4>3
      <4>6. pc'[s] = "on_request" /\ (state'[s] # None => sent'[s] = Rehydrated(s).messages)
        BY <3>4, <4>1, <4>3, <4>5 DEF ProxyBody
      <4> QED BY <2>4, <4>4, <4>5, <4>6 DEF StateFollows
    <3> QED BY <3>2, <3>3, <3>4
  <2>5. CASE t = s /\ OnRequest(s)
    <3>1. /\ pc[s] = "on_request" /\ pc'[s] \in {"idle", "get", "delete", "upstream"}
          /\ req' = req /\ state' = state /\ sent' = sent
      BY <2>5 DEF OnRequest
    <3> QED BY <1>1, <2>5, <3>1 DEF StateFollows, HistoryInv, Answered
  <2>6. CASE t = s /\ (GetResponse(s) \/ HandleDelete(s) \/ Deliver(s))
    BY <2>6 DEF GetResponse, HandleDelete, Deliver, StateFollows, Answered
  <2>7. CASE t = s /\ (Upstream(s) \/ OnResponse(s) \/ BodyChunk(s) \/ EndOfStream(s)
                       \/ PersistResponse(s))
    <3>1. /\ req' = req /\ state' = state /\ sent' = sent
          /\ pc[s] \in {"upstream"} \cup Answered
          /\ pc'[s] \in {"idle"} \cup Answered
      BY <2>7 DEF Upstream, OnResponse, BodyChunk, EndOfStream, PersistResponse, Answered
    <3> QED BY <1>1, <2>7, <3>1 DEF StateFollows, HistoryInv, Answered
  <2> QED BY <1>3, <2>1, <2>2, <2>3, <2>4, <2>5, <2>6, <2>7 DEF SlotStep
<1>4. CASE DatabaseDown \/ DatabaseUp
  BY <1>2, <1>4 DEF DatabaseDown, DatabaseUp
<1>5. CASE Restart
  BY <1>5 DEF Restart, StateFollows, Answered
<1>6. CASE UNCHANGED vars
  BY <1>2, <1>6 DEF vars
<1> QED BY <1>3, <1>4, <1>5, <1>6 DEF Next, Finished

LEMMA CaptureStep ==
    ASSUME StoreInv, HistoryInv, [Next]_vars, NEW t \in Slots PROVE CaptureFollows(t)'
<1> USE DEF StoreInv, Types, Goto, Reject, db, store, exchange, history
<1>1. ASSUME req'[t] = req[t], meta'[t] = meta[t], captured'[t] = captured[t],
             \/ pc'[t] = pc[t]
             \/ pc[t] \in {"rehydrate", "on_request", "upstream"} \cup Answered
      PROVE  CaptureFollows(t)'
  BY <1>1 DEF CaptureFollows, HistoryInv
<1>2. ASSUME NEW s \in Slots, SlotStep(s) PROVE CaptureFollows(t)'
  <2>1. CASE t # s
    BY <1>1, <1>2, <2>1, FrameStep
  <2>2. CASE t = s /\ Receive(s)
    <3>1. PICK r \in Requests :
             /\ req' = [req EXCEPT ![s] = r]
             /\ IF HandleInvalidFormat(Classified(r).format, OnInvalid)
                THEN Reject(s, 400, "json")
                ELSE IF ValidateRejects(r, WriteMetadata(Classified(r)))
                THEN Reject(s, 400, ErrorForm(WriteMetadata(Classified(r)).stream = "true"))
                ELSE Goto(s, IF r.method = "POST" THEN "store_body" ELSE "on_request")
      BY <2>2, ZenonT(60) DEF Receive
    <3>2. /\ pc'[s] \in {"idle", "store_body", "on_request"}
          /\ pc'[s] = "on_request" => r.method # "POST"
      <4>1. pc'[s] \in {"idle", "store_body", "on_request"}
        BY <2>2 DEF Receive
      <4>2. pc'[s] = "on_request" => r.method # "POST"
        BY <3>1
      <4> QED BY <4>1, <4>2
    <3> QED BY <2>2, <3>1, <3>2 DEF CaptureFollows, IsResponsesCreate, Answered
  <2>3. CASE t = s /\ StoreRequestBody(s)
    <3>1. req' = req /\ meta' = meta /\ req[s] \in Requests /\ meta[s] = Meta(req[s])
      BY <2>3 DEF StoreRequestBody, RequestKnown
    <3>2. ASSUME IsResponsesCreate(req[s]), RequestWillPersist(req[s], meta[s])
          PROVE  captured'[s] = IF req[s].body.input = "absent" THEN None
                                ELSE StoredInputItems(req[s])
      <4>1. req[s].body.kind = "object"
        BY <3>1, <3>2, CreateFacts DEF RequestWillPersist
      <4> QED BY <2>3, <3>2, <4>1 DEF StoreRequestBody, ShouldSkip
    <3> QED BY <2>3, <3>1, <3>2 DEF CaptureFollows
  <2>4. CASE t = s /\ (Rehydrate(s) \/ OnRequest(s) \/ Upstream(s))
    BY <1>1, <2>4 DEF Rehydrate, OnRequest, Upstream
  <2>5. CASE t = s /\ (OnResponse(s) \/ BodyChunk(s) \/ EndOfStream(s)
                       \/ PersistResponse(s) \/ Deliver(s))
    BY <1>1, <2>5 DEF OnResponse, BodyChunk, EndOfStream, PersistResponse, Deliver, Answered
  <2>6. CASE t = s /\ (GetResponse(s) \/ HandleDelete(s))
    BY <2>6 DEF GetResponse, HandleDelete, CaptureFollows, Answered
  <2> QED BY <1>2, <2>1, <2>2, <2>3, <2>4, <2>5, <2>6 DEF SlotStep
<1>3. CASE DatabaseDown \/ DatabaseUp
  BY <1>1, <1>3 DEF DatabaseDown, DatabaseUp
<1>4. CASE Restart
  BY <1>4 DEF Restart, CaptureFollows, Answered
<1>5. CASE UNCHANGED vars
  BY <1>1, <1>5 DEF vars
<1> QED BY <1>2, <1>3, <1>4, <1>5 DEF Next, Finished

LEMMA AnswerFollowsStep ==
    ASSUME OrdinaryRequests, StoreInv, HistoryInv, [Next]_vars, NEW t \in Slots
    PROVE  AnswerFollows(t)'
<1> USE DEF StoreInv, Types, Goto, Reject, db, store, exchange, history
<1>1. ASSUME req'[t] = req[t], state'[t] = state[t], answer'[t] = answer[t],
             pc'[t] \in Answered => pc[t] \in Answered
      PROVE  AnswerFollows(t)'
  <2> SUFFICES ASSUME pc[t] \in Answered, answer[t].id # None
               PROVE  AnswerFollows(t)'
    BY <1>1 DEF AnswerFollows
  <2>1. transcript'[answer[t].id] = transcript[answer[t].id]
    BY AnswerIssued, TranscriptStep
  <2>2. state[t] # None => transcript'[req[t].target] = transcript[req[t].target]
    BY TranscriptStep DEF HistoryInv, StateFollows
  <2>3. AnswerFollows(t)
    BY DEF HistoryInv
  <2> QED BY <1>1, <2>1, <2>2, <2>3 DEF AnswerFollows
<1>2. ASSUME NEW s \in Slots, SlotStep(s) PROVE AnswerFollows(t)'
  <2>1. CASE t # s
    BY <1>1, <1>2, <2>1, FrameStep
  <2>2. CASE t = s /\ Upstream(s)
    <3>1. /\ req' = req /\ state' = state /\ pc[s] = "upstream" /\ req[s] \in Requests
          /\ state[s] # None => req[s].target \in issued
      BY <2>2 DEF Upstream, RequestKnown, HistoryInv, StateFollows
    <3> DEFINE before == IF state[s] = None THEN <<>> ELSE transcript[req[s].target]
               turn(a) == TurnInput(req[s], state[s], NamedInput(s, a))
    <3>2. CASE IsResponsesCreate(req[s])
      <4>1. PICK a \in Answers, out \in Outputs, i \in Ids \ issued :
               /\ answer' = [answer EXCEPT ![s] =
                     [status |-> a.status, content |-> a.content,
                      complete |-> a.complete, run |-> a.run, error |-> a.error,
                      id |-> i, input |-> NamedInput(s, a), output |-> out]]
               /\ transcript' = [transcript EXCEPT ![i] = before \o turn(a) \o out]
        <5>1. req[s].endpoint # "cancel"
          BY <3>2 DEF IsResponsesCreate
        <5> QED BY <2>2, <3>2, <5>1 DEF Upstream
      <4>2. answer'[s].id = i /\ answer'[s].output = out /\ answer'[s].input = NamedInput(s, a)
        BY <4>1
      <4>3. /\ transcript'[i] = before \o turn(a) \o out
            /\ state[s] # None => transcript'[req[s].target] = transcript[req[s].target]
        <5> HIDE DEF before, turn
        <5> QED BY <3>1, <4>1
      <4>4. state[s] # None /\ state[s].persisted = <<>> => answer'[s].input = None
        BY <4>2 DEF NamedInput
      <4> QED BY <2>2, <3>1, <4>2, <4>3, <4>4 DEF AnswerFollows
    <3>3. CASE ~IsResponsesCreate(req[s])
      <4>1. answer'[s].id # None =>
               ~IsResponsesCreate(req'[s]) /\ pc'[s] \in Answered
        BY <2>2, <3>1, <3>3 DEF Upstream, Answered
      <4>2. answer'[s].id = None
        BY <3>1, <4>1, AnswerStep, <2>2 DEF AnswerKnown, OrdinaryRequests
      <4> QED BY <2>2, <4>2 DEF AnswerFollows
    <3> QED BY <3>2, <3>3
  <2>3. CASE t = s /\ (OnResponse(s) \/ BodyChunk(s) \/ EndOfStream(s)
                       \/ PersistResponse(s) \/ Deliver(s))
    BY <1>1, <2>3 DEF OnResponse, BodyChunk, EndOfStream, PersistResponse, Deliver, Answered
  <2>4. CASE t = s /\ (Receive(s) \/ StoreRequestBody(s) \/ Rehydrate(s) \/ OnRequest(s)
                       \/ GetResponse(s) \/ HandleDelete(s))
    <3>1. pc'[s] \notin Answered
      BY <2>4 DEF Receive, StoreRequestBody, Rehydrate, ProxyBody, OnRequest,
                  GetResponse, HandleDelete, Answered
    <3> QED BY <2>4, <3>1 DEF AnswerFollows
  <2> QED BY <1>2, <2>1, <2>2, <2>3, <2>4 DEF SlotStep
<1>3. CASE DatabaseDown \/ DatabaseUp
  BY <1>1, <1>3 DEF DatabaseDown, DatabaseUp
<1>4. CASE Restart
  BY <1>4 DEF Restart, AnswerFollows, Answered
<1>5. CASE UNCHANGED vars
  BY <1>1, <1>5 DEF vars
<1> QED BY <1>2, <1>3, <1>4, <1>5 DEF Next, Finished

\* build_state, assemble_stored_messages and responses_proxy: what is stored for
\* a response, and what the backend is sent for the next one, is the whole
\* conversation before it, in order, across any number of rehydrated turns.
THEOREM HistoryTheorem == ASSUME OrdinaryRequests PROVE Spec => []HistoryKept
<1>1. Init => HistoryInv
  BY DEF Init, HistoryInv, RowsFollow, StateFollows, CaptureFollows, AnswerFollows, Answered
<1>2. StoreInv /\ HistoryInv /\ [Next]_vars => HistoryInv'
  BY RowsStep, StateStep, CaptureStep, AnswerFollowsStep DEF HistoryInv
<1>3. StoreInv /\ HistoryInv => HistoryKept
  <2> SUFFICES ASSUME StoreInv, HistoryInv PROVE HistoryKept
    OBVIOUS
  <2>1. HistoryFollowsChain
    BY DEF HistoryInv, RowsFollow, HistoryFollowsChain
  <2>2. ASSUME NEW s \in Slots, pc[s] \in {"on_request", "upstream"}, state[s] # None
        PROVE  sent[s] = Replayed(transcript[req[s].target]) \o req[s].items
    <3>1. sent[s] = Rehydrated(s).messages
      BY <2>2 DEF HistoryInv, StateFollows
    <3>2. NormalizeInput(req[s]) = req[s].items
      BY <2>2, InputsAgree DEF StoreInv, RequestKnown
    <3> QED BY <3>1, <3>2, RehydratedFields
  <2> QED BY <2>1, <2>2 DEF HistoryKept, BackendSeesHistory
<1> QED BY <1>1, <1>2, <1>3, StoreInvariant, PTL DEF Spec
============================================================================
