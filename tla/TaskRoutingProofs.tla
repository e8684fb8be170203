------------------------- MODULE TaskRoutingProofs -------------------------
(* Proofs about TaskRouting.                                               *)
EXTENDS TaskRouting, FiniteSetTheorems, TLAPS

\* What a request holds at each of its steps.
Shape ==
    \A f \in Flows :
        /\ pc[f] \in {"lookup", "recheck"} => task[f] \in TaskIds
        /\ pc[f] \notin {"body", "put"} =>
              pending[f] = <<>> /\ capture[f] = "off" /\ cluster[f] = None
        /\ pc[f] = "put" => pending[f] # <<>>
        /\ pending[f] # <<>> \/ capture[f] # "off" => cluster[f] \in Clusters
        /\ capture[f] = "buffer" => doc[f] \in Docs

TypeInv == TypeOK /\ Shape

-----------------------------------------------------------------------------
LEMMA InitType == Init => TypeInv
<1> SUFFICES ASSUME Init PROVE TypeInv
  OBVIOUS
<1>1. /\ pending \in [Flows -> Seq(Events)]
      /\ last_eviction \in Nat /\ now \in Nat /\ last_eviction <= now /\ started \in Nat
  BY DEF Init
<1>2. TypeOK
  BY <1>1 DEF Init, TypeOK, Steps, Methods
<1>3. Shape
  BY DEF Init, Shape
<1> QED BY <1>2, <1>3 DEF TypeInv

\* The map after a sweep holds the live entries, or all of them.
LEMMA SweptType ==
    ASSUME TypeOK
    PROVE  /\ Swept \in [TaskIds -> Route \cup {None}]
           /\ \A t \in TaskIds : Swept[t] = tasks[t] \/ (Swept[t] = None /\ ~Live(tasks[t]))
           /\ SweepDue => \A t \in TaskIds : Swept[t] # None => Live(tasks[t])
           /\ ~SweepDue => Swept = tasks
BY DEF TypeOK, Swept

LEMMA HeadTail ==
    ASSUME TypeOK, NEW f \in Flows, pending[f] # <<>>
    PROVE  /\ Head(pending[f]) \in Events
           /\ Head(pending[f]).task \in TaskIds
           /\ Head(pending[f]).terminal \in BOOLEAN
           /\ Tail(pending[f]) \in Seq(Events)
<1>1. pending[f] \in Seq(Events)
  BY DEF TypeOK
<1>2. Head(pending[f]) \in Events /\ Tail(pending[f]) \in Seq(Events)
  BY <1>1
<1> QED BY <1>2 DEF Events

LEMMA RequestType ==
    ASSUME TypeInv, NEW f \in Flows,
           OnRequestBody(f) \/ LookupRead(f) \/ LookupRecheck(f)
    PROVE  TypeInv'
<1> USE DEF TypeInv, store, response, Steps
<1>1. CASE OnRequestBody(f)
  <2>1. TypeOK'
    BY <1>1 DEF OnRequestBody, TypeOK
  <2>2. Shape'
    BY <1>1 DEF OnRequestBody, TypeOK, Shape
  <2> QED BY <2>1, <2>2
<1>2. CASE LookupRead(f)
  <2>1. task[f] \in TaskIds /\ pc[f] = "lookup" /\ tasks[task[f]] \in Route \cup {None}
    BY <1>2 DEF LookupRead, Shape, TypeOK
  <2>2. decision' \in [Flows -> Clusters \cup {"miss", None}]
    BY <1>2, <2>1 DEF LookupRead, TypeOK, Live, Route
  <2>3. pc' \in [Flows -> Steps]
    BY <1>2, ZenonT(60) DEF LookupRead, TypeOK
  <2>4. TypeOK'
    BY <1>2, <2>2, <2>3 DEF LookupRead, TypeOK
  <2>5. Shape'
    BY <1>2, <2>1 DEF LookupRead, TypeOK, Shape
  <2> QED BY <2>4, <2>5
<1>3. CASE LookupRecheck(f)
  <2>1. task[f] \in TaskIds /\ pc[f] = "recheck"
    BY <1>3 DEF LookupRecheck, Shape
  <2>2. tasks' \in [TaskIds -> Route \cup {None}]
    BY <1>3, <2>1 DEF LookupRecheck, RemovedIfExpired, TypeOK
  <2>3. TypeOK'
    BY <1>3, <2>2 DEF LookupRecheck, TypeOK
  <2>4. Shape'
    BY <1>3, <2>1 DEF LookupRecheck, TypeOK, Shape
  <2> QED BY <2>3, <2>4
<1> QED BY <1>1, <1>2, <1>3

LEMMA ResponseType ==
    ASSUME TypeInv, NEW f \in Flows,
           OnResponse(f) \/ PlainChunk(f) \/ SseChunk(f) \/ EndOfBody(f) \/ Finish(f)
    PROVE  TypeInv'
<1> USE DEF TypeInv, store, response, Steps
<1>1. CASE OnResponse(f)
  <2>1. PICK c \in Clusters, d \in Docs, kind \in {"off", "buffer", "sse"} :
            /\ capture' = [capture EXCEPT ![f] = kind]
            /\ cluster' = [cluster EXCEPT ![f] = IF kind = "off" THEN None ELSE c]
            /\ doc' = [doc EXCEPT ![f] = IF kind = "buffer" THEN d ELSE None]
    BY <1>1, ZenonT(60) DEF OnResponse, CaptureOf
  <2>2. /\ pc[f] = "forward" /\ pc' = [pc EXCEPT ![f] = "body"]
        /\ UNCHANGED <<store, now, started, method, task, decision, got, buffered,
                       pending, expires, writes>>
    BY <1>1 DEF OnResponse
  <2>3. TypeOK'
    BY <2>1, <2>2 DEF TypeOK
  <2>4. Shape'
    BY <2>1, <2>2 DEF TypeOK, Shape
  <2> QED BY <2>3, <2>4
<1>2. CASE PlainChunk(f)
  <2>1. doc[f] \in Docs /\ doc[f].len \in Nat
    BY <1>2 DEF PlainChunk, TypeOK, Docs
  <2> QED BY <1>2, <2>1 DEF PlainChunk, TypeOK, Shape
<1>3. CASE SseChunk(f)
  <2>1. PICK n \in 0..MaxEvents : \E events \in [1..n -> Events] : \E overflowed \in BOOLEAN :
            /\ pending' = [pending EXCEPT ![f] = events]
            /\ capture' = [capture EXCEPT ![f] = IF overflowed THEN "off" ELSE "sse"]
    BY <1>3 DEF SseChunk
  <2>2. PICK events \in [1..n -> Events] : \E overflowed \in BOOLEAN :
            /\ pending' = [pending EXCEPT ![f] = events]
            /\ capture' = [capture EXCEPT ![f] = IF overflowed THEN "off" ELSE "sse"]
    BY <2>1
  <2>3. n \in Nat /\ events \in Seq(Events)
    BY RoutingAssumption
  <2>4. /\ pc[f] = "body" /\ capture[f] = "sse" /\ pending[f] = <<>>
        /\ UNCHANGED <<store, now, started, pc, method, task, decision, cluster,
                       doc, got, buffered, expires, writes>>
    BY <1>3 DEF SseChunk
  <2>5. TypeOK'
    BY <2>2, <2>3, <2>4 DEF TypeOK
  <2>6. Shape'
    BY <2>2, <2>4 DEF TypeOK, Shape
  <2> QED BY <2>5, <2>6
<1>4. CASE EndOfBody(f)
  BY <1>4 DEF EndOfBody, TypeOK, Shape
<1>5. CASE Finish(f)
  BY <1>5 DEF Finish, TypeOK, Shape
<1> QED BY <1>1, <1>2, <1>3, <1>4, <1>5

LEMMA BufferType ==
    ASSUME TypeInv, NEW f \in Flows, NEW n \in 1..MaxDoc, BufferChunk(f, n)
    PROVE  TypeInv'
<1> USE DEF TypeInv, store, response, Steps
<1>1. /\ pc[f] = "body" /\ capture[f] = "buffer" /\ pending[f] = <<>>
      /\ got' = [got EXCEPT ![f] = got[f] + n]
      /\ UNCHANGED <<store, now, started, pc, method, task, decision, doc, expires, writes>>
      /\ n \in Nat
  BY RoutingAssumption DEF BufferChunk
<1>2. doc[f] \in Docs /\ doc[f].event \in Events \cup {None} /\ cluster[f] \in Clusters
  BY <1>1 DEF Shape, Docs
<1>3. got' \in [Flows -> Nat] /\ buffered[f] + n \in Nat
  BY <1>1 DEF TypeOK
<1>4. CASE OverLimit(f, n)
  <2>1. /\ capture' = [capture EXCEPT ![f] = "off"]
        /\ cluster' = [cluster EXCEPT ![f] = None]
        /\ buffered' = [buffered EXCEPT ![f] = 0]
        /\ pending' = pending
    BY <1>4 DEF BufferChunk
  <2> QED BY <1>1, <1>3, <2>1 DEF TypeOK, Shape
<1>5. CASE ~OverLimit(f, n) /\ buffered[f] + n >= doc[f].json
  <2>1. /\ capture' = [capture EXCEPT ![f] = "off"]
        /\ buffered' = [buffered EXCEPT ![f] = buffered[f] + n]
        /\ pending' = [pending EXCEPT ![f] =
              IF doc[f].event = None THEN <<>> ELSE <<doc[f].event>>]
        /\ cluster' = cluster
    BY <1>5 DEF BufferChunk, Cleared, KeptForStore
  <2>2. (IF doc[f].event = None THEN <<>> ELSE <<doc[f].event>>) \in Seq(Events)
    BY <1>2
  <2>3. TypeOK'
    BY <1>1, <1>3, <2>1, <2>2 DEF TypeOK
  <2>4. Shape'
    BY <1>1, <1>2, <2>1 DEF TypeOK, Shape
  <2> QED BY <2>3, <2>4
<1>6. CASE ~OverLimit(f, n) /\ ~(buffered[f] + n >= doc[f].json)
  <2>1. /\ buffered' = [buffered EXCEPT ![f] = buffered[f] + n]
        /\ UNCHANGED <<capture, cluster, pending>>
    BY <1>6 DEF BufferChunk
  <2> QED BY <1>1, <1>3, <2>1 DEF TypeOK, Shape
<1> QED BY <1>4, <1>5, <1>6

LEMMA RemoveType ==
    ASSUME TypeInv, NEW f \in Flows, Remove(f)
    PROVE  TypeInv'
<1> USE DEF TypeInv, store, response, Steps
<1>1. pending[f] # <<>> /\ pc[f] = "body"
  BY DEF Remove
<1>2. Head(pending[f]).task \in TaskIds /\ Tail(pending[f]) \in Seq(Events)
  BY <1>1, HeadTail
<1>3. tasks' \in [TaskIds -> Route \cup {None}]
  BY <1>2 DEF Remove, TypeOK
<1>4. /\ pending' = [pending EXCEPT ![f] = Tail(pending[f])]
      /\ UNCHANGED <<last_eviction, now, started, pc, method, task, decision,
                     capture, cluster, doc, got, buffered, expires>>
  BY DEF Remove
<1>5. writes' \in [Flows -> Nat]
  BY DEF Remove, Counted, TypeOK
<1>6. TypeOK'
  BY <1>2, <1>3, <1>4, <1>5 DEF TypeOK
<1>7. Shape'
  BY <1>1, <1>4 DEF TypeOK, Shape
<1> QED BY <1>6, <1>7

LEMMA PutBeginType ==
    ASSUME TypeInv, NEW f \in Flows, PutBegin(f)
    PROVE  TypeInv'
<1> USE DEF TypeInv, store, response, Steps
<1>1. pending[f] # <<>> /\ pc[f] = "body"
  BY DEF PutBegin
<1>2. RouteTtl(Head(pending[f])) \in Nat
  BY RoutingAssumption DEF RouteTtl
<1>3. expires' \in [Flows -> Nat]
  BY <1>2 DEF PutBegin, TypeOK
<1>4. /\ pc' = [pc EXCEPT ![f] = "put"]
      /\ UNCHANGED <<store, now, started, method, task, decision, response, pending>>
  BY DEF PutBegin
<1>5. TypeOK'
  BY <1>3, <1>4 DEF TypeOK
<1>6. Shape'
  BY <1>1, <1>4 DEF TypeOK, Shape
<1> QED BY <1>5, <1>6

\* What put does to the map under the lock: one entry of the swept map is
\* set, or the map is full and none is.
LEMMA PutLockedForm ==
    ASSUME TypeInv, NEW f \in Flows, PutLocked(f)
    PROVE  LET t == Head(pending[f]).task
               r == [cluster |-> cluster[f], expires_at |-> expires[f]]
           IN  /\ pc[f] = "put" /\ pending[f] # <<>>
               /\ t \in TaskIds /\ r \in Route
               /\ tasks' \in [TaskIds -> Route \cup {None}]
               /\ \A u \in TaskIds : u # t => tasks'[u] = Swept[u]
               /\ \/ Room(t) /\ tasks'[t] = r
                  \/ ~Room(t) /\ tasks'[t] = Swept[t]
<1> DEFINE t == Head(pending[f]).task
           r == [cluster |-> cluster[f], expires_at |-> expires[f]]
<1>1. pc[f] = "put" /\ pending[f] # <<>>
  BY DEF PutLocked, TypeInv, Shape
<1>2. t \in TaskIds
  BY <1>1, HeadTail DEF TypeInv
<1>3. r \in Route
  BY <1>1 DEF TypeInv, TypeOK, Shape, Route
<1>4. \/ Room(t) /\ tasks' = [Swept EXCEPT ![t] = r]
      \/ ~Room(t) /\ tasks' = Swept
  BY DEF PutLocked
<1>5. Swept \in [TaskIds -> Route \cup {None}]
  BY SweptType DEF TypeInv
<1> HIDE DEF t, r
<1>6. /\ tasks' \in [TaskIds -> Route \cup {None}]
      /\ \A u \in TaskIds : u # t => tasks'[u] = Swept[u]
      /\ \/ Room(t) /\ tasks'[t] = r
         \/ ~Room(t) /\ tasks'[t] = Swept[t]
  BY <1>2, <1>3, <1>4, <1>5
<1> QED BY <1>1, <1>2, <1>3, <1>6 DEF t, r

LEMMA PutLockedType ==
    ASSUME TypeInv, NEW f \in Flows, PutLocked(f)
    PROVE  TypeInv'
<1> USE DEF TypeInv, store, response, Steps
<1>1. pc[f] = "put" /\ pending[f] # <<>> /\ tasks' \in [TaskIds -> Route \cup {None}]
  BY PutLockedForm
<1>2. Tail(pending[f]) \in Seq(Events)
  BY <1>1, HeadTail
<1>3. /\ pending' = [pending EXCEPT ![f] = Tail(pending[f])]
      /\ pc' = [pc EXCEPT ![f] = "body"]
      /\ expires' = [expires EXCEPT ![f] = 0]
      /\ UNCHANGED <<now, started, method, task, decision, capture, cluster, doc, got,
                     buffered>>
  BY DEF PutLocked
<1>4. last_eviction' \in Nat /\ last_eviction' <= now
  BY DEF PutLocked, TypeOK
<1>5. writes' \in [Flows -> Nat]
  BY DEF PutLocked, Counted, TypeOK
<1>6. TypeOK'
  BY <1>1, <1>2, <1>3, <1>4, <1>5 DEF TypeOK
<1>7. Shape'
  BY <1>1, <1>3 DEF TypeOK, Shape
<1> QED BY <1>6, <1>7

LEMMA TypeStep == TypeInv /\ [Next]_vars => TypeInv'
<1> SUFFICES ASSUME TypeInv, [Next]_vars PROVE TypeInv'
  OBVIOUS
<1>1. ASSUME NEW f \in Flows, FlowStep(f) PROVE TypeInv'
  BY <1>1, RequestType, ResponseType, BufferType, RemoveType, PutBeginType, PutLockedType
     DEF FlowStep
<1>2. CASE Tick
  BY <1>2 DEF Tick, TypeInv, TypeOK, Shape, store, response
<1>3. CASE Quiesced \/ UNCHANGED vars
  BY <1>3 DEF Quiesced, vars, TypeInv, TypeOK, Shape
<1> QED BY <1>1, <1>2, <1>3 DEF Next

\* Map, clock and the hooks' metadata are well-typed for any number of
\* requests and routes; a put always has the cluster it was captured with.
THEOREM RoutingTypeCorrect == Spec => []TypeOK
<1>1. Spec => []TypeInv
  BY InitType, TypeStep, PTL DEF Spec
<1>2. TypeInv => TypeOK
  BY DEF TypeInv
<1> QED BY <1>1, <1>2, PTL

-----------------------------------------------------------------------------
\* No step but put adds an entry to the map.
LEMMA StoredShrinks ==
    ASSUME TypeInv, [Next]_vars, \A f \in Flows : ~PutLocked(f)
    PROVE  \A t \in TaskIds : tasks'[t] = tasks[t] \/ tasks'[t] = None
<1>1. ASSUME NEW f \in Flows, FlowStep(f)
      PROVE  \A t \in TaskIds : tasks'[t] = tasks[t] \/ tasks'[t] = None
  <2>1. CASE LookupRecheck(f)
    BY <2>1 DEF LookupRecheck, RemovedIfExpired, TypeInv, TypeOK
  <2>2. CASE Remove(f)
    BY <2>2 DEF Remove, TypeInv, TypeOK
  <2>3. CASE tasks' = tasks
    BY <2>3
  <2> QED BY <1>1, <2>1, <2>2, <2>3 DEF FlowStep, OnRequestBody, LookupRead, OnResponse,
        BufferChunk, PlainChunk, SseChunk, EndOfBody, Finish, PutBegin, store
<1> QED BY <1>1 DEF Next, Tick, Quiesced, vars, store

\* LocalTaskRouteStore::put: the map never holds more than MAX_TASK_ROUTES
\* entries.
THEOREM StoreStaysBounded == Spec => []StoreBounded
<1>1. Init => StoreBounded
  <2> SUFFICES ASSUME Init PROVE StoreBounded
    OBVIOUS
  <2>1. Stored = {}
    BY DEF Init, Stored
  <2> QED BY <2>1, FS_EmptySet, RoutingAssumption DEF StoreBounded
<1>2. ASSUME TypeInv, StoreBounded, [Next]_vars PROVE StoreBounded'
  <2>1. IsFiniteSet(Stored)
    BY RoutingAssumption, FS_Subset DEF Stored
  <2>2. CASE \A f \in Flows : ~PutLocked(f)
    <3>1. Stored' \in SUBSET Stored
      BY <1>2, <2>2, StoredShrinks DEF Stored
    <3>2. Cardinality(Stored') <= Cardinality(Stored)
      BY <2>1, <3>1, FS_Subset
    <3>3. Cardinality(Stored) \in Nat /\ Cardinality(Stored') \in Nat
      BY <2>1, <3>1, FS_Subset, FS_CardinalityType
    <3> QED BY <1>2, <3>2, <3>3, RoutingAssumption DEF StoreBounded
  <2>3. ASSUME NEW f \in Flows, PutLocked(f) PROVE StoreBounded'
    <3> DEFINE t == Head(pending[f]).task
               kept == {u \in TaskIds : Swept[u] # None}
    <3>1. kept \in SUBSET Stored
      BY <1>2, SweptType DEF TypeInv, Stored
    <3>2. /\ IsFiniteSet(kept) /\ Cardinality(kept) \in Nat
          /\ Cardinality(kept) <= Cardinality(Stored) /\ Cardinality(Stored) \in Nat
      BY <2>1, <3>1, FS_Subset, FS_CardinalityType
    <3>3. /\ t \in TaskIds
          /\ \A u \in TaskIds : u # t => tasks'[u] = Swept[u]
          /\ Room(t) \/ tasks'[t] = Swept[t]
      BY <1>2, <2>3, PutLockedForm
    <3>4. CASE ~Room(t) \/ t \in kept
      <4>1. Stored' \in SUBSET kept
        BY <3>3, <3>4 DEF Stored
      <4>2. Cardinality(Stored') <= Cardinality(kept) /\ Cardinality(Stored') \in Nat
        BY <3>2, <4>1, FS_Subset, FS_CardinalityType
      <4> QED BY <1>2, <3>2, <4>2, RoutingAssumption DEF StoreBounded
    <3>5. CASE Room(t) /\ t \notin kept
      <4>1. Cardinality(kept) < MaxTaskRoutes
        BY <3>3, <3>5 DEF Room
      <4>2. Stored' \in SUBSET (kept \cup {t})
        BY <3>3 DEF Stored
      <4>3. IsFiniteSet(kept \cup {t}) /\ Cardinality(kept \cup {t}) = Cardinality(kept) + 1
        BY <3>2, <3>5, FS_AddElement
      <4>4. Cardinality(Stored') <= Cardinality(kept) + 1 /\ Cardinality(Stored') \in Nat
        BY <4>2, <4>3, FS_Subset, FS_CardinalityType
      <4> QED BY <3>2, <4>1, <4>4, RoutingAssumption DEF StoreBounded
    <3> QED BY <3>4, <3>5
  <2> QED BY <2>2, <2>3
<1> QED BY <1>1, <1>2, InitType, TypeStep, PTL DEF Spec

\* A live route is only touched by a put or a remove for its own task.
THEOREM LiveRoutesStay == Spec => LiveRoutesKept
<1>1. ASSUME TypeInv, [Next]_vars
      PROVE  [\A t \in TaskIds :
                Live(tasks[t]) /\ tasks'[t] # tasks[t] =>
                    \E f \in Flows : pending[f] # <<>> /\ Head(pending[f]).task = t
                                     /\ pc[f] \in {"put", "body"}]_tasks
  <2> SUFFICES ASSUME NEW t \in TaskIds, Live(tasks[t]), tasks'[t] # tasks[t]
               PROVE  \E f \in Flows : pending[f] # <<>> /\ Head(pending[f]).task = t
                                       /\ pc[f] \in {"put", "body"}
    OBVIOUS
  <2>1. PICK f \in Flows : FlowStep(f)
    BY <1>1 DEF Next, Tick, Quiesced, vars, store
  <2>2. CASE PutLocked(f)
    BY <1>1, <2>2, PutLockedForm, SweptType DEF TypeInv
  <2>3. CASE Remove(f)
    BY <1>1, <2>3 DEF Remove, TypeInv, TypeOK
  <2>4. CASE LookupRecheck(f)
    BY <1>1, <2>4 DEF LookupRecheck, RemovedIfExpired, TypeInv, TypeOK
  <2>5. CASE tasks' = tasks
    BY <2>5
  <2> QED BY <2>1, <2>2, <2>3, <2>4, <2>5 DEF FlowStep, OnRequestBody, LookupRead,
        OnResponse, BufferChunk, PlainChunk, SseChunk, EndOfBody, Finish, PutBegin, store
<1>2. Spec => []TypeInv
  BY InitType, TypeStep, PTL DEF Spec
<1> QED BY <1>1, <1>2, PTL DEF Spec, LiveRoutesKept

-----------------------------------------------------------------------------
\* A put in progress read the clock no later than now and its entry is still
\* live; no entry had expired when the map was last swept.
Fresh ==
    /\ \A f \in Flows : pc[f] = "put" =>
          /\ now < expires[f]
          /\ expires[f] - RouteTtl(Head(pending[f])) \in 0..now
    /\ \A f \in Flows : pc[f] # "put" => expires[f] = 0
    /\ \A t \in TaskIds : tasks[t] # None => last_eviction < tasks[t].expires_at

RouteInv == TypeInv /\ Fresh

LEMMA FreshAfterPut ==
    ASSUME RouteInv, NEW f \in Flows, PutLocked(f)
    PROVE  Fresh'
<1> DEFINE t == Head(pending[f]).task
           r == [cluster |-> cluster[f], expires_at |-> expires[f]]
<1>1. /\ pc[f] = "put" /\ t \in TaskIds /\ r \in Route
      /\ \A u \in TaskIds : u # t => tasks'[u] = Swept[u]
      /\ tasks'[t] = r \/ tasks'[t] = Swept[t]
  BY PutLockedForm DEF RouteInv
<1>2. /\ pc' = [pc EXCEPT ![f] = "body"] /\ now' = now
      /\ expires' = [expires EXCEPT ![f] = 0]
      /\ pending' = [pending EXCEPT ![f] = Tail(pending[f])]
      /\ last_eviction' = IF SweepDue THEN now ELSE last_eviction
  BY DEF PutLocked
<1>3. now < expires[f] /\ last_eviction <= now /\ now \in Nat /\ last_eviction \in Nat
      /\ expires[f] \in Nat
  BY <1>1 DEF RouteInv, Fresh, TypeInv, TypeOK
<1>4. ASSUME NEW u \in TaskIds, Swept[u] # None
      PROVE  Swept[u] = tasks[u] /\ last_eviction' < Swept[u].expires_at
  <2>1. Swept[u] = tasks[u] /\ last_eviction < tasks[u].expires_at
    BY <1>4, SweptType DEF RouteInv, Fresh, TypeInv
  <2>2. CASE SweepDue
    BY <1>2, <1>4, <2>1, <2>2, SweptType DEF RouteInv, TypeInv, Live
  <2>3. CASE ~SweepDue
    BY <1>2, <2>1, <2>3
  <2> QED BY <2>1, <2>2, <2>3
<1>5. ASSUME NEW u \in TaskIds, tasks'[u] # None
      PROVE  last_eviction' < tasks'[u].expires_at
  <2>1. CASE tasks'[u] = Swept[u]
    BY <1>4, <1>5, <2>1
  <2>2. CASE tasks'[u] = r
    BY <1>2, <1>3, <2>2
  <2> QED BY <1>1, <2>1, <2>2
<1>6. \A g \in Flows : pc'[g] = "put" =>
          pc[g] = "put" /\ expires'[g] = expires[g] /\ pending'[g] = pending[g]
  BY <1>2 DEF RouteInv, TypeInv, TypeOK
<1>7. \A g \in Flows : pc'[g] # "put" => expires'[g] = 0
  BY <1>2 DEF RouteInv, Fresh, TypeInv, TypeOK
<1> QED BY <1>2, <1>5, <1>6, <1>7 DEF RouteInv, Fresh, RouteTtl

\* Steps of requests that leave the store, the clock and puts alone
LEMMA FreshKept ==
    ASSUME RouteInv, NEW f \in Flows, FlowStep(f), ~PutLocked(f), ~PutBegin(f)
    PROVE  Fresh'
<1>1. \A t \in TaskIds : tasks'[t] = tasks[t] \/ tasks'[t] = None
  <2>1. CASE LookupRecheck(f)
    BY <2>1 DEF LookupRecheck, RemovedIfExpired, RouteInv, TypeInv, TypeOK
  <2>2. CASE Remove(f)
    BY <2>2 DEF Remove, RouteInv, TypeInv, TypeOK
  <2>3. CASE tasks' = tasks
    BY <2>3
  <2> QED BY <2>1, <2>2, <2>3 DEF FlowStep, OnRequestBody, LookupRead, OnResponse,
        BufferChunk, PlainChunk, SseChunk, EndOfBody, Finish, store
<1>2. now' = now /\ last_eviction' = last_eviction /\ expires' = expires
  BY DEF FlowStep, OnRequestBody, LookupRead, LookupRecheck, OnResponse, BufferChunk,
         PlainChunk, SseChunk, EndOfBody, Finish, Remove, store
<1>3. \A g \in Flows : /\ pc'[g] = "put" => pc[g] = "put" /\ pending'[g] = pending[g]
                       /\ pc[g] = "put" => pc'[g] = "put"
  <2> USE DEF RouteInv, TypeInv, TypeOK
  <2>1. CASE OnRequestBody(f) \/ LookupRead(f) \/ LookupRecheck(f)
    BY <2>1 DEF OnRequestBody, LookupRead, LookupRecheck
  <2>2. CASE OnResponse(f) \/ PlainChunk(f) \/ EndOfBody(f) \/ Finish(f)
    BY <2>2 DEF OnResponse, PlainChunk, EndOfBody, Finish
  <2>3. CASE SseChunk(f)
    BY <2>3 DEF SseChunk
  <2>4. CASE Remove(f)
    BY <2>4 DEF Remove
  <2>5. ASSUME NEW n \in 1..MaxDoc, BufferChunk(f, n)
        PROVE  \A g \in Flows :
                  /\ pc'[g] = "put" => pc[g] = "put" /\ pending'[g] = pending[g]
                  /\ pc[g] = "put" => pc'[g] = "put"
    BY <2>5 DEF BufferChunk
  <2> QED BY <2>1, <2>2, <2>3, <2>4, <2>5 DEF FlowStep
<1>4. \A g \in Flows : pc'[g] # "put" => expires'[g] = 0
  <2>1. \A g \in Flows : pc[g] # "put" => expires[g] = 0
    BY DEF RouteInv, Fresh
  <2> QED BY <1>2, <1>3, <2>1
<1>5. ASSUME NEW g \in Flows, pc'[g] = "put"
      PROVE  /\ now' < expires'[g]
             /\ expires'[g] - RouteTtl(Head(pending'[g])) \in 0..now'
  <2>1. pc[g] = "put" /\ pending'[g] = pending[g]
    BY <1>3, <1>5
  <2>2. now < expires[g] /\ expires[g] - RouteTtl(Head(pending[g])) \in 0..now
    BY <2>1 DEF RouteInv, Fresh
  <2> QED BY <1>2, <2>1, <2>2
<1>6. \A t \in TaskIds : tasks'[t] # None => last_eviction' < tasks'[t].expires_at
  BY <1>1, <1>2 DEF RouteInv, Fresh
<1> QED BY <1>4, <1>5, <1>6 DEF Fresh, RouteTtl

LEMMA FreshAfterBegin ==
    ASSUME RouteInv, NEW f \in Flows, PutBegin(f)
    PROVE  Fresh'
<1>1. /\ pending[f] # <<>>
      /\ expires' = [expires EXCEPT ![f] = now + RouteTtl(Head(pending[f]))]
      /\ pc' = [pc EXCEPT ![f] = "put"]
      /\ UNCHANGED <<tasks, last_eviction, now, pending>>
      /\ ~(Head(pending[f]).terminal /\ TerminalTtl = 0)
  BY DEF PutBegin, store
<1>2. RouteTtl(Head(pending[f])) \in Nat \ {0}
  BY <1>1, RoutingAssumption DEF RouteTtl
<1>3. now \in Nat /\ expires'[f] = now + RouteTtl(Head(pending[f]))
  BY <1>1 DEF RouteInv, TypeInv, TypeOK
<1>4. now < expires'[f] /\ expires'[f] - RouteTtl(Head(pending[f])) \in 0..now
  BY <1>2, <1>3
<1>5. \A g \in Flows : g # f => pc'[g] = pc[g] /\ expires'[g] = expires[g]
  BY <1>1 DEF RouteInv, TypeInv, TypeOK
<1>6. \A g \in Flows : pc'[g] # "put" => pc[g] # "put" /\ g # f
  BY <1>1 DEF RouteInv, TypeInv, TypeOK
<1> QED BY <1>1, <1>4, <1>5, <1>6 DEF RouteInv, Fresh, RouteTtl

LEMMA RouteStep == RouteInv /\ [Next]_vars => RouteInv'
<1> SUFFICES ASSUME RouteInv, [Next]_vars PROVE RouteInv'
  OBVIOUS
<1>1. TypeInv'
  BY TypeStep DEF RouteInv
<1>2. ASSUME NEW f \in Flows, FlowStep(f) PROVE Fresh'
  BY <1>2, FreshAfterPut, FreshAfterBegin, FreshKept
<1>3. CASE Tick
  <2>1. /\ now' = now + 1 /\ now \in Nat
        /\ UNCHANGED <<tasks, last_eviction, pc, pending, expires>>
        /\ \A f \in Flows : pc[f] = "put" => now + 1 < expires[f]
    BY <1>3 DEF Tick, store, RouteInv, TypeInv, TypeOK
  <2>2. 0..now \in SUBSET (0..(now + 1))
    BY <2>1
  <2>3. ASSUME NEW f \in Flows, pc[f] = "put"
        PROVE  /\ now + 1 < expires[f]
               /\ expires[f] - RouteTtl(Head(pending[f])) \in 0..(now + 1)
    BY <2>1, <2>2, <2>3 DEF RouteInv, Fresh
  <2>4. /\ \A f \in Flows : pc[f] # "put" => expires[f] = 0
        /\ \A t \in TaskIds : tasks[t] # None => last_eviction < tasks[t].expires_at
    BY DEF RouteInv, Fresh
  <2>5. Fresh'
    BY <2>1, <2>3, <2>4 DEF Fresh, RouteTtl
  <2> QED BY <1>1, <2>5 DEF RouteInv
<1>4. CASE Quiesced \/ UNCHANGED vars
  <2>1. UNCHANGED <<tasks, last_eviction, now, pc, pending, expires>>
    BY <1>4 DEF Quiesced, vars
  <2>2. Fresh'
    BY <2>1 DEF RouteInv, Fresh, RouteTtl
  <2> QED BY <1>1, <2>2 DEF RouteInv
<1> QED BY <1>1, <1>2, <1>3, <1>4 DEF RouteInv, Next

LEMMA RouteInvariant == Spec => []RouteInv
<1>1. Init => Fresh
  BY DEF Init, Fresh
<1> QED BY <1>1, InitType, RouteStep, PTL DEF Spec, RouteInv

\* A request moves no other request.
LEMMA OwnStep ==
    ASSUME TypeOK, NEW g \in Flows, FlowStep(g), NEW f \in Flows, f # g
    PROVE  /\ pc'[f] = pc[f] /\ decision'[f] = decision[f]
           /\ task'[f] = task[f]
<1> USE DEF TypeOK
<1>1. CASE OnRequestBody(g)
  BY <1>1 DEF OnRequestBody
<1>2. CASE LookupRead(g) \/ LookupRecheck(g)
  BY <1>2 DEF LookupRead, LookupRecheck
<1>3. CASE OnResponse(g)
  BY <1>3 DEF OnResponse
<1>4. CASE \E n \in 1..MaxDoc : BufferChunk(g, n)
  BY <1>4 DEF BufferChunk
<1>5. CASE PlainChunk(g) \/ SseChunk(g) \/ EndOfBody(g) \/ Finish(g)
  BY <1>5 DEF PlainChunk, SseChunk, EndOfBody, Finish
<1>6. CASE Remove(g) \/ PutBegin(g) \/ PutLocked(g)
  BY <1>6 DEF Remove, PutBegin, PutLocked
<1> QED BY <1>1, <1>2, <1>3, <1>4, <1>5, <1>6 DEF FlowStep

\* LocalTaskRouteStore::maybe_evict: an insertion leaves no entry in the map
\* that expired a whole EVICTION_INTERVAL ago.
THEOREM SweepsKeepUp == Spec => SweepKeepsUp
<1>1. ASSUME RouteInv, RouteInv', [Next]_vars
      PROVE  [(\E f \in Flows : pc[f] = "put" /\ pc'[f] # "put") =>
                \A t \in TaskIds :
                    tasks'[t] # None => now < tasks'[t].expires_at + EvictionInterval]_vars
  <2> SUFFICES ASSUME NEW f \in Flows, pc[f] = "put", pc'[f] # "put",
                      NEW t \in TaskIds, tasks'[t] # None
               PROVE  now < tasks'[t].expires_at + EvictionInterval
    OBVIOUS
  <2>1. PutLocked(f)
    <3>1. PICK g \in Flows : FlowStep(g)
      BY <1>1 DEF Next, Tick, Quiesced, vars
    <3>2. g = f
      <4> SUFFICES ASSUME g # f PROVE FALSE
        OBVIOUS
      <4> QED BY <1>1, <3>1, OwnStep DEF RouteInv, TypeInv
    <3> QED BY <3>1, <3>2 DEF FlowStep, OnRequestBody, LookupRead, LookupRecheck,
          OnResponse, BufferChunk, PlainChunk, SseChunk, EndOfBody, Finish, Remove, PutBegin
  <2>2. /\ now - last_eviction' < EvictionInterval
        /\ now \in Nat /\ last_eviction' \in Nat /\ EvictionInterval \in Nat \ {0}
    BY <1>1, <2>1, RoutingAssumption DEF PutLocked, SweepDue, RouteInv, TypeInv, TypeOK
  <2>3. last_eviction' < tasks'[t].expires_at /\ tasks'[t].expires_at \in Nat
    BY <1>1 DEF RouteInv, Fresh, TypeInv, TypeOK, Route
  <2>4. \A n, l, e, i \in Nat : n - l < i /\ l < e => n < e + i
    OBVIOUS
  <2> QED BY <2>2, <2>3, <2>4
<1> QED BY <1>1, RouteInvariant, PTL DEF Spec, SweepKeepsUp

-----------------------------------------------------------------------------
(* How much of a JSON response the capture has seen.                       *)

\* The document is still incomplete: all that came so far is in the buffer.
Seeking(f) ==
    /\ capture[f] = "buffer" \/ pc[f] = "done"
    /\ buffered[f] = got[f] /\ got[f] < doc[f].json
    /\ pending[f] = <<>> /\ writes[f] = 0

\* A chunk went over the limit: the capture is given up for good.
Overflowed(f) ==
    /\ capture[f] = "off" /\ doc[f].len > MaxBody
    /\ pending[f] = <<>> /\ writes[f] = 0

\* The document was parsed: its event is about to be stored, or has been.
Settled(f) ==
    /\ capture[f] = "off" /\ doc[f].json <= MaxBody
    /\ Len(pending[f]) + writes[f] = IF doc[f].event = None THEN 0 ELSE 1

Progress(f) ==
    /\ pc[f] \in {"idle", "lookup", "recheck", "forward"} =>
          got[f] = 0 /\ buffered[f] = 0 /\ writes[f] = 0
    /\ pc[f] \in {"body", "put", "done"} /\ doc[f] # None =>
          Seeking(f) \/ Overflowed(f) \/ Settled(f)

CaptureInv == TypeInv /\ \A f \in Flows : Progress(f)

\* What Progress reads of a flow, which no other flow writes.
Own(f) == <<pc[f], capture[f], doc[f], got[f], buffered[f], pending[f], writes[f]>>

LEMMA OwnKept ==
    ASSUME TypeInv, NEW g \in Flows, FlowStep(g), NEW f \in Flows, f # g
    PROVE  UNCHANGED Own(f)
<1> USE DEF TypeInv, TypeOK, response, Own
<1>1. CASE OnRequestBody(g) \/ LookupRead(g) \/ LookupRecheck(g)
  BY <1>1 DEF OnRequestBody, LookupRead, LookupRecheck
<1>2. CASE OnResponse(g)
  BY <1>2 DEF OnResponse
<1>3. CASE \E n \in 1..MaxDoc : BufferChunk(g, n)
  BY <1>3 DEF BufferChunk, Cleared, KeptForStore
<1>4. CASE PlainChunk(g) \/ SseChunk(g) \/ EndOfBody(g) \/ Finish(g)
  BY <1>4 DEF PlainChunk, SseChunk, EndOfBody, Finish
<1>5. CASE Remove(g) \/ PutBegin(g) \/ PutLocked(g)
  BY <1>5 DEF Remove, PutBegin, PutLocked, Counted
<1> QED BY <1>1, <1>2, <1>3, <1>4, <1>5 DEF FlowStep

LEMMA ProgressKept ==
    ASSUME NEW f \in Flows, Progress(f), UNCHANGED Own(f)
    PROVE  Progress(f)'
BY DEF Own, Progress, Seeking, Overflowed, Settled

\* A chunk that is buffered: over the limit, enough to parse, or neither.
LEMMA ProgressAfterChunk ==
    ASSUME CaptureInv, NEW f \in Flows, NEW n \in 1..MaxDoc, BufferChunk(f, n)
    PROVE  Progress(f)'
<1> USE DEF CaptureInv, TypeInv
<1>1. /\ pc[f] = "body" /\ capture[f] = "buffer" /\ pending[f] = <<>>
      /\ n \in 1..(doc[f].len - got[f]) /\ got'[f] = got[f] + n
      /\ UNCHANGED <<pc, doc, writes>>
  BY DEF BufferChunk, TypeOK
<1>2. /\ doc[f] \in Docs /\ doc[f] # None
      /\ doc[f].json \in Nat /\ doc[f].len \in Nat /\ doc[f].json <= doc[f].len
  BY <1>1, NoneAssumption, RoutingAssumption DEF Shape, Docs
<1>3. /\ n \in Nat /\ got[f] \in Nat /\ buffered[f] \in Nat /\ MaxBody \in Nat
      /\ Len(pending[f]) = 0
  BY <1>1, RoutingAssumption DEF TypeOK
<1>4. buffered[f] = got[f] /\ got[f] < doc[f].json /\ writes[f] = 0
  BY <1>1, <1>2 DEF Progress, Seeking, Overflowed, Settled
<1>5. CASE OverLimit(f, n)
  <2>1. capture'[f] = "off" /\ pending' = pending
    BY <1>5 DEF BufferChunk, TypeOK
  <2>2. doc[f].len > MaxBody
    BY <1>1, <1>2, <1>3, <1>4, <1>5 DEF OverLimit
  <2> QED BY <1>1, <1>4, <2>1, <2>2 DEF Progress, Overflowed
<1>6. CASE ~OverLimit(f, n) /\ buffered[f] + n >= doc[f].json
  <2>1. /\ capture'[f] = "off"
        /\ pending'[f] = IF doc[f].event = None THEN <<>> ELSE <<doc[f].event>>
    BY <1>6 DEF BufferChunk, TypeOK, Cleared
  <2>2. Len(pending'[f]) = IF doc[f].event = None THEN 0 ELSE 1
    BY <2>1
  <2>3. doc[f].json <= MaxBody
    BY <1>2, <1>3, <1>6 DEF OverLimit
  <2> QED BY <1>1, <1>4, <2>1, <2>2, <2>3 DEF Progress, Settled
<1>7. CASE ~OverLimit(f, n) /\ ~(buffered[f] + n >= doc[f].json)
  <2>1. buffered'[f] = buffered[f] + n /\ UNCHANGED <<capture, pending>>
    BY <1>7 DEF BufferChunk, TypeOK
  <2>2. got[f] + n < doc[f].json
    BY <1>2, <1>3, <1>4, <1>7
  <2> QED BY <1>1, <1>4, <2>1, <2>2 DEF Progress, Seeking
<1> QED BY <1>5, <1>6, <1>7

\* A store operation moves one event from the pending ones to the stored ones.
LEMMA ProgressAfterWrite ==
    ASSUME CaptureInv, NEW f \in Flows, Remove(f) \/ PutLocked(f)
    PROVE  Progress(f)'
<1> USE DEF CaptureInv, TypeInv, TypeOK
<1>1. /\ pc[f] \in {"body", "put"} /\ pc'[f] = "body" /\ pending[f] # <<>>
      /\ UNCHANGED <<capture, doc, got, buffered>>
      /\ pending'[f] = Tail(pending[f])
      /\ writes'[f] = IF doc[f] = None THEN 0 ELSE writes[f] + 1
  BY DEF Remove, PutLocked, Shape, Counted
<1>2. pending[f] \in Seq(Events) /\ Len(Tail(pending[f])) = Len(pending[f]) - 1
  BY <1>1
<1>3. doc[f] # None => Settled(f)
  BY <1>1 DEF Progress, Seeking, Overflowed
<1>4. ASSUME doc[f] # None PROVE Settled(f)'
  <2>1. Len(pending'[f]) = Len(pending[f]) - 1 /\ writes'[f] = writes[f] + 1
    BY <1>1, <1>2, <1>4
  <2>2. Len(pending[f]) \in Nat /\ writes[f] \in Nat
    BY <1>2
  <2>3. Len(pending'[f]) + writes'[f] = Len(pending[f]) + writes[f]
    BY <2>1, <2>2
  <2> QED BY <1>1, <1>3, <1>4, <2>3 DEF Settled
<1> QED BY <1>1, <1>4 DEF Progress

LEMMA ProgressAfterOther ==
    ASSUME CaptureInv, NEW f \in Flows, FlowStep(f), ~Remove(f), ~PutLocked(f),
           \A n \in 1..MaxDoc : ~BufferChunk(f, n)
    PROVE  Progress(f)'
<1> USE DEF CaptureInv, TypeInv, TypeOK, response
<1>1. CASE OnRequestBody(f) \/ LookupRead(f) \/ LookupRecheck(f)
  <2>1. /\ pc[f] \in {"idle", "lookup", "recheck"}
        /\ pc'[f] \in {"lookup", "recheck", "forward"}
        /\ UNCHANGED <<got, buffered, writes>>
    BY <1>1 DEF OnRequestBody, LookupRead, LookupRecheck
  <2> QED BY <2>1 DEF Progress
<1>2. CASE OnResponse(f)
  <2>1. PICK d \in Docs, kind \in {"off", "buffer", "sse"} :
            /\ capture'[f] = kind
            /\ doc'[f] = IF kind = "buffer" THEN d ELSE None
    BY <1>2 DEF OnResponse, CaptureOf
  <2>2. /\ pc[f] = "forward" /\ pc'[f] = "body" /\ pending[f] = <<>>
        /\ UNCHANGED <<got, buffered, pending, writes>>
    BY <1>2 DEF OnResponse, Shape
  <2>3. 0 < d.json
    BY RoutingAssumption DEF Docs
  <2> QED BY <2>1, <2>2, <2>3 DEF Progress, Seeking
<1>3. CASE PlainChunk(f)
  <2>1. /\ pc[f] = "body" /\ capture[f] = "off"
        /\ UNCHANGED <<pc, capture, doc, buffered, pending, writes>>
    BY <1>3 DEF PlainChunk
  <2> QED BY <2>1 DEF Progress, Seeking, Overflowed, Settled
<1>4. CASE SseChunk(f)
  <2>1. pc[f] = "body" /\ capture[f] = "sse" /\ UNCHANGED <<pc, doc>>
    BY <1>4 DEF SseChunk
  <2> QED BY <2>1 DEF Progress, Seeking, Overflowed, Settled
<1>5. CASE EndOfBody(f)
  <2>1. /\ pc[f] = "body" /\ pc'[f] = "done" /\ capture'[f] = "off"
        /\ UNCHANGED <<doc, got, buffered, pending, writes>>
    BY <1>5 DEF EndOfBody
  <2> QED BY <2>1 DEF Progress, Seeking, Overflowed, Settled
<1>6. CASE Finish(f)
  BY <1>6 DEF Finish, Progress
<1>7. CASE PutBegin(f)
  <2>1. /\ pc[f] = "body" /\ pc'[f] = "put" /\ pending[f] # <<>>
        /\ UNCHANGED <<capture, doc, got, buffered, pending, writes>>
    BY <1>7 DEF PutBegin
  <2> QED BY <2>1 DEF Progress, Seeking, Overflowed, Settled
<1> QED BY <1>1, <1>2, <1>3, <1>4, <1>5, <1>6, <1>7 DEF FlowStep

LEMMA CaptureStep == CaptureInv /\ [Next]_vars => CaptureInv'
<1> SUFFICES ASSUME CaptureInv, [Next]_vars PROVE CaptureInv'
  OBVIOUS
<1>1. TypeInv'
  BY TypeStep DEF CaptureInv
<1>2. ASSUME NEW f \in Flows, NEW g \in Flows, FlowStep(g) PROVE Progress(f)'
  <2>1. CASE f # g
    BY <1>2, <2>1, OwnKept, ProgressKept DEF CaptureInv
  <2>2. CASE f = g
    BY <1>2, <2>2, ProgressAfterChunk, ProgressAfterWrite, ProgressAfterOther
  <2> QED BY <2>1, <2>2
<1>3. ASSUME NEW f \in Flows, Tick \/ Quiesced \/ UNCHANGED vars PROVE Progress(f)'
  <2>1. UNCHANGED Own(f)
    BY <1>3 DEF Tick, Quiesced, vars, response, Own
  <2> QED BY <2>1, ProgressKept DEF CaptureInv
<1> QED BY <1>1, <1>2, <1>3 DEF CaptureInv, Next

\* on_response_body and accumulate_response_hex: a JSON response that fits is
\* stored exactly once however it is cut into chunks, and one whose document
\* goes over the limit is not stored.
THEOREM ResponsesCapturedOnce == Spec => []CapturedOnce
<1>1. Init => CaptureInv
  <2>1. Init => TypeInv
    BY InitType
  <2> QED BY <2>1 DEF Init, CaptureInv, Progress
<1>2. CaptureInv => CapturedOnce
  <2> SUFFICES ASSUME CaptureInv, NEW f \in Flows, pc[f] = "done", doc[f] # None
               PROVE  /\ writes[f] <= 1
                      /\ got[f] = doc[f].len /\ doc[f].len <= MaxBody =>
                            (writes[f] = 1) = (doc[f].event # None)
                      /\ doc[f].json > MaxBody => writes[f] = 0
    BY DEF CapturedOnce
  <2>1. /\ doc[f].json \in Nat /\ doc[f].len \in Nat /\ doc[f].json <= doc[f].len
        /\ writes[f] \in Nat /\ got[f] \in Nat /\ MaxBody \in Nat
    BY RoutingAssumption DEF CaptureInv, TypeInv, TypeOK, Docs
  <2>2. pending[f] = <<>> /\ Len(pending[f]) = 0
    BY DEF CaptureInv, TypeInv, Shape
  <2>3. CASE Seeking(f)
    BY <2>1, <2>3 DEF Seeking
  <2>4. CASE Overflowed(f)
    BY <2>1, <2>4 DEF Overflowed
  <2>5. CASE Settled(f)
    BY <2>1, <2>2, <2>5 DEF Settled
  <2> QED BY <2>3, <2>4, <2>5 DEF CaptureInv, Progress
<1> QED BY <1>1, <1>2, CaptureStep, PTL DEF Spec

-----------------------------------------------------------------------------
(* The map and the hooks implement TaskRoutes.                             *)

Routes == [t \in TaskIds |-> IF Live(tasks[t]) THEN tasks[t] ELSE None]
Wanted == [f \in Flows |-> IF pc[f] = "lookup" THEN task[f] ELSE None]
Answer == [f \in Flows |-> IF pc[f] = "recheck" THEN "miss" ELSE decision[f]]

Asking == <<Wanted, Answer>>
Telling == <<cluster, pending, expires>>

\* A step of the abstract table, or one it does not see
AbsStep == Promise!AbsNext \/ UNCHANGED <<Routes, now, Asking, Telling>>

LEMMA RequestRefines ==
    ASSUME RouteInv, NEW f \in Flows, OnRequestBody(f)
    PROVE  Promise!Ask(f)
<1>1. PICK t \in TaskIds \cup {None} :
          /\ task' = [task EXCEPT ![f] = t]
          /\ pc' = [pc EXCEPT ![f] = IF t # None THEN "lookup" ELSE "forward"]
  BY DEF OnRequestBody
<1>2. /\ pc[f] = "idle" /\ cluster[f] = None
      /\ decision' = [decision EXCEPT ![f] = None]
      /\ UNCHANGED <<tasks, now, Telling>>
  BY DEF OnRequestBody, store, response, Telling, RouteInv, TypeInv, Shape
<1>3. Wanted[f] = None /\ Wanted' = [Wanted EXCEPT ![f] = t]
  BY <1>1, <1>2 DEF Wanted, RouteInv, TypeInv, TypeOK
<1>4. Answer' = [Answer EXCEPT ![f] = None]
  BY <1>1, <1>2 DEF Answer, RouteInv, TypeInv, TypeOK
<1>5. Routes' = Routes
  BY <1>2 DEF Routes, Live
<1> QED BY <1>2, <1>3, <1>4, <1>5
        DEF Promise!Ask, Promise!telling, Routes, Wanted, Answer, Telling

LEMMA LookupRefines ==
    ASSUME RouteInv, NEW f \in Flows, LookupRead(f)
    PROVE  Promise!Lookup(f)
<1>0. PICK t \in TaskIds : t = task[f]
  BY DEF LookupRead, RouteInv, TypeInv, Shape
<1> DEFINE said == IF Routes[t] = None THEN "miss" ELSE Routes[t].cluster
<1>1. /\ pc[f] = "lookup" /\ t \in TaskIds /\ tasks[t] \in Route \cup {None}
      /\ UNCHANGED <<tasks, now, task, Telling>>
  BY <1>0 DEF LookupRead, store, response, Telling, RouteInv, TypeInv, TypeOK, Shape
<1>2. \A g \in Flows : g # f => pc'[g] = pc[g] /\ decision'[g] = decision[g]
  BY DEF LookupRead, RouteInv, TypeInv, TypeOK
<1>3. Answer'[f] = said /\ pc'[f] # "lookup"
  <2>1. pc' \in [Flows -> Steps] /\ Routes[t] = IF Live(tasks[t]) THEN tasks[t] ELSE None
    BY <1>1, RequestType DEF Routes, RouteInv, TypeInv, TypeOK
  <2>2. CASE Live(tasks[t])
    <3>1. Routes[t] # None /\ said = tasks[t].cluster
      BY <2>1, <2>2 DEF Live
    <3>2. decision'[f] = tasks[t].cluster /\ pc'[f] = "forward"
      BY <1>0, <2>2 DEF LookupRead, Live, RouteInv, TypeInv, TypeOK
    <3> QED BY <3>1, <3>2 DEF Answer
  <2>3. CASE ~Live(tasks[t])
    <3>1. said = "miss"
      BY <2>1, <2>3
    <3>2. \/ decision'[f] = "miss" /\ pc'[f] = "forward"
          \/ pc'[f] = "recheck"
      BY <1>0, <2>3 DEF LookupRead, RouteInv, TypeInv, TypeOK
    <3> QED BY <3>1, <3>2 DEF Answer
  <2> QED BY <2>2, <2>3
<1>4. \A g \in Flows : g # f => Answer'[g] = Answer[g]
  BY <1>2 DEF Answer
<1>5. Answer' = [Answer EXCEPT ![f] = said]
  <2> HIDE DEF said
  <2> QED BY <1>3, <1>4 DEF Answer
<1>6. Routes' = Routes
  BY <1>1 DEF Routes, Live
<1>7. Wanted[f] = t /\ t # None /\ Wanted' = [Wanted EXCEPT ![f] = None]
  BY <1>0, <1>1, <1>2, <1>3, NoneAssumption DEF Wanted
<1>8. Answer' = [Answer EXCEPT ![f] =
          IF Routes[Wanted[f]] = None THEN "miss" ELSE Routes[Wanted[f]].cluster]
  BY <1>5, <1>7
<1> QED BY <1>1, <1>6, <1>7, <1>8
        DEF Promise!Lookup, Promise!telling, Routes, Wanted, Answer, Telling

\* The questions and answers of a step that takes no decision and moves no
\* request into or out of a lookup
LEMMA AskingKept ==
    ASSUME RouteInv, NEW f \in Flows, FlowStep(f), decision' = decision,
           pc[f] \notin {"lookup", "recheck"}, pc'[f] \notin {"lookup", "recheck"}
    PROVE  UNCHANGED Asking
<1>1. \A g \in Flows : g # f =>
          pc'[g] = pc[g] /\ (pc[g] = "lookup" => task'[g] = task[g])
  BY OwnStep DEF RouteInv, TypeInv
<1> QED BY <1>1 DEF Asking, Wanted, Answer

LEMMA RecheckRefines ==
    ASSUME RouteInv, NEW f \in Flows, LookupRecheck(f)
    PROVE  UNCHANGED <<Routes, now, Asking, Telling>>
<1>1. /\ pc[f] = "recheck" /\ task[f] \in TaskIds /\ now' = now /\ task' = task
      /\ tasks' = RemovedIfExpired(task[f])
      /\ decision' = [decision EXCEPT ![f] = "miss"]
      /\ pc' = [pc EXCEPT ![f] = "forward"]
      /\ UNCHANGED Telling
  BY DEF LookupRecheck, response, Telling, RouteInv, TypeInv, Shape
<1>2. Routes' = Routes
  BY <1>1 DEF Routes, Live, RemovedIfExpired, RouteInv, TypeInv, TypeOK
<1>3. Answer' = Answer
  BY <1>1 DEF Answer, RouteInv, TypeInv, TypeOK
<1>4. Wanted' = Wanted
  BY <1>1 DEF Wanted, RouteInv, TypeInv, TypeOK
<1> QED BY <1>1, <1>2, <1>3, <1>4 DEF Asking

LEMMA RemoveRefines ==
    ASSUME RouteInv, NEW f \in Flows, Remove(f)
    PROVE  Promise!Withdraw(f)
<1>1. /\ pc[f] = "body" /\ pending[f] # <<>> /\ expires[f] = 0
      /\ Head(pending[f]).terminal
  BY DEF Remove, RouteInv, Fresh
<1>2. PICK t \in TaskIds : t = Head(pending[f]).task
  BY <1>1, HeadTail DEF RouteInv, TypeInv
<1>3. /\ tasks' = [tasks EXCEPT ![t] = None]
      /\ pending' = [pending EXCEPT ![f] = Tail(pending[f])]
      /\ UNCHANGED <<now, pc, task, decision, cluster, expires>>
  BY <1>2 DEF Remove
<1>4. Routes' = [Routes EXCEPT ![Head(pending[f]).task] = None]
  BY <1>2, <1>3 DEF Routes, Live, RouteInv, TypeInv, TypeOK
<1>5. UNCHANGED Asking
  BY <1>3 DEF Asking, Wanted, Answer
<1> QED BY <1>1, <1>3, <1>4, <1>5
        DEF Promise!Withdraw, Promise!TakenUp, Promise!asking, Routes, Asking, Wanted, Answer

LEMMA BeginRefines ==
    ASSUME RouteInv, NEW f \in Flows, PutBegin(f)
    PROVE  Promise!Begin(f)
<1>1. /\ pc[f] = "body" /\ pending[f] # <<>> /\ expires[f] = 0
      /\ expires' = [expires EXCEPT ![f] = now + RouteTtl(Head(pending[f]))]
      /\ pc' = [pc EXCEPT ![f] = "put"]
      /\ UNCHANGED <<tasks, now, decision, cluster, pending>>
  BY DEF PutBegin, store, response, RouteInv, Fresh
<1>2. UNCHANGED Asking
  <2>1. pc[f] \notin {"lookup", "recheck"} /\ pc'[f] \notin {"lookup", "recheck"}
    BY <1>1 DEF RouteInv, TypeInv, TypeOK
  <2> QED BY <1>1, <2>1, AskingKept DEF FlowStep
<1>3. Routes' = Routes
  BY <1>1 DEF Routes, Live
<1> QED BY <1>1, <1>2, <1>3
        DEF Promise!Begin, Promise!asking, RouteTtl, Routes, Asking, Wanted, Answer

LEMMA PutRefines ==
    ASSUME RouteInv, NEW f \in Flows, PutLocked(f)
    PROVE  Promise!Learn(f) \/ Promise!Refuse(f)
<1>0. PICK t \in TaskIds : t = Head(pending[f]).task
  BY PutLockedForm DEF RouteInv
<1> DEFINE r == [cluster |-> cluster[f], expires_at |-> expires[f]]
<1>1. /\ pc[f] = "put" /\ pending[f] # <<>> /\ r \in Route
      /\ tasks' \in [TaskIds -> Route \cup {None}]
      /\ \A u \in TaskIds : u # t => tasks'[u] = Swept[u]
      /\ tasks'[t] = r \/ tasks'[t] = Swept[t]
  BY <1>0, PutLockedForm DEF RouteInv
<1>2. /\ now' = now /\ decision' = decision /\ cluster' = cluster
      /\ pc' = [pc EXCEPT ![f] = "body"]
      /\ pending' = [pending EXCEPT ![f] = Tail(pending[f])]
      /\ expires' = [expires EXCEPT ![f] = 0]
      /\ tasks'[t] = r \/ Swept[t] = None
  BY <1>0, <1>1 DEF PutLocked, Room, RouteInv, TypeInv, TypeOK
<1>3. UNCHANGED Asking
  <2>1. pc[f] \notin {"lookup", "recheck"} /\ pc'[f] \notin {"lookup", "recheck"}
    BY <1>1, <1>2 DEF RouteInv, TypeInv, TypeOK
  <2> QED BY <1>2, <2>1, AskingKept DEF FlowStep
<1>4. \A u \in TaskIds : tasks'[u] = Swept[u] => Routes'[u] = Routes[u]
  <2> SUFFICES ASSUME NEW u \in TaskIds, tasks'[u] = Swept[u] PROVE Routes'[u] = Routes[u]
    OBVIOUS
  <2>1. Swept[u] = tasks[u] \/ (Swept[u] = None /\ ~Live(tasks[u]))
    BY SweptType DEF RouteInv, TypeInv
  <2> QED BY <1>2, <2>1 DEF Routes, Live
<1>5. now < expires[f]
  BY <1>1 DEF RouteInv, Fresh
<1>6. CASE tasks'[t] = r
  <2>1. Routes'[t] = r
    <3>1. r # None
      BY <1>1, NoneAssumption
    <3> QED BY <1>1, <1>2, <1>5, <1>6, <3>1 DEF Routes, Live
  <2> HIDE DEF r
  <2>2. Routes' = [Routes EXCEPT ![t] = r]
    BY <1>1, <1>4, <2>1 DEF Routes
  <2>3. Routes' = [Routes EXCEPT ![Head(pending[f]).task] =
            [cluster |-> cluster[f], expires_at |-> expires[f]]]
    BY <1>0, <2>2 DEF r
  <2> QED BY <1>1, <1>2, <1>3, <1>5, <2>3
          DEF Promise!Learn, Promise!TakenUp, Promise!asking, Routes, Asking, Wanted, Answer
<1>7. CASE Swept[t] = None /\ tasks'[t] # r
  <2>1. Routes' = Routes
    BY <1>1, <1>4, <1>7 DEF Routes
  <2>2. Routes[t] = None
    <3>1. ~Live(tasks[t])
      BY <1>7, SweptType DEF RouteInv, TypeInv, Live
    <3> QED BY <3>1 DEF Routes
  <2> QED BY <1>0, <1>1, <1>2, <1>3, <1>5, <2>1, <2>2
          DEF Promise!Refuse, Promise!TakenUp, Promise!asking, Routes, Asking, Wanted, Answer
<1> QED BY <1>2, <1>6, <1>7

\* The steps of a response that leave the map alone
LEMMA ResponseKept ==
    ASSUME RouteInv, NEW f \in Flows,
           \/ OnResponse(f) \/ PlainChunk(f) \/ SseChunk(f) \/ EndOfBody(f) \/ Finish(f)
           \/ \E n \in 1..MaxDoc : BufferChunk(f, n)
    PROVE  UNCHANGED <<Routes, now, Asking, expires>>
<1>1. /\ UNCHANGED <<tasks, now, decision, expires>>
      /\ pc[f] \notin {"lookup", "recheck"} /\ pc'[f] \notin {"lookup", "recheck"}
  <2> USE DEF RouteInv, TypeInv, TypeOK, store
  <2>1. CASE OnResponse(f) \/ PlainChunk(f) \/ SseChunk(f)
    BY <2>1 DEF OnResponse, PlainChunk, SseChunk
  <2>2. CASE EndOfBody(f) \/ Finish(f)
    BY <2>2 DEF EndOfBody, Finish
  <2>3. CASE \E n \in 1..MaxDoc : BufferChunk(f, n)
    BY <2>3 DEF BufferChunk
  <2> QED BY <2>1, <2>2, <2>3
<1>2. UNCHANGED Asking
  BY <1>1, AskingKept DEF FlowStep
<1>3. Routes' = Routes
  BY <1>1 DEF Routes, Live
<1> QED BY <1>1, <1>2, <1>3

LEMMA OnResponseRefines ==
    ASSUME RouteInv, NEW f \in Flows, OnResponse(f)
    PROVE  Promise!Respond(f) \/ UNCHANGED cluster
<1>1. PICK c \in Clusters, kind \in {"off", "buffer", "sse"} :
          /\ decision[f] \in Clusters => c = decision[f]
          /\ cluster' = [cluster EXCEPT ![f] = IF kind = "off" THEN None ELSE c]
  BY DEF OnResponse, CaptureOf
<1>2. pc[f] = "forward" /\ pending[f] = <<>> /\ cluster[f] = None /\ pending' = pending
  BY DEF OnResponse, RouteInv, TypeInv, Shape
<1>3. UNCHANGED <<Routes, now, Asking, expires>>
  BY ResponseKept
<1>4. CASE kind = "off"
  BY <1>1, <1>2, <1>4 DEF RouteInv, TypeInv, TypeOK
<1>5. CASE kind # "off"
  <2>1. Wanted[f] = None /\ Answer[f] = decision[f]
    BY <1>2 DEF Wanted, Answer
  <2>2. cluster' = [cluster EXCEPT ![f] = c] /\ (Answer[f] \in Clusters => c = Answer[f])
    BY <1>1, <1>5, <2>1
  <2> QED BY <1>2, <1>3, <2>1, <2>2
          DEF Promise!Respond, Promise!asking, Routes, Asking, Wanted, Answer
<1> QED BY <1>4, <1>5

\* A chunk tells of tasks, ends the reading of the response, or neither.
LEMMA ChunkRefines ==
    ASSUME RouteInv, NEW f \in Flows,
           SseChunk(f) \/ \E n \in 1..MaxDoc : BufferChunk(f, n)
    PROVE  \/ Promise!Tell(f) \/ Promise!EndOfResponse(f)
           \/ UNCHANGED <<cluster, pending>>
<1>1. /\ capture[f] # "off" /\ pending[f] = <<>> /\ cluster[f] # None
      /\ pc[f] = "body"
  BY NoneAssumption DEF SseChunk, BufferChunk, RouteInv, TypeInv, Shape
<1>2. UNCHANGED <<Routes, now, Asking, expires>>
  BY ResponseKept
<1>3. TypeOK'
  BY ResponseType, BufferType DEF RouteInv, TypeInv
<1>4. pending'[f] \in Seq([task : TaskIds, terminal : BOOLEAN])
  BY <1>3 DEF TypeOK, Events
<1>5. ASSUME cluster' = cluster, pending' = [pending EXCEPT ![f] = pending'[f]]
      PROVE  Promise!Tell(f)
  BY <1>1, <1>2, <1>4, <1>5
     DEF Promise!Tell, Promise!asking, Routes, Asking, Wanted, Answer
<1>6. ASSUME NEW n \in 1..MaxDoc, BufferChunk(f, n), OverLimit(f, n)
      PROVE  Promise!EndOfResponse(f)
  <2>1. cluster' = [cluster EXCEPT ![f] = None] /\ pending' = pending
    BY <1>6 DEF BufferChunk
  <2> QED BY <1>1, <1>2, <2>1
          DEF Promise!EndOfResponse, Promise!asking, Routes, Asking, Wanted, Answer
<1>7. ASSUME NEW n \in 1..MaxDoc, BufferChunk(f, n), ~OverLimit(f, n)
      PROVE  \/ UNCHANGED <<cluster, pending>>
             \/ cluster' = cluster /\ pending' = [pending EXCEPT ![f] = pending'[f]]
  BY <1>7 DEF BufferChunk, KeptForStore, RouteInv, TypeInv, TypeOK
<1>8. CASE SseChunk(f)
  <2>1. cluster' = cluster /\ pending' = [pending EXCEPT ![f] = pending'[f]]
    BY <1>8 DEF SseChunk, RouteInv, TypeInv, TypeOK
  <2> QED BY <1>5, <2>1
<1> QED BY <1>5, <1>6, <1>7, <1>8

LEMMA EndRefines ==
    ASSUME RouteInv, NEW f \in Flows, EndOfBody(f)
    PROVE  Promise!EndOfResponse(f)
<1>1. /\ pending[f] = <<>> /\ pending' = pending
      /\ cluster' = [cluster EXCEPT ![f] = None]
  BY DEF EndOfBody
<1>2. UNCHANGED <<Routes, now, Asking, expires>>
  BY ResponseKept
<1> QED BY <1>1, <1>2
        DEF Promise!EndOfResponse, Promise!asking, Routes, Asking, Wanted, Answer

LEMMA TickRefines ==
    ASSUME RouteInv, Tick
    PROVE  Promise!Pass
<1>1. /\ now' = now + 1 /\ now \in Nat
      /\ UNCHANGED <<tasks, pc, task, decision, cluster, pending, expires>>
  BY DEF Tick, store, response, RouteInv, TypeInv, TypeOK
<1>2. Routes' = [t \in TaskIds |->
            IF Routes[t] # None /\ now + 1 < Routes[t].expires_at
            THEN Routes[t] ELSE None]
  <2> SUFFICES ASSUME NEW t \in TaskIds
               PROVE  Routes'[t] = IF Routes[t] # None /\ now + 1 < Routes[t].expires_at
                                   THEN Routes[t] ELSE None
    BY DEF Routes
  <2>1. tasks[t] \in Route \cup {None}
    BY DEF RouteInv, TypeInv, TypeOK
  <2> QED BY <1>1, <2>1 DEF Routes, Live, Route
<1>3. Wanted' = Wanted /\ Answer' = Answer
  BY <1>1 DEF Wanted, Answer
<1> QED BY <1>1, <1>2, <1>3
        DEF Promise!Pass, Promise!asking, Promise!telling, Routes, Wanted, Answer

\* The hooks and the store implement the table of TaskRoutes: a request is
\* answered once, for its own task, from the table of one instant; what the
\* response tells is taken up in order and once; and a route holds for all of
\* its time unless a terminal response withdraws it or a later one renews it.
THEOREM StoreKeepsPromise == Spec => KeepsPromise
<1>1. Init => Promise!AbsInit
  BY DEF Init, Promise!AbsInit, Live
<1>2. RouteInv /\ [Next]_vars => AbsStep
  <2> SUFFICES ASSUME RouteInv, [Next]_vars PROVE AbsStep
    OBVIOUS
  <2>1. ASSUME NEW f \in Flows, FlowStep(f) PROVE AbsStep
    <3> USE DEF AbsStep, Promise!AbsNext
    <3>1. CASE OnRequestBody(f)
      BY <3>1, RequestRefines
    <3>2. CASE LookupRead(f)
      BY <3>2, LookupRefines
    <3>3. CASE LookupRecheck(f)
      BY <3>3, RecheckRefines
    <3>4. CASE Remove(f)
      BY <3>4, RemoveRefines
    <3>5. CASE PutBegin(f)
      BY <3>5, BeginRefines
    <3>6. CASE PutLocked(f)
      BY <3>6, PutRefines
    <3>7. CASE OnResponse(f)
      <4>1. pending' = pending
        BY <3>7 DEF OnResponse
      <4> QED BY <3>7, <4>1, OnResponseRefines, ResponseKept DEF Telling
    <3>8. CASE SseChunk(f) \/ \E n \in 1..MaxDoc : BufferChunk(f, n)
      BY <3>8, ChunkRefines, ResponseKept DEF Telling
    <3>9. CASE EndOfBody(f)
      BY <3>9, EndRefines
    <3>10. CASE PlainChunk(f) \/ Finish(f)
      <4>1. UNCHANGED <<cluster, pending>>
        BY <3>10 DEF PlainChunk, Finish
      <4> QED BY <3>10, <4>1, ResponseKept DEF Telling
    <3> QED BY <2>1, <3>1, <3>2, <3>3, <3>4, <3>5, <3>6, <3>7, <3>8, <3>9, <3>10
            DEF FlowStep
  <2>2. CASE Tick
    BY <2>2, TickRefines DEF AbsStep, Promise!AbsNext
  <2>3. CASE Quiesced \/ UNCHANGED vars
    BY <2>3 DEF Quiesced, vars, AbsStep, Asking, Telling, Routes, Wanted, Answer, Live
  <2> QED BY <2>1, <2>2, <2>3 DEF Next
<1>3. AbsStep => [Promise!AbsNext]_(Promise!absVars)
  BY DEF AbsStep, Promise!absVars, Promise!asking, Promise!telling, Asking, Telling,
         Routes, Wanted, Answer
<1> QED BY <1>1, <1>2, <1>3, RouteInvariant, PTL DEF Spec, KeepsPromise, Promise!AbsSpec
=============================================================================
