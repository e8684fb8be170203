---------------------------- MODULE ServiceProofs ----------------------------
(***************************************************************************)
(* Proofs about the conversations service around its write handlers        *)
(* (Service), one subject after the other.                                 *)
(*                                                                         *)
(* ConversationReads: for any tenants, conversations, items and limits and *)
(* any number of writes between the pages, a walk that ends has shown      *)
(* every item that stayed, in order and once.  InputItems: a walk over the *)
(* stored input of a response shows all of it.                             *)
(*                                                                         *)
(* ConversationFilter: for any number of requests, routes and outages, the *)
(* filter serves what is its own and forwards the rest, handles no denied  *)
(* request, opens one store, and with PostgreSQL fails only while the      *)
(* database is down.  Each request is followed on its own: no step of one  *)
(* request moves another one.  What they share is the store, whose cell    *)
(* has its own invariant (StoreInv).                                       *)
(*                                                                         *)
(* StoreConfig: for any deployment and any number of crashes, a store that *)
(* is open has its whole schema, a valid configuration opens at every      *)
(* start, a root certificate is used, and the host that is connected to is *)
(* one that validation looked at.                                          *)
(***************************************************************************)
EXTENDS Service, DataLemmas, SequenceTheorems

-----------------------------------------------------------------------------
(* Reading a conversation                                                  *)

Forms == UNION {{Walk!NormalizeItem(data) : data \in Inputs[i]} : i \in ItemIds}
Row == [tenant : Tenants, conv : Convs, id : ItemIds, position : Nat, data : Forms]

-----------------------------------------------------------------------------
(* Rows in listing order                                                   *)

LEMMA RowFields ==
    ASSUME IdsAndLimits, NEW r \in Row
    PROVE  r.position \in Nat /\ r.id \in Nat \ {0}
<1>1. r.position \in Nat /\ r.id \in ItemIds
  BY DEF Row
<1> QED BY <1>1 DEF IdsAndLimits

\* Rows of one conversation, every id once
OneConversation(rows) ==
    /\ rows \in SUBSET Row /\ IsFiniteSet(rows)
    /\ \A r, s \in rows : r.tenant = s.tenant /\ r.conv = s.conv /\ (r.id = s.id => r = s)

LEMMA BeforeTransitive ==
    ASSUME NEW a, NEW b, NEW c, a.position \in Int, b.position \in Int, c.position \in Int,
           a.id \in Int, b.id \in Int, c.id \in Int, NEW asc \in BOOLEAN,
           Walk!Precedes(a, b, asc), Walk!Precedes(b, c, asc)
    PROVE  Walk!Precedes(a, c, asc)
<1> DEFINE ap == a.position
           bp == b.position
           cp == c.position
           ai == a.id
           bi == b.id
           ci == c.id
<1>1. CASE asc
  <2>1. (ap < bp \/ (ap = bp /\ ai < bi)) /\ (bp < cp \/ (bp = cp /\ bi < ci))
    BY <1>1 DEF Walk!Precedes, Walk!Before
  <2>2. ap < cp \/ (ap = cp /\ ai < ci)
    BY <2>1
  <2> QED BY <1>1, <2>2 DEF Walk!Precedes, Walk!Before
<1>2. CASE ~asc
  <2>1. (bp < ap \/ (bp = ap /\ bi < ai)) /\ (cp < bp \/ (cp = bp /\ ci < bi))
    BY <1>2 DEF Walk!Precedes, Walk!Before
  <2>2. cp < ap \/ (cp = ap /\ ci < ai)
    BY <2>1
  <2> QED BY <1>2, <2>2 DEF Walk!Precedes, Walk!Before
<1> QED BY <1>1, <1>2

LEMMA BeforeTotal ==
    ASSUME NEW a, NEW b, a.position \in Int, b.position \in Int, a.id \in Int, b.id \in Int,
           NEW asc \in BOOLEAN
    PROVE  /\ ~Walk!Precedes(a, a, asc)
           /\ a.id = b.id \/ Walk!Precedes(a, b, asc) \/ Walk!Precedes(b, a, asc)
<1> DEFINE ap == a.position
           bp == b.position
           ai == a.id
           bi == b.id
<1>1. ~(ap < ap \/ (ap = ap /\ ai < ai))
  OBVIOUS
<1>2. ai = bi \/ (ap < bp \/ (ap = bp /\ ai < bi)) \/ (bp < ap \/ (bp = ap /\ bi < ai))
  OBVIOUS
<1> QED BY <1>1, <1>2 DEF Walk!Precedes, Walk!Before

LEMMA SameCardinality == \A S : Walk!Cardinality(S) = Cardinality(S)
BY DEF Walk!Cardinality, Cardinality

\* The listing of a conversation exists, and nothing is missing from it
LEMMA InOrderLists ==
    ASSUME IdsAndLimits, NEW rows, OneConversation(rows), NEW asc \in BOOLEAN
    PROVE  /\ Cardinality(rows) \in Nat
           /\ Walk!InOrder(rows, asc) \in [1..Cardinality(rows) -> rows]
           /\ Walk!Sorted(Walk!InOrder(rows, asc), asc)
           /\ \A r \in rows : \E i \in 1..Cardinality(rows) : Walk!InOrder(rows, asc)[i] = r
<1> DEFINE R == {p \in rows \X rows : Walk!Precedes(p[1], p[2], asc)}
<1>1. \A r \in rows : r.position \in Int /\ r.id \in Int
  BY RowFields DEF OneConversation
<1>2. \A r, s \in rows : <<r, s>> \in R <=> Walk!Precedes(r, s, asc)
  OBVIOUS
<1> HIDE DEF R
<1>3. TotalOrder(R, rows)
  <2>1. \A r \in rows : <<r, r>> \notin R
    BY <1>1, <1>2, BeforeTotal
  <2>2. ASSUME NEW r \in rows, NEW s \in rows, NEW u \in rows, <<r, s>> \in R, <<s, u>> \in R
        PROVE  <<r, u>> \in R
    <3>1. Walk!Precedes(r, s, asc) /\ Walk!Precedes(s, u, asc)
      BY <1>2, <2>2
    <3>2. Walk!Precedes(r, u, asc)
      BY <1>1, <3>1, BeforeTransitive
    <3> QED BY <1>2, <3>2
  <2>3. ASSUME NEW r \in rows, NEW s \in rows
        PROVE  r = s \/ <<r, s>> \in R \/ <<s, r>> \in R
    <3>1. r.id = s.id \/ Walk!Precedes(r, s, asc) \/ Walk!Precedes(s, r, asc)
      BY <1>1, BeforeTotal
    <3> QED BY <1>2, <3>1 DEF OneConversation
  <2> QED BY <2>1, <2>2, <2>3 DEF TotalOrder
<1>4. IsFiniteSet(rows)
  BY DEF OneConversation
<1>5. \E s : Lists(s, rows, R)
  BY <1>3, <1>4, ListingExists
<1>6. PICK t : Lists(t, rows, R)
  BY <1>5
<1>7. t \in [1..Cardinality(rows) -> rows] /\ Walk!Sorted(t, asc)
  BY <1>2, <1>6 DEF Lists, Walk!Sorted
<1> DEFINE L == Walk!InOrder(rows, asc)
<1>8. L \in [1..Cardinality(rows) -> rows] /\ Walk!Sorted(L, asc)
  BY <1>7, SameCardinality DEF Walk!InOrder
<1>9. Lists(L, rows, R)
  <2> HIDE DEF L
  <2> QED BY <1>2, <1>8 DEF Lists, Walk!Sorted
<1>10. \A r \in rows : \E i \in 1..Cardinality(rows) : L[i] = r
  <2> HIDE DEF L
  <2> QED BY <1>3, <1>4, <1>9, ListingComplete
<1> QED BY <1>4, <1>8, <1>10, FS_CardinalityType

-----------------------------------------------------------------------------
(* Pages                                                                   *)

LEMMA LimitClamped ==
    ASSUME IdsAndLimits, NEW p, p.limit \in Int
    PROVE  Walk!EffectiveLimit(p) \in 1..MaxLimit
             /\ Walk!FetchLimit(p) = Walk!EffectiveLimit(p) + 1
BY DEF Walk!EffectiveLimit, Walk!FetchLimit, IdsAndLimits

\* What Limited leaves of a sequence
LEMMA LimitedIs ==
    ASSUME NEW S, NEW s \in Seq(S), NEW n \in Nat
    PROVE  LET m == IF n < Len(s) THEN n ELSE Len(s) IN
           /\ Walk!Limited(s, n) \in Seq(S) /\ Len(Walk!Limited(s, n)) = m
           /\ \A i \in 1..m : Walk!Limited(s, n)[i] = s[i]
<1> DEFINE m == IF n < Len(s) THEN n ELSE Len(s)
<1>1. Walk!Limited(s, n) = SubSeq(s, 1, m) /\ m \in Nat /\ m <= Len(s)
  BY DEF Walk!Limited
<1> HIDE DEF m
<1>2. \A i \in 1..m : s[i] \in S
  BY <1>1
<1>3. SubSeq(s, 1, m) \in Seq(S) /\ Len(SubSeq(s, 1, m)) = m
      /\ \A i \in 1..m : SubSeq(s, 1, m)[i] = s[i]
  BY <1>1, <1>2, SubSeqProperties
<1> QED BY <1>1, <1>3 DEF m

\* A page holds the first rows of the listing, and has more exactly when rows
\* are left, which then come after it
LEMMA PageListed ==
    ASSUME IdsAndLimits, NEW rows, OneConversation(rows),
           NEW p, p.limit \in Int, p.ascending \in BOOLEAN,
           NEW fetched, fetched = Walk!Limited(Walk!InOrder(rows, p.ascending),
             Walk!FetchLimit(p)),
           NEW page, page = Walk!Limited(fetched, Walk!EffectiveLimit(p))
    PROVE  /\ page \in Seq(rows) /\ Len(page) <= MaxLimit
           /\ Walk!Sorted(page, p.ascending)
           /\ Walk!HasMore(fetched, p) => page # <<>>
           /\ \A r \in rows : \/ r \in Walk!ToSet(page)
                              \/ Walk!HasMore(fetched, p)
                                   /\ Walk!Precedes(Walk!Last(page), r, p.ascending)
<1> DEFINE asc == p.ascending
           m == Walk!EffectiveLimit(p)
           n == Cardinality(rows)
           L == Walk!InOrder(rows, asc)
<1>1. m \in Nat /\ m >= 1 /\ m <= MaxLimit /\ Walk!FetchLimit(p) = m + 1 /\ MaxLimit \in Nat
  BY LimitClamped DEF IdsAndLimits
<1>2. /\ n \in Nat /\ L \in [1..n -> rows] /\ Walk!Sorted(L, asc)
      /\ \A r \in rows : \E i \in 1..n : L[i] = r
  BY InOrderLists
<1> HIDE DEF asc, m, n, L
<1>3. L \in Seq(rows) /\ Len(L) = n
  BY <1>2
<1>4. fetched \in Seq(rows) /\ Len(fetched) = (IF m + 1 < n THEN m + 1 ELSE n)
      /\ \A i \in 1..Len(fetched) : fetched[i] = L[i]
  <2>1. fetched = Walk!Limited(L, m + 1) /\ m + 1 \in Nat
    BY <1>1 DEF L, asc
  <2> QED BY <1>3, <2>1, LimitedIs
<1>5. page \in Seq(rows) /\ Len(page) = (IF m < n THEN m ELSE n)
      /\ \A i \in 1..Len(page) : page[i] = L[i]
  <2>1. page = Walk!Limited(fetched, m)
    BY DEF m
  <2>2. /\ page \in Seq(rows) /\ Len(page) = (IF m < Len(fetched) THEN m ELSE Len(fetched))
        /\ \A i \in 1..(IF m < Len(fetched) THEN m ELSE Len(fetched)) : page[i] = fetched[i]
    BY <1>1, <1>4, <2>1, LimitedIs
  <2>3. Len(page) = (IF m < n THEN m ELSE n)
    BY <1>1, <1>2, <1>4, <2>2
  <2>4. \A i \in 1..Len(page) : i \in 1..Len(fetched)
    BY <1>1, <1>2, <1>4, <2>2
  <2> QED BY <1>4, <2>2, <2>3, <2>4
<1>6. Walk!HasMore(fetched, p) <=> n > m
  BY <1>1, <1>2, <1>4 DEF Walk!HasMore, m
<1>7. Len(page) <= MaxLimit
  BY <1>1, <1>2, <1>5
<1>8. Walk!Sorted(page, asc)
  <2>1. \A i \in DOMAIN page : i \in 1..Len(page) /\ i \in DOMAIN L
    BY <1>1, <1>2, <1>5
  <2> QED BY <1>2, <1>5, <2>1 DEF Walk!Sorted
<1>9. Walk!HasMore(fetched, p) => Len(page) = m /\ page # <<>>
  BY <1>1, <1>2, <1>5, <1>6
<1>10. ASSUME NEW r \in rows
       PROVE  r \in Walk!ToSet(page) \/ (Walk!HasMore(fetched, p)
                /\ Walk!Precedes(Walk!Last(page), r, asc))
  <2>1. PICK i \in 1..n : L[i] = r
    BY <1>2
  <2>2. CASE i <= m
    <3>1. i \in 1..Len(page)
      BY <1>1, <1>2, <1>5, <2>2
    <3>2. i \in DOMAIN page /\ page[i] = r
      BY <1>5, <2>1, <3>1
    <3> QED BY <3>2 DEF Walk!ToSet
  <2>3. CASE i > m
    <3>1. n > m /\ m \in 1..n /\ m < i /\ Len(page) = m /\ m \in 1..Len(page)
      BY <1>1, <1>2, <1>5, <2>3
    <3>2. Walk!Last(page) = L[m]
      BY <1>5, <3>1 DEF Walk!Last
    <3>3. Walk!Precedes(L[m], L[i], asc)
      BY <1>2, <3>1 DEF Walk!Sorted
    <3> QED BY <1>6, <2>1, <3>1, <3>2, <3>3
  <2> QED BY <1>1, <1>2, <2>2, <2>3
<1> QED BY <1>5, <1>7, <1>8, <1>9, <1>10 DEF asc

\* What is appended to a sequence
LEMMA Appended ==
    ASSUME NEW S, NEW s \in Seq(S), NEW t \in Seq(S)
    PROVE  /\ s \o t \in Seq(S)
           /\ \A r : r \in Walk!ToSet(s \o t) <=> r \in Walk!ToSet(s) \/ r \in Walk!ToSet(t)
           /\ t = <<>> => s \o t = s
           /\ t # <<>> => s \o t # <<>> /\ Walk!Last(s \o t) = Walk!Last(t)
<1>1. /\ Len(s) \in Nat /\ Len(t) \in Nat /\ DOMAIN s = 1..Len(s) /\ DOMAIN t = 1..Len(t)
      /\ s \o t \in Seq(S) /\ Len(s \o t) = Len(s) + Len(t)
      /\ DOMAIN (s \o t) = 1..(Len(s) + Len(t))
  OBVIOUS
<1>2. \A i \in 1..Len(s) : i \in DOMAIN (s \o t) /\ (s \o t)[i] = s[i]
  BY <1>1
<1>3. \A i \in 1..Len(t) : Len(s) + i \in DOMAIN (s \o t) /\ (s \o t)[Len(s) + i] = t[i]
  BY <1>1
<1>4. \A i \in DOMAIN (s \o t) :
          \/ i \in 1..Len(s) /\ (s \o t)[i] = s[i]
          \/ i - Len(s) \in 1..Len(t) /\ (s \o t)[i] = t[i - Len(s)]
  BY <1>1
<1> DEFINE u == s \o t
<1> HIDE DEF u
<1>5. \A r \in Walk!ToSet(u) : r \in Walk!ToSet(s) \/ r \in Walk!ToSet(t)
  BY <1>1, <1>4 DEF Walk!ToSet, u
<1>6. \A r \in Walk!ToSet(s) : r \in Walk!ToSet(u)
  BY <1>1, <1>2 DEF Walk!ToSet, u
<1>7. \A r \in Walk!ToSet(t) : r \in Walk!ToSet(u)
  BY <1>1, <1>3 DEF Walk!ToSet, u
<1>8. t = <<>> => u = s
  BY ConcatEmptySeq DEF u
<1>9. t # <<>> => u # <<>> /\ Walk!Last(u) = Walk!Last(t)
  <2> SUFFICES ASSUME t # <<>> PROVE u # <<>> /\ Walk!Last(u) = Walk!Last(t)
    OBVIOUS
  <2>1. Len(t) \in 1..Len(t) /\ Len(u) = Len(s) + Len(t) /\ u \in Seq(S) /\ Len(u) > 0
    BY <1>1 DEF u
  <2> QED BY <1>3, <2>1 DEF Walk!Last, u
<1> QED BY <1>1, <1>5, <1>6, <1>7, <1>8, <1>9 DEF u

\* Sequences in order, the second after the first
LEMMA SortedAppended ==
    ASSUME IdsAndLimits, NEW s \in Seq(Row), NEW t \in Seq(Row), NEW asc \in BOOLEAN,
           Walk!Sorted(s, asc), Walk!Sorted(t, asc),
           s = <<>> \/ \A r \in Walk!ToSet(t) : Walk!Precedes(Walk!Last(s), r, asc)
    PROVE  Walk!Sorted(s \o t, asc)
<1>1. /\ Len(s) \in Nat /\ Len(t) \in Nat /\ DOMAIN s = 1..Len(s) /\ DOMAIN t = 1..Len(t)
      /\ DOMAIN (s \o t) = 1..(Len(s) + Len(t))
      /\ \A i \in DOMAIN (s \o t) :
          \/ i \in 1..Len(s) /\ (s \o t)[i] = s[i]
          \/ i > Len(s) /\ i - Len(s) \in 1..Len(t) /\ (s \o t)[i] = t[i - Len(s)]
  OBVIOUS
<1> SUFFICES ASSUME NEW i \in DOMAIN (s \o t), NEW j \in DOMAIN (s \o t), i < j
             PROVE  Walk!Precedes((s \o t)[i], (s \o t)[j], asc)
  BY DEF Walk!Sorted
<1> DEFINE u == s \o t
<1> HIDE DEF u
<1>2. CASE j <= Len(s)
  <2>1. i \in DOMAIN s /\ j \in DOMAIN s /\ u[i] = s[i] /\ u[j] = s[j]
    BY <1>1, <1>2 DEF u
  <2> QED BY <2>1 DEF Walk!Sorted, u
<1>3. CASE i > Len(s)
  <2>1. /\ i - Len(s) \in DOMAIN t /\ j - Len(s) \in DOMAIN t /\ i - Len(s) < j - Len(s)
        /\ u[i] = t[i - Len(s)] /\ u[j] = t[j - Len(s)]
    BY <1>1, <1>3 DEF u
  <2>2. Walk!Precedes(t[i - Len(s)], t[j - Len(s)], asc)
    BY <2>1 DEF Walk!Sorted
  <2> QED BY <2>1, <2>2 DEF u
<1>4. CASE i <= Len(s) /\ j > Len(s)
  <2>1. /\ i \in DOMAIN s /\ Len(s) \in DOMAIN s /\ s # <<>> /\ u[i] = s[i]
        /\ j - Len(s) \in DOMAIN t /\ u[j] = t[j - Len(s)] /\ u[j] \in Walk!ToSet(t)
    BY <1>1, <1>4 DEF Walk!ToSet, u
  <2>2. Walk!Precedes(s[Len(s)], u[j], asc)
    BY <2>1 DEF Walk!Last
  <2>3. i = Len(s) \/ Walk!Precedes(s[i], s[Len(s)], asc)
    BY <1>1, <2>1 DEF Walk!Sorted
  <2>4. s[i] \in Row /\ s[Len(s)] \in Row /\ u[j] \in Row
    BY <1>1, <2>1
  <2>5. s[i].position \in Int /\ s[i].id \in Int /\ u[j].position \in Int /\ u[j].id \in Int
        /\ s[Len(s)].position \in Int /\ s[Len(s)].id \in Int
    BY <2>4, RowFields
  <2>6. CASE i = Len(s)
    BY <2>1, <2>2, <2>6 DEF u
  <2>7. CASE Walk!Precedes(s[i], s[Len(s)], asc)
    <3>1. Walk!Precedes(s[i], u[j], asc)
      BY <2>2, <2>5, <2>7, BeforeTransitive
    <3> QED BY <2>1, <3>1 DEF u
  <2> QED BY <2>3, <2>6, <2>7
<1> QED BY <1>1, <1>2, <1>3, <1>4

-----------------------------------------------------------------------------
(* The invariant                                                           *)

\* Items of a conversation have ids of their own
StoredSoundly ==
    /\ items \in SUBSET Row /\ IsFiniteSet(items) /\ \A r \in items : r.data # Bad
    /\ \A r, s \in items : r.tenant = s.tenant /\ r.conv = s.conv /\ r.id = s.id => r = s

Walking == {"asked", "position", "list", "answered", "done", "not_found"}
WalkRecord ==
    [state : Walking, tenant : Tenants, conv : Convs,
     params : [limit : Int, ascending : BOOLEAN], cursor : Nat, position : Nat,
     page : Seq(Row), more : BOOLEAN, got : Seq(Row), lost : BOOLEAN]

TypeOK ==
    \/ walk = Walk!NoWalk
    \/ walk.state \in {"item", "item_not_found"} /\ Walk!TenantsApart
    \/ walk \in WalkRecord

IsMine(r) == r.tenant = walk.tenant /\ r.conv = walk.conv

\* What the client has, or has on its way
Seen == IF walk.state = "answered" THEN walk.got \o walk.page ELSE walk.got

\* The rows of the walk are those of its conversation, and a page is as promised
RowsMine ==
    /\ \A r \in Walk!ToSet(walk.got) : IsMine(r)
    /\ \A r \in steady : IsMine(r) /\ r \in items
    /\ walk.state = "answered" =>
        /\ \A r \in Walk!ToSet(walk.page) : IsMine(r)
        /\ walk.more => walk.page # <<>>
        /\ Len(walk.page) <= MaxLimit

\* The cursor is the last item the client has
CursorAtLast ==
    /\ walk.state \in {"asked", "position", "list"} =>
          IF walk.cursor = 0 THEN walk.got = <<>>
          ELSE walk.got # <<>> /\ walk.cursor = Walk!Last(walk.got).id
    /\ walk.state = "position" => walk.cursor # 0
    /\ walk.state = "list" /\ walk.cursor # 0 /\ ~walk.lost =>
          walk.position = Walk!Last(walk.got).position

\* A steady item is among those seen, or after them and on a page to come
StillAhead ==
    /\ walk.state # "done"
    /\ walk.state = "answered" => walk.more
NothingSkipped ==
    ~walk.lost =>
        /\ Walk!Sorted(Seen, walk.params.ascending)
        /\ \A r \in steady :
            \/ r \in Walk!ToSet(Seen)
            \/ /\ StillAhead
               /\ Seen = <<>> \/ Walk!Precedes(Walk!Last(Seen), r, walk.params.ascending)

WalkInv ==
    /\ walk.state \notin Walking => steady = {}
    /\ walk.state \in Walking => RowsMine /\ CursorAtLast /\ NothingSkipped

Inv == StoredSoundly /\ TypeOK /\ WalkInv

-----------------------------------------------------------------------------
(* Items                                                                   *)

LEMMA NormalizedForm ==
    ASSUME ItemsTyped, NEW f \in Forms, f # Bad
    PROVE  Walk!NormalizeItem(f) = f
<1> PICK i \in ItemIds : f \in {Walk!NormalizeItem(data) : data \in Inputs[i]}
  BY DEF Forms
<1>1. PICK d \in Inputs[i] : f = Walk!NormalizeItem(d)
  OBVIOUS
<1>2. CASE d = Bad
  BY <1>1, <1>2 DEF Walk!NormalizeItem
<1>3. CASE d # Bad /\ d.type # "message"
  <2>1. f = d
    BY <1>1, <1>3 DEF Walk!NormalizeItem
  <2> QED BY <1>3, <2>1 DEF Walk!NormalizeItem
<1>4. CASE d # Bad /\ d.type = "message"
  <2> DEFINE c == Walk!NormalizeContent(d.role, d.content)
             e == [d EXCEPT !.content = Walk!NormalizeContent(d.role, @),
               !.status = Walk!StatusOf(d)]
  <2>1. d \in [type : STRING, role : STRING, content : STRING, status : STRING]
    BY <1>4 DEF ItemsTyped
  <2>2. f = e /\ ~(d.role \in {"absent", "empty", "number"}) /\ c # Bad
    BY <1>1, <1>4 DEF Walk!NormalizeItem
  <2>3. e.type = d.type /\ e.role = d.role /\ e.content = c /\ e.status = Walk!StatusOf(d)
    BY <2>1
  <2>4. e \in [type : STRING, role : STRING, content : {c}, status : {Walk!StatusOf(d)}]
    BY <2>1
  <2>5. c \in {"input_text", "output_text"} /\ Walk!NormalizeContent(d.role, c) = c
    BY <2>2 DEF Walk!NormalizeContent
  <2>6. Walk!StatusOf(e) = Walk!StatusOf(d)
    BY <2>3 DEF Walk!StatusOf
  <2> HIDE DEF c, e
  <2>7. [e EXCEPT !.content = Walk!NormalizeContent(e.role, @), !.status = Walk!StatusOf(e)] = e
    <3>1. Walk!NormalizeContent(e.role, e.content) = e.content /\ Walk!StatusOf(e) = e.status
      BY <2>3, <2>5, <2>6
    <3> QED BY <2>4, <3>1
  <2>8. e # Bad /\ e.type = "message"
    BY <1>4, <2>2, <2>3
  <2>9. Walk!NormalizeContent(e.role, e.content) # Bad
          /\ ~(e.role \in {"absent", "empty", "number"})
    BY <2>2, <2>3, <2>5
  <2>10. Walk!NormalizeItem(e) = e
    BY <2>7, <2>8, <2>9 DEF Walk!NormalizeItem
  <2> QED BY <2>2, <2>10
<1> QED BY <1>2, <1>3, <1>4

\* A new item has a position, and an id that its conversation has not
LEMMA ItemCreated ==
    ASSUME IdsAndLimits, ItemsTyped, StoredSoundly, NEW t \in Tenants, NEW c \in Convs,
           NEW i \in ItemIds, NEW data \in Inputs[i], Walk!CreateItem(t, c, i, data)
    PROVE  StoredSoundly' /\ \A r \in items : r \in items'
<1> DEFINE P == {0} \cup {r.position : r \in Walk!RowsOf(t, c)}
           top == Walk!MaxItemPosition(t, c)
<1>1. top \in Nat
  <2>1. IsFiniteSet(Walk!RowsOf(t, c))
    BY FS_Subset DEF Walk!RowsOf, StoredSoundly
  <2>2. IsFiniteSet({r.position : r \in Walk!RowsOf(t, c)})
    <3> DEFINE f == [r \in Walk!RowsOf(t, c) |-> r.position]
    <3>1. f \in Surjection(Walk!RowsOf(t, c), {r.position : r \in Walk!RowsOf(t, c)})
      BY DEF Surjection
    <3> QED BY <2>1, <3>1, FS_Surjection
  <2>3. IsFiniteSet(P)
    BY <2>2, FS_Union, FS_Singleton
  <2>4. \A r \in Walk!RowsOf(t, c) : r.position \in Nat
    BY RowFields DEF Walk!RowsOf, StoredSoundly
  <2>5. P \in SUBSET Int /\ P # {} /\ \A x \in P : x \in Nat
    BY <2>4
  <2>6. top = Max(P)
    BY DEF Walk!MaxItemPosition, Walk!Max, Max
  <2> HIDE DEF P
  <2>7. Max(P) \in P
    BY <2>3, <2>5, FiniteMax
  <2> QED BY <2>5, <2>6, <2>7
<1> HIDE DEF top
<1>2. PICK position \in 1..(top + 1) :
        items' = items \cup {[tenant |-> t, conv |-> c, id |-> i, position |-> position,
                              data |-> Walk!NormalizeItem(data)]}
  BY DEF Walk!CreateItem, top
<1> DEFINE new == [tenant |-> t, conv |-> c, id |-> i, position |-> position,
                   data |-> Walk!NormalizeItem(data)]
<1>3. new \in Row /\ new.data # Bad
  <2>1. Walk!NormalizeItem(data) \in Forms /\ Walk!NormalizeItem(data) # Bad /\ position \in Nat
    BY <1>1, <1>2 DEF Walk!CreateItem, Forms
  <2> QED BY <2>1 DEF Row
<1>4. \A r \in items : ~(r.tenant = t /\ r.conv = c /\ r.id = i)
  BY DEF Walk!CreateItem, Walk!ExistingItemIds, Walk!RowsOf
<1>5. new.tenant = t /\ new.conv = c /\ new.id = i
  OBVIOUS
<1>6. items' = items \cup {new}
  BY <1>2
<1> HIDE DEF new
<1>7. IsFiniteSet(items \cup {new})
  BY FS_AddElement DEF StoredSoundly
<1> QED BY <1>3, <1>4, <1>5, <1>6, <1>7 DEF StoredSoundly

LEMMA ItemDeleted ==
    ASSUME StoredSoundly, NEW t, NEW c, NEW i, Walk!DeleteItem(t, c, i)
    PROVE  /\ StoredSoundly' /\ steady' \subseteq steady
           /\ \A r \in steady' : r \in items => r \in items'
<1>1. items' = items \ Walk!DeletedRows(t, c, i)
      /\ steady' = {r \in steady : <<r.tenant, r.conv, r.id>> # <<t, c, i>>}
  BY DEF Walk!DeleteItem
<1>2. IsFiniteSet(items')
  BY <1>1, FS_Subset DEF StoredSoundly
<1>3. \A r \in steady' : r \notin Walk!DeletedRows(t, c, i)
  BY <1>1 DEF Walk!DeletedRows
<1> QED BY <1>1, <1>2, <1>3 DEF StoredSoundly

\* What others write disturbs no walk
LEMMA WritesKeep ==
    ASSUME Inv, StoredSoundly', walk' = walk, steady' \subseteq steady,
           \A r \in steady' : r \in items'
    PROVE  Inv'
<1>1. TypeOK'
  BY DEF Inv, TypeOK, Walk!TenantsApart
<1>2. Seen' = Seen /\ (StillAhead' <=> StillAhead) /\ (CursorAtLast' <=> CursorAtLast)
      /\ \A r : IsMine(r)' <=> IsMine(r)
  BY DEF Seen, StillAhead, CursorAtLast, IsMine
<1>3. walk.state \notin Walking => steady' = {}
  BY DEF Inv, WalkInv
<1>4. ASSUME walk.state \in Walking PROVE (RowsMine /\ CursorAtLast /\ NothingSkipped)'
  <2>1. RowsMine /\ CursorAtLast /\ NothingSkipped
    BY <1>4 DEF Inv, WalkInv
  <2>2. RowsMine'
    BY <1>2, <2>1 DEF RowsMine
  <2>3. NothingSkipped'
    BY <1>2, <2>1 DEF NothingSkipped
  <2> QED BY <1>2, <2>1, <2>2, <2>3
<1> QED BY <1>1, <1>3, <1>4 DEF Inv, WalkInv

-----------------------------------------------------------------------------
(* The steps of a walk                                                     *)

LEMMA RowsOfConversation ==
    ASSUME StoredSoundly, NEW t, NEW c, NEW rows \in SUBSET Walk!RowsOf(t, c)
    PROVE  OneConversation(rows)
<1>1. rows \in SUBSET items /\ rows \in SUBSET Row /\ IsFiniteSet(rows)
  <2>1. rows \in SUBSET items
    BY DEF Walk!RowsOf
  <2> QED BY <2>1, FS_Subset DEF StoredSoundly
<1> QED BY <1>1 DEF OneConversation, Walk!RowsOf, StoredSoundly

LEMMA BeginStep ==
    ASSUME IdsAndLimits, Inv, NEW t \in Tenants, NEW c \in Convs, Walk!Begin(t, c)
    PROVE  Inv'
<1>1. PICK q \in Queries :
        walk' = [state |-> "asked", tenant |-> t, conv |-> c, params |-> Walk!ListParams(q),
                 cursor |-> 0, position |-> 0, page |-> <<>>, more |-> FALSE, got |-> <<>>,
                 lost |-> FALSE]
  BY DEF Walk!Begin
<1>2. Walk!ListParams(q) \in [limit : Int, ascending : BOOLEAN]
  BY DEF Walk!ListParams, IdsAndLimits
<1>3. walk' \in WalkRecord'
  <2>1. <<>> \in Seq(Row)
    BY EmptySeq
  <2> QED BY <1>1, <1>2, <2>1 DEF WalkRecord, Walking
<1>4. /\ walk'.state = "asked" /\ walk'.tenant = t /\ walk'.conv = c /\ walk'.got = <<>>
      /\ walk'.cursor = 0
  BY <1>1
<1>5. items' = items /\ steady' = Walk!RowsOf(t, c)
  BY DEF Walk!Begin
<1>6. StoredSoundly'
  BY <1>5 DEF Inv, StoredSoundly
<1>7. RowsMine' /\ CursorAtLast'
  BY <1>4, <1>5 DEF RowsMine, CursorAtLast, IsMine, Walk!RowsOf, Walk!ToSet
<1>8. Seen' = <<>> /\ StillAhead'
  BY <1>4 DEF Seen, StillAhead
<1>9. NothingSkipped'
  BY <1>8 DEF NothingSkipped, Walk!Sorted
<1> QED BY <1>3, <1>4, <1>6, <1>7, <1>9 DEF Inv, TypeOK, WalkInv, Walking

LEMMA GetItemStep ==
    ASSUME Inv, NEW t \in Tenants, NEW c \in Convs, NEW i \in ItemIds, Walk!GetItem(t, c, i)
    PROVE  Inv'
<1> DEFINE found == Walk!ConversationItem(t, c, i)
<1>1. /\ walk'.state \in {"item", "item_not_found"} /\ walk'.tenant = t
      /\ walk'.got = Walk!SetToSeq(found) /\ items' = items /\ steady' = steady
      /\ walk.state = "none"
  BY DEF Walk!GetItem
<1>2. StoredSoundly'
  BY <1>1 DEF Inv, StoredSoundly
<1>3. steady' = {}
  BY <1>1 DEF Inv, WalkInv, Walking
<1>4. \A r \in Walk!ToSet(Walk!SetToSeq(found)) : r.tenant = t
  <2>1. found \subseteq items /\ \A r \in found : r.tenant = t
    BY DEF Walk!ConversationItem, Walk!RowsOf
  <2>2. IsFiniteSet(found)
    BY <2>1, FS_Subset DEF Inv, StoredSoundly
  <2> HIDE DEF found
  <2>3. Cardinality(found) \in Nat /\ \E f : f \in Bijection(1..Cardinality(found), found)
    BY <2>2, FS_NatBijection, FS_CountingElements, FS_CardinalityType DEF ExistsBijection
  <2>4. \E f \in [1..Cardinality(found) -> found] : Walk!IsInjective(f)
    BY <2>3 DEF Bijection, Injection, Walk!IsInjective, IsInjective
  <2>5. Walk!SetToSeq(found) \in [1..Cardinality(found) -> found]
    BY <2>4, SameCardinality DEF Walk!SetToSeq
  <2> QED BY <2>1, <2>5 DEF Walk!ToSet
<1>5. Walk!TenantsApart'
  BY <1>1, <1>4 DEF Walk!TenantsApart
<1> QED BY <1>1, <1>2, <1>3, <1>5 DEF Inv, TypeOK, WalkInv, Walking

LEMMA WalkIsRecord ==
    ASSUME Inv, walk.state \in Walking
    PROVE  /\ walk \in WalkRecord /\ RowsMine /\ CursorAtLast /\ NothingSkipped
           /\ walk.got \in Seq(Row) /\ walk.page \in Seq(Row)
           /\ walk.params.limit \in Int /\ walk.params.ascending \in BOOLEAN
           /\ walk.cursor \in Nat /\ walk.position \in Nat
<1>1. walk # Walk!NoWalk /\ walk.state \notin {"item", "item_not_found"}
  BY DEF Walking, Walk!NoWalk
<1>2. walk \in WalkRecord
  BY <1>1 DEF Inv, TypeOK
<1>3. walk.params \in [limit : Int, ascending : BOOLEAN]
      /\ walk.got \in Seq(Row) /\ walk.page \in Seq(Row)
      /\ walk.cursor \in Nat /\ walk.position \in Nat
  BY <1>2 DEF WalkRecord
<1> QED BY <1>2, <1>3 DEF Inv, WalkInv

\* The step of a handler that shows the client nothing new
LEMMA QuietStep ==
    ASSUME Inv, walk.state \in Walking, items' = items, steady' = steady,
           walk' \in WalkRecord', walk'.state \in Walking, walk'.tenant = walk.tenant,
           walk'.conv = walk.conv, walk'.got = walk.got, walk'.params = walk.params,
           walk.state # "answered", walk'.state \notin {"answered", "done"},
           walk.lost => walk'.lost, CursorAtLast'
    PROVE  Inv'
<1>1. RowsMine /\ CursorAtLast /\ NothingSkipped
  BY WalkIsRecord
<1>2. StoredSoundly'
  BY DEF Inv, StoredSoundly
<1>3. RowsMine'
  BY <1>1 DEF RowsMine, IsMine
<1>4. Seen = walk.got /\ Seen' = walk.got /\ StillAhead'
  BY DEF Seen, StillAhead
<1>5. NothingSkipped'
  BY <1>1, <1>4 DEF NothingSkipped
<1> QED BY <1>2, <1>3, <1>5 DEF Inv, TypeOK, WalkInv

LEMMA GetConversationStep == ASSUME Inv, Walk!GetConversation PROVE Inv'
<1>1. walk.state = "asked" /\ walk.state \in Walking
  BY DEF Walk!GetConversation, Walking
<1>2. walk \in WalkRecord /\ CursorAtLast
  BY <1>1, WalkIsRecord
<1>3. PICK next : /\ next \in {"not_found", "position", "list"}
                  /\ walk' = [walk EXCEPT !.state = next]
                  /\ next = "position" => walk.cursor # 0
                  /\ next = "list" => walk.cursor = 0
  <2> DEFINE next == CASE ~Walk!ConversationExists(walk.tenant, walk.conv) -> "not_found"
                       [] Walk!ConversationExists(walk.tenant, walk.conv) /\ walk.cursor # 0
                         -> "position"
                       [] OTHER -> "list"
  <2>1. next = "not_found" \/ (next = "position" /\ walk.cursor # 0)
        \/ (next = "list" /\ (walk.cursor = 0
             \/ ~Walk!ConversationExists(walk.tenant, walk.conv)))
    OBVIOUS
  <2>2. walk' = [walk EXCEPT !.state = next]
    BY DEF Walk!GetConversation
  <2>3. next = "list" => walk.cursor = 0
    OBVIOUS
  <2> HIDE DEF next
  <2> QED BY <2>1, <2>2, <2>3
<1>4. /\ walk'.state = next /\ walk'.tenant = walk.tenant /\ walk'.conv = walk.conv
      /\ walk'.got = walk.got /\ walk'.params = walk.params /\ walk'.lost = walk.lost
      /\ walk'.cursor = walk.cursor /\ walk'.position = walk.position
  BY <1>2, <1>3 DEF WalkRecord
<1>5. walk' \in WalkRecord'
  BY <1>2, <1>3 DEF WalkRecord, Walking
<1>6. CursorAtLast'
  BY <1>1, <1>2, <1>3, <1>4 DEF CursorAtLast
<1>7. items' = items /\ steady' = steady /\ walk'.state \in Walking
  BY <1>3, <1>4 DEF Walk!GetConversation, Walking
<1>8. walk.state # "answered" /\ walk'.state \notin {"answered", "done"}
      /\ (walk.lost => walk'.lost)
  BY <1>1, <1>3, <1>4
<1> QED BY <1>1, <1>4, <1>5, <1>6, <1>7, <1>8, QuietStep

\* A cursor that is still where the client saw it
LEMMA ReadPositionStep == ASSUME IdsAndLimits, Inv, Walk!ReadPosition PROVE Inv'
<1> DEFINE found == Walk!ItemPosition(walk.tenant, walk.conv, walk.cursor)
           moved == walk.lost \/ found # {Walk!Last(walk.got).position}
<1>1. walk.state = "position" /\ walk.state \in Walking /\ items' = items /\ steady' = steady
  BY DEF Walk!ReadPosition, Walking
<1>2. /\ walk \in WalkRecord /\ RowsMine /\ CursorAtLast /\ NothingSkipped
      /\ walk.got \in Seq(Row) /\ walk.page \in Seq(Row)
  BY <1>1, WalkIsRecord
<1>3. \A x \in found : x \in Nat
  BY RowFields DEF Walk!ItemPosition, Walk!ConversationItem, Walk!RowsOf, Inv, StoredSoundly
<1>4. found = {} => walk' = [walk EXCEPT !.state = "answered", !.page = <<>>, !.more = FALSE,
                                         !.lost = moved]
  BY DEF Walk!ReadPosition
<1>5. found # {} => walk' = [walk EXCEPT !.state = "list", !.position = CHOOSE p \in found : TRUE,
                                         !.lost = moved]
  BY DEF Walk!ReadPosition
<1>6. moved \in BOOLEAN /\ (walk.lost => moved)
      /\ (~moved => found = {Walk!Last(walk.got).position}) /\ (found = {} => moved)
  BY <1>2 DEF WalkRecord
<1> HIDE DEF found, moved
<1>7. CASE found # {}
  <2> DEFINE x == CHOOSE p \in found : TRUE
  <2>1. x \in found /\ x \in Nat
    BY <1>3, <1>7
  <2> HIDE DEF x
  <2>2. walk' = [walk EXCEPT !.state = "list", !.position = x, !.lost = moved]
    BY <1>5, <1>7 DEF x
  <2>3. /\ walk'.state = "list" /\ walk'.tenant = walk.tenant /\ walk'.conv = walk.conv
        /\ walk'.got = walk.got /\ walk'.params = walk.params /\ walk'.lost = moved
        /\ walk'.cursor = walk.cursor /\ walk'.position = x
    BY <1>2, <2>2 DEF WalkRecord
  <2>4. walk' \in WalkRecord'
    BY <1>2, <1>6, <2>1, <2>2 DEF WalkRecord, Walking
  <2>5. ~moved => x = Walk!Last(walk.got).position
    BY <1>6, <2>1
  <2>6. CursorAtLast'
    BY <1>1, <1>2, <2>3, <2>5 DEF CursorAtLast
  <2>7. walk'.state \in Walking
    BY <2>3 DEF Walking
  <2>8. walk.state # "answered" /\ walk'.state \notin {"answered", "done"}
        /\ (walk.lost => walk'.lost)
    BY <1>1, <1>6, <2>3
  <2> QED BY <1>1, <2>3, <2>4, <2>6, <2>7, <2>8, QuietStep
<1>8. CASE found = {}
  <2>1. walk' = [walk EXCEPT !.state = "answered", !.page = <<>>, !.more = FALSE, !.lost = TRUE]
    BY <1>4, <1>6, <1>8
  <2>2. /\ walk'.state = "answered" /\ walk'.tenant = walk.tenant /\ walk'.conv = walk.conv
        /\ walk'.got = walk.got /\ walk'.lost = TRUE /\ walk'.page = <<>> /\ walk'.more = FALSE
    BY <1>2, <2>1 DEF WalkRecord
  <2>3. walk' \in WalkRecord'
    <3>1. <<>> \in Seq(Row)
      BY EmptySeq
    <3> QED BY <1>2, <2>1, <3>1 DEF WalkRecord, Walking
  <2>4. RowsMine'
    <3>1. Len(<<>>) <= MaxLimit
      BY DEF IdsAndLimits
    <3> QED BY <1>1, <1>2, <2>2, <3>1 DEF RowsMine, IsMine, Walk!ToSet
  <2>5. CursorAtLast' /\ NothingSkipped'
    BY <2>2 DEF CursorAtLast, NothingSkipped
  <2>6. StoredSoundly'
    BY <1>1 DEF Inv, StoredSoundly
  <2> QED BY <2>2, <2>3, <2>4, <2>5, <2>6 DEF Inv, TypeOK, WalkInv, Walking
<1> QED BY <1>7, <1>8

\* The rows a page is chosen from come after what the client has, and those
\* that stayed are among them
LEMMA RowsToCome ==
    ASSUME Inv, walk.state = "list", ~walk.lost,
           NEW rows, rows = IF walk.cursor = 0 THEN Walk!RowsOf(walk.tenant, walk.conv)
                            ELSE Walk!Past(walk.tenant, walk.conv, walk.cursor, walk.position,
                                      walk.params.ascending)
    PROVE  /\ walk.got = <<>> \/ \A r \in rows
                : Walk!Precedes(Walk!Last(walk.got), r, walk.params.ascending)
           /\ \A r \in steady : r \in Walk!ToSet(walk.got) \/ r \in rows
<1>1. walk.state \in Walking
  BY DEF Walking
<1>2. RowsMine /\ CursorAtLast /\ NothingSkipped
  BY <1>1, WalkIsRecord
<1>3. Seen = walk.got
  BY DEF Seen
<1>4. \A r \in steady : /\ r \in Walk!RowsOf(walk.tenant, walk.conv)
                        /\ \/ r \in Walk!ToSet(walk.got) \/ walk.got = <<>>
                           \/ Walk!Precedes(Walk!Last(walk.got), r, walk.params.ascending)
  BY <1>2, <1>3 DEF RowsMine, NothingSkipped, IsMine, Walk!RowsOf
<1>5. CASE walk.cursor = 0
  BY <1>2, <1>4, <1>5 DEF CursorAtLast
<1>6. CASE walk.cursor # 0
  <2> DEFINE place == [id |-> walk.cursor, position |-> walk.position]
  <2>1. /\ walk.got # <<>> /\ walk.cursor = Walk!Last(walk.got).id
        /\ walk.position = Walk!Last(walk.got).position
    BY <1>2, <1>6 DEF CursorAtLast
  <2>2. \A r : Walk!Precedes(place, r, walk.params.ascending)
                <=> Walk!Precedes(Walk!Last(walk.got), r, walk.params.ascending)
    BY <2>1 DEF Walk!Precedes, Walk!Before
  <2>3. rows = {r \in Walk!RowsOf(walk.tenant, walk.conv)
          : Walk!Precedes(place, r, walk.params.ascending)}
    BY <1>6 DEF Walk!Past
  <2> HIDE DEF place
  <2> QED BY <1>4, <2>1, <2>2, <2>3
<1> QED BY <1>5, <1>6

LEMMA ListPageStep == ASSUME IdsAndLimits, Inv, Walk!ListPage PROVE Inv'
<1>1. walk.state = "list" /\ walk.state \in Walking /\ items' = items /\ steady' = steady
  BY DEF Walk!ListPage, Walking
<1>2. /\ walk \in WalkRecord /\ RowsMine /\ CursorAtLast /\ NothingSkipped
      /\ walk.got \in Seq(Row) /\ walk.page \in Seq(Row)
      /\ walk.params.limit \in Int /\ walk.params.ascending \in BOOLEAN
  BY <1>1, WalkIsRecord
<1> DEFINE p == walk.params
           asc == p.ascending
           rows == IF walk.cursor = 0 THEN Walk!RowsOf(walk.tenant, walk.conv)
                   ELSE Walk!Past(walk.tenant, walk.conv, walk.cursor, walk.position, p.ascending)
           fetched == Walk!Limited(Walk!InOrder(rows, p.ascending), Walk!FetchLimit(p))
           page == Walk!Limited(fetched, Walk!EffectiveLimit(p))
           more == Walk!HasMore(fetched, p)
<1>3. walk' = [walk EXCEPT !.state = "answered", !.page = page, !.more = more]
  BY DEF Walk!ListPage
<1>4. rows \in SUBSET Walk!RowsOf(walk.tenant, walk.conv)
  BY DEF Walk!Past
<1>5. ~walk.lost =>
        /\ walk.got = <<>> \/ \A r \in rows : Walk!Precedes(Walk!Last(walk.got), r, asc)
        /\ \A r \in steady : r \in Walk!ToSet(walk.got) \/ r \in rows
  BY <1>1, RowsToCome
<1> HIDE DEF rows
<1>6. OneConversation(rows)
  BY <1>4, RowsOfConversation DEF Inv
<1>7. /\ page \in Seq(rows) /\ Len(page) <= MaxLimit /\ Walk!Sorted(page, asc)
      /\ more => page # <<>>
      /\ \A r \in rows : r \in Walk!ToSet(page) \/ (more
                           /\ Walk!Precedes(Walk!Last(page), r, asc))
  <2> HIDE DEF fetched
  <2>1. fetched = Walk!Limited(Walk!InOrder(rows, p.ascending), Walk!FetchLimit(p))
    BY DEF fetched
  <2> HIDE DEF page
  <2>2. page = Walk!Limited(fetched, Walk!EffectiveLimit(p))
    BY DEF page
  <2> QED BY <1>2, <1>6, <2>1, <2>2, PageListed
<1>8. more \in BOOLEAN
  BY DEF Walk!HasMore
<1> HIDE DEF fetched, page, more
<1>9. \A r \in Walk!ToSet(page) : r \in rows
  BY <1>7 DEF Walk!ToSet
<1>10. page \in Seq(Row)
  <2>1. rows \subseteq Row
    BY <1>6 DEF OneConversation
  <2> QED BY <1>7, <2>1, SeqMonotonic
<1>11. walk' \in WalkRecord'
  BY <1>2, <1>3, <1>8, <1>10 DEF WalkRecord, Walking
<1>12. /\ walk'.state = "answered" /\ walk'.tenant = walk.tenant /\ walk'.conv = walk.conv
       /\ walk'.got = walk.got /\ walk'.lost = walk.lost /\ walk'.page = page /\ walk'.more = more
       /\ walk'.params = walk.params
  BY <1>2, <1>3 DEF WalkRecord
<1>13. RowsMine'
  <2>1. \A r \in Walk!ToSet(page) : r.tenant = walk.tenant /\ r.conv = walk.conv
    BY <1>4, <1>9 DEF Walk!RowsOf
  <2> QED BY <1>1, <1>2, <1>7, <1>12, <2>1 DEF RowsMine, IsMine
<1>14. CursorAtLast'
  BY <1>12 DEF CursorAtLast
<1>15. NothingSkipped'
  <2> SUFFICES ASSUME ~walk.lost
               PROVE  /\ Walk!Sorted(Seen', asc)
                      /\ \A r \in steady : \/ r \in Walk!ToSet(Seen')
                                           \/ /\ StillAhead'
                                              /\ Seen' = <<>>
                                                   \/ Walk!Precedes(Walk!Last(Seen'), r, asc)
    BY <1>1, <1>12 DEF NothingSkipped
  <2>1. Seen' = walk.got \o page /\ (StillAhead' <=> more)
    BY <1>12 DEF Seen, StillAhead
  <2>2. Walk!Sorted(walk.got, asc)
    BY <1>1, <1>2 DEF NothingSkipped, Seen
  <2>3. Walk!Sorted(walk.got \o page, asc)
    <3>1. walk.got = <<>> \/ \A r \in Walk!ToSet(page)
            : Walk!Precedes(Walk!Last(walk.got), r, asc)
      BY <1>5, <1>9
    <3> HIDE DEF asc
    <3> QED BY <1>2, <1>7, <1>10, <2>2, <3>1, SortedAppended DEF asc
  <2>4. /\ \A r : r \in Walk!ToSet(walk.got \o page) <=> r \in Walk!ToSet(walk.got)
                    \/ r \in Walk!ToSet(page)
        /\ page # <<>> => Walk!Last(walk.got \o page) = Walk!Last(page)
    BY <1>2, <1>10, Appended
  <2>5. \A r \in steady : \/ r \in Walk!ToSet(walk.got \o page)
                          \/ more /\ Walk!Precedes(Walk!Last(walk.got \o page), r, asc)
    BY <1>5, <1>7, <2>4
  <2> QED BY <2>1, <2>3, <2>5
<1>16. StoredSoundly'
  BY <1>1 DEF Inv, StoredSoundly
<1> QED BY <1>11, <1>12, <1>13, <1>14, <1>15, <1>16 DEF Inv, TypeOK, WalkInv, Walking

LEMMA TakePageStep == ASSUME IdsAndLimits, Inv, Walk!TakePage PROVE Inv'
<1>1. walk.state = "answered" /\ walk.state \in Walking /\ items' = items /\ steady' = steady
  BY DEF Walk!TakePage, Walking
<1>2. /\ walk \in WalkRecord /\ RowsMine /\ CursorAtLast /\ NothingSkipped
      /\ walk.got \in Seq(Row) /\ walk.page \in Seq(Row)
  BY <1>1, WalkIsRecord
<1> DEFINE cursor == IF walk.page = <<>> THEN 0 ELSE Walk!Last(walk.page).id
           next == IF walk.more THEN "asked" ELSE "done"
           taken == walk.got \o walk.page
<1>3. walk' = [walk EXCEPT !.got = taken, !.cursor = cursor, !.state = next]
  <2>1. walk' = [walk EXCEPT !.got = @ \o walk.page, !.cursor = cursor, !.state = next]
    BY DEF Walk!TakePage
  <2> QED BY <1>2, <2>1 DEF WalkRecord
<1>4. /\ taken \in Seq(Row)
      /\ \A r : r \in Walk!ToSet(taken) <=> r \in Walk!ToSet(walk.got)
                  \/ r \in Walk!ToSet(walk.page)
      /\ walk.page # <<>> => taken # <<>> /\ Walk!Last(taken) = Walk!Last(walk.page)
  BY <1>2, Appended
<1>5. cursor \in Nat /\ (walk.page # <<>> => cursor # 0 /\ cursor = Walk!Last(walk.page).id)
  <2> SUFFICES ASSUME walk.page # <<>> PROVE Walk!Last(walk.page).id \in Nat \ {0}
    OBVIOUS
  <2>1. Walk!Last(walk.page) \in Row
    BY <1>2 DEF Walk!Last
  <2> QED BY <2>1, RowFields
<1> HIDE DEF cursor, taken
<1>6. walk' \in WalkRecord'
  BY <1>2, <1>3, <1>4, <1>5 DEF WalkRecord, Walking
<1>7. /\ walk'.state = next /\ walk'.tenant = walk.tenant /\ walk'.conv = walk.conv
      /\ walk'.got = taken /\ walk'.lost = walk.lost /\ walk'.cursor = cursor
      /\ walk'.params = walk.params
  BY <1>2, <1>3 DEF WalkRecord
<1>8. RowsMine'
  BY <1>1, <1>2, <1>4, <1>7 DEF RowsMine, IsMine
<1>9. CursorAtLast'
  <2>1. walk.more => walk.page # <<>>
    BY <1>1, <1>2 DEF RowsMine
  <2> QED BY <1>4, <1>5, <1>7, <2>1 DEF CursorAtLast
<1>10. NothingSkipped'
  <2>1. Seen = taken /\ Seen' = taken /\ (StillAhead => StillAhead')
    BY <1>1, <1>7 DEF Seen, StillAhead, taken
  <2> QED BY <1>1, <1>2, <1>7, <2>1 DEF NothingSkipped
<1>11. StoredSoundly' /\ walk'.state \in Walking
  BY <1>1, <1>7 DEF Inv, StoredSoundly, Walking
<1> QED BY <1>6, <1>8, <1>9, <1>10, <1>11 DEF Inv, TypeOK, WalkInv

-----------------------------------------------------------------------------
LEMMA InvInit == Walk!Init => Inv
<1> SUFFICES ASSUME Walk!Init PROVE Inv
  OBVIOUS
<1>1. walk = Walk!NoWalk /\ items = {} /\ steady = {} /\ walk.state = "none"
  BY DEF Walk!Init, Walk!NoWalk
<1>2. StoredSoundly
  BY <1>1, FS_EmptySet DEF StoredSoundly
<1> QED BY <1>1, <1>2 DEF Inv, TypeOK, WalkInv, Walking

LEMMA InvStep == ASSUME IdsAndLimits, ItemsTyped, Inv, [Walk!Next]_(Walk!vars) PROVE Inv'
<1>1. CASE UNCHANGED Walk!vars
  <2>1. StoredSoundly' /\ walk' = walk /\ steady' = steady /\ items' = items
    BY <1>1 DEF Walk!vars, Inv, StoredSoundly
  <2>2. \A r \in steady' : r \in items'
    BY <2>1, WalkIsRecord DEF Inv, WalkInv, RowsMine
  <2> QED BY <2>1, <2>2, WritesKeep
<1>2. ASSUME NEW t \in Tenants, NEW c \in Convs,
             Walk!CreateConversation(t, c) \/ Walk!DeleteConversation(t, c)
      PROVE  Inv'
  <2>1. walk' = walk /\ steady' = steady /\ items' = items
    BY <1>2 DEF Walk!CreateConversation, Walk!DeleteConversation
  <2>2. StoredSoundly' /\ \A r \in steady' : r \in items'
    BY <2>1 DEF Inv, WalkInv, RowsMine, StoredSoundly
  <2> QED BY <2>1, <2>2, WritesKeep
<1>3. ASSUME NEW t \in Tenants, NEW c \in Convs, NEW i \in ItemIds, NEW data \in Inputs[i],
             Walk!CreateItem(t, c, i, data)
      PROVE  Inv'
  <2>1. walk' = walk /\ steady' = steady
    BY <1>3 DEF Walk!CreateItem
  <2>2. StoredSoundly' /\ \A r \in items : r \in items'
    BY <1>3, ItemCreated DEF Inv
  <2>3. \A r \in steady' : r \in items'
    BY <2>1, <2>2 DEF Inv, WalkInv, RowsMine
  <2> QED BY <2>1, <2>2, <2>3, WritesKeep
<1>4. ASSUME NEW t \in Tenants, NEW c \in Convs, NEW i \in ItemIds, Walk!DeleteItem(t, c, i)
      PROVE  Inv'
  <2>1. walk' = walk
    BY <1>4 DEF Walk!DeleteItem
  <2>2. StoredSoundly' /\ steady' \subseteq steady /\ \A r \in steady' : r \in items
          => r \in items'
    BY <1>4, ItemDeleted DEF Inv
  <2>3. \A r \in steady' : r \in items'
    BY <2>2 DEF Inv, WalkInv, RowsMine
  <2> QED BY <2>1, <2>2, <2>3, WritesKeep
<1> QED BY <1>1, <1>2, <1>3, <1>4, BeginStep, GetItemStep, GetConversationStep,
           ReadPositionStep, ListPageStep, TakePageStep DEF Walk!Next

LEMMA InvImplies == ASSUME ItemsTyped, Inv PROVE Walk!WalksComplete
<1>1. Walk!WalkComplete
  <2> SUFFICES ASSUME walk.state = "done", ~walk.lost
               PROVE  steady \subseteq Walk!ToSet(walk.got)
                        /\ Walk!Sorted(walk.got, walk.params.ascending)
    BY DEF Walk!WalkComplete
  <2>1. NothingSkipped /\ Seen = walk.got /\ ~StillAhead
    BY WalkIsRecord DEF Seen, StillAhead, Walking
  <2> QED BY <2>1 DEF NothingSkipped
<1>2. Walk!MoreIsReachable
  BY WalkIsRecord DEF Walk!MoreIsReachable, RowsMine, Walking
<1>3. Walk!TenantsApart
  <2>1. walk.state \in Walking => Walk!TenantsApart
    BY WalkIsRecord DEF RowsMine, IsMine, Walk!TenantsApart
  <2>2. walk = Walk!NoWalk => Walk!TenantsApart
    BY DEF Walk!TenantsApart, Walk!NoWalk
  <2>3. walk \in WalkRecord => walk.state \in Walking
    BY DEF WalkRecord
  <2> QED BY <2>1, <2>2, <2>3 DEF Inv, TypeOK
<1>4. Walk!ListedItemsReusable
  <2>1. \A r \in items : r.data \in Forms /\ r.data # Bad
    BY DEF Inv, StoredSoundly, Row
  <2> QED BY <2>1, NormalizedForm DEF Walk!ListedItemsReusable
<1> QED BY <1>1, <1>2, <1>3, <1>4 DEF Walk!WalksComplete

-----------------------------------------------------------------------------
(* Stored inputs                                                           *)

\* An id stands for one item of an input, and none reads as a number, which a
\* client that counts would send
Identified(list) ==
    /\ \E S : list \in Seq(S)
    /\ \A j, k \in DOMAIN list : list[j].id = list[k].id /\ list[j].id # NoId => j = k
    /\ \A k \in DOMAIN list : list[k].id # NoParam /\ list[k].id \notin Nat

\* The input in the order the client asked for
Listed == Stored!Ordered(input, params.order)

\* A client has the beginning of the list, and its cursor is where that ends
Reached ==
    /\ Len(got) <= Len(Listed) /\ got = SubSeq(Listed, 1, Len(got)) /\ Len(got) \in Nat
    /\ params.cursor = IF Len(got) = 0 THEN NoParam
                       ELSE IF Listed[Len(got)].id # NoId THEN Listed[Len(got)].id
                       ELSE Len(got)

InputInv ==
    /\ input \in StoredInputs
    /\ params \in [limit : Nat, order : {"asc", "desc"}, cursor : {params.cursor}]
    /\ paging = "walking" => Reached
    /\ paging = "done" => got = Listed

LEMMA ListedIdentified ==
    ASSUME NEW i, Identified(i), NEW order
    PROVE  Identified(Stored!Ordered(i, order))
<1> DEFINE L == Stored!Ordered(i, order)
<1>1. CASE order = "asc"
  BY <1>1 DEF Stored!Ordered
<1>2. CASE order # "asc"
  <2>1. PICK S : i \in Seq(S)
    BY DEF Identified
  <2>2. L = [k \in 1..Len(i) |-> i[(Len(i) - k) + 1]]
    BY <1>2 DEF Stored!Ordered, Stored!Reverse
  <2>3. Len(i) \in Nat /\ DOMAIN i = 1..Len(i) /\ DOMAIN L = 1..Len(i)
    BY <2>1, <2>2
  <2>4. \A k \in DOMAIN L : (Len(i) - k) + 1 \in DOMAIN i /\ L[k] = i[(Len(i) - k) + 1]
    BY <2>2, <2>3
  <2> HIDE DEF L
  <2>5. L \in Seq(S)
    <3>1. \A k \in 1..Len(i) : L[k] \in S
      BY <2>1, <2>3, <2>4
    <3>2. L = [k \in 1..Len(i) |-> L[k]]
      BY <2>2
    <3> QED BY <2>3, <3>1, <3>2, IsASeq
  <2>6. ASSUME NEW j \in DOMAIN L, NEW k \in DOMAIN L, L[j].id = L[k].id, L[j].id # NoId
        PROVE  j = k
    <3>1. (Len(i) - j) + 1 = (Len(i) - k) + 1
      BY <2>4, <2>6 DEF Identified
    <3> QED BY <2>3, <3>1
  <2>7. \A k \in DOMAIN L : L[k].id # NoParam /\ L[k].id \notin Nat
    BY <2>4 DEF Identified
  <2>8. Identified(L)
    BY <2>5, <2>6, <2>7 DEF Identified
  <2> QED BY <2>8 DEF L
<1> QED BY <1>1, <1>2

LEMMA InputIdentified == ASSUME InputsIdentified, input \in StoredInputs PROVE Identified(Listed)
<1>1. Identified(input)
  BY DEF InputsIdentified, Identified
<1> QED BY <1>1, ListedIdentified DEF Listed

\* The cursor that a client has after n items is the offset n
LEMMA OffsetReached ==
    ASSUME WordLimits, NEW L, Identified(L), NEW n \in Nat, n <= Len(L),
           NEW c, c = IF n = 0 THEN NoParam ELSE IF L[n].id # NoId THEN L[n].id ELSE n
    PROVE  Stored!CursorOffset(L, c) = n
<1>1. Len(L) \in Nat /\ DOMAIN L = 1..Len(L)
  BY DEF Identified
<1>2. CASE n = 0
  <2>1. c = NoParam /\ Stored!CursorIdOffset(L, c) = {} /\ c \notin Nat
    BY <1>2 DEF Stored!CursorIdOffset, Identified, WordLimits
  <2> QED BY <1>2, <2>1 DEF Stored!CursorOffset
<1>3. CASE n # 0 /\ L[n].id # NoId
  <2>1. n \in DOMAIN L /\ c = L[n].id /\ c # NoParam
    BY <1>1, <1>3 DEF Identified
  <2>2. \A k \in DOMAIN L : L[k].id = c => k = n
    BY <1>3, <2>1 DEF Identified
  <2>3. \A j \in 1..(n - 1) : j \in DOMAIN L /\ j # n
    BY <1>1
  <2>4. Stored!CursorIdOffset(L, c) = {n}
    BY <2>1, <2>2, <2>3 DEF Stored!CursorIdOffset
  <2> QED BY <2>1, <2>4 DEF Stored!CursorOffset
<1>4. CASE n # 0 /\ L[n].id = NoId
  <2>1. c = n /\ c # NoParam /\ c \in Nat
    BY <1>4 DEF WordLimits
  <2>2. Stored!CursorIdOffset(L, c) = {}
    BY <2>1 DEF Stored!CursorIdOffset, Identified
  <2> QED BY <2>1, <2>2 DEF Stored!CursorOffset
<1> QED BY <1>2, <1>3, <1>4

\* Two stretches of a list, one after the other
LEMMA Stretches ==
    ASSUME NEW S, NEW L \in Seq(S), NEW o \in Nat, NEW end \in Nat, o <= end, end <= Len(L)
    PROVE  /\ SubSeq(L, 1, o) \o SubSeq(L, o + 1, end) = SubSeq(L, 1, end)
           /\ Len(SubSeq(L, 1, end)) = end
           /\ o < end => /\ SubSeq(L, o + 1, end) # <<>>
                         /\ Stored!Last(SubSeq(L, o + 1, end)) = L[end]
<1>1. 1 \in 1..(Len(L) + 1) /\ o \in (1 - 1)..Len(L) /\ end \in o..Len(L)
  OBVIOUS
<1>2. SubSeq(L, 1, o) \o SubSeq(L, o + 1, end) = SubSeq(L, 1, end)
  BY <1>1, ConcatAdjacentSubSeq
<1>3. Len(SubSeq(L, 1, end)) = end
  OBVIOUS
<1>4. ASSUME o < end
      PROVE  /\ SubSeq(L, o + 1, end) # <<>>
             /\ Stored!Last(SubSeq(L, o + 1, end)) = L[end]
  <2> DEFINE d == SubSeq(L, o + 1, end)
  <2>1. Len(d) = end - o /\ d[end - o] = L[end]
    BY <1>4
  <2> HIDE DEF d
  <2>2. d # <<>> /\ Stored!Last(d) = L[end]
    BY <1>4, <2>1 DEF Stored!Last
  <2> QED BY <2>2 DEF d
<1> QED BY <1>2, <1>3, <1>4

LEMMA StoredInit == ASSUME WordLimits, Stored!Init PROVE InputsIdentified => InputInv
<1> SUFFICES ASSUME InputsIdentified PROVE InputInv
  OBVIOUS
<1>1. PICK limit \in Limits, order \in {"asc", "desc", "other"} :
        \/ params = Stored!ParseQueryParams(limit, order, NoParam) /\ paging = "walking"
        \/ \E c \in Cursors :
              params = Stored!ParseQueryParams(limit, order, c) /\ paging = "single"
  BY DEF Stored!Init
<1>2. input \in StoredInputs /\ got = <<>>
  BY DEF Stored!Init
<1>3. PICK c : params = Stored!ParseQueryParams(limit, order, c)
               /\ (paging = "walking" => c = NoParam) /\ paging # "done"
  BY <1>1
<1>4. (IF limit = NoParam THEN InputDefaultLimit ELSE limit) \in Nat
  BY DEF WordLimits
<1>5. params \in [limit : Nat, order : {"asc", "desc"}, cursor : {params.cursor}]
      /\ params.cursor = c
  BY <1>3, <1>4 DEF Stored!ParseQueryParams
<1>6. Identified(Listed)
  BY <1>2, InputIdentified
<1>7. paging = "walking" => Reached
  <2>1. Len(got) = 0 /\ got = SubSeq(Listed, 1, 0) /\ Len(Listed) \in Nat
    BY <1>2, <1>6 DEF Identified
  <2> QED BY <1>3, <1>5, <2>1 DEF Reached
<1> QED BY <1>2, <1>3, <1>5, <1>7 DEF InputInv

LEMMA StoredStep == ASSUME WordLimits, InputsIdentified, InputInv, [Stored!Next]_(Stored!vars)
                   PROVE  InputInv'
<1>1. CASE UNCHANGED Stored!vars
  BY <1>1 DEF Stored!vars, InputInv, Reached, Listed
<1>2. CASE Stored!OnePage
  BY <1>2 DEF Stored!OnePage, InputInv
<1>3. CASE Stored!NextPage
  <2> DEFINE L == Listed
             o == Len(got)
             l == Stored!EffectiveLimit(params)
             end == IF o + l < Len(L) THEN o + l ELSE Len(L)
             data == SubSeq(L, o + 1, end)
             page == Stored!ListInputItems(input, params)
  <2>1. /\ paging = "walking" /\ page.ok /\ input' = input /\ got' = got \o page.data
        /\ IF page.has_more
           THEN /\ params' = [params EXCEPT !.cursor =
                       IF Stored!LastId(page) # NoParam THEN Stored!LastId(page) ELSE Len(got')]
                /\ paging' = paging
           ELSE paging' = "done" /\ params' = params
    BY <1>3 DEF Stored!NextPage
  <2>2. Reached /\ params.limit \in Nat /\ params.order \in {"asc", "desc"}
    BY <2>1 DEF InputInv
  <2>3. Identified(L)
    BY InputIdentified DEF InputInv, Listed
  <2>4. o \in Nat /\ o <= Len(L) /\ Len(L) \in Nat /\ DOMAIN L = 1..Len(L)
    BY <2>2, <2>3 DEF Reached, Identified
  <2>5. l \in Nat /\ l >= 1
    BY <2>2 DEF Stored!EffectiveLimit, WordLimits
  <2>6. Stored!CursorOffset(L, params.cursor) = o
    <3> HIDE DEF L
    <3>1. params.cursor = IF o = 0 THEN NoParam ELSE IF L[o].id # NoId THEN L[o].id ELSE o
      BY <2>2 DEF Reached, L
    <3> HIDE DEF o
    <3> QED BY <2>3, <2>4, <3>1, OffsetReached
  <2>7. page.data = data /\ (page.has_more <=> end < Len(L))
    <3> DEFINE least(a, b) == IF a < b THEN a ELSE b
    <3>1. page = IF o > MaxUsize \/ o + l > MaxUsize
                 THEN [ok |-> FALSE, data |-> <<>>, has_more |-> FALSE, next |-> NoParam]
                 ELSE [ok |-> TRUE, data |-> data, has_more |-> end < Len(L),
                       next |-> Stored!PageNextCursor(data, end, end < Len(L))]
      BY <2>6, Zenon DEF Stored!ListInputItems, Listed
    <3> HIDE DEF data, end, o, l, L, page
    <3> QED BY <2>1, <3>1
  <2> HIDE DEF page
  <2>8. end \in Nat /\ end <= Len(L) /\ o <= end
        /\ (end < Len(L) => end = o + l /\ end > o)
        /\ (~(end < Len(L)) => end = Len(L))
    BY <2>4, <2>5
  <2> HIDE DEF end, l
  <2>9. got' = SubSeq(L, 1, end) /\ Len(got') = end
    <3>1. PICK S : L \in Seq(S)
      BY <2>3 DEF Identified
    <3>2. got = SubSeq(L, 1, o)
      BY <2>2 DEF Reached
    <3> HIDE DEF L, o
    <3>3. /\ SubSeq(L, 1, o) \o SubSeq(L, o + 1, end) = SubSeq(L, 1, end)
          /\ Len(SubSeq(L, 1, end)) = end
      BY <2>4, <2>8, <3>1, Stretches
    <3> QED BY <2>1, <2>7, <3>2, <3>3 DEF data
  <2>10. CASE end < Len(L)
    <3>1. data # <<>> /\ Stored!Last(data) = L[end] /\ end \in 1..Len(L)
      <4>1. PICK S : L \in Seq(S)
        BY <2>3 DEF Identified
      <4> HIDE DEF L, o
      <4>2. o < end /\ end \in 1..Len(L)
        BY <2>4, <2>8, <2>10
      <4> QED BY <2>4, <2>8, <4>1, <4>2, Stretches DEF data
    <3> HIDE DEF data
    <3>2. L[end].id # NoParam
      BY <2>3, <2>4, <3>1 DEF Identified
    <3>3. Stored!LastId(page) = IF L[end].id = NoId THEN NoParam ELSE L[end].id
      BY <2>7, <3>1 DEF Stored!LastId
    <3>4. params' = [params EXCEPT !.cursor = IF L[end].id # NoId THEN L[end].id ELSE end]
          /\ paging' = "walking"
      BY <2>1, <2>7, <2>9, <2>10, <3>2, <3>3
    <3>5. /\ params'.limit = params.limit /\ params'.order = params.order
          /\ params'.cursor = IF L[end].id # NoId THEN L[end].id ELSE end
          /\ params' \in [limit : Nat, order : {"asc", "desc"}, cursor : {params'.cursor}]
      BY <3>4 DEF InputInv
    <3>6. Listed' = L
      BY <2>1, <3>5 DEF Listed
    <3> HIDE DEF L
    <3>7. Reached'
      BY <2>8, <2>9, <2>10, <3>1, <3>5, <3>6 DEF Reached
    <3> QED BY <2>1, <3>4, <3>5, <3>7 DEF InputInv
  <2>11. CASE ~(end < Len(L))
    <3>1. paging' = "done" /\ params' = params
      BY <2>1, <2>7, <2>11
    <3>2. Listed' = L
      BY <2>1, <3>1 DEF Listed
    <3>3. got' = L
      <4>1. PICK S : L \in Seq(S)
        BY <2>3 DEF Identified
      <4> HIDE DEF L
      <4> QED BY <2>8, <2>9, <2>11, <4>1, SubSeqFull
    <3> QED BY <2>1, <3>1, <3>2, <3>3 DEF InputInv
  <2> QED BY <2>10, <2>11
<1> QED BY <1>1, <1>2, <1>3 DEF Stored!Next, Stored!Done

LEMMA StoredTells == ASSUME InputsIdentified, InputInv PROVE Stored!WalksComplete
<1> SUFFICES Stored!WalkFollowsList /\ Stored!WalkComplete
  BY DEF Stored!WalksComplete
<1>1. Stored!WalkComplete
  BY DEF InputInv, Stored!WalkComplete, Listed
<1>2. CASE paging = "walking"
  <2>1. got = SubSeq(Listed, 1, Len(got)) /\ Len(got) <= Len(Listed) /\ Len(got) \in Nat
    BY <1>2 DEF InputInv, Reached
  <2>2. Identified(Listed)
    BY InputIdentified DEF InputInv, Listed
  <2>3. PICK S : Listed \in Seq(S)
    BY <2>2 DEF Identified
  <2>4. got \in Seq(S)
    BY <2>1, <2>3
  <2>5. SubSeq(got, 1, Len(got)) = got
    BY <2>4, SubSeqFull
  <2> QED BY <1>1, <2>1, <2>5 DEF Stored!WalkFollowsList, Stored!IsPrefix, Listed
<1> QED BY <1>1, <1>2 DEF Stored!WalkFollowsList

-----------------------------------------------------------------------------
(* Walks *)

\* handle_list_items, list_conversation_items, effective_limit, normalize_item:
\* whoever writes between the pages, and on whatever positions, a walk that was
\* not cut short by the deletion of its cursor shows every item that stayed,
\* once and in order; a page with more after it can be followed; nobody sees
\* the items of another tenant; and stored items are normal forms.
\* list_input_items, build_input_items_ok: with any limit, and with ids on all,
\* some or none of the items, a walk shows the stored input from its beginning,
\* and all of it when it ends
THEOREM WalksAreComplete ==
    ASSUME IdsAndLimits, ItemsTyped, WordLimits, InputsIdentified
    PROVE  Spec => []WalksComplete
<1> DEFINE WalkInvs == (subject = "walk" => Inv) /\ (subject = "inputs" => InputInv)
<1>1. Init => WalkInvs
  BY InvInit, StoredInit DEF Init
<1>2. WalkInvs /\ [Next]_vars => WalkInvs'
  <2>1. ASSUME WalkInvs, [Next]_vars, subject' = "walk" PROVE Inv'
    <3>1. subject = "walk" /\ [Walk!Next]_(Walk!vars)
      BY <2>1 DEF Next, FilterStep, ReadStep, InputStep, ConfigStep, vars, readVars, Walk!vars
    <3> QED BY <2>1, <3>1, InvStep
  <2>2. ASSUME WalkInvs, [Next]_vars, subject' = "inputs" PROVE InputInv'
    <3>1. subject = "inputs" /\ [Stored!Next]_(Stored!vars)
      BY <2>2 DEF Next, FilterStep, ReadStep, InputStep, ConfigStep, vars, inputVars, Stored!vars
    <3> QED BY <2>2, <3>1, StoredStep
  <2> QED BY <2>1, <2>2
<1>3. WalkInvs => WalksComplete
  BY InvImplies, StoredTells DEF WalksComplete
<1> QED BY <1>1, <1>2, <1>3, PTL DEF Spec

-----------------------------------------------------------------------------
(* The conversations filter                                                *)

RequestRecord == [method : STRING, path : Seq(STRING), preread : BOOLEAN, denied : BOOLEAN]
Places ==
    Filter!Ended \cup {"headers", "on_request", "body", "wait", "build", "handle",
    "unavailable"}

FilterTypeOK ==
    /\ backend \in Backends
    /\ req \in [Ids -> RequestRecord \cup {NoState}]
    /\ at \in [Ids -> Places]
    /\ \A r \in Ids : at[r] # "none" => req[r] \in RequestRecord
    /\ state \in [Ids -> [ran : BOOLEAN, deferred : BOOLEAN]]
    /\ store \in {"unset", "none", "open"}
    /\ opener \in SUBSET Ids /\ built \in Nat
    /\ up \in BOOLEAN /\ trouble \in SUBSET Ids
    /\ handled \in [Ids -> Nat]

\* The cell: whoever builds finds it unset, nobody else builds, and a store was
\* built exactly if it holds one
StoreInv ==
    /\ \A r, q \in opener : r = q
    /\ opener = {r \in Ids : at[r] = "build"}
    /\ opener # {} => store = "unset"
    /\ built = IF store = "open" THEN 1 ELSE 0

\* The places behind the filter's decision to answer itself
Served == {"wait", "build", "handle", "unavailable", "answered", "error"}

\* The deferred body of a matching POST is what makes the later header hook
\* answer; a body hook that comes second finds the mark of the first
ServeSlot(r) ==
    /\ handled[r] = IF at[r] = "answered" THEN 1 ELSE 0
    /\ at[r] \in Served => Filter!IsLocal(r) /\ ~req[r].denied
    /\ at[r] = "forwarded" => ~Filter!IsLocal(r)
    /\ at[r] \in {"none", "body"} => ~state[r].deferred
    /\ at[r] \in {"none", "headers", "on_request"} => ~state[r].ran
    /\ at[r] \in {"headers", "on_request"} =>
          (state[r].deferred <=> req[r].preread /\ Filter!IsPost(r))
    /\ at[r] = "on_request" => ~req[r].denied
    /\ at[r] = "body" /\ req[r].preread => ~state[r].ran
    /\ at[r] = "body" /\ ~req[r].preread =>
          /\ ~req[r].denied
          /\ Filter!IsLocal(r) => Filter!IsPost(r) /\ state[r].ran
ServeInv == \A r \in Ids : ServeSlot(r)

\* With PostgreSQL a failure is not kept, and whoever meets one was there while
\* the database was down
TroubleInv ==
    /\ ~up => \A r \in Ids : at[r] \notin Filter!Ended => r \in trouble
    /\ backend = "postgres" =>
        /\ store # "none"
        /\ \A r \in Ids : at[r] \in {"unavailable", "error"} => r \in trouble

FilterInv == FilterTypeOK /\ StoreInv /\ ServeInv /\ TroubleInv

-----------------------------------------------------------------------------
(* Types *)

LEMMA FilterTypeInit == Filter!Init => FilterTypeOK
BY DEF Filter!Init, FilterTypeOK, Filter!Fresh, Places, Filter!Ended

LEMMA FilterTypeStep ==
    ASSUME RequestsTyped, FilterTypeOK, [Filter!Next]_(Filter!vars)
    PROVE  FilterTypeOK'
<1>1. CASE UNCHANGED Filter!vars
  BY <1>1 DEF FilterTypeOK, Filter!vars
<1>2. ASSUME NEW r \in Ids, Filter!Arrive(r) PROVE FilterTypeOK'
  <2>1. PICK asked \in Requests[r] :
          /\ req' = [req EXCEPT ![r] = asked]
          /\ at' = [at EXCEPT ![r] = IF asked.preread THEN "body" ELSE "headers"]
    BY <1>2 DEF Filter!Arrive
  <2>2. asked \in RequestRecord
    BY DEF RequestRecord, RequestsTyped
  <2>3. at' \in [Ids -> Places] /\ req' \in [Ids -> RequestRecord \cup {NoState}]
    BY <2>1, <2>2 DEF FilterTypeOK, Places
  <2>4. \A q \in Ids : at'[q] # "none" => req'[q] \in RequestRecord
    BY <2>1, <2>2 DEF FilterTypeOK
  <2> QED BY <1>2, <2>3, <2>4 DEF Filter!Arrive, FilterTypeOK, Filter!service
<1>3. ASSUME NEW r \in Ids, Filter!Disconnect(r) PROVE FilterTypeOK'
  BY <1>3 DEF Filter!Disconnect, FilterTypeOK, Places, Filter!Ended, Filter!weather
<1>4. ASSUME NEW r \in Ids, Filter!Step(r) PROVE FilterTypeOK'
  <2>1. CASE Filter!EarlierFilter(r)
    BY <2>1 DEF Filter!EarlierFilter, FilterTypeOK, Filter!service, Filter!weather, Places,
                Filter!Ended
  <2>2. CASE Filter!OnRequest(r)
    <3>1. at' \in [Ids -> Places] /\ \A q \in Ids : at'[q] # "none" => at[q] # "none"
      BY <2>2 DEF Filter!OnRequest, FilterTypeOK, Filter!NeedsStore, Places, Filter!Ended
    <3>2. state' \in [Ids -> [ran : BOOLEAN, deferred : BOOLEAN]]
      BY <2>2 DEF Filter!OnRequest, FilterTypeOK
    <3> QED BY <2>2, <3>1, <3>2 DEF Filter!OnRequest, FilterTypeOK, Filter!service,
                                    Filter!weather
  <2>3. CASE Filter!OnRequestBody(r)
    <3>1. at' \in [Ids -> Places] /\ \A q \in Ids : at'[q] # "none" => at[q] # "none"
      BY <2>3 DEF Filter!OnRequestBody, Filter!BodyPasses, FilterTypeOK, Filter!NeedsStore,
                  Places, Filter!Ended
    <3>2. state' \in [Ids -> [ran : BOOLEAN, deferred : BOOLEAN]]
      BY <2>3 DEF Filter!OnRequestBody, FilterTypeOK
    <3> QED BY <2>3, <3>1, <3>2 DEF Filter!OnRequestBody, FilterTypeOK, Filter!service,
                                    Filter!weather
  <2>4. CASE Filter!BeginBuild(r)
    BY <2>4 DEF Filter!BeginBuild, FilterTypeOK, Filter!weather, Places
  <2>5. CASE Filter!BuildEnds(r)
    BY <2>5 DEF Filter!BuildEnds, Filter!AfterFailure, FilterTypeOK, Filter!weather, Places
  <2>6. CASE Filter!Wake(r)
    BY <2>6 DEF Filter!Wake, Filter!NeedsStore, FilterTypeOK, Filter!service, Filter!weather,
                Places
  <2>7. CASE Filter!Handle(r)
    BY <2>7 DEF Filter!Handle, FilterTypeOK, Filter!service, Filter!weather, Places,
                Filter!Ended
  <2>8. CASE Filter!Unavailable(r)
    BY <2>8 DEF Filter!Unavailable, FilterTypeOK, Filter!service, Filter!weather, Places,
                Filter!Ended
  <2> QED BY <1>4, <2>1, <2>2, <2>3, <2>4, <2>5, <2>6, <2>7, <2>8 DEF Filter!Step
<1>5. CASE Filter!Outage
  BY <1>5 DEF Filter!Outage, FilterTypeOK, Filter!service
<1>6. CASE Filter!Recovery
  BY <1>6 DEF Filter!Recovery, FilterTypeOK, Filter!service
<1> QED BY <1>1, <1>2, <1>3, <1>4, <1>5, <1>6 DEF Filter!Next

-----------------------------------------------------------------------------
(* The cell of the store *)

LEMMA FilterStoreStep ==
    ASSUME FilterTypeOK, StoreInv, [Filter!Next]_(Filter!vars)
    PROVE  StoreInv'
<1>1. CASE UNCHANGED Filter!vars
  BY <1>1 DEF StoreInv, Filter!vars
<1>2. ASSUME NEW r \in Ids, at[r] # "build", at'[r] # "build",
             \A q \in Ids : q # r => at'[q] = at[q],
             UNCHANGED Filter!service
      PROVE  StoreInv'
  <2>1. {q \in Ids : at'[q] = "build"} = {q \in Ids : at[q] = "build"}
    BY <1>2
  <2> QED BY <1>2, <2>1 DEF StoreInv, Filter!service
<1>3. ASSUME NEW r \in Ids, Filter!Arrive(r) PROVE StoreInv'
  BY <1>2, <1>3 DEF Filter!Arrive, FilterTypeOK
<1>4. ASSUME NEW r \in Ids, Filter!Disconnect(r) PROVE StoreInv'
  <2>1. {q \in Ids : at'[q] = "build"} = {q \in Ids : at[q] = "build"} \ {r}
    BY <1>4 DEF Filter!Disconnect, FilterTypeOK
  <2> QED BY <1>4, <2>1 DEF Filter!Disconnect, StoreInv
<1>5. ASSUME NEW r \in Ids, Filter!Step(r) PROVE StoreInv'
  <2>1. CASE Filter!EarlierFilter(r)
    BY <1>2, <2>1 DEF Filter!EarlierFilter, FilterTypeOK
  <2>2. CASE Filter!OnRequest(r)
    BY <1>2, <2>2 DEF Filter!OnRequest, Filter!NeedsStore, FilterTypeOK
  <2>3. CASE Filter!OnRequestBody(r)
    BY <1>2, <2>3 DEF Filter!OnRequestBody, Filter!BodyPasses, Filter!NeedsStore, FilterTypeOK
  <2>4. CASE Filter!BeginBuild(r)
    <3>1. {q \in Ids : at'[q] = "build"} = {q \in Ids : at[q] = "build"} \cup {r}
      BY <2>4 DEF Filter!BeginBuild, FilterTypeOK
    <3> QED BY <2>4, <3>1 DEF Filter!BeginBuild, StoreInv
  <2>5. CASE Filter!BuildEnds(r)
    <3>1. {q \in Ids : at'[q] = "build"} = {q \in Ids : at[q] = "build"} \ {r}
      BY <2>5 DEF Filter!BuildEnds, FilterTypeOK
    <3>2. opener' = {} /\ store = "unset" /\ built = 0
      BY <2>5 DEF Filter!BuildEnds, StoreInv
    <3>3. built' = IF store' = "open" THEN 1 ELSE 0
      BY <2>5, <3>2 DEF Filter!BuildEnds, Filter!AfterFailure
    <3> QED BY <2>5, <3>1, <3>2, <3>3 DEF Filter!BuildEnds, StoreInv
  <2>6. CASE Filter!Wake(r)
    BY <1>2, <2>6 DEF Filter!Wake, Filter!NeedsStore, FilterTypeOK
  <2>7. CASE Filter!Handle(r)
    BY <1>2, <2>7 DEF Filter!Handle, FilterTypeOK
  <2>8. CASE Filter!Unavailable(r)
    BY <1>2, <2>8 DEF Filter!Unavailable, FilterTypeOK
  <2> QED BY <1>5, <2>1, <2>2, <2>3, <2>4, <2>5, <2>6, <2>7, <2>8 DEF Filter!Step
<1>6. CASE Filter!Outage \/ Filter!Recovery
  BY <1>6 DEF Filter!Outage, Filter!Recovery, StoreInv, Filter!service
<1> QED BY <1>1, <1>3, <1>4, <1>5, <1>6 DEF Filter!Next

-----------------------------------------------------------------------------
(* One request *)

\* A request keeps its slot while it stays where it is
LEMMA ServeSame ==
    ASSUME NEW r \in Ids, ServeSlot(r), req'[r] = req[r], at'[r] = at[r],
           state'[r] = state[r], handled'[r] = handled[r]
    PROVE  ServeSlot(r)'
BY DEF ServeSlot, Filter!IsLocal, Filter!IsPost

LEMMA ServeOwn ==
    ASSUME FilterTypeOK, NEW r \in Ids, ServeSlot(r), Filter!Step(r)
    PROVE  ServeSlot(r)'
<1>1. at[r] \in Places /\ handled[r] \in Nat /\ state[r] \in [ran : BOOLEAN, deferred : BOOLEAN]
  BY DEF FilterTypeOK
<1>2. /\ req' = req
      /\ (Filter!IsPost(r)' <=> Filter!IsPost(r)) /\ (Filter!IsLocal(r)' <=> Filter!IsLocal(r))
  BY DEF Filter!Step, Filter!EarlierFilter, Filter!OnRequest, Filter!OnRequestBody,
         Filter!BeginBuild, Filter!BuildEnds, Filter!Wake, Filter!Handle,
         Filter!Unavailable, Filter!IsLocal, Filter!IsPost
<1>3. CASE Filter!EarlierFilter(r)
  <2>1. /\ at[r] = "headers" /\ state' = state /\ handled' = handled
        /\ at'[r] = IF req[r].denied THEN "denied" ELSE "on_request"
    BY <1>3 DEF Filter!EarlierFilter, FilterTypeOK
  <2> QED BY <1>1, <1>2, <2>1 DEF ServeSlot, Served
<1>4. CASE Filter!OnRequest(r)
  <2>1. /\ at[r] = "on_request" /\ handled' = handled /\ ~req[r].denied
        /\ ~state[r].ran /\ (state[r].deferred <=> req[r].preread /\ Filter!IsPost(r))
    BY <1>4 DEF Filter!OnRequest, ServeSlot
  <2>2. state'[r] = IF Filter!IsPost(r) THEN [ran |-> TRUE, deferred |-> FALSE] ELSE state[r]
    BY <1>4 DEF Filter!OnRequest, FilterTypeOK
  <2>3. at'[r] = IF ~Filter!IsLocal(r) \/ (Filter!IsPost(r) /\ ~state[r].deferred)
                 THEN IF req[r].preread THEN "forwarded" ELSE "body"
                 ELSE Filter!NeedsStore(r)
    BY <1>4 DEF Filter!OnRequest, Filter!Taken, FilterTypeOK
  <2>4. Filter!NeedsStore(r) \in {"handle", "unavailable", "wait"}
    BY DEF Filter!NeedsStore
  <2>5. Filter!IsPost(r) => Filter!IsLocal(r)
    BY DEF Filter!IsLocal
  <2>6. CASE Filter!IsLocal(r) /\ ~(Filter!IsPost(r) /\ ~state[r].deferred)
    BY <1>1, <1>2, <2>1, <2>3, <2>4, <2>6 DEF ServeSlot, Served
  <2>7. CASE ~Filter!IsLocal(r) /\ req[r].preread
    BY <1>1, <1>2, <2>1, <2>3, <2>7 DEF ServeSlot, Served
  <2>8. CASE ~Filter!IsLocal(r) /\ ~req[r].preread
    BY <1>1, <1>2, <2>1, <2>2, <2>3, <2>5, <2>8 DEF ServeSlot, Served
  <2>9. CASE Filter!IsPost(r) /\ ~state[r].deferred
    BY <1>1, <1>2, <2>1, <2>2, <2>3, <2>9 DEF ServeSlot, Served
  <2> QED BY <2>6, <2>7, <2>8, <2>9
<1>5. CASE Filter!OnRequestBody(r)
  <2>1. at[r] = "body" /\ handled' = handled /\ ~state[r].deferred
    BY <1>5 DEF Filter!OnRequestBody, ServeSlot
  <2>2. Filter!NeedsStore(r) \in {"handle", "unavailable",
  "wait"} /\ (Filter!IsPost(r) => Filter!IsLocal(r))
    BY DEF Filter!NeedsStore, Filter!IsLocal
  <2>3. CASE Filter!IsPost(r) /\ ~state[r].ran
    <3>1. req[r].preread
      BY <2>1, <2>2, <2>3 DEF ServeSlot
    <3>2. state'[r] = [state[r] EXCEPT !.deferred = TRUE] /\ at'[r] = "headers"
      BY <1>5, <2>3, <3>1 DEF Filter!OnRequestBody, Filter!RequestFiltersRan,
                              Filter!BodyPasses, FilterTypeOK
    <3>3. state'[r].deferred /\ ~state'[r].ran
      BY <1>1, <2>3, <3>2
    <3> QED BY <1>1, <1>2, <2>1, <2>3, <3>1, <3>2, <3>3 DEF ServeSlot, Served
  <2>4. CASE Filter!IsPost(r) /\ state[r].ran
    <3>1. at'[r] = Filter!NeedsStore(r)
      BY <1>5, <2>4 DEF Filter!OnRequestBody, Filter!RequestFiltersRan, FilterTypeOK
    <3> QED BY <1>1, <1>2, <2>1, <2>2, <2>4, <3>1 DEF ServeSlot, Served
  <2>5. CASE ~Filter!IsPost(r)
    <3>1. state' = state
          /\ at'[r] = IF state[r].ran \/ ~req[r].preread THEN "forwarded" ELSE "headers"
      BY <1>5, <2>5 DEF Filter!OnRequestBody, Filter!BodyPasses, FilterTypeOK
    <3> QED BY <1>1, <1>2, <2>1, <2>5, <3>1 DEF ServeSlot, Served
  <2> QED BY <2>3, <2>4, <2>5
<1>6. CASE Filter!BeginBuild(r) \/ Filter!BuildEnds(r) \/ Filter!Wake(r)
  <2>1. /\ at[r] \in {"wait", "build"} /\ handled' = handled
        /\ at'[r] \in {"wait", "build", "handle", "unavailable"}
    BY <1>6 DEF Filter!BeginBuild, Filter!BuildEnds, Filter!Wake, Filter!NeedsStore,
                FilterTypeOK
  <2> QED BY <1>1, <1>2, <2>1 DEF ServeSlot, Served
<1>7. CASE Filter!Handle(r)
  <2>1. at[r] = "handle" /\ at'[r] = "answered" /\ handled'[r] = handled[r] + 1
    BY <1>7 DEF Filter!Handle, FilterTypeOK
  <2> QED BY <1>1, <1>2, <2>1 DEF ServeSlot, Served
<1>8. CASE Filter!Unavailable(r)
  <2>1. at[r] = "unavailable" /\ at'[r] = "error" /\ handled' = handled
    BY <1>8 DEF Filter!Unavailable, FilterTypeOK
  <2> QED BY <1>1, <1>2, <2>1 DEF ServeSlot, Served
<1> QED BY <1>3, <1>4, <1>5, <1>6, <1>7, <1>8 DEF Filter!Step

LEMMA ServeStep ==
    ASSUME RequestsTyped, FilterTypeOK, ServeInv, [Filter!Next]_(Filter!vars)
    PROVE  ServeInv'
<1> SUFFICES ASSUME NEW r \in Ids PROVE ServeSlot(r)'
  BY DEF ServeInv
<1>1. ServeSlot(r)
  BY DEF ServeInv
<1>2. CASE UNCHANGED Filter!vars \/ Filter!Outage \/ Filter!Recovery
  BY <1>1, <1>2, ServeSame DEF Filter!vars, Filter!Outage, Filter!Recovery
<1>3. ASSUME NEW q \in Ids, q # r, Filter!Arrive(q) \/ Filter!Disconnect(q) \/ Filter!Step(q)
      PROVE  ServeSlot(r)'
  <2>1. req'[r] = req[r] /\ at'[r] = at[r] /\ state'[r] = state[r] /\ handled'[r] = handled[r]
    BY <1>3 DEF FilterTypeOK, Filter!Arrive, Filter!Disconnect, Filter!Step,
                Filter!EarlierFilter, Filter!OnRequest, Filter!OnRequestBody,
                Filter!BeginBuild, Filter!BuildEnds, Filter!Wake, Filter!Handle,
                Filter!Unavailable
  <2> QED BY <1>1, <2>1, ServeSame
<1>4. CASE Filter!Arrive(r)
  <2>1. PICK early \in BOOLEAN :
          req'[r].preread = early /\ at'[r] = IF early THEN "body" ELSE "headers"
    <3>1. PICK asked \in Requests[r] :
            /\ req' = [req EXCEPT ![r] = asked]
            /\ at' = [at EXCEPT ![r] = IF asked.preread THEN "body" ELSE "headers"]
      BY <1>4 DEF Filter!Arrive
    <3>2. asked.preread \in BOOLEAN
      BY DEF RequestsTyped
    <3>3. req'[r].preread = asked.preread /\ at'[r] = IF asked.preread THEN "body" ELSE "headers"
      BY <3>1 DEF FilterTypeOK
    <3> QED BY <3>2, <3>3
  <2>2. at[r] = "none" /\ state' = state /\ handled' = handled
    BY <1>4 DEF Filter!Arrive
  <2> QED BY <1>1, <2>1, <2>2 DEF ServeSlot, Served
<1>5. CASE Filter!Disconnect(r)
  <2>1. at[r] \notin Filter!Ended /\ at'[r] = "gone" /\ handled' = handled
    BY <1>5 DEF Filter!Disconnect, FilterTypeOK
  <2> QED BY <1>1, <2>1 DEF ServeSlot, Served, Filter!Ended
<1>6. CASE Filter!Step(r)
  BY <1>1, <1>6, ServeOwn
<1> QED BY <1>2, <1>3, <1>4, <1>5, <1>6 DEF Filter!Next

-----------------------------------------------------------------------------
(* Outages *)

LEMMA TroubleOwn ==
    ASSUME FilterTypeOK, TroubleInv, NEW r \in Ids, Filter!Step(r)
    PROVE  TroubleInv'
<1>1. UNCHANGED Filter!weather /\ at[r] \notin Filter!Ended /\ \A q \in Ids \ {r} : at'[q] = at[q]
  BY DEF FilterTypeOK, Filter!Ended, Filter!Step, Filter!EarlierFilter, Filter!OnRequest,
         Filter!OnRequestBody, Filter!BeginBuild, Filter!BuildEnds,
         Filter!Wake, Filter!Handle, Filter!Unavailable
<1>2. ~up' => \A q \in Ids : at'[q] \notin Filter!Ended => q \in trouble'
  BY <1>1 DEF TroubleInv, Filter!weather
<1>3. ASSUME backend = "postgres" PROVE store' # "none"
  BY <1>3 DEF TroubleInv, Filter!Step, Filter!EarlierFilter, Filter!OnRequest,
              Filter!OnRequestBody, Filter!BeginBuild, Filter!BuildEnds,
              Filter!AfterFailure, Filter!Wake, Filter!Handle, Filter!Unavailable,
              Filter!service
<1>4. ASSUME backend = "postgres", at'[r] \in {"unavailable", "error"} PROVE r \in trouble
  <2>1. Filter!NeedsStore(r) # "unavailable"
    BY <1>4 DEF TroubleInv, Filter!NeedsStore
  <2>2. Filter!NeedsStore(r) \in {"handle", "wait", "unavailable"}
    BY DEF Filter!NeedsStore
  <2>3. CASE Filter!Unavailable(r)
    BY <1>4, <2>3 DEF Filter!Unavailable, TroubleInv
  <2>4. CASE Filter!BuildEnds(r)
    BY <1>1, <1>4, <2>4 DEF Filter!BuildEnds, FilterTypeOK, TroubleInv
  <2>5. CASE Filter!EarlierFilter(r) \/ Filter!BeginBuild(r) \/ Filter!Handle(r)
    BY <1>4, <2>5 DEF Filter!EarlierFilter, Filter!BeginBuild, Filter!Handle, FilterTypeOK
  <2>6. CASE Filter!OnRequest(r) \/ Filter!OnRequestBody(r) \/ Filter!Wake(r)
    BY <1>4, <2>1, <2>2, <2>6 DEF Filter!OnRequest, Filter!OnRequestBody, Filter!BodyPasses,
                                  Filter!Wake, FilterTypeOK
  <2> QED BY <2>3, <2>4, <2>5, <2>6 DEF Filter!Step
<1> QED BY <1>1, <1>2, <1>3, <1>4 DEF TroubleInv, Filter!weather

LEMMA TroubleStep ==
    ASSUME FilterTypeOK, TroubleInv, [Filter!Next]_(Filter!vars)
    PROVE  TroubleInv'
<1>1. CASE UNCHANGED Filter!vars
  BY <1>1 DEF Filter!vars, TroubleInv
<1>2. ASSUME NEW r \in Ids, Filter!Arrive(r) PROVE TroubleInv'
  <2>1. /\ UNCHANGED <<backend, up, store>> /\ at'[r] \in {"body", "headers"}
        /\ \A q \in Ids \ {r} : at'[q] = at[q]
        /\ trouble' = IF up THEN trouble ELSE trouble \cup {r}
    BY <1>2 DEF Filter!Arrive, FilterTypeOK, Filter!service
  <2> QED BY <2>1 DEF TroubleInv
<1>3. ASSUME NEW r \in Ids, Filter!Disconnect(r) PROVE TroubleInv'
  <2>1. /\ UNCHANGED <<Filter!weather, store>> /\ at'[r] = "gone"
        /\ \A q \in Ids \ {r} : at'[q] = at[q]
    BY <1>3 DEF Filter!Disconnect, FilterTypeOK
  <2> QED BY <2>1 DEF TroubleInv, Filter!weather, Filter!Ended
<1>4. CASE Filter!Outage
  BY <1>4 DEF Filter!Outage, TroubleInv, Filter!service
<1>5. CASE Filter!Recovery
  BY <1>5 DEF Filter!Recovery, TroubleInv, Filter!service
<1> QED BY <1>1, <1>2, <1>3, <1>4, <1>5, TroubleOwn DEF Filter!Next

-----------------------------------------------------------------------------
(* What a request may count on *)

LEMMA FilterInit == Filter!Init => FilterInv
<1>1. Filter!Init => StoreInv /\ ServeInv /\ TroubleInv
  BY DEF Filter!Init, Filter!Fresh, StoreInv, ServeInv, ServeSlot, TroubleInv, Served,
         Filter!Ended
<1> QED BY <1>1, FilterTypeInit DEF FilterInv

LEMMA FilterInvStep ==
    ASSUME RequestsTyped, FilterInv, [Filter!Next]_(Filter!vars) PROVE FilterInv'
BY FilterTypeStep, FilterStoreStep, ServeStep, TroubleStep DEF FilterInv

\* However requests meet, leave and fail, one at a time builds the store and it
\* is built once (get_or_init_store)
LEMMA StoreOpenedOnce == ASSUME FilterInv PROVE Filter!OneStore
<1>1. Filter!Cardinality(opener) = Cardinality(opener)
  BY DEF Filter!Cardinality, Cardinality
<1>2. Cardinality(opener) <= 1
  <2>1. CASE opener = {}
    <3>1. Cardinality({}) = 0
      BY FS_EmptySet
    <3> QED BY <2>1, <3>1
  <2>2. CASE opener # {}
    <3>1. PICK r : opener = {r}
      BY <2>2 DEF FilterInv, StoreInv
    <3>2. Cardinality({r}) = 1
      BY FS_Singleton
    <3> QED BY <3>1, <3>2
  <2> QED BY <2>1, <2>2
<1> QED BY <1>1, <1>2 DEF FilterInv, StoreInv, Filter!OneStore

LEMMA FilterTells == ASSUME FilterInv PROVE Filter!ServedSoundly
<1>1. Filter!ServedLocally /\ Filter!DeniedUntouched
  BY DEF FilterInv, ServeInv, ServeSlot, Served, Filter!ServedLocally, Filter!DeniedUntouched
<1>2. Filter!FailsOnlyInTrouble
  BY DEF FilterInv, TroubleInv, Filter!FailsOnlyInTrouble
<1> QED BY <1>1, <1>2, StoreOpenedOnce DEF Filter!ServedSoundly

\* A step of the service is a step of its filter
LEMMA FilterSteps ==
    ASSUME [Next]_vars, subject = "filter" \/ subject' = "filter"
    PROVE  subject = "filter" /\ [Filter!Next]_(Filter!vars)
BY DEF Next, FilterStep, ReadStep, InputStep, ConfigStep, vars, filterVars, Filter!vars

\* The routing of requests, the cell of the store and the outages, as one
\* inductive invariant of OpenaiConversationsFilter
THEOREM FilterInvariant ==
    ASSUME RequestsTyped PROVE Spec => [](subject = "filter" => FilterInv)
<1>1. Init => (subject = "filter" => FilterInv)
  BY FilterInit DEF Init
<1>2. (subject = "filter" => FilterInv) /\ [Next]_vars => (subject = "filter" => FilterInv)'
  BY FilterSteps, FilterInvStep
<1> QED BY <1>1, <1>2, PTL DEF Spec

\* All that a request may count on, whatever the methods, paths and number of
\* requests and outages: it is served here, once, and never forwarded
\* (OpenaiConversationsFilter), not if an earlier filter rejects it
\* (defer_body_until_request_filters), from the one store (get_or_init_store),
\* and with PostgreSQL it fails only if the database was down while it was there
THEOREM RequestsServedSoundly == ASSUME RequestsTyped PROVE Spec => []ServedSoundly
<1>1. (subject = "filter" => FilterInv) => ServedSoundly
  BY FilterTells DEF ServedSoundly
<1> QED BY <1>1, FilterInvariant, PTL

\* An open store stays open, whatever becomes of the request that opened it
\* (get_or_init_store)
THEOREM OpenStoreStays ==
    ASSUME RequestsTyped
    PROVE  Spec => [][subject = "filter" /\ store = "open" => store' = "open"]_vars
<1>1. ASSUME FilterInv, [Filter!Next]_(Filter!vars), store = "open" PROVE store' = "open"
  BY <1>1 DEF FilterInv, StoreInv, Filter!vars, Filter!Next, Filter!Arrive, Filter!Disconnect,
              Filter!Step, Filter!EarlierFilter, Filter!OnRequest,
              Filter!OnRequestBody, Filter!BeginBuild, Filter!BuildEnds, Filter!Wake,
              Filter!Handle, Filter!Unavailable, Filter!Outage, Filter!Recovery,
              Filter!service
<1>2. (subject = "filter" => FilterInv) /\ [Next]_vars
        => [subject = "filter" /\ store = "open" => store' = "open"]_vars
  BY <1>1, FilterSteps
<1> QED BY <1>2, FilterInvariant, PTL DEF Spec

-----------------------------------------------------------------------------
(* Opening a store                                                         *)

Statements(f) == Store!ToSet(Store!Ddl(Store!Tables(config[f])))

\* The relation that statement s of filter f creates
Created(f, s) == [name |-> Store!Stored(config[f], s.name), shape |-> s.shape]

-----------------------------------------------------------------------------
(* The invariant                                                           *)

StoreTypeOK ==
    /\ config \in Deployments
    /\ outcome \in [Store!Filters -> {"new", "invalid", "accepted", "ddl", "open"}]
    /\ DOMAIN todo = Store!Filters
    /\ \A f \in Store!Filters : todo[f] \in Seq(Statements(f))

\* Only filters whose configuration is valid get anywhere
Vetted ==
    \A f \in Store!Filters :
        outcome[f] \in {"accepted", "ddl", "open"} => Store!ValidConfig(config[f])

\* Every relation was made for a statement of a valid configuration
RelationsFromDdl ==
    \A r \in relations : \E g \in Store!Filters :
        Store!ValidConfig(config[g]) /\ \E u \in Statements(g) : r = Created(g, u)

\* What a statement was executed for is there; the rest is still to do
Progress ==
    \A f \in Store!Filters : outcome[f] \in {"ddl", "open"} =>
        \A s \in Statements(f) :
            Created(f, s) \in relations \/ (outcome[f] = "ddl" /\ s \in Store!ToSet(todo[f]))

LoadInv == StoreTypeOK /\ Vetted
SchemaInv == RelationsFromDdl /\ Progress

-----------------------------------------------------------------------------
(* Names and statements *)

\* generate_ddl: the statements are a sequence of them
LEMMA DdlIsSequence == ASSUME NEW t PROVE Store!Ddl(t) \in Seq(Store!ToSet(Store!Ddl(t)))
<1> DEFINE R(n, k) == [name |-> n, shape |-> k]
           a == <<R(t.responses, "responses"), R(t.conversations, "conversations"),
                  R(Store!TenantIndex(t.conversations), "index")>>
           b == IF t.items = Absent THEN <<>>
                ELSE <<R(t.items, "items"), R(Store!ItemsIndex(t.items), "index")>>
           S == {R(t.responses, "responses"), R(t.conversations, "conversations"),
                 R(Store!TenantIndex(t.conversations), "index"), R(t.items, "items"),
                 R(Store!ItemsIndex(t.items), "index")}
<1>1. Store!Ddl(t) = a \o b
  BY DEF Store!Ddl
<1>2. a \in Seq(S) /\ b \in Seq(S)
  <2> HIDE DEF R
  <2>1. a \in Seq(S)
    OBVIOUS
  <2>2. CASE t.items = Absent
    BY <2>2
  <2>3. CASE t.items # Absent
    BY <2>3
  <2> QED BY <2>1, <2>2, <2>3
<1> HIDE DEF a, b, S
<1>3. Store!Ddl(t) \in Seq(S)
  BY <1>1, <1>2
<1>4. DOMAIN Store!Ddl(t) = 1..Len(Store!Ddl(t)) /\ Len(Store!Ddl(t)) \in Nat
      /\ Store!Ddl(t) = [i \in 1..Len(Store!Ddl(t)) |-> Store!Ddl(t)[i]]
  BY <1>3
<1> QED
  <2>1. \A i \in 1..Len(Store!Ddl(t)) : Store!Ddl(t)[i] \in Store!ToSet(Store!Ddl(t))
    BY <1>4 DEF Store!ToSet
  <2> QED BY <1>4, <2>1, IsASeq

\* The first statement and the others
LEMMA HeadAndTail ==
    ASSUME NEW S, NEW q \in Seq(S), q # <<>>
    PROVE  /\ Head(q) \in S /\ Tail(q) \in Seq(S)
           /\ \A s \in Store!ToSet(q) : s = Head(q) \/ s \in Store!ToSet(Tail(q))
<1>1. Head(q) = q[1] /\ Len(q) \in Nat /\ Len(q) >= 1 /\ DOMAIN q = 1..Len(q)
      /\ Head(q) \in S /\ Tail(q) \in Seq(S)
      /\ Len(Tail(q)) = Len(q) - 1
      /\ \A i \in 1..Len(Tail(q)) : Tail(q)[i] = q[i + 1]
  BY HeadTailProperties
<1>2. ASSUME NEW i \in DOMAIN q, i # 1 PROVE q[i] \in Store!ToSet(Tail(q))
  <2>1. i - 1 \in 1..Len(Tail(q)) /\ (i - 1) + 1 = i
    BY <1>1, <1>2
  <2>2. i - 1 \in DOMAIN Tail(q) /\ Tail(q)[i - 1] = q[i]
    BY <1>1, <2>1
  <2> QED BY <2>2 DEF Store!ToSet
<1> QED BY <1>1, <1>2 DEF Store!ToSet

Relation(n, k) == [name |-> n, shape |-> k]

\* The tables and the indexes, those of the items only if there are any
LEMMA DdlStatements ==
    ASSUME NEW t, NEW s \in Store!ToSet(Store!Ddl(t))
    PROVE  \/ s = Relation(t.responses, "responses")
           \/ s = Relation(t.conversations, "conversations")
           \/ s = Relation(Store!TenantIndex(t.conversations), "index")
           \/ t.items # Absent /\ \/ s = Relation(t.items, "items")
                                  \/ s = Relation(Store!ItemsIndex(t.items), "index")
<1> DEFINE a == <<Relation(t.responses, "responses"),
                  Relation(t.conversations, "conversations"),
                  Relation(Store!TenantIndex(t.conversations), "index")>>
           b == <<Relation(t.items, "items"), Relation(Store!ItemsIndex(t.items), "index")>>
<1>1. CASE t.items = Absent
  <2>1. Store!Ddl(t) = a \o <<>>
    BY <1>1 DEF Store!Ddl, Relation
  <2>2. \A i \in DOMAIN Store!Ddl(t) : i \in 1..3 /\ Store!Ddl(t)[i] = a[i]
    BY <2>1
  <2> QED BY <2>2 DEF Store!ToSet
<1>2. CASE t.items # Absent
  <2>1. Store!Ddl(t) = a \o b
    BY <1>2 DEF Store!Ddl, Relation
  <2>2. \A i \in DOMAIN Store!Ddl(t) :
            \/ i \in 1..3 /\ Store!Ddl(t)[i] = a[i]
            \/ i \in 4..5 /\ Store!Ddl(t)[i] = b[i - 3]
    BY <2>1
  <2> QED BY <1>2, <2>2 DEF Store!ToSet
<1> QED BY <1>1, <1>2

\* validate_postgres_identifiers leaves room for what index names add, so that
\* no name is cut
LEMMA NamesFit ==
    ASSUME NEW c, Store!ValidConfig(c), NEW s \in Store!ToSet(Store!Ddl(Store!Tables(c)))
    PROVE  Store!Stored(c, s.name) = [id |-> s.name.id, len |-> s.name.len]
<1>1. CASE c.backend # "postgres"
  BY <1>1 DEF Store!Stored
<1>2. CASE c.backend = "postgres"
  <2> DEFINE t == Store!Tables(c)
  <2>1. Store!PostgresIdentifiers(t)
    BY <1>2 DEF Store!ValidConfig
  <2>2. /\ t.responses.len \in 1..63 /\ t.conversations.len \in 1..49
        /\ t.items # Absent => t.items.len \in 1..46
    BY <2>1 DEF Store!PostgresIdentifiers, Store!DistinctTables, Store!ValidIdentifier,
                Store!MaxIdentifierLen,
                Store!PostgresMaxIdentifierLen
  <2> HIDE DEF t
  <2>3. s.name.len <= 63 /\ s.name.len \in Int
    <3>1. Store!TenantIndex(t.conversations).len = t.conversations.len + 14
          /\ Store!ItemsIndex(t.items).len = t.items.len + 17
      BY DEF Store!TenantIndex, Store!ItemsIndex, Store!Derived
    <3>2. s \in Store!ToSet(Store!Ddl(t))
      BY DEF t
    <3> QED BY <2>2, <3>1, <3>2, DdlStatements DEF Relation
  <2> QED BY <1>2, <2>3 DEF Store!Stored, Store!PostgresMaxIdentifierLen
<1> QED BY <1>1, <1>2

-----------------------------------------------------------------------------
(* What validation vouches for                                             *)

\* Only statements touch the database, and nothing the configuration
LEMMA ConfigStays ==
    ASSUME [Store!Next]_(Store!vars)
    PROVE  /\ config' = config /\ Store!Filters' = Store!Filters
           /\ \A g \in Store!Filters :
                /\ Statements(g)' = Statements(g)
                /\ \A s : Created(g, s)' = Created(g, s)
<1>1. config' = config
  BY DEF Store!Next, Store!Load, Store!Connect, Store!Statement, Store!Open,
    Store!Crash, Store!vars
<1> QED BY <1>1 DEF Store!Filters, Statements, Created

\* A filter that connects has its statements to do: the check before
\* connecting admits what validation has admitted
LEMMA ConnectAdmits ==
    ASSUME LoadInv, NEW f \in Store!Filters, Store!Connect(f)
    PROVE  /\ Store!ValidConfig(config[f])
           /\ outcome' = [outcome EXCEPT ![f] = "ddl"]
           /\ todo' = [todo EXCEPT ![f] = Store!Ddl(Store!Tables(config[f]))]
<1>1. Store!ValidConfig(config[f])
  BY DEF Store!Connect, LoadInv, Vetted
<1>2. config[f].backend = "postgres" => Store!RevalidateHost(config[f])
  BY <1>1 DEF Store!ValidConfig, Store!PostgresUrl, Store!RevalidateHost
<1> QED BY <1>1, <1>2 DEF Store!Connect

\* What a statement does
LEMMA StatementEffect ==
    ASSUME LoadInv, NEW f \in Store!Filters, Store!Statement(f)
    PROVE  /\ outcome' = outcome /\ outcome[f] = "ddl"
           /\ todo' = [todo EXCEPT ![f] = Tail(@)]
           /\ relations' = Store!Execute(config[f], Head(todo[f])).relations
           /\ Head(todo[f]) \in Statements(f) /\ Tail(todo[f]) \in Seq(Statements(f))
           /\ \A s \in Store!ToSet(todo[f]) : s = Head(todo[f])
                \/ s \in Store!ToSet(Tail(todo[f]))
<1>1. todo[f] \in Seq(Statements(f)) /\ todo[f] # <<>>
  BY DEF LoadInv, StoreTypeOK, Store!Statement
<1>2. /\ Head(todo[f]) \in Statements(f) /\ Tail(todo[f]) \in Seq(Statements(f))
      /\ \A s \in Store!ToSet(todo[f]) : s = Head(todo[f]) \/ s \in Store!ToSet(Tail(todo[f]))
  BY <1>1, HeadAndTail
<1> QED BY <1>2 DEF Store!Statement, Store!Execute

LEMMA LoadInvStep == ASSUME LoadInv, [Store!Next]_(Store!vars) PROVE LoadInv'
<1>1. /\ config' = config /\ Store!Filters' = Store!Filters
      /\ \A g \in Store!Filters : Statements(g)' = Statements(g)
  BY ConfigStays
<1> USE <1>1 DEF LoadInv, StoreTypeOK, Vetted
<1>2. CASE UNCHANGED Store!vars
  BY <1>2 DEF Store!vars
<1>3. ASSUME NEW f \in Store!Filters, Store!Load(f) PROVE LoadInv'
  BY <1>3 DEF Store!Load
<1>4. ASSUME NEW f \in Store!Filters, Store!Connect(f) PROVE LoadInv'
  <2>1. Store!Ddl(Store!Tables(config[f])) \in Seq(Statements(f))
    BY DdlIsSequence DEF Statements
  <2> QED BY <1>4, <2>1, ConnectAdmits
<1>5. ASSUME NEW f \in Store!Filters, Store!Statement(f) PROVE LoadInv'
  BY <1>5, StatementEffect
<1>6. ASSUME NEW f \in Store!Filters, Store!Open(f) PROVE LoadInv'
  BY <1>6 DEF Store!Open
<1>7. CASE Store!Crash
  BY <1>7 DEF Store!Crash
<1> QED BY <1>2, <1>3, <1>4, <1>5, <1>6, <1>7 DEF Store!Next

LEMMA StoreInit == Store!Init => LoadInv /\ SchemaInv
<1>1. Store!Init => LoadInv
  BY DEF Store!Init, LoadInv, StoreTypeOK, Vetted, Store!Filters
<1>2. Store!Init => SchemaInv
  BY DEF Store!Init, SchemaInv, RelationsFromDdl, Progress
<1> QED BY <1>1, <1>2

-----------------------------------------------------------------------------
(* The schema, statement by statement                                      *)

\* A relation that has the name of statement s already is the one s creates
LEMMA ExistingIsOwn ==
    ASSUME NamesApart, LoadInv, SchemaInv, NEW f \in Store!Filters, Store!ValidConfig(config[f]),
           NEW s \in Statements(f), Store!Exists(config[f], s)
    PROVE  Created(f, s) \in relations
<1>1. PICK r \in relations : r.name = Store!Stored(config[f], s.name)
  BY DEF Store!Exists
<1>2. PICK g \in Store!Filters : Store!ValidConfig(config[g])
          /\ \E u \in Statements(g) : r = Created(g, u)
  BY DEF SchemaInv, RelationsFromDdl
<1>3. PICK u \in Statements(g) : r = Created(g, u)
  BY <1>2
<1>4. Store!Stored(config[f], s.name) = Store!Stored(config[g], u.name)
  BY <1>1, <1>3 DEF Created
<1>5. s.shape = u.shape
  BY <1>2, <1>4 DEF NamesApart, LoadInv, StoreTypeOK, Store!Filters, Statements
<1> QED BY <1>3, <1>4, <1>5 DEF Created

LEMMA ConnectStep ==
    ASSUME LoadInv, SchemaInv, NEW f \in Store!Filters, Store!Connect(f)
    PROVE  Progress'
<1>1. /\ relations' = relations /\ config' = config /\ Store!Filters' = Store!Filters
      /\ \A g \in Store!Filters :
              Statements(g)' = Statements(g) /\ \A s : Created(g, s)' = Created(g, s)
  BY ConfigStays DEF Store!Connect, Store!Next
<1> SUFFICES ASSUME NEW g \in Store!Filters, outcome'[g] \in {"ddl", "open"},
                    NEW s \in Statements(g)
             PROVE  Created(g, s) \in relations
                    \/ (outcome'[g] = "ddl" /\ s \in Store!ToSet(todo'[g]))
  BY <1>1 DEF Progress
<1>2. CASE g = f
  BY <1>2, ConnectAdmits DEF LoadInv, StoreTypeOK, Statements
<1>3. CASE g # f
  BY <1>3, ConnectAdmits DEF LoadInv, StoreTypeOK, SchemaInv, Progress
<1> QED BY <1>2, <1>3

LEMMA StatementStep ==
    ASSUME NamesApart, LoadInv, SchemaInv, NEW f \in Store!Filters, Store!Statement(f)
    PROVE  SchemaInv'
<1> DEFINE s0 == Head(todo[f])
<1>1. /\ config' = config /\ Store!Filters' = Store!Filters
      /\ \A g \in Store!Filters :
              Statements(g)' = Statements(g) /\ \A s : Created(g, s)' = Created(g, s)
  BY ConfigStays DEF Store!Next
<1>2. /\ outcome' = outcome /\ outcome[f] = "ddl"
      /\ todo' = [todo EXCEPT ![f] = Tail(@)]
      /\ relations' = Store!Execute(config[f], s0).relations
      /\ s0 \in Statements(f)
      /\ \A s \in Store!ToSet(todo[f]) : s = s0 \/ s \in Store!ToSet(Tail(todo[f]))
  BY StatementEffect
<1>3. Store!ValidConfig(config[f])
  BY <1>2 DEF LoadInv, Vetted
<1> HIDE DEF s0
<1>4. relations \subseteq relations' /\ relations' \subseteq relations \cup {Created(f, s0)}
  BY <1>2 DEF Store!Execute, Created
<1>5. Created(f, s0) \in relations'
  <2>1. CASE Store!Exists(config[f], s0)
    BY <1>2, <1>3, <1>4, <2>1, ExistingIsOwn
  <2>2. CASE ~Store!Exists(config[f], s0)
    BY <1>2, <2>2 DEF Store!Execute, Created
  <2> QED BY <2>1, <2>2
<1>6. RelationsFromDdl'
  BY <1>1, <1>2, <1>3, <1>4 DEF SchemaInv, RelationsFromDdl
<1>7. Progress'
  <2> SUFFICES ASSUME NEW g \in Store!Filters, outcome[g] \in {"ddl", "open"},
                      NEW s \in Statements(g)
               PROVE  Created(g, s) \in relations'
                      \/ (outcome[g] = "ddl" /\ s \in Store!ToSet(todo'[g]))
    BY <1>1, <1>2 DEF Progress
  <2>1. Created(g, s) \in relations \/ (outcome[g] = "ddl" /\ s \in Store!ToSet(todo[g]))
    BY DEF SchemaInv, Progress
  <2>2. CASE g = f
    BY <1>2, <1>4, <1>5, <2>1, <2>2 DEF LoadInv, StoreTypeOK
  <2>3. CASE g # f
    BY <1>2, <1>4, <2>1, <2>3 DEF LoadInv, StoreTypeOK
  <2> QED BY <2>2, <2>3
<1> QED BY <1>6, <1>7 DEF SchemaInv

LEMMA SchemaStep ==
    ASSUME NamesApart, LoadInv, SchemaInv, [Store!Next]_(Store!vars) PROVE SchemaInv'
<1>1. /\ config' = config /\ Store!Filters' = Store!Filters
      /\ \A g \in Store!Filters :
              Statements(g)' = Statements(g) /\ \A s : Created(g, s)' = Created(g, s)
  BY ConfigStays
<1>2. relations' = relations => RelationsFromDdl'
  BY <1>1 DEF SchemaInv, RelationsFromDdl
<1>3. CASE UNCHANGED Store!vars
  BY <1>1, <1>2, <1>3 DEF Store!vars, SchemaInv, Progress
<1>4. ASSUME NEW f \in Store!Filters, Store!Load(f) PROVE SchemaInv'
  <2>1. /\ relations' = relations /\ todo' = todo
        /\ \A g \in Store!Filters : outcome'[g] \in {"ddl", "open"} => outcome'[g] = outcome[g]
    BY <1>4 DEF Store!Load, LoadInv, StoreTypeOK
  <2> QED BY <1>1, <1>2, <2>1 DEF SchemaInv, Progress
<1>5. ASSUME NEW f \in Store!Filters, Store!Connect(f) PROVE SchemaInv'
  BY <1>2, <1>5, ConnectStep DEF Store!Connect, SchemaInv
<1>6. ASSUME NEW f \in Store!Filters, Store!Statement(f) PROVE SchemaInv'
  BY <1>6, StatementStep
<1>7. ASSUME NEW f \in Store!Filters, Store!Open(f) PROVE SchemaInv'
  <2>1. /\ relations' = relations /\ todo' = todo
        /\ outcome' = [outcome EXCEPT ![f] = "open"] /\ outcome[f] = "ddl"
        /\ Store!ToSet(todo[f]) = {}
    BY <1>7 DEF Store!Open, Store!ToSet
  <2>2. Progress'
    <3> SUFFICES ASSUME NEW g \in Store!Filters, outcome'[g] \in {"ddl", "open"},
                        NEW s \in Statements(g)
                 PROVE  Created(g, s) \in relations
                        \/ (outcome'[g] = "ddl" /\ s \in Store!ToSet(todo[g]))
      BY <1>1, <2>1 DEF Progress
    <3> QED BY <2>1 DEF LoadInv, StoreTypeOK, SchemaInv, Progress
  <2> QED BY <1>2, <2>1, <2>2 DEF SchemaInv
<1>8. CASE Store!Crash
  BY <1>1, <1>2, <1>8 DEF Store!Crash, SchemaInv, Progress
<1> QED BY <1>3, <1>4, <1>5, <1>6, <1>7, <1>8 DEF Store!Next

-----------------------------------------------------------------------------
(* The theorems                                                            *)

\* generate_ddl, validate_postgres_identifiers: whatever crashed before, an open
\* store has every table and index, uncut and with its own columns
LEMMA OpenStoreIsComplete == ASSUME LoadInv, SchemaInv PROVE Store!SchemaComplete
<1> SUFFICES ASSUME NEW f \in Store!Filters, outcome[f] = "open", NEW s \in Statements(f)
             PROVE  [name |-> [id |-> s.name.id, len |-> s.name.len], shape |-> s.shape]
                        \in relations
  BY DEF Store!SchemaComplete, Statements
<1>1. Created(f, s) \in relations
  BY DEF SchemaInv, Progress
<1>2. Store!Stored(config[f], s.name) = [id |-> s.name.id, len |-> s.name.len]
  BY NamesFit DEF LoadInv, Vetted, Statements
<1> QED BY <1>1, <1>2 DEF Created

\* "safe to run on every startup": a valid configuration is refused at no start
\* (revalidate_postgres_host, generate_ddl)
LEMMA ValidConfigsOpen == ASSUME LoadInv PROVE Store!StartsAgain
BY DEF LoadInv, StoreTypeOK, Store!StartsAgain

\* has_verified_postgres_ssl_mode judges the mode pg_connect_options will use
LEMMA RootCertVerifies == ASSUME LoadInv PROVE Store!RootCertUsed
<1> SUFFICES ASSUME NEW f \in Store!Filters, outcome[f] \in {"ddl", "open"},
                    config[f].backend = "postgres", Store!HasRootCert(config[f])
             PROVE  Store!Verified(Store!EffectiveSslMode(config[f]))
  BY DEF Store!RootCertUsed
<1>1. Store!PostgresSsl(config[f])
  BY DEF LoadInv, Vetted, Store!ValidConfig
<1> QED BY <1>1 DEF Store!PostgresSsl, Store!VerifiedSslMode, Store!EffectiveSslMode

\* The driver takes the last parameter that names a host, validation looks at
\* all of them (validate_postgres_database_url against pg_connect_options)
LEMMA VettedTarget ==
    ASSUME NEW c, Store!PostgresUrl(c), ~c.allow_private, NEW n \in Nat,
      DOMAIN c.url.params = 1..n
    PROVE  Store!Target(c) \in {"public", "legacy_public"}
<1>1. CASE Store!Targets(c.url) = {}
  <2>1. Store!HostAllowed(c.url.host, c.allow_private) /\ Store!Target(c) = c.url.host
    BY <1>1 DEF Store!PostgresUrl, Store!Target
  <2> QED BY <2>1 DEF Store!HostAllowed, Store!IsIp, Store!IsLegacy, Store!Sensitive
<1>2. CASE Store!Targets(c.url) # {}
  <2> DEFINE k == Store!Max(Store!Targets(c.url))
             p == c.url.params[k]
  <2>1. k \in Store!Targets(c.url)
    <3>1. Store!Targets(c.url) \subseteq 1..n
      BY DEF Store!Targets
    <3>2. k = Max(Store!Targets(c.url))
      BY DEF Store!Max, Max
    <3> QED BY <1>2, <3>1, <3>2, LargestElement
  <2>2. p.key \in {"host", "hostaddr"} /\ Store!ParamAllowed(p, c.allow_private)
        /\ Store!Target(c) = p.value
    BY <1>2, <2>1 DEF Store!PostgresUrl, Store!Target, Store!Targets
  <2> HIDE DEF p
  <2>3. CASE p.key = "hostaddr"
    BY <2>2, <2>3 DEF Store!ParamAllowed, Store!HostaddrAllowed, Store!IsIp, Store!Sensitive
  <2>4. CASE p.key = "host"
    BY <2>2, <2>4 DEF Store!ParamAllowed, Store!HostAllowed, Store!IsIp, Store!IsLegacy,
                      Store!Sensitive
  <2> QED BY <2>2, <2>3, <2>4
<1> QED BY <1>1, <1>2

\* Without allow_private, the database that is connected to stands under a
\* literal public address, by whichever part of the URL it was named
LEMMA TargetIsVetted == ASSUME ParamsListed, LoadInv PROVE Store!TargetVetted
<1> SUFFICES ASSUME NEW f \in Store!Filters, outcome[f] \in {"ddl", "open"},
                    config[f].backend = "postgres", ~config[f].allow_private
             PROVE  Store!Target(config[f]) \in {"public", "legacy_public"}
  BY DEF Store!TargetVetted
<1>1. Store!ValidConfig(config[f]) /\ Store!PostgresUrl(config[f])
  BY DEF LoadInv, Vetted, Store!ValidConfig
<1>2. config[f].url.params \in Seq({config[f].url.params[k] : k \in DOMAIN config[f].url.params})
  BY <1>1 DEF ParamsListed, LoadInv, StoreTypeOK, Store!Filters
<1>3. \E n \in Nat : DOMAIN config[f].url.params = 1..n
  BY <1>2
<1> QED BY <1>1, <1>3, VettedTarget

\* A crash between two statements leaves relations that the next start takes for
\* its own, so that every start goes on with the schema where the last one died;
\* of the filters' five outcomes none is a failure, and only valid configurations
\* get beyond the first two (from_config, build, generate_ddl)
THEOREM StoreInvariant ==
    ASSUME NamesApart PROVE Spec => [](subject = "config" => LoadInv /\ SchemaInv)
<1> DEFINE OpeningInv == subject = "config" => LoadInv /\ SchemaInv
<1>1. Init => OpeningInv
  BY StoreInit DEF Init
<1>2. OpeningInv /\ [Next]_vars => OpeningInv'
  <2> SUFFICES ASSUME OpeningInv, [Next]_vars, subject' = "config" PROVE (LoadInv /\ SchemaInv)'
    OBVIOUS
  <2>1. subject = "config" /\ [Store!Next]_(Store!vars)
    BY DEF Next, FilterStep, ReadStep, InputStep, ConfigStep, vars, configVars, Store!vars
  <2> QED BY <2>1, LoadInvStep, SchemaStep
<1> QED BY <1>1, <1>2, PTL DEF Spec

\* What validation promises of a store that connects and opens, together
\* (validate and build of the store's configuration)
THEOREM StoresOpenSoundly ==
    ASSUME NamesApart, ParamsListed PROVE Spec => []StoreOpensSoundly
<1>1. (subject = "config" => LoadInv /\ SchemaInv) => StoreOpensSoundly
  BY RootCertVerifies, TargetIsVetted, ValidConfigsOpen, OpenStoreIsComplete
  DEF StoreOpensSoundly, Store!StoreOpensSoundly
<1> QED BY <1>1, StoreInvariant, PTL
=============================================================================
