------------------------------- MODULE Service -------------------------------
(***************************************************************************)
(* The storage service around the write handlers: how the conversations    *)
(* filter reaches its store, how the store is configured and opened, and   *)
(* how clients page through items and stored inputs.  `subject` names the  *)
(* part a behaviour is about; the variables of the others are None.        *)
(***************************************************************************)
EXTENDS Integers, Sequences

CONSTANTS
    Ids, Requests, Backends, MaxOutages, NoState,   \* ConversationFilter
    Tenants, Convs, ItemIds, Inputs, Queries,       \* ConversationReads
    DefaultLimit, MaxLimit, MaxWrites, NoParam, Bad,
    StoredInputs, Limits, Cursors,                  \* InputItems
    InputDefaultLimit, InputMaxLimit, MaxUsize, NoId,
    Deployments, MaxCrashes, Absent,                \* StoreConfig
    None

VARIABLES
    subject,
    backend, req, at, state, store, opener, built,   \* ConversationFilter
    up, outages, trouble, handled,
    convs, items, walk, steady, writes,              \* ConversationReads
    input, params, got, paging,                      \* InputItems
    config, outcome, todo, relations, crashes        \* StoreConfig

filterVars == <<backend, req, at, state, store, opener, built, up, outages, trouble,
                handled>>
readVars == <<convs, items, walk, steady, writes>>
inputVars == <<input, params, got, paging>>
configVars == <<config, outcome, todo, relations, crashes>>
vars == <<subject, filterVars, readVars, inputVars, configVars>>

Filter == INSTANCE ConversationFilter
Walk == INSTANCE ConversationReads
Stored == INSTANCE InputItems WITH
    Inputs <- StoredInputs, DefaultLimit <- InputDefaultLimit, MaxLimit <- InputMaxLimit,
    walk <- paging
Store == INSTANCE StoreConfig

-----------------------------------------------------------------------------
(* What is given *)

\* What the filter sees of a request, and what the proxy does with it
RequestsTyped ==
    \A r \in Ids : Requests[r] \subseteq
        [method : STRING, path : Seq(STRING), preread : BOOLEAN, denied : BOOLEAN]

\* Item ids are numbers, 0 being no cursor; a page has room for an item
IdsAndLimits ==
    /\ ItemIds \subseteq Nat \ {0} /\ MaxLimit \in Nat \ {0} /\ DefaultLimit \in Int
    /\ \A q \in Queries : q.limit = NoParam \/ q.limit \in Int

\* Items have four fields; no field says that the item was rejected
ItemsTyped ==
    /\ \A i \in ItemIds :
          Inputs[i] \subseteq
              [type : STRING, role : STRING, content : STRING, status : STRING] \cup {Bad}
    /\ Bad \notin STRING

\* An id stands for one item of an input, and none reads as a number, which a
\* client that counts would send
InputsIdentified ==
    \A list \in StoredInputs :
        /\ list \in Seq({list[k] : k \in DOMAIN list})
        /\ \A j, k \in DOMAIN list : list[j].id = list[k].id /\ list[j].id # NoId => j = k
        /\ \A k \in DOMAIN list : list[k].id # NoParam /\ list[k].id \notin Nat

WordLimits ==
    /\ NoParam \notin Nat /\ Limits \subseteq Nat \cup {NoParam}
    /\ InputDefaultLimit \in Nat /\ InputMaxLimit \in Nat \ {0} /\ MaxUsize \in Nat

\* Whatever is deployed together does not want two kinds of relation under one
\* name.  Validation compares the tables of one filter with each other, and
\* neither with index names nor with the tables of the other filter.
NamesApart ==
    \A d \in Deployments : \A f, g \in DOMAIN d :
        Store!ValidConfig(d[f]) /\ Store!ValidConfig(d[g]) =>
            \A s \in Store!ToSet(Store!Ddl(Store!Tables(d[f]))),
               u \in Store!ToSet(Store!Ddl(Store!Tables(d[g]))) :
                Store!Stored(d[f], s.name) = Store!Stored(d[g], u.name) => s.shape = u.shape

\* The parameters of a PostgreSQL URL are a list
ParamsListed ==
    \A d \in Deployments : \A f \in DOMAIN d :
        Store!ValidConfig(d[f]) /\ d[f].backend = "postgres" =>
            d[f].url.params \in Seq({d[f].url.params[k] : k \in DOMAIN d[f].url.params})

ASSUME ServiceAssumption ==
    /\ RequestsTyped /\ IdsAndLimits /\ ItemsTyped
    /\ InputsIdentified /\ WordLimits
    /\ NamesApart /\ ParamsListed

-----------------------------------------------------------------------------
NoFilter ==
    /\ backend = None /\ req = None /\ at = None /\ state = None /\ store = None
    /\ opener = None /\ built = None /\ up = None /\ outages = None /\ trouble = None
    /\ handled = None
NoReads == convs = None /\ items = None /\ walk = None /\ steady = None /\ writes = None
NoInputs == input = None /\ params = None /\ got = None /\ paging = None
NoConfig ==
    config = None /\ outcome = None /\ todo = None /\ relations = None /\ crashes = None

Init ==
    \/ subject = "filter" /\ Filter!Init /\ NoReads /\ NoInputs /\ NoConfig
    \/ subject = "walk" /\ Walk!Init /\ NoFilter /\ NoInputs /\ NoConfig
    \/ subject = "inputs" /\ Stored!Init /\ NoFilter /\ NoReads /\ NoConfig
    \/ subject = "config" /\ Store!Init /\ NoFilter /\ NoReads /\ NoInputs

FilterStep ==
    subject = "filter" /\ Filter!Next /\ UNCHANGED <<readVars, inputVars, configVars>>
ReadStep ==
    subject = "walk" /\ Walk!Next /\ UNCHANGED <<filterVars, inputVars, configVars>>
InputStep ==
    subject = "inputs" /\ Stored!Next /\ UNCHANGED <<filterVars, readVars, configVars>>
ConfigStep ==
    subject = "config" /\ Store!Next /\ UNCHANGED <<filterVars, readVars, inputVars>>

Next == UNCHANGED subject /\ (FilterStep \/ ReadStep \/ InputStep \/ ConfigStep)

\* The proxy goes on with every request it has, and the client with its walk;
\* nobody has to write
Spec ==
    /\ Init /\ [][Next]_vars
    /\ \A r \in Ids : WF_filterVars(subject = "filter" /\ Filter!Step(r))
    /\ WF_readVars(subject = "walk" /\ Walk!Reads)
    /\ WF_inputVars(subject = "inputs" /\ Stored!NextPage)

-----------------------------------------------------------------------------
(* Properties *)

\* OpenAiConversationsFilter: a handler runs at most once, for a matching request
\* only, and never for one that an earlier filter denied, whichever hook comes
\* first; what does not match is forwarded.  However requests meet, leave and
\* fail, one store is opened and stays; and with PostgreSQL, whose failed
\* initialization is retried, a request fails only if the database was down
\* during that request.
ServedSoundly == subject = "filter" => Filter!ServedSoundly

\* Every request that is not abandoned is answered, forwarded or refused, also
\* when the one that was opening the store goes away.
RequestsEnd ==
    \A r \in Ids :
        (subject = "filter" /\ at[r] \notin Filter!Ended)
            ~> (subject = "filter" /\ at[r] \in Filter!Ended)

\* handle_list_items: a finished walk has shown every item that its tenant did not
\* delete exactly once and in order, whatever other tenants do under the same ids,
\* a page that promises more can be followed and shows its own tenant's items
\* only, and a stored item is stored unchanged when it is sent again.
\* list_input_items: the same of a walk over a stored input.
WalksComplete ==
    /\ subject = "walk" => Walk!WalksComplete
    /\ subject = "inputs" => Stored!WalksComplete

\* A client that pages through items or stored inputs comes to an end, with any
\* limit, zero included.
WalksEnd ==
    /\ (subject = "walk" /\ walk.state = "asked")
         ~> (subject = "walk" /\ walk.state \in {"done", "not_found"})
    /\ (subject = "inputs" /\ paging = "walking")
         ~> (subject = "inputs" /\ paging # "walking")

\* validate and build of the store's configuration: a configured root
\* certificate is verified against, a database on a private address needs
\* permission, a valid configuration opens at every start, and an open store has
\* all its tables and indexes although the proxy died between statements.
StoreOpensSoundly == subject = "config" => Store!StoreOpensSoundly
=============================================================================
