----------------------------- MODULE PromptChain -----------------------------
(***************************************************************************)
(* A chat completion request through a chain of prompt_enrich,             *)
(* model_to_header and ai_guardrails filters.  The proxy calls every       *)
(* filter of the chain in turn on what is buffered, chunk by chunk, and    *)
(* forwards the body at the end of the stream.  model_to_header releases   *)
(* the request when it has found the model.  What the proxy, which is not  *)
(* part of the repository, makes of that is left open where the tests and  *)
(* the docs do not settle it: it may pass over the filters behind, and it  *)
(* may forward at once what is buffered and let the rest follow as it      *)
(* comes.  The one thing the tests rely on is that buffering goes on when  *)
(* prompt_enrich stands first, as its documentation demands                *)
(* (tests/integration/tests/suite/prompt_enrich.rs, "before_model_to_      *)
(* header_composes").                                                      *)
(*                                                                         *)
(* A body is [json, messages, model, size]: messages is None when it is no *)
(* array, model is what the inner filter of model_to_header finds in it or *)
(* None, size its length in bytes; NoBody is a request without a body.     *)
(***************************************************************************)
EXTENDS Integers, Sequences

CONSTANTS
    Chains,       \* the chains of filter configurations
    Bodies,       \* what the client sends
    None, NoBody

VARIABLES
    chain, sent,  \* the chain as built, the client's body
    chunk, eos,   \* the body as the filters see it; whether the stream ended
    at,           \* the filter the call is at
    released,     \* "no", "yes" once a filter of this call released, or
                  \* "skipping" when the filters behind it are passed over
    headers,      \* extra_request_headers, in the order they are pushed
    outcome

vars == <<chain, sent, chunk, eos, at, released, headers, outcome>>

-----------------------------------------------------------------------------
(* Configuration *)

\* prompt_enrich's validate_config; a content is "" or some text
AnyPrependRole(c) ==
    /\ c.prepend # <<>> \/ c.append # <<>>
    /\ c.max_body_bytes > 0
    /\ \A i \in DOMAIN c.prepend : c.prepend[i].content # ""
    /\ \A i \in DOMAIN c.append : c.append[i].content # ""
ValidEnrich(c) ==
    /\ c.prepend # <<>> \/ c.append # <<>>
    /\ c.max_body_bytes > 0
    /\ \A i \in DOMAIN c.prepend : c.prepend[i].content # "" /\ c.prepend[i].role = "system"
    /\ \A i \in DOMAIN c.append : c.append[i].content # ""

\* NemoProvider::from_config
ValidProvider(p) == p.endpoint # "" /\ p.timeout_ms > 0

ValidFilter(c) ==
    CASE c.kind = "prompt_enrich"   -> ValidEnrich(c)
      [] c.kind = "ai_guardrails"   -> ValidProvider(c.provider)
      [] c.kind = "model_to_header" -> TRUE

\* The field and the header model_to_header hands to its inner filter
DefaultHeader(c) == [field |-> "model", header |-> "x-model"]
InnerConfig(c) == [field |-> "model", header |-> c.header]

\* The proxy buffers up to the smallest limit of the chain; the one of the
\* inner filter of model_to_header is its default
BufferLimitExceeded(filters, b) ==
    b # NoBody /\ \E i \in DOMAIN filters :
        filters[i].kind = "prompt_enrich" /\ b.size > filters[i].max_body_bytes

-----------------------------------------------------------------------------
(* The filters *)

\* The bytes serde_json writes for a body: whatever blanks the client had
\* between its tokens are gone
Serialized(b) == [b EXCEPT !.size = 2 + 3 * Len(b.messages)]

\* The configured messages around the client's
Enriched(c, b) == Serialized([b EXCEPT !.messages = c.prepend \o @ \o c.append])

\* The content-length that goes with the new body
LengthReceived(before, after) == before.size
LengthSent(before, after) == after.size

Unchanged == [action |-> "continue", body |-> chunk, pushed |-> <<>>]
InvalidBodyAction(c) ==
    IF c.on_invalid = "reject" THEN [Unchanged EXCEPT !.action = "reject"] ELSE Unchanged

\* on_request_body of prompt_enrich
EnrichEveryChunk(c) ==
    CASE chunk = NoBody -> Unchanged
      [] chunk # NoBody /\ (~chunk.json \/ chunk.messages = None) -> InvalidBodyAction(c)
      [] OTHER -> LET new == Enriched(c, chunk) IN
            [action |-> "continue", body |-> new,
             pushed |-> <<[name |-> "content-length", value |-> LengthSent(chunk, new)]>>]
EnrichOnRequestBody(c) ==
    CASE ~eos \/ chunk = NoBody -> Unchanged
      [] eos /\ chunk # NoBody /\ (~chunk.json \/ chunk.messages = None) -> InvalidBodyAction(c)
      [] OTHER -> LET new == Enriched(c, chunk) IN
            [action |-> "continue", body |-> new,
             pushed |-> <<[name |-> "content-length", value |-> LengthSent(chunk, new)]>>]

\* on_request_body of model_to_header hands every chunk to the inner filter,
\* which tells the model under the header and releases the request
PromoteModel(c) ==
    IF chunk = NoBody \/ chunk.model = None THEN Unchanged
    ELSE [action |-> "release", body |-> chunk,
          pushed |-> <<[name |-> InnerConfig(c).header, value |-> chunk[InnerConfig(c).field]]>>]

\* on_request_body of ai_guardrails: the provider is not asked
GuardOnRequestBody(c) == Unchanged

FilterResult(c) ==
    CASE c.kind = "prompt_enrich"   -> EnrichOnRequestBody(c)
      [] c.kind = "model_to_header" -> PromoteModel(c)
      [] c.kind = "ai_guardrails"   -> GuardOnRequestBody(c)

-----------------------------------------------------------------------------
Of(kind) == {i \in DOMAIN chain : chain[i].kind = kind}

\* "place prompt_enrich first": before every filter that may release
EnrichesFirst ==
    /\ Of("prompt_enrich") # {}
    /\ \A i \in Of("prompt_enrich"), j \in Of("model_to_header") : i < j

Init ==
    /\ chain \in Chains /\ sent \in Bodies
    /\ chunk = NoBody /\ eos = FALSE /\ at = 0 /\ released = "no" /\ headers = <<>>
    /\ outcome = "new"

\* from_config of every filter; one error refuses the chain
Build ==
    /\ outcome = "new"
    /\ outcome' = IF \A i \in DOMAIN chain : ValidFilter(chain[i]) THEN "ready" ELSE "refused"
    /\ UNCHANGED <<chain, sent, chunk, eos, at, released, headers>>

\* A first part of the body, with or without the model in it, or all of it;
\* and the stream goes on
BodyPart ==
    /\ outcome = "ready" /\ at = 0 /\ chunk = NoBody /\ sent # NoBody
    /\ ~BufferLimitExceeded(chain, sent)
    /\ chunk' \in {sent, [sent EXCEPT !.json = FALSE],
                   [sent EXCEPT !.json = FALSE, !.model = None]}
    /\ at' = 1
    /\ UNCHANGED <<chain, sent, eos, released, headers, outcome>>

\* The end of the stream: the filters get what is buffered, which is the
\* body as they left it when all of it had come
BodyEnd ==
    /\ outcome = "ready" /\ at = 0
    /\ eos' = TRUE /\ at' = 1
    /\ IF BufferLimitExceeded(chain, sent)
       THEN outcome' = "too_large" /\ UNCHANGED chunk
       ELSE chunk' = (IF chunk # NoBody /\ chunk.json THEN chunk ELSE sent) /\ UNCHANGED outcome
    /\ UNCHANGED <<chain, sent, released, headers>>

CallFilter ==
    /\ outcome = "ready" /\ at \in DOMAIN chain /\ released # "skipping"
    /\ LET r == FilterResult(chain[at]) IN
        /\ outcome' = IF r.action = "reject" THEN "rejected" ELSE outcome
        /\ released' = IF r.action = "release" THEN "yes" ELSE released
        /\ chunk' = r.body
        /\ headers' = headers \o r.pushed
        /\ at' = at + 1
    /\ UNCHANGED <<chain, sent, eos>>

\* The filters behind one that released are passed over
SkipFilter ==
    /\ outcome = "ready" /\ at \in DOMAIN chain /\ released # "no"
    /\ released' = "skipping" /\ at' = at + 1
    /\ UNCHANGED <<chain, sent, chunk, eos, headers, outcome>>

\* The end of the chain: wait for the next chunk or forward
ChainEnds ==
    /\ outcome = "ready" /\ at > Len(chain)
    /\ IF eos THEN outcome' = "forwarded" /\ UNCHANGED <<at, released>>
              ELSE at' = 0 /\ released' = "no" /\ UNCHANGED outcome
    /\ UNCHANGED <<chain, sent, chunk, eos, headers>>

\* A release before the end of the stream: what is buffered goes upstream and
\* the rest follows, so that the body is the client's
ForwardEarly ==
    /\ outcome = "ready" /\ at > Len(chain) /\ ~eos /\ released # "no"
    /\ ~EnrichesFirst
    /\ outcome' = "forwarded" /\ chunk' = sent
    /\ UNCHANGED <<chain, sent, eos, at, released, headers>>

Next ==
    \/ Build \/ BodyPart \/ BodyEnd
    \/ CallFilter \/ SkipFilter \/ ChainEnds \/ ForwardEarly

Spec == Init /\ [][Next]_vars

-----------------------------------------------------------------------------
(* Properties *)

\* The messages the first k filters put before and after the client's
Around(c, inner) ==
    IF c.kind = "prompt_enrich"
    THEN [before |-> c.prepend \o inner.before, after |-> inner.after \o c.append]
    ELSE inner
Added(filters) ==
    LET added[k \in 0 .. Len(filters)] ==
            IF k = 0 THEN [before |-> <<>>, after |-> <<>>]
            ELSE Around(filters[k], added[k - 1])
    IN added
\* The client's messages with those of the first k filters around them
Wrapped(k) == Added(chain)[k].before \o sent.messages \o Added(chain)[k].after
Enrichable == sent # NoBody /\ sent.json /\ sent.messages # None

\* Of several headers of one name the last is in effect
Pushed(name) == {i \in DOMAIN headers : headers[i].name = name}
InEffect(name) ==
    IF Pushed(name) = {} THEN None
    ELSE headers[CHOOSE i \in Pushed(name) : \A j \in Pushed(name) : j <= i].value

\* The first model_to_header filter of the chain
FirstTeller(i) ==
    i \in Of("model_to_header") /\ \A j \in Of("model_to_header") : i <= j

(***************************************************************************)
(* With prompt_enrich first, every configured message goes upstream        *)
(* exactly once, in the order of its list, however the body was cut into   *)
(* chunks: the prepended ones of a later filter before those of an earlier *)
(* one, the appended ones after, and the client's own untouched between    *)
(* them.  In any other order it is the same with the filters up to some    *)
(* point: none adds its messages twice, or a part of them.  A body that    *)
(* cannot be enriched is forwarded as it came (on_request_body).           *)
(***************************************************************************)
EnrichedOnce ==
    outcome = "forwarded" =>
        IF Enrichable
        THEN \E k \in 0 .. Len(chain) :
                chunk.messages = Wrapped(k) /\ (EnrichesFirst => k = Len(chain))
        ELSE chunk = sent

(***************************************************************************)
(* The last content-length pushed is the size of the body that is          *)
(* forwarded, with several enriching filters too; when none is pushed the  *)
(* body is the client's (extra_request_headers of prompt_enrich).          *)
(***************************************************************************)
LengthHonest ==
    outcome = "forwarded" =>
        IF InEffect("content-length") = None THEN chunk = sent
        ELSE InEffect("content-length") = chunk.size

(***************************************************************************)
(* Whatever chain is accepted, only system messages are put before the     *)
(* first message of the client (validate_config of prompt_enrich).         *)
(***************************************************************************)
OnlySystemLeads ==
    outcome = "forwarded" /\ Enrichable =>
        \E k \in 0 .. Len(chain) :
            /\ chunk.messages = Wrapped(k)
            /\ \A i \in 1 .. Len(Added(chain)[k].before) : chunk.messages[i].role = "system"

(***************************************************************************)
(* The first model_to_header filter tells the model the client asked for   *)
(* under the header configured for it, wherever it stands in the chain,    *)
(* none tells another one, and none tells one that is not there            *)
(* (from_config and on_request_body of model_to_header).                   *)
(***************************************************************************)
ModelTold ==
    outcome = "forwarded" /\ sent # NoBody =>
        \A i \in Of("model_to_header") :
            /\ InEffect(chain[i].header) \in {None, sent.model}
            /\ FirstTeller(i) => InEffect(chain[i].header) = sent.model

\* What MCExchanges checks of this component
EnrichmentSound == EnrichedOnce /\ LengthHonest /\ OnlySystemLeads /\ ModelTold
=============================================================================
