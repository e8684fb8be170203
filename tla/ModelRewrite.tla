---------------------------- MODULE ModelRewrite ----------------------------
(***************************************************************************)
(* openai_responses_model_rewrite: the model of a create request is        *)
(* replaced by an alias target or a default while the body is read ahead;  *)
(* the facts go to metadata, headers and filter results.  Another filter's *)
(* branch evaluation clears the results before this filter's on_request    *)
(* rebuilds them for its own branches.                                     *)
(*                                                                         *)
(* Aliases live in a HashMap, whose iteration order is arbitrary.  Names   *)
(* and patterns are sequences of characters 1, 2, ...; 0 is the wildcard,  *)
(* which sorts before the letters.                                         *)
(***************************************************************************)
EXTENDS Naturals, Sequences, SequencesExt, FiniteSets

CONSTANTS
    AliasSets,     \* sets of patterns of an alias map
    Target(_),     \* the backend model a pattern maps to
    Defaults,      \* configured default_model: a name, or None
    BodyModels,    \* `model` of a body: a name, Absent or Other
    Bodies,        \* {"object", "invalid"}
    Unpromotable,  \* names too long or unsafe for headers and results
    OnInvalid,     \* "continue" or "reject"
    Creates,       \* whether the request is POST /v1/responses
    Absent, Other, None

Star == 0

VARIABLES aliases, default, body, create, stage, todo, best, model, meta,
          headers, results, facts

vars == <<aliases, default, body, create, stage, todo, best, model, meta,
          headers, results, facts>>

-----------------------------------------------------------------------------
HasStar(p) == \E k \in DOMAIN p : p[k] = Star
StarAt(p) == CHOOSE k \in DOMAIN p : p[k] = Star

\* pattern_matches: prefix and suffix may not overlap in the value
PatternMatches(p, v) ==
    LET k == StarAt(p) IN
    IF ~HasStar(p) THEN p = v
    ELSE /\ IsPrefix(SubSeq(p, 1, k - 1), v)
         /\ IsSuffix(SubSeq(p, k + 1, Len(p)), v)
         /\ Len(v) >= Len(p) - 1

\* pattern_specificity of a wildcard: its literal length
PatternSpecificity(p) == Len(p) - 1

\* Byte-wise comparison of two patterns
LexLess(p, q) ==
    \/ IsStrictPrefix(p, q)
    \/ \E k \in DOMAIN p \cap DOMAIN q :
          p[k] < q[k] /\ \A j \in 1..(k - 1) : p[j] = q[j]

\* should_replace in resolve_alias
ReplaceOnTie(p, b) == b = None \/ PatternSpecificity(p) >= PatternSpecificity(b)
ShouldReplace(p, b) ==
    \/ b = None
    \/ PatternSpecificity(p) > PatternSpecificity(b)
    \/ PatternSpecificity(p) = PatternSpecificity(b) /\ LexLess(p, b)

\* validate_config and validate_aliases: what a configuration may hold
ValidConfig(as, d) ==
    /\ as # {} \/ d # None
    /\ \A p \in as : /\ p # <<>> /\ Target(p) # <<>>
                     /\ Cardinality({k \in DOMAIN p : p[k] = Star}) <= 1

Promotable(v) == v # None /\ v \notin Unpromotable

NoFacts == [effective |-> None, rewritten |-> FALSE, injected |-> FALSE]

-----------------------------------------------------------------------------
Init ==
    /\ aliases \in AliasSets /\ default \in Defaults
    /\ ValidConfig(aliases, default)
    /\ create \in Creates
    /\ \E b \in Bodies, m \in BodyModels : body = [kind |-> b, model |-> m]
    /\ model = body.model
    /\ stage = "body" /\ todo = {} /\ best = None
    /\ meta = NoFacts /\ headers = [effective |-> None, original |-> None]
    /\ results = NoFacts /\ facts = NoFacts

\* on_request_body: only create requests with an object body are rewritten
SkipBody ==
    /\ stage = "body" /\ (~create \/ body.kind = "invalid")
    /\ stage' = IF create /\ OnInvalid = "reject" THEN "rejected" ELSE "branches"
    /\ UNCHANGED <<aliases, default, body, create, todo, best, model, meta,
                   headers, results, facts>>

\* resolve_alias: an exact alias, or the start of the loop over the map
StartResolve ==
    /\ stage = "body" /\ create /\ body.kind = "object"
    /\ body.model \notin {Absent, Other}
    /\ IF body.model \in aliases
       THEN best' = body.model /\ stage' = "resolved" /\ UNCHANGED todo
       ELSE todo' = aliases /\ stage' = "resolving" /\ UNCHANGED best
    /\ UNCHANGED <<aliases, default, body, create, model, meta, headers,
                   results, facts>>

\* One entry of the map, in any order
ResolveEntry(p) ==
    /\ stage = "resolving" /\ p \in todo
    /\ todo' = todo \ {p}
    /\ best' = IF HasStar(p) /\ PatternMatches(p, body.model) /\ ShouldReplace(p, best)
               THEN p ELSE best
    /\ UNCHANGED <<aliases, default, body, create, stage, model, meta, headers,
                   results, facts>>

EndResolve ==
    /\ stage = "resolving" /\ todo = {} /\ stage' = "resolved"
    /\ UNCHANGED <<aliases, default, body, create, todo, best, model, meta,
                   headers, results, facts>>

\* write_metadata, promote_headers, set_filter_results_from_result: the same
\* facts in three places, a name only when it is promotable
PromoteOriginal(r) ==
    /\ facts' = r.facts
    /\ meta' = r.facts /\ results' = r.facts
    /\ headers' = [effective |-> r.original, original |-> r.original]
PromoteFacts(r) ==
    LET f == [r.facts EXCEPT !.effective = IF Promotable(@) THEN @ ELSE None] IN
    /\ facts' = f /\ meta' = f /\ results' = f
    /\ headers' = [effective |-> f.effective,
                   original |-> IF Promotable(r.original) THEN r.original ELSE None]

\* apply_alias: the best alias, or the name as it is
ApplyAlias ==
    /\ stage = "resolved" /\ stage' = "branches"
    /\ model' = IF best = None THEN body.model ELSE Target(best)
    /\ PromoteFacts([original |-> body.model,
            facts |-> [effective |-> model', rewritten |-> best # None,
                       injected |-> FALSE]])
    /\ UNCHANGED <<aliases, default, body, create, todo, best>>

\* apply_default: a missing or null model; noop_result for other types
ApplyDefault ==
    /\ stage = "body" /\ create /\ body.kind = "object"
    /\ body.model \in {Absent, Other}
    /\ stage' = "branches"
    /\ IF body.model = Absent /\ default # None
       THEN /\ model' = default
            /\ PromoteFacts([original |-> None,
                   facts |-> [effective |-> default, rewritten |-> FALSE,
                              injected |-> TRUE]])
       ELSE UNCHANGED <<model, meta, headers, results, facts>>
    /\ UNCHANGED <<aliases, default, body, create, todo, best>>

\* A preceding filter's branch chain is evaluated, which clears the results
ClearResults ==
    /\ stage = "branches" /\ results' = NoFacts
    /\ UNCHANGED <<aliases, default, body, create, stage, todo, best, model,
                   meta, headers, facts>>

\* on_request: repopulate_filter_results, from metadata
RepopulateNamesOnly ==
    /\ stage = "branches" /\ stage' = "done"
    /\ results' = [results EXCEPT !.effective = meta.effective]
    /\ UNCHANGED <<aliases, default, body, create, todo, best, model, meta,
                   headers, facts>>
RepopulateFilterResults ==
    /\ stage = "branches" /\ stage' = "done"
    /\ results' = [effective |-> IF meta.effective # None THEN meta.effective
                                 ELSE results.effective,
                   rewritten |-> results.rewritten \/ meta.rewritten,
                   injected  |-> results.injected \/ meta.injected]
    /\ UNCHANGED <<aliases, default, body, create, todo, best, model, meta,
                   headers, facts>>

Finished == stage \in {"done", "rejected"} /\ UNCHANGED vars

Next ==
    \/ SkipBody \/ StartResolve \/ (\E p \in todo : ResolveEntry(p))
    \/ EndResolve \/ ApplyAlias \/ ApplyDefault \/ ClearResults
    \/ RepopulateFilterResults \/ Finished

Spec == Init /\ [][Next]_vars

-----------------------------------------------------------------------------
\* Whether the characters of v can be had from p by giving its wildcard some
\* text
Generates(p, v) ==
    \E i \in 0..Len(v), j \in 0..Len(v) :
        /\ i <= j
        /\ SubSeq(v, 1, i) \o <<Star>> \o SubSeq(v, j + 1, Len(v)) = p

\* resolve_alias: whatever order the HashMap is iterated in, an exact alias
\* wins; otherwise the longest wildcard that generates the name, and of two
\* equally long ones the first in lexical order.
AliasIndependentOfOrder ==
    stage = "resolved" =>
        LET fits == {p \in aliases : Generates(p, body.model)} IN
        \/ body.model \in aliases /\ best = body.model
        \/ body.model \notin aliases /\ fits = {} /\ best = None
        \/ /\ body.model \notin aliases /\ best \in fits
           /\ \A q \in fits \ {best} :
                Len(q) < Len(best) \/ (Len(q) = Len(best) /\ LexLess(best, q))

\* repopulate_filter_results: the filter's own branches see the facts of the
\* rewrite, whether or not an earlier branch evaluation cleared them.
BranchesSeeRewrite == stage = "done" => results = facts

\* promote_headers: the effective-model header names the model in the body
\* that is sent on.
HeaderNamesSentModel ==
    stage \in {"branches", "done"} => headers.effective \in {None, model}

\* The three of them
RewriteConsistent == AliasIndependentOfOrder /\ BranchesSeeRewrite /\ HeaderNamesSentModel
=============================================================================
