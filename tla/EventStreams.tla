---------------------------- MODULE EventStreams ----------------------------
(***************************************************************************)
(* The text/event-stream format, over a whole stream at once: what the     *)
(* incremental parsers are measured against.  A line ends at CR, at LF or  *)
(* at CR LF; a blank line ends the group of lines before it.               *)
(***************************************************************************)
EXTENDS Naturals, Sequences, SequencesExt

\* s with one end for every line ending
Normal(s, CR, end) ==
    FlattenSeq([k \in DOMAIN s |->
        IF s[k] = CR THEN <<end>>
        ELSE IF s[k] = end /\ k > 1 /\ s[k - 1] = CR THEN <<>>
        ELSE <<s[k]>>])

\* The place after the last end before k
After(s, end, k) ==
    CHOOSE j \in 1..k :
        (j = 1 \/ s[j - 1] = end) /\ \A i \in j..(k - 1) : s[i] # end

Before(s, end, k) == SubSeq(s, After(s, end, k), k - 1)

\* The pieces of s, each without the end that ends it, and the unended one
Pieces(s, end) ==
    FlattenSeq([k \in DOMAIN s |-> IF s[k] = end THEN <<Before(s, end, k)>> ELSE <<>>])
Unended(s, end) == Before(s, end, Len(s) + 1)

Joined(values, by) ==
    FlattenSeq([k \in DOMAIN values |-> IF k = 1 THEN values[k] ELSE <<by>> \o values[k]])
=============================================================================
