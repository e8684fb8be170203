--------------------------- MODULE MCConversations ---------------------------
(* Instances of Conversations for TLC.                                     *)
EXTENDS Conversations, TLC

MCData == {"d"}
MCMetas == {"{}", "m"}

\* Slots are interchangeable: no action or safety property tells them apart.
SlotSymmetry == Permutations(Slots)

\* An empty batch, disjoint batches that may land on one position, and one
\* that collides with a concurrent batch in its first or its last entry.
RacingPayloads == {<<>>, << <<1, "d">> >>, << <<2, "d">> >>,
                   << <<2, "d">>, <<1, "d">> >>}

\* Up to three items, so that a listing fills more than one page of two.
PagingPayloads == {<<>>, << <<3, "d">> >>, << <<2, "d">>, <<1, "d">> >>,
                   << <<1, "d">>, <<1, "d">> >>}
=============================================================================
