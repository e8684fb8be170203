---------------------------- MODULE StreamEvents ----------------------------
(***************************************************************************)
(* anthropic_stream_events, the events: each data line of a Chat           *)
(* Completions stream becomes the events of an Anthropic stream.  The      *)
(* filter keeps a few flags between lines (whether the message has         *)
(* started, which block is open, its index, the last finish reason and     *)
(* token count).  How bytes become data lines is module StreamDecode.      *)
(*                                                                         *)
(* A chunk is [text, tools, finish, usage]; tools is Absent or a sequence  *)
(* of fragments [id, args], where id is None in a continuation.            *)
(***************************************************************************)
EXTENDS Naturals, Sequences, SequencesExt

CONSTANTS
    Chunks,          \* the JSON chunks a backend may send
    MaxChunks,       \* bound on the chunks of one stream
    None, Absent

VARIABLES started, text_open, tool_open, block_index, finish_reason,
          output_tokens, out, sent, over

vars == <<started, text_open, tool_open, block_index, finish_reason,
          output_tokens, out, sent, over>>

-----------------------------------------------------------------------------
Event(t, i, v) == [type |-> t, index |-> i, v |-> v]

\* The flags a data line reads and writes, with the events it has emitted
State == [started |-> started, text_open |-> text_open, tool_open |-> tool_open,
          index |-> block_index, ev |-> <<>>]

Emit(s, t, v) == [s EXCEPT !.ev = Append(@, Event(t, s.index, v))]

\* emit_message_start
EmitMessageStart(s) == [Emit(s, "message_start", None) EXCEPT !.started = TRUE]

\* emit_text_delta: opens a block, whatever tool block may be open
EmitTextDelta(s, v) ==
    LET o == IF s.text_open THEN s
             ELSE [Emit(s, "text_start", None) EXCEPT !.text_open = TRUE]
    IN  Emit(o, "text_delta", v)

\* close_text_block_if_open and close_tool_block_if_open
CloseTextIfOpen(s) ==
    IF ~s.text_open THEN s
    ELSE [Emit(s, "stop", None) EXCEPT !.index = @ + 1, !.text_open = FALSE]
CloseToolKeepsIndex(s) ==
    IF ~s.tool_open THEN s ELSE [Emit(s, "stop", None) EXCEPT !.tool_open = FALSE]
CloseToolIfOpen(s) ==
    IF ~s.tool_open THEN s
    ELSE [Emit(s, "stop", None) EXCEPT !.index = @ + 1, !.tool_open = FALSE]

\* emit_tool_block_start
EmitToolBlockStart(s, id) == [Emit(s, "tool_start", id) EXCEPT !.tool_open = TRUE]

\* emit_tool_arguments_delta: empty arguments emit nothing
EmitToolArgumentsDelta(s, args) == IF args = None THEN s ELSE Emit(s, "json_delta", args)

\* transform_tool_delta: an id begins a call
TransformToolDelta(s, f) ==
    EmitToolArgumentsDelta(
        IF f.id = None THEN s ELSE EmitToolBlockStart(CloseToolIfOpen(s), f.id),
        f.args)

TransformToolDeltas(s, fs) ==
    LET after[k \in 0..Len(fs)] ==
            IF k = 0 THEN s ELSE TransformToolDelta(after[k - 1], fs[k])
    IN  after[Len(fs)]

\* transform_delta: the text, then the fragments of tool calls
TransformDelta(s, c) ==
    LET t == IF c.text = None THEN s ELSE EmitTextDelta(s, c.text)
    IN  IF c.tools = Absent THEN t ELSE TransformToolDeltas(CloseTextIfOpen(t), c.tools)

\* map_stop_reason
MapStopReason(f) ==
    CASE f = "tool_calls" -> "tool_use"
      [] f = "length"     -> "max_tokens"
      [] OTHER            -> "end_turn"

-----------------------------------------------------------------------------
Init ==
    /\ started = FALSE /\ text_open = FALSE /\ tool_open = FALSE
    /\ block_index = 0 /\ finish_reason = None /\ output_tokens = 0
    /\ out = <<>> /\ sent = <<>> /\ over = FALSE

Apply(s) ==
    /\ started' = s.started /\ text_open' = s.text_open
    /\ tool_open' = s.tool_open /\ block_index' = s.index
    /\ out' = out \o s.ev

\* transform_chunk: a data line with a JSON chunk
FinishLatched(c) == IF c.finish = None \/ finish_reason # None THEN finish_reason ELSE c.finish
FinishReason(c) == IF c.finish = None THEN finish_reason ELSE c.finish
TransformChunk(c) ==
    /\ ~over /\ Len(sent) < MaxChunks
    /\ sent' = Append(sent, c)
    /\ Apply(TransformDelta(IF started THEN State ELSE EmitMessageStart(State), c))
    /\ finish_reason' = FinishReason(c)
    /\ output_tokens' = IF c.usage = None THEN output_tokens ELSE c.usage
    /\ UNCHANGED over

\* A data line that is not JSON
SkipLine == ~over /\ UNCHANGED vars

\* emit_done: the [DONE] line.  A backend sends it once, after some chunk.
EmitDone ==
    /\ ~over /\ started /\ over' = TRUE
    /\ LET s == CloseToolIfOpen(CloseTextIfOpen(State))
           d == Emit(s, "message_delta", <<MapStopReason(finish_reason), output_tokens>>)
       IN  Apply(Emit(d, "message_stop", None))
    /\ UNCHANGED <<finish_reason, output_tokens, sent>>

Done == over /\ UNCHANGED vars

Next == (\E c \in Chunks : TransformChunk(c)) \/ SkipLine \/ EmitDone \/ Done

Spec == Init /\ [][Next]_vars

-----------------------------------------------------------------------------
(* A client that follows the Anthropic protocol: blocks are numbered from  *)
(* 0, one is open at a time, and a delta belongs to the open block.        *)

Fresh == [ok |-> TRUE, begun |-> FALSE, ended |-> FALSE, blocks |-> 0, stops |-> 0,
          open |-> None, said |-> <<>>]

ClientReads(c, e) ==
    CASE e.type = "message_start" ->
            [c EXCEPT !.ok = @ /\ ~c.begun, !.begun = TRUE]
      [] e.type \in {"text_start", "tool_start"} ->
            [c EXCEPT !.ok = @ /\ c.begun /\ ~c.ended /\ c.open = None
                               /\ e.index = c.blocks,
                      !.blocks = @ + 1,
                      !.open = e.type,
                      !.said = IF e.type = "tool_start"
                               THEN Append(@, <<"call", e.v>>) ELSE @]
      [] e.type \in {"text_delta", "json_delta"} ->
            [c EXCEPT !.ok = @ /\ e.index + 1 = c.blocks
                               /\ c.open = (IF e.type = "text_delta"
                                            THEN "text_start" ELSE "tool_start"),
                      !.said = Append(@, <<e.type, e.v>>)]
      [] e.type = "stop" ->
            [c EXCEPT !.ok = @ /\ c.open # None /\ e.index + 1 = c.blocks,
                      !.stops = @ + 1,
                      !.open = None]
      [] e.type = "message_delta" ->
            [c EXCEPT !.ok = @ /\ c.begun /\ c.open = None,
                      !.said = Append(@, <<"message_delta", e.v>>)]
      [] e.type = "message_stop" ->
            [c EXCEPT !.ok = @ /\ c.open = None /\ ~c.ended, !.ended = TRUE]

ReadAll(c, es) ==
    LET after[k \in 0..Len(es)] == IF k = 0 THEN c ELSE ClientReads(after[k - 1], es[k])
    IN  after[Len(es)]
Client == ReadAll(Fresh, out)

\* What a fragment, a chunk and the chunks of the backend say
One(tag, v) == IF v = None THEN <<>> ELSE <<<<tag, v>>>>
FragmentSays(f) == One("call", f.id) \o One("json_delta", f.args)
ToolsSay(fs) == FlattenSeq([k \in DOMAIN fs |-> FragmentSays(fs[k])])
ChunkSays(c) ==
    One("text_delta", c.text) \o (IF c.tools = Absent THEN <<>> ELSE ToolsSay(c.tools))
BackendSays(cs) == FlattenSeq([k \in DOMAIN cs |-> ChunkSays(cs[k])])

\* The last value that was given
LastOf(values, default) ==
    LET given == {k \in DOMAIN values : values[k] # None} IN
    IF given = {} THEN default ELSE values[CHOOSE k \in given : \A j \in given : j <= k]

\* A backend that sends its text before its tool calls and begins each call
\* with its id; nothing in the translator asks for it
Calls(c) == c.tools \notin {Absent, <<>>}
CalledBefore(k) == \E j \in 1..(k - 1) : Calls(sent[j])
Grouped ==
    \A k \in DOMAIN sent :
        /\ CalledBefore(k) => sent[k].text = None
        /\ (Calls(sent[k]) /\ sent[k].tools[1].id = None) => CalledBefore(k)

\* transform_delta and the block helpers: of such a backend the events sent are
\* at every moment a stream an Anthropic client accepts: message_start first,
\* blocks numbered in order and never overlapping, every delta in the open block
\* of its own kind, all blocks stopped before message_stop.
BlocksWellFormed == Grouped => Client.ok /\ (over => Client.ended)

\* In whatever order the chunks come, the events say what the backend said:
\* every text, call and argument fragment once and in order, then the last
\* finish reason and the last token count.
ContentRebuilt ==
    Client.said =
        BackendSays(sent)
        \o (IF ~over THEN <<>>
            ELSE <<<<"message_delta",
                     <<MapStopReason(LastOf([k \in DOMAIN sent |-> sent[k].finish], None)),
                       LastOf([k \in DOMAIN sent |-> sent[k].usage], 0)>>>>>>)

\* Nor does a block stay open: at the end as many stopped as started (emit_done).
EveryBlockStops == over => Client.ended /\ Client.stops = Client.blocks

\* What MCStreams checks of this component
TranslationSound == BlocksWellFormed /\ ContentRebuilt /\ EveryBlockStops
=============================================================================
