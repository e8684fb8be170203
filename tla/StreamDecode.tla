---------------------------- MODULE StreamDecode ----------------------------
(***************************************************************************)
(* anthropic_stream_events, the bytes: body chunks of a backend's event    *)
(* stream, cut anywhere, become data lines.  Between chunks the filter     *)
(* keeps the bytes of a character cut in two (utf8) and the text of an     *)
(* event whose blank line has not come (line_buffer).                      *)
(*                                                                         *)
(* A byte is CR, LF, the Lead or Trail of a two-byte character, Bad (never *)
(* valid), or any other byte of a data line.                               *)
(***************************************************************************)
EXTENDS Naturals, Sequences, EventStreams

CONSTANTS
    Bytes, CR, LF, Lead, Trail, Bad,
    MaxChunk,    \* bound on the bytes of one chunk
    MaxStream,   \* bound on the bytes of the stream
    MaxPartial   \* max_partial_event_bytes

VARIABLES
    utf8, line_buffer,   \* the filter's metadata
    lines,               \* history: the data lines acted on
    left,                \* history: the text that left the filter, in order
    raw,                 \* history: whether some of it was passed through as it came
    stream, status       \* history: the stream so far, and what became of it

vars == <<utf8, line_buffer, lines, left, raw, stream, status>>

-----------------------------------------------------------------------------
\* from_utf8: valid, cut at the end, or malformed
Malformed(s) ==
    \E k \in DOMAIN s :
        \/ s[k] = Bad
        \/ s[k] = Trail /\ (k = 1 \/ s[k - 1] # Lead)
        \/ s[k] = Lead /\ k < Len(s) /\ s[k + 1] # Trail
CutShort(s) == s # <<>> /\ Last(s) = Lead

\* normalize_line_endings: CR LF and CR become LF
NormalizeLineEndings(s) == Normal(s, CR, LF)

\* The non-empty lines of a block, which process_event_block goes through
NonBlank(ls) ==
    FlattenSeq([k \in DOMAIN ls |-> IF ls[k] = <<>> THEN <<>> ELSE <<ls[k]>>])
LinesOf(block) == NonBlank(Pieces(Append(block, LF), LF))

\* The loop of process_sse_chunk: split at each blank line
Ends(s, c) == s # <<>> /\ s[Len(s)] = c
SplitAt(a, c) ==
    IF c = LF /\ Ends(a.rest, LF)
    THEN [rest |-> <<>>, lines |-> a.lines \o LinesOf(Front(a.rest))]
    ELSE [rest |-> Append(a.rest, c), lines |-> a.lines]
SplitEvents(s) ==
    LET after[k \in 0..Len(s)] ==
            IF k = 0 THEN [rest |-> <<>>, lines |-> <<>>] ELSE SplitAt(after[k - 1], s[k])
    IN  after[Len(s)]

\* process_sse_chunk: a single trailing CR waits for the next chunk
DefersNothing(s, eos) == FALSE
DefersTrailingCr(s, eos) == ~eos /\ Ends(s, CR) /\ ~Ends(Front(s), CR)
ProcessSseChunk(chunk, eos) ==
    LET combined == line_buffer \o chunk
        pending  == DefersTrailingCr(combined, eos)
        split    == SplitEvents(NormalizeLineEndings(
                        IF pending THEN Front(combined) ELSE combined))
    IN  [lines  |-> split.lines,
         buffer |-> split.rest \o (IF pending THEN <<CR>> ELSE <<>>)]

-----------------------------------------------------------------------------
Init == /\ utf8 = <<>> /\ line_buffer = <<>> /\ lines = <<>> /\ left = <<>>
        /\ raw = FALSE /\ stream = <<>> /\ status = "open"

\* passthrough_with_line_buffer: a chunk that is not UTF-8 goes to the client
\* as it came, after what was buffered
PassthroughDropsBuffer(combined) ==
    /\ raw' = TRUE /\ left' = left \o combined
    /\ line_buffer' = <<>> /\ utf8' = <<>>
    /\ UNCHANGED lines
PassthroughWithLineBuffer(combined) ==
    /\ raw' = TRUE /\ left' = (left \o line_buffer) \o combined
    /\ line_buffer' = <<>> /\ utf8' = <<>>
    /\ UNCHANGED lines

\* store_line_buffer: an incomplete event over the limit fails the response
StoreLineBuffer(p, eos) ==
    /\ lines' = lines \o p.lines
    /\ left' = left \o FlattenSeq(p.lines)
    /\ line_buffer' = IF Len(p.buffer) > MaxPartial THEN <<>> ELSE p.buffer
    /\ status' = IF Len(p.buffer) > MaxPartial THEN "failed"
                 ELSE IF eos THEN "ended" ELSE "open"

\* decode_and_process_chunk (combine_pending_utf8, valid_utf8_prefix_len)
DecodeChunk(c, eos) ==
    LET combined == utf8 \o c
        cut      == CutShort(combined)
        valid    == IF cut THEN Front(combined) ELSE combined IN
    /\ status = "open" /\ Len(stream) + Len(c) <= MaxStream
    /\ stream' = stream \o c
    /\ IF Malformed(combined) \/ (cut /\ eos)
       THEN /\ PassthroughWithLineBuffer(combined)
            /\ status' = IF eos THEN "ended" ELSE "open"
       ELSE /\ utf8' = IF cut THEN <<Lead>> ELSE <<>>
            /\ UNCHANGED raw
            /\ IF valid = <<>> /\ ~eos THEN UNCHANGED <<lines, left, line_buffer, status>>
               ELSE StoreLineBuffer(ProcessSseChunk(valid, eos), eos)

Done == status # "open" /\ UNCHANGED vars

Next ==
    \/ \E c \in BoundedSeq(Bytes, MaxChunk), eos \in BOOLEAN : DecodeChunk(c, eos)
    \/ Done

Spec == Init /\ [][Next]_vars

-----------------------------------------------------------------------------
\* The lines of the events that are complete in s: of each group of lines that a
\* blank line ends
CompleteLines(s) == FlattenSeq(Pieces(Pieces(NormalizeLineEndings(s), LF), <<>>))

\* process_sse_chunk: how the stream is cut into chunks does not matter.  No
\* line is acted on before its event is complete, and when the stream ends
\* every line of a complete event has been acted on.
CutsDoNotMatter ==
    (~raw /\ status # "failed") =>
        /\ IsPrefix(lines, CompleteLines(stream))
        /\ status = "ended" => lines = CompleteLines(stream)

\* All but the line ends
TextOf(s) == FlattenSeq([k \in DOMAIN s |-> IF s[k] \in {CR, LF} THEN <<>> ELSE <<s[k]>>])

\* passthrough_with_line_buffer: unless the response failed, every byte of
\* text the backend sent is in an event, passed through, or still held, and
\* in the order it came, malformed chunks and cut characters included.
NoTextLost ==
    status # "failed" =>
        TextOf((left \o line_buffer) \o utf8) = TextOf(stream)
=============================================================================
