------------------------------ MODULE SseFrames ------------------------------
(***************************************************************************)
(* SseFrameParser (openai/sse): chunks of an event stream, cut anywhere,   *)
(* become frames.  The parser works byte by byte and keeps the current     *)
(* line, the data and event fields of the current frame, and whether the   *)
(* last chunk ended in CR.                                                 *)
(*                                                                         *)
(* A "byte" is CR, LF, Data (the bytes "data:"), Event ("event:"), Colon   *)
(* (a comment's first byte), or another byte.                              *)
(***************************************************************************)
EXTENDS Naturals, Sequences, EventStreams

CONSTANTS
    Bytes, CR, LF, Data, Event, Colon, NoEvent,
    MaxChunk, MaxStream,   \* bounds on the bytes of a chunk and of the stream
    MaxBuffer,             \* max_buffer_bytes
    MaxEvents              \* max_events

VARIABLES p, frames, stream, status

vars == <<p, frames, stream, status>>

-----------------------------------------------------------------------------
New == [line_buf |-> <<>>, event_type |-> NoEvent, data_buf |-> <<>>,
        has_data |-> FALSE, prev_cr |-> FALSE, scratch |-> 0]

BufferedBytes(q) ==
    Len(q.line_buf) + Len(q.data_buf)
    + (IF q.event_type = NoEvent THEN 0 ELSE Len(q.event_type))

\* process_line: the frame of a blank line, if there is data, and the parser
\* after the line
BlankKeepsEvent(q) ==
    [frame |-> IF q.has_data THEN <<[event |-> q.event_type, data |-> q.data_buf]>>
               ELSE <<>>,
     p |-> [q EXCEPT !.data_buf = <<>>, !.has_data = FALSE]]
Blank(q) ==
    [frame |-> IF q.has_data THEN <<[event |-> q.event_type, data |-> q.data_buf]>>
               ELSE <<>>,
     p |-> [q EXCEPT !.data_buf = <<>>, !.has_data = FALSE, !.event_type = NoEvent]]
ProcessLine(q) ==
    IF q.line_buf = <<>> THEN Blank(q)
    ELSE [frame |-> <<>>,
          p |-> CASE Head(q.line_buf) = Data ->
                       [q EXCEPT !.has_data = TRUE,
                           !.data_buf = @ \o (IF q.has_data THEN <<LF>> ELSE <<>>)
                                          \o Tail(q.line_buf)]
                  [] Head(q.line_buf) = Event ->
                       [q EXCEPT !.event_type = Tail(q.line_buf)]
                  [] OTHER -> q]

\* One byte of the loop in parse_chunk_inner.  a is [p, frames, error, skip];
\* skip: the byte is the LF of a CR LF.
Terminator(b) == b \in {CR, LF}
NoLimit(q) == TRUE
CheckBufferLimit(q) == q.scratch <= MaxBuffer
ParseByte(a, b) ==
    IF a.error THEN a
    ELSE IF a.skip /\ b = LF THEN [a EXCEPT !.skip = FALSE]
    ELSE LET r == ProcessLine(a.p)
             ended == [r.p EXCEPT !.line_buf = <<>>]
             q == IF Terminator(b) THEN [ended EXCEPT !.scratch = BufferedBytes(ended)]
                  ELSE [a.p EXCEPT !.line_buf = Append(@, b), !.scratch = @ + 1]
             f == IF Terminator(b) THEN a.frames \o r.frame ELSE a.frames
         IN  [p |-> q, frames |-> f, skip |-> b = CR,
              error |-> \/ Len(frames) + Len(f) > MaxEvents  \* check_event_limit
                        \/ ~CheckBufferLimit(q)]

ParseBytes(a, c) ==
    LET after[k \in 0..Len(c)] == IF k = 0 THEN a ELSE ParseByte(after[k - 1], c[k])
    IN  after[Len(c)]

-----------------------------------------------------------------------------
Init == p = New /\ frames = <<>> /\ stream = <<>> /\ status = "open"

\* parse_chunk_with_event_limit.  The CR at the end of a chunk is remembered;
\* an empty chunk leaves that as it is.
ParseChunk(c) ==
    LET a == ParseBytes([p |-> p, frames |-> <<>>, error |-> FALSE, skip |-> p.prev_cr], c) IN
    /\ status = "open" /\ Len(stream) + Len(c) <= MaxStream
    /\ stream' = stream \o c
    /\ IF a.error THEN status' = "failed" /\ UNCHANGED <<p, frames>>
       ELSE /\ p' = [a.p EXCEPT !.prev_cr = IF c = <<>> THEN @ ELSE Last(c) = CR,
                                !.scratch = BufferedBytes(a.p)]
            /\ frames' = frames \o a.frames
            /\ UNCHANGED status

Stop == status = "failed" /\ UNCHANGED vars
Idle == status = "open" /\ Len(stream) = MaxStream /\ UNCHANGED vars

Next == (\E c \in BoundedSeq(Bytes, MaxChunk) : ParseChunk(c)) \/ Stop \/ Idle

Spec == Init /\ [][Next]_vars

-----------------------------------------------------------------------------
(* The stream as the SSE format reads it, all at once *)

WholeLines(s) == Pieces(Normal(s, CR, LF), LF)

\* The fields of a group of lines
EventLines(g) ==
    FlattenSeq([k \in DOMAIN g |-> IF Head(g[k]) = Event THEN <<Tail(g[k])>> ELSE <<>>])
DataLines(g) ==
    FlattenSeq([k \in DOMAIN g |-> IF Head(g[k]) = Data THEN <<Tail(g[k])>> ELSE <<>>])
EventOf(g) == IF EventLines(g) = <<>> THEN NoEvent ELSE Last(EventLines(g))

\* The frames of s: one for each blank line with a data line since the blank
\* line before it
FrameOf(g) ==
    IF DataLines(g) = <<>> THEN <<>>
    ELSE <<[event |-> EventOf(g), data |-> Joined(DataLines(g), LF)]>>
WholeFrames(s) ==
    LET groups == Pieces(WholeLines(s), <<>>)
    IN  FlattenSeq([j \in DOMAIN groups |-> FrameOf(groups[j])])

\* parse_chunk_inner: the frames are those of the stream, wherever it is cut,
\* a CR LF split over two chunks and empty chunks included.
FramesOfStream == status = "open" => frames = WholeFrames(stream)

\* buffered_bytes: what the parser accounts for is what it keeps, and it
\* never keeps more than max_buffer_bytes between chunks.
ScratchExact ==
    status = "open" => p.scratch = BufferedBytes(p) /\ p.scratch <= MaxBuffer

\* All that a reader of frames may count on
FramesSound == FramesOfStream /\ ScratchExact
=============================================================================
