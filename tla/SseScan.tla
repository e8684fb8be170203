------------------------------ MODULE SseScan ------------------------------
(***************************************************************************)
(* The incremental scanner of A2A streaming responses, which is to yield   *)
(* the same payloads however the stream is cut into chunks, against a      *)
(* definition of the payloads over the whole stream.                       *)
(*                                                                         *)
(* A byte is one of a few symbols; the field name is one symbol, so that a *)
(* length counts symbols.                                                  *)
(***************************************************************************)
EXTENDS Integers, Sequences, FiniteSets, EventStreams

CONSTANTS
    Bytes,          \* some of "CR", "LF", "data", ":", " ", "x"
    MaxScratch,     \* task_routing.max_response_body_bytes
    MaxBytes,       \* bound: length of the stream
    MinChunk,       \* 0 if the body may be an empty chunk, else 1
    MaxChunk        \* bound: length of a chunk

VARIABLES
    state,          \* SseScanState, kept in filter_metadata between chunks
    payloads,       \* payloads handed to try_extract_task_from_sse_payload
    overflowed,     \* a chunk overflowed; the capture is off
    seen            \* history: the stream so far

vars == <<state, payloads, overflowed, seen>>

Fresh == [line_buf |-> <<>>, data_buf |-> <<>>, has_data |-> FALSE, prev_cr |-> FALSE]

Init == state = Fresh /\ payloads = <<>> /\ overflowed = FALSE /\ seen = <<>>

-----------------------------------------------------------------------------
(* The code                                                                *)

IsData(line) ==
    /\ line # <<>> /\ ":" \in {line[i] : i \in DOMAIN line}
    /\ LET colon == CHOOSE i \in DOMAIN line :
                        line[i] = ":" /\ \A j \in 1..(i - 1) : line[j] # ":"
       IN SubSeq(line, 1, colon - 1) = <<"data">>

\* One optional space after the colon is skipped.
DataValue(line) ==
    IF Len(line) >= 3 /\ line[3] = " " THEN SubSeq(line, 4, Len(line))
    ELSE SubSeq(line, 3, Len(line))

\* process_line on a scan in progress: [state, payloads, overflowed]
ProcessLine(s) ==
    LET line == s.state.line_buf IN
    IF line = <<>> THEN
        IF s.state.has_data
        THEN [s EXCEPT !.payloads = Append(@, s.state.data_buf),
                       !.state.data_buf = <<>>, !.state.has_data = FALSE]
        ELSE s
    ELSE IF IsData(line)
    THEN [s EXCEPT !.state.data_buf =
                       (IF s.state.has_data THEN Append(@, "LF") ELSE @) \o DataValue(line),
                   !.state.has_data = TRUE]
    ELSE s

\* The LF of a CRLF pair, whose CR may have ended the previous chunk
PairedWithinChunk(prev_cr, chunk, i) == chunk[i] = "LF" /\ i > 1 /\ chunk[i - 1] = "CR"
Paired(prev_cr, chunk, i) ==
    chunk[i] = "LF" /\ IF i = 1 THEN prev_cr ELSE chunk[i - 1] = "CR"

OverScratchLine(s) == Len(s.state.line_buf) > MaxScratch
OverScratch(s) == Len(s.state.line_buf) + Len(s.state.data_buf) > MaxScratch

\* One turn of scan_sse_chunk's loop; an overflow ends the loop.
ScanByte(s, b) ==
    LET t == IF b \in {"LF", "CR"}
             THEN [ProcessLine(s) EXCEPT !.state.line_buf = <<>>]
             ELSE [s EXCEPT !.state.line_buf = Append(@, b)]
    IN [t EXCEPT !.overflowed = OverScratch(t)]

ScanChunk(chunk) ==
    LET entry == [state |-> state, payloads |-> payloads, overflowed |-> FALSE]
        turn(s, i) == IF s.overflowed \/ Paired(state.prev_cr, chunk, i) THEN s
                      ELSE ScanByte(s, chunk[i])
        after[i \in 0..Len(chunk)] == IF i = 0 THEN entry ELSE turn(after[i - 1], i)
    IN [after[Len(chunk)] EXCEPT !.state.prev_cr = chunk # <<>> /\ Last(chunk) = "CR"]

\* process_sse_response_chunk: payloads are used even if the chunk overflows,
\* which clears the scanner's metadata and ends the capture.
Chunk(chunk) ==
    LET result == ScanChunk(chunk) IN
    /\ ~overflowed
    /\ Len(seen) + Len(chunk) <= MaxBytes
    /\ seen' = seen \o chunk
    /\ payloads' = result.payloads
    /\ overflowed' = result.overflowed
    /\ state' = IF result.overflowed THEN Fresh ELSE result.state

Next == \E n \in MinChunk..MaxChunk : \E chunk \in [1..n -> Bytes] : Chunk(chunk)

Spec == Init /\ [][Next]_vars

-----------------------------------------------------------------------------
(* The payloads of a stream, by the rules of server-sent events            *)

Lines(s) == Pieces(Normal(s, "CR", "LF"), "LF")

\* The values of the data lines of ls, without the space after the colon
HasValue(l) == Len(l) >= 2 /\ l[1] = "data" /\ l[2] = ":"
ValueOf(l) == SubSeq(l, IF Len(l) >= 3 /\ l[3] = " " THEN 4 ELSE 3, Len(l))
Values(ls) ==
    FlattenSeq([k \in DOMAIN ls |-> IF HasValue(ls[k]) THEN <<ValueOf(ls[k])>> ELSE <<>>])

\* One payload for each group with a data line
PayloadOf(group) ==
    IF Values(group) = <<>> THEN <<>> ELSE <<Joined(Values(group), "LF")>>
Payloads(s) ==
    LET groups == Pieces(Lines(s), <<>>)
    IN  FlattenSeq([k \in DOMAIN groups |-> PayloadOf(groups[k])])

\* What has to be held of an unfinished event after the stream s
Held(s) ==
    Len(Unended(Normal(s, "CR", "LF"), "LF"))
        + Len(Joined(Values(Unended(Lines(s), <<>>)), "LF"))

\* The stream up to the first byte at which too much has to be held
TooMuchAt(s) == {k \in DOMAIN s : Held(SubSeq(s, 1, k)) > MaxScratch}
WithinLimit(s) ==
    LET over == TooMuchAt(s) IN
    IF over = {} THEN s ELSE SubSeq(s, 1, CHOOSE k \in over : \A j \in over : k <= j)

-----------------------------------------------------------------------------
\* scan_sse_chunk yields the payloads of the stream in order, none lost, cut,
\* doubled or dispatched early, whatever the line endings and wherever the
\* chunks are cut (between CR and LF, inside a field, at a blank line), up to
\* the byte at which the unfinished event outgrows the limit, and reports the
\* overflow exactly then.
PayloadsOfStream ==
    LET within == WithinLimit(seen) IN
    /\ payloads = Payloads(within)
    /\ overflowed = (Held(within) > MaxScratch)

\* No more than max_response_body_bytes are carried from chunk to chunk or
\* handed on as one payload, although lines are joined.
ScratchBounded ==
    /\ Len(state.line_buf) + Len(state.data_buf) <= MaxScratch
    /\ \A i \in DOMAIN payloads : Len(payloads[i]) <= MaxScratch

\* scan_sse_chunk's two promises together
ScannerSound == PayloadsOfStream /\ ScratchBounded
=============================================================================
