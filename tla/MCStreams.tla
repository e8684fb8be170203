----------------------------- MODULE MCStreams -----------------------------
(* The stream parsers and the stream translation, each on every short      *)
(* stream and every cut of it.  `reader` names the one that reads the      *)
(* stream of a behaviour; the variables of the others are None.            *)
EXTENDS Integers, Sequences

CONSTANTS
    MaxChunk,                                    \* of the four readers
    ScanBytes, MaxScratch, MaxBytes, MinChunk,   \* SseScan
    CR, LF,
    FrameBytes, DataField, EventField, Colon,    \* SseFrames
    NoEvent,
    MaxStream, MaxBuffer, MaxFrameEvents,
    FrameKinds, MaxEvents, Timeout, MaxTime,     \* ResponsesSse
    MaxFrames, Never,
    TextBytes, Lead, Trail, BadByte,             \* StreamDecode
    MaxText, MaxPartial,
    Chunks, MaxChunks,                           \* StreamEvents
    None, Absent

\* What the proofs about the readers assume: CR and LF are two bytes, and so are
\* the first ones of the two fields; a chunk of the scanner holds at least one byte
LimitsTyped == MaxEvents \in Nat /\ Timeout \in Nat /\ Never \notin Int
FieldsTold == CR # LF /\ DataField # EventField /\ MaxBuffer \in Nat /\ MaxFrameEvents \in Int
ChunksNotEmpty == MinChunk \in Nat \ {0} /\ MaxChunk \in Nat /\ MaxScratch \in Nat
ASSUME ReadersTyped == LimitsTyped /\ FieldsTold /\ ChunksNotEmpty

VARIABLES
    reader,
    state, payloads, overflowed, seen,                       \* SseScan
    p, frames, stream, status,                               \* SseFrames
    completion_state, event_count, started_at, completed_at, \* ResponsesSse
    now, taken, fed, verdict,
    utf8, line_buffer, lines, left, raw, bytes, phase,       \* StreamDecode
    started, text_open, tool_open, block_index,              \* StreamEvents
    finish_reason, output_tokens, out, sent, over

scanVars == <<state, payloads, overflowed, seen>>
frameVars == <<p, frames, stream, status>>
typedVars == <<completion_state, event_count, started_at, completed_at, now, taken, fed,
               verdict>>
decodeVars == <<utf8, line_buffer, lines, left, raw, bytes, phase>>
eventVars == <<started, text_open, tool_open, block_index, finish_reason, output_tokens,
               out, sent, over>>
vars == <<reader, scanVars, frameVars, typedVars, decodeVars, eventVars>>

-----------------------------------------------------------------------------
(* Instances.  The constants that are not named here have the same name in *)
(* the component.                                                          *)

Scan == INSTANCE SseScan WITH Bytes <- ScanBytes
Frames == INSTANCE SseFrames WITH Bytes <- FrameBytes, Data <- DataField, Event <- EventField,
    MaxEvents <- MaxFrameEvents
Typed == INSTANCE ResponsesSse WITH frames <- fed
Decode == INSTANCE StreamDecode WITH
    Bytes <- TextBytes, Bad <- BadByte, MaxStream <- MaxText,
    stream <- bytes, status <- phase
Events == INSTANCE StreamEvents

\* Chunks of text, tool calls, finish reasons and token counts
MCChunk(t, k, f, u) == [text |-> t, tools |-> k, finish |-> f, usage |-> u]
Fragment(i, a) == [id |-> i, args |-> a]
ToolDeltas ==
    {Absent, <<>>, <<Fragment(1, None)>>, <<Fragment(2, 7)>>, <<Fragment(None, 8)>>,
     <<Fragment(1, 7), Fragment(2, None)>>,
     <<Fragment(None, 8), Fragment(2, None), Fragment(None, 9)>>}
MCChunks ==
    {MCChunk(t, k, None, None) : t \in {None, 1, 2}, k \in ToolDeltas}
    \cup {MCChunk(None, Absent, f, None) : f \in {"stop", "tool_calls", "length"}}
    \cup {MCChunk(None, Absent, None, u) : u \in {3, 4}}
    \cup {MCChunk(1, Absent, "stop", 5)}

-----------------------------------------------------------------------------
NoScan == state = None /\ payloads = None /\ overflowed = None /\ seen = None
NoFrames == p = None /\ frames = None /\ stream = None /\ status = None
NoTyped ==
    /\ completion_state = None /\ event_count = None /\ started_at = None
    /\ completed_at = None /\ now = None /\ taken = None /\ fed = None /\ verdict = None
NoDecode ==
    /\ utf8 = None /\ line_buffer = None /\ lines = None /\ left = None /\ raw = None
    /\ bytes = None /\ phase = None
NoEvents ==
    /\ started = None /\ text_open = None /\ tool_open = None /\ block_index = None
    /\ finish_reason = None /\ output_tokens = None /\ out = None /\ sent = None
    /\ over = None

Init ==
    \/ reader = "scan" /\ Scan!Init /\ NoFrames /\ NoTyped /\ NoDecode /\ NoEvents
    \/ reader = "frames" /\ Frames!Init /\ NoScan /\ NoTyped /\ NoDecode /\ NoEvents
    \/ reader = "typed" /\ Typed!Init /\ NoScan /\ NoFrames /\ NoDecode /\ NoEvents
    \/ reader = "decode" /\ Decode!Init /\ NoScan /\ NoFrames /\ NoTyped /\ NoEvents
    \/ reader = "events" /\ Events!Init /\ NoScan /\ NoFrames /\ NoTyped /\ NoDecode

Next ==
    /\ UNCHANGED reader
    /\ \/ reader = "scan" /\ Scan!Next
          /\ UNCHANGED <<frameVars, typedVars, decodeVars, eventVars>>
       \/ reader = "frames" /\ Frames!Next
          /\ UNCHANGED <<scanVars, typedVars, decodeVars, eventVars>>
       \/ reader = "typed" /\ Typed!Next
          /\ UNCHANGED <<scanVars, frameVars, decodeVars, eventVars>>
       \/ reader = "decode" /\ Decode!Next
          /\ UNCHANGED <<scanVars, frameVars, typedVars, eventVars>>
       \/ reader = "events" /\ Events!Next
          /\ UNCHANGED <<scanVars, frameVars, typedVars, decodeVars>>

Spec == Init /\ [][Next]_vars

-----------------------------------------------------------------------------
\* scan_sse_chunk: the A2A scanner yields exactly the payloads the whole stream
\* defines, however it is cut, and stays within its scratch limit.
ScannerSound == reader = "scan" => Scan!ScannerSound

\* SseFrameParser: the frames are those of the whole stream, however it is cut,
\* and the buffer limit counts exactly the bytes that are held.
FramesSound == reader = "frames" => Frames!FramesSound

\* ResponsesSseParser: nothing follows the end of a stream, a stream is judged by
\* the time it took and not by when the judgement is asked for, and the event
\* budget holds over all chunks.
JudgementSound == reader = "typed" => Typed!JudgementSound

\* process_sse_chunk and passthrough_with_line_buffer: the data lines do not
\* depend on where the chunks are cut, and no byte of the stream is dropped.
DecodingSound == reader = "decode" => Decode!CutsDoNotMatter /\ Decode!NoTextLost

\* transform_chunk: an Anthropic client accepts the events, and what it puts
\* together from them is what the backend said.
TranslationSound == reader = "events" => Events!TranslationSound
=============================================================================
