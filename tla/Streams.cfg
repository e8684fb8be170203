\* Every stream of up to seven symbols (scanner and frames), six bytes (decoder),
\* four frames (typed events) or four chunks (translator), and every cut of it;
\* the clock may run past the timeout, and text and tool calls come in any order.
SPECIFICATION Spec
CONSTANTS
    MaxChunk = 2
    ScanBytes = {"CR", "LF", "data", ":", " "}
    MaxScratch = 3
    MaxBytes = 7
    MinChunk = 1
    CR = 13
    LF = 10
    FrameBytes = {13, 10, 1, 2, 3, 4}
    DataField = 2
    EventField = 3
    Colon = 4
    NoEvent = None
    MaxStream = 7
    MaxBuffer = 4
    MaxFrameEvents = 1
    FrameKinds = {"done", "bad_json", "mismatch", "delta", "terminal", "error"}
    MaxEvents = 3
    Timeout = 1
    MaxTime = 3
    MaxFrames = 4
    Never = None
    TextBytes = {13, 10, 1, 3, 4, 5}
    Lead = 3
    Trail = 4
    BadByte = 5
    MaxText = 6
    MaxPartial = 4
    Chunks <- MCChunks
    MaxChunks = 4
    None = None
    Absent = Absent
INVARIANTS
    ScannerSound
    FramesSound
    JudgementSound
    DecodingSound
    TranslationSound
CHECK_DEADLOCK FALSE
