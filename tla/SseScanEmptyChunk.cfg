\* A chunk may be empty.
SPECIFICATION Spec
CONSTANTS
    Bytes = {"CR", "LF", "data", ":", " ", "x"}
    MaxScratch = 3
    MaxBytes = 4
    MinChunk = 0
    MaxChunk = 3
INVARIANT PayloadsOfStream
CHECK_DEADLOCK FALSE
