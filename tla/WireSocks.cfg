\* Five units of payload against a reader of two, reads of two and an opening
\* of three: a hello can be read ahead whole, in part or not at all, fit the
\* opening exactly, or be too long for it.
CONSTANTS
    BufSize = 2
    ChunkSize = 2
    MaxHead = 3
    MaxOpening = 3
    PayloadLen = 5
    ServerLen = 1
    Heads <- SomeHeads
    Hellos <- SomeHellos
SPECIFICATION Spec
INVARIANT NothingReadAheadIsLost
CHECK_DEADLOCK FALSE
