SPECIFICATION Spec
CONSTANTS
    NULL = NULL
    Jobs <- MCJobs
    ReadLens <- MCReadLens
    OutSize = 3
    BufSize = 16
    DecSize = 2
INVARIANTS DecodesWhatWasEncoded
PROPERTIES ReaderSpec PipeEnds
CHECK_DEADLOCK FALSE
