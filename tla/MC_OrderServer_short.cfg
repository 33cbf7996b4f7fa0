\* The gateway's non-blocking send may write part of a record (or none).
CONSTANTS
    s1 = s1
    s2 = s2
    Sockets <- MCSockets
    Declared <- MCDeclared
    MaxReqs <- MCMaxReqs
    RecordSize <- MCRecordSize
    ShortSends = TRUE

SPECIFICATION Spec

\* After Ctrl-C the exchange exits: once the clients are done nothing moves.
CHECK_DEADLOCK FALSE

INVARIANT RequestsWereWritten
