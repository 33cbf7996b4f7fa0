CONSTANTS
    s1 = s1
    s2 = s2
    Sockets <- MCSockets
    Declared <- MCDeclared
    MaxReqs <- MCMaxReqs
    RecordSize <- MCRecordSize
    ShortSends = FALSE

SPECIFICATION Spec

\* After Ctrl-C the exchange exits: once the clients are done nothing moves.
CHECK_DEADLOCK FALSE

INVARIANT TypeOK
INVARIANT StreamsFramed
INVARIANT ResponsesReachSender
PROPERTY AllRequestsSequenced
