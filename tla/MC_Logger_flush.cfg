CONSTANTS
    QueueCapacity <- MCQueueCapacity
    UsizeModulus <- MCUsizeModulus
    MaxLogs <- MCMaxLogs

SPECIFICATION Spec

\* The logger stops for good once dropped (client "dropped", writer "done").
CHECK_DEADLOCK FALSE

INVARIANT FlushWritesEarlierEntries
