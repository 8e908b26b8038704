\* Writers that have ended do nothing more: that deadlock is the end. A writer
\* that stops before it ends violates Ends.
SPECIFICATION FairSpec
CONSTANTS
    w1 = w1
    w2 = w2
    Writer <- MCWriter
CHECK_DEADLOCK FALSE
INVARIANTS
    TypeOK
    NoPartialFileVisible
    LinksResolve
    SuccessMeansWholeSet
    FailedWriteIsAPrefix
PROPERTY
    Ends
