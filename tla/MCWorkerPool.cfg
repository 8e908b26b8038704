\* A returned pool has nothing left to do: that deadlock is the end of the call.
\* A pool that stops before it returns violates Terminates.
SPECIFICATION FairSpec
CONSTANTS
    Workers <- MCWorkers
    MaxJobs <- MCMaxJobs
CHECK_DEADLOCK FALSE
INVARIANTS
    TypeOK
    AccountedOnce
    OnlyTailLost
    NoSendOnClosedChannel
    NoGoroutineLeft
PROPERTIES
    ImplementsSettlement
    Terminates
