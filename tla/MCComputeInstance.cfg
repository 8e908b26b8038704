\* A call that has returned does nothing more, and the tenancy changes at most
\* MaxChanges times: that deadlock is the end. A call that stops before it
\* returns violates CallEnds.
SPECIFICATION FairSpec
CONSTANTS
    b1 = b1
    b2 = b2
    v1 = v1
    v2 = v2
    v3 = v3
    Listing <- MCListing
    PageSize <- MCPageSize
    Size <- MCSize
    MaxChanges <- MCMaxChanges
CHECK_DEADLOCK FALSE
INVARIANTS
    TypeOK
    TotalIsExact
    ErrorsHideTheTotal
    MissingTotalIsExplained
    KnownAttachmentRetained
PROPERTY
    CallEnds
