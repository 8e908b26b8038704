\* An audit that is done stays so: that deadlock is the end.
SPECIFICATION Spec
CONSTANTS
    Canonical <- MCCanonical
    Variant <- MCVariant
    FreeOn <- MCFreeOn
    FreeBy <- MCFreeBy
    User <- MCUser
    Day = 2
    Longest = 5
    Horizon = 7
CHECK_DEADLOCK FALSE
INVARIANTS
    TypeOK
    SourceIsTrue
    AgeIsCompleteDays
