\* A finished sort does nothing more: that deadlock is the end.
SPECIFICATION Spec
CONSTANTS
    Region <- MCRanks
    Lower <- MCRanks
    Spelling <- MCRanks
    Count = 3
CHECK_DEADLOCK FALSE
INVARIANTS
    TypeOK
    NamesAscending
    DeterministicWithoutCaseVariants
