\* A report that is marshalled stays so: that deadlock is the end.
SPECIFICATION Spec
CONSTANTS
    r1 = r1
    r2 = r2
    Region <- MCRegion
    BootListing <- MCBootListing
    BlockListing <- MCBlockListing
    MaxDatabases = 1
    MaxInstances = 2
    MaxErrors = 1
CHECK_DEADLOCK FALSE
INVARIANTS
    TypeOK
    RowsMatchRecords
    RegionsAddUp
