\* A run that has exited does nothing more: that deadlock is the end of the
\* process. A run that stops before it exits violates Exits.
SPECIFICATION FairSpec
CONSTANTS
    east = east
    west = west
    adb1 = adb1
    adb2 = adb2
    vm1 = vm1
    vm2 = vm2
    Region <- MCRegion
    Database <- MCDatabase
    Instance <- MCInstance
    Location <- MCLocation
CHECK_DEADLOCK FALSE
INVARIANTS
    TypeOK
    AllAccountedFor
    StrictSuccessIsComplete
    NoContradiction
    ReportStaysInScope
    FailuresStillPublish
    SilentLossNeverSucceeds
PROPERTY
    Exits
