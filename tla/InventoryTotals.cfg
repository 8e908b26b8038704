SPECIFICATION Spec
CONSTANTS
    east = east
    west = west
    adb1 = adb1
    adb2 = adb2
    vm1 = vm1
    vm2 = vm2
    Region <- MCRegion
    Database <- MCDatabase
    Instance <- MCInstance
    Location <- MCLocation
CHECK_DEADLOCK FALSE
INVARIANT
    PartialRegionTotalNeverShown
