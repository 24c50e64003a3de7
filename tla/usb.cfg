CONSTANTS
    d1 = d1
    d2 = d2
    idle = idle
    held = held
    nodev = nodev
    Devices <- MCDevices
    Reports <- MCReports
    Idle = idle
    NoDevice = nodev
SPECIFICATION FairSpec
INVARIANTS
    SnapshotWhole
    SilenceKeepsState
    NoUseAfterClose
    DevicesReturned
PROPERTIES
    ShutdownEnds
