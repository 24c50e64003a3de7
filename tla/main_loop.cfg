CONSTANTS
    Programs <- MCPrograms
    WrittenIds <- MCWrittenIds
    NS_PER_SEC = 8
    GAME_TICK_HZ = 4
    PendingSounds <- MCPendingSounds
    StartTimes <- MCStartTimes
    MaxBody = 5
    MaxWake = 1
    MaxTick = 3
SPECIFICATION Spec
INVARIANTS
    DeadlinesHold
    AllReleased
    AccessMapped
    ReadbackAgrees
CHECK_DEADLOCK FALSE
