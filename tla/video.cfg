CONSTANTS
    TILE_BYTES = 4
    SPRITE_COUNT = 2
    WORD_BYTES = 2
    SPRITE_OFFSET = 5
    MaxFrame = 2
    MAP_ROWS = 2
    MAP_COLS = 2
    TILE_SIZE = 1
    H_VISIBLE = 2
    H_FRONT = 0
    H_SYNC = 1
    H_BACK = 0
    V_VISIBLE = 2
    V_FRONT = 0
    V_SYNC = 1
    V_BACK = 0
SPECIFICATION ScanSpec
INVARIANTS
    FrameOrder
    FlushPublishes
    ReadsWholeRegions
    ScanShowsMemory
