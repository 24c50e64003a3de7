CONSTANTS
    MAP_ROWS = 3
    MAP_COLS = 6
    TILE_SIZE = 2
    PLAYER_SPEED = 2
    BOMB_TIMER_TICKS = 2
    EXPLOSION_TIMER_TICKS = 2
    WIN_SCORE = 3
    initial_map <- Pocket
    spawn <- PocketEnds
    Pads <- SharedWallPads
SPECIFICATION LiveSpec
INVARIANTS
    TypeOK
    WallBookkeeping
PROPERTIES
    OpenTilesStayOpen
    HitWallsOpen
    DeadReturn
    ImplementsMatch
