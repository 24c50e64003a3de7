CONSTANTS
    MAP_ROWS = 3
    MAP_COLS = 6
    TILE_SIZE = 3
    PLAYER_SPEED = 2
    BOMB_TIMER_TICKS = 6
    EXPLOSION_TIMER_TICKS = 3
    WIN_SCORE = 3
    initial_map <- Corridor
    spawn <- CorridorEnds
    Pads <- CorridorPads
SPECIFICATION Spec
INVARIANTS
    SlotExclusive
    ScoreIsTerritory
    BodiesApart
    BombTileExclusive
    SurvivorsOutsideBlasts
    RespawnState
PROPERTIES
    LandWonByArrival
