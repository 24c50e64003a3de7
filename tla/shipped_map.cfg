CONSTANTS
    MAP_ROWS = 15
    MAP_COLS = 20
    TILE_SIZE = 32
    PLAYER_SPEED = 16
    BOMB_TIMER_TICKS = 2
    EXPLOSION_TIMER_TICKS = 2
    WIN_SCORE = 4
    initial_map <- shipped_map
    spawn <- shipped_spawn
    Pads <- ShippedPads
    VIDEO_SPRITE_COUNT = 30
    UI_ROW_START = 1
    UI_COL_START = 6
SPECIFICATION RenderSpec
INVARIANTS
    BlastsInsideMap
    PlayersVisible
