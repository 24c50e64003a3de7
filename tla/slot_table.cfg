CONSTANTS
    MAP_ROWS = 4
    MAP_COLS = 4
    TILE_SIZE = 4
    PLAYER_SPEED = 2
    BOMB_TIMER_TICKS = 2
    EXPLOSION_TIMER_TICKS = 2
    WIN_SCORE = 2
    initial_map <- Field
    spawn <- FieldCorners
    Pads <- FieldPads
    VIDEO_SPRITE_COUNT = 30
    UI_ROW_START = 1
    UI_COL_START = 6
SPECIFICATION RenderSpec
INVARIANTS
    SlotTable
