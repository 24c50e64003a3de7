----------------------------- MODULE Rendering -----------------------------
(***************************************************************************)
(* What the players see of GridGame: render_frame of game/render.c turns   *)
(* the game into tile bytes and sprite registers at the end of every tick, *)
(* game/video_interface.c stages and packs them, and the FPGA decodes them *)
(* (sprite_registers.sv) and composes the picture (tile_map_renderer.sv,   *)
(* sprite_scan_renderer.sv).  How a staged frame travels to the FPGA is    *)
(* module VideoPath; here it arrives at once.                              *)
(*                                                                         *)
(* A sprite's picture is named by its kind and owner: facing, the five     *)
(* pictures of a blast and the letters are not told apart.  An image is    *)
(* taken for a full square, so what is visible here is visible whatever    *)
(* pixels of the images above it are transparent.                          *)
(***************************************************************************)
EXTENDS GridGame, Sequences

CONSTANTS
    VIDEO_SPRITE_COUNT,           \* sprite registers
    UI_ROW_START, UI_COL_START    \* the tile where the win banner starts

\* There is a register for every player, bomb, blast cell and banner tile.
ASSUME RegisterAssumption == VIDEO_SPRITE_COUNT \in Nat /\ VIDEO_SPRITE_COUNT >= 18

\* Pixels fit the coordinates of a register: 10 bits across, 9 down.
ASSUME PixelAssumption ==
    /\ UI_ROW_START \in Nat /\ UI_COL_START \in Nat
    /\ MAP_COLS * TILE_SIZE <= 1024 /\ (UI_COL_START + 4) * TILE_SIZE < 1024
    /\ MAP_ROWS * TILE_SIZE <= 512  /\ UI_ROW_START * TILE_SIZE < 512

\* The tiles of the win banner: three letters, a gap and the winner's marker.
BannerTiles == {<<UI_ROW_START, UI_COL_START + i>> : i \in {0, 1, 2, 4}}

\* The map leaves room for it: no tile a player can reach is one of them, nor
\* next to one.
ASSUME BannerAssumption ==
    \A c \in Pos : initial_map[c] \in {"BLUE", "SOFT_WALL"} => BlastCells(c) \cap BannerTiles = {}

\* SPRITE_SIZE of the renderer and TILE_SIZE of the game are one length.
SPRITE_SIZE == TILE_SIZE

VARIABLES
    shadow_tiles,      \* the staged tile bytes, by address
    shadow_sprites     \* the staged sprite registers
renderVars == <<game, shadow_tiles, shadow_sprites>>

Slots     == 0..VIDEO_SPRITE_COUNT - 1
Addresses == 0..MAP_ROWS * MAP_COLS - 1

-----------------------------------------------------------------------------
\* Staging: video_interface.c

\* A packed register: x has 10 bits and y 9, as the FPGA decodes them.
video_pack_sprite(s) == [x |-> s.x % 1024, y |-> s.y % 512, id |-> s.id, enable |-> TRUE]

Cleared == [x |-> 0, y |-> 0, id |-> <<"player", 0>>, enable |-> FALSE]

\* Mutant: the registers are not cleared first.
video_set_sprites_NotCleared(list) ==
    [slot \in Slots |-> IF slot < Len(list) THEN video_pack_sprite(list[slot + 1])
                                             ELSE shadow_sprites[slot]]

\* The registers once the sprites of list are set in slots 0, 1, ...: every
\* stage stops when no slot is left.  The rest stays cleared.
video_set_sprites(list) ==
    [slot \in Slots |-> IF slot < Len(list) THEN video_pack_sprite(list[slot + 1]) ELSE Cleared]

-----------------------------------------------------------------------------
\* render_frame: render.c

Sprite(x, y, kind, owner) == [x |-> x, y |-> y, id |-> <<kind, owner>>]
SpriteAt(c, kind, owner)  == Sprite(PixelX(c), PixelY(c), kind, owner)

\* x, if it is one of S.
Only(x, S) == IF x \in S THEN <<x>> ELSE <<>>

\* A loop over the indices 0 and 1 that skips those out of S.
Listed(S) == Only(0, S) \o Only(1, S)

stage_players(g) ==
    LET living == Listed({p \in Players : g.players[p].alive})
    IN  [k \in 1..Len(living) |->
            Sprite(g.players[living[k]].x, g.players[living[k]].y, "player", living[k])]

stage_bombs(g) ==
    LET lit == Listed({b \in Players : g.bombs[b].active})
    IN  [k \in 1..Len(lit) |-> SpriteAt(g.bombs[lit[k]].pos, "bomb", lit[k])]

\* fill_explosion_cells: the centre, then up, down, left, right; a cell off
\* the map is skipped.
ExplosionCells(c) ==
    Only(c, Pos) \o Only(Neighbour(c, "up"), Pos) \o Only(Neighbour(c, "down"), Pos)
    \o Only(Neighbour(c, "left"), Pos) \o Only(Neighbour(c, "right"), Pos)

stage_explosion(g, e) ==
    LET cells == ExplosionCells(g.explosions[e].center)
    IN  IF g.explosions[e].active
        THEN [k \in 1..Len(cells) |-> SpriteAt(cells[k], "blast", e)]
        ELSE <<>>

stage_explosions(g) == stage_explosion(g, 0) \o stage_explosion(g, 1)

\* Mutant: the banner starts at the left edge.
stage_win_banner_AtEdge(g) ==
    IF g.game_over /\ g.winner \in Players
    THEN [k \in 1..4 |->
            SpriteAt(<<UI_ROW_START, IF k < 4 THEN k - 1 ELSE 4>>, "banner", g.winner)]
    ELSE <<>>

\* Three letters, a gap and the winner's marker.
stage_win_banner(g) ==
    IF g.game_over /\ g.winner \in Players
    THEN [k \in 1..4 |->
            SpriteAt(<<UI_ROW_START, UI_COL_START + IF k < 4 THEN k - 1 ELSE 4>>,
                     "banner", g.winner)]
    ELSE <<>>

\* Mutant: the blasts come before the bombs.
staged_BlastsFirst(g) ==
    stage_players(g) \o stage_explosions(g) \o stage_bombs(g) \o stage_win_banner(g)

\* In the order of the slots, and so of priority on the screen.
staged(g) ==
    stage_players(g) \o stage_bombs(g) \o stage_explosions(g) \o stage_win_banner(g)

\* Row by row: video_set_tile stores (row, col) at row * MAP_COLS + col.
staged_tiles(g) ==
    [a \in Addresses |-> g.tiles[<<a \div MAP_COLS, a % MAP_COLS>>]]

render_frame(g) ==
    /\ shadow_tiles' = staged_tiles(g)
    /\ shadow_sprites' = video_set_sprites(staged(g))

\* render_init stages an empty picture.
render_init ==
    /\ shadow_tiles = [a \in Addresses |-> "EMPTY"]
    /\ shadow_sprites = [slot \in Slots |-> Cleared]

RenderInit == Init /\ render_init

\* A turn of the main loop: a tick, and then its frame.
Frame == Next /\ render_frame(game')

RenderSpec == RenderInit /\ [][Frame]_renderVars

-----------------------------------------------------------------------------
\* The picture: tile_map_renderer.sv and sprite_scan_renderer.sv

tile_address(px, py) == (py \div TILE_SIZE) * MAP_COLS + (px \div TILE_SIZE)

inside_box(slot, px, py) ==
    LET r == shadow_sprites[slot]
    IN  /\ r.enable
        /\ px >= r.x /\ px - r.x < SPRITE_SIZE
        /\ py >= r.y /\ py - r.y < SPRITE_SIZE

\* What a pixel shows: the sprite of the highest register over it, or else
\* the tile.
Picture(px, py) ==
    LET hits == {slot \in Slots : inside_box(slot, px, py)}
    IN  IF hits = {} THEN <<"tile", shadow_tiles[tile_address(px, py)]>>
                     ELSE shadow_sprites[CHOOSE top \in hits : \A slot \in hits : slot <= top].id

-----------------------------------------------------------------------------
\* Properties, of the picture from the first frame on

Drawn == ~render_init

\* The corners of a square of a tile's size.  Two such squares that overlap
\* cover a corner of each other, so the corners stand for all its pixels.
Corners(x, y) == {x, x + TILE_SIZE - 1} \X {y, y + TILE_SIZE - 1}

Shows(x, y, ids) == \A q \in Corners(x, y) : Picture(q[1], q[2]) \in ids

\* Nothing ever hides a living player but its own bomb: not the other player,
\* the other's bomb, a blast nor the banner, although all of them have higher
\* registers.  This rests on the rules (bodies apart, bombs alone on their
\* tiles, nobody alive in a blast) and on where the map leaves room.
PlayersVisible ==
    Drawn => \A p \in Players : game.players[p].alive =>
        Shows(game.players[p].x, game.players[p].y, {<<"player", p>>, <<"bomb", p>>})

\* A burning cell is seen burning, also where a bomb lies, for the higher
\* register wins; a lit bomb is seen unless it lies in a blast.
BlastsOnTop ==
    Drawn => \A i \in Players :
        /\ game.explosions[i].active =>
              \A c \in BlastCells(game.explosions[i].center) \cap Pos :
                    Shows(PixelX(c), PixelY(c), {"blast"} \X Players)
        /\ game.bombs[i].active =>
              LET c == game.bombs[i].pos
              IN  Shows(PixelX(c), PixelY(c),
                        IF tile_in_active_explosion(game, c)
                        THEN {"blast"} \X Players ELSE {<<"bomb", i>>})

\* Every thing of the game has a register and no register is left over from
\* an earlier frame: none was dropped for want of a slot, the dead and the
\* burnt out are gone; and each pixel fetches the tile it lies on.
FrameComplete ==
    Drawn =>
        /\ Cardinality({slot \in Slots : shadow_sprites[slot].enable}) =
              Cardinality({p \in Players : game.players[p].alive})
              + Cardinality({b \in Players : game.bombs[b].active})
              + Cardinality({burn \in Players \X Pos :
                    /\ game.explosions[burn[1]].active
                    /\ burn[2] \in BlastCells(game.explosions[burn[1]].center)})
              + IF game.game_over /\ game.winner # -1 THEN 4 ELSE 0
        /\ \A c \in Pos : \A q \in Corners(PixelX(c), PixelY(c)) :
              shadow_tiles[tile_address(q[1], q[2])] = game.tiles[c]

\* The allocation of render.h:19-23: players in slots 0 and 1, bombs in 2 and
\* 3, blasts in 4 to 13, the banner above.
SlotTable ==
    \A slot \in Slots : shadow_sprites[slot].enable =>
        LET kind == shadow_sprites[slot].id[1]
        IN  /\ kind = "player" => slot \in 0..1
            /\ kind = "bomb"   => slot \in 2..3
            /\ kind = "blast"  => slot \in 4..13
            /\ kind = "banner" => slot \in 14..29
=============================================================================
