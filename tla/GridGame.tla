------------------------------ MODULE GridGame ------------------------------
(***************************************************************************)
(* The rules engine of the game, game/game_logic.c.                        *)
(*                                                                         *)
(* game_step is one call per tick and runs to completion, so it is one     *)
(* action.  It is built, as in the code, from phases applied in order to a *)
(* record g that holds game_state_t and the file-static variables of       *)
(* game_logic.c.  Bomb i and explosion i belong to player i.               *)
(*                                                                         *)
(* Left out: dir, which game_logic.c only writes (the renderer reads it);  *)
(* id and owner, which always equal the index; target_x and target_y,      *)
(* which are the pixels of the target tile whenever they are read.         *)
(***************************************************************************)
EXTENDS Integers, FiniteSets

CONSTANTS
    MAP_ROWS, MAP_COLS,        \* size of the arena, in tiles
    TILE_SIZE, PLAYER_SPEED,   \* pixels per tile, pixels per tick
    BOMB_TIMER_TICKS, EXPLOSION_TIMER_TICKS,
    WIN_SCORE,
    initial_map,               \* the tile of every position at reset
    spawn,                     \* the spawn position of each player
    Pads                       \* the sets of buttons a controller may report

Players == 0..1
Pos     == (0..MAP_ROWS-1) \X (0..MAP_COLS-1)
TileIds == {"EMPTY", "BLUE", "PINK", "YELLOW", "HARD_WALL", "SOFT_WALL"}
Buttons == {"up", "down", "left", "right", "bomb", "restart"}

NONE      == 255               \* RESPAWN_STATE_NONE
SAFE_WAIT == 254               \* RESPAWN_STATE_SAFE_WAIT

\* The arena: row 0, the last row, column 0 and the last column are hard walls.
Inside(c) == c[1] \in 1..MAP_ROWS-2 /\ c[2] \in 1..MAP_COLS-2

ASSUME SizeAssumption == MAP_ROWS \in 0..255 /\ MAP_COLS \in 0..255

ASSUME MapAssumption ==
    /\ initial_map \in [Pos -> {"EMPTY", "BLUE", "HARD_WALL", "SOFT_WALL"}]
    /\ \A c \in Pos : ~Inside(c) => initial_map[c] = "HARD_WALL"

ASSUME SpawnAssumption ==
    /\ spawn \in [Players -> Pos]
    /\ spawn[0] # spawn[1]
    /\ \A p \in Players : initial_map[spawn[p]] = "BLUE"

ASSUME TickAssumption ==
    /\ TILE_SIZE \in Nat \ {0} /\ PLAYER_SPEED \in Nat \ {0}
    /\ BOMB_TIMER_TICKS \in Nat \ {0} /\ EXPLOSION_TIMER_TICKS \in Nat \ {0}
    /\ WIN_SCORE \in Nat \ {0}

ASSUME PadAssumption == Pads \subseteq SUBSET Buttons

VARIABLE game
vars == <<game>>

-----------------------------------------------------------------------------
\* Tiles, directions and occupancy

player_tile_id(p) == IF p = 0 THEN "YELLOW" ELSE "PINK"

\* Mutant: the map border is not excluded.
tile_is_enterable_NoBorder(tile) == tile \notin {"EMPTY", "SOFT_WALL"}

tile_is_enterable(tile) == tile \in {"BLUE", "YELLOW", "PINK"}

\* The buttons have a fixed priority: up, down, left, right.
read_direction(input) ==
    CASE "up" \in input    -> "up"
      [] "up" \notin input /\ "down" \in input -> "down"
      [] input \cap {"up", "down"} = {} /\ "left" \in input -> "left"
      [] input \cap {"up", "down", "left"} = {} /\ "right" \in input -> "right"
      [] OTHER -> "none"

direction_delta(dir) ==
    CASE dir = "up"    -> <<-1, 0>>
      [] dir = "down"  -> <<1, 0>>
      [] dir = "left"  -> <<0, -1>>
      [] dir = "right" -> <<0, 1>>
      [] OTHER         -> <<0, 0>>

Neighbour(c, dir) ==
    <<c[1] + direction_delta(dir)[1], c[2] + direction_delta(dir)[2]>>

bomb_at(g, c) == \E i \in Players : g.bombs[i].active /\ g.bombs[i].pos = c

\* Mutant: the target of a moving player is not reserved.
Occupies_NoTarget(pl, c) == pl.alive /\ pl.pos = c

\* A player occupies its tile and, while it moves, the tile it moves to.
Occupies(pl, c) == pl.alive /\ (pl.pos = c \/ (pl.moving /\ pl.target = c))

\* Mutant: a lit bomb does not block its tile.
can_enter_tile_NoBomb(g, p, c) ==
    /\ c \in Pos
    /\ tile_is_enterable(g.tiles[c])
    /\ ~Occupies(g.players[1 - p], c)

can_enter_tile(g, p, c) ==
    /\ c \in Pos
    /\ tile_is_enterable(g.tiles[c])
    /\ ~bomb_at(g, c)
    /\ ~Occupies(g.players[1 - p], c)

-----------------------------------------------------------------------------
\* Motion and capture

PixelX(c) == c[2] * TILE_SIZE
PixelY(c) == c[1] * TILE_SIZE

step_toward(v, t) ==
    IF v < t THEN IF t - v > PLAYER_SPEED THEN v + PLAYER_SPEED ELSE t
             ELSE IF v - t > PLAYER_SPEED THEN v - PLAYER_SPEED ELSE t

advance_player_motion(pl) ==
    LET nx == step_toward(pl.x, PixelX(pl.target))
        ny == step_toward(pl.y, PixelY(pl.target))
        there == nx = PixelX(pl.target) /\ ny = PixelY(pl.target)
    IN  IF ~pl.moving THEN pl
        ELSE IF there
        THEN [pl EXCEPT !.x = nx, !.y = ny, !.pos = pl.target, !.moving = FALSE]
        ELSE [pl EXCEPT !.x = nx, !.y = ny]

Advance(g) ==
    [g EXCEPT !.players = [p \in Players |->
        IF g.players[p].alive THEN advance_player_motion(g.players[p])
                              ELSE g.players[p]]]

\* Mutant: standing still counts as arriving.
Arrived_Standing(g) ==
    {p \in Players : g.players[p].alive /\ ~advance_player_motion(g.players[p]).moving}

\* The players whose move ends in this tick.
Arrived(g) ==
    {p \in Players : /\ g.players[p].alive
                     /\ g.players[p].moving
                     /\ ~advance_player_motion(g.players[p]).moving}

\* Mutant: the former owner of a captured tile keeps its point.
lose_point_Keep(score) == score

lose_point(score) == IF score > 0 THEN score - 1 ELSE score

apply_tile_capture(g, p) ==
    LET q == 1 - p
        c == g.players[p].pos
        claimed == [g EXCEPT !.tiles[c] = player_tile_id(p), !.players[p].score = @ + 1]
    IN  CASE g.tiles[c] = "BLUE" -> claimed
          [] g.tiles[c] = player_tile_id(q) ->
                [claimed EXCEPT !.players[q].score = lose_point(@)]
          [] OTHER -> g

Capture(g, arrived) ==
    LET g0 == IF 0 \in arrived THEN apply_tile_capture(g, 0) ELSE g
    IN  IF 1 \in arrived THEN apply_tile_capture(g0, 1) ELSE g0

\* p may start a move in direction dir: build_move_candidate returns 1.
move_candidate(g, p, dir) ==
    /\ g.players[p].alive
    /\ ~g.players[p].moving
    /\ dir # "none"
    /\ can_enter_tile(g, p, Neighbour(g.players[p].pos, dir))

\* Both candidates are computed before either target is set; two candidates
\* for one tile cancel each other.
StartMoves(g, dir) ==
    LET to(p) == Neighbour(g.players[p].pos, dir[p])
        ok(p) == move_candidate(g, p, dir[p])
        clash == ok(0) /\ ok(1) /\ to(0) = to(1)
    IN  [g EXCEPT !.players = [p \in Players |->
            IF ok(p) /\ ~clash
            THEN [g.players[p] EXCEPT !.moving = TRUE, !.target = to(p)]
            ELSE g.players[p]]]

-----------------------------------------------------------------------------
\* Bombs and explosions

\* Mutant: the explosion slot is not checked.
place_bomb_SlotBusy(g, p, pressed) ==
    LET pl == g.players[p]
    IN  IF /\ pressed
           /\ pl.alive /\ ~pl.moving
           /\ ~g.bombs[p].active
           /\ tile_is_enterable(g.tiles[pl.pos])
           /\ ~bomb_at(g, pl.pos)
        THEN [g EXCEPT !.bombs[p] =
                [active |-> TRUE, pos |-> pl.pos, timer |-> BOMB_TIMER_TICKS]]
        ELSE g

\* pressed: the bomb button is down now and was up at the previous tick.
place_bomb(g, p, pressed) ==
    LET pl == g.players[p]
    IN  IF /\ pressed
           /\ pl.alive /\ ~pl.moving
           /\ ~g.bombs[p].active /\ ~g.explosions[p].active
           /\ tile_is_enterable(g.tiles[pl.pos])
           /\ ~bomb_at(g, pl.pos)
        THEN [g EXCEPT !.bombs[p] =
                [active |-> TRUE, pos |-> pl.pos, timer |-> BOMB_TIMER_TICKS]]
        ELSE g

PlaceBombs(g, pressed) == place_bomb(place_bomb(g, 0, pressed[0]), 1, pressed[1])

\* fill_explosion_cells: the centre and its four neighbours, in a plus.
BlastCells(c) == {c} \cup {Neighbour(c, d) : d \in {"up", "down", "left", "right"}}

\* The code indexes tiles[row][col] with every cell and has no bounds check;
\* c \in Pos stands for reads that stay in the array (see BlastsInsideMap).
create_explosion_from_bomb(g, i) ==
    LET hit == {c \in BlastCells(g.bombs[i].pos) :
                    c \in Pos /\ g.tiles[c] = "SOFT_WALL"}
    IN  [g EXCEPT
            !.explosions[i] = [active |-> TRUE, center |-> g.bombs[i].pos,
                               timer |-> EXPLOSION_TIMER_TICKS],
            !.marked[i] = hit,
            !.hits = [c \in Pos |-> IF c \in hit THEN g.hits[c] + 1 ELSE g.hits[c]],
            !.bombs[i] = [g.bombs[i] EXCEPT !.active = FALSE, !.timer = 0]]

run_bomb(g, i) ==
    LET left == IF g.bombs[i].timer > 0 THEN g.bombs[i].timer - 1 ELSE 0
    IN  IF ~g.bombs[i].active THEN g
        ELSE IF left = 0 THEN create_explosion_from_bomb(g, i)
        ELSE [g EXCEPT !.bombs[i].timer = left]

RunBombs(g) == run_bomb(run_bomb(g, 0), 1)

\* The body of a player, TILE_SIZE square at pixel (x, y), overlaps tile c.
rect_overlaps_tile(x, y, c) ==
    /\ ~(x + TILE_SIZE - 1 < PixelX(c) \/ PixelX(c) + TILE_SIZE - 1 < x)
    /\ ~(y + TILE_SIZE - 1 < PixelY(c) \/ PixelY(c) + TILE_SIZE - 1 < y)

explosion_hits_player(ex, pl) ==
    \E c \in BlastCells(ex.center) : rect_overlaps_tile(pl.x, pl.y, c)

\* The explosions that kill p in this tick.
Killers(g, p) ==
    {e \in Players : /\ g.players[p].alive
                     /\ g.explosions[e].active
                     /\ explosion_hits_player(g.explosions[e], g.players[p])}

\* Mutants: the land of a dead player is kept, or becomes a hole.
clear_player_territory_Keep(tiles, p) == tiles
clear_player_territory_Hole(tiles, p) ==
    [c \in Pos |-> IF tiles[c] = player_tile_id(p) THEN "EMPTY" ELSE tiles[c]]

clear_player_territory(tiles, p) ==
    [c \in Pos |-> IF tiles[c] = player_tile_id(p) THEN "BLUE" ELSE tiles[c]]

\* Explosions are tried in index order and a dead player is skipped, so the
\* death is charged to the killer of smallest index.
kill_player(g, p) ==
    IF Killers(g, p) = {} THEN g
    ELSE [g EXCEPT
            !.players[p] = [g.players[p] EXCEPT !.alive = FALSE, !.moving = FALSE,
                                                !.target = g.players[p].pos, !.score = 0],
            !.tiles = clear_player_territory(g.tiles, p),
            !.wait[p] = IF 0 \in Killers(g, p) THEN 0 ELSE 1]

KillPlayers(g) == kill_player(kill_player(g, 0), 1)

\* Mutant: a finished explosion still counts.
hits_without_Keep(g, e) == g.hits

\* The hit counts once explosion e is over.
hits_without(g, e) ==
    [c \in Pos |-> IF c \in g.marked[e] /\ g.hits[c] > 0
                   THEN g.hits[c] - 1 ELSE g.hits[c]]

\* Mutant: the first of two explosions opens the wall.
walls_opened_First(g, e, left) ==
    {c \in g.marked[e] : g.tiles[c] = "SOFT_WALL"}

\* The walls that open when explosion e is over and the counts are left.
walls_opened(g, e, left) ==
    {c \in g.marked[e] : left[c] = 0 /\ g.tiles[c] = "SOFT_WALL"}

cleanup_explosion(g, e) ==
    LET left == hits_without(g, e)
    IN  [g EXCEPT
            !.hits = left,
            !.tiles = [c \in Pos |->
                IF c \in walls_opened(g, e, left) THEN "BLUE" ELSE g.tiles[c]],
            !.marked[e] = {},
            !.explosions[e] = [g.explosions[e] EXCEPT !.active = FALSE, !.timer = 0]]

run_explosion(g, e) ==
    LET left == IF g.explosions[e].timer > 0 THEN g.explosions[e].timer - 1 ELSE 0
    IN  IF ~g.explosions[e].active THEN g
        ELSE IF left = 0 THEN cleanup_explosion(g, e)
        ELSE [g EXCEPT !.explosions[e].timer = left]

RunExplosions(g) == run_explosion(run_explosion(g, 0), 1)

-----------------------------------------------------------------------------
\* Respawn, verdict and sounds

tile_in_active_explosion(g, c) ==
    \E e \in Players : g.explosions[e].active /\ c \in BlastCells(g.explosions[e].center)

\* Mutant: a burning spawn tile is thought safe.
spawn_tile_safe_Burning(g, p) ==
    /\ tile_is_enterable(g.tiles[spawn[p]])
    /\ ~bomb_at(g, spawn[p])
    /\ ~Occupies(g.players[1 - p], spawn[p])

spawn_tile_safe(g, p) ==
    /\ tile_is_enterable(g.tiles[spawn[p]])
    /\ ~bomb_at(g, spawn[p])
    /\ ~tile_in_active_explosion(g, spawn[p])
    /\ ~Occupies(g.players[1 - p], spawn[p])

\* Mutant: rows and columns are swapped.
AtSpawn_Swapped(p, s) ==
    LET c == <<spawn[p][2], spawn[p][1]>>
    IN  [alive |-> TRUE, moving |-> FALSE, pos |-> c, target |-> c,
         x |-> PixelX(c), y |-> PixelY(c), score |-> s]

\* Player p standing on its spawn tile.
AtSpawn(p, s) ==
    [alive |-> TRUE, moving |-> FALSE, pos |-> spawn[p], target |-> spawn[p],
     x |-> PixelX(spawn[p]), y |-> PixelY(spawn[p]), score |-> s]

\* score is the one field respawn_player leaves alone.
respawn_player(g, p) ==
    [g EXCEPT !.players[p] = AtSpawn(p, g.players[p].score), !.wait[p] = NONE]

\* Mutant: the end of the explosion is not noticed.
next_wait_Stuck(g, p) == g.wait[p]

\* A dead player first waits for the explosion that killed it, then for a
\* safe spawn tile; both may happen in one tick.
next_wait(g, p) ==
    IF g.wait[p] \in Players /\ ~g.explosions[g.wait[p]].active
    THEN SAFE_WAIT ELSE g.wait[p]

run_respawn(g, p) ==
    IF g.players[p].alive THEN g
    ELSE IF next_wait(g, p) = SAFE_WAIT /\ spawn_tile_safe(g, p)
    THEN respawn_player(g, p)
    ELSE [g EXCEPT !.wait[p] = next_wait(g, p)]

Respawn(g) == run_respawn(run_respawn(g, 0), 1)

\* Mutant: player 0 is looked at first.
Winner_First(s0, s1) ==
    IF s0 >= WIN_SCORE THEN 0 ELSE IF s1 >= WIN_SCORE THEN 1 ELSE -1

Winner(s0, s1) ==
    CASE s0 >= WIN_SCORE /\ s1 >= WIN_SCORE ->
            IF s0 > s1 THEN 0 ELSE IF s1 > s0 THEN 1 ELSE -1
      [] s0 >= WIN_SCORE /\ s1 < WIN_SCORE -> 0
      [] s0 < WIN_SCORE /\ s1 >= WIN_SCORE -> 1
      [] OTHER -> -1

Verdict(g) ==
    LET s0 == g.players[0].score
        s1 == g.players[1].score
    IN  IF s0 >= WIN_SCORE \/ s1 >= WIN_SCORE
        THEN [g EXCEPT !.game_over = TRUE, !.winner = Winner(s0, s1)]
        ELSE g

Sounds(over, exploded, died, wall) ==
    CASE over -> <<"VICTORY", "NONE">>
      [] ~over /\ exploded ->
            <<"EXPLOSION", IF died THEN "PLAYER_DIES" ELSE IF wall THEN "WALL_BREAKS" ELSE "NONE">>
      [] ~over /\ ~exploded /\ died -> <<"PLAYER_DIES", "NONE">>
      [] OTHER -> <<"NONE", "NONE">>

-----------------------------------------------------------------------------
\* game_reset and game_step

ResetGame ==
    [tiles      |-> initial_map,
     players    |-> [p \in Players |-> AtSpawn(p, 0)],
     bombs      |-> [p \in Players |-> [active |-> FALSE, pos |-> spawn[p], timer |-> 0]],
     explosions |-> [p \in Players |-> [active |-> FALSE, center |-> spawn[p], timer |-> 0]],
     hits       |-> [c \in Pos |-> 0],
     marked     |-> [p \in Players |-> {}],
     wait       |-> [p \in Players |-> NONE],
     game_over  |-> FALSE,
     winner     |-> -1,
     sounds     |-> <<"NONE", "NONE">>,
     prev_bomb  |-> [p \in Players |-> FALSE]]

BombDown(inputs) == [p \in Players |-> "bomb" \in inputs[p]]

\* The body of game_step when no restart is pressed and the game is not over.
PlayTick(g, inputs) ==
    LET dir     == [p \in Players |-> read_direction(inputs[p])]
        pressed == [p \in Players |-> "bomb" \in inputs[p] /\ ~g.prev_bomb[p]]
        moved   == StartMoves(Capture(Advance(g), Arrived(g)), dir)
        armed   == PlaceBombs(moved, pressed)
        blown   == RunBombs(armed)
        killed  == KillPlayers(blown)
        judged  == Verdict(Respawn(RunExplosions(killed)))
        fresh   == {i \in Players : armed.bombs[i].active /\ ~blown.bombs[i].active}
        died    == \E p \in Players : blown.players[p].alive /\ ~killed.players[p].alive
        wall    == \E i \in fresh : blown.marked[i] # {}
    IN  [judged EXCEPT !.sounds = Sounds(judged.game_over, fresh # {}, died, wall),
                       !.prev_bomb = BombDown(inputs)]

RestartPressed(inputs) == \E p \in Players : "restart" \in inputs[p]

Restart(inputs) ==
    /\ RestartPressed(inputs)
    /\ game' = ResetGame

GameOverTick(inputs) ==
    /\ ~RestartPressed(inputs)
    /\ game.game_over
    /\ game' = [game EXCEPT !.sounds = <<"NONE", "NONE">>, !.prev_bomb = BombDown(inputs)]

Play(inputs) ==
    /\ ~RestartPressed(inputs)
    /\ ~game.game_over
    /\ game' = PlayTick(game, inputs)

game_step(inputs) == Restart(inputs) \/ GameOverTick(inputs) \/ Play(inputs)

Init == game = ResetGame
Next == \E inputs \in [Players -> Pads] : game_step(inputs)

Spec == Init /\ [][Next]_vars

-----------------------------------------------------------------------------
\* Invariants

Land(g, p) == {c \in Pos : g.tiles[c] = player_tile_id(p)}

SoundIds == {"NONE", "EXPLOSION", "PLAYER_DIES", "VICTORY", "WALL_BREAKS"}

PlayerStates ==
    [alive : BOOLEAN, moving : BOOLEAN, pos : Pos, target : Pos,
     x : Nat, y : Nat, score : Nat]
BombStates      == [active : BOOLEAN, pos : Pos, timer : 0..BOMB_TIMER_TICKS]
ExplosionStates == [active : BOOLEAN, center : Pos, timer : 0..EXPLOSION_TIMER_TICKS]

GameStates ==
    [tiles      : [Pos -> TileIds],
     players    : [Players -> PlayerStates],
     bombs      : [Players -> BombStates],
     explosions : [Players -> ExplosionStates],
     hits       : [Pos -> Nat],
     marked     : [Players -> SUBSET Pos],
     wait       : [Players -> Players \cup {SAFE_WAIT, NONE}],
     game_over  : BOOLEAN,
     winner     : {-1, 0, 1},
     sounds     : SoundIds \X SoundIds,
     prev_bomb  : [Players -> BOOLEAN]]

\* Every field keeps its type: positions and targets stay in the map, pixels
\* and scores never go below zero (they are unsigned), and a timer stays
\* between zero and the value it is started from.
TypeOK == game \in GameStates

\* A score is kept by +1 and -1 in apply_tile_capture and by a reset to zero
\* in kill_player, never counted: it must still be the number of tiles that
\* show the colour of the player, whatever captures and deaths share a tick.
ScoreIsTerritory ==
    \A p \in Players : game.players[p].score = Cardinality(Land(game, p))

\* The bodies of two living players never overlap by a pixel, though each is
\* drawn between two tiles while it moves: the reservation of the target tile
\* in tile_blocked_by_other_player and spawn_tile_safe keeps them apart.
BodiesApart ==
    (game.players[0].alive /\ game.players[1].alive) =>
        \/ game.players[0].x + TILE_SIZE <= game.players[1].x
        \/ game.players[1].x + TILE_SIZE <= game.players[0].x
        \/ game.players[0].y + TILE_SIZE <= game.players[1].y
        \/ game.players[1].y + TILE_SIZE <= game.players[0].y

\* A lit bomb keeps its tile: the other player is neither on it nor on the way
\* to it, its owner never walks back onto it once gone, nobody respawns on it,
\* and no second bomb is planted there.
BombTileExclusive ==
    \A i \in Players : game.bombs[i].active =>
        LET c == game.bombs[i].pos
            owner == game.players[i]
        IN  /\ ~Occupies(game.players[1 - i], c)
            /\ owner.alive /\ owner.moving => owner.target # c
            /\ game.bombs[1 - i].active => game.bombs[1 - i].pos # c

\* create_explosion_from_bomb and cleanup_explosion index tiles[][] and
\* pending_soft_wall_hits[][] without a bounds check: every cell of a burning
\* explosion, and of the explosion a lit bomb will become, is in the map.
BlastsInsideMap ==
    \A i \in Players :
        /\ game.bombs[i].active => BlastCells(game.bombs[i].pos) \subseteq Pos
        /\ game.explosions[i].active => BlastCells(game.explosions[i].center) \subseteq Pos

\* Two explosions may hit one soft wall.  pending_soft_wall_hits counts the
\* burning explosions that have the wall marked, marks belong to burning
\* explosions, and a marked wall stands until the last of them is over.
WallBookkeeping ==
    /\ \A c \in Pos :
            game.hits[c] = Cardinality({e \in Players : c \in game.marked[e]})
    /\ \A e \in Players :
            /\ game.marked[e] # {} => game.explosions[e].active
            /\ \A c \in game.marked[e] : game.tiles[c] = "SOFT_WALL"

\* No player survives a tick inside a burning explosion: not by walking in,
\* not by leaving late, not by respawning.
SurvivorsOutsideBlasts ==
    \A p, e \in Players :
        game.players[p].alive /\ game.explosions[e].active =>
            ~explosion_hits_player(game.explosions[e], game.players[p])

\* A dead player waits either for the explosion that killed it, which still
\* burns (the slot is never reused under it, nor left behind), or for a safe
\* spawn; a living one waits for nothing.  A dead player holds no land.
RespawnState ==
    \A p \in Players :
        /\ game.players[p].alive <=> game.wait[p] = NONE
        /\ game.wait[p] \in Players => game.explosions[game.wait[p]].active
        /\ ~game.players[p].alive => game.players[p].score = 0 /\ Land(game, p) = {}

\* One slot, one life: the bomb and the explosion of a player are never both
\* active, so create_explosion_from_bomb never overwrites a burning explosion
\* together with the marks it must still clean up.
SlotExclusive ==
    \A i \in Players : ~(game.bombs[i].active /\ game.explosions[i].active)

\* The game is over exactly when somebody holds WIN_SCORE tiles; the winner is
\* alive and holds strictly more land than the other, and winner = -1 of a
\* finished game means an exact tie.
VerdictIsSound ==
    LET land(p) == Cardinality(Land(game, p))
    IN  /\ game.game_over <=> \E p \in Players : land(p) >= WIN_SCORE
        /\ \A p \in Players : game.winner = p =>
                game.game_over /\ game.players[p].alive /\ land(p) > land(1 - p)
        /\ game.game_over /\ game.winner = -1 => land(0) = land(1)

-----------------------------------------------------------------------------
\* Action properties

\* Between two resets a tile that can be entered never closes again, whatever
\* captures, deaths and explosions do to its colour.
OpenTilesStayOpen ==
    [][\/ game' = ResetGame
       \/ \A c \in Pos : tile_is_enterable(game.tiles[c]) =>
                            tile_is_enterable(game'.tiles[c])]_vars

\* Land is won in one way: by ending, alive, the move that reserved the tile.
\* A tile turns to the colour of p only under p, and p gains at most one.
LandWonByArrival ==
    [][\A p \in Players : \A c \in Land(game', p) \ Land(game, p) :
            /\ game.players[p].moving /\ game.players[p].target = c
            /\ game'.players[p].alive /\ game'.players[p].pos = c]_vars

=============================================================================
