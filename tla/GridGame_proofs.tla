--------------------------- MODULE GridGame_proofs ---------------------------
(***************************************************************************)
(* Proofs about GridGame, for every arena, speed, timer and controller.    *)
(***************************************************************************)
EXTENDS GridGame, FiniteSetTheorems, TLAPS

-----------------------------------------------------------------------------
\* Types.  Each phase of game_step maps a well-typed game to a well-typed one.

\* The two players are each other's opponent.
LEMMA Opponents ==
    /\ Players = {0, 1}
    /\ \A p \in Players : 1 - p \in Players /\ 1 - p # p
BY DEF Players

\* A tile has non-negative pixel coordinates.
LEMMA PixelType == ASSUME NEW c \in Pos PROVE PixelX(c) \in Nat /\ PixelY(c) \in Nat
<1>1. c[1] \in Nat /\ c[2] \in Nat
    BY SizeAssumption DEF Pos
<1>2. TILE_SIZE \in Nat
    BY TickAssumption
<1>3. \A a, b \in Nat : a * b \in Nat
    OBVIOUS
<1> QED BY <1>1, <1>2, <1>3 DEF PixelX, PixelY

\* A step towards a target never leaves the naturals: no unsigned underflow.
LEMMA StepTowardType ==
    ASSUME NEW v \in Nat, NEW t \in Nat PROVE step_toward(v, t) \in Nat
BY TickAssumption DEF step_toward

LEMMA MotionType ==
    ASSUME NEW pl \in PlayerStates PROVE advance_player_motion(pl) \in PlayerStates
<1>1. /\ pl.target \in Pos /\ pl.x \in Nat /\ pl.y \in Nat
    BY DEF PlayerStates
<1>2. /\ step_toward(pl.x, PixelX(pl.target)) \in Nat
      /\ step_toward(pl.y, PixelY(pl.target)) \in Nat
    BY <1>1, PixelType, StepTowardType
<1> QED BY <1>1, <1>2 DEF advance_player_motion, PlayerStates

LEMMA AdvanceType == ASSUME NEW g \in GameStates PROVE Advance(g) \in GameStates
<1>1. \A p \in Players : g.players[p] \in PlayerStates
    BY DEF GameStates
<1>2. \A p \in Players : advance_player_motion(g.players[p]) \in PlayerStates
    BY <1>1, MotionType
<1> QED BY <1>1, <1>2 DEF Advance, GameStates

LEMMA CaptureOneType ==
    ASSUME NEW g \in GameStates, NEW p \in Players
    PROVE  apply_tile_capture(g, p) \in GameStates
<1> DEFINE q == 1 - p
           c == g.players[p].pos
           claimed == [g EXCEPT !.tiles[c] = player_tile_id(p), !.players[p].score = @ + 1]
<1>1. q \in Players /\ c \in Pos
    BY Opponents DEF GameStates, PlayerStates
<1>2. player_tile_id(p) \in TileIds
    BY DEF player_tile_id, TileIds
<1>3. [g.tiles EXCEPT ![c] = player_tile_id(p)] \in [Pos -> TileIds]
    BY <1>1, <1>2 DEF GameStates
<1>4. [g.players EXCEPT ![p].score = @ + 1] \in [Players -> PlayerStates]
    BY DEF GameStates, PlayerStates
<1>5. claimed \in GameStates
    BY <1>3, <1>4 DEF GameStates
<1>6. [claimed EXCEPT !.players[q].score = lose_point(@)] \in GameStates
  <2>1. [claimed.players EXCEPT ![q].score = lose_point(@)] \in [Players -> PlayerStates]
    <3> HIDE DEF claimed
    <3>1. claimed.players \in [Players -> PlayerStates]
        BY <1>5 DEF GameStates
    <3>2. lose_point(claimed.players[q].score) \in Nat
        BY <1>1, <3>1 DEF lose_point, PlayerStates
    <3> QED BY <1>1, <3>1, <3>2 DEF PlayerStates
  <2> HIDE DEF claimed
  <2> QED BY <1>5, <2>1 DEF GameStates
<1> QED BY <1>5, <1>6 DEF apply_tile_capture

LEMMA CaptureType ==
    ASSUME NEW g \in GameStates, NEW arrived \in SUBSET Players
    PROVE  Capture(g, arrived) \in GameStates
<1> DEFINE g0 == IF 0 \in arrived THEN apply_tile_capture(g, 0) ELSE g
<1>1. g0 \in GameStates
    BY CaptureOneType, Opponents
<1>2. apply_tile_capture(g0, 1) \in GameStates
    BY <1>1, CaptureOneType, Opponents
<1> QED BY <1>1, <1>2 DEF Capture

LEMMA StartMovesType ==
    ASSUME NEW g \in GameStates, NEW dir
    PROVE  StartMoves(g, dir) \in GameStates
<1> DEFINE to(p) == Neighbour(g.players[p].pos, dir[p])
           ok(p) == move_candidate(g, p, dir[p])
           clash == ok(0) /\ ok(1) /\ to(0) = to(1)
           next(p) == IF ok(p) /\ ~clash
                      THEN [g.players[p] EXCEPT !.moving = TRUE, !.target = to(p)]
                      ELSE g.players[p]
<1>1. \A p \in Players : ok(p) => to(p) \in Pos
    BY DEF move_candidate, can_enter_tile
<1>2. \A p \in Players : g.players[p] \in PlayerStates
    BY DEF GameStates
<1>3. \A p \in Players : next(p) \in PlayerStates
    <2> HIDE DEF to, ok, clash
    <2> QED BY <1>1, <1>2 DEF PlayerStates
<1>4. [p \in Players |-> next(p)] \in [Players -> PlayerStates]
    BY <1>3
<1>5. StartMoves(g, dir) = [g EXCEPT !.players = [p \in Players |-> next(p)]]
    BY DEF StartMoves
<1> HIDE DEF next
<1> QED BY <1>4, <1>5 DEF GameStates

LEMMA PlaceOneType ==
    ASSUME NEW g \in GameStates, NEW p \in Players, NEW pressed
    PROVE  place_bomb(g, p, pressed) \in GameStates
<1>1. g.players[p].pos \in Pos
    BY DEF GameStates, PlayerStates
<1>2. [active |-> TRUE, pos |-> g.players[p].pos, timer |-> BOMB_TIMER_TICKS] \in BombStates
    BY <1>1, TickAssumption DEF BombStates
<1> QED BY <1>2 DEF place_bomb, GameStates

LEMMA PlaceBombsType ==
    ASSUME NEW g \in GameStates, NEW pressed
    PROVE  PlaceBombs(g, pressed) \in GameStates
<1>1. place_bomb(g, 0, pressed[0]) \in GameStates
    BY PlaceOneType, Opponents
<1> QED BY <1>1, PlaceOneType, Opponents DEF PlaceBombs

LEMMA ExplodeType ==
    ASSUME NEW g \in GameStates, NEW i \in Players
    PROVE  create_explosion_from_bomb(g, i) \in GameStates
<1> DEFINE hit == {c \in BlastCells(g.bombs[i].pos) : c \in Pos /\ g.tiles[c] = "SOFT_WALL"}
           count == [c \in Pos |-> IF c \in hit THEN g.hits[c] + 1 ELSE g.hits[c]]
           fire == [active |-> TRUE, center |-> g.bombs[i].pos, timer |-> EXPLOSION_TIMER_TICKS]
           fires == [g.explosions EXCEPT ![i] = fire]
           marks == [g.marked EXCEPT ![i] = hit]
           out == [g.bombs EXCEPT ![i] = [g.bombs[i] EXCEPT !.active = FALSE, !.timer = 0]]
<1>1. g.bombs[i].pos \in Pos
    BY DEF GameStates, BombStates
<1>2. fire \in ExplosionStates
    BY <1>1, TickAssumption DEF ExplosionStates
<1>3. hit \in SUBSET Pos
    OBVIOUS
<1>4. count \in [Pos -> Nat]
    <2> HIDE DEF hit
    <2> QED BY DEF GameStates
<1>5. [g.bombs[i] EXCEPT !.active = FALSE, !.timer = 0] \in BombStates
    <2>1. g.bombs[i] \in BombStates
        BY DEF GameStates
    <2>2. 0 \in 0..BOMB_TIMER_TICKS
        BY TickAssumption
    <2> QED BY <2>1, <2>2 DEF BombStates
<1>6. create_explosion_from_bomb(g, i) =
        [g EXCEPT !.explosions = fires, !.marked = marks, !.hits = count, !.bombs = out]
    BY DEF create_explosion_from_bomb, GameStates
<1>7. out \in [Players -> BombStates]
    BY <1>5 DEF GameStates
<1>8. fires \in [Players -> ExplosionStates]
    BY <1>2 DEF GameStates
<1>9. marks \in [Players -> SUBSET Pos]
    BY <1>3 DEF GameStates
<1> HIDE DEF hit, count, fire, fires, marks, out
<1> QED BY <1>4, <1>6, <1>7, <1>8, <1>9 DEF GameStates

LEMMA RunBombType ==
    ASSUME NEW g \in GameStates, NEW i \in Players
    PROVE  run_bomb(g, i) \in GameStates
<1> DEFINE left == IF g.bombs[i].timer > 0 THEN g.bombs[i].timer - 1 ELSE 0
<1>1. left \in 0..BOMB_TIMER_TICKS
    BY TickAssumption DEF GameStates, BombStates
<1>2. [g.bombs EXCEPT ![i].timer = left] \in [Players -> BombStates]
    <2> HIDE DEF left
    <2> QED BY <1>1 DEF GameStates, BombStates
<1>3. [g EXCEPT !.bombs[i].timer = left] \in GameStates
    <2> HIDE DEF left
    <2> QED BY <1>2 DEF GameStates
<1> QED BY <1>3, ExplodeType DEF run_bomb

LEMMA RunBombsType == ASSUME NEW g \in GameStates PROVE RunBombs(g) \in GameStates
BY RunBombType, Opponents DEF RunBombs

LEMMA KillOneType ==
    ASSUME NEW g \in GameStates, NEW p \in Players
    PROVE  kill_player(g, p) \in GameStates
<1>1. [g.players[p] EXCEPT !.alive = FALSE, !.moving = FALSE,
                          !.target = g.players[p].pos, !.score = 0] \in PlayerStates
    <2>1. g.players[p] \in PlayerStates
        BY DEF GameStates
    <2> QED BY <2>1 DEF PlayerStates
<1>2. clear_player_territory(g.tiles, p) \in [Pos -> TileIds]
    BY DEF clear_player_territory, GameStates, TileIds
<1>3. (IF 0 \in Killers(g, p) THEN 0 ELSE 1) \in Players
    BY DEF Players
<1> QED BY <1>1, <1>2, <1>3 DEF kill_player, GameStates

LEMMA KillType == ASSUME NEW g \in GameStates PROVE KillPlayers(g) \in GameStates
BY KillOneType, Opponents DEF KillPlayers

LEMMA CleanupType ==
    ASSUME NEW g \in GameStates, NEW e \in Players
    PROVE  cleanup_explosion(g, e) \in GameStates
<1> DEFINE left == hits_without(g, e)
           open == walls_opened(g, e, left)
           board == [c \in Pos |-> IF c \in open THEN "BLUE" ELSE g.tiles[c]]
           marks == [g.marked EXCEPT ![e] = {}]
           out == [g.explosions EXCEPT ![e] = [g.explosions[e] EXCEPT !.active = FALSE, !.timer = 0]]
<1>1. left \in [Pos -> Nat]
    BY DEF hits_without, GameStates
<1>2. board \in [Pos -> TileIds]
    <2> HIDE DEF open
    <2> QED BY DEF GameStates, TileIds
<1>3. [g.explosions[e] EXCEPT !.active = FALSE, !.timer = 0] \in ExplosionStates
    <2>1. g.explosions[e] \in ExplosionStates
        BY DEF GameStates
    <2>2. 0 \in 0..EXPLOSION_TIMER_TICKS
        BY TickAssumption
    <2> QED BY <2>1, <2>2 DEF ExplosionStates
<1>4. cleanup_explosion(g, e) =
        [g EXCEPT !.hits = left, !.tiles = board, !.marked = marks, !.explosions = out]
    BY DEF cleanup_explosion, GameStates
<1>5. out \in [Players -> ExplosionStates]
    BY <1>3 DEF GameStates
<1>6. marks \in [Players -> SUBSET Pos]
    BY DEF GameStates
<1> HIDE DEF left, board, marks, out
<1> QED BY <1>1, <1>2, <1>4, <1>5, <1>6 DEF GameStates

LEMMA RunExplosionType ==
    ASSUME NEW g \in GameStates, NEW e \in Players
    PROVE  run_explosion(g, e) \in GameStates
<1> DEFINE left == IF g.explosions[e].timer > 0 THEN g.explosions[e].timer - 1 ELSE 0
<1>1. left \in 0..EXPLOSION_TIMER_TICKS
    BY TickAssumption DEF GameStates, ExplosionStates
<1>2. [g.explosions EXCEPT ![e].timer = left] \in [Players -> ExplosionStates]
    <2> HIDE DEF left
    <2> QED BY <1>1 DEF GameStates, ExplosionStates
<1>3. [g EXCEPT !.explosions[e].timer = left] \in GameStates
    <2> HIDE DEF left
    <2> QED BY <1>2 DEF GameStates
<1> QED BY <1>3, CleanupType DEF run_explosion

LEMMA RunExplosionsType == ASSUME NEW g \in GameStates PROVE RunExplosions(g) \in GameStates
BY RunExplosionType, Opponents DEF RunExplosions

LEMMA AtSpawnType ==
    ASSUME NEW p \in Players, NEW s \in Nat PROVE AtSpawn(p, s) \in PlayerStates
<1>1. spawn[p] \in Pos
    BY SpawnAssumption
<1> QED BY <1>1, PixelType DEF AtSpawn, PlayerStates

LEMMA RespawnOneType ==
    ASSUME NEW g \in GameStates, NEW p \in Players
    PROVE  run_respawn(g, p) \in GameStates
<1>1. next_wait(g, p) \in Players \cup {SAFE_WAIT, NONE}
    BY DEF next_wait, GameStates
<1>2. AtSpawn(p, g.players[p].score) \in PlayerStates
    BY AtSpawnType DEF GameStates, PlayerStates
<1>3. respawn_player(g, p) \in GameStates
    BY <1>2 DEF respawn_player, GameStates
<1>4. [g EXCEPT !.wait[p] = next_wait(g, p)] \in GameStates
    BY <1>1 DEF GameStates
<1> QED BY <1>3, <1>4 DEF run_respawn

LEMMA RespawnType == ASSUME NEW g \in GameStates PROVE Respawn(g) \in GameStates
BY RespawnOneType, Opponents DEF Respawn

LEMMA VerdictType == ASSUME NEW g \in GameStates PROVE Verdict(g) \in GameStates
<1>1. /\ g.players[0].score \in Nat /\ g.players[1].score \in Nat
    BY Opponents DEF GameStates, PlayerStates
<1>2. Winner(g.players[0].score, g.players[1].score) \in {-1, 0, 1}
    BY DEF Winner
<1> QED BY <1>1, <1>2 DEF Verdict, GameStates

LEMMA SoundsType ==
    ASSUME NEW over, NEW exploded, NEW died, NEW wall
    PROVE  Sounds(over, exploded, died, wall) \in SoundIds \X SoundIds
BY DEF Sounds, SoundIds

LEMMA PlayTickType ==
    ASSUME NEW g \in GameStates, NEW inputs \in [Players -> Pads]
    PROVE  PlayTick(g, inputs) \in GameStates
<1> DEFINE dir     == [p \in Players |-> read_direction(inputs[p])]
           pressed == [p \in Players |-> "bomb" \in inputs[p] /\ ~g.prev_bomb[p]]
           moved   == StartMoves(Capture(Advance(g), Arrived(g)), dir)
           armed   == PlaceBombs(moved, pressed)
           blown   == RunBombs(armed)
           killed  == KillPlayers(blown)
           judged  == Verdict(Respawn(RunExplosions(killed)))
           fresh   == {i \in Players : armed.bombs[i].active /\ ~blown.bombs[i].active}
           died    == \E p \in Players : blown.players[p].alive /\ ~killed.players[p].alive
           wall    == \E i \in fresh : blown.marked[i] # {}
           sounds  == Sounds(judged.game_over, fresh # {}, died, wall)
<1>1. moved \in GameStates
  <2>1. Arrived(g) \in SUBSET Players
      BY DEF Arrived
  <2> QED BY <2>1, AdvanceType, CaptureType, StartMovesType
<1>2. armed \in GameStates
  <2> HIDE DEF moved, pressed
  <2> QED BY <1>1, PlaceBombsType
<1>3. blown \in GameStates
  <2> HIDE DEF armed
  <2> QED BY <1>2, RunBombsType
<1>4. judged \in GameStates
  <2> HIDE DEF blown
  <2> QED BY <1>3, KillType, RunExplosionsType, RespawnType, VerdictType
<1>5. sounds \in SoundIds \X SoundIds
    BY SoundsType
<1>6. BombDown(inputs) \in [Players -> BOOLEAN]
    BY DEF BombDown
<1>7. PlayTick(g, inputs) = [judged EXCEPT !.sounds = sounds, !.prev_bomb = BombDown(inputs)]
    BY DEF PlayTick
<1> HIDE DEF judged, sounds
<1> QED BY <1>4, <1>5, <1>6, <1>7 DEF GameStates

LEMMA ResetType == ResetGame \in GameStates
<1>1. initial_map \in [Pos -> TileIds]
    BY MapAssumption DEF TileIds
<1>2. \A p \in Players : AtSpawn(p, 0) \in PlayerStates
    BY AtSpawnType
<1>3. \A p \in Players : spawn[p] \in Pos
    BY SpawnAssumption
<1>4. 0 \in 0..BOMB_TIMER_TICKS /\ 0 \in 0..EXPLOSION_TIMER_TICKS
    BY TickAssumption
<1>5. [p \in Players |-> [active |-> FALSE, pos |-> spawn[p], timer |-> 0]] \in [Players -> BombStates]
    BY <1>3, <1>4 DEF BombStates
<1>6. [p \in Players |-> [active |-> FALSE, center |-> spawn[p], timer |-> 0]] \in [Players -> ExplosionStates]
    BY <1>3, <1>4 DEF ExplosionStates
<1>7. <<"NONE", "NONE">> \in SoundIds \X SoundIds
    BY DEF SoundIds
<1> QED BY <1>1, <1>2, <1>5, <1>6, <1>7 DEF ResetGame, GameStates

\* Every reachable game is well typed: no position leaves the map, no pixel,
\* score or timer goes below zero in any sequence of calls of game_step.
THEOREM TypeCorrect == Spec => []TypeOK
<1>1. Init => TypeOK
    BY ResetType DEF Init, TypeOK
<1>2. TypeOK /\ [Next]_vars => TypeOK'
  <2> SUFFICES ASSUME TypeOK, [Next]_vars PROVE TypeOK'
      OBVIOUS
  <2> USE DEF TypeOK
  <2>1. ASSUME NEW inputs \in [Players -> Pads], Restart(inputs) PROVE TypeOK'
      BY <2>1, ResetType DEF Restart
  <2>2. ASSUME NEW inputs \in [Players -> Pads], GameOverTick(inputs) PROVE TypeOK'
    <3>1. /\ <<"NONE", "NONE">> \in SoundIds \X SoundIds
          /\ BombDown(inputs) \in [Players -> BOOLEAN]
        BY DEF SoundIds, BombDown
    <3> QED BY <2>2, <3>1 DEF GameOverTick, GameStates
  <2>3. ASSUME NEW inputs \in [Players -> Pads], Play(inputs) PROVE TypeOK'
      BY <2>3, PlayTickType DEF Play
  <2>4. CASE UNCHANGED vars
      BY <2>4 DEF vars
  <2> QED BY <2>1, <2>2, <2>3, <2>4 DEF Next, game_step
<1> QED BY <1>1, <1>2, PTL DEF Spec

-----------------------------------------------------------------------------
\* What each phase may change.

\* The board changes from t to u only by recolouring tiles that are open.
Repainted(t, u) ==
    \A c \in Pos : u[c] = t[c] \/ (tile_is_enterable(t[c]) /\ tile_is_enterable(u[c]))

\* h differs from g at most in players, wait, the verdict, sounds and inputs.
SameBoard(g, h) ==
    /\ h.tiles = g.tiles /\ h.bombs = g.bombs /\ h.explosions = g.explosions
    /\ h.hits = g.hits /\ h.marked = g.marked

\* h differs from g at most in that and in the colours of open tiles.
Recoloured(g, h) ==
    /\ Repainted(g.tiles, h.tiles)
    /\ h.bombs = g.bombs /\ h.explosions = g.explosions
    /\ h.hits = g.hits /\ h.marked = g.marked

LEMMA AdvanceFrame == ASSUME NEW g \in GameStates PROVE SameBoard(g, Advance(g))
BY DEF Advance, SameBoard, GameStates

LEMMA StartMovesFrame ==
    ASSUME NEW g \in GameStates, NEW dir PROVE SameBoard(g, StartMoves(g, dir))
BY DEF StartMoves, SameBoard, GameStates

LEMMA RespawnFrame == ASSUME NEW g \in GameStates PROVE SameBoard(g, Respawn(g))
<1>1. ASSUME NEW h \in GameStates, NEW p \in Players
      PROVE  SameBoard(h, run_respawn(h, p))
    BY DEF run_respawn, respawn_player, SameBoard, GameStates
<1>2. run_respawn(g, 0) \in GameStates
    BY RespawnOneType, Opponents
<1> QED BY <1>1, <1>2, Opponents DEF Respawn, SameBoard

LEMMA VerdictFrame == ASSUME NEW g \in GameStates PROVE SameBoard(g, Verdict(g))
BY DEF Verdict, SameBoard, GameStates

LEMMA CaptureOneFrame ==
    ASSUME NEW g \in GameStates, NEW p \in Players
    PROVE  Recoloured(g, apply_tile_capture(g, p))
<1> DEFINE q == 1 - p
           c == g.players[p].pos
           r == apply_tile_capture(g, p)
<1>1. c \in Pos
    BY DEF GameStates, PlayerStates
<1>2. r.tiles = g.tiles \/ r.tiles = [g.tiles EXCEPT ![c] = player_tile_id(p)]
    BY DEF apply_tile_capture, GameStates
<1>3. r.tiles # g.tiles => g.tiles[c] \in {"BLUE", player_tile_id(q)}
    BY DEF apply_tile_capture
<1>4. /\ r.bombs = g.bombs /\ r.explosions = g.explosions
      /\ r.hits = g.hits /\ r.marked = g.marked
    BY DEF apply_tile_capture, GameStates
<1>5. tile_is_enterable(player_tile_id(p)) /\ tile_is_enterable(player_tile_id(q))
    BY DEF tile_is_enterable, player_tile_id
<1>6. Repainted(g.tiles, r.tiles)
  <2> HIDE DEF r
  <2> QED BY <1>1, <1>2, <1>3, <1>5 DEF Repainted, tile_is_enterable, GameStates
<1> QED BY <1>4, <1>6 DEF Recoloured

LEMMA CaptureFrame ==
    ASSUME NEW g \in GameStates, NEW arrived \in SUBSET Players
    PROVE  Recoloured(g, Capture(g, arrived))
<1> DEFINE g0 == IF 0 \in arrived THEN apply_tile_capture(g, 0) ELSE g
<1>1. g0 \in GameStates /\ Recoloured(g, g0)
    BY CaptureOneType, CaptureOneFrame, Opponents DEF Recoloured, Repainted
<1>2. Recoloured(g0, Capture(g, arrived))
  <2>1. Recoloured(g0, apply_tile_capture(g0, 1))
      BY <1>1, CaptureOneFrame, Opponents
  <2>2. Recoloured(g0, g0)
      BY DEF Recoloured, Repainted
  <2> QED BY <2>1, <2>2 DEF Capture
<1> HIDE DEF g0
<1> QED BY <1>1, <1>2 DEF Recoloured, Repainted

LEMMA KillOneFrame ==
    ASSUME NEW g \in GameStates, NEW p \in Players
    PROVE  Recoloured(g, kill_player(g, p))
<1> DEFINE r == kill_player(g, p)
<1>1. r.tiles = g.tiles \/ r.tiles = clear_player_territory(g.tiles, p)
    BY DEF kill_player, GameStates
<1>2. Repainted(g.tiles, clear_player_territory(g.tiles, p))
    BY DEF Repainted, clear_player_territory, tile_is_enterable, player_tile_id
<1>3. /\ r.bombs = g.bombs /\ r.explosions = g.explosions
      /\ r.hits = g.hits /\ r.marked = g.marked
    BY DEF kill_player, GameStates
<1> QED BY <1>1, <1>2, <1>3 DEF Recoloured, Repainted

LEMMA KillFrame == ASSUME NEW g \in GameStates PROVE Recoloured(g, KillPlayers(g))
<1>1. kill_player(g, 0) \in GameStates /\ Recoloured(g, kill_player(g, 0))
    BY KillOneType, KillOneFrame, Opponents
<1>2. Recoloured(kill_player(g, 0), KillPlayers(g))
    BY <1>1, KillOneFrame, Opponents DEF KillPlayers
<1> QED BY <1>1, <1>2 DEF Recoloured, Repainted

-----------------------------------------------------------------------------
\* The bomb invariant: blasts stay in the map, slots hold a bomb or an
\* explosion but not both, and the hit counters agree with the marks.

Border(g) == \A c \in Pos : ~Inside(c) => g.tiles[c] = "HARD_WALL"

\* Bombs and explosions are never on the border, so never beside an edge.
Planted(g) ==
    \A i \in Players :
        /\ g.bombs[i].active => Inside(g.bombs[i].pos)
        /\ g.explosions[i].active => Inside(g.explosions[i].center)

OneEach(g) == \A i \in Players : ~(g.bombs[i].active /\ g.explosions[i].active)

MarkCount(g, c) ==
    (IF c \in g.marked[0] THEN 1 ELSE 0) + (IF c \in g.marked[1] THEN 1 ELSE 0)

Marks(g) ==
    /\ \A c \in Pos : g.hits[c] = MarkCount(g, c)
    /\ \A e \in Players : g.marked[e] # {} => g.explosions[e].active
    /\ \A e \in Players : \A c \in g.marked[e] : g.tiles[c] = "SOFT_WALL"

BombInv(g) == g \in GameStates /\ Border(g) /\ Planted(g) /\ OneEach(g) /\ Marks(g)

LEMMA BombInvReset == BombInv(ResetGame)
<1>1. Border(ResetGame)
    BY MapAssumption DEF Border, ResetGame
<1>2. Planted(ResetGame) /\ OneEach(ResetGame)
    BY DEF Planted, OneEach, ResetGame
<1>3. Marks(ResetGame)
    BY DEF Marks, MarkCount, ResetGame, Players
<1> QED BY <1>1, <1>2, <1>3, ResetType DEF BombInv

\* Phases that at most recolour open tiles keep it.
LEMMA BombInvRecoloured ==
    ASSUME NEW g, NEW h \in GameStates, BombInv(g), Recoloured(g, h)
    PROVE  BombInv(h)
<1>1. Border(h)
    BY DEF BombInv, Border, Recoloured, Repainted, tile_is_enterable
<1>2. Planted(h) /\ OneEach(h)
    BY DEF BombInv, Planted, OneEach, Recoloured
<1>3. Marks(h)
    BY DEF BombInv, Marks, MarkCount, Recoloured, Repainted, tile_is_enterable, GameStates
<1> QED BY <1>1, <1>2, <1>3 DEF BombInv

LEMMA SameBoardRecoloured ==
    ASSUME NEW g, NEW h, SameBoard(g, h) PROVE Recoloured(g, h)
BY DEF SameBoard, Recoloured, Repainted

LEMMA BombInvPlace ==
    ASSUME NEW g, NEW p \in Players, NEW pressed, BombInv(g)
    PROVE  BombInv(place_bomb(g, p, pressed))
<1> DEFINE r == place_bomb(g, p, pressed)
           c == g.players[p].pos
           bomb == [active |-> TRUE, pos |-> c, timer |-> BOMB_TIMER_TICKS]
<1>1. CASE r = g
    BY <1>1
<1>2. CASE r # g
  <2>1. /\ r = [g EXCEPT !.bombs[p] = bomb]
        /\ tile_is_enterable(g.tiles[c])
        /\ ~g.explosions[p].active
      BY <1>2 DEF place_bomb
  <2>2. g \in GameStates /\ c \in Pos
      BY DEF BombInv, GameStates, PlayerStates
  <2>3. Inside(c)
      BY <2>1, <2>2 DEF BombInv, Border, tile_is_enterable
  <2>4. /\ r.tiles = g.tiles /\ r.explosions = g.explosions
        /\ r.hits = g.hits /\ r.marked = g.marked
        /\ r.bombs = [g.bombs EXCEPT ![p] = bomb]
      BY <2>1, <2>2 DEF GameStates
  <2>5. r \in GameStates
      BY <2>2, PlaceOneType
  <2> HIDE DEF r
  <2>6. Border(r) /\ Marks(r)
      BY <2>4 DEF BombInv, Border, Marks, MarkCount
  <2>7. Planted(r) /\ OneEach(r)
      BY <2>1, <2>2, <2>3, <2>4 DEF BombInv, Planted, OneEach, GameStates
  <2> QED BY <2>5, <2>6, <2>7 DEF BombInv, r
<1> QED BY <1>1, <1>2

LEMMA BombInvExplode ==
    ASSUME NEW g, NEW i \in Players, BombInv(g), g.bombs[i].active
    PROVE  BombInv(create_explosion_from_bomb(g, i))
<1> DEFINE r == create_explosion_from_bomb(g, i)
           hit == {c \in BlastCells(g.bombs[i].pos) : c \in Pos /\ g.tiles[c] = "SOFT_WALL"}
<1>1. g \in GameStates /\ r \in GameStates
    BY ExplodeType DEF BombInv
<1>2. /\ r.tiles = g.tiles
      /\ r.marked = [g.marked EXCEPT ![i] = hit]
      /\ r.hits = [c \in Pos |-> IF c \in hit THEN g.hits[c] + 1 ELSE g.hits[c]]
      /\ r.explosions = [g.explosions EXCEPT ![i] =
                [active |-> TRUE, center |-> g.bombs[i].pos, timer |-> EXPLOSION_TIMER_TICKS]]
      /\ r.bombs = [g.bombs EXCEPT ![i] = [g.bombs[i] EXCEPT !.active = FALSE, !.timer = 0]]
    BY <1>1 DEF create_explosion_from_bomb, GameStates
<1>3. hit \subseteq Pos /\ \A c \in hit : g.tiles[c] = "SOFT_WALL"
    OBVIOUS
<1>4. g.marked[i] = {}
    BY DEF BombInv, OneEach, Marks
<1> HIDE DEF r, hit
<1>5. Border(r)
    BY <1>2 DEF BombInv, Border
<1>6. Planted(r) /\ OneEach(r)
  <2>1. g.bombs[i] \in BombStates
      BY <1>1 DEF GameStates
  <2>2. r.bombs[i].active = FALSE
      BY <1>1, <1>2, <2>1 DEF GameStates, BombStates
  <2> QED BY <1>1, <1>2, <2>2 DEF BombInv, Planted, OneEach, GameStates
<1>7. Marks(r)
  <2>1. \A c \in Pos : r.hits[c] = MarkCount(r, c)
    <3>1. \A c \in Pos : g.hits[c] = MarkCount(g, c)
        BY DEF BombInv, Marks
    <3>2. i = 0 \/ i = 1
        BY DEF Players
    <3> QED BY <1>1, <1>2, <1>4, <3>1, <3>2 DEF MarkCount, GameStates, Players
  <2>2. \A e \in Players : r.marked[e] # {} => r.explosions[e].active
      BY <1>1, <1>2 DEF BombInv, Marks, GameStates
  <2>3. \A e \in Players : \A c \in r.marked[e] : r.tiles[c] = "SOFT_WALL"
      BY <1>1, <1>2, <1>3 DEF BombInv, Marks, GameStates
  <2> QED BY <2>1, <2>2, <2>3 DEF Marks
<1> QED BY <1>1, <1>5, <1>6, <1>7 DEF BombInv, r

LEMMA BombInvRunBomb ==
    ASSUME NEW g, NEW i \in Players, BombInv(g)
    PROVE  BombInv(run_bomb(g, i))
<1> DEFINE left == IF g.bombs[i].timer > 0 THEN g.bombs[i].timer - 1 ELSE 0
           r == [g EXCEPT !.bombs[i].timer = left]
<1>1. CASE ~g.bombs[i].active
    BY <1>1 DEF run_bomb
<1>2. CASE g.bombs[i].active /\ left = 0
    BY <1>2, BombInvExplode DEF run_bomb
<1>3. CASE g.bombs[i].active /\ left # 0
  <2>1. run_bomb(g, i) = r
      BY <1>3 DEF run_bomb
  <2>2. g \in GameStates /\ r \in GameStates
      BY <2>1, RunBombType DEF BombInv
  <2>3. /\ r.tiles = g.tiles /\ r.explosions = g.explosions
        /\ r.hits = g.hits /\ r.marked = g.marked
        /\ r.bombs = [g.bombs EXCEPT ![i].timer = left]
      BY <2>2 DEF GameStates
  <2> HIDE DEF left, r
  <2>4. \A j \in Players : r.bombs[j].active = g.bombs[j].active /\ r.bombs[j].pos = g.bombs[j].pos
    <3>1. \A j \in Players : g.bombs[j] \in BombStates
        BY <2>2 DEF GameStates
    <3> QED BY <2>2, <2>3, <3>1 DEF GameStates, BombStates
  <2>5. Border(r) /\ Marks(r)
      BY <2>3 DEF BombInv, Border, Marks, MarkCount
  <2>6. Planted(r) /\ OneEach(r)
      BY <2>3, <2>4 DEF BombInv, Planted, OneEach
  <2> QED BY <2>1, <2>2, <2>5, <2>6 DEF BombInv
<1> QED BY <1>1, <1>2, <1>3

LEMMA BombInvCleanup ==
    ASSUME NEW g, NEW e \in Players, BombInv(g)
    PROVE  BombInv(cleanup_explosion(g, e))
<1> DEFINE r == cleanup_explosion(g, e)
           left == hits_without(g, e)
<1>1. g \in GameStates /\ r \in GameStates
    BY CleanupType DEF BombInv
<1>2. /\ r.hits = left
      /\ r.tiles = [c \in Pos |-> IF c \in walls_opened(g, e, left) THEN "BLUE" ELSE g.tiles[c]]
      /\ r.marked = [g.marked EXCEPT ![e] = {}]
      /\ r.explosions = [g.explosions EXCEPT ![e] = [g.explosions[e] EXCEPT !.active = FALSE, !.timer = 0]]
      /\ r.bombs = g.bombs
    BY <1>1 DEF cleanup_explosion, GameStates
<1>3. left = [c \in Pos |-> IF c \in g.marked[e] /\ g.hits[c] > 0 THEN g.hits[c] - 1 ELSE g.hits[c]]
    BY DEF hits_without
<1>4. \A c \in walls_opened(g, e, left) : left[c] = 0 /\ g.tiles[c] = "SOFT_WALL"
    BY DEF walls_opened
<1> HIDE DEF r, left
<1>5. \A j \in Players : /\ r.explosions[j].active => g.explosions[j].active
                         /\ r.explosions[j].center = g.explosions[j].center
                         /\ j # e => r.explosions[j] = g.explosions[j]
  <2>1. \A j \in Players : g.explosions[j] \in ExplosionStates
      BY <1>1 DEF GameStates
  <2> QED BY <1>1, <1>2, <2>1 DEF GameStates, ExplosionStates
<1>6. Border(r)
    BY <1>2, <1>4 DEF BombInv, Border
<1>7. Planted(r) /\ OneEach(r)
    BY <1>2, <1>5 DEF BombInv, Planted, OneEach
<1>8. Marks(r)
  <2>1. \A c \in Pos : left[c] = MarkCount(r, c)
    <3>1. \A c \in Pos : g.hits[c] = MarkCount(g, c)
        BY DEF BombInv, Marks
    <3>2. e = 0 \/ e = 1
        BY DEF Players
    <3> QED BY <1>1, <1>2, <1>3, <3>1, <3>2 DEF MarkCount, GameStates, Players
  <2>2. \A j \in Players : r.marked[j] # {} => r.explosions[j].active
      BY <1>1, <1>2, <1>5 DEF BombInv, Marks, GameStates
  <2>3. ASSUME NEW j \in Players, NEW c \in r.marked[j] PROVE r.tiles[c] = "SOFT_WALL"
    <3>1. j # e /\ c \in g.marked[j] /\ c \in Pos
        BY <1>1, <1>2, <2>3 DEF GameStates
    <3>2. g.tiles[c] = "SOFT_WALL"
        BY <3>1 DEF BombInv, Marks
    <3>3. left[c] # 0
        BY <2>1, <2>3, <3>1 DEF MarkCount, Players
    <3> QED BY <1>2, <1>4, <3>1, <3>2, <3>3
  <2> QED BY <1>2, <2>1, <2>2, <2>3 DEF Marks
<1> QED BY <1>1, <1>6, <1>7, <1>8 DEF BombInv, r

LEMMA BombInvRunExplosion ==
    ASSUME NEW g, NEW e \in Players, BombInv(g)
    PROVE  BombInv(run_explosion(g, e))
<1> DEFINE left == IF g.explosions[e].timer > 0 THEN g.explosions[e].timer - 1 ELSE 0
           r == [g EXCEPT !.explosions[e].timer = left]
<1>1. CASE ~g.explosions[e].active
    BY <1>1 DEF run_explosion
<1>2. CASE g.explosions[e].active /\ left = 0
    BY <1>2, BombInvCleanup DEF run_explosion
<1>3. CASE g.explosions[e].active /\ left # 0
  <2>1. run_explosion(g, e) = r
      BY <1>3 DEF run_explosion
  <2>2. g \in GameStates /\ r \in GameStates
      BY <2>1, RunExplosionType DEF BombInv
  <2>3. /\ r.tiles = g.tiles /\ r.bombs = g.bombs
        /\ r.hits = g.hits /\ r.marked = g.marked
        /\ r.explosions = [g.explosions EXCEPT ![e].timer = left]
      BY <2>2 DEF GameStates
  <2> HIDE DEF left, r
  <2>4. \A j \in Players : /\ r.explosions[j].active = g.explosions[j].active
                           /\ r.explosions[j].center = g.explosions[j].center
    <3>1. \A j \in Players : g.explosions[j] \in ExplosionStates
        BY <2>2 DEF GameStates
    <3> QED BY <2>2, <2>3, <3>1 DEF GameStates, ExplosionStates
  <2>5. Border(r) /\ Marks(r)
      BY <2>3, <2>4 DEF BombInv, Border, Marks, MarkCount
  <2>6. Planted(r) /\ OneEach(r)
      BY <2>3, <2>4 DEF BombInv, Planted, OneEach
  <2> QED BY <2>1, <2>2, <2>5, <2>6 DEF BombInv
<1> QED BY <1>1, <1>2, <1>3

LEMMA BombInvPlayTick ==
    ASSUME NEW g, NEW inputs \in [Players -> Pads], BombInv(g)
    PROVE  BombInv(PlayTick(g, inputs))
<1> DEFINE dir     == [p \in Players |-> read_direction(inputs[p])]
           pressed == [p \in Players |-> "bomb" \in inputs[p] /\ ~g.prev_bomb[p]]
           walked  == Capture(Advance(g), Arrived(g))
           moved   == StartMoves(walked, dir)
           armed   == PlaceBombs(moved, pressed)
           blown   == RunBombs(armed)
           killed  == KillPlayers(blown)
           burnt   == RunExplosions(killed)
           judged  == Verdict(Respawn(burnt))
           r       == PlayTick(g, inputs)
<1>1. BombInv(walked)
  <2>1. BombInv(Advance(g))
      BY AdvanceType, AdvanceFrame, SameBoardRecoloured, BombInvRecoloured DEF BombInv
  <2>2. Arrived(g) \in SUBSET Players
      BY DEF Arrived
  <2> QED BY <2>1, <2>2, CaptureType, CaptureFrame, BombInvRecoloured DEF BombInv
<1>2. BombInv(moved)
  <2> HIDE DEF walked, dir
  <2> QED BY <1>1, StartMovesType, StartMovesFrame, SameBoardRecoloured, BombInvRecoloured DEF BombInv
<1>3. BombInv(armed)
  <2> HIDE DEF moved
  <2> QED BY <1>2, BombInvPlace, Opponents DEF PlaceBombs
<1>4. BombInv(blown)
  <2> HIDE DEF armed
  <2> QED BY <1>3, BombInvRunBomb, Opponents DEF RunBombs
<1>5. BombInv(killed)
  <2> HIDE DEF blown
  <2> QED BY <1>4, KillType, KillFrame, BombInvRecoloured DEF BombInv
<1>6. BombInv(burnt)
  <2> HIDE DEF killed
  <2> QED BY <1>5, BombInvRunExplosion, Opponents DEF RunExplosions
<1>7. BombInv(judged)
  <2> HIDE DEF burnt
  <2>1. BombInv(Respawn(burnt))
      BY <1>6, RespawnType, RespawnFrame, SameBoardRecoloured, BombInvRecoloured DEF BombInv
  <2> QED BY <2>1, VerdictType, VerdictFrame, SameBoardRecoloured, BombInvRecoloured DEF BombInv
<1>8. SameBoard(judged, r)
  <2>1. \E s : r = [judged EXCEPT !.sounds = s, !.prev_bomb = BombDown(inputs)]
      BY DEF PlayTick
  <2> HIDE DEF judged, r
  <2> QED BY <1>7, <2>1 DEF BombInv, SameBoard, GameStates
<1>9. r \in GameStates
    BY PlayTickType DEF BombInv
<1> HIDE DEF judged, r
<1>10. BombInv(r)
    BY <1>7, <1>8, <1>9, SameBoardRecoloured, BombInvRecoloured
<1> QED BY <1>10 DEF r

\* The inductive invariant of the bomb machinery.
THEOREM BombInvInvariant == Spec => []BombInv(game)
<1>1. Init => BombInv(game)
    BY BombInvReset DEF Init
<1>2. BombInv(game) /\ [Next]_vars => BombInv(game)'
  <2> SUFFICES ASSUME BombInv(game), [Next]_vars PROVE BombInv(game')
      BY DEF BombInv, Border, Planted, OneEach, Marks, MarkCount
  <2>1. ASSUME NEW inputs \in [Players -> Pads], Restart(inputs) PROVE BombInv(game')
      BY <2>1, BombInvReset DEF Restart
  <2>2. ASSUME NEW inputs \in [Players -> Pads], GameOverTick(inputs) PROVE BombInv(game')
    <3>1. SameBoard(game, game')
        BY <2>2 DEF GameOverTick, BombInv, SameBoard, GameStates
    <3>2. /\ <<"NONE", "NONE">> \in SoundIds \X SoundIds
          /\ BombDown(inputs) \in [Players -> BOOLEAN]
        BY DEF SoundIds, BombDown
    <3>3. game' \in GameStates
        BY <2>2, <3>2 DEF GameOverTick, BombInv, GameStates
    <3> QED BY <3>1, <3>3, SameBoardRecoloured, BombInvRecoloured
  <2>3. ASSUME NEW inputs \in [Players -> Pads], Play(inputs) PROVE BombInv(game')
      BY <2>3, BombInvPlayTick DEF Play
  <2>4. CASE UNCHANGED vars
      BY <2>4 DEF vars
  <2> QED BY <2>1, <2>2, <2>3, <2>4 DEF Next, game_step
<1> QED BY <1>1, <1>2, PTL DEF Spec

\* No blast cell is ever outside the map: the unchecked array indices of
\* create_explosion_from_bomb and cleanup_explosion are safe on every map
\* with a hard-wall border.
THEOREM BlastsStayInside == Spec => []BlastsInsideMap
<1>1. \A c \in Pos : Inside(c) => BlastCells(c) \subseteq Pos
  <2> SUFFICES ASSUME NEW c \in Pos, Inside(c), NEW d \in BlastCells(c) PROVE d \in Pos
      OBVIOUS
  <2>1. d = c \/ \E dir \in {"up", "down", "left", "right"} : d = Neighbour(c, dir)
      BY DEF BlastCells
  <2>2. \A dir \in {"up", "down", "left", "right"} : Neighbour(c, dir) \in Pos
    <3>1. c[1] \in 1..MAP_ROWS-2 /\ c[2] \in 1..MAP_COLS-2
        BY DEF Inside
    <3> QED BY <3>1, SizeAssumption DEF Neighbour, direction_delta, Pos
  <2> QED BY <2>1, <2>2
<1>2. BombInv(game) => BlastsInsideMap
  <2> SUFFICES ASSUME BombInv(game), NEW i \in Players
               PROVE  /\ game.bombs[i].active => BlastCells(game.bombs[i].pos) \subseteq Pos
                      /\ game.explosions[i].active => BlastCells(game.explosions[i].center) \subseteq Pos
      BY DEF BlastsInsideMap
  <2>1. game.bombs[i].pos \in Pos /\ game.explosions[i].center \in Pos
      BY DEF BombInv, GameStates, BombStates, ExplosionStates
  <2> QED BY <1>1, <2>1 DEF BombInv, Planted
<1> QED BY <1>2, BombInvInvariant, PTL

\* The bomb and the explosion of a slot are never both active.
THEOREM SlotsExclusive == Spec => []SlotExclusive
<1>1. BombInv(game) => SlotExclusive
    BY DEF BombInv, OneEach, SlotExclusive
<1> QED BY <1>1, BombInvInvariant, PTL

\* The hit counter of a wall is the number of burning explosions that marked
\* it, and a marked wall still stands.
THEOREM WallsBookkept == Spec => []WallBookkeeping
<1>1. BombInv(game) => WallBookkeeping
  <2> SUFFICES ASSUME BombInv(game) PROVE WallBookkeeping
      OBVIOUS
  <2>1. ASSUME NEW c \in Pos
        PROVE  game.hits[c] = Cardinality({e \in Players : c \in game.marked[e]})
    <3> DEFINE S == {e \in Players : c \in game.marked[e]}
    <3>1. game.hits[c] = MarkCount(game, c)
        BY DEF BombInv, Marks
    <3>2. Cardinality({}) = 0 /\ Cardinality({0}) = 1 /\ Cardinality({1}) = 1
        BY FS_EmptySet, FS_Singleton
    <3>3. Cardinality({0, 1}) = 2
      <4>1. IsFiniteSet({0})
          BY FS_Singleton, Zenon
      <4>2. 1 \notin {0} /\ {0, 1} = {0} \cup {1}
          OBVIOUS
      <4>3. Cardinality({0} \cup {1}) = Cardinality({0}) + 1
          BY <4>1, <4>2, FS_AddElement, Zenon
      <4> QED BY <3>2, <4>2, <4>3
    <3>4. S = (IF c \in game.marked[0] THEN {0} ELSE {}) \cup (IF c \in game.marked[1] THEN {1} ELSE {})
        BY DEF Players
    <3> QED BY <3>1, <3>2, <3>3, <3>4 DEF MarkCount
  <2>2. \A e \in Players : game.marked[e] # {} => game.explosions[e].active
      BY DEF BombInv, Marks
  <2>3. \A e \in Players : \A c \in game.marked[e] : game.tiles[c] = "SOFT_WALL"
      BY DEF BombInv, Marks
  <2> QED BY <2>1, <2>2, <2>3 DEF WallBookkeeping
<1> QED BY <1>1, BombInvInvariant, PTL

-----------------------------------------------------------------------------
\* Open tiles stay open.

NoneCloses(g, h) ==
    \A c \in Pos : tile_is_enterable(g.tiles[c]) => tile_is_enterable(h.tiles[c])

LEMMA RecolouredNoneCloses ==
    ASSUME NEW g, NEW h, Recoloured(g, h) PROVE NoneCloses(g, h)
BY DEF Recoloured, Repainted, NoneCloses

LEMMA BombsNoneCloses ==
    ASSUME NEW g \in GameStates, NEW pressed
    PROVE  NoneCloses(g, RunBombs(PlaceBombs(g, pressed)))
<1>1. ASSUME NEW h \in GameStates, NEW i \in Players, NEW b
      PROVE  place_bomb(h, i, b).tiles = h.tiles /\ run_bomb(h, i).tiles = h.tiles
    BY DEF place_bomb, run_bomb, create_explosion_from_bomb, GameStates
<1> DEFINE g1 == place_bomb(g, 0, pressed[0])
           g2 == place_bomb(g1, 1, pressed[1])
           g3 == run_bomb(g2, 0)
<1>2. g1 \in GameStates /\ g1.tiles = g.tiles
    BY <1>1, PlaceOneType, Opponents
<1>3. g2 \in GameStates /\ g2.tiles = g1.tiles
  <2> HIDE DEF g1
  <2> QED BY <1>1, <1>2, PlaceOneType, Opponents
<1>4. g3 \in GameStates /\ g3.tiles = g2.tiles
  <2> HIDE DEF g2
  <2> QED BY <1>1, <1>3, RunBombType, Opponents
<1>5. run_bomb(g3, 1).tiles = g3.tiles
  <2> HIDE DEF g3
  <2> QED BY <1>1, <1>4, Opponents
<1>6. RunBombs(PlaceBombs(g, pressed)) = run_bomb(g3, 1)
    BY DEF RunBombs, PlaceBombs
<1> HIDE DEF g1, g2, g3
<1> QED BY <1>2, <1>3, <1>4, <1>5, <1>6 DEF NoneCloses

LEMMA ExplosionsNoneClose ==
    ASSUME NEW g \in GameStates PROVE NoneCloses(g, RunExplosions(g))
<1>1. ASSUME NEW h \in GameStates, NEW e \in Players
      PROVE  NoneCloses(h, run_explosion(h, e))
  <2>1. \/ run_explosion(h, e).tiles = h.tiles
        \/ run_explosion(h, e).tiles =
             [c \in Pos |-> IF c \in walls_opened(h, e, hits_without(h, e))
                            THEN "BLUE" ELSE h.tiles[c]]
      BY DEF run_explosion, cleanup_explosion, GameStates
  <2> QED BY <2>1 DEF NoneCloses, tile_is_enterable
<1>2. run_explosion(g, 0) \in GameStates
    BY RunExplosionType, Opponents
<1>3. NoneCloses(run_explosion(g, 0), RunExplosions(g))
    BY <1>1, <1>2, Opponents DEF RunExplosions
<1> QED BY <1>1, <1>3, Opponents DEF NoneCloses

LEMMA PlayTickNoneCloses ==
    ASSUME NEW g \in GameStates, NEW inputs \in [Players -> Pads]
    PROVE  NoneCloses(g, PlayTick(g, inputs))
<1> DEFINE dir     == [p \in Players |-> read_direction(inputs[p])]
           pressed == [p \in Players |-> "bomb" \in inputs[p] /\ ~g.prev_bomb[p]]
           walked  == Capture(Advance(g), Arrived(g))
           moved   == StartMoves(walked, dir)
           blown   == RunBombs(PlaceBombs(moved, pressed))
           killed  == KillPlayers(blown)
           burnt   == RunExplosions(killed)
           judged  == Verdict(Respawn(burnt))
<1>1. walked \in GameStates /\ NoneCloses(g, walked)
  <2>1. Advance(g) \in GameStates /\ NoneCloses(g, Advance(g))
      BY AdvanceType, AdvanceFrame, SameBoardRecoloured, RecolouredNoneCloses
  <2>2. Arrived(g) \in SUBSET Players
      BY DEF Arrived
  <2>3. NoneCloses(Advance(g), walked)
      BY <2>1, <2>2, CaptureFrame, RecolouredNoneCloses
  <2> QED BY <2>1, <2>2, <2>3, CaptureType DEF NoneCloses
<1>2. moved \in GameStates /\ NoneCloses(walked, moved)
  <2> HIDE DEF walked, dir
  <2> QED BY <1>1, StartMovesType, StartMovesFrame, SameBoardRecoloured, RecolouredNoneCloses
<1>3. blown \in GameStates /\ NoneCloses(moved, blown)
  <2> HIDE DEF moved, pressed
  <2> QED BY <1>2, PlaceBombsType, RunBombsType, BombsNoneCloses
<1>4. killed \in GameStates /\ NoneCloses(blown, killed)
  <2> HIDE DEF blown
  <2> QED BY <1>3, KillType, KillFrame, RecolouredNoneCloses
<1>5. burnt \in GameStates /\ NoneCloses(killed, burnt)
  <2> HIDE DEF killed
  <2> QED BY <1>4, RunExplosionsType, ExplosionsNoneClose
<1>6. judged \in GameStates /\ judged.tiles = burnt.tiles
  <2> HIDE DEF burnt
  <2> QED BY <1>5, RespawnType, RespawnFrame, VerdictType, VerdictFrame DEF SameBoard
<1>7. PlayTick(g, inputs).tiles = judged.tiles
  <2>1. \E s : PlayTick(g, inputs) = [judged EXCEPT !.sounds = s, !.prev_bomb = BombDown(inputs)]
      BY DEF PlayTick
  <2> HIDE DEF judged
  <2> QED BY <1>6, <2>1 DEF GameStates
<1> HIDE DEF walked, moved, blown, killed, burnt, judged
<1> QED BY <1>1, <1>2, <1>3, <1>4, <1>5, <1>6, <1>7 DEF NoneCloses

\* Until the next reset no tick closes a tile that can be entered.
THEOREM OpenStaysOpen == Spec => OpenTilesStayOpen
<1> DEFINE Safe == \/ game' = ResetGame
                   \/ \A c \in Pos : tile_is_enterable(game.tiles[c]) =>
                                        tile_is_enterable(game'.tiles[c])
<1>1. TypeOK /\ [Next]_vars => [Safe]_vars
  <2> SUFFICES ASSUME TypeOK, Next PROVE Safe
      OBVIOUS
  <2>1. ASSUME NEW inputs \in [Players -> Pads], Restart(inputs) PROVE Safe
      BY <2>1 DEF Restart
  <2>2. ASSUME NEW inputs \in [Players -> Pads], GameOverTick(inputs) PROVE Safe
      BY <2>2 DEF GameOverTick, TypeOK, GameStates
  <2>3. ASSUME NEW inputs \in [Players -> Pads], Play(inputs) PROVE Safe
      BY <2>3, PlayTickNoneCloses DEF Play, TypeOK, NoneCloses
  <2> HIDE DEF Safe
  <2> QED BY <2>1, <2>2, <2>3 DEF Next, game_step
<1> QED BY <1>1, TypeCorrect, PTL DEF Spec, OpenTilesStayOpen

=============================================================================
