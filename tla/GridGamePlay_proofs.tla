------------------------ MODULE GridGamePlay_proofs ------------------------
(***************************************************************************)
(* Theorems about what the players of GridGame see: where they stand, what *)
(* they own, when they die and come back, and who wins, for every arena,   *)
(* speed, timer and controller.                                            *)
(***************************************************************************)
EXTENDS GridGame_proofs

\* Player pl is on its way to tile c.
Heads(pl, c) == pl.alive /\ pl.moving /\ pl.target = c

\* A player stands on its tile, or is somewhere between it and a neighbour.
Between(v, a, b) == (a <= v /\ v <= b) \/ (b <= v /\ v <= a)
Adjacent(a, b) == \E dir \in {"up", "down", "left", "right"} : b = Neighbour(a, dir)
OnPath(pl) ==
    IF pl.moving
    THEN /\ Adjacent(pl.pos, pl.target)
         /\ Between(pl.x, PixelX(pl.pos), PixelX(pl.target))
         /\ Between(pl.y, PixelY(pl.pos), PixelY(pl.target))
    ELSE pl.x = PixelX(pl.pos) /\ pl.y = PixelY(pl.pos)

Paths(g) == \A p \in Players : g.players[p].alive => OnPath(g.players[p])

\* No tile is occupied by both players.
Reserved(g) == \A c \in Pos : ~(Occupies(g.players[0], c) /\ Occupies(g.players[1], c))

\* BombTileExclusive, of a game inside a tick.
BombTiles(g) ==
    \A i \in Players : g.bombs[i].active =>
        /\ ~Occupies(g.players[1 - i], g.bombs[i].pos)
        /\ ~Heads(g.players[i], g.bombs[i].pos)
        /\ g.bombs[1 - i].active => g.bombs[1 - i].pos # g.bombs[i].pos

Standing(g) == Paths(g) /\ Reserved(g) /\ BombTiles(g)

\* What a player owns: its score counts its tiles, and the dead own nothing.
Owning(g) ==
    \A p \in Players :
        /\ g.players[p].score = Cardinality(Land(g, p))
        /\ ~g.players[p].alive => Land(g, p) = {}
        /\ g.players[p].alive <=> g.wait[p] = NONE

\* A dead player that waits for an explosion waits for a burning one.
Burning(g) == \A p \in Players : g.wait[p] \in Players => g.explosions[g.wait[p]].active

\* SurvivorsOutsideBlasts, of a game inside a tick.
Spared(g) ==
    \A p, e \in Players :
        g.players[p].alive /\ g.explosions[e].active =>
            ~explosion_hits_player(g.explosions[e], g.players[p])

\* The verdict agrees with the scores.
Judged(g) ==
    LET score(p) == g.players[p].score
    IN  /\ g.game_over <=> \E p \in Players : score(p) >= WIN_SCORE
        /\ \A p \in Players : g.winner = p => g.game_over /\ score(p) >= WIN_SCORE /\ score(p) > score(1 - p)
        /\ g.game_over /\ g.winner = -1 => score(0) = score(1)

PlayInv(g) ==
    g \in GameStates /\ Standing(g) /\ Owning(g) /\ Burning(g) /\ Spared(g) /\ Judged(g)

-----------------------------------------------------------------------------
\* Bodies.  What a step may do to the tiles a player holds.

\* h takes no tile that g does not hold: nobody new, no bomb new.
Shrinks(g, h) ==
    \A p \in Players : \A c \in Pos :
        /\ Occupies(h.players[p], c) => Occupies(g.players[p], c)
        /\ Heads(h.players[p], c) => Heads(g.players[p], c)

FewerBombs(g, h) ==
    \A i \in Players : h.bombs[i].active => g.bombs[i].active /\ h.bombs[i].pos = g.bombs[i].pos

LEMMA ShrinksReserved ==
    ASSUME NEW g, NEW h, Reserved(g), Shrinks(g, h) PROVE Reserved(h)
BY Opponents DEF Reserved, Shrinks

LEMMA ShrinksBombTiles ==
    ASSUME NEW g \in GameStates, NEW h, BombTiles(g), Shrinks(g, h), FewerBombs(g, h)
    PROVE  BombTiles(h)
<1> SUFFICES ASSUME NEW i \in Players, h.bombs[i].active
             PROVE  /\ ~Occupies(h.players[1 - i], h.bombs[i].pos)
                    /\ ~Heads(h.players[i], h.bombs[i].pos)
                    /\ h.bombs[1 - i].active => h.bombs[1 - i].pos # h.bombs[i].pos
    BY DEF BombTiles
<1>1. 1 - i \in Players
    BY Opponents
<1>2. g.bombs[i].active /\ h.bombs[i].pos = g.bombs[i].pos /\ g.bombs[i].pos \in Pos
    BY DEF FewerBombs, GameStates, BombStates
<1>3. h.bombs[1 - i].active => g.bombs[1 - i].active /\ h.bombs[1 - i].pos = g.bombs[1 - i].pos
    BY <1>1 DEF FewerBombs
<1> QED BY <1>1, <1>2, <1>3 DEF BombTiles, Shrinks

\* The same bodies in the same places: only scores and the board may differ.
SameBody(a, b) ==
    /\ b.alive = a.alive /\ b.moving = a.moving /\ b.pos = a.pos /\ b.target = a.target
    /\ b.x = a.x /\ b.y = a.y

LEMMA SameBodies ==
    ASSUME NEW g \in GameStates, NEW h, Standing(g), FewerBombs(g, h),
           \A p \in Players : SameBody(g.players[p], h.players[p])
    PROVE  Standing(h)
<1>1. Shrinks(g, h)
    BY DEF Shrinks, SameBody, Occupies, Heads
<1>2. Paths(h)
    BY DEF Standing, Paths, SameBody, OnPath
<1> QED BY <1>1, <1>2, ShrinksReserved, ShrinksBombTiles DEF Standing

LEMMA StepTowardBetween ==
    ASSUME NEW v \in Nat, NEW a \in Nat, NEW t \in Nat, Between(v, a, t)
    PROVE  Between(step_toward(v, t), a, t)
BY TickAssumption DEF Between, step_toward

\* A step of a moving player keeps it on its path and takes no tile.
LEMMA MotionBody ==
    ASSUME NEW pl \in PlayerStates
    PROVE  LET m == advance_player_motion(pl)
           IN  /\ OnPath(pl) => OnPath(m)
               /\ m.alive = pl.alive /\ m.score = pl.score
               /\ pl.moving /\ ~m.moving => m.pos = pl.target
               /\ \A c : Occupies(m, c) => Occupies(pl, c)
               /\ \A c : Heads(m, c) => Heads(pl, c)
<1> DEFINE m == advance_player_motion(pl)
           nx == step_toward(pl.x, PixelX(pl.target))
           ny == step_toward(pl.y, PixelY(pl.target))
           there == nx = PixelX(pl.target) /\ ny = PixelY(pl.target)
<1>1. CASE ~pl.moving
    BY <1>1 DEF advance_player_motion
<1>2. CASE pl.moving /\ there
  <2>1. m = [pl EXCEPT !.x = nx, !.y = ny, !.pos = pl.target, !.moving = FALSE]
      BY <1>2 DEF advance_player_motion
  <2>2. /\ m.alive = pl.alive /\ m.score = pl.score /\ m.pos = pl.target /\ m.moving = FALSE
        /\ m.target = pl.target /\ m.x = nx /\ m.y = ny
      BY <2>1 DEF PlayerStates
  <2> HIDE DEF m, nx, ny
  <2> QED BY <1>2, <2>2 DEF OnPath, Occupies, Heads, m
<1>3. CASE pl.moving /\ ~there
  <2>1. m = [pl EXCEPT !.x = nx, !.y = ny]
      BY <1>3 DEF advance_player_motion
  <2>2. /\ m.alive = pl.alive /\ m.score = pl.score /\ m.pos = pl.pos /\ m.moving = pl.moving
        /\ m.target = pl.target /\ m.x = nx /\ m.y = ny
      BY <2>1 DEF PlayerStates
  <2>3. /\ pl.x \in Nat /\ pl.y \in Nat
        /\ PixelX(pl.pos) \in Nat /\ PixelY(pl.pos) \in Nat
        /\ PixelX(pl.target) \in Nat /\ PixelY(pl.target) \in Nat
      BY PixelType DEF PlayerStates
  <2>4. OnPath(pl) => OnPath(m)
    <3> HIDE DEF m
    <3> QED BY <1>3, <2>2, <2>3, StepTowardBetween DEF OnPath
  <2> HIDE DEF m
  <2> QED BY <2>2, <2>4 DEF Occupies, Heads, m
<1> QED BY <1>1, <1>2, <1>3

LEMMA AdvanceStanding ==
    ASSUME NEW g \in GameStates, Standing(g) PROVE Standing(Advance(g))
<1> DEFINE h == Advance(g)
<1>1. \A p \in Players : h.players[p] = IF g.players[p].alive THEN advance_player_motion(g.players[p])
                                                              ELSE g.players[p]
    BY DEF Advance, GameStates
<1>2. h.bombs = g.bombs
    BY DEF Advance, GameStates
<1>3. \A p \in Players : g.players[p] \in PlayerStates
    BY DEF GameStates
<1> HIDE DEF h
<1>4. Shrinks(g, h)
    BY <1>1, <1>3, MotionBody DEF Shrinks
<1>5. Paths(h)
    BY <1>1, <1>3, MotionBody DEF Paths, Standing
<1>6. FewerBombs(g, h)
    BY <1>2 DEF FewerBombs
<1>7. Standing(h)
    BY <1>4, <1>5, <1>6, ShrinksReserved, ShrinksBombTiles DEF Standing
<1> QED BY <1>7 DEF h

Directions == {"up", "down", "left", "right", "none"}

LEMMA StartMovesStanding ==
    ASSUME NEW g \in GameStates, NEW dir \in [Players -> Directions], Standing(g)
    PROVE  Standing(StartMoves(g, dir))
<1> DEFINE to(p) == Neighbour(g.players[p].pos, dir[p])
           ok(p) == move_candidate(g, p, dir[p])
           clash == ok(0) /\ ok(1) /\ to(0) = to(1)
           next(p) == IF ok(p) /\ ~clash
                      THEN [g.players[p] EXCEPT !.moving = TRUE, !.target = to(p)]
                      ELSE g.players[p]
           h == StartMoves(g, dir)
<1>1. (\A p \in Players : h.players[p] = next(p)) /\ h.bombs = g.bombs
    BY DEF StartMoves, GameStates
<1>2. ASSUME NEW p \in Players, ok(p)
      PROVE  /\ g.players[p].alive /\ ~g.players[p].moving
             /\ dir[p] \in {"up", "down", "left", "right"}
             /\ to(p) \in Pos /\ ~bomb_at(g, to(p)) /\ ~Occupies(g.players[1 - p], to(p))
    BY <1>2 DEF move_candidate, can_enter_tile, Directions
<1>3. \A p \in Players : g.players[p] \in PlayerStates
    BY DEF GameStates
<1>4. ASSUME NEW p \in Players
      PROVE  \/ h.players[p] = g.players[p]
             \/ /\ ok(p) /\ ~clash
                /\ h.players[p].alive = g.players[p].alive /\ h.players[p].moving = TRUE
                /\ h.players[p].pos = g.players[p].pos /\ h.players[p].target = to(p)
                /\ h.players[p].x = g.players[p].x /\ h.players[p].y = g.players[p].y
  <2> HIDE DEF ok, clash, to, h
  <2> QED BY <1>1, <1>3 DEF PlayerStates
<1> HIDE DEF to, ok, h
<1>5. Paths(h)
  <2> SUFFICES ASSUME NEW p \in Players, h.players[p].alive PROVE OnPath(h.players[p])
      BY DEF Paths
  <2>1. CASE h.players[p] = g.players[p]
      BY <2>1 DEF Standing, Paths
  <2>2. CASE h.players[p] # g.players[p]
    <3>1. /\ ok(p) /\ h.players[p].moving /\ g.players[p].alive
          /\ h.players[p].pos = g.players[p].pos /\ h.players[p].target = to(p)
          /\ h.players[p].x = g.players[p].x /\ h.players[p].y = g.players[p].y
        BY <1>2, <1>4, <2>2
    <3>2. Adjacent(g.players[p].pos, to(p))
        BY <1>2, <3>1 DEF Adjacent, to
    <3>3. g.players[p].x = PixelX(g.players[p].pos) /\ g.players[p].y = PixelY(g.players[p].pos)
        BY <1>2, <3>1 DEF Standing, Paths, OnPath
    <3>4. /\ PixelX(g.players[p].pos) \in Nat /\ PixelY(g.players[p].pos) \in Nat
          /\ PixelX(to(p)) \in Nat /\ PixelY(to(p)) \in Nat
        BY <1>2, <1>3, <3>1, PixelType DEF PlayerStates
    <3> QED BY <3>1, <3>2, <3>3, <3>4 DEF OnPath, Between
  <2> QED BY <2>1, <2>2
<1>6. ASSUME NEW p \in Players, NEW c
      PROVE  /\ Occupies(h.players[p], c) => Occupies(g.players[p], c) \/ (ok(p) /\ ~clash /\ c = to(p))
             /\ Heads(h.players[p], c) => Heads(g.players[p], c) \/ (ok(p) /\ ~clash /\ c = to(p))
    BY <1>4 DEF Occupies, Heads
<1>7. Reserved(h)
  <2> SUFFICES ASSUME NEW c \in Pos, Occupies(h.players[0], c), Occupies(h.players[1], c) PROVE FALSE
      BY DEF Reserved
  <2>1. Occupies(g.players[0], c) \/ (ok(0) /\ ~clash /\ c = to(0))
      BY <1>6, Opponents
  <2>2. Occupies(g.players[1], c) \/ (ok(1) /\ ~clash /\ c = to(1))
      BY <1>6, Opponents
  <2>3. ok(0) => ~Occupies(g.players[1], to(0))
      BY <1>2 DEF Players
  <2>4. ok(1) => ~Occupies(g.players[0], to(1))
      BY <1>2 DEF Players
  <2> QED BY <2>1, <2>2, <2>3, <2>4 DEF Standing, Reserved
<1>8. BombTiles(h)
  <2> SUFFICES ASSUME NEW i \in Players, g.bombs[i].active
               PROVE  /\ ~Occupies(h.players[1 - i], g.bombs[i].pos)
                      /\ ~Heads(h.players[i], g.bombs[i].pos)
                      /\ g.bombs[1 - i].active => g.bombs[1 - i].pos # g.bombs[i].pos
      BY <1>1 DEF BombTiles
  <2>1. \A p \in Players : ok(p) => to(p) # g.bombs[i].pos
      BY <1>2 DEF bomb_at
  <2> QED BY <1>6, <2>1, Opponents DEF Standing, BombTiles
<1>9. Standing(h)
    BY <1>5, <1>7, <1>8 DEF Standing
<1> QED BY <1>9 DEF h

LEMMA PlaceBombStanding ==
    ASSUME NEW g \in GameStates, NEW p \in Players, NEW pressed, Standing(g)
    PROVE  Standing(place_bomb(g, p, pressed))
<1> DEFINE h == place_bomb(g, p, pressed)
           c == g.players[p].pos
<1>1. CASE h = g
    BY <1>1
<1>2. CASE h # g
  <2>1. /\ h = [g EXCEPT !.bombs[p] = [active |-> TRUE, pos |-> c, timer |-> BOMB_TIMER_TICKS]]
        /\ g.players[p].alive /\ ~g.players[p].moving /\ ~bomb_at(g, c)
      BY <1>2 DEF place_bomb
  <2>2. /\ h.players = g.players /\ c \in Pos
        /\ h.bombs[p].pos = c
        /\ \A i \in Players : i # p => h.bombs[i] = g.bombs[i]
      BY <2>1 DEF GameStates, PlayerStates
  <2> HIDE DEF h
  <2>3. Paths(h) /\ Reserved(h)
      BY <2>2 DEF Standing, Paths, Reserved
  <2>4. ~Occupies(g.players[1 - p], c)
    <3>1. Occupies(g.players[p], c)
        BY <2>1 DEF Occupies
    <3> QED BY <2>2, <3>1 DEF Standing, Reserved, Players
  <2>5. BombTiles(h)
    <3> SUFFICES ASSUME NEW i \in Players, h.bombs[i].active
                 PROVE  /\ ~Occupies(h.players[1 - i], h.bombs[i].pos)
                        /\ ~Heads(h.players[i], h.bombs[i].pos)
                        /\ h.bombs[1 - i].active => h.bombs[1 - i].pos # h.bombs[i].pos
        BY DEF BombTiles
    <3>1. CASE i = p
      <4>1. h.bombs[1 - i].active => h.bombs[1 - i].pos # c
          BY <2>1, <2>2, <3>1, Opponents DEF bomb_at
      <4> QED BY <2>1, <2>2, <2>4, <3>1, <4>1 DEF Heads
    <3>2. CASE i # p
      <4>1. p = 1 - i
          BY <3>2 DEF Players
      <4>2. g.bombs[i].active /\ h.bombs[i] = g.bombs[i] /\ g.bombs[i].pos # c
          BY <2>1, <2>2, <3>2 DEF bomb_at
      <4> QED BY <2>2, <4>1, <4>2 DEF Standing, BombTiles
    <3> QED BY <3>1, <3>2
  <2>6. Standing(h)
      BY <2>3, <2>5 DEF Standing
  <2> QED BY <2>6 DEF h
<1> QED BY <1>1, <1>2

LEMMA RunBombEffect ==
    ASSUME NEW g \in GameStates, NEW i \in Players
    PROVE  LET h == run_bomb(g, i)
           IN  /\ h.players = g.players /\ h.tiles = g.tiles /\ h.wait = g.wait
               /\ h.game_over = g.game_over /\ h.winner = g.winner
               /\ FewerBombs(g, h)
               /\ \A e \in Players : g.explosions[e].active => h.explosions[e].active
<1> DEFINE left == IF g.bombs[i].timer > 0 THEN g.bombs[i].timer - 1 ELSE 0
           h == run_bomb(g, i)
<1>0. \A j \in Players : g.bombs[j] \in BombStates /\ g.explosions[j] \in ExplosionStates
    BY DEF GameStates
<1>1. CASE ~g.bombs[i].active
    BY <1>1 DEF run_bomb, FewerBombs
<1>2. CASE g.bombs[i].active /\ left = 0
  <2>1. /\ h.players = g.players /\ h.tiles = g.tiles /\ h.wait = g.wait
        /\ h.game_over = g.game_over /\ h.winner = g.winner
        /\ h.bombs = [g.bombs EXCEPT ![i] = [g.bombs[i] EXCEPT !.active = FALSE, !.timer = 0]]
        /\ h.explosions = [g.explosions EXCEPT ![i] =
              [active |-> TRUE, center |-> g.bombs[i].pos, timer |-> EXPLOSION_TIMER_TICKS]]
      BY <1>2 DEF run_bomb, create_explosion_from_bomb, GameStates
  <2>2. h.bombs[i].active = FALSE /\ h.explosions[i].active = TRUE
      BY <1>0, <2>1 DEF GameStates, BombStates
  <2>3. \A j \in Players : j # i => h.bombs[j] = g.bombs[j] /\ h.explosions[j] = g.explosions[j]
      BY <2>1 DEF GameStates
  <2> HIDE DEF h
  <2>4. FewerBombs(g, h) /\ \A e \in Players : g.explosions[e].active => h.explosions[e].active
      BY <2>2, <2>3 DEF FewerBombs
  <2> QED BY <2>1, <2>4 DEF h
<1>3. CASE g.bombs[i].active /\ left # 0
  <2>1. h = [g EXCEPT !.bombs[i].timer = left]
      BY <1>3 DEF run_bomb
  <2> HIDE DEF left
  <2>2. /\ h.players = g.players /\ h.tiles = g.tiles /\ h.wait = g.wait
        /\ h.game_over = g.game_over /\ h.winner = g.winner /\ h.explosions = g.explosions
        /\ h.bombs = [g.bombs EXCEPT ![i].timer = left]
      BY <2>1 DEF GameStates
  <2> HIDE DEF h
  <2>3. \A j \in Players : h.bombs[j].active = g.bombs[j].active /\ h.bombs[j].pos = g.bombs[j].pos
      BY <1>0, <2>2 DEF GameStates, BombStates
  <2>4. FewerBombs(g, h)
      BY <2>3 DEF FewerBombs
  <2> QED BY <2>2, <2>4 DEF h
<1> QED BY <1>1, <1>2, <1>3

LEMMA CaptureOneEffect ==
    ASSUME NEW g \in GameStates, NEW p \in Players
    PROVE  LET h == apply_tile_capture(g, p)
               q == 1 - p
               c == g.players[p].pos
           IN  /\ \A j \in Players : SameBody(g.players[j], h.players[j])
               /\ h.bombs = g.bombs /\ h.explosions = g.explosions /\ h.wait = g.wait
               /\ h.game_over = g.game_over /\ h.winner = g.winner
               /\ \/ h = g
                  \/ /\ g.tiles[c] = "BLUE"
                     /\ h.players[p].score = g.players[p].score + 1
                     /\ h.players[q].score = g.players[q].score
                     /\ h.tiles = [g.tiles EXCEPT ![c] = player_tile_id(p)]
                  \/ /\ g.tiles[c] = player_tile_id(q)
                     /\ h.players[p].score = g.players[p].score + 1
                     /\ h.players[q].score = lose_point(g.players[q].score)
                     /\ h.tiles = [g.tiles EXCEPT ![c] = player_tile_id(p)]
<1> DEFINE h == apply_tile_capture(g, p)
           q == 1 - p
           c == g.players[p].pos
           claimed == [g EXCEPT !.tiles[c] = player_tile_id(p), !.players[p].score = @ + 1]
           paid == [claimed EXCEPT !.players[q].score = lose_point(@)]
<1>1. q \in Players /\ q # p /\ c \in Pos /\ Players = {p, q}
    BY Opponents DEF GameStates, PlayerStates, Players
<1>2. \A j \in Players : g.players[j] \in PlayerStates
    BY DEF GameStates
<1>3. /\ claimed.players = [g.players EXCEPT ![p].score = @ + 1]
      /\ claimed.tiles = [g.tiles EXCEPT ![c] = player_tile_id(p)]
      /\ claimed.bombs = g.bombs /\ claimed.explosions = g.explosions /\ claimed.wait = g.wait
      /\ claimed.game_over = g.game_over /\ claimed.winner = g.winner
    BY DEF GameStates
<1>4. /\ paid.players = [claimed.players EXCEPT ![q].score = lose_point(@)]
      /\ paid.tiles = claimed.tiles
      /\ paid.bombs = g.bombs /\ paid.explosions = g.explosions /\ paid.wait = g.wait
      /\ paid.game_over = g.game_over /\ paid.winner = g.winner
    BY <1>3 DEF GameStates
<1>5. /\ claimed.players[p].score = g.players[p].score + 1 /\ claimed.players[q] = g.players[q]
      /\ SameBody(g.players[p], claimed.players[p])
    <2> HIDE DEF claimed
    <2> QED BY <1>1, <1>2, <1>3 DEF GameStates, PlayerStates, SameBody
<1>6. /\ paid.players[p] = claimed.players[p]
      /\ paid.players[q].score = lose_point(g.players[q].score)
      /\ SameBody(g.players[q], paid.players[q])
    <2> HIDE DEF claimed, paid
    <2> QED BY <1>1, <1>2, <1>3, <1>4, <1>5 DEF GameStates, PlayerStates, SameBody
<1>7. \/ g.tiles[c] = "BLUE" /\ h = claimed
      \/ g.tiles[c] = player_tile_id(q) /\ h = paid
      \/ h = g
    BY DEF apply_tile_capture, player_tile_id
<1>8. \A j \in Players : SameBody(g.players[j], g.players[j])
    BY DEF SameBody
<1> HIDE DEF claimed, paid
<1>9. CASE g.tiles[c] = "BLUE" /\ h = claimed
    <2>1. \A j \in Players : SameBody(g.players[j], claimed.players[j])
        BY <1>1, <1>5, <1>8
    <2> HIDE DEF h
    <2>2. h = claimed
        BY <1>9
    <2> QED BY <1>3, <1>5, <1>9, <2>1, <2>2 DEF h
<1>10. CASE g.tiles[c] = player_tile_id(q) /\ h = paid
    <2>1. \A j \in Players : SameBody(g.players[j], paid.players[j])
        BY <1>1, <1>5, <1>6
    <2> HIDE DEF h
    <2>2. h = paid
        BY <1>10
    <2> QED BY <1>3, <1>4, <1>5, <1>6, <1>10, <2>1, <2>2 DEF h
<1>11. CASE h = g
    BY <1>8, <1>11
<1> QED BY <1>7, <1>9, <1>10, <1>11

LEMMA KillOneEffect ==
    ASSUME NEW g \in GameStates, NEW p \in Players
    PROVE  LET h == kill_player(g, p)
           IN  /\ h.bombs = g.bombs /\ h.explosions = g.explosions
               /\ h.game_over = g.game_over /\ h.winner = g.winner
               /\ h.players[1 - p] = g.players[1 - p] /\ h.wait[1 - p] = g.wait[1 - p]
               /\ \/ Killers(g, p) = {} /\ h = g
                  \/ /\ Killers(g, p) # {}
                     /\ h.players[p].alive = FALSE /\ h.players[p].score = 0
                     /\ h.wait[p] \in Killers(g, p)
                     /\ h.tiles = clear_player_territory(g.tiles, p)
<1> DEFINE h == kill_player(g, p)
<1>0. 1 - p \in Players /\ 1 - p # p
    BY Opponents
<1>1. CASE Killers(g, p) = {}
    BY <1>1 DEF kill_player
<1>2. CASE Killers(g, p) # {}
  <2> DEFINE killer == IF 0 \in Killers(g, p) THEN 0 ELSE 1
             dead == [g.players[p] EXCEPT !.alive = FALSE, !.moving = FALSE,
                                          !.target = g.players[p].pos, !.score = 0]
  <2>1. killer \in Killers(g, p)
      BY <1>2 DEF Killers, Players
  <2>2. dead.alive = FALSE /\ dead.score = 0
    <3>1. g.players[p] \in PlayerStates
        BY DEF GameStates
    <3> QED BY <3>1 DEF PlayerStates
  <2>3. /\ h.bombs = g.bombs /\ h.explosions = g.explosions
        /\ h.game_over = g.game_over /\ h.winner = g.winner
        /\ h.players = [g.players EXCEPT ![p] = dead]
        /\ h.wait = [g.wait EXCEPT ![p] = killer]
        /\ h.tiles = clear_player_territory(g.tiles, p)
      BY <1>2 DEF kill_player, GameStates
  <2> HIDE DEF killer, dead, h
  <2>4. h.players[p] = dead /\ h.wait[p] = killer /\ h.players[1 - p] = g.players[1 - p] /\ h.wait[1 - p] = g.wait[1 - p]
      BY <1>0, <2>3 DEF GameStates
  <2> QED BY <1>2, <2>1, <2>2, <2>3, <2>4 DEF h
<1> QED BY <1>1, <1>2

LEMMA RunExplosionEffect ==
    ASSUME NEW g \in GameStates, NEW e \in Players
    PROVE  LET h == run_explosion(g, e)
           IN  /\ h.players = g.players /\ h.bombs = g.bombs /\ h.wait = g.wait
               /\ h.game_over = g.game_over /\ h.winner = g.winner
               /\ \A p \in Players : Land(h, p) = Land(g, p)
               /\ \A j \in Players : /\ h.explosions[j].active => g.explosions[j].active
                                     /\ h.explosions[j].center = g.explosions[j].center
<1> DEFINE left == IF g.explosions[e].timer > 0 THEN g.explosions[e].timer - 1 ELSE 0
           h == run_explosion(g, e)
<1>0. \A j \in Players : g.explosions[j] \in ExplosionStates
    BY DEF GameStates
<1>1. CASE ~g.explosions[e].active
    BY <1>1 DEF run_explosion
<1>2. CASE g.explosions[e].active /\ left = 0
  <2>1. /\ h.players = g.players /\ h.bombs = g.bombs /\ h.wait = g.wait
        /\ h.game_over = g.game_over /\ h.winner = g.winner
        /\ h.explosions = [g.explosions EXCEPT ![e] = [g.explosions[e] EXCEPT !.active = FALSE, !.timer = 0]]
        /\ h.tiles = [c \in Pos |-> IF c \in walls_opened(g, e, hits_without(g, e)) THEN "BLUE" ELSE g.tiles[c]]
      BY <1>2 DEF run_explosion, cleanup_explosion, GameStates
  <2> HIDE DEF h
  <2>2. \A j \in Players : /\ h.explosions[j].active => g.explosions[j].active
                           /\ h.explosions[j].center = g.explosions[j].center
      BY <1>0, <2>1 DEF GameStates, ExplosionStates
  <2>3. \A c \in walls_opened(g, e, hits_without(g, e)) : g.tiles[c] = "SOFT_WALL"
      BY DEF walls_opened
  <2>4. \A p \in Players : Land(h, p) = Land(g, p)
      BY <2>1, <2>3 DEF Land, player_tile_id
  <2> QED BY <2>1, <2>2, <2>4 DEF h
<1>3. CASE g.explosions[e].active /\ left # 0
  <2>1. h = [g EXCEPT !.explosions[e].timer = left]
      BY <1>3 DEF run_explosion
  <2> HIDE DEF left
  <2>2. /\ h.players = g.players /\ h.tiles = g.tiles /\ h.wait = g.wait /\ h.bombs = g.bombs
        /\ h.game_over = g.game_over /\ h.winner = g.winner
        /\ h.explosions = [g.explosions EXCEPT ![e].timer = left]
      BY <2>1 DEF GameStates
  <2> HIDE DEF h
  <2>3. \A j \in Players : /\ h.explosions[j].active = g.explosions[j].active
                           /\ h.explosions[j].center = g.explosions[j].center
      BY <1>0, <2>2 DEF GameStates, ExplosionStates
  <2>4. \A p \in Players : Land(h, p) = Land(g, p)
      BY <2>2 DEF Land
  <2> QED BY <2>2, <2>3, <2>4 DEF h
<1> QED BY <1>1, <1>2, <1>3

LEMMA RespawnOneEffect ==
    ASSUME NEW g \in GameStates, NEW p \in Players
    PROVE  LET h == run_respawn(g, p)
           IN  /\ h.tiles = g.tiles /\ h.bombs = g.bombs /\ h.explosions = g.explosions
               /\ h.game_over = g.game_over /\ h.winner = g.winner
               /\ h.players[1 - p] = g.players[1 - p] /\ h.wait[1 - p] = g.wait[1 - p]
               /\ \/ g.players[p].alive /\ h = g
                  \/ /\ ~g.players[p].alive /\ spawn_tile_safe(g, p)
                     /\ h.players[p] = AtSpawn(p, g.players[p].score) /\ h.wait[p] = NONE
                  \/ /\ ~g.players[p].alive
                     /\ h.players[p] = g.players[p] /\ h.wait[p] = next_wait(g, p)
<1> DEFINE h == run_respawn(g, p)
<1>0. 1 - p \in Players /\ 1 - p # p
    BY Opponents
<1>1. CASE g.players[p].alive
    BY <1>1 DEF run_respawn
<1>2. CASE ~g.players[p].alive /\ next_wait(g, p) = SAFE_WAIT /\ spawn_tile_safe(g, p)
  <2>1. /\ h.tiles = g.tiles /\ h.bombs = g.bombs /\ h.explosions = g.explosions
        /\ h.game_over = g.game_over /\ h.winner = g.winner
        /\ h.players = [g.players EXCEPT ![p] = AtSpawn(p, g.players[p].score)]
        /\ h.wait = [g.wait EXCEPT ![p] = NONE]
      BY <1>2 DEF run_respawn, respawn_player, GameStates
  <2> HIDE DEF h
  <2> QED BY <1>0, <1>2, <2>1 DEF GameStates, h
<1>3. CASE ~g.players[p].alive /\ ~(next_wait(g, p) = SAFE_WAIT /\ spawn_tile_safe(g, p))
  <2>1. /\ h.tiles = g.tiles /\ h.bombs = g.bombs /\ h.explosions = g.explosions
        /\ h.game_over = g.game_over /\ h.winner = g.winner
        /\ h.players = g.players
        /\ h.wait = [g.wait EXCEPT ![p] = next_wait(g, p)]
      BY <1>3 DEF run_respawn, GameStates
  <2> HIDE DEF h
  <2> QED BY <1>0, <1>3, <2>1 DEF GameStates, h
<1> QED BY <1>1, <1>2, <1>3

LEMMA RespawnStanding ==
    ASSUME NEW g \in GameStates, NEW p \in Players, Standing(g)
    PROVE  Standing(run_respawn(g, p))
<1> DEFINE h == run_respawn(g, p)
           q == 1 - p
<1>1. /\ h.bombs = g.bombs /\ h.players[q] = g.players[q]
      /\ \/ h.players[p] = g.players[p]
         \/ spawn_tile_safe(g, p) /\ h.players[p] = AtSpawn(p, g.players[p].score)
    BY RespawnOneEffect
<1>2. q \in Players /\ q # p /\ Players = {p, q} /\ p = 1 - q
    BY DEF Players
<1> HIDE DEF h, q
<1>3. CASE h.players[p] = g.players[p]
  <2>1. \A j \in Players : h.players[j] = g.players[j]
      BY <1>1, <1>2, <1>3
  <2> QED BY <1>1, <2>1, SameBodies DEF SameBody, FewerBombs, h
<1>4. CASE spawn_tile_safe(g, p) /\ h.players[p] = AtSpawn(p, g.players[p].score)
  <2>1. /\ ~bomb_at(g, spawn[p]) /\ ~Occupies(g.players[q], spawn[p])
      BY <1>4 DEF spawn_tile_safe, q
  <2>2. \A c : /\ Occupies(h.players[p], c) => c = spawn[p]
               /\ ~Heads(h.players[p], c)
      BY <1>4 DEF AtSpawn, Occupies, Heads
  <2>3. Paths(h)
      BY <1>1, <1>2, <1>4 DEF Standing, Paths, OnPath, AtSpawn
  <2>4. Reserved(h)
    <3> SUFFICES ASSUME NEW c \in Pos, Occupies(h.players[p], c), Occupies(h.players[q], c) PROVE FALSE
        BY <1>2 DEF Reserved, Players
    <3> QED BY <1>1, <2>1, <2>2
  <2>5. BombTiles(h)
    <3> SUFFICES ASSUME NEW i \in Players, g.bombs[i].active
                 PROVE  /\ ~Occupies(h.players[1 - i], g.bombs[i].pos)
                        /\ ~Heads(h.players[i], g.bombs[i].pos)
                        /\ g.bombs[1 - i].active => g.bombs[1 - i].pos # g.bombs[i].pos
        BY <1>1 DEF BombTiles
    <3>1. /\ ~Occupies(g.players[1 - i], g.bombs[i].pos)
          /\ ~Heads(g.players[i], g.bombs[i].pos)
          /\ g.bombs[1 - i].active => g.bombs[1 - i].pos # g.bombs[i].pos
        BY DEF Standing, BombTiles
    <3>2. g.bombs[i].pos # spawn[p]
        BY <2>1 DEF bomb_at
    <3>3. 1 - i \in Players
        BY Opponents
    <3> QED BY <1>1, <1>2, <2>2, <3>1, <3>2, <3>3
  <2>6. Standing(h)
      BY <2>3, <2>4, <2>5 DEF Standing
  <2> QED BY <2>6 DEF h
<1> QED BY <1>1, <1>3, <1>4

LEMMA KillStanding ==
    ASSUME NEW g \in GameStates, NEW p \in Players, Standing(g)
    PROVE  Standing(kill_player(g, p))
<1> DEFINE h == kill_player(g, p)
<1>1. /\ h.bombs = g.bombs /\ h.players[1 - p] = g.players[1 - p]
      /\ h = g \/ ~h.players[p].alive
    BY KillOneEffect
<1>2. Players = {p, 1 - p}
    BY DEF Players
<1> HIDE DEF h
<1>3. CASE h = g
    BY <1>3 DEF h
<1>4. CASE ~h.players[p].alive
  <2>1. Shrinks(g, h)
      BY <1>1, <1>2, <1>4 DEF Shrinks, Occupies, Heads
  <2>2. Paths(h)
      BY <1>1, <1>2, <1>4 DEF Standing, Paths
  <2>3. FewerBombs(g, h)
      BY <1>1 DEF FewerBombs
  <2>4. Standing(h)
      BY <2>1, <2>2, <2>3, ShrinksReserved, ShrinksBombTiles DEF Standing
  <2> QED BY <2>4 DEF h
<1> QED BY <1>1, <1>3, <1>4

-----------------------------------------------------------------------------
\* Land and scores.

LEMMA LandFinite == ASSUME NEW g, NEW p PROVE IsFiniteSet(Land(g, p))
<1>1. IsFiniteSet(0..MAP_ROWS-1) /\ IsFiniteSet(0..MAP_COLS-1)
    BY FS_Interval, SizeAssumption
<1>2. IsFiniteSet(Pos)
    BY <1>1, FS_Product DEF Pos
<1>3. Land(g, p) \in SUBSET Pos
    BY DEF Land
<1> QED BY <1>2, <1>3, FS_Subset

\* A step that leaves lives, scores and land alone keeps what is owned.
LEMMA SameOwning ==
    ASSUME NEW g, NEW h, Owning(g),
           \A p \in Players : /\ h.players[p].alive = g.players[p].alive
                              /\ h.players[p].score = g.players[p].score
                              /\ h.wait[p] = g.wait[p] /\ Land(h, p) = Land(g, p)
    PROVE  Owning(h)
BY DEF Owning

\* A captured tile is counted once more for the one and once less for the other.
LEMMA CaptureOneOwning ==
    ASSUME NEW g \in GameStates, NEW p \in Players, Owning(g), g.players[p].alive
    PROVE  Owning(apply_tile_capture(g, p))
<1> DEFINE h == apply_tile_capture(g, p)
           q == 1 - p
           c == g.players[p].pos
<1>1. q \in Players /\ q # p /\ Players = {p, q} /\ c \in Pos
    BY DEF Players, GameStates, PlayerStates
<1>2. /\ \A j \in Players : h.players[j].alive = g.players[j].alive /\ h.wait[j] = g.wait[j]
      /\ \/ h = g
         \/ /\ g.tiles[c] = "BLUE"
            /\ h.players[p].score = g.players[p].score + 1
            /\ h.players[q].score = g.players[q].score
            /\ h.tiles = [g.tiles EXCEPT ![c] = player_tile_id(p)]
         \/ /\ g.tiles[c] = player_tile_id(q)
            /\ h.players[p].score = g.players[p].score + 1
            /\ h.players[q].score = lose_point(g.players[q].score)
            /\ h.tiles = [g.tiles EXCEPT ![c] = player_tile_id(p)]
    BY CaptureOneEffect DEF SameBody
<1>3. player_tile_id(p) # player_tile_id(q) /\ player_tile_id(p) # "BLUE" /\ player_tile_id(q) # "BLUE"
    BY <1>1 DEF player_tile_id, Players
<1> HIDE DEF h, q, c
<1>4. CASE h = g
    BY <1>4 DEF h
<1>5. CASE h # g
  <2>1. /\ h.tiles = [g.tiles EXCEPT ![c] = player_tile_id(p)]
        /\ g.tiles[c] \in {"BLUE", player_tile_id(q)}
        /\ h.players[p].score = g.players[p].score + 1
      BY <1>2, <1>5
  <2>2. Land(h, p) = Land(g, p) \cup {c} /\ c \notin Land(g, p)
      BY <1>1, <1>3, <2>1 DEF Land, GameStates
  <2>3. Land(h, q) = Land(g, q) \ {c} /\ (c \in Land(g, q) <=> g.tiles[c] = player_tile_id(q))
      BY <1>1, <1>3, <2>1 DEF Land, GameStates
  <2>4. h.players[p].score = Cardinality(Land(h, p))
    <3>1. Cardinality(Land(h, p)) = Cardinality(Land(g, p)) + 1
        BY <2>2, LandFinite, FS_AddElement
    <3> QED BY <2>1, <3>1 DEF Owning
  <2>5. h.players[q].score = Cardinality(Land(h, q))
    <3>1. g.players[q].score = Cardinality(Land(g, q)) /\ g.players[q].score \in Nat
        BY <1>1 DEF Owning, GameStates, PlayerStates
    <3>2. Cardinality(Land(h, q)) = IF c \in Land(g, q) THEN Cardinality(Land(g, q)) - 1
                                                      ELSE Cardinality(Land(g, q))
        BY <2>3, LandFinite, FS_RemoveElement
    <3>3. CASE g.tiles[c] = "BLUE"
      <4>1. h.players[q].score = g.players[q].score
          BY <1>2, <1>3, <1>5, <3>3
      <4> QED BY <1>3, <2>3, <3>1, <3>2, <3>3, <4>1
    <3>4. CASE g.tiles[c] = player_tile_id(q)
      <4>1. h.players[q].score = lose_point(g.players[q].score)
          BY <1>2, <1>3, <1>5, <3>4
      <4>2. c \in Land(g, q)
          BY <2>3, <3>4
      <4>3. Cardinality(Land(g, q)) # 0
          BY <4>2, LandFinite, FS_EmptySet
      <4> QED BY <3>1, <3>2, <4>1, <4>2, <4>3 DEF lose_point
    <3> QED BY <2>1, <3>3, <3>4
  <2>6. \A j \in Players : ~h.players[j].alive => Land(h, j) = {}
      BY <1>1, <1>2, <2>3 DEF Owning
  <2>7. Owning(h)
      BY <1>1, <1>2, <2>4, <2>5, <2>6 DEF Owning
  <2> QED BY <2>7 DEF h
<1> QED BY <1>4, <1>5

LEMMA KillOwning ==
    ASSUME NEW g \in GameStates, NEW p \in Players, Owning(g)
    PROVE  Owning(kill_player(g, p))
<1> DEFINE h == kill_player(g, p)
           q == 1 - p
<1>1. /\ h.players[q] = g.players[q] /\ h.wait[q] = g.wait[q]
      /\ \/ h = g
         \/ /\ h.players[p].alive = FALSE /\ h.players[p].score = 0 /\ h.wait[p] \in Players
            /\ h.tiles = clear_player_territory(g.tiles, p)
    BY KillOneEffect DEF Killers
<1>2. q \in Players /\ q # p /\ Players = {p, q} /\ player_tile_id(p) # player_tile_id(q)
    BY DEF Players, player_tile_id
<1> HIDE DEF h, q
<1>3. CASE h = g
    BY <1>3 DEF h
<1>4. CASE h # g
  <2>1. Land(h, p) = {} /\ Land(h, q) = Land(g, q)
      BY <1>1, <1>2, <1>4 DEF Land, clear_player_territory, player_tile_id
  <2>2. h.players[p].score = Cardinality(Land(h, p))
      BY <1>1, <1>4, <2>1, FS_EmptySet
  <2>3. h.wait[p] # NONE /\ ~h.players[p].alive
      BY <1>1, <1>4 DEF NONE, Players
  <2>4. Owning(h)
      BY <1>1, <1>2, <2>1, <2>2, <2>3 DEF Owning
  <2> QED BY <2>4 DEF h
<1> QED BY <1>3, <1>4

LEMMA RespawnOwning ==
    ASSUME NEW g \in GameStates, NEW p \in Players, Owning(g)
    PROVE  /\ Owning(run_respawn(g, p))
           /\ LET h == run_respawn(g, p)
              IN  h.wait[p] \in Players => h.explosions[h.wait[p]].active
<1> DEFINE h == run_respawn(g, p)
           q == 1 - p
<1>1. /\ h.tiles = g.tiles /\ h.explosions = g.explosions
      /\ h.players[q] = g.players[q] /\ h.wait[q] = g.wait[q]
      /\ \/ g.players[p].alive /\ h = g
         \/ h.players[p] = AtSpawn(p, g.players[p].score) /\ h.wait[p] = NONE
         \/ ~g.players[p].alive /\ h.players[p] = g.players[p] /\ h.wait[p] = next_wait(g, p)
    BY RespawnOneEffect
<1>2. q \in Players /\ Players = {p, q}
    BY DEF Players
<1>3. NONE \notin Players /\ SAFE_WAIT \notin Players /\ SAFE_WAIT # NONE
    BY DEF NONE, SAFE_WAIT, Players
<1> HIDE DEF h, q
<1>4. \A j \in Players : Land(h, j) = Land(g, j)
    BY <1>1 DEF Land
<1>5. CASE g.players[p].alive /\ h = g
    BY <1>3, <1>5 DEF h, Owning
<1>6. CASE h.players[p] = AtSpawn(p, g.players[p].score) /\ h.wait[p] = NONE
  <2>1. h.players[p].alive /\ h.players[p].score = g.players[p].score
      BY <1>6 DEF AtSpawn
  <2>2. Owning(h)
      BY <1>1, <1>2, <1>4, <1>6, <2>1 DEF Owning
  <2> QED BY <1>3, <1>6, <2>2 DEF h
<1>7. CASE ~g.players[p].alive /\ h.players[p] = g.players[p] /\ h.wait[p] = next_wait(g, p)
  <2>1. h.wait[p] # NONE /\ (h.wait[p] \in Players => g.explosions[h.wait[p]].active)
      BY <1>3, <1>7 DEF Owning, next_wait
  <2>2. Owning(h)
      BY <1>1, <1>2, <1>4, <1>7, <2>1 DEF Owning
  <2> QED BY <1>1, <2>1, <2>2 DEF h
<1> QED BY <1>1, <1>5, <1>6, <1>7

-----------------------------------------------------------------------------
\* Blasts.  A body that stands on a tile overlaps that tile alone.

LEMMA TilesApart ==
    ASSUME NEW m \in Int, NEW n \in Int, m < n
    PROVE  m * TILE_SIZE + TILE_SIZE <= n * TILE_SIZE
           /\ m * TILE_SIZE \in Int /\ n * TILE_SIZE \in Int
<1>1. TILE_SIZE \in Nat
    BY TickAssumption
<1>2. PICK k \in Nat : n = m + 1 + k
  <2>1. n - m - 1 \in Nat /\ n = m + 1 + (n - m - 1)
      OBVIOUS
  <2> QED BY <2>1
<1>3. n * TILE_SIZE = m * TILE_SIZE + TILE_SIZE + k * TILE_SIZE
    BY <1>1, <1>2
<1>4. k * TILE_SIZE \in Nat /\ m * TILE_SIZE \in Int
    BY <1>1, <1>2
<1> QED BY <1>1, <1>3, <1>4

LEMMA AlignedOverlap ==
    ASSUME NEW a \in Int \X Int, NEW b \in Int \X Int,
           rect_overlaps_tile(PixelX(a), PixelY(a), b)
    PROVE  a = b
<1>1. a[1] \in Int /\ a[2] \in Int /\ b[1] \in Int /\ b[2] \in Int /\ TILE_SIZE \in Nat
    BY TickAssumption
<1>2. ASSUME NEW m \in Int, NEW n \in Int, m # n
      PROVE  \/ m * TILE_SIZE + TILE_SIZE - 1 < n * TILE_SIZE
             \/ n * TILE_SIZE + TILE_SIZE - 1 < m * TILE_SIZE
  <2>1. CASE m < n
      BY <1>1, <2>1, TilesApart
  <2>2. CASE n < m
      BY <1>1, <2>2, TilesApart
  <2> QED BY <1>2, <2>1, <2>2
<1>3. a[2] = b[2]
    BY <1>1, <1>2 DEF rect_overlaps_tile, PixelX
<1>4. a[1] = b[1]
    BY <1>1, <1>2 DEF rect_overlaps_tile, PixelY
<1> QED BY <1>3, <1>4

LEMMA BlastCellsType == ASSUME NEW c \in Pos PROVE BlastCells(c) \subseteq Int \X Int /\ c \in Int \X Int
<1>1. c \in Int \X Int
    BY SizeAssumption DEF Pos
<1> QED BY <1>1 DEF BlastCells, Neighbour, direction_delta

\* A player that comes back is not in a blast: its spawn tile is looked at.
LEMMA RespawnSpared ==
    ASSUME NEW g \in GameStates, NEW p \in Players, Spared(g)
    PROVE  Spared(run_respawn(g, p))
<1> DEFINE h == run_respawn(g, p)
           q == 1 - p
<1>1. /\ h.explosions = g.explosions /\ h.players[q] = g.players[q]
      /\ \/ h.players[p] = g.players[p]
         \/ spawn_tile_safe(g, p) /\ h.players[p] = AtSpawn(p, g.players[p].score)
    BY RespawnOneEffect
<1>2. Players = {p, q}
    BY DEF Players
<1> HIDE DEF h, q
<1>3. CASE h.players[p] = g.players[p]
  <2>1. Spared(h)
      BY <1>1, <1>2, <1>3 DEF Spared
  <2> QED BY <2>1 DEF h
<1>4. CASE spawn_tile_safe(g, p) /\ h.players[p] = AtSpawn(p, g.players[p].score)
  <2>1. ASSUME NEW e \in Players, g.explosions[e].active
        PROVE  ~explosion_hits_player(g.explosions[e], h.players[p])
    <3> SUFFICES ASSUME NEW c \in BlastCells(g.explosions[e].center),
                        rect_overlaps_tile(PixelX(spawn[p]), PixelY(spawn[p]), c)
                 PROVE  FALSE
        BY <1>4 DEF explosion_hits_player, AtSpawn
    <3>1. g.explosions[e].center \in Pos /\ spawn[p] \in Pos
        BY SpawnAssumption DEF GameStates, ExplosionStates
    <3>2. c = spawn[p]
        BY <3>1, BlastCellsType, AlignedOverlap
    <3>3. spawn[p] \notin BlastCells(g.explosions[e].center)
        BY <1>4, <2>1 DEF spawn_tile_safe, tile_in_active_explosion
    <3> QED BY <3>2, <3>3
  <2>2. Spared(h)
      BY <1>1, <1>2, <2>1 DEF Spared
  <2> QED BY <2>2 DEF h
<1> QED BY <1>1, <1>3, <1>4

LEMMA KillSpared == ASSUME NEW g \in GameStates PROVE Spared(KillPlayers(g))
<1> DEFINE g0 == kill_player(g, 0)
           h  == kill_player(g0, 1)
<1>1. g0 \in GameStates
    BY KillOneType, Opponents
<1>2. \A k : \A p \in Players : Killers(k, p) = {} =>
        \A e \in Players : k.players[p].alive /\ k.explosions[e].active =>
            ~explosion_hits_player(k.explosions[e], k.players[p])
    BY DEF Killers
<1>3. Killers(g0, 0) = {}
  <2>1. g0 = g \/ ~g0.players[0].alive
      BY KillOneEffect, Opponents
  <2>2. CASE ~g0.players[0].alive
      BY <2>2 DEF Killers
  <2>3. CASE Killers(g, 0) = {}
      BY <2>3 DEF kill_player
  <2> QED BY <2>2, <2>3, KillOneEffect, Opponents
<1> HIDE DEF g0
<1>4. h.explosions = g0.explosions /\ h.players[0] = g0.players[0] /\ Killers(h, 1) = {}
  <2>1. /\ h.explosions = g0.explosions /\ h.players[0] = g0.players[0]
        /\ (Killers(g0, 1) = {} /\ h = g0) \/ ~h.players[1].alive
      BY <1>1, KillOneEffect, Opponents
  <2> HIDE DEF h
  <2> QED BY <2>1 DEF Killers
<1>5. h = KillPlayers(g)
    BY DEF KillPlayers, g0
<1> HIDE DEF h
<1>6. Killers(h, 0) = {}
    BY <1>3, <1>4 DEF Killers
<1>7. Spared(h)
    BY <1>2, <1>4, <1>6 DEF Spared, Players
<1> QED BY <1>5, <1>7

-----------------------------------------------------------------------------
\* The phases of one tick, in order.

\* Who is alive, where it is and what it won: p is alive and arrived on every
\* tile that is its own in h and was not in g.
Won(g, h) ==
    \A p \in Players : \A c \in Land(h, p) \ Land(g, p) :
        /\ g.players[p].moving /\ g.players[p].target = c
        /\ h.players[p].alive /\ h.players[p].pos = c

LEMMA WalkedTick ==
    ASSUME NEW g \in GameStates, Standing(g), Owning(g)
    PROVE  LET h == Capture(Advance(g), Arrived(g))
           IN  /\ h \in GameStates /\ Standing(h) /\ Owning(h) /\ Won(g, h)
               /\ h.game_over = g.game_over /\ h.winner = g.winner
<1> DEFINE adv == Advance(g)
           A   == Arrived(g)
           g0  == IF 0 \in A THEN apply_tile_capture(adv, 0) ELSE adv
           h   == IF 1 \in A THEN apply_tile_capture(g0, 1) ELSE g0
<1>0. \A p \in Players : g.players[p] \in PlayerStates
    BY DEF GameStates
<1>1. adv \in GameStates /\ Standing(adv)
    BY AdvanceType, AdvanceStanding
<1>2. /\ \A p \in Players : adv.players[p] = IF g.players[p].alive THEN advance_player_motion(g.players[p])
                                                                  ELSE g.players[p]
      /\ adv.tiles = g.tiles /\ adv.wait = g.wait
      /\ adv.game_over = g.game_over /\ adv.winner = g.winner
    BY DEF Advance, GameStates
<1>3. \A p \in Players : /\ adv.players[p].alive = g.players[p].alive
                         /\ adv.players[p].score = g.players[p].score
    BY <1>0, <1>2, MotionBody
<1>4. \A p \in A : p \in Players /\ adv.players[p].alive /\ g.players[p].moving /\ adv.players[p].pos = g.players[p].target
    BY <1>0, <1>2, <1>3, MotionBody DEF Arrived
<1> HIDE DEF adv, A
<1>5. Owning(adv) /\ \A p \in Players : Land(adv, p) = Land(g, p)
    BY <1>2, <1>3, SameOwning DEF Land
<1>6. ASSUME NEW k \in GameStates, Standing(k), Owning(k), NEW p \in Players, k.players[p].alive
      PROVE  LET r == apply_tile_capture(k, p)
             IN  /\ r \in GameStates /\ Standing(r) /\ Owning(r)
                 /\ r.game_over = k.game_over /\ r.winner = k.winner
                 /\ \A j \in Players : SameBody(k.players[j], r.players[j])
                 /\ \A j \in Players : \A c \in Land(r, j) \ Land(k, j) : j = p /\ c = k.players[p].pos
  <2> DEFINE r == apply_tile_capture(k, p)
  <2>1. r \in GameStates
      BY <1>6, CaptureOneType
  <2>2. /\ \A j \in Players : SameBody(k.players[j], r.players[j])
        /\ r.bombs = k.bombs /\ r.game_over = k.game_over /\ r.winner = k.winner
        /\ r.tiles = k.tiles \/ r.tiles = [k.tiles EXCEPT ![k.players[p].pos] = player_tile_id(p)]
      BY <1>6, CaptureOneEffect
  <2>3. Owning(r)
      BY <1>6, CaptureOneOwning
  <2> HIDE DEF r
  <2>4. FewerBombs(k, r)
      BY <2>2 DEF FewerBombs
  <2>5. Standing(r)
      BY <1>6, <2>2, <2>4, SameBodies
  <2>6. \A j \in Players : \A c \in Land(r, j) \ Land(k, j) : j = p /\ c = k.players[p].pos
      BY <1>6, <2>2 DEF Land, player_tile_id, Players, GameStates
  <2> QED BY <2>1, <2>2, <2>3, <2>5, <2>6 DEF r
<1>7. /\ g0 \in GameStates /\ Standing(g0) /\ Owning(g0)
      /\ g0.game_over = g.game_over /\ g0.winner = g.winner
      /\ \A j \in Players : SameBody(adv.players[j], g0.players[j])
      /\ \A j \in Players : \A c \in Land(g0, j) \ Land(adv, j) : j \in A /\ c = adv.players[j].pos
  <2>1. CASE 0 \in A
      BY <1>1, <1>2, <1>4, <1>5, <1>6, <2>1
  <2>2. CASE 0 \notin A
      BY <1>1, <1>2, <1>5, <2>2 DEF SameBody
  <2> QED BY <2>1, <2>2
<1> HIDE DEF g0
<1>8. /\ h \in GameStates /\ Standing(h) /\ Owning(h)
      /\ h.game_over = g.game_over /\ h.winner = g.winner
      /\ \A j \in Players : SameBody(g0.players[j], h.players[j])
      /\ \A j \in Players : \A c \in Land(h, j) \ Land(g0, j) : j \in A /\ c = g0.players[j].pos
  <2>1. CASE 1 \in A
    <3>1. g0.players[1].alive /\ 1 \in Players
        BY <1>4, <1>7, <2>1 DEF SameBody
    <3> QED BY <1>6, <1>7, <2>1, <3>1
  <2>2. CASE 1 \notin A
      BY <1>7, <2>2 DEF SameBody
  <2> QED BY <2>1, <2>2
<1>9. h = Capture(Advance(g), Arrived(g))
    BY DEF Capture, adv, A, g0
<1> HIDE DEF h
<1>10. Won(g, h)
  <2> SUFFICES ASSUME NEW p \in Players, NEW c \in Land(h, p) \ Land(g, p)
               PROVE  /\ g.players[p].moving /\ g.players[p].target = c
                      /\ h.players[p].alive /\ h.players[p].pos = c
      BY DEF Won
  <2>1. p \in A /\ c = adv.players[p].pos
      BY <1>5, <1>7, <1>8 DEF SameBody
  <2> QED BY <1>4, <1>7, <1>8, <2>1 DEF SameBody
<1> QED BY <1>8, <1>9, <1>10

\* h is a later moment of the tick: land is only lost, and who still has some
\* is alive where it was.
Later(g, h) ==
    /\ \A p \in Players : /\ Land(h, p) \subseteq Land(g, p)
                          /\ Land(h, p) # {} => h.players[p].alive /\ h.players[p].pos = g.players[p].pos
    /\ h.game_over = g.game_over /\ h.winner = g.winner

\* What is kept from phase to phase after the captures.
Sound(g, h) == h \in GameStates /\ Standing(h) /\ Owning(h) /\ Later(g, h)

LEMMA SoundThenSound ==
    ASSUME NEW g, NEW h, NEW k, Sound(g, h), Sound(h, k) PROVE Sound(g, k)
<1>1. Later(g, k)
  <2> SUFFICES ASSUME NEW p \in Players
               PROVE  /\ Land(k, p) \subseteq Land(g, p)
                      /\ Land(k, p) # {} => k.players[p].alive /\ k.players[p].pos = g.players[p].pos
      BY DEF Sound, Later
  <2>1. Land(k, p) \subseteq Land(h, p) /\ Land(h, p) \subseteq Land(g, p)
      BY DEF Sound, Later
  <2>2. Land(k, p) # {} => Land(h, p) # {}
      BY <2>1
  <2> QED BY <2>1, <2>2 DEF Sound, Later
<1> QED BY <1>1 DEF Sound

\* Phases that leave lives, places, scores and land alone.
LEMMA SoundSame ==
    ASSUME NEW g, Owning(g), NEW h \in GameStates, Standing(h),
           \A p \in Players : /\ h.players[p].alive = g.players[p].alive
                              /\ h.players[p].pos = g.players[p].pos
                              /\ h.players[p].score = g.players[p].score
                              /\ h.wait[p] = g.wait[p] /\ Land(h, p) = Land(g, p),
           h.game_over = g.game_over, h.winner = g.winner
    PROVE  Sound(g, h)
<1>1. Owning(h)
    BY SameOwning
<1>2. Later(g, h)
    BY DEF Later, Owning
<1> QED BY <1>1, <1>2 DEF Sound

LEMMA StartMovesSound ==
    ASSUME NEW g \in GameStates, NEW dir \in [Players -> Directions], Standing(g), Owning(g)
    PROVE  Sound(g, StartMoves(g, dir))
<1> DEFINE to(p) == Neighbour(g.players[p].pos, dir[p])
           ok(p) == move_candidate(g, p, dir[p])
           clash == ok(0) /\ ok(1) /\ to(0) = to(1)
           next(p) == IF ok(p) /\ ~clash
                      THEN [g.players[p] EXCEPT !.moving = TRUE, !.target = to(p)]
                      ELSE g.players[p]
           h == StartMoves(g, dir)
<1>1. /\ \A p \in Players : h.players[p] = next(p)
      /\ h.tiles = g.tiles /\ h.wait = g.wait /\ h.game_over = g.game_over /\ h.winner = g.winner
    BY DEF StartMoves, GameStates
<1>2. \A p \in Players : g.players[p] \in PlayerStates
    BY DEF GameStates
<1>3. h \in GameStates /\ Standing(h)
    BY StartMovesType, StartMovesStanding
<1> HIDE DEF h, to, ok, clash
<1>4. \A p \in Players : /\ h.players[p].alive = g.players[p].alive
                         /\ h.players[p].pos = g.players[p].pos
                         /\ h.players[p].score = g.players[p].score
    BY <1>1, <1>2 DEF PlayerStates
<1>5. Sound(g, h)
    BY <1>1, <1>3, <1>4, SoundSame DEF Land
<1> QED BY <1>5 DEF h

LEMMA BombsSound ==
    ASSUME NEW g \in GameStates, NEW p \in Players, NEW pressed, Standing(g), Owning(g)
    PROVE  Sound(g, place_bomb(g, p, pressed)) /\ Sound(g, run_bomb(g, p))
<1>1. Sound(g, place_bomb(g, p, pressed))
  <2> DEFINE h == place_bomb(g, p, pressed)
  <2>1. /\ h.players = g.players /\ h.tiles = g.tiles /\ h.wait = g.wait
        /\ h.game_over = g.game_over /\ h.winner = g.winner
      BY DEF place_bomb, GameStates
  <2>2. h \in GameStates /\ Standing(h)
      BY PlaceOneType, PlaceBombStanding
  <2> HIDE DEF h
  <2>3. Sound(g, h)
      BY <2>1, <2>2, SoundSame DEF Land
  <2> QED BY <2>3 DEF h
<1>2. Sound(g, run_bomb(g, p))
  <2> DEFINE h == run_bomb(g, p)
  <2>1. /\ h.players = g.players /\ h.tiles = g.tiles /\ h.wait = g.wait
        /\ h.game_over = g.game_over /\ h.winner = g.winner /\ FewerBombs(g, h)
      BY RunBombEffect
  <2>2. h \in GameStates
      BY RunBombType
  <2> HIDE DEF h
  <2>3. Standing(h)
      BY <2>1, SameBodies DEF SameBody
  <2>4. Sound(g, h)
      BY <2>1, <2>2, <2>3, SoundSame DEF Land
  <2> QED BY <2>4 DEF h
<1> QED BY <1>1, <1>2

LEMMA KillSound ==
    ASSUME NEW g \in GameStates, NEW p \in Players, Standing(g), Owning(g)
    PROVE  Sound(g, kill_player(g, p))
<1> DEFINE h == kill_player(g, p)
           q == 1 - p
<1>1. /\ h.game_over = g.game_over /\ h.winner = g.winner
      /\ h.players[q] = g.players[q]
      /\ h = g \/ (~h.players[p].alive /\ h.tiles = clear_player_territory(g.tiles, p))
    BY KillOneEffect
<1>2. h \in GameStates /\ Standing(h) /\ Owning(h)
    BY KillOneType, KillStanding, KillOwning
<1>3. Players = {p, q}
    BY DEF Players
<1> HIDE DEF h, q
<1>4. Later(g, h)
  <2>1. CASE h = g
      BY <1>2, <2>1 DEF Later, Owning
  <2>2. CASE ~h.players[p].alive /\ h.tiles = clear_player_territory(g.tiles, p)
    <3>1. \A j \in Players : Land(h, j) \subseteq Land(g, j)
        BY <2>2 DEF Land, clear_player_territory, player_tile_id
    <3>2. \A j \in Players : Land(h, j) # {} => h.players[j].alive /\ j # p
        BY <1>2, <2>2 DEF Owning
    <3> QED BY <1>1, <1>3, <3>1, <3>2 DEF Later
  <2> QED BY <1>1, <2>1, <2>2
<1>5. Sound(g, h)
    BY <1>2, <1>4 DEF Sound
<1> QED BY <1>5 DEF h

LEMMA RunExplosionSound ==
    ASSUME NEW g \in GameStates, NEW p \in Players, Standing(g), Owning(g), Spared(g)
    PROVE  Sound(g, run_explosion(g, p)) /\ Spared(run_explosion(g, p))
<1> DEFINE h == run_explosion(g, p)
<1>1. /\ h.players = g.players /\ h.bombs = g.bombs /\ h.wait = g.wait
      /\ h.game_over = g.game_over /\ h.winner = g.winner
      /\ \A j \in Players : Land(h, j) = Land(g, j)
      /\ \A j \in Players : /\ h.explosions[j].active => g.explosions[j].active
                            /\ h.explosions[j].center = g.explosions[j].center
    BY RunExplosionEffect
<1>2. h \in GameStates
    BY RunExplosionType
<1> HIDE DEF h
<1>3. Standing(h)
    BY <1>1, SameBodies DEF SameBody, FewerBombs
<1>4. Sound(g, h)
    BY <1>1, <1>2, <1>3, SoundSame
<1>5. Spared(h)
    BY <1>1 DEF Spared, explosion_hits_player
<1> QED BY <1>4, <1>5 DEF h

LEMMA RespawnSound ==
    ASSUME NEW g \in GameStates, NEW p \in Players, Standing(g), Owning(g), Spared(g)
    PROVE  Sound(g, run_respawn(g, p)) /\ Spared(run_respawn(g, p))
<1> DEFINE h == run_respawn(g, p)
           q == 1 - p
<1>1. /\ h.tiles = g.tiles /\ h.game_over = g.game_over /\ h.winner = g.winner
      /\ h.players[q] = g.players[q]
      /\ (g.players[p].alive /\ h = g) \/ ~g.players[p].alive
    BY RespawnOneEffect
<1>2. h \in GameStates /\ Standing(h) /\ Owning(h) /\ Spared(h)
    BY RespawnOneType, RespawnStanding, RespawnOwning, RespawnSpared
<1>3. Players = {p, q}
    BY DEF Players
<1> HIDE DEF h, q
<1>4. \A j \in Players : Land(h, j) = Land(g, j)
    BY <1>1 DEF Land
<1>5. Later(g, h)
  <2>1. \A j \in Players : Land(g, j) # {} => g.players[j].alive
      BY DEF Owning
  <2> QED BY <1>1, <1>2, <1>3, <1>4, <2>1 DEF Later, Owning
<1>6. Sound(g, h)
    BY <1>2, <1>5 DEF Sound
<1> QED BY <1>2, <1>6 DEF h

LEMMA VerdictJudged ==
    ASSUME NEW g \in GameStates, ~g.game_over, g.winner = -1
    PROVE  Judged(Verdict(g))
<1> DEFINE s0 == g.players[0].score
           s1 == g.players[1].score
           h == Verdict(g)
<1>1. s0 \in Nat /\ s1 \in Nat /\ WIN_SCORE \in Nat
    BY TickAssumption, Opponents DEF GameStates, PlayerStates
<1>2. h.players = g.players
    BY DEF Verdict, GameStates
<1>3. CASE s0 >= WIN_SCORE \/ s1 >= WIN_SCORE
  <2>1. h.game_over /\ h.winner = Winner(s0, s1)
      BY <1>3 DEF Verdict, GameStates
  <2> HIDE DEF h
  <2>2. Judged(h)
      BY <1>1, <1>2, <1>3, <2>1 DEF Judged, Winner, Players
  <2> QED BY <2>2 DEF h
<1>4. CASE ~(s0 >= WIN_SCORE \/ s1 >= WIN_SCORE)
  <2>1. h = g
      BY <1>4 DEF Verdict
  <2> HIDE DEF h
  <2>2. Judged(h)
      BY <1>1, <1>2, <1>4, <2>1 DEF Judged, Players
  <2> QED BY <2>2 DEF h
<1> QED BY <1>3, <1>4

\* The invariant depends on these fields only.
LEMMA InvSame ==
    ASSUME NEW g, NEW h \in GameStates, PlayInv(g),
           h.tiles = g.tiles, h.players = g.players, h.bombs = g.bombs, h.explosions = g.explosions,
           h.wait = g.wait, h.game_over = g.game_over, h.winner = g.winner
    PROVE  PlayInv(h)
<1>1. Standing(h)
    BY SameBodies DEF PlayInv, SameBody, FewerBombs
<1>2. Owning(h)
    BY SameOwning DEF PlayInv, Land
<1>3. Burning(h) /\ Spared(h) /\ Judged(h)
    BY DEF PlayInv, Burning, Spared, Judged
<1> QED BY <1>1, <1>2, <1>3 DEF PlayInv

LEMMA InvReset == PlayInv(ResetGame)
<1> DEFINE h == ResetGame
<1>1. /\ \A p \in Players : h.players[p] = AtSpawn(p, 0) /\ h.wait[p] = NONE
      /\ \A p \in Players : h.bombs[p].active = FALSE /\ h.explosions[p].active = FALSE
      /\ h.tiles = initial_map /\ h.game_over = FALSE /\ h.winner = -1
    BY DEF ResetGame
<1>2. h \in GameStates
    BY ResetType
<1> HIDE DEF h
<1>3. ASSUME NEW p \in Players
      PROVE  /\ h.players[p].alive = TRUE /\ h.players[p].moving = FALSE /\ h.players[p].score = 0
             /\ h.players[p].pos = spawn[p]
             /\ h.players[p].x = PixelX(spawn[p]) /\ h.players[p].y = PixelY(spawn[p])
  <2>1. h.players[p] = AtSpawn(p, 0)
      BY <1>1
  <2> QED BY <2>1 DEF AtSpawn
<1>4. Standing(h)
  <2>1. Paths(h)
      BY <1>3 DEF Paths, OnPath
  <2>2. \A p \in Players : \A c : Occupies(h.players[p], c) => c = spawn[p]
      BY <1>3 DEF Occupies
  <2> QED BY <1>1, <2>1, <2>2, SpawnAssumption, Opponents DEF Standing, Reserved, BombTiles
<1>5. Owning(h)
  <2>1. \A p \in Players : Land(h, p) = {}
      BY <1>1, MapAssumption DEF Land, player_tile_id
  <2> QED BY <1>1, <1>3, <2>1, FS_EmptySet DEF Owning
<1>6. Burning(h) /\ Spared(h)
    BY <1>1 DEF Burning, Spared, NONE, Players
<1>7. Judged(h)
  <2>1. ~(0 >= WIN_SCORE)
      BY TickAssumption
  <2> QED BY <1>1, <1>3, <2>1 DEF Judged, Players
<1> QED BY <1>2, <1>4, <1>5, <1>6, <1>7 DEF PlayInv, h

LEMMA PlayTickInv ==
    ASSUME NEW g, NEW inputs \in [Players -> Pads], PlayInv(g), ~g.game_over
    PROVE  PlayInv(PlayTick(g, inputs)) /\ Won(g, PlayTick(g, inputs))
<1> DEFINE dir     == [p \in Players |-> read_direction(inputs[p])]
           pressed == [p \in Players |-> "bomb" \in inputs[p] /\ ~g.prev_bomb[p]]
           walked  == Capture(Advance(g), Arrived(g))
           moved   == StartMoves(walked, dir)
           armed   == PlaceBombs(moved, pressed)
           blown   == RunBombs(armed)
           killed  == KillPlayers(blown)
           burnt   == RunExplosions(killed)
           back    == Respawn(burnt)
           judged  == Verdict(back)
           r       == PlayTick(g, inputs)
<1>1. /\ walked \in GameStates /\ Standing(walked) /\ Owning(walked) /\ Won(g, walked)
      /\ walked.game_over = g.game_over /\ walked.winner = g.winner
    BY WalkedTick DEF PlayInv
<1>2. dir \in [Players -> Directions]
    BY DEF read_direction, Directions
<1>3. Sound(walked, moved)
  <2> HIDE DEF walked, dir
  <2> QED BY <1>1, <1>2, StartMovesSound
<1>4. Sound(walked, armed)
  <2> HIDE DEF moved, walked, pressed
  <2>1. Sound(moved, place_bomb(moved, 0, pressed[0]))
      BY <1>3, BombsSound, Opponents DEF Sound
  <2>2. Sound(place_bomb(moved, 0, pressed[0]), armed)
      BY <2>1, BombsSound, Opponents DEF Sound, PlaceBombs
  <2> QED BY <1>3, <2>1, <2>2, SoundThenSound
<1>5. Sound(walked, blown)
  <2> HIDE DEF armed, walked
  <2>1. Sound(armed, run_bomb(armed, 0))
      BY <1>4, BombsSound, Opponents DEF Sound
  <2>2. Sound(run_bomb(armed, 0), blown)
      BY <2>1, BombsSound, Opponents DEF Sound, RunBombs
  <2> QED BY <1>4, <2>1, <2>2, SoundThenSound
<1>6. Sound(walked, killed) /\ Spared(killed)
  <2> HIDE DEF blown, walked
  <2>1. Sound(blown, kill_player(blown, 0))
      BY <1>5, KillSound, Opponents DEF Sound
  <2>2. Sound(kill_player(blown, 0), killed)
      BY <2>1, KillSound, Opponents DEF Sound, KillPlayers
  <2>3. Spared(killed)
      BY <1>5, KillSpared DEF Sound
  <2> QED BY <1>5, <2>1, <2>2, <2>3, SoundThenSound
<1>7. Sound(walked, burnt) /\ Spared(burnt)
  <2> HIDE DEF killed, walked
  <2>1. Sound(killed, run_explosion(killed, 0)) /\ Spared(run_explosion(killed, 0))
      BY <1>6, RunExplosionSound, Opponents DEF Sound
  <2>2. Sound(run_explosion(killed, 0), burnt) /\ Spared(burnt)
      BY <2>1, RunExplosionSound, Opponents DEF Sound, RunExplosions
  <2> QED BY <1>6, <2>1, <2>2, SoundThenSound
<1>8. Sound(walked, back) /\ Spared(back) /\ Burning(back)
  <2> HIDE DEF burnt, walked
  <2> DEFINE h == run_respawn(burnt, 0)
  <2>1. /\ Sound(burnt, h) /\ Spared(h)
        /\ h.wait[0] \in Players => h.explosions[h.wait[0]].active
      BY <1>7, RespawnSound, RespawnOwning, Opponents DEF Sound
  <2>2. back = run_respawn(h, 1)
      BY DEF Respawn
  <2> HIDE DEF h, back
  <2>3. /\ Sound(h, back) /\ Spared(back)
        /\ back.wait[1] \in Players => back.explosions[back.wait[1]].active
        /\ back.wait[0] = h.wait[0] /\ back.explosions = h.explosions
      BY <2>1, <2>2, RespawnSound, RespawnOwning, RespawnOneEffect, Opponents DEF Sound
  <2>4. Burning(back)
      BY <2>1, <2>3 DEF Burning, Players
  <2> QED BY <1>7, <2>1, <2>3, <2>4, SoundThenSound
<1> HIDE DEF back, walked
<1>9. /\ judged \in GameStates /\ judged.players = back.players /\ judged.tiles = back.tiles
      /\ judged.bombs = back.bombs /\ judged.explosions = back.explosions /\ judged.wait = back.wait
    BY <1>8, VerdictType DEF Sound, Verdict, GameStates
<1>10. Judged(judged)
  <2>1. ~back.game_over /\ back.winner = -1
    <3>1. ~g.game_over /\ g.winner = -1
        BY DEF PlayInv, Judged, GameStates, Players
    <3> QED BY <1>1, <1>8, <3>1 DEF Sound, Later
  <2> QED BY <1>8, <2>1, VerdictJudged DEF Sound
<1> HIDE DEF judged
<1>11. PlayInv(judged)
  <2>1. Standing(judged)
      BY <1>8, <1>9, SameBodies DEF Sound, SameBody, FewerBombs
  <2>2. Owning(judged)
      BY <1>8, <1>9, SameOwning DEF Sound, Land
  <2>3. Burning(judged) /\ Spared(judged)
      BY <1>8, <1>9 DEF Burning, Spared
  <2> QED BY <1>9, <1>10, <2>1, <2>2, <2>3 DEF PlayInv
<1>12. /\ r \in GameStates
       /\ r.tiles = judged.tiles /\ r.players = judged.players /\ r.bombs = judged.bombs
       /\ r.explosions = judged.explosions /\ r.wait = judged.wait
       /\ r.game_over = judged.game_over /\ r.winner = judged.winner
  <2>1. \E s : r = [judged EXCEPT !.sounds = s, !.prev_bomb = BombDown(inputs)]
      BY DEF PlayTick, judged, back, walked
  <2>2. r \in GameStates
      BY PlayTickType DEF PlayInv
  <2> HIDE DEF r
  <2> QED BY <1>9, <2>1, <2>2 DEF GameStates
<1> HIDE DEF r
<1>13. PlayInv(r)
    BY <1>11, <1>12, InvSame
<1>14. Won(g, r)
  <2> SUFFICES ASSUME NEW p \in Players, NEW c \in Land(r, p) \ Land(g, p)
               PROVE  /\ g.players[p].moving /\ g.players[p].target = c
                      /\ r.players[p].alive /\ r.players[p].pos = c
      BY DEF Won
  <2>1. c \in Land(back, p)
      BY <1>9, <1>12 DEF Land
  <2>2. c \in Land(walked, p) /\ back.players[p].alive /\ back.players[p].pos = walked.players[p].pos
      BY <1>8, <2>1 DEF Sound, Later
  <2> QED BY <1>1, <1>9, <1>12, <2>2 DEF Won
<1> QED BY <1>13, <1>14 DEF r

-----------------------------------------------------------------------------
\* The theorems.

\* The inductive invariant holds in every reachable state.
THEOREM PlayInvariant == Spec => []PlayInv(game)
<1>1. Init => PlayInv(game)
    BY InvReset DEF Init
<1>2. PlayInv(game) /\ [Next]_vars => PlayInv(game')
  <2> SUFFICES ASSUME PlayInv(game), [Next]_vars PROVE PlayInv(game')
      OBVIOUS
  <2>1. ASSUME NEW inputs \in [Players -> Pads], Restart(inputs) PROVE PlayInv(game')
      BY <2>1, InvReset DEF Restart
  <2>2. ASSUME NEW inputs \in [Players -> Pads], GameOverTick(inputs) PROVE PlayInv(game')
    <3>1. /\ <<"NONE", "NONE">> \in SoundIds \X SoundIds
          /\ BombDown(inputs) \in [Players -> BOOLEAN]
        BY DEF SoundIds, BombDown
    <3>2. /\ game' \in GameStates
          /\ game'.tiles = game.tiles /\ game'.players = game.players /\ game'.bombs = game.bombs
          /\ game'.explosions = game.explosions /\ game'.wait = game.wait
          /\ game'.game_over = game.game_over /\ game'.winner = game.winner
        BY <2>2, <3>1 DEF GameOverTick, PlayInv, GameStates
    <3> QED BY <3>2, InvSame
  <2>3. ASSUME NEW inputs \in [Players -> Pads], Play(inputs) PROVE PlayInv(game')
      BY <2>3, PlayTickInv DEF Play
  <2>4. CASE UNCHANGED vars
      BY <2>4 DEF vars
  <2> QED BY <2>1, <2>2, <2>3, <2>4 DEF Next, game_step
<1>3. PlayInv(game') => PlayInv(game)'
    BY DEF PlayInv, Standing, Paths, Reserved, BombTiles, Owning, Burning, Spared, Judged, Land
<1> QED BY <1>1, <1>2, <1>3, PTL DEF Spec

\* A score is the number of tiles of the player's colour (ScoreIsTerritory),
\* though it is kept by +1, -1 and resets and never counted.
THEOREM ScoresAreTerritory == Spec => []ScoreIsTerritory
<1>1. PlayInv(game) => ScoreIsTerritory
    BY DEF PlayInv, Owning, ScoreIsTerritory
<1> QED BY <1>1, PlayInvariant, PTL

\* A lit bomb keeps its tile from both players and from other bombs
\* (BombTileExclusive).
THEOREM BombTilesExclusive == Spec => []BombTileExclusive
<1>1. PlayInv(game) => BombTileExclusive
    BY DEF PlayInv, Standing, BombTiles, BombTileExclusive, Heads
<1> QED BY <1>1, PlayInvariant, PTL

\* No living player is inside a burning explosion after a tick
\* (SurvivorsOutsideBlasts).
THEOREM NobodySurvivesInside == Spec => []SurvivorsOutsideBlasts
<1>1. PlayInv(game) => SurvivorsOutsideBlasts
    BY DEF PlayInv, Spared, SurvivorsOutsideBlasts
<1> QED BY <1>1, PlayInvariant, PTL

\* The dead own nothing and wait for a burning explosion or a safe spawn, and
\* only they wait (RespawnState).
THEOREM RespawnsInOrder == Spec => []RespawnState
<1>1. PlayInv(game) => RespawnState
    BY FS_EmptySet DEF PlayInv, Owning, Burning, RespawnState
<1> QED BY <1>1, PlayInvariant, PTL

\* The verdict agrees with the board (VerdictIsSound): it falls when somebody
\* holds WIN_SCORE tiles, for a living player with strictly more of them.
THEOREM VerdictsSound == Spec => []VerdictIsSound
<1>1. PlayInv(game) => VerdictIsSound
  <2> SUFFICES ASSUME PlayInv(game) PROVE VerdictIsSound
      OBVIOUS
  <2>1. \A p \in Players : game.players[p].score = Cardinality(Land(game, p))
      BY DEF PlayInv, Owning
  <2>2. ASSUME NEW p \in Players, game.players[p].score >= WIN_SCORE PROVE game.players[p].alive
    <3>1. ~(0 >= WIN_SCORE)
        BY TickAssumption
    <3> QED BY <2>2, <3>1, FS_EmptySet DEF PlayInv, Owning
  <2> QED BY <2>1, <2>2, Opponents DEF PlayInv, Judged, VerdictIsSound
<1> QED BY <1>1, PlayInvariant, PTL

\* A body fits in a rectangle of tiles that the player holds.
LEMMA BodyHull ==
    ASSUME NEW pl \in PlayerStates, pl.alive, OnPath(pl)
    PROVE  \E top, bottom, left, right \in Nat :
              /\ top * TILE_SIZE <= pl.y /\ pl.y <= bottom * TILE_SIZE
              /\ left * TILE_SIZE <= pl.x /\ pl.x <= right * TILE_SIZE
              /\ top <= bottom /\ left <= right
              /\ \A r \in top..bottom : \A c \in left..right : <<r, c>> \in Pos /\ Occupies(pl, <<r, c>>)
<1> DEFINE Hull(top, bottom, left, right) ==
              /\ top * TILE_SIZE <= pl.y /\ pl.y <= bottom * TILE_SIZE
              /\ left * TILE_SIZE <= pl.x /\ pl.x <= right * TILE_SIZE
              /\ top <= bottom /\ left <= right
              /\ \A r \in top..bottom : \A c \in left..right : <<r, c>> \in Pos /\ Occupies(pl, <<r, c>>)
<1>1. /\ pl.pos \in Pos /\ pl.target \in Pos /\ pl.x \in Nat /\ pl.y \in Nat
      /\ PixelX(pl.pos) \in Nat /\ PixelY(pl.pos) \in Nat
      /\ PixelX(pl.target) \in Nat /\ PixelY(pl.target) \in Nat
    BY PixelType DEF PlayerStates
<1>2. \A t \in Pos : t[1] \in Nat /\ t[2] \in Nat /\ t = <<t[1], t[2]>>
    BY SizeAssumption DEF Pos
<1>3. CASE ~pl.moving
  <2>1. Hull(pl.pos[1], pl.pos[1], pl.pos[2], pl.pos[2])
      BY <1>1, <1>2, <1>3 DEF OnPath, Occupies, PixelX, PixelY
  <2>2. pl.pos[1] \in Nat /\ pl.pos[2] \in Nat
      BY <1>1, <1>2
  <2> HIDE DEF Hull
  <2>3. \E top, bottom, left, right \in Nat : Hull(top, bottom, left, right)
      BY <2>1, <2>2
  <2> QED BY <2>3 DEF Hull
<1>4. CASE pl.moving
  <2>1. /\ Between(pl.x, PixelX(pl.pos), PixelX(pl.target))
        /\ Between(pl.y, PixelY(pl.pos), PixelY(pl.target))
      BY <1>4 DEF OnPath
  <2>2. PICK dir \in {"up", "down", "left", "right"} : pl.target = Neighbour(pl.pos, dir)
      BY <1>4 DEF OnPath, Adjacent
  <2>3. Occupies(pl, pl.pos) /\ Occupies(pl, pl.target)
      BY <1>4 DEF Occupies
  <2>4. \A m, n \in Nat : m < n => m * TILE_SIZE <= n * TILE_SIZE
      BY TilesApart, TickAssumption
  <2>5. CASE dir = "down" \/ dir = "right"
    <3>1. \/ pl.target[1] = pl.pos[1] + 1 /\ pl.target[2] = pl.pos[2]
          \/ pl.target[1] = pl.pos[1] /\ pl.target[2] = pl.pos[2] + 1
        BY <1>1, <1>2, <2>2, <2>5 DEF Neighbour, direction_delta
    <3>2. \A r \in pl.pos[1]..pl.target[1] : \A c \in pl.pos[2]..pl.target[2] :
             <<r, c>> = pl.pos \/ <<r, c>> = pl.target
        BY <1>1, <1>2, <3>1
    <3>3. pl.pos[1] * TILE_SIZE <= pl.target[1] * TILE_SIZE /\ pl.pos[2] * TILE_SIZE <= pl.target[2] * TILE_SIZE
        BY <1>1, <1>2, <2>4, <3>1 DEF PixelX, PixelY
    <3>4. Hull(pl.pos[1], pl.target[1], pl.pos[2], pl.target[2])
        BY <1>1, <1>2, <2>1, <2>3, <3>1, <3>2, <3>3 DEF Between, PixelX, PixelY
    <3> QED BY <1>1, <1>2, <3>4
  <2>6. CASE dir = "up" \/ dir = "left"
    <3>1. \/ pl.pos[1] = pl.target[1] + 1 /\ pl.target[2] = pl.pos[2]
          \/ pl.target[1] = pl.pos[1] /\ pl.pos[2] = pl.target[2] + 1
        BY <1>1, <1>2, <2>2, <2>6 DEF Neighbour, direction_delta
    <3>2. \A r \in pl.target[1]..pl.pos[1] : \A c \in pl.target[2]..pl.pos[2] :
             <<r, c>> = pl.pos \/ <<r, c>> = pl.target
        BY <1>1, <1>2, <3>1
    <3>3. pl.target[1] * TILE_SIZE <= pl.pos[1] * TILE_SIZE /\ pl.target[2] * TILE_SIZE <= pl.pos[2] * TILE_SIZE
        BY <1>1, <1>2, <2>4, <3>1 DEF PixelX, PixelY
    <3>4. Hull(pl.target[1], pl.pos[1], pl.target[2], pl.pos[2])
        BY <1>1, <1>2, <2>1, <2>3, <3>1, <3>2, <3>3 DEF Between, PixelX, PixelY
    <3> QED BY <1>1, <1>2, <3>4
  <2> QED BY <2>5, <2>6
<1> QED BY <1>3, <1>4

\* The bodies of two living players never overlap by a pixel (BodiesApart):
\* the rectangles of tiles they hold have no tile in common.
THEOREM BodiesStayApart == Spec => []BodiesApart
<1>1. PlayInv(game) => BodiesApart
  <2> SUFFICES ASSUME PlayInv(game), game.players[0].alive, game.players[1].alive PROVE BodiesApart
      BY DEF BodiesApart
  <2> DEFINE a == game.players[0]
             b == game.players[1]
  <2>1. a \in PlayerStates /\ b \in PlayerStates
      BY Opponents DEF PlayInv, GameStates
  <2>2. OnPath(a) /\ OnPath(b)
      BY Opponents DEF PlayInv, Standing, Paths
  <2>3. \A c \in Pos : ~(Occupies(a, c) /\ Occupies(b, c))
      BY DEF PlayInv, Standing, Reserved
  <2>4. a.x \in Nat /\ a.y \in Nat /\ b.x \in Nat /\ b.y \in Nat
      BY <2>1 DEF PlayerStates
  <2> HIDE DEF a, b
  <2>5. a.alive /\ b.alive
      BY DEF a, b
  <2>6. PICK t0, b0, l0, r0 \in Nat :
              /\ t0 * TILE_SIZE <= a.y /\ a.y <= b0 * TILE_SIZE
              /\ l0 * TILE_SIZE <= a.x /\ a.x <= r0 * TILE_SIZE
              /\ t0 <= b0 /\ l0 <= r0
              /\ \A r \in t0..b0 : \A c \in l0..r0 : <<r, c>> \in Pos /\ Occupies(a, <<r, c>>)
      BY <2>1, <2>2, <2>5, BodyHull
  <2>7. PICK t1, b1, l1, r1 \in Nat :
              /\ t1 * TILE_SIZE <= b.y /\ b.y <= b1 * TILE_SIZE
              /\ l1 * TILE_SIZE <= b.x /\ b.x <= r1 * TILE_SIZE
              /\ t1 <= b1 /\ l1 <= r1
              /\ \A r \in t1..b1 : \A c \in l1..r1 : <<r, c>> \in Pos /\ Occupies(b, <<r, c>>)
      BY <2>1, <2>2, <2>5, BodyHull
  <2>8. b0 < t1 \/ b1 < t0 \/ r0 < l1 \/ r1 < l0
    <3> SUFFICES ASSUME t1 <= b0, t0 <= b1, l1 <= r0, l0 <= r1 PROVE FALSE
        OBVIOUS
    <3>1. PICK r \in Nat : r \in t0..b0 /\ r \in t1..b1
      <4>1. CASE t0 <= t1
          BY <2>6, <2>7, <4>1
      <4>2. CASE t1 <= t0
          BY <2>6, <2>7, <4>2
      <4> QED BY <4>1, <4>2
    <3>2. PICK c \in Nat : c \in l0..r0 /\ c \in l1..r1
      <4>1. CASE l0 <= l1
          BY <2>6, <2>7, <4>1
      <4>2. CASE l1 <= l0
          BY <2>6, <2>7, <4>2
      <4> QED BY <4>1, <4>2
    <3> QED BY <2>3, <2>6, <2>7, <3>1, <3>2
  <2>9. \A m, n \in Nat : m < n => /\ m * TILE_SIZE + TILE_SIZE <= n * TILE_SIZE
                                   /\ m * TILE_SIZE \in Int /\ n * TILE_SIZE \in Int
      BY TilesApart
  <2>10. TILE_SIZE \in Nat /\ \A m \in Nat : m * TILE_SIZE \in Int
      BY TickAssumption
  <2>11. \/ a.x + TILE_SIZE <= b.x \/ b.x + TILE_SIZE <= a.x
         \/ a.y + TILE_SIZE <= b.y \/ b.y + TILE_SIZE <= a.y
    <3>1. CASE b0 < t1
        BY <2>4, <2>6, <2>7, <2>9, <2>10, <3>1
    <3>2. CASE b1 < t0
        BY <2>4, <2>6, <2>7, <2>9, <2>10, <3>2
    <3>3. CASE r0 < l1
        BY <2>4, <2>6, <2>7, <2>9, <2>10, <3>3
    <3>4. CASE r1 < l0
        BY <2>4, <2>6, <2>7, <2>9, <2>10, <3>4
    <3> QED BY <2>8, <3>1, <3>2, <3>3, <3>4
  <2> QED BY <2>11 DEF BodiesApart, a, b
<1> QED BY <1>1, PlayInvariant, PTL

\* Land is won in one way, by ending alive the move that reserved the tile
\* (LandWonByArrival).
THEOREM LandIsWonByArrival == Spec => LandWonByArrival
<1>1. PlayInv(game) /\ [Next]_vars => [Won(game, game')]_vars
  <2> SUFFICES ASSUME PlayInv(game), Next PROVE Won(game, game')
      OBVIOUS
  <2>1. ASSUME NEW inputs \in [Players -> Pads], Restart(inputs) PROVE Won(game, game')
    <3>1. \A p \in Players : Land(ResetGame, p) = {}
        BY MapAssumption DEF Land, ResetGame, player_tile_id
    <3> QED BY <2>1, <3>1 DEF Restart, Won
  <2>2. ASSUME NEW inputs \in [Players -> Pads], GameOverTick(inputs) PROVE Won(game, game')
    <3>1. game'.tiles = game.tiles
        BY <2>2 DEF GameOverTick, PlayInv, GameStates
    <3> QED BY <3>1 DEF Won, Land
  <2>3. ASSUME NEW inputs \in [Players -> Pads], Play(inputs) PROVE Won(game, game')
      BY <2>3, PlayTickInv DEF Play
  <2> QED BY <2>1, <2>2, <2>3 DEF Next, game_step
<1>2. [Won(game, game')]_vars =>
        [\A p \in Players : \A c \in Land(game', p) \ Land(game, p) :
            /\ game.players[p].moving /\ game.players[p].target = c
            /\ game'.players[p].alive /\ game'.players[p].pos = c]_vars
    BY DEF Won
<1> QED BY <1>1, <1>2, PlayInvariant, PTL DEF Spec, LandWonByArrival
=============================================================================
