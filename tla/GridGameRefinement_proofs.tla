--------------------- MODULE GridGameRefinement_proofs ---------------------
(***************************************************************************)
(* GridGame implements Match, for every arena, speed, timer and            *)
(* controller: initial states map to initial states, a tick that is played *)
(* maps to a tick of Match, a restart to a restart, and the ticks of a     *)
(* finished game to stutters.                                              *)
(***************************************************************************)
EXTENDS GridGameRefinement, GridGamePlay_proofs

\* The tiles that can be owned never become ground, and ground stays ground:
\* all the land of a player lies on them.
Grounded(g) == \A c \in Pos : g.tiles[c] \in {"EMPTY", "HARD_WALL"} <=> c \notin Ownable

\* The board of h is that of g after the claims, the deaths and the openings
\* of one tick of Match.
BoardTick(g, h, claim, dead, walls) ==
    /\ claim[0] \cap claim[1] = {}
    /\ \A p \in Players : /\ \A c \in claim[p] : c \in Pos /\ tile_is_enterable(g.tiles[c])
                          /\ claim[p] # {} => g.players[p].alive /\ \E c \in Pos : claim[p] = {c}
    /\ dead \subseteq {p \in Players : g.players[p].alive}
    /\ walls \subseteq {c \in Pos : g.tiles[c] = "SOFT_WALL"}
    /\ \A c \in Pos :
          LET w == IF c \in claim[0] THEN "YELLOW" ELSE IF c \in claim[1] THEN "PINK" ELSE g.tiles[c]
          IN  h.tiles[c] = IF c \in walls \/ \E p \in dead : w = player_tile_id(p) THEN "BLUE" ELSE w
    /\ \A p \in Players : g.players[p].alive /\ p \notin dead => h.players[p].alive

-----------------------------------------------------------------------------
\* What each phase of a tick does to the board.

\* Moves and captures: a tile keeps its colour, or was open and is taken.
LEMMA WalkedBoard ==
    ASSUME NEW g \in GameStates
    PROVE  LET h == Capture(Advance(g), Arrived(g))
           IN  /\ \A p \in Players : h.players[p].alive = g.players[p].alive
               /\ \A c \in Pos : \/ h.tiles[c] = g.tiles[c]
                                 \/ /\ tile_is_enterable(g.tiles[c])
                                    /\ \E p \in Players : h.tiles[c] = player_tile_id(p)
<1> DEFINE adv == Advance(g)
           A   == Arrived(g)
           g0  == IF 0 \in A THEN apply_tile_capture(adv, 0) ELSE adv
           h   == IF 1 \in A THEN apply_tile_capture(g0, 1) ELSE g0
           Taken(k, r) == \A c \in Pos : \/ r.tiles[c] = k.tiles[c]
                                         \/ /\ tile_is_enterable(k.tiles[c])
                                            /\ \E p \in Players : r.tiles[c] = player_tile_id(p)
<1>1. /\ adv \in GameStates /\ adv.tiles = g.tiles
      /\ \A p \in Players : adv.players[p].alive = g.players[p].alive
  <2>1. \A p \in Players : advance_player_motion(g.players[p]).alive = g.players[p].alive
      BY MotionBody DEF GameStates
  <2> QED BY <2>1, AdvanceType DEF Advance, GameStates
<1> HIDE DEF adv, A
<1>2. ASSUME NEW k \in GameStates, NEW p \in Players
      PROVE  LET r == apply_tile_capture(k, p)
             IN  /\ r \in GameStates /\ Taken(k, r)
                 /\ \A j \in Players : r.players[j].alive = k.players[j].alive
  <2> DEFINE r == apply_tile_capture(k, p)
  <2>1. r \in GameStates /\ \A j \in Players : r.players[j].alive = k.players[j].alive
      BY CaptureOneType, CaptureOneEffect DEF SameBody
  <2>2. Recoloured(k, r)
      BY CaptureOneFrame
  <2>3. r.tiles = k.tiles \/ r.tiles = [k.tiles EXCEPT ![k.players[p].pos] = player_tile_id(p)]
      BY CaptureOneEffect
  <2> HIDE DEF r
  <2>4. Taken(k, r)
      BY <2>2, <2>3 DEF Recoloured, Repainted, GameStates
  <2> QED BY <2>1, <2>4 DEF r
<1>3. /\ g0 \in GameStates /\ Taken(adv, g0)
      /\ \A j \in Players : g0.players[j].alive = adv.players[j].alive
    BY <1>1, <1>2, Opponents
<1> HIDE DEF g0
<1>4. Taken(g0, h) /\ \A j \in Players : h.players[j].alive = g0.players[j].alive
    BY <1>2, <1>3, Opponents
<1>5. h = Capture(Advance(g), Arrived(g))
    BY DEF Capture, g0, adv, A
<1> HIDE DEF h
<1>6. Taken(g, h)
  <2> SUFFICES ASSUME NEW c \in Pos
               PROVE  \/ h.tiles[c] = g.tiles[c]
                      \/ /\ tile_is_enterable(g.tiles[c])
                         /\ \E p \in Players : h.tiles[c] = player_tile_id(p)
      OBVIOUS
  <2> QED BY <1>1, <1>3, <1>4
<1> QED BY <1>1, <1>3, <1>4, <1>5, <1>6

\* Deaths: exactly the land of those who die is given back.
LEMMA KilledBoard ==
    ASSUME NEW g \in GameStates
    PROVE  LET h == KillPlayers(g)
               dead == {p \in Players : g.players[p].alive /\ ~h.players[p].alive}
           IN  \A c \in Pos : h.tiles[c] = IF \E p \in dead : g.tiles[c] = player_tile_id(p)
                                           THEN "BLUE" ELSE g.tiles[c]
<1> DEFINE k == kill_player(g, 0)
           h == kill_player(k, 1)
           dead == {p \in Players : g.players[p].alive /\ ~h.players[p].alive}
<1>0. ASSUME NEW j \in GameStates, NEW p \in Players, NEW q \in Players, q = 1 - p
      PROVE  LET r == kill_player(j, p)
             IN  /\ r \in GameStates /\ r.players[q] = j.players[q]
                 /\ \/ r = j
                    \/ /\ j.players[p].alive /\ r.players[p].alive = FALSE
                       /\ r.tiles = clear_player_territory(j.tiles, p)
  <2>1. Killers(j, p) # {} => j.players[p].alive
      BY DEF Killers
  <2> QED BY <1>0, <2>1, KillOneType, KillOneEffect
<1>1. /\ k \in GameStates /\ k.players[1] = g.players[1]
      /\ \/ k = g
         \/ /\ g.players[0].alive /\ k.players[0].alive = FALSE
            /\ k.tiles = clear_player_territory(g.tiles, 0)
  <2>1. 0 \in Players /\ 1 \in Players /\ 1 = 1 - 0
      BY Opponents
  <2> HIDE DEF k
  <2> QED BY <1>0, <2>1 DEF k
<1> HIDE DEF k
<1>2. /\ h.players[0] = k.players[0]
      /\ \/ h = k
         \/ /\ k.players[1].alive /\ h.players[1].alive = FALSE
            /\ h.tiles = clear_player_territory(k.tiles, 1)
  <2>1. 0 \in Players /\ 1 \in Players /\ 0 = 1 - 1
      BY Opponents
  <2>2. k \in GameStates
      BY <1>1
  <2>3. LET r == kill_player(k, 1)
        IN  /\ r \in GameStates /\ r.players[0] = k.players[0]
            /\ \/ r = k
               \/ /\ k.players[1].alive /\ r.players[1].alive = FALSE
                  /\ r.tiles = clear_player_territory(k.tiles, 1)
      BY <1>0, <2>1, <2>2
  <2> QED BY <2>3
<1>3. h = KillPlayers(g)
    BY DEF KillPlayers, k
<1> HIDE DEF h
<1>4. ASSUME NEW c \in Pos
      PROVE  h.tiles[c] = IF \E p \in dead : g.tiles[c] = player_tile_id(p)
                          THEN "BLUE" ELSE g.tiles[c]
  <2>1. k.tiles[c] = IF 0 \in dead /\ g.tiles[c] = "YELLOW" THEN "BLUE" ELSE g.tiles[c]
      BY <1>1, <1>2, Opponents DEF clear_player_territory, player_tile_id
  <2>2. h.tiles[c] = IF 1 \in dead /\ k.tiles[c] = "PINK" THEN "BLUE" ELSE k.tiles[c]
      BY <1>1, <1>2, Opponents DEF clear_player_territory, player_tile_id
  <2> QED BY <2>1, <2>2, Opponents DEF player_tile_id
<1> QED BY <1>3, <1>4

\* Explosions that end: soft walls open, and nothing else.
LEMMA BurntBoard ==
    ASSUME NEW g \in GameStates
    PROVE  LET h == RunExplosions(g)
           IN  /\ h.players = g.players
               /\ \A c \in Pos : \/ h.tiles[c] = g.tiles[c]
                                 \/ g.tiles[c] = "SOFT_WALL" /\ h.tiles[c] = "BLUE"
<1>1. ASSUME NEW k \in GameStates, NEW e \in Players
      PROVE  LET r == run_explosion(k, e)
             IN  /\ r \in GameStates /\ r.players = k.players
                 /\ \A c \in Pos : \/ r.tiles[c] = k.tiles[c]
                                   \/ k.tiles[c] = "SOFT_WALL" /\ r.tiles[c] = "BLUE"
  <2>1. \/ run_explosion(k, e).tiles = k.tiles
        \/ run_explosion(k, e).tiles =
             [c \in Pos |-> IF c \in walls_opened(k, e, hits_without(k, e))
                            THEN "BLUE" ELSE k.tiles[c]]
      BY DEF run_explosion, cleanup_explosion, GameStates
  <2> QED BY <2>1, RunExplosionType, RunExplosionEffect DEF walls_opened
<1> DEFINE k == run_explosion(g, 0)
<1>2. /\ k \in GameStates /\ k.players = g.players
      /\ \A c \in Pos : \/ k.tiles[c] = g.tiles[c]
                        \/ g.tiles[c] = "SOFT_WALL" /\ k.tiles[c] = "BLUE"
    BY <1>1, Opponents
<1> HIDE DEF k
<1>3. LET h == run_explosion(k, 1)
      IN  /\ h.players = k.players
          /\ \A c \in Pos : \/ h.tiles[c] = k.tiles[c]
                            \/ k.tiles[c] = "SOFT_WALL" /\ h.tiles[c] = "BLUE"
    BY <1>1, <1>2, Opponents
<1>4. RunExplosions(g) = run_explosion(k, 1)
    BY DEF RunExplosions, k
<1> QED BY <1>2, <1>3, <1>4

\* Moves that start, bombs that are planted and bombs that go off leave the
\* board and the living as they are.
LEMMA ArmedBoard ==
    ASSUME NEW g \in GameStates, NEW dir, NEW pressed
    PROVE  LET h == RunBombs(PlaceBombs(StartMoves(g, dir), pressed))
           IN  /\ h \in GameStates /\ h.tiles = g.tiles
               /\ \A p \in Players : h.players[p].alive = g.players[p].alive
<1> DEFINE m  == StartMoves(g, dir)
           g1 == place_bomb(m, 0, pressed[0])
           g2 == place_bomb(g1, 1, pressed[1])
           g3 == run_bomb(g2, 0)
<1>1. /\ m \in GameStates /\ m.tiles = g.tiles
      /\ \A p \in Players : m.players[p].alive = g.players[p].alive
  <2>1. m \in GameStates /\ m.tiles = g.tiles
      BY StartMovesType, StartMovesFrame DEF SameBoard
  <2>2. ASSUME NEW p \in Players PROVE m.players[p].alive = g.players[p].alive
    <3>1. \/ m.players[p] = g.players[p]
          \/ m.players[p] = [g.players[p] EXCEPT !.moving = TRUE,
                                                 !.target = Neighbour(g.players[p].pos, dir[p])]
        BY DEF StartMoves, GameStates
    <3>2. g.players[p] \in PlayerStates
        BY DEF GameStates
    <3> HIDE DEF m
    <3> QED BY <3>1, <3>2 DEF PlayerStates
  <2> QED BY <2>1, <2>2
<1>2. ASSUME NEW k \in GameStates, NEW i \in Players, NEW b
      PROVE  /\ place_bomb(k, i, b).tiles = k.tiles /\ place_bomb(k, i, b).players = k.players
             /\ run_bomb(k, i).tiles = k.tiles /\ run_bomb(k, i).players = k.players
    BY DEF place_bomb, run_bomb, create_explosion_from_bomb, GameStates
<1> HIDE DEF m
<1>3. g1 \in GameStates /\ g1.tiles = m.tiles /\ g1.players = m.players
    BY <1>1, <1>2, PlaceOneType, Opponents
<1> HIDE DEF g1
<1>4. g2 \in GameStates /\ g2.tiles = g1.tiles /\ g2.players = g1.players
    BY <1>2, <1>3, PlaceOneType, Opponents
<1> HIDE DEF g2
<1>5. g3 \in GameStates /\ g3.tiles = g2.tiles /\ g3.players = g2.players
    BY <1>2, <1>4, RunBombType, Opponents
<1> HIDE DEF g3
<1>6. LET h == run_bomb(g3, 1) IN h \in GameStates /\ h.tiles = g3.tiles /\ h.players = g3.players
    BY <1>2, <1>5, RunBombType, Opponents
<1>7. RunBombs(PlaceBombs(StartMoves(g, dir), pressed)) = run_bomb(g3, 1)
    BY DEF RunBombs, PlaceBombs, g3, g2, g1, m
<1> QED BY <1>1, <1>3, <1>4, <1>5, <1>6, <1>7

\* Returns and the verdict leave the board alone, and nobody dies in them.
LEMMA JudgedBoard ==
    ASSUME NEW g \in GameStates
    PROVE  LET h == Verdict(Respawn(g))
           IN  /\ h.tiles = g.tiles
               /\ \A p \in Players : g.players[p].alive => h.players[p].alive
<1> DEFINE k == run_respawn(g, 0)
           m == run_respawn(k, 1)
           h == Verdict(m)
<1>1. ASSUME NEW j \in GameStates, NEW p \in Players, NEW q \in Players, q = 1 - p
      PROVE  LET r == run_respawn(j, p)
             IN  /\ r \in GameStates /\ r.tiles = j.tiles /\ r.players[q] = j.players[q]
                 /\ j.players[p].alive => r.players[p].alive
    BY <1>1, RespawnOneType, RespawnOneEffect
<1>2. 0 \in Players /\ 1 \in Players /\ 1 = 1 - 0 /\ 0 = 1 - 1
    BY Opponents
<1>3. /\ k \in GameStates /\ k.tiles = g.tiles /\ k.players[1] = g.players[1]
      /\ g.players[0].alive => k.players[0].alive
    BY <1>1, <1>2
<1> HIDE DEF k
<1>4. /\ m \in GameStates /\ m.tiles = k.tiles /\ m.players[0] = k.players[0]
      /\ k.players[1].alive => m.players[1].alive
  <2>1. LET r == run_respawn(k, 1)
        IN  /\ r \in GameStates /\ r.tiles = k.tiles /\ r.players[0] = k.players[0]
            /\ k.players[1].alive => r.players[1].alive
      BY <1>1, <1>2, <1>3
  <2> QED BY <2>1
<1> HIDE DEF m
<1>5. h.tiles = m.tiles /\ h.players = m.players
    BY <1>4 DEF Verdict, GameStates
<1>6. h = Verdict(Respawn(g))
    BY DEF Respawn, m, k
<1> HIDE DEF h
<1> QED BY <1>3, <1>4, <1>5, <1>6, Opponents

-----------------------------------------------------------------------------
\* One tick.

LEMMA TickBoard ==
    ASSUME NEW g, NEW inputs \in [Players -> Pads], PlayInv(g)
    PROVE  \E claim \in [Players -> SUBSET Pos], dead \in SUBSET Players, walls \in SUBSET Pos :
              BoardTick(g, PlayTick(g, inputs), claim, dead, walls)
<1> DEFINE dir     == [p \in Players |-> read_direction(inputs[p])]
           pressed == [p \in Players |-> "bomb" \in inputs[p] /\ ~g.prev_bomb[p]]
           walked  == Capture(Advance(g), Arrived(g))
           blown   == RunBombs(PlaceBombs(StartMoves(walked, dir), pressed))
           killed  == KillPlayers(blown)
           burnt   == RunExplosions(killed)
           judged  == Verdict(Respawn(burnt))
           r       == PlayTick(g, inputs)
           claim   == [p \in Players |-> Land(walked, p) \ Land(g, p)]
           dead    == {p \in Players : blown.players[p].alive /\ ~killed.players[p].alive}
           walls   == {c \in Pos : killed.tiles[c] = "SOFT_WALL" /\ burnt.tiles[c] # "SOFT_WALL"}
<1>1. /\ walked \in GameStates /\ Won(g, walked)
      /\ \A p \in Players : walked.players[p].alive = g.players[p].alive
      /\ \A c \in Pos : \/ walked.tiles[c] = g.tiles[c]
                        \/ /\ tile_is_enterable(g.tiles[c])
                           /\ \E p \in Players : walked.tiles[c] = player_tile_id(p)
    BY WalkedTick, WalkedBoard DEF PlayInv
<1>2. /\ blown \in GameStates /\ blown.tiles = walked.tiles
      /\ \A p \in Players : blown.players[p].alive = walked.players[p].alive
  <2> HIDE DEF walked, dir, pressed
  <2> QED BY <1>1, ArmedBoard
<1>3. r.tiles = judged.tiles /\ r.players = judged.players
  <2>1. judged \in GameStates
    <3> HIDE DEF blown
    <3> QED BY <1>2, KillType, RunExplosionsType, RespawnType, VerdictType
  <2>2. \E s, t : r = [judged EXCEPT !.sounds = s, !.prev_bomb = t]
      BY DEF PlayTick
  <2> HIDE DEF judged, r
  <2> QED BY <2>1, <2>2 DEF GameStates
<1> HIDE DEF walked, blown, r
<1>4. /\ killed \in GameStates
      /\ \A c \in Pos : killed.tiles[c] = IF \E p \in dead : blown.tiles[c] = player_tile_id(p)
                                          THEN "BLUE" ELSE blown.tiles[c]
    BY <1>2, KillType, KilledBoard
<1> HIDE DEF killed
<1>5. /\ burnt \in GameStates /\ burnt.players = killed.players
      /\ \A c \in Pos : \/ burnt.tiles[c] = killed.tiles[c]
                        \/ killed.tiles[c] = "SOFT_WALL" /\ burnt.tiles[c] = "BLUE"
    BY <1>4, RunExplosionsType, BurntBoard
<1> HIDE DEF burnt
<1>6. /\ judged.tiles = burnt.tiles
      /\ \A p \in Players : burnt.players[p].alive => judged.players[p].alive
    BY <1>5, JudgedBoard
<1> HIDE DEF judged
<1>7. /\ claim[0] = Land(walked, 0) \ Land(g, 0) /\ claim[1] = Land(walked, 1) \ Land(g, 1)
      /\ claim[0] \cap claim[1] = {}
  <2>1. claim[0] = Land(walked, 0) \ Land(g, 0) /\ claim[1] = Land(walked, 1) \ Land(g, 1)
      BY Opponents
  <2> QED BY <2>1 DEF Land, player_tile_id
<1>8. ASSUME NEW p \in Players
      PROVE  /\ \A c \in claim[p] : c \in Pos /\ tile_is_enterable(g.tiles[c])
             /\ claim[p] # {} => g.players[p].alive /\ \E c \in Pos : claim[p] = {c}
  <2>1. \A c \in claim[p] : c \in Pos /\ tile_is_enterable(g.tiles[c])
      BY <1>1 DEF Land
  <2>2. \A c \in claim[p] : g.players[p].target = c /\ walked.players[p].alive
      BY <1>1 DEF Won
  <2> QED BY <1>1, <2>1, <2>2
<1>9. ASSUME NEW c \in Pos
      PROVE  LET w == IF c \in claim[0] THEN "YELLOW" ELSE IF c \in claim[1] THEN "PINK" ELSE g.tiles[c]
             IN  r.tiles[c] = IF c \in walls \/ \E p \in dead : w = player_tile_id(p) THEN "BLUE" ELSE w
  <2>1. walked.tiles[c] = IF c \in claim[0] THEN "YELLOW"
                          ELSE IF c \in claim[1] THEN "PINK" ELSE g.tiles[c]
    <3>1. player_tile_id(0) = "YELLOW" /\ player_tile_id(1) = "PINK"
        BY DEF player_tile_id
    <3>2. /\ c \in claim[0] <=> walked.tiles[c] = "YELLOW" /\ g.tiles[c] # "YELLOW"
          /\ c \in claim[1] <=> walked.tiles[c] = "PINK" /\ g.tiles[c] # "PINK"
        BY <1>7, <3>1 DEF Land
    <3> HIDE DEF claim
    <3> QED BY <1>1, <3>1, <3>2, Opponents
  <2>2. r.tiles[c] = burnt.tiles[c]
      BY <1>3, <1>6
  <2>3. r.tiles[c] = IF c \in walls THEN "BLUE" ELSE killed.tiles[c]
      BY <1>5, <2>2
  <2> HIDE DEF dead, walls, claim
  <2> QED BY <1>2, <1>4, <2>1, <2>3
<1>10. dead \subseteq {p \in Players : g.players[p].alive}
    BY <1>1, <1>2
<1>11. walls \subseteq {c \in Pos : g.tiles[c] = "SOFT_WALL"}
    BY <1>1, <1>2, <1>4 DEF player_tile_id
<1>12. \A p \in Players : g.players[p].alive /\ p \notin dead => r.players[p].alive
    BY <1>1, <1>2, <1>3, <1>5, <1>6
<1>13. /\ claim \in [Players -> SUBSET Pos] /\ dead \in SUBSET Players /\ walls \in SUBSET Pos
    BY DEF Land
<1> HIDE DEF claim, dead, walls
<1>14. BoardTick(g, r, claim, dead, walls)
    BY <1>7, <1>8, <1>9, <1>10, <1>11, <1>12 DEF BoardTick
<1> QED BY <1>13, <1>14 DEF r

-----------------------------------------------------------------------------
\* The ground.

\* The tiles of BoardTick: none becomes ground, and no ground becomes a tile.
LEMMA TickGrounded ==
    ASSUME NEW g \in GameStates, NEW h, Grounded(g),
           NEW claim, NEW dead, NEW walls, BoardTick(g, h, claim, dead, walls)
    PROVE  Grounded(h)
<1> SUFFICES ASSUME NEW c \in Pos
             PROVE  h.tiles[c] \in {"EMPTY", "HARD_WALL"} <=> g.tiles[c] \in {"EMPTY", "HARD_WALL"}
    BY DEF Grounded
<1> DEFINE w == IF c \in claim[0] THEN "YELLOW" ELSE IF c \in claim[1] THEN "PINK" ELSE g.tiles[c]
<1>1. h.tiles[c] = IF c \in walls \/ \E p \in dead : w = player_tile_id(p) THEN "BLUE" ELSE w
    BY DEF BoardTick
<1>2. c \in claim[0] \/ c \in claim[1] => g.tiles[c] \in {"BLUE", "YELLOW", "PINK"}
    BY Opponents DEF BoardTick, tile_is_enterable
<1>3. c \in walls => g.tiles[c] = "SOFT_WALL"
    BY DEF BoardTick
<1>4. \A p : player_tile_id(p) \in {"YELLOW", "PINK"}
    BY DEF player_tile_id
<1> QED BY <1>1, <1>2, <1>3, <1>4

LEMMA ResetGrounded == Grounded(ResetGame)
BY MapAssumption DEF Grounded, ResetGame, Ownable

\* The ground is where it was in initial_map, at every step.
THEOREM GroundStands == Spec => []Grounded(game)
<1>1. Init => Grounded(game)
    BY ResetGrounded DEF Init
<1>2. PlayInv(game) /\ Grounded(game) /\ [Next]_vars => Grounded(game)'
  <2> SUFFICES ASSUME PlayInv(game), Grounded(game), [Next]_vars PROVE Grounded(game')
      OBVIOUS
  <2>1. ASSUME NEW inputs \in [Players -> Pads], Restart(inputs) PROVE Grounded(game')
      BY <2>1, ResetGrounded DEF Restart
  <2>2. ASSUME NEW inputs \in [Players -> Pads], GameOverTick(inputs) PROVE Grounded(game')
    <3>1. game'.tiles = game.tiles
        BY <2>2 DEF GameOverTick, PlayInv, GameStates
    <3> QED BY <3>1 DEF Grounded
  <2>3. ASSUME NEW inputs \in [Players -> Pads], Play(inputs) PROVE Grounded(game')
      BY <2>3, TickBoard, TickGrounded DEF Play, PlayInv
  <2>4. CASE UNCHANGED vars
      BY <2>4 DEF vars
  <2> QED BY <2>1, <2>2, <2>3, <2>4 DEF Next, game_step
<1> QED BY <1>1, <1>2, PlayInvariant, PTL DEF Spec

-----------------------------------------------------------------------------
\* The mapping: what a game looks like to Match.

Owners(g) == [c \in Ownable |-> OwnerOf(g.tiles[c])]
Living(g) == {p \in Players : g.players[p].alive}

\* The owner of a tile that can be owned tells its colour.
LEMMA OwnersTell ==
    ASSUME NEW g, Grounded(g), g \in GameStates, NEW c \in Ownable
    PROVE  /\ c \in Pos /\ g.tiles[c] \in {"BLUE", "YELLOW", "PINK", "SOFT_WALL"}
           /\ \A p \in Players : OwnerOf(g.tiles[c]) = p <=> g.tiles[c] = player_tile_id(p)
           /\ OwnerOf(g.tiles[c]) = -2 <=> g.tiles[c] = "SOFT_WALL"
           /\ OwnerOf(g.tiles[c]) = -1 <=> g.tiles[c] = "BLUE"
<1>1. c \in Pos /\ g.tiles[c] \in {"BLUE", "YELLOW", "PINK", "SOFT_WALL"}
    BY DEF Ownable, Grounded, GameStates, TileIds
<1>2. OwnerOf("BLUE") = -1 /\ OwnerOf("YELLOW") = 0 /\ OwnerOf("PINK") = 1 /\ OwnerOf("SOFT_WALL") = -2
    BY DEF OwnerOf, player_tile_id
<1> QED BY <1>1, <1>2, Opponents DEF player_tile_id

\* Match counts what the engine scores.
LEMMA HoldingIsLand ==
    ASSUME NEW g, Grounded(g), g \in GameStates, NEW p \in Players
    PROVE  {t \in Ownable : Owners(g)[t] = p} = Land(g, p)
<1>1. \A t \in Ownable : t \in Pos /\ (Owners(g)[t] = p <=> g.tiles[t] = player_tile_id(p))
    BY OwnersTell DEF Owners
<1>2. \A t \in Pos : g.tiles[t] = player_tile_id(p) => t \in Ownable
    BY DEF Grounded, player_tile_id
<1> QED BY <1>1, <1>2 DEF Land

LEMMA ResetStarts ==
    /\ Owners(ResetGame) = [t \in Ownable |-> IF t \in SoftAtStart THEN -2 ELSE -1]
    /\ Living(ResetGame) = Players
    /\ ResetGame.game_over = FALSE /\ ResetGame.winner = -1
<1>1. \A t \in Ownable : OwnerOf(ResetGame.tiles[t]) = IF t \in SoftAtStart THEN -2 ELSE -1
  <2>1. \A t \in Ownable : ResetGame.tiles[t] = IF t \in SoftAtStart THEN "SOFT_WALL" ELSE "BLUE"
      BY DEF ResetGame, Ownable, SoftAtStart
  <2> QED BY <2>1 DEF OwnerOf, player_tile_id
<1> QED BY <1>1 DEF Owners, Living, ResetGame, AtSpawn

\* BoardTick, told in owners.
LEMMA TickOwners ==
    ASSUME NEW g \in GameStates, NEW h, Grounded(g),
           NEW claim, NEW dead \in SUBSET Players, NEW walls, BoardTick(g, h, claim, dead, walls)
    PROVE  LET o(t) == IF t \in claim[0] THEN 0 ELSE IF t \in claim[1] THEN 1 ELSE Owners(g)[t]
           IN  Owners(h) = [t \in Ownable |-> IF t \in walls \/ o(t) \in dead THEN -1 ELSE o(t)]
<1> DEFINE o(t) == IF t \in claim[0] THEN 0 ELSE IF t \in claim[1] THEN 1 ELSE Owners(g)[t]
<1> SUFFICES ASSUME NEW t \in Ownable
             PROVE  OwnerOf(h.tiles[t]) = IF t \in walls \/ o(t) \in dead THEN -1 ELSE o(t)
    BY DEF Owners
<1> DEFINE w == IF t \in claim[0] THEN "YELLOW" ELSE IF t \in claim[1] THEN "PINK" ELSE g.tiles[t]
<1>1. t \in Pos /\ g.tiles[t] \in {"BLUE", "YELLOW", "PINK", "SOFT_WALL"}
    BY OwnersTell
<1>2. /\ OwnerOf("BLUE") = -1 /\ OwnerOf("YELLOW") = 0 /\ OwnerOf("PINK") = 1 /\ OwnerOf("SOFT_WALL") = -2
      /\ player_tile_id(0) = "YELLOW" /\ player_tile_id(1) = "PINK"
    BY DEF OwnerOf, player_tile_id
<1>3. o(t) = OwnerOf(w) /\ w \in {"BLUE", "YELLOW", "PINK", "SOFT_WALL"}
    BY <1>1, <1>2 DEF Owners
<1>4. h.tiles[t] = IF t \in walls \/ \E p \in dead : w = player_tile_id(p) THEN "BLUE" ELSE w
    BY <1>1 DEF BoardTick
<1> HIDE DEF o, w
<1>5. (\E p \in dead : w = player_tile_id(p)) <=> o(t) \in dead
    BY <1>2, <1>3, Opponents
<1> QED BY <1>2, <1>3, <1>4, <1>5

-----------------------------------------------------------------------------
\* Every step of the engine is a step of Match.

THEOREM GameImplementsMatch == Spec => ImplementsMatch
<1>1. Init => M!Start
  <2> SUFFICES ASSUME game = ResetGame PROVE M!Start
      BY DEF Init
  <2> QED BY ResetStarts DEF M!Start, M!Players, M!Nobody, M!Closed, Owners, Living, Players
<1>2. PlayInv(game) /\ PlayInv(game)' /\ Grounded(game) /\ Grounded(game)' /\ [Next]_vars
        => [M!Tick \/ M!Restart]_(M!matchVars)
  <2> SUFFICES ASSUME PlayInv(game), PlayInv(game'), Grounded(game), Grounded(game'), [Next]_vars
               PROVE  [M!Tick \/ M!Restart]_(M!matchVars)
      OBVIOUS
  <2>1. ASSUME NEW inputs \in [Players -> Pads], Restart(inputs) PROVE M!Restart
    <3>1. game' = ResetGame
        BY <2>1 DEF Restart
    <3> QED BY <3>1, ResetStarts DEF M!Restart, M!Players, M!Nobody, M!Closed, Owners, Living, Players
  <2>2. ASSUME NEW inputs \in [Players -> Pads], GameOverTick(inputs) PROVE UNCHANGED M!matchVars
    <3>1. /\ game'.tiles = game.tiles /\ game'.players = game.players
          /\ game'.game_over = game.game_over /\ game'.winner = game.winner
        BY <2>2 DEF GameOverTick, PlayInv, GameStates
    <3> QED BY <3>1 DEF M!matchVars
  <2>3. ASSUME NEW inputs \in [Players -> Pads], Play(inputs) PROVE M!Tick
    <3>1. ~game.game_over /\ game' = PlayTick(game, inputs)
        BY <2>3 DEF Play
    <3>2. PICK claim \in [Players -> SUBSET Pos], dead \in SUBSET Players, walls \in SUBSET Pos :
                  BoardTick(game, game', claim, dead, walls)
        BY <3>1, TickBoard
    <3> DEFINE opened == walls \cap Ownable
    <3>3. claim[0] \in M!Claims(0) /\ claim[1] \in M!Claims(1)
      <4>1. ASSUME NEW p \in Players PROVE claim[p] \in M!Claims(p)
        <5>1. CASE claim[p] = {}
            BY <5>1 DEF M!Claims
        <5>2. CASE claim[p] # {}
          <6>1. game.players[p].alive
              BY <3>2, <5>2 DEF BoardTick
          <6>2. PICK c \in Pos : claim[p] = {c}
              BY <3>2, <5>2 DEF BoardTick
          <6>3. tile_is_enterable(game.tiles[c])
              BY <3>2, <6>2 DEF BoardTick
          <6>4. c \in Ownable /\ OwnerOf(game.tiles[c]) # -2
              BY <6>3, OwnersTell DEF Grounded, tile_is_enterable, PlayInv
          <6> QED BY <6>1, <6>2, <6>4 DEF M!Claims, M!Closed
        <5> QED BY <5>1, <5>2
      <4> QED BY <4>1, Opponents
    <3>4. dead \in SUBSET {p \in Players : game.players[p].alive}
        BY <3>2 DEF BoardTick
    <3>5. opened \in SUBSET {t \in Ownable : OwnerOf(game.tiles[t]) = M!Closed}
        BY <3>2, OwnersTell DEF BoardTick, M!Closed, PlayInv
    <3>6. Owners(game') = M!Opened(M!Vacated(M!Claimed(claim[0], claim[1]), dead), opened)
      <4> DEFINE o(t) == IF t \in claim[0] THEN 0 ELSE IF t \in claim[1] THEN 1 ELSE Owners(game)[t]
                 k == M!Claimed(claim[0], claim[1])
                 v == M!Vacated(k, dead)
      <4>1. Owners(game') = [t \in Ownable |-> IF t \in walls \/ o(t) \in dead THEN -1 ELSE o(t)]
          BY <3>2, TickOwners DEF PlayInv
      <4>2. k = [t \in Ownable |-> o(t)]
          BY DEF M!Claimed, Owners
      <4> HIDE DEF o, k
      <4>3. v = [t \in Ownable |-> IF o(t) \in dead THEN -1 ELSE o(t)]
          BY <4>2 DEF M!Vacated, M!Nobody
      <4> HIDE DEF v
      <4>4. M!Opened(v, opened) = [t \in Ownable |-> IF t \in walls THEN -1 ELSE IF o(t) \in dead THEN -1 ELSE o(t)]
          BY <4>3 DEF M!Opened, M!Nobody
      <4> QED BY <4>1, <4>4 DEF v, k
    <3>7. /\ Living(game') \in SUBSET Players
          /\ Living(game) \ dead \subseteq Living(game')
        BY <3>2 DEF BoardTick, Living
    <3>8. \A p \in Players : M!Holding(p)' = game'.players[p].score
      <4>1. \A p \in Players : M!Holding(p)' = Cardinality({t \in Ownable : Owners(game')[t] = p})
          BY DEF M!Holding, M!Cardinality, Cardinality, Owners
      <4> QED BY <4>1, HoldingIsLand DEF PlayInv, Owning
    <3>9. game'.game_over = (\E p \in M!Players : M!Holding(p)' >= WIN_SCORE)
      <4>1. game'.game_over \in BOOLEAN
          BY DEF PlayInv, GameStates
      <4>2. game'.game_over <=> \E p \in Players : game'.players[p].score >= WIN_SCORE
          BY DEF PlayInv, Judged
      <4> QED BY <3>8, <4>1, <4>2 DEF M!Players, Players
    <3>10. game'.winner = IF game'.game_over THEN M!Leader' ELSE M!Nobody
      <4> DEFINE s0 == game'.players[0].score
                 s1 == game'.players[1].score
      <4>1. M!Leader' = IF s0 > s1 THEN 0 ELSE IF s1 > s0 THEN 1 ELSE -1
          BY <3>8, Opponents DEF M!Leader, M!Nobody
      <4>2. s0 \in Nat /\ s1 \in Nat /\ game'.winner \in {-1, 0, 1}
          BY Opponents DEF PlayInv, GameStates, PlayerStates
      <4>3. /\ game'.winner = 0 => game'.game_over /\ s0 > s1
            /\ game'.winner = 1 => game'.game_over /\ s1 > s0
            /\ game'.game_over /\ game'.winner = -1 => s0 = s1
          BY Opponents DEF PlayInv, Judged
      <4> HIDE DEF s0, s1
      <4> QED BY <4>1, <4>2, <4>3 DEF M!Nobody
    <3> QED BY <3>1, <3>2, <3>3, <3>4, <3>5, <3>6, <3>7, <3>9, <3>10 DEF M!Tick, Owners, Living, BoardTick, M!Players, Players
  <2>4. CASE UNCHANGED vars
      BY <2>4 DEF vars, M!matchVars
  <2> QED BY <2>1, <2>2, <2>3, <2>4 DEF Next, game_step
<1> QED BY <1>1, <1>2, PlayInvariant, GroundStands, PTL DEF ImplementsMatch, M!Spec, Spec

=============================================================================
