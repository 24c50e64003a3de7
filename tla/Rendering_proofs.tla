-------------------------- MODULE Rendering_proofs --------------------------
(***************************************************************************)
(* Theorems about the picture of GridGame on the screen, for every arena,  *)
(* tile size, speed, timer and controller: what hides what, and that       *)
(* nothing is missing.                                                     *)
(***************************************************************************)
EXTENDS Rendering, GridGameRefinement_proofs, SequenceTheorems, WellFoundedInduction

-----------------------------------------------------------------------------
\* Where things are: players, bombs and explosions keep to the tiles that can
\* be owned, and so away from the banner.

Placed(g) ==
    /\ \A p \in Players : \A c \in Pos : Occupies(g.players[p], c) => c \in Ownable
    /\ \A i \in Players : /\ g.bombs[i].active => g.bombs[i].pos \in Ownable
                          /\ g.explosions[i].active => g.explosions[i].center \in Ownable

\* Nothing of h is on a tile where nothing was in g, except on these tiles.
LEMMA PlacedStep ==
    ASSUME NEW g, NEW h, Placed(g),
           \A p \in Players : \A c \in Pos :
                Occupies(h.players[p], c) => Occupies(g.players[p], c) \/ c \in Ownable,
           \A i \in Players : h.bombs[i].active =>
                (g.bombs[i].active /\ h.bombs[i].pos = g.bombs[i].pos) \/ h.bombs[i].pos \in Ownable,
           \A i \in Players : h.explosions[i].active =>
                \/ g.explosions[i].active /\ h.explosions[i].center = g.explosions[i].center
                \/ h.explosions[i].center \in Ownable
    PROVE  Placed(h)
BY DEF Placed

LEMMA AdvancePlaced == ASSUME NEW g \in GameStates, Placed(g) PROVE Placed(Advance(g))
<1> DEFINE h == Advance(g)
<1>1. /\ h.bombs = g.bombs /\ h.explosions = g.explosions
      /\ \A p \in Players : h.players[p] = IF g.players[p].alive THEN advance_player_motion(g.players[p])
                                                                 ELSE g.players[p]
    BY DEF Advance, GameStates
<1>2. \A p \in Players : g.players[p] \in PlayerStates
    BY DEF GameStates
<1>3. \A p \in Players : \A c : Occupies(h.players[p], c) => Occupies(g.players[p], c)
  <2> SUFFICES ASSUME NEW p \in Players, NEW c, Occupies(h.players[p], c)
               PROVE  Occupies(g.players[p], c)
      OBVIOUS
  <2>1. Occupies(advance_player_motion(g.players[p]), c) => Occupies(g.players[p], c)
      BY <1>2, MotionBody
  <2> QED BY <1>1, <2>1
<1> QED BY <1>1, <1>3, PlacedStep

LEMMA CapturePlaced ==
    ASSUME NEW g \in GameStates, NEW p \in Players, Placed(g)
    PROVE  Placed(apply_tile_capture(g, p))
<1> DEFINE h == apply_tile_capture(g, p)
<1>1. /\ h.bombs = g.bombs /\ h.explosions = g.explosions
      /\ \A j \in Players : SameBody(g.players[j], h.players[j])
    BY CaptureOneEffect
<1> HIDE DEF h
<1>2. \A j \in Players : \A c : Occupies(h.players[j], c) => Occupies(g.players[j], c)
    BY <1>1 DEF SameBody, Occupies
<1>3. Placed(h)
    BY <1>1, <1>2, PlacedStep
<1> QED BY <1>3 DEF h

\* A move starts only to a tile that can be entered, and these can be owned.
LEMMA MovesPlaced ==
    ASSUME NEW g \in GameStates, NEW dir \in [Players -> Directions], Placed(g), Grounded(g)
    PROVE  Placed(StartMoves(g, dir))
<1> DEFINE to(p) == Neighbour(g.players[p].pos, dir[p])
           ok(p) == move_candidate(g, p, dir[p])
           clash == ok(0) /\ ok(1) /\ to(0) = to(1)
           h == StartMoves(g, dir)
<1>1. /\ h.bombs = g.bombs /\ h.explosions = g.explosions
      /\ \A p \in Players : h.players[p] = IF ok(p) /\ ~clash
                                           THEN [g.players[p] EXCEPT !.moving = TRUE, !.target = to(p)]
                                           ELSE g.players[p]
    BY DEF StartMoves, GameStates
<1>2. \A p \in Players : ok(p) => to(p) \in Pos /\ tile_is_enterable(g.tiles[to(p)])
    BY DEF move_candidate, can_enter_tile
<1>3. \A p \in Players : ok(p) => to(p) \in Ownable
    BY <1>2 DEF Grounded, tile_is_enterable
<1>4. \A p \in Players : g.players[p] \in PlayerStates
    BY DEF GameStates
<1>5. ASSUME NEW p \in Players
      PROVE  \/ h.players[p] = g.players[p]
             \/ /\ ok(p)
                /\ h.players[p].alive = g.players[p].alive
                /\ h.players[p].pos = g.players[p].pos /\ h.players[p].target = to(p)
  <2> HIDE DEF ok, clash, to, h
  <2> QED BY <1>1, <1>4 DEF PlayerStates
<1> HIDE DEF ok, clash, to, h
<1>6. \A p \in Players : \A c : Occupies(h.players[p], c) => Occupies(g.players[p], c) \/ c \in Ownable
    BY <1>3, <1>5 DEF Occupies
<1>7. Placed(h)
    BY <1>1, <1>6, PlacedStep
<1> QED BY <1>7 DEF h

\* A bomb lies where its owner stood.
LEMMA PlantPlaced ==
    ASSUME NEW g \in GameStates, NEW p \in Players, NEW pressed, Placed(g)
    PROVE  Placed(place_bomb(g, p, pressed))
<1> DEFINE h == place_bomb(g, p, pressed)
           pl == g.players[p]
<1>1. CASE h = g
    BY <1>1
<1>2. CASE h # g
  <2>1. /\ pl.alive
        /\ h = [g EXCEPT !.bombs[p] = [active |-> TRUE, pos |-> pl.pos, timer |-> BOMB_TIMER_TICKS]]
      BY <1>2 DEF place_bomb
  <2>2. pl.pos \in Pos
      BY DEF GameStates, PlayerStates
  <2>3. pl.pos \in Ownable
      BY <2>1, <2>2 DEF Placed, Occupies
  <2>4. /\ h.players = g.players /\ h.explosions = g.explosions /\ h.bombs[p].pos = pl.pos
        /\ \A j \in Players : j # p => h.bombs[j] = g.bombs[j]
      BY <2>1 DEF GameStates
  <2> HIDE DEF h, pl
  <2>5. Placed(h)
      BY <2>3, <2>4, PlacedStep
  <2> QED BY <2>5 DEF h
<1> QED BY <1>1, <1>2

\* An explosion burns where its bomb lay.
LEMMA BlowPlaced ==
    ASSUME NEW g \in GameStates, NEW i \in Players, Placed(g)
    PROVE  Placed(run_bomb(g, i))
<1> DEFINE left == IF g.bombs[i].timer > 0 THEN g.bombs[i].timer - 1 ELSE 0
           h == run_bomb(g, i)
<1>1. h.players = g.players /\ FewerBombs(g, h)
    BY RunBombEffect
<1>2. CASE g.bombs[i].active /\ left = 0
  <2>1. h.explosions = [g.explosions EXCEPT ![i] =
            [active |-> TRUE, center |-> g.bombs[i].pos, timer |-> EXPLOSION_TIMER_TICKS]]
      BY <1>2 DEF run_bomb, create_explosion_from_bomb, GameStates
  <2>2. h.explosions[i].center = g.bombs[i].pos /\ \A j \in Players : j # i => h.explosions[j] = g.explosions[j]
      BY <2>1 DEF GameStates
  <2>3. g.bombs[i].pos \in Ownable
      BY <1>2 DEF Placed
  <2> HIDE DEF h, left
  <2>4. Placed(h)
      BY <1>1, <2>2, <2>3, PlacedStep DEF FewerBombs
  <2> QED BY <2>4 DEF h
<1>3. CASE ~(g.bombs[i].active /\ left = 0)
  <2>1. h.explosions = g.explosions
      BY <1>3 DEF run_bomb, GameStates
  <2> HIDE DEF h, left
  <2>2. Placed(h)
      BY <1>1, <2>1, PlacedStep DEF FewerBombs
  <2> QED BY <2>2 DEF h
<1> QED BY <1>2, <1>3

LEMMA KillPlaced ==
    ASSUME NEW g \in GameStates, NEW p \in Players, Placed(g)
    PROVE  Placed(kill_player(g, p))
<1> DEFINE h == kill_player(g, p)
<1>1. /\ h.bombs = g.bombs /\ h.explosions = g.explosions /\ h.players[1 - p] = g.players[1 - p]
      /\ h = g \/ ~h.players[p].alive
    BY KillOneEffect
<1>2. Players = {p, 1 - p}
    BY DEF Players
<1> HIDE DEF h
<1>3. \A j \in Players : \A c : Occupies(h.players[j], c) => Occupies(g.players[j], c)
    BY <1>1, <1>2 DEF Occupies
<1>4. Placed(h)
    BY <1>1, <1>3, PlacedStep
<1> QED BY <1>4 DEF h

LEMMA BurnPlaced ==
    ASSUME NEW g \in GameStates, NEW e \in Players, Placed(g)
    PROVE  Placed(run_explosion(g, e))
<1> DEFINE h == run_explosion(g, e)
<1>1. /\ h.players = g.players /\ h.bombs = g.bombs
      /\ \A j \in Players : /\ h.explosions[j].active => g.explosions[j].active
                            /\ h.explosions[j].center = g.explosions[j].center
    BY RunExplosionEffect
<1> HIDE DEF h
<1>2. Placed(h)
    BY <1>1, PlacedStep
<1> QED BY <1>2 DEF h

LEMMA RespawnPlaced ==
    ASSUME NEW g \in GameStates, NEW p \in Players, Placed(g)
    PROVE  Placed(run_respawn(g, p))
<1> DEFINE h == run_respawn(g, p)
<1>1. /\ h.bombs = g.bombs /\ h.explosions = g.explosions /\ h.players[1 - p] = g.players[1 - p]
      /\ h.players[p] = g.players[p] \/ h.players[p] = AtSpawn(p, g.players[p].score)
    BY RespawnOneEffect
<1>2. Players = {p, 1 - p} /\ spawn[p] \in Ownable
    BY SpawnAssumption DEF Players, Ownable
<1> HIDE DEF h
<1>3. \A j \in Players : \A c : Occupies(h.players[j], c) => Occupies(g.players[j], c) \/ c \in Ownable
    BY <1>1, <1>2 DEF Occupies, AtSpawn
<1>4. Placed(h)
    BY <1>1, <1>3, PlacedStep
<1> QED BY <1>4 DEF h

LEMMA TickPlaced ==
    ASSUME NEW g, NEW inputs \in [Players -> Pads], g \in GameStates, Grounded(g), Placed(g)
    PROVE  Placed(PlayTick(g, inputs))
<1> DEFINE dir     == [p \in Players |-> read_direction(inputs[p])]
           pressed == [p \in Players |-> "bomb" \in inputs[p] /\ ~g.prev_bomb[p]]
           adv     == Advance(g)
           A       == Arrived(g)
           first   == IF 0 \in A THEN apply_tile_capture(adv, 0) ELSE adv
           walked  == Capture(adv, A)
           moved   == StartMoves(walked, dir)
           armed   == PlaceBombs(moved, pressed)
           blown   == RunBombs(armed)
           killed  == KillPlayers(blown)
           burnt   == RunExplosions(killed)
           back    == Respawn(burnt)
           judged  == Verdict(back)
           r       == PlayTick(g, inputs)
<1>0. 0 \in Players /\ 1 \in Players
    BY Opponents
<1>1. adv \in GameStates /\ Placed(adv) /\ SameBoard(g, adv)
    BY AdvanceType, AdvancePlaced, AdvanceFrame
<1>2. A \in SUBSET Players
    BY DEF Arrived
<1>3. dir \in [Players -> Directions]
    BY DEF read_direction, Directions
<1> HIDE DEF adv, A, dir, pressed
<1>4. first \in GameStates /\ Placed(first)
    BY <1>0, <1>1, CaptureOneType, CapturePlaced
<1>5. walked = IF 1 \in A THEN apply_tile_capture(first, 1) ELSE first
    BY DEF Capture
<1>6. walked \in GameStates /\ Recoloured(adv, walked)
    BY <1>1, <1>2, CaptureType, CaptureFrame
<1> HIDE DEF first
<1>7. Placed(walked)
    BY <1>0, <1>4, <1>5, CapturePlaced
<1> HIDE DEF walked
<1>8. Grounded(walked)
  <2>1. \A c \in Pos : \/ walked.tiles[c] = g.tiles[c]
                       \/ tile_is_enterable(g.tiles[c]) /\ tile_is_enterable(walked.tiles[c])
      BY <1>1, <1>6 DEF SameBoard, Recoloured, Repainted
  <2> QED BY <2>1 DEF Grounded, tile_is_enterable
<1>9. moved \in GameStates /\ Placed(moved)
    BY <1>3, <1>6, <1>7, <1>8, StartMovesType, MovesPlaced
<1> HIDE DEF moved
<1>10. armed \in GameStates /\ Placed(armed)
  <2>1. place_bomb(moved, 0, pressed[0]) \in GameStates /\ Placed(place_bomb(moved, 0, pressed[0]))
      BY <1>0, <1>9, PlaceOneType, PlantPlaced
  <2> QED BY <1>0, <2>1, PlaceOneType, PlantPlaced DEF PlaceBombs
<1> HIDE DEF armed
<1>11. blown \in GameStates /\ Placed(blown)
  <2>1. run_bomb(armed, 0) \in GameStates /\ Placed(run_bomb(armed, 0))
      BY <1>0, <1>10, RunBombType, BlowPlaced
  <2> QED BY <1>0, <2>1, RunBombType, BlowPlaced DEF RunBombs
<1> HIDE DEF blown
<1>12. killed \in GameStates /\ Placed(killed)
  <2>1. kill_player(blown, 0) \in GameStates /\ Placed(kill_player(blown, 0))
      BY <1>0, <1>11, KillOneType, KillPlaced
  <2> QED BY <1>0, <2>1, KillOneType, KillPlaced DEF KillPlayers
<1> HIDE DEF killed
<1>13. burnt \in GameStates /\ Placed(burnt)
  <2>1. run_explosion(killed, 0) \in GameStates /\ Placed(run_explosion(killed, 0))
      BY <1>0, <1>12, RunExplosionType, BurnPlaced
  <2> QED BY <1>0, <2>1, RunExplosionType, BurnPlaced DEF RunExplosions
<1> HIDE DEF burnt
<1>14. back \in GameStates /\ Placed(back)
  <2>1. run_respawn(burnt, 0) \in GameStates /\ Placed(run_respawn(burnt, 0))
      BY <1>0, <1>13, RespawnOneType, RespawnPlaced
  <2> QED BY <1>0, <2>1, RespawnOneType, RespawnPlaced DEF Respawn
<1> HIDE DEF back
<1>15. judged.players = back.players /\ judged.bombs = back.bombs /\ judged.explosions = back.explosions
    BY <1>14 DEF Verdict, GameStates
<1>16. judged \in GameStates
    BY <1>14, VerdictType
<1> HIDE DEF judged
<1>17. r.players = judged.players /\ r.bombs = judged.bombs /\ r.explosions = judged.explosions
  <2>1. \E s : r = [judged EXCEPT !.sounds = s, !.prev_bomb = BombDown(inputs)]
      BY DEF PlayTick, judged, back, burnt, killed, blown, armed, moved, walked, adv, A, dir, pressed
  <2> HIDE DEF r
  <2> QED BY <1>16, <2>1 DEF GameStates
<1> HIDE DEF r
<1>18. Placed(r)
    BY <1>14, <1>15, <1>17 DEF Placed
<1> QED BY <1>18 DEF r

\* Players, bombs and explosions keep to the tiles that can be owned.
THEOREM ThingsStayPlaced == Spec => []Placed(game)
<1>1. Placed(ResetGame)
  <2>1. \A p \in Players : spawn[p] \in Ownable
      BY SpawnAssumption DEF Ownable
  <2> QED BY <2>1 DEF Placed, ResetGame, AtSpawn, Occupies
<1>2. Init => Placed(game)
    BY <1>1 DEF Init
<1>3. PlayInv(game) /\ Grounded(game) /\ Placed(game) /\ [Next]_vars => Placed(game)'
  <2> SUFFICES ASSUME PlayInv(game), Grounded(game), Placed(game), [Next]_vars PROVE Placed(game')
      OBVIOUS
  <2>1. ASSUME NEW inputs \in [Players -> Pads], Restart(inputs) PROVE Placed(game')
      BY <1>1, <2>1 DEF Restart
  <2>2. ASSUME NEW inputs \in [Players -> Pads], GameOverTick(inputs) PROVE Placed(game')
    <3>1. game'.players = game.players /\ game'.bombs = game.bombs /\ game'.explosions = game.explosions
        BY <2>2 DEF GameOverTick, PlayInv, GameStates
    <3> QED BY <3>1 DEF Placed
  <2>3. ASSUME NEW inputs \in [Players -> Pads], Play(inputs) PROVE Placed(game')
      BY <2>3, TickPlaced DEF Play, PlayInv
  <2>4. CASE UNCHANGED vars
      BY <2>4 DEF vars
  <2> QED BY <2>1, <2>2, <2>3, <2>4 DEF Next, game_step
<1> QED BY <1>2, <1>3, PlayInvariant, GroundStands, PTL DEF Spec

-----------------------------------------------------------------------------
\* Loops that skip, and sequences put end to end.

\* s goes once over the finite set T.
Lists(s, T) ==
    /\ s \in Seq(T) /\ IsFiniteSet(T) /\ Len(s) = Cardinality(T)
    /\ \A x \in T : \E k \in 1..Len(s) : s[k] = x

LEMMA OnlyLists == ASSUME NEW x, NEW S PROVE Lists(Only(x, S), {x} \cap S)
<1>1. CASE x \in S
  <2>1. Only(x, S) = <<x>> /\ {x} \cap S = {x}
      BY <1>1 DEF Only
  <2>2. <<x>> \in Seq({x}) /\ Len(<<x>>) = 1 /\ <<x>>[1] = x
      OBVIOUS
  <2>3. IsFiniteSet({x}) /\ Cardinality({x}) = 1
      BY FS_Singleton
  <2>4. \A y \in {x} : \E k \in 1..Len(<<x>>) : <<x>>[k] = y
      BY <2>2
  <2> QED BY <2>1, <2>2, <2>3, <2>4 DEF Lists
<1>2. CASE x \notin S
  <2>1. Only(x, S) = << >> /\ {x} \cap S = {}
      BY <1>2 DEF Only
  <2>2. << >> \in Seq({}) /\ Len(<< >>) = 0
      BY EmptySeq
  <2>3. IsFiniteSet({}) /\ Cardinality({}) = 0
      BY FS_EmptySet
  <2> QED BY <2>1, <2>2, <2>3 DEF Lists
<1> QED BY <1>1, <1>2

LEMMA ConcatLists ==
    ASSUME NEW s, NEW T, NEW t, NEW U, Lists(s, T), Lists(t, U), T \cap U = {}
    PROVE  Lists(s \o t, T \cup U)
<1> DEFINE V == T \cup U
           r == s \o t
<1>1. s \in Seq(V) /\ t \in Seq(V)
    BY SeqMonotonic DEF Lists
<1>2. /\ r \in Seq(V) /\ Len(r) = Len(s) + Len(t)
      /\ \A i \in 1..Len(s) + Len(t) : r[i] = IF i <= Len(s) THEN s[i] ELSE t[i - Len(s)]
    BY <1>1, ConcatProperties
<1>3. IsFiniteSet(V) /\ Cardinality(V) = Cardinality(T) + Cardinality(U) - Cardinality(T \cap U)
    BY FS_Union DEF Lists
<1>4. Cardinality(T) \in Nat /\ Cardinality(U) \in Nat /\ Cardinality(T \cap U) = 0
    BY FS_CardinalityType, FS_EmptySet DEF Lists
<1>5. Len(r) = Cardinality(V) /\ Len(s) \in Nat /\ Len(t) \in Nat
    BY <1>2, <1>3, <1>4 DEF Lists
<1> HIDE DEF V, r
<1>6. ASSUME NEW x \in V PROVE \E k \in 1..Len(r) : r[k] = x
  <2>1. CASE x \in T
    <3>1. PICK k \in 1..Len(s) : s[k] = x
        BY <2>1 DEF Lists
    <3>2. k \in 1..Len(s) + Len(t) /\ k <= Len(s)
        BY <1>5
    <3> QED BY <1>2, <3>1, <3>2
  <2>2. CASE x \in U
    <3>1. PICK k \in 1..Len(t) : t[k] = x
        BY <2>2 DEF Lists
    <3>2. /\ k + Len(s) \in 1..Len(s) + Len(t) /\ ~(k + Len(s) <= Len(s))
          /\ k + Len(s) - Len(s) = k
        BY <1>5
    <3> QED BY <1>2, <3>1, <3>2
  <2> QED BY <2>1, <2>2 DEF V
<1>7. Lists(r, V)
    BY <1>2, <1>3, <1>5, <1>6 DEF Lists
<1> QED BY <1>7 DEF V, r

\* The indices below 2 that are in S.
LEMMA ListedLists == ASSUME NEW S \in SUBSET Players PROVE Lists(Listed(S), S)
<1>1. Lists(Only(0, S), {0} \cap S) /\ Lists(Only(1, S), {1} \cap S)
    BY OnlyLists
<1>2. ({0} \cap S) \cap ({1} \cap S) = {} /\ ({0} \cap S) \cup ({1} \cap S) = S
  <2>1. \A x \in S : x = 0 \/ x = 1
      BY DEF Players
  <2>2. 0 # 1
      OBVIOUS
  <2> QED BY <2>1, <2>2
<1>3. Lists(Only(0, S) \o Only(1, S), ({0} \cap S) \cup ({1} \cap S))
    BY <1>1, <1>2, ConcatLists
<1> QED BY <1>2, <1>3 DEF Listed

\* The five cells of a blast are distinct, and those in the map are listed.
LEMMA CellsListed ==
    ASSUME NEW c \in Pos
    PROVE  Lists(ExplosionCells(c), BlastCells(c) \cap Pos)
<1> DEFINE u == Neighbour(c, "up")
           d == Neighbour(c, "down")
           l == Neighbour(c, "left")
           r == Neighbour(c, "right")
           P2 == ({c} \cap Pos) \cup ({u} \cap Pos)
           P3 == P2 \cup ({d} \cap Pos)
           P4 == P3 \cup ({l} \cap Pos)
           P5 == P4 \cup ({r} \cap Pos)
<1>1. c = <<c[1], c[2]>> /\ c[1] \in Int /\ c[2] \in Int
    BY SizeAssumption DEF Pos
<1>2. /\ u = <<c[1] - 1, c[2]>> /\ d = <<c[1] + 1, c[2]>>
      /\ l = <<c[1], c[2] - 1>> /\ r = <<c[1], c[2] + 1>>
    BY <1>1 DEF Neighbour, direction_delta
<1>3. /\ c # u /\ c # d /\ c # l /\ c # r /\ u # d /\ u # l /\ u # r
      /\ d # l /\ d # r /\ l # r
    BY <1>1, <1>2
<1>4. P5 = BlastCells(c) \cap Pos
    BY DEF BlastCells
<1> HIDE DEF u, d, l, r
<1>5. Lists(Only(c, Pos) \o Only(u, Pos), P2)
    BY <1>3, OnlyLists, ConcatLists
<1>6. Lists(Only(c, Pos) \o Only(u, Pos) \o Only(d, Pos), P3)
    BY <1>3, <1>5, OnlyLists, ConcatLists
<1>7. Lists(Only(c, Pos) \o Only(u, Pos) \o Only(d, Pos) \o Only(l, Pos), P4)
    BY <1>3, <1>6, OnlyLists, ConcatLists
<1>8. Lists(Only(c, Pos) \o Only(u, Pos) \o Only(d, Pos) \o Only(l, Pos) \o Only(r, Pos), P5)
    BY <1>3, <1>7, OnlyLists, ConcatLists
<1> QED BY <1>4, <1>8 DEF ExplosionCells, u, d, l, r

\* A non-empty set of registers has a highest one.
LEMMA Highest ==
    ASSUME NEW n \in Nat, NEW S \in SUBSET (0..n), S # {}
    PROVE  \E top \in S : \A k \in S : k <= top
<1> DEFINE T == {n - k : k \in S}
           R == {ss \in Nat \X Nat : ss[1] < ss[2]}
<1>1. IsWellFoundedOn(R, Nat)
    BY NatLessThanWellFounded DEF OpToRel
<1>2. T \subseteq Nat /\ T # {}
  <2>1. ASSUME NEW k \in S PROVE n - k \in Nat
      OBVIOUS
  <2> QED BY <2>1
<1> HIDE DEF R, T
<1>3. PICK x \in T : \A y \in T : <<y, x>> \notin R
    BY <1>1, <1>2, WFMin
<1>4. \A y \in T : ~(y < x)
    BY <1>2, <1>3 DEF R
<1>5. PICK top \in S : x = n - top
    BY DEF T
<1>6. \A k \in S : n - k \in T
    BY DEF T
<1> QED BY <1>4, <1>5, <1>6

-----------------------------------------------------------------------------
\* What lies over what in a list of sprites: the later one.

Below(n) == {v \in Nat : v < n}
Sprites == [x : Below(1024), y : Below(512), id : {"player", "bomb", "blast", "banner"} \X Players]

Covers(sprite, px, py) ==
    /\ px >= sprite.x /\ px - sprite.x < TILE_SIZE
    /\ py >= sprite.y /\ py - sprite.y < TILE_SIZE

\* The pixel shows one of ids: a sprite of s covers it, and from there on
\* nothing else does.
Shown(s, px, py, ids) ==
    \E k \in 1..Len(s) :
        /\ Covers(s[k], px, py)
        /\ \A m \in 1..Len(s) : k <= m /\ Covers(s[m], px, py) => s[m].id \in ids

\* Nothing of s covers the pixel but what is in ids.
Clear(s, px, py, ids) ==
    \A m \in 1..Len(s) : Covers(s[m], px, py) => s[m].id \in ids

LEMMA ConcatIndices ==
    ASSUME NEW s \in Seq(Sprites), NEW t \in Seq(Sprites)
    PROVE  /\ s \o t \in Seq(Sprites) /\ Len(s) \in Nat /\ Len(t) \in Nat
           /\ Len(s \o t) = Len(s) + Len(t)
           /\ \A k \in 1..Len(s) : k \in 1..Len(s) + Len(t) /\ (s \o t)[k] = s[k]
           /\ \A k \in 1..Len(t) : k + Len(s) \in 1..Len(s) + Len(t) /\ (s \o t)[k + Len(s)] = t[k]
           /\ \A k \in 1..Len(s) + Len(t) :
                k \in 1..Len(s) \/ (k - Len(s) \in 1..Len(t) /\ k = (k - Len(s)) + Len(s))
<1>1. /\ s \o t \in Seq(Sprites) /\ Len(s \o t) = Len(s) + Len(t)
      /\ \A i \in 1..Len(s) + Len(t) : (s \o t)[i] = IF i <= Len(s) THEN s[i] ELSE t[i - Len(s)]
    BY ConcatProperties
<1>2. Len(s) \in Nat /\ Len(t) \in Nat
    BY LenProperties
<1>3. ASSUME NEW k \in 1..Len(s) PROVE k \in 1..Len(s) + Len(t) /\ (s \o t)[k] = s[k]
    BY <1>1, <1>2
<1>4. ASSUME NEW k \in 1..Len(t)
      PROVE  k + Len(s) \in 1..Len(s) + Len(t) /\ (s \o t)[k + Len(s)] = t[k]
  <2>1. k + Len(s) \in 1..Len(s) + Len(t) /\ ~(k + Len(s) <= Len(s)) /\ k + Len(s) - Len(s) = k
      BY <1>2
  <2> QED BY <1>1, <2>1
<1>5. ASSUME NEW k \in 1..Len(s) + Len(t)
      PROVE  k \in 1..Len(s) \/ (k - Len(s) \in 1..Len(t) /\ k = (k - Len(s)) + Len(s))
    BY <1>2
<1> QED BY <1>1, <1>2, <1>3, <1>4, <1>5

\* What comes first is seen where nothing later lies.
LEMMA ShownUnder ==
    ASSUME NEW s \in Seq(Sprites), NEW t \in Seq(Sprites), NEW px, NEW py, NEW ids,
           Shown(s, px, py, ids), Clear(t, px, py, ids)
    PROVE  Shown(s \o t, px, py, ids)
<1> DEFINE r == s \o t
<1>1. /\ Len(s) \in Nat /\ Len(t) \in Nat /\ Len(r) = Len(s) + Len(t)
      /\ \A k \in 1..Len(s) : k \in 1..Len(s) + Len(t) /\ r[k] = s[k]
      /\ \A k \in 1..Len(t) : k + Len(s) \in 1..Len(s) + Len(t) /\ r[k + Len(s)] = t[k]
      /\ \A k \in 1..Len(s) + Len(t) :
            k \in 1..Len(s) \/ (k - Len(s) \in 1..Len(t) /\ k = (k - Len(s)) + Len(s))
    BY ConcatIndices
<1> HIDE DEF r
<1>2. PICK k \in 1..Len(s) :
        /\ Covers(s[k], px, py)
        /\ \A m \in 1..Len(s) : k <= m /\ Covers(s[m], px, py) => s[m].id \in ids
    BY DEF Shown
<1>3. ASSUME NEW m \in 1..Len(r), k <= m, Covers(r[m], px, py) PROVE r[m].id \in ids
  <2>1. CASE m \in 1..Len(s)
      BY <1>1, <1>2, <1>3, <2>1
  <2>2. CASE m - Len(s) \in 1..Len(t) /\ m = (m - Len(s)) + Len(s)
    <3>1. r[m] = t[m - Len(s)]
        BY <1>1, <2>2
    <3> QED BY <1>3, <2>2, <3>1 DEF Clear
  <2> QED BY <1>1, <1>3, <2>1, <2>2
<1>4. k \in 1..Len(r) /\ Covers(r[k], px, py)
    BY <1>1, <1>2
<1>5. Shown(r, px, py, ids)
    BY <1>3, <1>4 DEF Shown
<1> QED BY <1>5 DEF r

\* What comes later is seen, whatever lies below.
LEMMA ShownOver ==
    ASSUME NEW s \in Seq(Sprites), NEW t \in Seq(Sprites), NEW px, NEW py, NEW ids,
           Shown(t, px, py, ids)
    PROVE  Shown(s \o t, px, py, ids)
<1> DEFINE r == s \o t
<1>1. /\ Len(s) \in Nat /\ Len(t) \in Nat /\ Len(r) = Len(s) + Len(t)
      /\ \A k \in 1..Len(t) : k + Len(s) \in 1..Len(s) + Len(t) /\ r[k + Len(s)] = t[k]
      /\ \A k \in 1..Len(s) + Len(t) :
            k \in 1..Len(s) \/ (k - Len(s) \in 1..Len(t) /\ k = (k - Len(s)) + Len(s))
    BY ConcatIndices
<1> HIDE DEF r
<1>2. PICK k \in 1..Len(t) :
        /\ Covers(t[k], px, py)
        /\ \A m \in 1..Len(t) : k <= m /\ Covers(t[m], px, py) => t[m].id \in ids
    BY DEF Shown
<1>3. ASSUME NEW m \in 1..Len(r), k + Len(s) <= m, Covers(r[m], px, py) PROVE r[m].id \in ids
  <2>1. /\ m - Len(s) \in 1..Len(t) /\ m = (m - Len(s)) + Len(s) /\ k <= m - Len(s)
      BY <1>1, <1>3
  <2>2. r[m] = t[m - Len(s)]
      BY <1>1, <2>1
  <2> QED BY <1>2, <1>3, <2>1, <2>2
<1>4. k + Len(s) \in 1..Len(r) /\ Covers(r[k + Len(s)], px, py)
    BY <1>1, <1>2
<1>5. Shown(r, px, py, ids)
    BY <1>3, <1>4 DEF Shown
<1> QED BY <1>5 DEF r

LEMMA ClearConcat ==
    ASSUME NEW s \in Seq(Sprites), NEW t \in Seq(Sprites), NEW px, NEW py, NEW ids,
           Clear(s, px, py, ids), Clear(t, px, py, ids)
    PROVE  Clear(s \o t, px, py, ids)
<1> DEFINE r == s \o t
<1>1. /\ Len(r) = Len(s) + Len(t)
      /\ \A k \in 1..Len(s) : k \in 1..Len(s) + Len(t) /\ r[k] = s[k]
      /\ \A k \in 1..Len(t) : k + Len(s) \in 1..Len(s) + Len(t) /\ r[k + Len(s)] = t[k]
      /\ \A k \in 1..Len(s) + Len(t) :
            k \in 1..Len(s) \/ (k - Len(s) \in 1..Len(t) /\ k = (k - Len(s)) + Len(s))
    BY ConcatIndices
<1> HIDE DEF r
<1>2. ASSUME NEW m \in 1..Len(r), Covers(r[m], px, py) PROVE r[m].id \in ids
  <2>1. CASE m \in 1..Len(s)
      BY <1>1, <1>2, <2>1 DEF Clear
  <2>2. CASE m - Len(s) \in 1..Len(t) /\ m = (m - Len(s)) + Len(s)
    <3>1. r[m] = t[m - Len(s)]
        BY <1>1, <2>2
    <3> QED BY <1>2, <2>2, <3>1 DEF Clear
  <2> QED BY <1>1, <2>1, <2>2
<1>3. Clear(r, px, py, ids)
    BY <1>2 DEF Clear
<1> QED BY <1>3 DEF r

\* The coordinates of a sprite on the screen fit its register.
LEMMA PackFits ==
    ASSUME NEW sprite \in Sprites
    PROVE  LET r == video_pack_sprite(sprite)
           IN  r.x = sprite.x /\ r.y = sprite.y /\ r.id = sprite.id /\ r.enable
<1>1. sprite.x \in Below(1024) /\ sprite.y \in Below(512)
    BY DEF Sprites
<1>2. \A v \in Below(1024) : v % 1024 = v
    BY DEF Below
<1>3. \A v \in Below(512) : v % 512 = v
    BY DEF Below
<1>4. sprite.x % 1024 = sprite.x /\ sprite.y % 512 = sprite.y
    BY <1>1, <1>2, <1>3
<1> QED BY <1>4 DEF video_pack_sprite

\* The registers keep what is set: the coordinates fit and no slot is missing,
\* and the highest register over a pixel is the last sprite over it.
LEMMA PictureShown ==
    ASSUME NEW s \in Seq(Sprites), Len(s) <= VIDEO_SPRITE_COUNT,
           shadow_sprites = video_set_sprites(s),
           NEW px \in Nat, NEW py \in Nat, NEW ids, Shown(s, px, py, ids)
    PROVE  Picture(px, py) \in ids
<1>1. Len(s) \in Nat /\ \A k \in 1..Len(s) : s[k] \in Sprites
    BY LenProperties, ElementOfSeq
<1>2. VIDEO_SPRITE_COUNT \in Nat /\ VIDEO_SPRITE_COUNT >= 18
    BY RegisterAssumption
<1>3. ASSUME NEW slot \in Slots, slot < Len(s)
      PROVE  /\ slot + 1 \in 1..Len(s)
             /\ shadow_sprites[slot].x = s[slot + 1].x /\ shadow_sprites[slot].y = s[slot + 1].y
             /\ shadow_sprites[slot].id = s[slot + 1].id /\ shadow_sprites[slot].enable
  <2>1. slot + 1 \in 1..Len(s)
      BY <1>1, <1>3 DEF Slots
  <2>2. shadow_sprites[slot] = video_pack_sprite(s[slot + 1])
      BY <1>3 DEF video_set_sprites
  <2>3. s[slot + 1] \in Sprites
      BY <1>1, <2>1
  <2> QED BY <2>1, <2>2, <2>3, PackFits
<1>4. ASSUME NEW slot \in Slots, ~(slot < Len(s)) PROVE ~shadow_sprites[slot].enable
    BY <1>4 DEF video_set_sprites, Cleared
<1> DEFINE hits == {slot \in Slots : inside_box(slot, px, py)}
<1>5. ASSUME NEW slot \in Slots
      PROVE  slot \in hits <=> slot < Len(s) /\ Covers(s[slot + 1], px, py)
  <2>1. CASE slot < Len(s)
      BY <1>3, <2>1 DEF inside_box, Covers, SPRITE_SIZE
  <2>2. CASE ~(slot < Len(s))
      BY <1>4, <2>2 DEF inside_box
  <2> QED BY <2>1, <2>2
<1>6. PICK k \in 1..Len(s) :
        /\ Covers(s[k], px, py)
        /\ \A m \in 1..Len(s) : k <= m /\ Covers(s[m], px, py) => s[m].id \in ids
    BY DEF Shown
<1>7. k - 1 \in Slots /\ k - 1 < Len(s) /\ (k - 1) + 1 = k
    BY <1>1, <1>2 DEF Slots
<1>8. k - 1 \in hits
    BY <1>5, <1>6, <1>7
<1>9. hits \subseteq 0..VIDEO_SPRITE_COUNT - 1 /\ VIDEO_SPRITE_COUNT - 1 \in Nat
    BY <1>2 DEF Slots
<1> DEFINE top == CHOOSE top \in hits : \A slot \in hits : slot <= top
<1>10. Picture(px, py) = shadow_sprites[top].id
    BY <1>8 DEF Picture
<1> HIDE DEF hits
<1>11. \E n \in hits : \A slot \in hits : slot <= n
    BY <1>8, <1>9, Highest
<1>12. top \in hits /\ \A slot \in hits : slot <= top
    BY <1>11
<1> HIDE DEF top
<1>13. top \in Slots
    BY <1>12 DEF hits
<1>14. top < Len(s) /\ Covers(s[top + 1], px, py)
    BY <1>5, <1>12, <1>13
<1>15. top + 1 \in 1..Len(s) /\ k <= top + 1 /\ shadow_sprites[top].id = s[top + 1].id
    BY <1>3, <1>7, <1>8, <1>12, <1>13, <1>14 DEF Slots
<1> QED BY <1>6, <1>10, <1>14, <1>15

\* s holds, once over, the sprites f[x] of the x of T.
Stage(s, f, T) ==
    /\ s \in Seq(Sprites) /\ Len(s) = Cardinality(T)
    /\ \A k \in 1..Len(s) : \E x \in T : s[k] = f[x]
    /\ \A x \in T : \E k \in 1..Len(s) : s[k] = f[x]

LEMMA StageOf ==
    ASSUME NEW list, NEW T, Lists(list, T), NEW f \in [T -> Sprites]
    PROVE  Stage([k \in 1..Len(list) |-> f[list[k]]], f, T)
<1> DEFINE s == [k \in 1..Len(list) |-> f[list[k]]]
<1>1. Len(list) \in Nat /\ \A k \in 1..Len(list) : list[k] \in T
    BY LenProperties, ElementOfSeq DEF Lists
<1>2. s \in [1..Len(list) -> Sprites]
    BY <1>1
<1>3. s \in Seq(Sprites) /\ Len(s) = Len(list)
    BY <1>1, <1>2
<1>4. \A k \in 1..Len(list) : s[k] = f[list[k]]
    OBVIOUS
<1> HIDE DEF s
<1>5. \A k \in 1..Len(s) : \E x \in T : s[k] = f[x]
    BY <1>1, <1>3, <1>4
<1>6. ASSUME NEW x \in T PROVE \E k \in 1..Len(s) : s[k] = f[x]
  <2>1. PICK k \in 1..Len(list) : list[k] = x
      BY DEF Lists
  <2> QED BY <1>3, <1>4, <2>1
<1>7. Stage(s, f, T)
    BY <1>3, <1>5, <1>6 DEF Stage, Lists
<1> QED BY <1>7 DEF s

-----------------------------------------------------------------------------
\* Where the sprites of a game lie.

LEMMA TileSprite ==
    ASSUME NEW c \in Pos, NEW kind \in {"player", "bomb", "blast", "banner"}, NEW owner \in Players
    PROVE  SpriteAt(c, kind, owner) \in Sprites
<1>1. /\ c[1] \in Int /\ c[2] \in Int /\ c[1] < MAP_ROWS /\ c[2] < MAP_COLS
      /\ MAP_ROWS \in Int /\ MAP_COLS \in Int /\ TILE_SIZE \in Nat \ {0}
    BY SizeAssumption, TickAssumption DEF Pos
<1>2. c[1] * TILE_SIZE + TILE_SIZE <= MAP_ROWS * TILE_SIZE /\ c[2] * TILE_SIZE + TILE_SIZE <= MAP_COLS * TILE_SIZE
    BY <1>1, TilesApart
<1>3. PixelX(c) \in Nat /\ PixelY(c) \in Nat /\ MAP_ROWS * TILE_SIZE \in Int /\ MAP_COLS * TILE_SIZE \in Int
    BY <1>1, PixelType
<1>4. MAP_ROWS * TILE_SIZE <= 512 /\ MAP_COLS * TILE_SIZE <= 1024
    BY PixelAssumption
<1> DEFINE x == PixelX(c)
           y == PixelY(c)
           wide == MAP_COLS * TILE_SIZE
           high == MAP_ROWS * TILE_SIZE
<1>5. /\ x \in Nat /\ y \in Nat /\ wide \in Int /\ high \in Int /\ wide <= 1024 /\ high <= 512
      /\ x + TILE_SIZE <= wide /\ y + TILE_SIZE <= high
    BY <1>2, <1>3, <1>4 DEF PixelX, PixelY
<1> HIDE DEF x, y, wide, high
<1>6. x \in Below(1024) /\ y \in Below(512)
    BY <1>1, <1>5 DEF Below
<1>7. PixelX(c) \in Below(1024) /\ PixelY(c) \in Below(512)
    BY <1>6 DEF x, y
<1> QED BY <1>7 DEF SpriteAt, Sprite, Sprites

LEMMA BannerSprite ==
    ASSUME NEW c \in BannerTiles, NEW owner \in Players
    PROVE  SpriteAt(c, "banner", owner) \in Sprites /\ c \in Int \X Int
<1>1. PICK i \in {0, 1, 2, 4} : c = <<UI_ROW_START, UI_COL_START + i>>
    BY DEF BannerTiles
<1>2. /\ UI_ROW_START \in Nat /\ UI_COL_START \in Nat /\ TILE_SIZE \in Nat \ {0}
      /\ UI_ROW_START * TILE_SIZE < 512 /\ (UI_COL_START + 4) * TILE_SIZE < 1024
    BY PixelAssumption, TickAssumption
<1>3. UI_COL_START + i = UI_COL_START + 4 \/ UI_COL_START + i < UI_COL_START + 4
    BY <1>2
<1>4. (UI_COL_START + i) * TILE_SIZE <= (UI_COL_START + 4) * TILE_SIZE
  <2>1. CASE UI_COL_START + i = UI_COL_START + 4
      BY <1>2, <2>1
  <2>2. CASE UI_COL_START + i < UI_COL_START + 4
    <3>1. UI_COL_START + i \in Int /\ UI_COL_START + 4 \in Int
        BY <1>2
    <3>2. /\ (UI_COL_START + i) * TILE_SIZE + TILE_SIZE <= (UI_COL_START + 4) * TILE_SIZE
          /\ (UI_COL_START + i) * TILE_SIZE \in Int /\ (UI_COL_START + 4) * TILE_SIZE \in Int
        BY <2>2, <3>1, TilesApart
    <3> QED BY <1>2, <3>2
  <2> QED BY <1>3, <2>1, <2>2
<1>5. UI_ROW_START * TILE_SIZE \in Nat /\ (UI_COL_START + i) * TILE_SIZE \in Nat /\ (UI_COL_START + 4) * TILE_SIZE \in Nat
  <2>1. UI_COL_START + i \in Nat /\ UI_COL_START + 4 \in Nat
      BY <1>2
  <2> QED BY <1>2, <2>1
<1>6. c[1] = UI_ROW_START /\ c[2] = UI_COL_START + i /\ c \in Int \X Int
    BY <1>1, <1>2
<1>7. PixelX(c) \in Below(1024) /\ PixelY(c) \in Below(512)
    BY <1>2, <1>4, <1>5, <1>6 DEF PixelX, PixelY, Below
<1> QED BY <1>6, <1>7 DEF SpriteAt, Sprite, Sprites

\* A body overlaps the tiles that its player holds, and no other.
LEMMA BodyTiles ==
    ASSUME NEW pl \in PlayerStates, pl.alive, OnPath(pl), NEW d \in Int \X Int,
           rect_overlaps_tile(pl.x, pl.y, d)
    PROVE  d \in Pos /\ Occupies(pl, d)
<1>1. PICK top, bottom, left, right \in Nat :
        /\ top * TILE_SIZE <= pl.y /\ pl.y <= bottom * TILE_SIZE
        /\ left * TILE_SIZE <= pl.x /\ pl.x <= right * TILE_SIZE
        /\ top <= bottom /\ left <= right
        /\ \A r \in top..bottom : \A c \in left..right : <<r, c>> \in Pos /\ Occupies(pl, <<r, c>>)
    BY BodyHull
<1>2. /\ d[1] \in Int /\ d[2] \in Int /\ d = <<d[1], d[2]>> /\ TILE_SIZE \in Nat \ {0}
      /\ pl.x \in Nat /\ pl.y \in Nat
    BY TickAssumption DEF PlayerStates
<1>3. \A m, n \in Int : m < n => /\ m * TILE_SIZE + TILE_SIZE <= n * TILE_SIZE
                                 /\ m * TILE_SIZE \in Int /\ n * TILE_SIZE \in Int
    BY TilesApart
<1>4. /\ ~(pl.x + TILE_SIZE - 1 < d[2] * TILE_SIZE \/ d[2] * TILE_SIZE + TILE_SIZE - 1 < pl.x)
      /\ ~(pl.y + TILE_SIZE - 1 < d[1] * TILE_SIZE \/ d[1] * TILE_SIZE + TILE_SIZE - 1 < pl.y)
    BY DEF rect_overlaps_tile, PixelX, PixelY
<1>5. ~(d[1] < top)
    BY <1>1, <1>2, <1>3, <1>4
<1>6. ~(bottom < d[1])
    BY <1>1, <1>2, <1>3, <1>4
<1>7. ~(d[2] < left)
    BY <1>1, <1>2, <1>3, <1>4
<1>8. ~(right < d[2])
    BY <1>1, <1>2, <1>3, <1>4
<1>9. d[1] \in top..bottom /\ d[2] \in left..right
    BY <1>1, <1>2, <1>5, <1>6, <1>7, <1>8
<1> QED BY <1>1, <1>2, <1>9

LEMMA BodySprite ==
    ASSUME NEW pl \in PlayerStates, pl.alive, OnPath(pl), NEW p \in Players
    PROVE  Sprite(pl.x, pl.y, "player", p) \in Sprites
<1>1. PICK top, bottom, left, right \in Nat :
        /\ top * TILE_SIZE <= pl.y /\ pl.y <= bottom * TILE_SIZE
        /\ left * TILE_SIZE <= pl.x /\ pl.x <= right * TILE_SIZE
        /\ top <= bottom /\ left <= right
        /\ \A r \in top..bottom : \A c \in left..right : <<r, c>> \in Pos /\ Occupies(pl, <<r, c>>)
    BY BodyHull
<1>2. bottom \in top..bottom /\ right \in left..right
    BY <1>1
<1>3. <<bottom, right>> \in Pos
    BY <1>1, <1>2
<1>4. PixelX(<<bottom, right>>) \in Below(1024) /\ PixelY(<<bottom, right>>) \in Below(512)
    BY <1>3, TileSprite, Opponents DEF SpriteAt, Sprite, Sprites
<1>5. pl.x \in Nat /\ pl.y \in Nat
    BY DEF PlayerStates
<1> DEFINE east  == right * TILE_SIZE
           south == bottom * TILE_SIZE
<1>6. east \in Below(1024) /\ south \in Below(512) /\ pl.x <= east /\ pl.y <= south
  <2>1. east = PixelX(<<bottom, right>>) /\ south = PixelY(<<bottom, right>>)
      BY DEF PixelX, PixelY
  <2> HIDE DEF east, south
  <2>2. pl.x <= east /\ pl.y <= south
      BY <1>1 DEF east, south
  <2> QED BY <1>4, <2>1, <2>2
<1> HIDE DEF east, south
<1>7. pl.x \in Below(1024) /\ pl.y \in Below(512)
    BY <1>5, <1>6 DEF Below
<1> QED BY <1>7 DEF Sprite, Sprites

\* A tile's sprite that covers a corner of a square overlaps the square.
LEMMA CornerOverlap ==
    ASSUME NEW x \in Nat, NEW y \in Nat, NEW q \in Corners(x, y),
           NEW d \in Int \X Int, NEW kind, NEW owner, Covers(SpriteAt(d, kind, owner), q[1], q[2])
    PROVE  rect_overlaps_tile(x, y, d)
<1>1. /\ q[1] \in {x, x + TILE_SIZE - 1} /\ q[2] \in {y, y + TILE_SIZE - 1}
      /\ TILE_SIZE \in Nat \ {0} /\ PixelX(d) \in Int /\ PixelY(d) \in Int
    BY TickAssumption DEF Corners, PixelX, PixelY
<1>2. /\ q[1] >= PixelX(d) /\ q[1] - PixelX(d) < TILE_SIZE
      /\ q[2] >= PixelY(d) /\ q[2] - PixelY(d) < TILE_SIZE
    BY DEF Covers, SpriteAt, Sprite
<1>3. ~(x + TILE_SIZE - 1 < PixelX(d) \/ PixelX(d) + TILE_SIZE - 1 < x)
    BY <1>1, <1>2
<1>4. ~(y + TILE_SIZE - 1 < PixelY(d) \/ PixelY(d) + TILE_SIZE - 1 < y)
    BY <1>1, <1>2
<1> QED BY <1>3, <1>4 DEF rect_overlaps_tile

LEMMA OwnCorners ==
    ASSUME NEW x \in Nat, NEW y \in Nat, NEW q \in Corners(x, y), NEW kind, NEW owner
    PROVE  Covers(Sprite(x, y, kind, owner), q[1], q[2]) /\ q[1] \in Nat /\ q[2] \in Nat
BY TickAssumption DEF Corners, Covers, Sprite

-----------------------------------------------------------------------------
\* The four stages of a frame.

LEMMA StageClear ==
    ASSUME NEW s, NEW f, NEW T, Stage(s, f, T), NEW px, NEW py, NEW ids,
           \A a \in T : Covers(f[a], px, py) => f[a].id \in ids
    PROVE  Clear(s, px, py, ids)
BY DEF Stage, Clear

LEMMA StageShown ==
    ASSUME NEW s, NEW f, NEW T, Stage(s, f, T), NEW px, NEW py, NEW ids,
           NEW b \in T, Covers(f[b], px, py),
           \A a \in T : Covers(f[a], px, py) => f[a].id \in ids
    PROVE  Shown(s, px, py, ids)
<1>1. PICK k \in 1..Len(s) : s[k] = f[b]
    BY DEF Stage
<1>2. \A m \in 1..Len(s) : Covers(s[m], px, py) => s[m].id \in ids
    BY DEF Stage
<1> QED BY <1>1, <1>2 DEF Shown

Lit(g)    == {b \in Players : g.bombs[b].active}
Burnt(g, e) == IF g.explosions[e].active THEN BlastCells(g.explosions[e].center) \cap Pos ELSE {}

BodyOf(g) == [p \in Living(g) |-> Sprite(g.players[p].x, g.players[p].y, "player", p)]
BombOf(g) == [b \in Lit(g) |-> SpriteAt(g.bombs[b].pos, "bomb", b)]
FlameOf(g, e) == [c \in Burnt(g, e) |-> SpriteAt(c, "blast", e)]

LEMMA PlayersStage ==
    ASSUME NEW g \in GameStates, Paths(g)
    PROVE  Stage(stage_players(g), BodyOf(g), Living(g))
<1> DEFINE living == Listed(Living(g))
           f == BodyOf(g)
<1>1. Lists(living, Living(g))
    BY ListedLists DEF Living
<1>2. f \in [Living(g) -> Sprites]
  <2>1. ASSUME NEW p \in Living(g) PROVE Sprite(g.players[p].x, g.players[p].y, "player", p) \in Sprites
    <3>1. p \in Players /\ g.players[p] \in PlayerStates /\ g.players[p].alive /\ OnPath(g.players[p])
        BY DEF Living, GameStates, Paths
    <3> QED BY <3>1, BodySprite
  <2> QED BY <2>1 DEF BodyOf
<1>3. \A k \in 1..Len(living) : living[k] \in Living(g)
    BY <1>1, LenProperties, ElementOfSeq DEF Lists
<1>4. \A k \in 1..Len(living) :
        f[living[k]] = Sprite(g.players[living[k]].x, g.players[living[k]].y, "player", living[k])
    BY <1>3 DEF BodyOf
<1>5. stage_players(g) =
        [k \in 1..Len(living) |->
            Sprite(g.players[living[k]].x, g.players[living[k]].y, "player", living[k])]
    BY DEF stage_players, Living
<1> HIDE DEF living, f
<1>6. stage_players(g) = [k \in 1..Len(living) |-> f[living[k]]]
    BY <1>4, <1>5
<1>7. Stage(stage_players(g), f, Living(g))
    BY <1>1, <1>2, <1>6, StageOf
<1> QED BY <1>7 DEF f

LEMMA BombsStage ==
    ASSUME NEW g \in GameStates
    PROVE  Stage(stage_bombs(g), BombOf(g), Lit(g))
<1> DEFINE lit == Listed(Lit(g))
           f == BombOf(g)
<1>1. Lists(lit, Lit(g))
    BY ListedLists DEF Lit
<1>2. f \in [Lit(g) -> Sprites]
  <2>1. ASSUME NEW b \in Lit(g) PROVE SpriteAt(g.bombs[b].pos, "bomb", b) \in Sprites
    <3>1. b \in Players /\ g.bombs[b].pos \in Pos
        BY DEF Lit, GameStates, BombStates
    <3> QED BY <3>1, TileSprite
  <2> QED BY <2>1 DEF BombOf
<1>3. \A k \in 1..Len(lit) : lit[k] \in Lit(g)
    BY <1>1, LenProperties, ElementOfSeq DEF Lists
<1>4. \A k \in 1..Len(lit) : f[lit[k]] = SpriteAt(g.bombs[lit[k]].pos, "bomb", lit[k])
    BY <1>3 DEF BombOf
<1>5. stage_bombs(g) = [k \in 1..Len(lit) |-> SpriteAt(g.bombs[lit[k]].pos, "bomb", lit[k])]
    BY DEF stage_bombs, Lit
<1> HIDE DEF lit, f
<1>6. stage_bombs(g) = [k \in 1..Len(lit) |-> f[lit[k]]]
    BY <1>4, <1>5
<1>7. Stage(stage_bombs(g), f, Lit(g))
    BY <1>1, <1>2, <1>6, StageOf
<1> QED BY <1>7 DEF f

LEMMA BlastStage ==
    ASSUME NEW g \in GameStates, NEW e \in Players
    PROVE  Stage(stage_explosion(g, e), FlameOf(g, e), Burnt(g, e))
<1> DEFINE ctr == g.explosions[e].center
           cells == ExplosionCells(ctr)
           f == FlameOf(g, e)
<1>1. ctr \in Pos
    BY DEF GameStates, ExplosionStates
<1>2. f \in [Burnt(g, e) -> Sprites]
  <2>1. ASSUME NEW c \in Burnt(g, e) PROVE SpriteAt(c, "blast", e) \in Sprites
    <3>1. c \in Pos
        BY DEF Burnt
    <3> QED BY <3>1, TileSprite
  <2> QED BY <2>1 DEF FlameOf
<1>3. CASE g.explosions[e].active
  <2>1. Lists(cells, Burnt(g, e))
      BY <1>1, <1>3, CellsListed DEF Burnt
  <2>2. \A k \in 1..Len(cells) : cells[k] \in Burnt(g, e)
      BY <2>1, LenProperties, ElementOfSeq DEF Lists
  <2>3. \A k \in 1..Len(cells) : f[cells[k]] = SpriteAt(cells[k], "blast", e)
      BY <2>2 DEF FlameOf
  <2>4. stage_explosion(g, e) = [k \in 1..Len(cells) |-> SpriteAt(cells[k], "blast", e)]
      BY <1>3 DEF stage_explosion
  <2> HIDE DEF cells, f
  <2>5. stage_explosion(g, e) = [k \in 1..Len(cells) |-> f[cells[k]]]
      BY <2>3, <2>4
  <2>6. Stage(stage_explosion(g, e), f, Burnt(g, e))
      BY <1>2, <2>1, <2>5, StageOf
  <2> QED BY <2>6 DEF f
<1>4. CASE ~g.explosions[e].active
  <2>1. stage_explosion(g, e) = << >> /\ Burnt(g, e) = {}
      BY <1>4 DEF stage_explosion, Burnt
  <2>2. << >> \in Seq(Sprites) /\ Len(<< >>) = 0 /\ Cardinality({}) = 0
      BY EmptySeq, FS_EmptySet
  <2> HIDE DEF f
  <2>3. Stage(<< >>, FlameOf(g, e), {})
      BY <2>2 DEF Stage
  <2> QED BY <2>1, <2>3
<1> QED BY <1>3, <1>4

LEMMA BannerStage ==
    ASSUME NEW g \in GameStates
    PROVE  LET w == stage_win_banner(g)
           IN  /\ w \in Seq(Sprites)
               /\ Len(w) = IF g.game_over /\ g.winner # -1 THEN 4 ELSE 0
               /\ \A k \in 1..Len(w) : \E d \in BannerTiles : w[k] = SpriteAt(d, "banner", g.winner)
<1> DEFINE col(k) == UI_COL_START + IF k < 4 THEN k - 1 ELSE 4
           tile(k) == <<UI_ROW_START, col(k)>>
           w == stage_win_banner(g)
<1>1. g.winner \in {-1, 0, 1} /\ Players = {0, 1}
    BY DEF GameStates, Players
<1>2. CASE g.game_over /\ g.winner \in Players
  <2>1. ASSUME NEW k \in 1..4 PROVE tile(k) \in BannerTiles
    <3>1. k = 1 \/ k = 2 \/ k = 3 \/ k = 4
        OBVIOUS
    <3>2. (IF k < 4 THEN k - 1 ELSE 4) \in {0, 1, 2, 4}
        BY <3>1
    <3> QED BY <3>2 DEF BannerTiles
  <2>2. w = [k \in 1..4 |-> SpriteAt(tile(k), "banner", g.winner)]
      BY <1>2 DEF stage_win_banner
  <2>3. \A k \in 1..4 : SpriteAt(tile(k), "banner", g.winner) \in Sprites
      BY <1>2, <2>1, BannerSprite
  <2> HIDE DEF tile, w
  <2>4. w \in [1..4 -> Sprites]
      BY <2>2, <2>3
  <2>5. w \in Seq(Sprites) /\ Len(w) = 4
    <3>1. \A n \in Nat : \A v \in [1..n -> Sprites] : v \in Seq(Sprites) /\ Len(v) = n
        OBVIOUS
    <3> QED BY <2>4, <3>1
  <2>6. \A k \in 1..Len(w) : \E d \in BannerTiles : w[k] = SpriteAt(d, "banner", g.winner)
      BY <2>1, <2>2, <2>5
  <2>7. g.winner # -1
      BY <1>1, <1>2
  <2> QED BY <1>2, <2>5, <2>6, <2>7 DEF w
<1>3. CASE ~(g.game_over /\ g.winner \in Players)
  <2>1. w = << >>
      BY <1>3 DEF stage_win_banner
  <2>2. << >> \in Seq(Sprites) /\ Len(<< >>) = 0
      BY EmptySeq
  <2>3. ~(g.game_over /\ g.winner # -1)
      BY <1>1, <1>3
  <2> QED BY <2>1, <2>2, <2>3
<1> QED BY <1>2, <1>3

\* What is staged, and that there is a register for all of it.
LEMMA StagedSprites ==
    ASSUME NEW g \in GameStates, Paths(g)
    PROVE  LET P == stage_players(g)
               B == stage_bombs(g)
               E0 == stage_explosion(g, 0)
               E1 == stage_explosion(g, 1)
               W == stage_win_banner(g)
           IN  /\ P \in Seq(Sprites) /\ B \in Seq(Sprites) /\ E0 \in Seq(Sprites)
               /\ E1 \in Seq(Sprites) /\ W \in Seq(Sprites)
               /\ P \o B \in Seq(Sprites) /\ E0 \o E1 \in Seq(Sprites)
               /\ (P \o B) \o (E0 \o E1) \in Seq(Sprites)
               /\ staged(g) = ((P \o B) \o (E0 \o E1)) \o W
               /\ staged(g) \in Seq(Sprites)
               /\ Len(staged(g)) = Len(P) + Len(B) + (Len(E0) + Len(E1)) + Len(W)
<1> DEFINE P == stage_players(g)
           B == stage_bombs(g)
           E0 == stage_explosion(g, 0)
           E1 == stage_explosion(g, 1)
           W == stage_win_banner(g)
<1>1. /\ P \in Seq(Sprites) /\ B \in Seq(Sprites) /\ E0 \in Seq(Sprites)
      /\ E1 \in Seq(Sprites) /\ W \in Seq(Sprites)
    BY PlayersStage, BombsStage, BlastStage, BannerStage, Opponents DEF Stage
<1>2. staged(g) = ((P \o B) \o (E0 \o E1)) \o W
    BY DEF staged, stage_explosions
<1> HIDE DEF P, B, E0, E1, W
<1>3. P \o B \in Seq(Sprites) /\ Len(P \o B) = Len(P) + Len(B)
    BY <1>1, ConcatIndices
<1>4. E0 \o E1 \in Seq(Sprites) /\ Len(E0 \o E1) = Len(E0) + Len(E1)
    BY <1>1, ConcatIndices
<1>5. /\ (P \o B) \o (E0 \o E1) \in Seq(Sprites)
      /\ Len((P \o B) \o (E0 \o E1)) = Len(P \o B) + Len(E0 \o E1)
    BY <1>3, <1>4, ConcatIndices
<1>6. /\ ((P \o B) \o (E0 \o E1)) \o W \in Seq(Sprites)
      /\ Len(((P \o B) \o (E0 \o E1)) \o W) = Len((P \o B) \o (E0 \o E1)) + Len(W)
    BY <1>1, <1>5, ConcatIndices
<1>7. Len(staged(g)) = Len(P) + Len(B) + (Len(E0) + Len(E1)) + Len(W)
    BY <1>2, <1>3, <1>4, <1>5, <1>6
<1> QED BY <1>1, <1>2, <1>3, <1>4, <1>5, <1>6, <1>7 DEF P, B, E0, E1, W

\* A plus of five cells.
LEMMA BurntSize ==
    ASSUME NEW g, NEW e \in Players
    PROVE  IsFiniteSet(Burnt(g, e)) /\ Cardinality(Burnt(g, e)) \in 0..5
<1> DEFINE ctr == g.explosions[e].center
           u == Neighbour(ctr, "up")
           d == Neighbour(ctr, "down")
           l == Neighbour(ctr, "left")
           r == Neighbour(ctr, "right")
<1>1. Burnt(g, e) \subseteq {ctr} \cup {u} \cup {d} \cup {l} \cup {r}
    BY DEF Burnt, BlastCells
<1> HIDE DEF ctr, u, d, l, r
<1>2. IsFiniteSet({ctr}) /\ Cardinality({ctr}) = 1
    BY FS_Singleton
<1>3. IsFiniteSet({ctr} \cup {u}) /\ Cardinality({ctr} \cup {u}) \in 0..2
    BY <1>2, FS_AddElement
<1>4. IsFiniteSet({ctr} \cup {u} \cup {d}) /\ Cardinality({ctr} \cup {u} \cup {d}) \in 0..3
    BY <1>3, FS_AddElement
<1>5. IsFiniteSet({ctr} \cup {u} \cup {d} \cup {l}) /\ Cardinality({ctr} \cup {u} \cup {d} \cup {l}) \in 0..4
    BY <1>4, FS_AddElement
<1>6. /\ IsFiniteSet({ctr} \cup {u} \cup {d} \cup {l} \cup {r})
      /\ Cardinality({ctr} \cup {u} \cup {d} \cup {l} \cup {r}) \in 0..5
    BY <1>5, FS_AddElement
<1>7. /\ IsFiniteSet(Burnt(g, e))
      /\ Cardinality(Burnt(g, e)) <= Cardinality({ctr} \cup {u} \cup {d} \cup {l} \cup {r})
    BY <1>1, <1>6, FS_Subset
<1>8. Cardinality(Burnt(g, e)) \in Nat
    BY <1>7, FS_CardinalityType
<1> QED BY <1>6, <1>7, <1>8

LEMMA PairSize ==
    ASSUME NEW S \in SUBSET Players
    PROVE  IsFiniteSet(S) /\ Cardinality(S) \in 0..2
<1>1. IsFiniteSet(Players) /\ Cardinality(Players) = 2
  <2>1. Players = {0} \cup {1} /\ 1 \notin {0}
      BY DEF Players
  <2>2. IsFiniteSet({0}) /\ Cardinality({0}) = 1
      BY FS_Singleton
  <2> QED BY <2>1, <2>2, FS_AddElement
<1>2. IsFiniteSet(S) /\ Cardinality(S) <= Cardinality(Players)
    BY <1>1, FS_Subset
<1> DEFINE n == Cardinality(S)
<1>3. n \in Nat /\ n <= 2
    BY <1>1, <1>2, FS_CardinalityType
<1> HIDE DEF n
<1>4. n \in 0..2
    BY <1>3
<1> QED BY <1>2, <1>4 DEF n

LEMMA Registers ==
    ASSUME NEW g \in GameStates, Paths(g)
    PROVE  /\ Len(staged(g)) = Cardinality(Living(g)) + Cardinality(Lit(g))
                               + (Cardinality(Burnt(g, 0)) + Cardinality(Burnt(g, 1)))
                               + IF g.game_over /\ g.winner # -1 THEN 4 ELSE 0
           /\ Len(staged(g)) \in Nat /\ Len(staged(g)) <= VIDEO_SPRITE_COUNT
<1> DEFINE a == Cardinality(Living(g))
           b == Cardinality(Lit(g))
           e0 == Cardinality(Burnt(g, 0))
           e1 == Cardinality(Burnt(g, 1))
           w == IF g.game_over /\ g.winner # -1 THEN 4 ELSE 0
           n == Len(staged(g))
<1>1. a \in 0..2 /\ b \in 0..2
    BY PairSize DEF Living, Lit
<1>2. e0 \in 0..5 /\ e1 \in 0..5
    BY BurntSize, Opponents
<1>3. w \in 0..4
    OBVIOUS
<1>4. /\ Len(stage_players(g)) = a /\ Len(stage_bombs(g)) = b
      /\ Len(stage_explosion(g, 0)) = e0 /\ Len(stage_explosion(g, 1)) = e1
    BY PlayersStage, BombsStage, BlastStage, Opponents DEF Stage
<1>5. Len(stage_win_banner(g)) = w
    BY BannerStage
<1> HIDE DEF a, b, e0, e1, w, n
<1>6. n = a + b + (e0 + e1) + w
    BY <1>4, <1>5, StagedSprites DEF n
<1>7. n \in Nat /\ n <= 18
    BY <1>1, <1>2, <1>3, <1>6
<1>8. n <= VIDEO_SPRITE_COUNT
    BY <1>7, RegisterAssumption
<1> QED BY <1>6, <1>7, <1>8 DEF a, b, e0, e1, w, n

-----------------------------------------------------------------------------
\* The picture.  From the first frame on the registers and the tile bytes are
\* those of the game.

Framed ==
    \/ render_init
    \/ shadow_tiles = staged_tiles(game) /\ shadow_sprites = video_set_sprites(staged(game))

\* The picture is drawn of a game that follows its rules.
LEMMA RulesHold == RenderSpec => Spec
<1>1. RenderInit => Init
    BY DEF RenderInit
<1>2. [Frame]_renderVars => [Next]_vars
    BY DEF Frame, renderVars, vars
<1> QED BY <1>1, <1>2, PTL DEF RenderSpec, Spec

LEMMA FramedAlways == RenderSpec => []Framed
<1>1. RenderInit => Framed
    BY DEF RenderInit, Framed
<1>2. Framed /\ [Frame]_renderVars => Framed'
  <2>1. CASE Frame
      BY <2>1 DEF Frame, render_frame, Framed
  <2>2. ASSUME Framed, UNCHANGED renderVars PROVE Framed'
    <3>1. game' = game /\ shadow_tiles' = shadow_tiles /\ shadow_sprites' = shadow_sprites
        BY <2>2 DEF renderVars
    <3>2. staged_tiles(game') = staged_tiles(game) /\ video_set_sprites(staged(game')) = video_set_sprites(staged(game))
        BY <3>1
    <3> QED BY <2>2, <3>1, <3>2 DEF Framed, render_init
  <2> QED BY <2>1, <2>2
<1> QED BY <1>1, <1>2, PTL DEF RenderSpec

\* A game as the rules leave it, with bodies apart.
Ruled(g) ==
    /\ g \in GameStates /\ Paths(g) /\ BombTiles(g) /\ Spared(g) /\ Placed(g)
    /\ (g.players[0].alive /\ g.players[1].alive) =>
          \/ g.players[0].x + TILE_SIZE <= g.players[1].x
          \/ g.players[1].x + TILE_SIZE <= g.players[0].x
          \/ g.players[0].y + TILE_SIZE <= g.players[1].y
          \/ g.players[1].y + TILE_SIZE <= g.players[0].y

LEMMA RuledAlways == RenderSpec => []Ruled(game)
<1>1. PlayInv(game) /\ Placed(game) /\ BodiesApart => Ruled(game)
    BY DEF PlayInv, Standing, BodiesApart, Ruled
<1> QED BY <1>1, RulesHold, PlayInvariant, ThingsStayPlaced, BodiesStayApart, PTL

\* A sprite shown by the staged list is shown by the picture.
LEMMA OnScreen ==
    ASSUME Ruled(game), shadow_sprites = video_set_sprites(staged(game)),
           NEW px \in Nat, NEW py \in Nat, NEW ids, Shown(staged(game), px, py, ids)
    PROVE  Picture(px, py) \in ids
BY StagedSprites, Registers, PictureShown DEF Ruled

\* The banner is away from every tile where something can be.
LEMMA BannerAway ==
    ASSUME NEW c \in Ownable, NEW d \in BannerTiles
    PROVE  d \notin BlastCells(c) /\ d # c
BY BannerAssumption DEF Ownable, BlastCells

\* A tile's sprite covers no corner of another tile.
LEMMA OtherTile ==
    ASSUME NEW c \in Pos, NEW q \in Corners(PixelX(c), PixelY(c)),
           NEW d \in Int \X Int, NEW kind, NEW owner, Covers(SpriteAt(d, kind, owner), q[1], q[2])
    PROVE  d = c
<1>1. PixelX(c) \in Nat /\ PixelY(c) \in Nat /\ c \in Int \X Int
    BY PixelType, BlastCellsType
<1>2. rect_overlaps_tile(PixelX(c), PixelY(c), d)
    BY <1>1, CornerOverlap
<1> QED BY <1>1, <1>2, AlignedOverlap

LEMMA BannerClear ==
    ASSUME NEW g \in GameStates, NEW px, NEW py, NEW ids,
           \A d \in BannerTiles : ~Covers(SpriteAt(d, "banner", g.winner), px, py)
    PROVE  Clear(stage_win_banner(g), px, py, ids)
<1>1. \A k \in 1..Len(stage_win_banner(g)) :
        \E d \in BannerTiles : stage_win_banner(g)[k] = SpriteAt(d, "banner", g.winner)
    BY BannerStage
<1> QED BY <1>1 DEF Clear

\* What is under a list of sprites and what is over it.
LEMMA ShownBetween ==
    ASSUME NEW g \in GameStates, Paths(g), NEW px, NEW py, NEW ids,
           Clear(stage_win_banner(g), px, py, ids),
           \/ /\ Shown(stage_players(g), px, py, ids)
              /\ Clear(stage_bombs(g), px, py, ids)
              /\ \A e \in Players : Clear(stage_explosion(g, e), px, py, ids)
           \/ /\ Shown(stage_bombs(g), px, py, ids)
              /\ \A e \in Players : Clear(stage_explosion(g, e), px, py, ids)
           \/ \E e \in Players : /\ Shown(stage_explosion(g, e), px, py, ids)
                                 /\ Clear(stage_explosion(g, 1 - e), px, py, ids)
    PROVE  Shown(staged(g), px, py, ids)
<1> DEFINE P == stage_players(g)
           B == stage_bombs(g)
           E0 == stage_explosion(g, 0)
           E1 == stage_explosion(g, 1)
           W == stage_win_banner(g)
<1>1. /\ P \in Seq(Sprites) /\ B \in Seq(Sprites) /\ E0 \in Seq(Sprites)
      /\ E1 \in Seq(Sprites) /\ W \in Seq(Sprites)
      /\ P \o B \in Seq(Sprites) /\ E0 \o E1 \in Seq(Sprites)
      /\ (P \o B) \o (E0 \o E1) \in Seq(Sprites)
      /\ staged(g) = ((P \o B) \o (E0 \o E1)) \o W
    BY StagedSprites
<1>2. Clear(W, px, py, ids)
    OBVIOUS
<1>3. CASE \E e \in Players : /\ Shown(stage_explosion(g, e), px, py, ids)
                              /\ Clear(stage_explosion(g, 1 - e), px, py, ids)
  <2>1. \/ Shown(E0, px, py, ids) /\ Clear(E1, px, py, ids)
        \/ Shown(E1, px, py, ids) /\ Clear(E0, px, py, ids)
    <3>1. 1 - 0 = 1 /\ 1 - 1 = 0
        OBVIOUS
    <3> QED BY <1>3, <3>1, Opponents
  <2> HIDE DEF P, B, E0, E1, W
  <2>2. Shown(E0 \o E1, px, py, ids)
      BY <1>1, <2>1, ShownUnder, ShownOver
  <2>3. Shown((P \o B) \o (E0 \o E1), px, py, ids)
      BY <1>1, <2>2, ShownOver
  <2> QED BY <1>1, <1>2, <2>3, ShownUnder
<1>4. ASSUME \A e \in Players : Clear(stage_explosion(g, e), px, py, ids),
             Shown(P \o B, px, py, ids)
      PROVE  Shown(staged(g), px, py, ids)
  <2>1. Clear(E0, px, py, ids) /\ Clear(E1, px, py, ids)
      BY <1>4, Opponents
  <2> HIDE DEF P, B, E0, E1, W
  <2>2. Clear(E0 \o E1, px, py, ids)
      BY <1>1, <2>1, ClearConcat
  <2>3. Shown((P \o B) \o (E0 \o E1), px, py, ids)
      BY <1>1, <1>4, <2>2, ShownUnder
  <2> QED BY <1>1, <1>2, <2>3, ShownUnder
<1>5. CASE /\ Shown(stage_players(g), px, py, ids)
           /\ Clear(stage_bombs(g), px, py, ids)
           /\ \A e \in Players : Clear(stage_explosion(g, e), px, py, ids)
  <2>1. Shown(P \o B, px, py, ids)
      BY <1>1, <1>5, ShownUnder
  <2> QED BY <1>4, <1>5, <2>1
<1>6. CASE /\ Shown(stage_bombs(g), px, py, ids)
           /\ \A e \in Players : Clear(stage_explosion(g, e), px, py, ids)
  <2>1. Shown(P \o B, px, py, ids)
      BY <1>1, <1>6, ShownOver
  <2> QED BY <1>4, <1>6, <2>1
<1> QED BY <1>3, <1>5, <1>6

\* A player alive is hidden by nothing but its own bomb (PlayersVisible): by
\* no body, for bodies are apart; by no other bomb, for bombs keep their
\* tiles; by no blast, for nobody alive is in one; by no banner, for the
\* banner is off the tiles that can be entered.
THEOREM PlayersSeen == RenderSpec => []PlayersVisible
<1>1. Ruled(game) /\ Framed => PlayersVisible
  <2> SUFFICES ASSUME Ruled(game), shadow_sprites = video_set_sprites(staged(game)),
                      NEW p \in Players, game.players[p].alive,
                      NEW q \in Corners(game.players[p].x, game.players[p].y)
               PROVE  Picture(q[1], q[2]) \in {<<"player", p>>, <<"bomb", p>>}
      BY DEF Framed, PlayersVisible, Drawn, Shows
  <2> DEFINE pl  == game.players[p]
             ids == {<<"player", p>>, <<"bomb", p>>}
  <2>1. /\ pl \in PlayerStates /\ pl.alive /\ OnPath(pl) /\ pl.x \in Nat /\ pl.y \in Nat
        /\ game \in GameStates /\ Paths(game)
      BY DEF Ruled, GameStates, Paths, PlayerStates
  <2>2. q[1] \in Nat /\ q[2] \in Nat
      BY <2>1, OwnCorners
  <2>3. \A d \in Int \X Int : \A kind, owner : Covers(SpriteAt(d, kind, owner), q[1], q[2]) =>
            rect_overlaps_tile(pl.x, pl.y, d) /\ d \in Pos /\ Occupies(pl, d)
      BY <2>1, CornerOverlap, BodyTiles
  <2>4. Shown(stage_players(game), q[1], q[2], ids)
    <3>1. Stage(stage_players(game), BodyOf(game), Living(game)) /\ p \in Living(game)
        BY <2>1, PlayersStage DEF Living
    <3>2. Covers(BodyOf(game)[p], q[1], q[2])
        BY <2>1, <3>1, OwnCorners DEF BodyOf
    <3>3. ASSUME NEW a \in Living(game), Covers(BodyOf(game)[a], q[1], q[2])
          PROVE  BodyOf(game)[a].id \in ids
      <4>1. CASE a = p
          BY <3>1, <4>1 DEF BodyOf, Sprite
      <4>2. CASE a # p
        <5> DEFINE o == game.players[a]
        <5>1. /\ o.alive /\ o \in PlayerStates
              /\ Covers(Sprite(o.x, o.y, "player", a), q[1], q[2])
            BY <2>1, <3>3 DEF Living, BodyOf, GameStates
        <5>2. \/ pl.x + TILE_SIZE <= o.x \/ o.x + TILE_SIZE <= pl.x
              \/ pl.y + TILE_SIZE <= o.y \/ o.y + TILE_SIZE <= pl.y
          <6>1. (p = 0 /\ a = 1) \/ (p = 1 /\ a = 0)
              BY <4>2 DEF Living, Players
          <6> QED BY <2>1, <5>1, <6>1 DEF Ruled
        <5>3. /\ q[1] \in {pl.x, pl.x + TILE_SIZE - 1} /\ q[2] \in {pl.y, pl.y + TILE_SIZE - 1}
              /\ TILE_SIZE \in Nat \ {0}
            BY TickAssumption DEF Corners
        <5>4. /\ q[1] >= o.x /\ q[1] - o.x < TILE_SIZE /\ q[2] >= o.y /\ q[2] - o.y < TILE_SIZE
              /\ o.x \in Nat /\ o.y \in Nat
            BY <5>1 DEF Covers, Sprite, PlayerStates
        <5> HIDE DEF pl, o
        <5>5. FALSE
            BY <2>1, <5>2, <5>3, <5>4
        <5> QED BY <5>5
      <4> QED BY <4>1, <4>2
    <3> QED BY <3>1, <3>2, <3>3, StageShown
  <2>5. Clear(stage_bombs(game), q[1], q[2], ids)
    <3>1. Stage(stage_bombs(game), BombOf(game), Lit(game))
        BY <2>1, BombsStage
    <3>2. ASSUME NEW b \in Lit(game), Covers(BombOf(game)[b], q[1], q[2])
          PROVE  BombOf(game)[b].id \in ids
      <4>1. BombOf(game)[b] = SpriteAt(game.bombs[b].pos, "bomb", b) /\ b \in Players /\ game.bombs[b].active
          BY DEF BombOf, Lit
      <4>2. game.bombs[b].pos \in Pos /\ game.bombs[b].pos \in Int \X Int
          BY <2>1, <4>1, BlastCellsType DEF GameStates, BombStates
      <4>3. Occupies(pl, game.bombs[b].pos)
          BY <2>3, <3>2, <4>1, <4>2
      <4>4. b = p
        <5>1. ~Occupies(game.players[1 - b], game.bombs[b].pos)
            BY <4>1 DEF Ruled, BombTiles
        <5>2. p = b \/ p = 1 - b
            BY <4>1 DEF Players
        <5> QED BY <4>3, <5>1, <5>2
      <4> QED BY <4>1, <4>4 DEF SpriteAt, Sprite
    <3> QED BY <3>1, <3>2, StageClear
  <2>6. ASSUME NEW e \in Players PROVE Clear(stage_explosion(game, e), q[1], q[2], ids)
    <3>1. Stage(stage_explosion(game, e), FlameOf(game, e), Burnt(game, e))
        BY <2>1, BlastStage
    <3>2. ASSUME NEW c \in Burnt(game, e), Covers(FlameOf(game, e)[c], q[1], q[2]) PROVE FALSE
      <4>1. /\ FlameOf(game, e)[c] = SpriteAt(c, "blast", e)
            /\ game.explosions[e].active /\ c \in BlastCells(game.explosions[e].center) /\ c \in Pos
          BY DEF FlameOf, Burnt
      <4>2. c \in Int \X Int
          BY <4>1, BlastCellsType
      <4>3. rect_overlaps_tile(pl.x, pl.y, c)
          BY <2>3, <3>2, <4>1, <4>2
      <4> QED BY <2>1, <4>1, <4>3 DEF Ruled, Spared, explosion_hits_player
    <3> QED BY <3>1, <3>2, StageClear
  <2>7. Clear(stage_win_banner(game), q[1], q[2], ids)
    <3>1. ASSUME NEW d \in BannerTiles, Covers(SpriteAt(d, "banner", game.winner), q[1], q[2]) PROVE FALSE
      <4>1. d \in Int \X Int
          BY BannerSprite, Opponents
      <4>2. d \in Pos /\ Occupies(pl, d)
          BY <2>3, <3>1, <4>1
      <4>3. d \in Ownable
          BY <4>2 DEF Ruled, Placed
      <4> QED BY <4>3, BannerAway
    <3> QED BY <2>1, <3>1, BannerClear
  <2>8. Shown(staged(game), q[1], q[2], ids)
      BY <2>1, <2>4, <2>5, <2>6, <2>7, ShownBetween
  <2> QED BY <2>2, <2>8, OnScreen
<1> QED BY <1>1, RuledAlways, FramedAlways, PTL

\* A pixel of a burning cell shows a blast.
LEMMA BurningSeen ==
    ASSUME Ruled(game), NEW e \in Players, NEW c \in Burnt(game, e),
           NEW q \in Corners(PixelX(c), PixelY(c))
    PROVE  Shown(staged(game), q[1], q[2], {"blast"} \X Players)
<1> DEFINE ids == {"blast"} \X Players
<1>1. game \in GameStates /\ Paths(game)
    BY DEF Ruled
<1>2. /\ c \in Pos /\ game.explosions[e].active /\ c \in BlastCells(game.explosions[e].center)
      /\ game.explosions[e].center \in Ownable
    BY DEF Burnt, Ruled, Placed
<1>3. ASSUME NEW i \in Players PROVE \A a \in Burnt(game, i) : FlameOf(game, i)[a].id \in ids
    BY DEF FlameOf, SpriteAt, Sprite
<1>4. FlameOf(game, e)[c] = SpriteAt(c, "blast", e)
    BY DEF FlameOf
<1>5. Covers(FlameOf(game, e)[c], q[1], q[2])
  <2>1. PixelX(c) \in Nat /\ PixelY(c) \in Nat
      BY <1>2, PixelType
  <2> QED BY <1>4, <2>1, OwnCorners DEF SpriteAt
<1> HIDE DEF ids
<1>6. Shown(stage_explosion(game, e), q[1], q[2], ids)
    BY <1>1, <1>3, <1>5, BlastStage, StageShown
<1>7. Clear(stage_explosion(game, 1 - e), q[1], q[2], ids)
  <2>1. 1 - e \in Players
      BY Opponents
  <2> QED BY <1>1, <1>3, <2>1, BlastStage, StageClear
<1>8. Clear(stage_win_banner(game), q[1], q[2], ids)
  <2>1. ASSUME NEW d \in BannerTiles, Covers(SpriteAt(d, "banner", game.winner), q[1], q[2]) PROVE FALSE
    <3>1. d \in Int \X Int
        BY BannerSprite, Opponents
    <3>2. d = c
        BY <1>2, <2>1, <3>1, OtherTile
    <3> QED BY <1>2, <3>2, BannerAway
  <2> QED BY <1>1, <2>1, BannerClear
<1>9. Shown(staged(game), q[1], q[2], ids)
    BY <1>1, <1>6, <1>7, <1>8, ShownBetween
<1> QED BY <1>9 DEF ids

\* A burning cell is seen burning, and a lit bomb is seen where nothing burns
\* (BlastsOnTop): blasts have higher registers than bombs, and no two bombs
\* share a tile.
THEOREM BlastsSeen == RenderSpec => []BlastsOnTop
<1>1. Ruled(game) /\ Framed => BlastsOnTop
  <2> SUFFICES ASSUME Ruled(game), shadow_sprites = video_set_sprites(staged(game)), NEW i \in Players
               PROVE  /\ game.explosions[i].active =>
                            \A c \in BlastCells(game.explosions[i].center) \cap Pos :
                                Shows(PixelX(c), PixelY(c), {"blast"} \X Players)
                      /\ game.bombs[i].active =>
                            LET c == game.bombs[i].pos
                            IN  Shows(PixelX(c), PixelY(c),
                                      IF tile_in_active_explosion(game, c)
                                      THEN {"blast"} \X Players ELSE {<<"bomb", i>>})
      BY DEF Framed, BlastsOnTop, Drawn
  <2>0. game \in GameStates /\ Paths(game)
      BY DEF Ruled
  <2>1. ASSUME NEW e \in Players, game.explosions[e].active,
               NEW c \in BlastCells(game.explosions[e].center) \cap Pos
        PROVE  Shows(PixelX(c), PixelY(c), {"blast"} \X Players)
    <3> SUFFICES ASSUME NEW q \in Corners(PixelX(c), PixelY(c))
                 PROVE  Picture(q[1], q[2]) \in {"blast"} \X Players
        BY DEF Shows
    <3>1. c \in Burnt(game, e)
        BY <2>1 DEF Burnt
    <3>2. q[1] \in Nat /\ q[2] \in Nat
        BY PixelType, OwnCorners
    <3> QED BY <3>1, <3>2, BurningSeen, OnScreen
  <2>2. ASSUME game.bombs[i].active
        PROVE  LET c == game.bombs[i].pos
               IN  Shows(PixelX(c), PixelY(c),
                         IF tile_in_active_explosion(game, c)
                         THEN {"blast"} \X Players ELSE {<<"bomb", i>>})
    <3> DEFINE c == game.bombs[i].pos
    <3>1. c \in Pos /\ c \in Ownable /\ c \in Int \X Int
        BY <2>0, <2>2, BlastCellsType DEF GameStates, BombStates, Ruled, Placed
    <3> HIDE DEF c
    <3>2. CASE tile_in_active_explosion(game, c)
      <4>1. PICK e \in Players : game.explosions[e].active /\ c \in BlastCells(game.explosions[e].center)
          BY <3>2 DEF tile_in_active_explosion
      <4>2. Shows(PixelX(c), PixelY(c), {"blast"} \X Players)
          BY <2>1, <3>1, <4>1
      <4> QED BY <3>2, <4>2 DEF c
    <3>3. CASE ~tile_in_active_explosion(game, c)
      <4>1. ASSUME NEW q \in Corners(PixelX(c), PixelY(c))
            PROVE  Picture(q[1], q[2]) \in {<<"bomb", i>>}
        <5> DEFINE ids == {<<"bomb", i>>}
        <5>1. q[1] \in Nat /\ q[2] \in Nat
            BY <3>1, PixelType, OwnCorners
        <5>2. \A d \in Int \X Int : \A kind, owner : Covers(SpriteAt(d, kind, owner), q[1], q[2]) => d = c
            BY <3>1, OtherTile
        <5>3. Shown(stage_bombs(game), q[1], q[2], ids)
          <6>1. Stage(stage_bombs(game), BombOf(game), Lit(game)) /\ i \in Lit(game)
              BY <2>0, <2>2, BombsStage DEF Lit
          <6>2. Covers(BombOf(game)[i], q[1], q[2])
            <7>1. BombOf(game)[i] = SpriteAt(c, "bomb", i)
                BY <6>1 DEF BombOf, c
            <7>2. PixelX(c) \in Nat /\ PixelY(c) \in Nat
                BY <3>1, PixelType
            <7> QED BY <7>1, <7>2, OwnCorners DEF SpriteAt
          <6>3. ASSUME NEW b \in Lit(game), Covers(BombOf(game)[b], q[1], q[2])
                PROVE  BombOf(game)[b].id \in ids
            <7>1. BombOf(game)[b] = SpriteAt(game.bombs[b].pos, "bomb", b) /\ b \in Players /\ game.bombs[b].active
                BY DEF BombOf, Lit
            <7>2. game.bombs[b].pos \in Int \X Int
              <8>1. game.bombs[b].pos \in Pos
                  BY <2>0, <7>1 DEF GameStates, BombStates
              <8> QED BY <8>1, BlastCellsType
            <7>3. game.bombs[b].pos = c
                BY <5>2, <6>3, <7>1, <7>2
            <7>4. b = i
              <8>1. b = i \/ b = 1 - i
                  BY <7>1 DEF Players
              <8>2. b = 1 - i => game.bombs[b].pos # c
                  BY <2>2, <7>1 DEF Ruled, BombTiles, c
              <8> QED BY <7>3, <8>1, <8>2
            <7> QED BY <7>1, <7>4 DEF SpriteAt, Sprite
          <6> HIDE DEF ids
          <6> QED BY <6>1, <6>2, <6>3, StageShown
        <5>4. ASSUME NEW e \in Players PROVE Clear(stage_explosion(game, e), q[1], q[2], ids)
          <6>1. ASSUME NEW a \in Burnt(game, e), Covers(FlameOf(game, e)[a], q[1], q[2]) PROVE FALSE
            <7>1. /\ FlameOf(game, e)[a] = SpriteAt(a, "blast", e)
                  /\ game.explosions[e].active /\ a \in BlastCells(game.explosions[e].center) /\ a \in Pos
                BY DEF FlameOf, Burnt
            <7>2. a \in Int \X Int
                BY <7>1, BlastCellsType
            <7>3. a = c
                BY <5>2, <6>1, <7>1, <7>2
            <7> QED BY <3>3, <7>1, <7>3 DEF tile_in_active_explosion
          <6> HIDE DEF ids
          <6> QED BY <2>0, <6>1, BlastStage, StageClear
        <5>5. Clear(stage_win_banner(game), q[1], q[2], ids)
          <6>1. ASSUME NEW d \in BannerTiles, Covers(SpriteAt(d, "banner", game.winner), q[1], q[2]) PROVE FALSE
            <7>1. d \in Int \X Int
                BY BannerSprite, Opponents
            <7>2. d = c
                BY <5>2, <6>1, <7>1
            <7> QED BY <3>1, <7>2, BannerAway
          <6> HIDE DEF ids
          <6> QED BY <2>0, <6>1, BannerClear
        <5> HIDE DEF ids
        <5>6. Shown(staged(game), q[1], q[2], ids)
            BY <2>0, <5>3, <5>4, <5>5, ShownBetween
        <5>7. Picture(q[1], q[2]) \in ids
            BY <5>1, <5>6, OnScreen
        <5> QED BY <5>7 DEF ids
      <4>2. Shows(PixelX(c), PixelY(c), {<<"bomb", i>>})
          BY <4>1 DEF Shows
      <4> QED BY <3>3, <4>2 DEF c
    <3> QED BY <3>2, <3>3
  <2> QED BY <2>1, <2>2
<1> QED BY <1>1, RuledAlways, FramedAlways, PTL

\* The quotient and the remainder of a * k + b.
LEMMA Quotient ==
    ASSUME NEW a \in Nat, NEW k \in Nat \ {0}, NEW b \in 0..k - 1
    PROVE  (a * k + b) \div k = a /\ (a * k + b) % k = b
<1> DEFINE n == a * k + b
           quo == n \div k
           rem == n % k
<1>1. n \in Nat /\ a * k \in Nat /\ b \in Nat /\ b < k
    OBVIOUS
<1>2. quo \in Nat /\ rem \in 0..k - 1 /\ n = k * quo + rem
  <2> HIDE DEF n
  <2> QED BY <1>1
<1> HIDE DEF quo, rem
<1>3. n = quo * k + rem /\ quo * k \in Nat /\ rem \in Nat /\ rem < k
    BY <1>2
<1>4. ~(quo < a)
  <2> SUFFICES ASSUME quo < a PROVE FALSE
      OBVIOUS
  <2>1. PICK d \in Nat : a = quo + 1 + d
    <3>1. a - quo - 1 \in Nat /\ a = quo + 1 + (a - quo - 1)
        BY <1>2
    <3> QED BY <3>1
  <2>2. a * k = quo * k + k + d * k /\ d * k \in Nat
      BY <1>2, <2>1
  <2> QED BY <1>1, <1>3, <2>2
<1>5. ~(a < quo)
  <2> SUFFICES ASSUME a < quo PROVE FALSE
      OBVIOUS
  <2>1. PICK d \in Nat : quo = a + 1 + d
    <3>1. quo - a - 1 \in Nat /\ quo = a + 1 + (quo - a - 1)
        BY <1>2
    <3> QED BY <3>1
  <2>2. quo * k = a * k + k + d * k /\ d * k \in Nat
      BY <1>2, <2>1
  <2> QED BY <1>1, <1>3, <2>2
<1>6. quo = a
    BY <1>2, <1>4, <1>5
<1>7. rem = b
    BY <1>1, <1>3, <1>6
<1> QED BY <1>6, <1>7 DEF quo, rem

\* The renderer fetches, for a pixel, the byte of the tile the pixel lies on.
LEMMA TileFetched ==
    ASSUME NEW g, NEW c \in Pos, NEW q \in Corners(PixelX(c), PixelY(c))
    PROVE  staged_tiles(g)[tile_address(q[1], q[2])] = g.tiles[c]
<1>1. /\ TILE_SIZE \in Nat \ {0} /\ MAP_ROWS \in Nat /\ MAP_COLS \in Nat \ {0}
      /\ c[1] \in 0..MAP_ROWS - 1 /\ c[2] \in 0..MAP_COLS - 1 /\ c = <<c[1], c[2]>>
    BY SizeAssumption, TickAssumption DEF Pos
<1>2. /\ q[1] = PixelX(c) + 0 \/ q[1] = PixelX(c) + (TILE_SIZE - 1)
      /\ q[2] = PixelY(c) + 0 \/ q[2] = PixelY(c) + (TILE_SIZE - 1)
  <2>1. PixelX(c) \in Nat /\ PixelY(c) \in Nat
      BY PixelType
  <2> QED BY <1>1, <2>1 DEF Corners
<1>3. 0 \in 0..TILE_SIZE - 1 /\ TILE_SIZE - 1 \in 0..TILE_SIZE - 1 /\ c[1] \in Nat /\ c[2] \in Nat
    BY <1>1
<1>4. q[1] \div TILE_SIZE = c[2]
  <2>1. (c[2] * TILE_SIZE + 0) \div TILE_SIZE = c[2]
      BY <1>1, <1>3, Quotient
  <2>2. (c[2] * TILE_SIZE + (TILE_SIZE - 1)) \div TILE_SIZE = c[2]
      BY <1>1, <1>3, Quotient
  <2> QED BY <1>2, <2>1, <2>2 DEF PixelX
<1>5. q[2] \div TILE_SIZE = c[1]
  <2>1. (c[1] * TILE_SIZE + 0) \div TILE_SIZE = c[1]
      BY <1>1, <1>3, Quotient
  <2>2. (c[1] * TILE_SIZE + (TILE_SIZE - 1)) \div TILE_SIZE = c[1]
      BY <1>1, <1>3, Quotient
  <2> QED BY <1>2, <2>1, <2>2 DEF PixelY
<1> DEFINE a == c[1] * MAP_COLS + c[2]
<1>6. tile_address(q[1], q[2]) = a
    BY <1>4, <1>5 DEF tile_address
<1>7. a \div MAP_COLS = c[1] /\ a % MAP_COLS = c[2]
    BY <1>1, <1>3, Quotient
<1>8. a \in Addresses
  <2>1. PICK d \in Nat : MAP_ROWS = c[1] + 1 + d
    <3>1. MAP_ROWS - c[1] - 1 \in Nat /\ MAP_ROWS = c[1] + 1 + (MAP_ROWS - c[1] - 1)
        BY <1>1
    <3> QED BY <3>1
  <2>2. /\ MAP_ROWS * MAP_COLS = c[1] * MAP_COLS + MAP_COLS + d * MAP_COLS
        /\ c[1] * MAP_COLS \in Nat /\ d * MAP_COLS \in Nat
      BY <1>1, <1>3, <2>1
  <2> QED BY <1>1, <1>3, <2>2 DEF Addresses
<1> HIDE DEF a
<1>9. staged_tiles(g)[a] = g.tiles[<<a \div MAP_COLS, a % MAP_COLS>>]
    BY <1>8 DEF staged_tiles
<1> QED BY <1>1, <1>6, <1>7, <1>9

\* Every thing of the game has a register and nothing else has one, and every
\* pixel fetches its own tile (FrameComplete): the stages together need no
\* more registers than there are.
THEOREM FramesComplete == RenderSpec => []FrameComplete
<1> DEFINE fire == {burn \in Players \X Pos :
                        /\ game.explosions[burn[1]].active
                        /\ burn[2] \in BlastCells(game.explosions[burn[1]].center)}
           banner == IF game.game_over /\ game.winner # -1 THEN 4 ELSE 0
           used == {slot \in Slots : shadow_sprites[slot].enable}
<1>1. ASSUME Ruled(game), shadow_sprites = video_set_sprites(staged(game))
      PROVE  Cardinality(used) = Cardinality(Living(game)) + Cardinality(Lit(game)) + Cardinality(fire) + banner
  <2> DEFINE n == Len(staged(game))
             F0 == {0} \X Burnt(game, 0)
             F1 == {1} \X Burnt(game, 1)
  <2>1. /\ n = Cardinality(Living(game)) + Cardinality(Lit(game))
                + (Cardinality(Burnt(game, 0)) + Cardinality(Burnt(game, 1))) + banner
        /\ n \in Nat /\ n <= VIDEO_SPRITE_COUNT /\ VIDEO_SPRITE_COUNT \in Nat
      BY <1>1, Registers, RegisterAssumption DEF Ruled
  <2>2. used = 0..n - 1
    <3>1. ASSUME NEW slot \in Slots PROVE shadow_sprites[slot].enable <=> slot < n
        BY <1>1 DEF video_set_sprites, video_pack_sprite, Cleared
    <3> HIDE DEF n
    <3>2. Slots = 0..VIDEO_SPRITE_COUNT - 1
        BY DEF Slots
    <3>3. ASSUME NEW slot \in 0..n - 1 PROVE slot \in Slots /\ slot < n
        BY <2>1, <3>2
    <3>4. ASSUME NEW slot \in Slots, slot < n PROVE slot \in 0..n - 1
        BY <2>1, <3>2, <3>4
    <3> QED BY <3>1, <3>3, <3>4
  <2>3. Cardinality(0..n - 1) = n
    <3> HIDE DEF n
    <3>1. 0 \in Int /\ n - 1 \in Int /\ (IF 0 > n - 1 THEN 0 ELSE n - 1 - 0 + 1) = n
        BY <2>1
    <3> QED BY <3>1, FS_Interval
  <2>4. fire = F0 \cup F1
    <3>1. ASSUME NEW burn \in fire PROVE burn \in F0 \cup F1
      <4>1. burn = <<burn[1], burn[2]>> /\ burn[1] \in {0, 1} /\ burn[2] \in Burnt(game, burn[1])
          BY DEF Burnt, Players
      <4> QED BY <4>1
    <3>2. ASSUME NEW burn \in F0 \cup F1 PROVE burn \in fire
        BY Opponents DEF Burnt
    <3> QED BY <3>1, <3>2
  <2>5. /\ IsFiniteSet(Burnt(game, 0)) /\ Cardinality(Burnt(game, 0)) \in Nat
        /\ IsFiniteSet(Burnt(game, 1)) /\ Cardinality(Burnt(game, 1)) \in Nat
      BY BurntSize, Opponents, FS_CardinalityType
  <2>6. /\ IsFiniteSet(F0) /\ Cardinality(F0) = Cardinality(Burnt(game, 0))
        /\ IsFiniteSet(F1) /\ Cardinality(F1) = Cardinality(Burnt(game, 1))
    <3>1. IsFiniteSet({0}) /\ Cardinality({0}) = 1 /\ IsFiniteSet({1}) /\ Cardinality({1}) = 1
        BY FS_Singleton
    <3>2. /\ IsFiniteSet(F0) /\ Cardinality(F0) = Cardinality({0}) * Cardinality(Burnt(game, 0))
          /\ IsFiniteSet(F1) /\ Cardinality(F1) = Cardinality({1}) * Cardinality(Burnt(game, 1))
        BY <2>5, <3>1, FS_Product
    <3>3. \A m \in Nat : 1 * m = m
        OBVIOUS
    <3> QED BY <2>5, <3>1, <3>2, <3>3
  <2>7. Cardinality(F0 \cup F1) = Cardinality(F0) + Cardinality(F1)
    <3>1. F0 \cap F1 = {}
        OBVIOUS
    <3>2. Cardinality(F0 \cup F1) = Cardinality(F0) + Cardinality(F1) - Cardinality(F0 \cap F1)
        BY <2>6, FS_Union
    <3>3. Cardinality(F0) \in Nat /\ Cardinality(F1) \in Nat
        BY <2>5, <2>6
    <3>4. Cardinality(F0 \cap F1) = 0
        BY <3>1, FS_EmptySet
    <3> HIDE DEF F0, F1
    <3> QED BY <3>2, <3>3, <3>4
  <2>8. Cardinality(fire) = Cardinality(Burnt(game, 0)) + Cardinality(Burnt(game, 1))
      BY <2>4, <2>6, <2>7
  <2> HIDE DEF n, F0, F1, fire, banner, used
  <2> QED BY <2>1, <2>2, <2>3, <2>8
<1>2. Ruled(game) /\ Framed => FrameComplete
  <2> SUFFICES ASSUME Ruled(game), shadow_sprites = video_set_sprites(staged(game)),
                      shadow_tiles = staged_tiles(game)
               PROVE  /\ Cardinality(used) =
                            Cardinality({p \in Players : game.players[p].alive})
                            + Cardinality({b \in Players : game.bombs[b].active})
                            + Cardinality(fire) + banner
                      /\ \A c \in Pos : \A q \in Corners(PixelX(c), PixelY(c)) :
                            shadow_tiles[tile_address(q[1], q[2])] = game.tiles[c]
      BY DEF Framed, FrameComplete, Drawn
  <2> HIDE DEF used, fire, banner
  <2> QED BY <1>1, TileFetched DEF Living, Lit
<1> HIDE DEF used, fire, banner
<1> QED BY <1>2, RuledAlways, FramedAlways, PTL
=============================================================================
