------------------------- MODULE GridGameRefinement -------------------------
(***************************************************************************)
(* GridGame implements Match.  A tile that is blue or a soft wall in       *)
(* initial_map can be owned; its owner is its colour.                      *)
(***************************************************************************)
EXTENDS GridGame

Ownable == {c \in Pos : initial_map[c] \in {"BLUE", "SOFT_WALL"}}
SoftAtStart == {c \in Pos : initial_map[c] = "SOFT_WALL"}

OwnerOf(tile) ==
    CASE tile = player_tile_id(0) -> 0
      [] tile = player_tile_id(1) -> 1
      [] tile = "SOFT_WALL" -> -2
      [] OTHER -> -1

M == INSTANCE Match WITH
        Tiles <- Ownable,
        ClosedAtStart <- SoftAtStart,
        Need <- WIN_SCORE,
        owner <- [c \in Ownable |-> OwnerOf(game.tiles[c])],
        alive <- {p \in Players : game.players[p].alive},
        over <- game.game_over,
        winner <- game.winner

\* Every tick of the engine is a tick of Match: whatever moves, bombs, deaths,
\* walls and respawns share it, each player wins at most one tile, only the
\* dead lose all, and the verdict is the count of the land.
ImplementsMatch == M!Spec

=============================================================================
