----------------------------- MODULE ShippedMap -----------------------------
(***************************************************************************)
(* The arena the game ships with, in the tile numbers of tile_id_t, and    *)
(* what the rules rely on about it.                                        *)
(***************************************************************************)
EXTENDS Integers, FiniteSets, TLC

Rows ==
    <<<<4, 4, 4, 4, 4, 4, 4, 4, 4, 4, 4, 4, 4, 4, 4, 4, 4, 4, 4, 4>>,
      <<4, 1, 4, 1, 1, 4, 0, 0, 0, 0, 0, 0, 0, 0, 4, 1, 1, 4, 1, 4>>,
      <<4, 1, 5, 1, 1, 4, 0, 0, 0, 0, 0, 0, 0, 0, 4, 1, 1, 4, 1, 4>>,
      <<4, 1, 4, 1, 1, 4, 4, 4, 4, 4, 4, 4, 4, 4, 4, 1, 1, 5, 1, 4>>,
      <<4, 1, 5, 5, 1, 1, 1, 1, 1, 4, 1, 1, 1, 1, 1, 4, 4, 4, 1, 4>>,
      <<4, 1, 1, 4, 1, 1, 1, 1, 1, 5, 1, 4, 4, 4, 1, 5, 1, 1, 1, 4>>,
      <<4, 1, 1, 4, 4, 5, 4, 4, 4, 4, 1, 1, 1, 1, 1, 5, 1, 4, 1, 4>>,
      <<4, 1, 1, 5, 1, 1, 1, 1, 1, 5, 1, 1, 1, 1, 1, 4, 1, 4, 1, 4>>,
      <<4, 4, 4, 4, 4, 5, 4, 1, 1, 5, 1, 4, 5, 4, 4, 4, 5, 4, 5, 4>>,
      <<4, 1, 1, 1, 1, 1, 4, 1, 1, 4, 1, 1, 4, 1, 1, 1, 1, 4, 5, 4>>,
      <<4, 4, 5, 4, 1, 1, 4, 4, 5, 4, 1, 1, 5, 1, 1, 1, 1, 4, 1, 4>>,
      <<4, 1, 1, 4, 1, 1, 5, 1, 1, 1, 1, 4, 4, 1, 4, 4, 5, 4, 1, 4>>,
      <<4, 1, 1, 5, 1, 1, 4, 4, 4, 1, 1, 5, 1, 1, 1, 4, 1, 1, 1, 4>>,
      <<4, 1, 1, 4, 1, 1, 1, 1, 4, 1, 1, 4, 1, 1, 1, 5, 1, 1, 1, 4>>,
      <<4, 4, 4, 4, 4, 4, 4, 4, 4, 4, 4, 4, 4, 4, 4, 4, 4, 4, 4, 4>>>>

TileName == <<"EMPTY", "BLUE", "PINK", "YELLOW", "HARD_WALL", "SOFT_WALL">>

shipped_map ==
    [c \in (0..14) \X (0..19) |-> TileName[Rows[c[1] + 1][c[2] + 1] + 1]]

shipped_spawn == 0 :> <<1, 1>> @@ 1 :> <<1, 18>>

Capturable == {c \in DOMAIN shipped_map : shipped_map[c] \in {"BLUE", "SOFT_WALL"}}

=============================================================================
