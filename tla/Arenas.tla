------------------------------- MODULE Arenas -------------------------------
(***************************************************************************)
(* Small arenas and controller inputs for the model-checking runs.  Every  *)
(* arena has the hard-wall border of initial_map.                          *)
(***************************************************************************)
EXTENDS Integers, TLC

\* An arena whose inner tiles are blue except the listed ones.
Arena(rows, cols, soft, hard) ==
    [c \in (0..rows-1) \X (0..cols-1) |->
        IF c[1] \in {0, rows-1} \/ c[2] \in {0, cols-1} \/ c \in hard
        THEN "HARD_WALL"
        ELSE IF c \in soft THEN "SOFT_WALL" ELSE "BLUE"]

\* A corridor of four tiles, the players at its ends.
Corridor      == Arena(3, 6, {}, {})
CorridorEnds  == 0 :> <<1, 1>> @@ 1 :> <<1, 4>>
CorridorPads  == {{}, {"left"}, {"right", "bomb"}, {"restart"}}

\* A corridor of four tiles, one of them a soft wall next to a player's reach.
Pocket         == Arena(3, 6, {<<1, 3>>}, {})
PocketEnds     == 0 :> <<1, 1>> @@ 1 :> <<1, 4>>
SharedWallPads == {{}, {"left", "bomb"}, {"right", "bomb"}, {"restart"}}

\* A two by two field, the players at opposite corners.
Field        == Arena(4, 4, {}, {})
FieldCorners == 0 :> <<1, 1>> @@ 1 :> <<2, 2>>
FieldPads    == {{}, {"up"}, {"down"}, {"left"}, {"right"}, {"bomb", "up"}}
=============================================================================
