---------------------------- MODULE MCShippedMap ----------------------------
\* Rendering of the shipped arena: real map, spawns, pixels and registers,
\* with short timers and a tile crossed in two ticks.
EXTENDS Rendering, ShippedMap

ShippedPads == {{}, {"down"}, {"bomb", "up"}}

\* Two players cannot both hold the winning score of game.h, but one can: the
\* shipped map has 150 ownable tiles and the tie of the verdict is never
\* reached on it.
ShippedWinScore == 80
ASSUME NoTie ==
    Cardinality(Capturable) < 2 * ShippedWinScore /\ ShippedWinScore < Cardinality(Capturable)
=============================================================================
