------------------------------ MODULE MCWalls ------------------------------
\* GridGame with restarts, under fairness and as an implementation of Match,
\* on the arenas of module Arenas.
EXTENDS GridGameLive, GridGameRefinement, Arenas
=============================================================================
