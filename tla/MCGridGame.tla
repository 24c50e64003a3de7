----------------------------- MODULE MCGridGame -----------------------------
\* GridGame on the arenas of module Arenas.
EXTENDS GridGame, Arenas
=============================================================================
