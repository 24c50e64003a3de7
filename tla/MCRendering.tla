---------------------------- MODULE MCRendering ----------------------------
\* Rendering on the arenas of module Arenas.
EXTENDS Rendering, Arenas
=============================================================================
