---------------------------- MODULE GridGameLive ----------------------------
(***************************************************************************)
(* GridGame under the clock of the main loop (main.c, the loop of main):   *)
(* game_step is called again and again, whatever the players press, until  *)
(* the program is stopped.  tick changes with every call, so that a call   *)
(* that leaves the game as it was is still a step.                         *)
(***************************************************************************)
EXTENDS GridGame

VARIABLE tick
liveVars == <<game, tick>>

LiveInit == Init /\ tick = FALSE

\* One turn of the main loop.
Tick ==
    /\ Next
    /\ tick' = ~tick

\* Tick is always enabled, so weak fairness of Tick is that it happens
\* infinitely often.  No assumption is made about what is pressed.
LiveSpec == LiveInit /\ [][Tick]_liveVars /\ []<><<tick' # tick>>_liveVars

-----------------------------------------------------------------------------
\* A hit soft wall opens (or the game ends, or is reset): the two players
\* cannot keep it standing by bombing it in turn, although each new hit
\* postpones it.
HitWallsOpen ==
    \A c \in {w \in Pos : initial_map[w] = "SOFT_WALL"} :
        game.hits[c] > 0 ~> (game.game_over \/ game.tiles[c] = "BLUE" \/ game = ResetGame)

\* A player stays dead for ever only while, from some tick on, its spawn is
\* unsafe at every tick: the wait for the explosion never gets stuck.
DeadReturn ==
    \A p \in Players :
        <>[](~game.players[p].alive /\ ~game.game_over)
            => <>[](game.wait[p] = SAFE_WAIT /\ ~spawn_tile_safe(game, p))

=============================================================================
