------------------------------- MODULE Match -------------------------------
(***************************************************************************)
(* What a game promises its players, without pixels, bombs or timers: who  *)
(* owns which tile, who is alive, and who has won.  Land is counted, never *)
(* kept as a score.  GridGame implements it (module GridGameRefinement).   *)
(***************************************************************************)
EXTENDS Integers, FiniteSets

CONSTANTS
    Tiles,           \* the tiles that can ever be owned
    ClosedAtStart,   \* those behind a soft wall at the start
    Need             \* tiles to hold to win

Players == 0..1
Nobody  == -1
Closed  == -2

VARIABLES owner, alive, over, winner
matchVars == <<owner, alive, over, winner>>

Holding(p) == Cardinality({t \in Tiles : owner[t] = p})

Start ==
    /\ owner = [t \in Tiles |-> IF t \in ClosedAtStart THEN Closed ELSE Nobody]
    /\ alive = Players
    /\ over = FALSE
    /\ winner = Nobody

\* What a living player may claim in one tick: nothing, or one open tile.
Claims(p) ==
    {{}} \cup (IF p \in alive THEN {{t} : t \in {u \in Tiles : owner[u] # Closed}} ELSE {})

Claimed(c0, c1) ==
    [t \in Tiles |-> IF t \in c0 THEN 0 ELSE IF t \in c1 THEN 1 ELSE owner[t]]

\* The dead lose all their land, also what they claimed in the same tick.
Vacated(o, dead) == [t \in Tiles |-> IF o[t] \in dead THEN Nobody ELSE o[t]]

Opened(o, walls) == [t \in Tiles |-> IF t \in walls THEN Nobody ELSE o[t]]

Leader ==
    IF Holding(0) > Holding(1) THEN 0 ELSE IF Holding(1) > Holding(0) THEN 1 ELSE Nobody

\* In one tick each living player claims at most one tile, some die, some
\* soft walls open and some of the dead come back.
Tick ==
    /\ ~over
    /\ \E c0 \in Claims(0), c1 \in Claims(1), dead \in SUBSET alive :
       \E walls \in SUBSET {t \in Tiles : owner[t] = Closed} :
            /\ c0 \cap c1 = {}
            /\ owner' = Opened(Vacated(Claimed(c0, c1), dead), walls)
            /\ alive' \in SUBSET Players
            /\ alive \ dead \subseteq alive'
    /\ over' = (\E p \in Players : Holding(p)' >= Need)
    /\ winner' = IF over' THEN Leader' ELSE Nobody

Restart ==
    /\ owner' = [t \in Tiles |-> IF t \in ClosedAtStart THEN Closed ELSE Nobody]
    /\ alive' = Players
    /\ over' = FALSE
    /\ winner' = Nobody

Spec == Start /\ [][Tick \/ Restart]_matchVars

=============================================================================
