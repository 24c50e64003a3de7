-------------------------- MODULE MCAudioSubsystem --------------------------
\* AudioSubsystem with short tracks; the register is written with no-op, valid
\* and out-of-range ids, and once at another address; and it is read.
EXTENDS AudioSubsystem, TLC

CONSTANT zero

MCTrackLength == (0 :> 5) @@ (1 :> 3) @@ (2 :> 4) @@ (3 :> 2) @@ (4 :> 2)
Writes(address, ids) ==
    {[write |-> TRUE, read |-> FALSE, address |-> address, id |-> i] : i \in ids}
StatusRead == [IdleBus EXCEPT !.read = TRUE]
MCBusInputs == {IdleBus, StatusRead} \cup Writes(0, {0, 1, 2, 3, 5}) \cup Writes(1, {2})
IdleBusOnly == {IdleBus}
=============================================================================
