----------------------------- MODULE MCMainLoop -----------------------------
\* MainLoop with a second of eight nanoseconds and four ticks a second, and
\* one other program on the audio device.
EXTENDS MainLoop

MCPrograms == {"game", "other"}
MCWrittenIds == {3, 5}
MCPendingSounds == {<<0, 0>>, <<1, 4>>}
MCStartTimes == {7}
=============================================================================
