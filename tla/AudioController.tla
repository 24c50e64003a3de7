--------------------------- MODULE AudioController ---------------------------
(***************************************************************************)
(* hardware/rtl/audio_controller.sv: the playback state machine behind the *)
(* Sound Select register.  One step is one clock edge: the registers take  *)
(* their next values from the wires as they were before it.                *)
(*                                                                         *)
(* A sample is named by the track and the index the sound ROM is read at;  *)
(* track_length is what audio_sound_rom reports for each track, track 0    *)
(* being the background music.                                             *)
(***************************************************************************)
EXTENDS Integers

CONSTANT track_length

Tracks == 0..4
Effects == 1..4

\* The shortest track of audio_sound_rom has SAMPLE_RATE / 4 samples.
ASSUME LengthAssumption == track_length \in [Tracks -> Nat \ {0, 1}]

VARIABLES bgm_phase, sfx_phase, sfx_track, in_sfx, avs_readdata

ctl == <<bgm_phase, sfx_phase, sfx_track, in_sfx, avs_readdata>>

\* A clock period of the Avalon slave: whether it is written or read, at which
\* register, and bits [3:0] of the data.
BusCycles == [write : BOOLEAN, read : BOOLEAN, address : 0..3, id : 0..15]
IdleBus == [write |-> FALSE, read |-> FALSE, address |-> 0, id |-> 0]

BGM_LENGTH == track_length[0]

rom_track  == IF in_sfx THEN sfx_track ELSE 0
rom_idx    == IF in_sfx THEN sfx_phase ELSE bgm_phase
rom_length == track_length[rom_track]
sample     == [track |-> rom_track, idx |-> rom_idx]

Status(sfx, track) == [in_sfx |-> sfx, track |-> track]
NoStatus == Status(FALSE, 0)

CtlReset ==
    /\ bgm_phase' = 0 /\ sfx_phase' = 0 /\ sfx_track' = 0
    /\ in_sfx' = FALSE
    /\ avs_readdata' = NoStatus

CtlInit ==
    /\ bgm_phase = 0 /\ sfx_phase = 0 /\ sfx_track = 0
    /\ in_sfx = FALSE
    /\ avs_readdata = NoStatus

\* Mutant: the music waits for the end of the effect.
AdvanceMusic_Paused(sample_req) ==
    bgm_phase' = IF sample_req /\ ~in_sfx
                 THEN (IF bgm_phase = BGM_LENGTH - 1 THEN 0 ELSE bgm_phase + 1)
                 ELSE bgm_phase

\* The music advances with every sample, heard or not.
AdvanceMusic(sample_req) ==
    bgm_phase' = IF sample_req THEN (IF bgm_phase = BGM_LENGTH - 1 THEN 0 ELSE bgm_phase + 1)
                               ELSE bgm_phase

\* A write of 1..4 to register 0 starts an effect; anything else is a no-op.
Triggers(bus) == bus.write /\ bus.address = 0 /\ bus.id \in Effects

\* Mutant: the phase of the effect that was playing is kept.
StartEffect_KeepsPhase(bus) ==
    in_sfx' = TRUE /\ sfx_track' = bus.id /\ sfx_phase' = sfx_phase

\* The last assignment wins: a write overrides the advance of the same edge.
StartEffect(bus) == in_sfx' = TRUE /\ sfx_track' = bus.id /\ sfx_phase' = 0

\* Mutant: the effect ends one sample early.
AdvanceEffect_Early ==
    /\ IF sfx_phase >= rom_length - 2
       THEN in_sfx' = FALSE /\ sfx_phase' = 0
       ELSE sfx_phase' = sfx_phase + 1 /\ UNCHANGED in_sfx
    /\ UNCHANGED sfx_track

\* Mutant: the last sample is played for ever.
AdvanceEffect_Stuck ==
    /\ IF sfx_phase >= rom_length - 1
       THEN UNCHANGED <<in_sfx, sfx_phase>>
       ELSE sfx_phase' = sfx_phase + 1 /\ UNCHANGED in_sfx
    /\ UNCHANGED sfx_track

AdvanceEffect ==
    /\ IF sfx_phase >= rom_length - 1
       THEN in_sfx' = FALSE /\ sfx_phase' = 0
       ELSE sfx_phase' = sfx_phase + 1 /\ UNCHANGED in_sfx
    /\ UNCHANGED sfx_track

\* Mutant: the sample advance wins over a write of the same edge.
EffectNext_SampleWins(sample_req, bus) ==
    \/ sample_req /\ in_sfx /\ AdvanceEffect
    \/ ~(sample_req /\ in_sfx) /\ Triggers(bus) /\ StartEffect(bus)
    \/ ~(sample_req /\ in_sfx) /\ ~Triggers(bus) /\ UNCHANGED <<sfx_phase, sfx_track, in_sfx>>

EffectNext(sample_req, bus) ==
    \/ Triggers(bus) /\ StartEffect(bus)
    \/ ~Triggers(bus) /\ sample_req /\ in_sfx /\ AdvanceEffect
    \/ ~Triggers(bus) /\ ~(sample_req /\ in_sfx) /\ UNCHANGED <<sfx_phase, sfx_track, in_sfx>>

ReadNext(bus) ==
    avs_readdata' = IF ~bus.read THEN avs_readdata
                    ELSE IF bus.address = 0 THEN Status(in_sfx, rom_track) ELSE NoStatus

CtlClock(sample_req, bus) ==
    AdvanceMusic(sample_req) /\ EffectNext(sample_req, bus) /\ ReadNext(bus)

-----------------------------------------------------------------------------
\* The registers hold values of their widths; an effect that plays is one of
\* the four, and its phase is an index of that track.
CtlTypeOK ==
    /\ bgm_phase \in 0..BGM_LENGTH - 1
    /\ sfx_track \in Tracks /\ sfx_phase \in Nat
    /\ in_sfx \in BOOLEAN
    /\ avs_readdata \in [in_sfx : BOOLEAN, track : Tracks]

\* Whatever is written over a playing effect, the ROM is never read past the
\* end of the selected track, and no phase is left over for the next effect.
InsideTrack ==
    /\ rom_idx < rom_length
    /\ in_sfx => sfx_track \in Effects
    /\ ~in_sfx => sfx_phase = 0
=============================================================================
