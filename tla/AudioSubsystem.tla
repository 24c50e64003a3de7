---------------------------- MODULE AudioSubsystem ----------------------------
(***************************************************************************)
(* hardware/rtl/audio_subsystem.sv: the playback controller and the I2S    *)
(* transmitter on one clock, with the processor's register writes arriving *)
(* at any edge.  Both machines take the same edge: each sees the wires of  *)
(* the other as they were before it.                                       *)
(*                                                                         *)
(* Three history variables observe them: what the codec sampled last, how  *)
(* many frames were latched, and which effect is still to be heard.        *)
(***************************************************************************)
EXTENDS AudioController, I2STransmitter

CONSTANT BusInputs    \* what the processor may do in a clock period

ASSUME BusAssumption == BusInputs \subseteq BusCycles /\ IdleBus \in BusInputs

VARIABLES
    rx,      \* the bit the codec sampled last: its word, index and channel
    beat,    \* the number of latched frames since the reset, modulo BGM_LENGTH
    asked    \* the last effect written, 0 once a frame was latched since

vars == <<ctl, tx, rx, beat, asked>>

Nothing == [word |-> Zero, bit |-> 0, right |-> TRUE]

\* The codec samples dacdat on the edge that raises BCLK.
bclk_edge_rising == bclk_toggles /\ ~bclk_int
CodecSamples ==
    rx' = IF bclk_edge_rising THEN [word |-> dacdat.word, bit |-> dacdat.bit, right |-> lrck]
                              ELSE rx

CountFrames == beat' = IF latches THEN (beat + 1) % BGM_LENGTH ELSE beat

NoteEffect(bus) ==
    asked' = IF Triggers(bus) THEN bus.id ELSE IF latches THEN 0 ELSE asked

Init == CtlInit /\ TxInit /\ rx = Nothing /\ beat = 0 /\ asked = 0

Reset ==
    /\ CtlReset /\ TxReset
    /\ rx' = Nothing /\ beat' = 0 /\ asked' = 0

Clock(bus) ==
    /\ CtlClock(sample_req, bus)
    /\ TxClock(sample, sample)
    /\ CodecSamples /\ CountFrames /\ NoteEffect(bus)

Quiet == Clock(IdleBus)

Tick == \E bus \in BusInputs : Clock(bus)

Next == Reset \/ Tick

Spec == Init /\ [][Next]_vars

\* The clock runs: edges on which the processor is idle keep coming.
FairSpec == Spec /\ WF_vars(Quiet)

-----------------------------------------------------------------------------
\* Properties

TypeOK ==
    /\ CtlTypeOK
    /\ bclk_div_cnt \in 0..2^BCLK_CNT_WIDTH - 1
    /\ bit_cnt \in 0..FRAME_BITS - 1
    /\ bclk_int \in BOOLEAN
    /\ beat \in 0..BGM_LENGTH - 1 /\ asked \in Tracks

\* What the codec samples is framed: a slot is a word from its top bit to its
\* bottom bit, the slots alternate, and the right slot and the left slot below
\* its top bit carry one word (the left top bit is LeftSlotWhole's matter).
FramesAligned ==
    [][Reset \/ rx' = rx \/ rx = Nothing
       \/ /\ rx.bit > 0
          /\ rx'.bit = rx.bit - 1 /\ rx'.right = rx.right
          /\ (~rx.right /\ rx.bit = BITS_PER_CHANNEL - 1) \/ rx'.word = rx.word
       \/ /\ rx.bit = 0
          /\ rx'.bit = BITS_PER_CHANNEL - 1 /\ rx'.right = ~rx.right
          /\ rx'.right => rx'.word = rx.word]_vars

\* "Latch a fresh sample pair at the start of every left-channel slot": all the
\* bits of a left slot belong to one word, as the frame layout draws it (the
\* frame a reset interrupts apart).
LeftSlotWhole ==
    [][Reset \/ rx' = rx \/ rx.word = Zero \/ rx.bit = 0 \/ rx'.word = rx.word]_vars

\* The wire changes only as BCLK falls, never around the edge the codec
\* samples on.
DataStable == [][dacdat' # dacdat => Reset \/ (bclk_int /\ ~bclk_int')]_vars

\* The number of bits of a frame is no power of two, and the transmitter
\* recognises the last one and requests samples.  With the repository's 16 bits
\* per channel it is one, 32.
RequestsRun == FRAME_BITS < 2^BIT_CNT_WIDTH

\* What is heard where it does not: no request ever comes from a comparison gone
\* wrong, and every frame, in whatever order effects are written, repeats the
\* first sample of the music or of an effect.
FirstSampleOnly == ~sample_req /\ (shift_l = Zero \/ shift_l.idx = 0)

\* From one latched frame to the next the producer moves by one sample: no
\* sample is sent twice or left out, and the music comes back only after an
\* effect's last sample.  (A write between a latch and the request that follows
\* it costs the effect its first sample.)
SamplesInOrder ==
    latches /\ shift_l # Zero =>
        \/ sample.track \in Effects /\ sample.idx \in {0, 1}
        \/ sample.track \in Effects /\ shift_l = [sample EXCEPT !.idx = @ - 1]
        \/ sample.track = 0 /\ shift_l.track = 0 /\ sample.idx = (shift_l.idx + 1) % BGM_LENGTH
        \/ sample.track = 0 /\ shift_l.track # 0 /\ shift_l.idx = track_length[shift_l.track] - 1

\* Whenever the music is latched it is where it would have been had no effect
\* been played: frame n after the reset carries sample n.
MusicKeepsTime == latches /\ sample.track = 0 => sample.idx = beat

\* An effect written at any edge, that of a sample request included, is what the
\* next latched frame carries, unless another one was written in between.
EffectHeard == latches /\ asked # 0 => sample.track = asked

\* When the processor stops writing, the music comes back.
EffectEnds == <>[][Quiet]_vars => <>[](~in_sfx)

\* "BCLK as a square wave with period MCLK_DIV_BCLK": it keeps rising and
\* falling while the clock runs, resets apart.
BclkRuns == <>[][Tick]_vars => []<>bclk_int /\ []<>(~bclk_int)

\* "The producer side is asked for a fresh sample pair": the requests keep
\* coming, resets apart.
RequestsKeepComing == <>[][Tick]_vars => []<>sample_req
=============================================================================
