------------------------ MODULE AudioSubsystem_proofs ------------------------
(***************************************************************************)
(* Theorems about the audio hardware, for tracks of any length, samples of *)
(* any width, any clock divider and any sequence of register writes and    *)
(* resets: what the sound ROM is read at, what the codec samples, and      *)
(* which sample each frame carries.                                        *)
(***************************************************************************)
EXTENDS AudioSubsystem, TLAPS

\* The inductive part: the phases are indices of the tracks they belong to.
PhasesFit ==
    /\ bgm_phase \in 0..BGM_LENGTH - 1
    /\ in_sfx \in BOOLEAN
    /\ sfx_track \in Tracks /\ sfx_phase \in Nat
    /\ in_sfx => sfx_track \in Effects /\ sfx_phase < track_length[sfx_track]
    /\ ~in_sfx => sfx_phase = 0

LEMMA Lengths == \A t \in Tracks : track_length[t] \in Nat /\ track_length[t] >= 2
BY LengthAssumption DEF Tracks

\* An edge keeps the effect's phase inside its track.
LEMMA EffectStep ==
    ASSUME PhasesFit, NEW req \in BOOLEAN, NEW bus, EffectNext(req, bus)
    PROVE  /\ in_sfx' \in BOOLEAN /\ sfx_track' \in Tracks /\ sfx_phase' \in Nat
           /\ in_sfx' => sfx_track' \in Effects /\ sfx_phase' < track_length[sfx_track']
           /\ ~in_sfx' => sfx_phase' = 0
<1>1. CASE Triggers(bus) /\ StartEffect(bus)
    <2>1. bus.id \in Effects /\ bus.id \in Tracks
        BY <1>1 DEF Triggers, Effects, Tracks
    <2>2. track_length[bus.id] > 0
        BY <2>1, Lengths
    <2> QED
        BY <1>1, <2>1, <2>2 DEF StartEffect
<1>2. CASE req /\ in_sfx /\ AdvanceEffect
    <2>1. sfx_track \in Tracks /\ track_length[sfx_track] \in Nat
        BY Lengths DEF PhasesFit
    <2>2. rom_length = track_length[sfx_track]
        BY <1>2 DEF rom_length, rom_track
    <2>3. sfx_phase \in Nat /\ sfx_phase < track_length[sfx_track] /\ sfx_track \in Effects
        BY <1>2 DEF PhasesFit
    <2>4. CASE sfx_phase >= rom_length - 1
        <3>1. in_sfx' = FALSE /\ sfx_phase' = 0 /\ sfx_track' = sfx_track
            BY <1>2, <2>4 DEF AdvanceEffect
        <3>2. in_sfx' \in BOOLEAN /\ ~in_sfx'
            BY <3>1, Zenon
        <3> QED
            BY <3>1, <3>2, <2>1
    <2>5. CASE ~(sfx_phase >= rom_length - 1)
        <3>1. in_sfx' = in_sfx /\ sfx_phase' = sfx_phase + 1 /\ sfx_track' = sfx_track
            BY <1>2, <2>5 DEF AdvanceEffect
        <3>2. in_sfx' \in BOOLEAN /\ in_sfx'
            BY <1>2, <3>1, Zenon DEF PhasesFit
        <3>3. sfx_phase' \in Nat /\ sfx_phase' < track_length[sfx_track']
            BY <2>1, <2>2, <2>3, <2>5, <3>1
        <3> QED
            BY <2>1, <2>3, <3>1, <3>2, <3>3
    <2> QED
        BY <2>4, <2>5
<1>3. CASE UNCHANGED <<sfx_phase, sfx_track, in_sfx>>
    BY <1>3 DEF PhasesFit
<1> QED
    BY <1>1, <1>2, <1>3 DEF EffectNext

\* An edge keeps the music's phase inside its track.
LEMMA MusicStep ==
    ASSUME PhasesFit, NEW req, AdvanceMusic(req)
    PROVE  bgm_phase' \in 0..BGM_LENGTH - 1
<1>1. BGM_LENGTH \in Nat /\ BGM_LENGTH >= 2
    BY Lengths DEF BGM_LENGTH, Tracks
<1> QED
    BY <1>1 DEF AdvanceMusic, PhasesFit

\* What the phases say is what the reads of the ROM need.
LEMMA FitIsInside == PhasesFit => InsideTrack
<1> SUFFICES ASSUME PhasesFit PROVE InsideTrack
    OBVIOUS
<1>1. CASE in_sfx
    BY <1>1 DEF PhasesFit, InsideTrack, rom_idx, rom_length, rom_track
<1>2. CASE ~in_sfx
    <2>1. BGM_LENGTH \in Nat
        BY Lengths DEF BGM_LENGTH, Tracks
    <2> QED
        BY <1>2, <2>1 DEF PhasesFit, InsideTrack, rom_idx, rom_length, rom_track, BGM_LENGTH
<1> QED
    BY <1>1, <1>2 DEF PhasesFit

LEMMA PhasesFitInit == Init => PhasesFit
<1>1. BGM_LENGTH \in Nat /\ BGM_LENGTH >= 2
    BY Lengths DEF BGM_LENGTH, Tracks
<1>2. 0 \in 0..BGM_LENGTH - 1 /\ 0 \in Tracks /\ 0 \in Nat
    BY <1>1 DEF Tracks
<1> QED
    BY <1>2, Zenon DEF Init, CtlInit, PhasesFit

LEMMA PhasesFitStep == PhasesFit /\ [Next]_vars => PhasesFit'
<1> SUFFICES ASSUME PhasesFit, [Next]_vars PROVE PhasesFit'
    OBVIOUS
<1>1. CASE Reset
    <2>1. BGM_LENGTH \in Nat /\ BGM_LENGTH >= 2
        BY Lengths DEF BGM_LENGTH, Tracks
    <2>2. 0 \in 0..BGM_LENGTH - 1 /\ 0 \in Tracks /\ 0 \in Nat
        BY <2>1 DEF Tracks
    <2> QED
        BY <1>1, <2>2, Zenon DEF Reset, CtlReset, PhasesFit, BGM_LENGTH
<1>2. ASSUME NEW bus \in BusInputs, Clock(bus) PROVE PhasesFit'
    <2>1. sample_req \in BOOLEAN
        BY DEF sample_req
    <2>2. EffectNext(sample_req, bus) /\ AdvanceMusic(sample_req)
        BY <1>2 DEF Clock, CtlClock
    <2> QED
        BY <2>1, <2>2, EffectStep, MusicStep DEF PhasesFit, BGM_LENGTH
<1>3. CASE UNCHANGED vars
    BY <1>3 DEF vars, ctl, PhasesFit, BGM_LENGTH
<1> QED
    BY <1>1, <1>2, <1>3 DEF Next, Tick

\* Whatever is written over a playing effect and whenever the reset comes, the
\* ROM is read inside the selected track (audio_controller.sv's phase counters).
THEOREM RomReadsInside == Spec => []InsideTrack
BY PhasesFitInit, PhasesFitStep, FitIsInside, PTL DEF Spec

-----------------------------------------------------------------------------
\* The wire to the codec.

LEMMA Widths ==
    /\ BITS_PER_CHANNEL \in Nat /\ BITS_PER_CHANNEL >= 2
    /\ FRAME_BITS \in Nat /\ FRAME_BITS = 2 * BITS_PER_CHANNEL
    /\ 2^BIT_CNT_WIDTH \in Nat /\ FRAME_BITS <= 2^BIT_CNT_WIDTH
    /\ BITS_PER_CHANNEL % 2^BIT_CNT_WIDTH = BITS_PER_CHANNEL
<1> DEFINE w == 2^BIT_CNT_WIDTH
<1>1. /\ BITS_PER_CHANNEL \in Nat /\ BITS_PER_CHANNEL >= 2
      /\ FRAME_BITS = 2 * BITS_PER_CHANNEL /\ w \in Nat /\ FRAME_BITS <= w
    BY ParameterAssumption, WidthAssumption DEF FRAME_BITS
<1> HIDE DEF w
<1>2. FRAME_BITS \in Nat /\ BITS_PER_CHANNEL % w = BITS_PER_CHANNEL
    BY <1>1
<1> QED
    BY <1>1, <1>2 DEF w

\* The bit counter runs through the frame, whether it is cleared by its
\* comparison or wraps by overflow.
LEMMA BitStep ==
    ASSUME bit_cnt \in 0..FRAME_BITS - 1, CountBit
    PROVE  bit_cnt' = IF ~bclk_edge_falling THEN bit_cnt
                      ELSE IF bit_cnt = FRAME_BITS - 1 THEN 0 ELSE bit_cnt + 1
<1> DEFINE w == 2^BIT_CNT_WIDTH
<1>1. FRAME_BITS \in Nat /\ w \in Nat /\ FRAME_BITS <= w
    BY Widths
<1>2. last_bit <=> bit_cnt = (FRAME_BITS % w) - 1
    BY DEF last_bit, LastCount
<1>3. bit_cnt' = IF ~bclk_edge_falling THEN bit_cnt ELSE IF last_bit THEN 0 ELSE (bit_cnt + 1) % w
    BY DEF CountBit
<1> HIDE DEF w
<1>4. CASE FRAME_BITS < w
    <2>1. FRAME_BITS % w = FRAME_BITS /\ (bit_cnt + 1 < w => (bit_cnt + 1) % w = bit_cnt + 1)
        BY <1>1, <1>4
    <2> QED
        BY <1>1, <1>2, <1>3, <1>4, <2>1
<1>5. CASE FRAME_BITS = w
    <2>1. FRAME_BITS % w = 0
        BY <1>1, <1>5
    <2>2. ~last_bit
        BY <1>2, <2>1
    <2>3. (bit_cnt + 1) % w = IF bit_cnt = w - 1 THEN 0 ELSE bit_cnt + 1
        BY <1>1, <1>5
    <2> QED
        BY <1>3, <1>5, <2>2, <2>3
<1> QED
    BY <1>1, <1>4, <1>5

\* What an edge does to the frame: nothing, the latch, a bit, or its last bit.
LEMMA BitPhases ==
    ASSUME bit_cnt \in 0..FRAME_BITS - 1, CountBit
    PROVE  \/ ~latches /\ ~sample_req /\ bit_cnt' = bit_cnt
           \/ latches /\ ~sample_req /\ bit_cnt = 0 /\ bit_cnt' # 0
           \/ ~latches /\ ~sample_req /\ bit_cnt # 0 /\ bit_cnt' # 0
           \/ /\ ~latches /\ bit_cnt # 0 /\ bit_cnt' = 0
              /\ FRAME_BITS < 2^BIT_CNT_WIDTH => sample_req
<1> DEFINE w == 2^BIT_CNT_WIDTH
<1>1. FRAME_BITS \in Nat /\ FRAME_BITS >= 4 /\ w \in Nat /\ FRAME_BITS <= w
    BY Widths
<1>2. last_bit <=> bit_cnt = (FRAME_BITS % w) - 1
    BY DEF last_bit, LastCount
<1>3. bit_cnt' = IF ~bclk_edge_falling THEN bit_cnt
                 ELSE IF bit_cnt = FRAME_BITS - 1 THEN 0 ELSE bit_cnt + 1
    BY BitStep
<1>4. (sample_req <=> bclk_edge_falling /\ last_bit) /\ (latches <=> bclk_edge_falling /\ bit_cnt = 0)
    BY DEF sample_req, latches
<1>5. (FRAME_BITS < w => FRAME_BITS % w = FRAME_BITS) /\ (FRAME_BITS = w => FRAME_BITS % w = 0)
    <2> HIDE DEF w
    <2> QED
        BY <1>1
<1> HIDE DEF w
<1>6. last_bit => bit_cnt = FRAME_BITS - 1
    BY <1>1, <1>2, <1>5
<1>7. FRAME_BITS < w /\ bit_cnt = FRAME_BITS - 1 => last_bit
    BY <1>1, <1>2, <1>5
<1>8. CASE ~bclk_edge_falling
    BY <1>3, <1>4, <1>8
<1>9. CASE bclk_edge_falling /\ bit_cnt = FRAME_BITS - 1
    <2>1. bit_cnt # 0 /\ bit_cnt' = 0
        BY <1>1, <1>3, <1>9
    <2>2. FRAME_BITS < w => sample_req
        BY <1>4, <1>7, <1>9
    <2> QED
        BY <1>4, <2>1, <2>2 DEF w
<1>10. CASE bclk_edge_falling /\ bit_cnt # FRAME_BITS - 1
    <2>1. bit_cnt' = bit_cnt + 1 /\ bit_cnt' # 0 /\ ~sample_req
        BY <1>1, <1>3, <1>4, <1>6, <1>10
    <2> QED
        BY <1>4, <1>10, <2>1
<1> QED
    BY <1>8, <1>9, <1>10

\* The data line changes only as BCLK falls, whatever the parameters: no bit
\* moves around the edge the codec samples on (wm8731_i2s_tx.sv's bclk_edge_falling).
THEOREM WireStable == Spec => DataStable
<1> DEFINE A == dacdat' # dacdat => Reset \/ (bclk_int /\ ~bclk_int')
<1>1. [Next]_vars => [A]_vars
    <2> SUFFICES ASSUME [Next]_vars PROVE A
        BY DEF A
    <2>1. CASE Reset
        BY <2>1
    <2>2. ASSUME NEW bus \in BusInputs, Clock(bus), ~bclk_edge_falling PROVE dacdat' = dacdat
        <3>1. UNCHANGED <<shift_l, shift_r, bit_cnt>>
            BY <2>2 DEF Clock, TxClock, Latch, latches, CountBit
        <3> QED
            BY <3>1 DEF dacdat, in_right, pos_in_channel
    <2>3. ASSUME NEW bus \in BusInputs, Clock(bus), bclk_edge_falling PROVE bclk_int /\ ~bclk_int'
        BY <2>3 DEF Clock, TxClock, DivideClock, bclk_edge_falling
    <2>4. CASE UNCHANGED vars
        BY <2>4 DEF vars, tx, dacdat, in_right, pos_in_channel
    <2> QED
        BY <2>1, <2>2, <2>3, <2>4 DEF Next, Tick
<1> QED
    BY <1>1, PTL DEF Spec, DataStable

-----------------------------------------------------------------------------
\* Bit b of a frame: its index in the word, and its slot.
BitIndex(b) == BITS_PER_CHANNEL - 1 - (IF b >= BITS_PER_CHANNEL THEN b - BITS_PER_CHANNEL ELSE b)
RightSlot(b) == b >= BITS_PER_CHANNEL

BitBefore == IF bit_cnt = 0 THEN FRAME_BITS - 1 ELSE bit_cnt - 1

\* The inductive part: while BCLK is high the codec holds the bit on the wire;
\* while it is low, the bit before it, which is of the latched word once the
\* latch is behind.
Line ==
    /\ bit_cnt \in 0..FRAME_BITS - 1
    /\ bclk_int \in BOOLEAN
    /\ shift_l = shift_r
    /\ bclk_int => /\ rx.bit = BitIndex(bit_cnt)
                   /\ rx.right = RightSlot(bit_cnt)
                   /\ rx.word = shift_r
    /\ ~bclk_int => /\ rx.bit = BitIndex(BitBefore)
                    /\ rx.right = RightSlot(BitBefore)
                    /\ bit_cnt > 1 => rx.word = shift_r

\* What is on the wire, without the part-selects.
LEMMA OnWire ==
    ASSUME bit_cnt \in 0..FRAME_BITS - 1, shift_l = shift_r
    PROVE  /\ dacdat.bit = BitIndex(bit_cnt) /\ lrck = RightSlot(bit_cnt)
           /\ dacdat.word = shift_r
BY Widths DEF dacdat, lrck, in_right, pos_in_channel, BitIndex, RightSlot

LEMMA LineInit == Init => Line
<1> SUFFICES ASSUME Init PROVE Line
    OBVIOUS
<1>1. bit_cnt = 0 /\ bclk_int = FALSE /\ shift_l = shift_r /\ shift_r = Zero /\ rx = Nothing
    BY DEF Init, TxInit
<1>2. BitBefore = 2 * BITS_PER_CHANNEL - 1 /\ bit_cnt \in 0..FRAME_BITS - 1
    BY <1>1, Widths DEF BitBefore
<1>3. BitIndex(BitBefore) = 0 /\ RightSlot(BitBefore) = TRUE
    BY <1>2, Widths DEF BitIndex, RightSlot
<1> QED
    BY <1>1, <1>2, <1>3, Widths DEF Line, Nothing

LEMMA LineStep == Line /\ [Next]_vars => Line'
<1> SUFFICES ASSUME Line, [Next]_vars PROVE Line'
    OBVIOUS
<1>1. CASE Reset
    <2>1. /\ bit_cnt' = 0 /\ bclk_int' = FALSE /\ shift_l' = shift_r' /\ shift_r' = Zero
          /\ rx' = Nothing
        BY <1>1 DEF Reset, TxReset
    <2>2. BitBefore' = 2 * BITS_PER_CHANNEL - 1 /\ bit_cnt' \in 0..FRAME_BITS - 1
        BY <2>1, Widths DEF BitBefore
    <2>3. BitIndex(BitBefore)' = 0 /\ RightSlot(BitBefore)' = TRUE
        BY <2>2, Widths DEF BitIndex, RightSlot
    <2> QED
        BY <2>1, <2>2, <2>3, Widths DEF Line, Nothing
<1>2. ASSUME NEW bus \in BusInputs, Clock(bus) PROVE Line'
    <2>1. TxClock(sample, sample) /\ CodecSamples
        BY <1>2 DEF Clock
    <2>2. bit_cnt' = IF ~bclk_edge_falling THEN bit_cnt
                     ELSE IF bit_cnt = FRAME_BITS - 1 THEN 0 ELSE bit_cnt + 1
        BY <2>1, BitStep DEF Line, TxClock
    <2>3. bit_cnt' \in 0..FRAME_BITS - 1 /\ shift_l' = shift_r' /\ bclk_int' \in BOOLEAN
        <3>1. bit_cnt' \in 0..FRAME_BITS - 1
            BY <2>2, Widths DEF Line
        <3>2. shift_l' = shift_r'
            BY <2>1 DEF Line, TxClock, Latch
        <3>3. bclk_int' \in BOOLEAN
            BY <2>1 DEF Line, TxClock, DivideClock
        <3> QED
            BY <3>1, <3>2, <3>3
    <2>4. CASE ~bclk_toggles
        <3>1. UNCHANGED <<bclk_int, bit_cnt, shift_l, shift_r, rx>>
            BY <2>1, <2>2, <2>4 DEF TxClock, DivideClock, Latch, latches, bclk_edge_falling,
                CodecSamples, bclk_edge_rising
        <3> QED
            BY <3>1 DEF Line, BitBefore
    <2>5. CASE bclk_toggles /\ ~bclk_int
        <3>1. UNCHANGED <<bit_cnt, shift_l, shift_r>> /\ bclk_int'
            BY <2>1, <2>2, <2>5 DEF TxClock, DivideClock, Latch, latches, bclk_edge_falling
        <3>2. rx' = [word |-> dacdat.word, bit |-> dacdat.bit, right |-> lrck]
            BY <2>1, <2>5 DEF CodecSamples, bclk_edge_rising
        <3>3. rx'.bit = BitIndex(bit_cnt) /\ rx'.right = RightSlot(bit_cnt) /\ rx'.word = shift_r
            BY <3>2, OnWire DEF Line
        <3> QED
            BY <2>3, <3>1, <3>3 DEF Line
    <2>6. CASE bclk_toggles /\ bclk_int
        <3>1. rx' = rx /\ ~bclk_int' /\ bclk_edge_falling
            BY <2>1, <2>6 DEF TxClock, DivideClock, CodecSamples, bclk_edge_rising, bclk_edge_falling
        <3>2. BitBefore' = bit_cnt
            BY <2>2, <3>1, Widths DEF Line, BitBefore
        <3>3. rx.bit = BitIndex(bit_cnt) /\ rx.right = RightSlot(bit_cnt) /\ rx.word = shift_r
            BY <2>6 DEF Line
        <3>4. bit_cnt' > 1 => shift_r' = shift_r
            <4>1. bit_cnt' > 1 => bit_cnt # 0
                BY <2>2, Widths DEF Line
            <4> QED
                BY <2>1, <4>1 DEF TxClock, Latch, latches
        <3>5. rx'.bit = BitIndex(BitBefore)' /\ rx'.right = RightSlot(BitBefore)'
            BY <3>1, <3>2, <3>3 DEF BitIndex, RightSlot
        <3>6. bit_cnt' > 1 => rx'.word = shift_r'
            BY <3>1, <3>3, <3>4
        <3> QED
            BY <2>3, <3>1, <3>5, <3>6 DEF Line
    <2> QED
        BY <2>4, <2>5, <2>6
<1>3. CASE UNCHANGED vars
    BY <1>3 DEF vars, tx, Line, BitBefore
<1> QED
    BY <1>1, <1>2, <1>3 DEF Next, Tick

\* What the codec samples is framed, whatever the width of a sample, the clock
\* divider and the edge of a reset: whole words, from the top bit to the bottom
\* bit, in alternating slots (wm8731_i2s_tx.sv's bit counter and LRCK).
THEOREM CodecSeesFrames == Spec => FramesAligned
<1> DEFINE
        SameSlot ==
            /\ rx.bit > 0
            /\ rx'.bit = rx.bit - 1 /\ rx'.right = rx.right
            /\ (~rx.right /\ rx.bit = BITS_PER_CHANNEL - 1) \/ rx'.word = rx.word
        NextSlot ==
            /\ rx.bit = 0
            /\ rx'.bit = BITS_PER_CHANNEL - 1 /\ rx'.right = ~rx.right
            /\ rx'.right => rx'.word = rx.word
        A == Reset \/ rx' = rx \/ rx = Nothing \/ SameSlot \/ NextSlot
<1>1. Line /\ [Next]_vars => [A]_vars
    <2> SUFFICES ASSUME Line, Next, rx' # rx, ~Reset PROVE SameSlot \/ NextSlot
        BY DEF vars
    <2>1. PICK bus \in BusInputs : Clock(bus)
        BY DEF Next, Tick
    <2>2. bclk_toggles /\ ~bclk_int
        BY <2>1 DEF Clock, CodecSamples, bclk_edge_rising
    <2>3. rx' = [word |-> dacdat.word, bit |-> dacdat.bit, right |-> lrck]
        BY <2>1, <2>2 DEF Clock, CodecSamples, bclk_edge_rising
    <2>4. rx'.bit = BitIndex(bit_cnt) /\ rx'.right = RightSlot(bit_cnt) /\ rx'.word = shift_r
        BY <2>3, OnWire DEF Line
    <2>5. /\ rx.bit = BitIndex(BitBefore) /\ rx.right = RightSlot(BitBefore)
          /\ bit_cnt > 1 => rx.word = shift_r
        BY <2>2 DEF Line
    <2>6. bit_cnt \in 0..2 * BITS_PER_CHANNEL - 1 /\ BITS_PER_CHANNEL \in Nat /\ BITS_PER_CHANNEL >= 2
        BY Widths DEF Line
    <2>7. CASE bit_cnt = 0
        <3>1. BitBefore = 2 * BITS_PER_CHANNEL - 1
            BY <2>7, Widths DEF BitBefore
        <3>2. BitIndex(BitBefore) = 0 /\ BitIndex(bit_cnt) = BITS_PER_CHANNEL - 1
            BY <2>6, <2>7, <3>1 DEF BitIndex
        <3>3. RightSlot(BitBefore) = TRUE /\ RightSlot(bit_cnt) = FALSE
            BY <2>6, <2>7, <3>1 DEF RightSlot
        <3> QED
            BY <2>4, <2>5, <3>2, <3>3
    <2>8. CASE bit_cnt = BITS_PER_CHANNEL
        <3>1. BitBefore = BITS_PER_CHANNEL - 1
            BY <2>6, <2>8 DEF BitBefore
        <3>2. BitIndex(BitBefore) = 0 /\ BitIndex(bit_cnt) = BITS_PER_CHANNEL - 1
            BY <2>6, <2>8, <3>1 DEF BitIndex
        <3>3. RightSlot(BitBefore) = FALSE /\ RightSlot(bit_cnt) = TRUE
            BY <2>6, <2>8, <3>1 DEF RightSlot
        <3>4. rx'.word = rx.word
            BY <2>4, <2>5, <2>6, <2>8
        <3> QED
            BY <2>4, <2>5, <3>2, <3>3, <3>4
    <2>9. CASE bit_cnt # 0 /\ bit_cnt # BITS_PER_CHANNEL
        <3>1. BitBefore = bit_cnt - 1
            BY <2>9 DEF BitBefore
        <3>2. RightSlot(BitBefore) = RightSlot(bit_cnt)
            BY <2>6, <2>9, <3>1 DEF RightSlot
        <3>3. rx.bit > 0 /\ rx'.bit = rx.bit - 1
            BY <2>4, <2>5, <2>6, <2>9, <3>1 DEF BitIndex
        <3>4. rx'.right = rx.right
            BY <2>4, <2>5, <3>2
        <3>5. CASE bit_cnt > 1
            BY <2>4, <2>5, <3>3, <3>4, <3>5
        <3>6. CASE bit_cnt = 1
            <4>1. RightSlot(BitBefore) = FALSE /\ BitIndex(BitBefore) = BITS_PER_CHANNEL - 1
                BY <2>6, <3>1, <3>6 DEF BitIndex, RightSlot
            <4> QED
                BY <2>5, <3>3, <3>4, <4>1
        <3> QED
            BY <2>6, <2>9, <3>5, <3>6
    <2> QED
        BY <2>7, <2>8, <2>9
<1> QED
    BY <1>1, LineInit, LineStep, PTL DEF Spec, FramesAligned

-----------------------------------------------------------------------------
\* Which sample each frame carries.

AudioInv == PhasesFit /\ Line

\* The phases are indices of their tracks and the frame is where its counter
\* says, whatever the parameters and the tracks.
THEOREM AudioInvariant == Spec => []AudioInv
BY PhasesFitInit, PhasesFitStep, LineInit, LineStep, PTL DEF Spec, AudioInv

LEMMA Divider == 2^BCLK_CNT_WIDTH \in Nat /\ 2^BCLK_CNT_WIDTH >= 1
<1> DEFINE w == 2^BCLK_CNT_WIDTH
<1>1. BCLK_HALF \in Nat /\ BCLK_HALF >= 1
    BY ParameterAssumption DEF BCLK_HALF
<1>2. w \in Nat /\ BCLK_HALF <= w
    BY WidthAssumption
<1> HIDE DEF w
<1>3. w >= 1
    BY <1>1, <1>2
<1> QED
    BY <1>2, <1>3 DEF w

LEMMA TypesStep == AudioInv /\ TypeOK /\ [Next]_vars => TypeOK'
<1> SUFFICES ASSUME AudioInv, TypeOK, [Next]_vars PROVE TypeOK'
    OBVIOUS
<1>1. AudioInv'
    BY PhasesFitStep, LineStep DEF AudioInv
<1>2. SUFFICES ASSUME TRUE
               PROVE  /\ bclk_div_cnt' \in 0..2^BCLK_CNT_WIDTH - 1
                      /\ beat' \in 0..BGM_LENGTH - 1 /\ asked' \in Tracks
                      /\ avs_readdata' \in [in_sfx : BOOLEAN, track : Tracks]
    BY <1>1 DEF AudioInv, PhasesFit, Line, TypeOK, CtlTypeOK, BGM_LENGTH
<1> DEFINE w == 2^BCLK_CNT_WIDTH
<1> DEFINE L == BGM_LENGTH
<1>3. /\ bclk_div_cnt \in 0..w - 1 /\ beat \in 0..L - 1 /\ asked \in Tracks
      /\ avs_readdata \in [in_sfx : BOOLEAN, track : Tracks]
    BY DEF TypeOK, CtlTypeOK
<1>4. w \in Nat /\ w >= 1 /\ L \in Nat /\ L >= 2
    BY Divider, Lengths DEF BGM_LENGTH, Tracks
<1> HIDE DEF w, L
<1>5. CASE Reset
    <2>1. bclk_div_cnt' = 0 /\ beat' = 0 /\ asked' = 0 /\ avs_readdata' = NoStatus
        BY <1>5 DEF Reset, CtlReset, TxReset
    <2>2. NoStatus \in [in_sfx : BOOLEAN, track : Tracks] /\ 0 \in Tracks
        BY DEF NoStatus, Status, Tracks
    <2> QED
        BY <1>4, <2>1, <2>2 DEF w, L
<1>6. ASSUME NEW bus \in BusInputs, Clock(bus)
      PROVE  /\ bclk_div_cnt' \in 0..w - 1 /\ beat' \in 0..L - 1 /\ asked' \in Tracks
             /\ avs_readdata' \in [in_sfx : BOOLEAN, track : Tracks]
    <2>1. bclk_div_cnt' = 0 \/ bclk_div_cnt' = (bclk_div_cnt + 1) % w
        BY <1>6 DEF Clock, TxClock, DivideClock, w
    <2>2. bclk_div_cnt' \in 0..w - 1
        BY <1>3, <1>4, <2>1
    <2>3. beat' = IF latches THEN (beat + 1) % L ELSE beat
        BY <1>6 DEF Clock, CountFrames, L
    <2>4. beat' \in 0..L - 1
        BY <1>3, <1>4, <2>3
    <2>5. asked' \in Tracks
        BY <1>3, <1>6 DEF Clock, NoteEffect, Triggers, Effects, Tracks
    <2>6. rom_track \in Tracks /\ in_sfx \in BOOLEAN
        BY DEF AudioInv, PhasesFit, rom_track, Tracks
    <2>7. Status(in_sfx, rom_track) \in [in_sfx : BOOLEAN, track : Tracks]
        BY <2>6 DEF Status
    <2>8. NoStatus \in [in_sfx : BOOLEAN, track : Tracks]
        BY DEF NoStatus, Status, Tracks
    <2>9. \/ avs_readdata' = avs_readdata
          \/ avs_readdata' = Status(in_sfx, rom_track) \/ avs_readdata' = NoStatus
        BY <1>6 DEF Clock, CtlClock, ReadNext
    <2>10. avs_readdata' \in [in_sfx : BOOLEAN, track : Tracks]
        BY <1>3, <2>7, <2>8, <2>9
    <2> QED
        BY <2>2, <2>4, <2>5, <2>10
<1>7. CASE UNCHANGED vars
    BY <1>3, <1>7 DEF vars, ctl, tx, w, L, BGM_LENGTH
<1> QED
    BY <1>5, <1>6, <1>7 DEF Next, Tick, w, L, BGM_LENGTH

\* The registers keep to their widths and ranges (the declarations of
\* audio_controller.sv and wm8731_i2s_tx.sv).
THEOREM AudioTypes == Spec => []TypeOK
<1>1. Init => TypeOK
    <2>1. BGM_LENGTH \in Nat /\ BGM_LENGTH >= 2
        BY Lengths DEF BGM_LENGTH, Tracks
    <2> SUFFICES ASSUME Init PROVE TypeOK
        OBVIOUS
    <2>2. beat = 0 /\ bclk_div_cnt = 0 /\ asked = 0 /\ avs_readdata = NoStatus
        BY DEF Init, CtlInit, TxInit
    <2>3. beat \in 0..BGM_LENGTH - 1 /\ bclk_div_cnt \in 0..2^BCLK_CNT_WIDTH - 1
        <3> DEFINE w == 2^BCLK_CNT_WIDTH
        <3>1. w \in Nat /\ w >= 1
            BY Divider
        <3> HIDE DEF w
        <3>2. 0 \in 0..BGM_LENGTH - 1 /\ 0 \in 0..w - 1
            BY <2>1, <3>1
        <3> QED
            BY <2>2, <3>2 DEF w
    <2>4. asked \in Tracks /\ avs_readdata \in [in_sfx : BOOLEAN, track : Tracks]
        BY <2>2 DEF NoStatus, Status, Tracks
    <2>5. PhasesFit /\ Line
        BY PhasesFitInit, LineInit
    <2> QED
        BY <2>3, <2>4, <2>5 DEF PhasesFit, Line, TypeOK, CtlTypeOK
<1> QED
    BY <1>1, TypesStep, AudioInvariant, PTL DEF Spec

\* Between two requests only a write moves the controller.
LEMMA NoRequest ==
    ASSUME NEW bus, CtlClock(sample_req, bus), ~sample_req
    PROVE  /\ bgm_phase' = bgm_phase
           /\ \/ Triggers(bus) /\ in_sfx' /\ sfx_track' = bus.id /\ sfx_phase' = 0
              \/ ~Triggers(bus) /\ UNCHANGED <<sfx_phase, sfx_track, in_sfx>>
BY DEF CtlClock, AdvanceMusic, EffectNext, StartEffect

\* A request moves it by one sample, unless a write takes its place.
LEMMA Request ==
    ASSUME NEW bus, PhasesFit, CtlClock(sample_req, bus), sample_req
    PROVE  /\ bgm_phase' = (bgm_phase + 1) % BGM_LENGTH
           /\ \/ Triggers(bus) /\ in_sfx' /\ sfx_track' = bus.id /\ sfx_phase' = 0
              \/ /\ ~Triggers(bus) /\ in_sfx
                 /\ sfx_phase < track_length[sfx_track] - 1
                 /\ in_sfx' /\ sfx_track' = sfx_track /\ sfx_phase' = sfx_phase + 1
              \/ /\ ~Triggers(bus) /\ in_sfx
                 /\ sfx_phase = track_length[sfx_track] - 1
                 /\ ~in_sfx'
              \/ ~Triggers(bus) /\ ~in_sfx /\ ~in_sfx'
<1>1. bgm_phase' = (bgm_phase + 1) % BGM_LENGTH
    <2>1. BGM_LENGTH \in Nat /\ BGM_LENGTH >= 2 /\ bgm_phase \in 0..BGM_LENGTH - 1
        BY Lengths DEF BGM_LENGTH, Tracks, PhasesFit
    <2>2. bgm_phase' = IF bgm_phase = BGM_LENGTH - 1 THEN 0 ELSE bgm_phase + 1
        BY DEF CtlClock, AdvanceMusic
    <2>3. bgm_phase # BGM_LENGTH - 1 => (bgm_phase + 1) % BGM_LENGTH = bgm_phase + 1
        BY <2>1
    <2>4. bgm_phase = BGM_LENGTH - 1 => (bgm_phase + 1) % BGM_LENGTH = 0
        BY <2>1
    <2> QED
        BY <2>2, <2>3, <2>4
<1>2. CASE Triggers(bus) /\ StartEffect(bus)
    BY <1>1, <1>2 DEF StartEffect
<1>3. CASE ~Triggers(bus) /\ in_sfx /\ AdvanceEffect
    <2>1. rom_length = track_length[sfx_track] /\ track_length[sfx_track] \in Nat
        BY <1>3, Lengths DEF rom_length, rom_track, PhasesFit
    <2>2. sfx_phase \in Nat /\ sfx_phase < track_length[sfx_track]
        BY <1>3 DEF PhasesFit
    <2>3. CASE sfx_phase >= rom_length - 1
        <3>1. in_sfx' = FALSE
            BY <1>3, <2>3 DEF AdvanceEffect
        <3>2. sfx_phase = track_length[sfx_track] - 1
            BY <2>1, <2>2, <2>3
        <3> QED
            BY <1>1, <1>3, <3>1, <3>2
    <2>4. CASE ~(sfx_phase >= rom_length - 1)
        <3>1. sfx_phase' = sfx_phase + 1 /\ UNCHANGED <<in_sfx, sfx_track>>
            BY <1>3, <2>4 DEF AdvanceEffect
        <3>2. sfx_phase < track_length[sfx_track] - 1
            BY <2>1, <2>2, <2>4
        <3> QED
            BY <1>1, <1>3, <3>1, <3>2
    <2> QED
        BY <2>3, <2>4
<1>4. CASE ~Triggers(bus) /\ ~in_sfx /\ UNCHANGED in_sfx
    BY <1>1, <1>4
<1> QED
    BY <1>2, <1>3, <1>4 DEF CtlClock, EffectNext

\* The four things an edge does to a frame, with what the controller sees.
LEMMA EdgeOfFrame ==
    ASSUME AudioInv, NEW bus \in BusInputs, Clock(bus)
    PROVE  /\ CtlClock(sample_req, bus)
           /\ shift_l' = IF latches THEN sample ELSE shift_l
           /\ \/ ~latches /\ ~sample_req /\ bit_cnt' = bit_cnt
              \/ latches /\ ~sample_req /\ bit_cnt = 0 /\ bit_cnt' # 0
              \/ ~latches /\ ~sample_req /\ bit_cnt # 0 /\ bit_cnt' # 0
              \/ /\ ~latches /\ bit_cnt # 0 /\ bit_cnt' = 0
                 /\ FRAME_BITS < 2^BIT_CNT_WIDTH => sample_req
<1>1. CtlClock(sample_req, bus) /\ CountBit /\ Latch(sample, sample)
    BY DEF Clock, TxClock
<1>2. bit_cnt \in 0..FRAME_BITS - 1
    BY DEF AudioInv, Line
<1>3. shift_l' = IF latches THEN sample ELSE shift_l
    BY <1>1 DEF Latch
<1> QED
    BY <1>1, <1>2, <1>3, BitPhases

\* The inductive part: an effect still to be heard plays its first sample, or its
\* second when the request of this frame was already answered.
Pending ==
    asked # 0 =>
        /\ in_sfx /\ sfx_track = asked /\ sfx_phase \in {0, 1}
        /\ bit_cnt # 0 => sfx_phase = 0

LEMMA PendingStep == AudioInv /\ Pending /\ [Next]_vars => Pending'
<1> SUFFICES ASSUME AudioInv, Pending, [Next]_vars PROVE Pending'
    OBVIOUS
<1>1. CASE Reset
    BY <1>1 DEF Reset, Pending
<1>2. ASSUME NEW bus \in BusInputs, Clock(bus) PROVE Pending'
    <2>1. CtlClock(sample_req, bus) /\ PhasesFit
        BY <1>2 DEF Clock, AudioInv
    <2>2. asked' = IF Triggers(bus) THEN bus.id ELSE IF latches THEN 0 ELSE asked
        BY <1>2 DEF Clock, NoteEffect
    <2>3. CASE Triggers(bus)
        <3>1. in_sfx' /\ sfx_track' = bus.id /\ sfx_phase' = 0
            BY <2>1, <2>3 DEF CtlClock, EffectNext, StartEffect
        <3> QED
            BY <2>2, <2>3, <3>1 DEF Pending
    <2>4. CASE ~Triggers(bus) /\ asked' # 0
        <3>1. ~latches /\ asked' = asked /\ asked # 0
            BY <2>2, <2>4
        <3>2. in_sfx /\ sfx_track = asked /\ sfx_phase \in {0, 1} /\ (bit_cnt # 0 => sfx_phase = 0)
            BY <3>1 DEF Pending
        <3>3. CASE ~sample_req
            <4>1. UNCHANGED <<sfx_phase, sfx_track, in_sfx>>
                BY <2>1, <2>4, <3>3, NoRequest
            <4>2. bit_cnt' # 0 => bit_cnt # 0
                BY <1>2, <3>1, EdgeOfFrame
            <4> QED
                BY <3>1, <3>2, <4>1, <4>2 DEF Pending
        <3>4. CASE sample_req
            <4>1. bit_cnt # 0 /\ bit_cnt' = 0
                BY <1>2, <3>4, EdgeOfFrame
            <4>2. sfx_phase = 0
                BY <3>2, <4>1
            <4>3. track_length[sfx_track] \in Nat /\ track_length[sfx_track] >= 2
                BY <2>1, Lengths DEF PhasesFit
            <4>4. sfx_phase # track_length[sfx_track] - 1
                BY <4>2, <4>3
            <4>5. in_sfx' /\ sfx_track' = sfx_track /\ sfx_phase' = sfx_phase + 1
                BY <2>1, <2>4, <3>2, <3>4, <4>4, Request, Zenon
            <4> QED
                BY <3>1, <3>2, <4>1, <4>2, <4>5 DEF Pending
        <3> QED
            BY <3>3, <3>4
    <2> QED
        BY <2>3, <2>4 DEF Pending
<1>3. CASE UNCHANGED vars
    BY <1>3 DEF vars, ctl, tx, Pending
<1> QED
    BY <1>1, <1>2, <1>3 DEF Next, Tick

\* An effect written at any edge, that of a sample request included, is what the
\* next latched frame carries, for all parameters and tracks
\* (audio_controller.sv's last assignment wins).
THEOREM EffectsHeard == Spec => []EffectHeard
<1>1. Init => Pending
    BY DEF Init, Pending
<1>2. Pending => EffectHeard
    BY DEF Pending, EffectHeard, sample, rom_track
<1> QED
    BY <1>1, <1>2, AudioInvariant, PendingStep, PTL DEF Spec

-----------------------------------------------------------------------------
\* Where the number of bits of a frame is a power of two, the bit counter is
\* compared with a part-select of zero, less one: no bit is ever the last.
LEMMA NoLastBit == ASSUME ~RequestsRun PROVE AudioInv => ~sample_req
<1> SUFFICES ASSUME AudioInv PROVE ~sample_req
    OBVIOUS
<1> DEFINE w == 2^BIT_CNT_WIDTH
<1>1. FRAME_BITS \in Nat /\ FRAME_BITS >= 4 /\ w \in Nat /\ FRAME_BITS <= w /\ ~(FRAME_BITS < w)
    BY Widths DEF RequestsRun
<1>2. last_bit <=> bit_cnt = (FRAME_BITS % w) - 1
    BY DEF last_bit, LastCount
<1>3. bit_cnt \in 0..FRAME_BITS - 1
    BY DEF AudioInv, Line
<1> HIDE DEF w
<1>4. FRAME_BITS % w = 0
    BY <1>1
<1> QED
    BY <1>2, <1>3, <1>4 DEF sample_req

\* The inductive part: neither phase has ever left its first sample.
AtFirst ==
    /\ bgm_phase = 0 /\ sfx_phase = 0
    /\ shift_l = Zero \/ shift_l.idx = 0

\* Without requests the controller never moves on, and every frame carries a
\* first sample: what the repository's 16 bits per channel sound like.
LEMMA FirstSamples == ASSUME ~RequestsRun PROVE Spec => []FirstSampleOnly
<1>1. Init => AtFirst
    BY DEF Init, CtlInit, TxInit, AtFirst
<1>2. AudioInv /\ AtFirst /\ [Next]_vars => AtFirst'
  <2> SUFFICES ASSUME AudioInv, AtFirst, [Next]_vars PROVE AtFirst'
      OBVIOUS
  <2>1. CASE Reset
      BY <2>1 DEF Reset, CtlReset, TxReset, AtFirst
  <2>2. ASSUME NEW bus \in BusInputs, Clock(bus) PROVE AtFirst'
    <3>1. CtlClock(sample_req, bus) /\ shift_l' = (IF latches THEN sample ELSE shift_l) /\ ~sample_req
        BY <2>2, EdgeOfFrame, NoLastBit
    <3>2. bgm_phase' = 0 /\ sfx_phase' = 0
        BY <3>1, NoRequest DEF AtFirst
    <3>3. sample.idx = 0
        BY DEF AtFirst, sample, rom_idx
    <3> QED
        BY <3>1, <3>2, <3>3 DEF AtFirst
  <2>3. CASE UNCHANGED vars
      BY <2>3 DEF vars, ctl, tx, AtFirst
  <2> QED
      BY <2>1, <2>2, <2>3 DEF Next, Tick
<1>3. AudioInv /\ AtFirst => FirstSampleOnly
    BY NoLastBit DEF AtFirst, FirstSampleOnly
<1> QED
    BY <1>1, <1>2, <1>3, AudioInvariant, PTL DEF Spec

\* The inductive part: the music is at the frame about to be latched, or at the
\* one that was.
InTime ==
    /\ beat \in 0..BGM_LENGTH - 1
    /\ beat = IF bit_cnt = 0 THEN bgm_phase ELSE (bgm_phase + 1) % BGM_LENGTH

LEMMA InTimeStep ==
    ASSUME RequestsRun
    PROVE  AudioInv /\ InTime /\ [Next]_vars => InTime'
<1> SUFFICES ASSUME AudioInv, InTime, [Next]_vars PROVE InTime'
    OBVIOUS
<1> DEFINE L == BGM_LENGTH
<1>1. L \in Nat /\ L >= 2 /\ bgm_phase \in 0..L - 1 /\ beat \in 0..L - 1
    BY Lengths DEF BGM_LENGTH, Tracks, AudioInv, PhasesFit, InTime
<1>2. CASE Reset
    <2>1. beat' = 0 /\ bgm_phase' = 0 /\ bit_cnt' = 0
        BY <1>2 DEF Reset, CtlReset, TxReset
    <2> QED
        BY <1>1, <2>1 DEF InTime, BGM_LENGTH
<1>3. ASSUME NEW bus \in BusInputs, Clock(bus) PROVE InTime'
    <2>1. CtlClock(sample_req, bus) /\ PhasesFit /\ beat' = IF latches THEN (beat + 1) % L ELSE beat
        BY <1>3 DEF Clock, AudioInv, CountFrames
    <2>2. beat' \in 0..L - 1
        <3> HIDE DEF L
        <3> QED
            BY <1>1, <2>1
    <2>3. CASE ~sample_req
        <3>1. bgm_phase' = bgm_phase
            BY <2>1, <2>3, NoRequest
        <3>2. \/ ~latches /\ (bit_cnt' = 0 <=> bit_cnt = 0)
              \/ latches /\ bit_cnt = 0 /\ bit_cnt' # 0
            BY <1>3, <2>3, EdgeOfFrame DEF RequestsRun
        <3> QED
            BY <2>1, <2>2, <3>1, <3>2 DEF InTime, BGM_LENGTH
    <2>4. CASE sample_req
        <3>1. bgm_phase' = (bgm_phase + 1) % L
            BY <2>1, <2>4, Request
        <3>2. ~latches /\ bit_cnt # 0 /\ bit_cnt' = 0
            BY <1>3, <2>4, EdgeOfFrame
        <3> QED
            BY <2>1, <2>2, <3>1, <3>2 DEF InTime, BGM_LENGTH
    <2> QED
        BY <2>3, <2>4
<1>4. CASE UNCHANGED vars
    BY <1>4 DEF vars, ctl, tx, InTime, BGM_LENGTH
<1> QED
    BY <1>2, <1>3, <1>4 DEF Next, Tick

LEMMA MusicRuns ==
    ASSUME RequestsRun
    PROVE  Spec => []MusicKeepsTime
<1>1. Init => InTime
    <2>1. BGM_LENGTH \in Nat /\ BGM_LENGTH >= 2
        BY Lengths DEF BGM_LENGTH, Tracks
    <2> QED
        BY <2>1 DEF Init, CtlInit, TxInit, InTime
<1>2. InTime /\ AudioInv => MusicKeepsTime
    BY DEF InTime, MusicKeepsTime, latches, sample, rom_track, rom_idx, AudioInv, PhasesFit, Effects
<1>3. AudioInv /\ InTime /\ [Next]_vars => InTime'
    BY InTimeStep
<1> QED
    BY <1>1, <1>2, <1>3, AudioInvariant, PTL DEF Spec

\* Whatever effects are played over it, the music is latched where it would have
\* been without them (audio_controller.sv's bgm_phase advances with every
\* sample), unless the width of the samples is one for which wm8731_i2s_tx.sv
\* never requests any, and then every frame repeats a first sample.
THEOREM MusicInTime ==
    Spec => IF RequestsRun THEN []MusicKeepsTime ELSE []FirstSampleOnly
<1>1. CASE RequestsRun
    BY <1>1, MusicRuns
<1>2. CASE ~RequestsRun
    BY <1>2, FirstSamples
<1> QED
    BY <1>1, <1>2

-----------------------------------------------------------------------------
\* Where the producer is when sample s was latched last: still at s, or one
\* request further, unless an effect was started since.
Restarted == in_sfx /\ sfx_phase = 0

At(s) ==
    /\ s.track = 0 => ~in_sfx /\ bgm_phase = s.idx
    /\ s.track # 0 => in_sfx /\ sfx_track = s.track /\ sfx_phase = s.idx

After(s) ==
    \/ in_sfx /\ sfx_phase \in {0, 1}
    \/ in_sfx /\ sfx_track = s.track /\ sfx_phase = s.idx + 1
    \/ ~in_sfx /\ s.track = 0 /\ bgm_phase = (s.idx + 1) % BGM_LENGTH
    \/ ~in_sfx /\ s.track # 0 /\ s.idx = track_length[s.track] - 1

\* The inductive part.
Sent ==
    shift_l # Zero =>
        /\ shift_l \in [track : Tracks, idx : Nat]
        /\ bit_cnt # 0 => Restarted \/ At(shift_l)
        /\ bit_cnt = 0 => After(shift_l)

\* The sample on the controller's wires is one of the ROM, and is where it is.
LEMMA SampleWires == PhasesFit => sample \in [track : Tracks, idx : Nat] /\ At(sample)
<1> SUFFICES ASSUME PhasesFit PROVE sample \in [track : Tracks, idx : Nat] /\ At(sample)
    OBVIOUS
<1>1. BGM_LENGTH \in Nat
    BY Lengths DEF BGM_LENGTH, Tracks
<1>2. CASE in_sfx
    BY <1>2 DEF PhasesFit, sample, rom_track, rom_idx, At, Effects
<1>3. CASE ~in_sfx
    BY <1>1, <1>3 DEF PhasesFit, sample, rom_track, rom_idx, At, Tracks
<1> QED
    BY <1>2, <1>3 DEF PhasesFit

\* The last bit of a frame: the producer, asked, leaves the sample it was at.
LEMMA Leaves ==
    ASSUME PhasesFit, NEW bus, CtlClock(sample_req, bus), sample_req,
           NEW s \in [track : Tracks, idx : Nat], Restarted \/ At(s)
    PROVE  After(s)'
<1>1. CASE Triggers(bus)
    BY <1>1, Request DEF After
<1>2. CASE ~Triggers(bus) /\ Restarted
    <2>1. track_length[sfx_track] \in Nat /\ track_length[sfx_track] >= 2
        BY Lengths DEF PhasesFit
    <2>2. in_sfx /\ sfx_phase = 0 /\ sfx_phase # track_length[sfx_track] - 1
        BY <1>2, <2>1 DEF Restarted
    <2>3. in_sfx' /\ sfx_phase' = sfx_phase + 1
        BY <1>2, <2>2, Request, Zenon
    <2> QED
        BY <2>2, <2>3 DEF After
<1>3. CASE ~Triggers(bus) /\ At(s) /\ in_sfx
    <2>1. s.track # 0 /\ sfx_track = s.track /\ sfx_phase = s.idx
        BY <1>3 DEF At
    <2>2. CASE in_sfx' /\ sfx_track' = sfx_track /\ sfx_phase' = sfx_phase + 1
        BY <2>1, <2>2 DEF After
    <2>3. CASE sfx_phase = track_length[sfx_track] - 1 /\ ~in_sfx'
        BY <2>1, <2>3 DEF After
    <2> QED
        BY <1>3, <2>2, <2>3, Request, Zenon
<1>4. CASE ~Triggers(bus) /\ At(s) /\ ~in_sfx
    <2>1. s.track = 0 /\ bgm_phase = s.idx
        BY <1>4 DEF At
    <2>2. ~in_sfx' /\ bgm_phase' = (bgm_phase + 1) % BGM_LENGTH
        BY <1>4, Request, Zenon
    <2> QED
        BY <2>1, <2>2 DEF After, BGM_LENGTH
<1> QED
    BY <1>1, <1>2, <1>3, <1>4

LEMMA SentStep ==
    ASSUME RequestsRun
    PROVE  AudioInv /\ Sent /\ [Next]_vars => Sent'
<1> SUFFICES ASSUME AudioInv, Sent, [Next]_vars PROVE Sent'
    OBVIOUS
<1>1. CASE Reset
    BY <1>1 DEF Reset, TxReset, Sent
<1>2. ASSUME NEW bus \in BusInputs, Clock(bus) PROVE Sent'
    <2>1. CtlClock(sample_req, bus) /\ PhasesFit /\ shift_l' = IF latches THEN sample ELSE shift_l
        BY <1>2, EdgeOfFrame DEF AudioInv
    <2>2. CASE sample_req
        <3>1. ~latches /\ bit_cnt # 0 /\ bit_cnt' = 0
            BY <1>2, <2>2, EdgeOfFrame
        <3>2. SUFFICES ASSUME shift_l # Zero
                       PROVE  shift_l \in [track : Tracks, idx : Nat] /\ After(shift_l)'
            BY <2>1, <3>1 DEF Sent, After
        <3>3. shift_l \in [track : Tracks, idx : Nat] /\ (Restarted \/ At(shift_l))
            BY <3>1, <3>2 DEF Sent
        <3>4. shift_l' = shift_l
            BY <2>1, <3>1
        <3>5. \A s \in [track : Tracks, idx : Nat] : Restarted \/ At(s) => After(s)'
            BY <2>1, <2>2, Leaves
        <3> QED
            BY <3>3, <3>4, <3>5 DEF After
    <2>3. CASE ~sample_req /\ latches
        <3>1. bit_cnt' # 0 /\ shift_l' = sample
            BY <1>2, <2>1, <2>3, EdgeOfFrame
        <3>2. sample \in [track : Tracks, idx : Nat] /\ At(sample)
            BY <2>1, SampleWires
        <3>3. Restarted' \/ UNCHANGED <<bgm_phase, sfx_phase, sfx_track, in_sfx>>
            BY <2>1, <2>3, NoRequest DEF Restarted
        <3>4. Restarted' \/ At(shift_l)'
            BY <3>1, <3>2, <3>3 DEF At
        <3> QED
            BY <3>1, <3>2, <3>4 DEF Sent
    <2>4. CASE ~sample_req /\ ~latches
        <3>1. shift_l' = shift_l /\ (bit_cnt' = 0 <=> bit_cnt = 0)
            BY <1>2, <2>1, <2>4, EdgeOfFrame DEF RequestsRun
        <3>2. CASE Restarted'
            BY <3>1, <3>2 DEF Sent, Restarted, After
        <3>3. CASE UNCHANGED <<bgm_phase, sfx_phase, sfx_track, in_sfx>>
            BY <3>1, <3>3 DEF Sent, Restarted, At, After, BGM_LENGTH
        <3> QED
            BY <2>1, <2>4, <3>2, <3>3, NoRequest DEF Restarted
    <2> QED
        BY <2>2, <2>3, <2>4
<1>3. CASE UNCHANGED vars
    BY <1>3 DEF vars, ctl, tx, Sent, Restarted, At, After, BGM_LENGTH
<1> QED
    BY <1>1, <1>2, <1>3 DEF Next, Tick

LEMMA SamplesRun ==
    ASSUME RequestsRun
    PROVE  Spec => []SamplesInOrder
<1>1. Init => Sent
    BY DEF Init, TxInit, Sent
<1>2. Sent /\ AudioInv => SamplesInOrder
    <2> SUFFICES ASSUME Sent, AudioInv, latches, shift_l # Zero PROVE SamplesInOrder
        BY DEF SamplesInOrder
    <2>1. shift_l \in [track : Tracks, idx : Nat] /\ After(shift_l)
        BY DEF Sent, latches
    <2>2. /\ in_sfx => sample.track = sfx_track /\ sfx_track \in Effects /\ sample.idx = sfx_phase
          /\ ~in_sfx => sample.track = 0 /\ sample.idx = bgm_phase
        BY DEF AudioInv, PhasesFit, sample, rom_track, rom_idx
    <2>3. sample = [track |-> rom_track, idx |-> rom_idx]
        BY DEF sample
    <2>4. CASE in_sfx /\ sfx_phase \in {0, 1}
        BY <2>2, <2>4 DEF SamplesInOrder
    <2>5. CASE in_sfx /\ sfx_track = shift_l.track /\ sfx_phase = shift_l.idx + 1
        <3>1. shift_l = [sample EXCEPT !.idx = @ - 1]
            BY <2>1, <2>2, <2>3, <2>5
        <3> QED
            BY <2>2, <2>5, <3>1 DEF SamplesInOrder
    <2>6. CASE ~in_sfx
        BY <2>1, <2>2, <2>6 DEF SamplesInOrder, After
    <2> QED
        BY <2>1, <2>4, <2>5, <2>6 DEF After
<1>3. AudioInv /\ Sent /\ [Next]_vars => Sent'
    BY SentStep
<1> QED
    BY <1>1, <1>2, <1>3, AudioInvariant, PTL DEF Spec

\* No sample is sent twice or left out and the music comes back only after an
\* effect's last sample, for tracks of any length and writes at any edge
\* (audio_controller.sv between two requests), unless the width of the samples
\* is one for which none is requested: then a first sample is all that is sent.
THEOREM NoSampleLost ==
    Spec => IF RequestsRun THEN []SamplesInOrder ELSE []FirstSampleOnly
<1>1. CASE RequestsRun
    BY <1>1, SamplesRun
<1>2. CASE ~RequestsRun
    BY <1>2, FirstSamples
<1> QED
    BY <1>1, <1>2

=============================================================================
