---------------------------- MODULE I2STransmitter ----------------------------
(***************************************************************************)
(* hardware/rtl/wm8731_i2s_tx.sv: BCLK and LRCK divided from the master    *)
(* clock, and a pair of samples shifted out MSB first.  One step is one    *)
(* mclk edge.                                                              *)
(*                                                                         *)
(* A word is any value: dacdat is modelled as the word and the index of    *)
(* the bit that is on the wire.  Counters keep the widths the module       *)
(* computes for them, and so do the part-selects of the parameters that    *)
(* they are compared with.                                                 *)
(***************************************************************************)
EXTENDS Integers

CONSTANTS
    BITS_PER_CHANNEL, MCLK_DIV_BCLK,
    Zero      \* the word after a reset

ASSUME ParameterAssumption ==
    /\ BITS_PER_CHANNEL \in Nat /\ BITS_PER_CHANNEL >= 2
    /\ MCLK_DIV_BCLK \in Nat /\ MCLK_DIV_BCLK >= 2

VARIABLES bclk_div_cnt, bclk_int, bit_cnt, shift_l, shift_r

tx == <<bclk_div_cnt, bclk_int, bit_cnt, shift_l, shift_r>>

\* $clog2
clog2(n) == CHOOSE k \in 0..n : 2^k >= n /\ \A j \in 0..k - 1 : 2^j < n

BCLK_HALF      == MCLK_DIV_BCLK \div 2
BCLK_CNT_WIDTH == IF BCLK_HALF <= 1 THEN 1 ELSE clog2(BCLK_HALF)
FRAME_BITS     == 2 * BITS_PER_CHANNEL
BIT_CNT_WIDTH  == clog2(FRAME_BITS)

\* What $clog2 promises: the counters can number the bits of a frame and the
\* clocks of half a period.
ASSUME WidthAssumption ==
    /\ 2^BIT_CNT_WIDTH \in Nat /\ FRAME_BITS <= 2^BIT_CNT_WIDTH
    /\ 2^BCLK_CNT_WIDTH \in Nat /\ BCLK_HALF <= 2^BCLK_CNT_WIDTH

\* n[width-1:0] - 1, in the 32 bits of its literal.  A part-select of zero gives
\* 2^32 - 1, written -1 here: no narrower counter is ever equal to either.
LastCount(n, width) == (n % 2^width) - 1

bclk_toggles == bclk_div_cnt = LastCount(BCLK_HALF, BCLK_CNT_WIDTH)

\* Mutant: the bit counter is clocked by the other edge.
bclk_edge_falling_Rising == bclk_toggles /\ ~bclk_int

bclk_edge_falling == bclk_toggles /\ bclk_int

last_bit == bit_cnt = LastCount(FRAME_BITS, BIT_CNT_WIDTH)

sample_req == bclk_edge_falling /\ last_bit

in_right == bit_cnt >= BITS_PER_CHANNEL % 2^BIT_CNT_WIDTH
lrck == in_right

pos_in_channel ==
    IF in_right THEN bit_cnt - (BITS_PER_CHANNEL % 2^BIT_CNT_WIDTH) ELSE bit_cnt

dacdat == [word |-> IF in_right THEN shift_r ELSE shift_l,
           bit  |-> BITS_PER_CHANNEL - 1 - pos_in_channel]

TxInit ==
    /\ bclk_div_cnt = 0 /\ bclk_int = FALSE
    /\ bit_cnt = 0 /\ shift_l = Zero /\ shift_r = Zero

TxReset ==
    /\ bclk_div_cnt' = 0 /\ bclk_int' = FALSE
    /\ bit_cnt' = 0 /\ shift_l' = Zero /\ shift_r' = Zero

DivideClock ==
    IF bclk_toggles
    THEN bclk_div_cnt' = 0 /\ bclk_int' = ~bclk_int
    ELSE bclk_div_cnt' = (bclk_div_cnt + 1) % 2^BCLK_CNT_WIDTH /\ UNCHANGED bclk_int

\* Mutant: the words are latched in every slot.
latches_EverySlot == bclk_edge_falling /\ pos_in_channel = 0

latches == bclk_edge_falling /\ bit_cnt = 0

Latch(sample_l, sample_r) ==
    IF latches THEN shift_l' = sample_l /\ shift_r' = sample_r ELSE UNCHANGED <<shift_l, shift_r>>

CountBit ==
    bit_cnt' = IF ~bclk_edge_falling THEN bit_cnt
               ELSE IF last_bit THEN 0 ELSE (bit_cnt + 1) % 2^BIT_CNT_WIDTH

TxClock(sample_l, sample_r) == DivideClock /\ Latch(sample_l, sample_r) /\ CountBit
=============================================================================
