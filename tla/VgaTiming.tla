----------------------------- MODULE VgaTiming -----------------------------
(***************************************************************************)
(* The VGA counters, hardware/rtl/vga_timing.sv: hcount runs along a line, *)
(* vcount along the lines, and the visible window is decoded from them.    *)
(* The sync pulses, which the monitor follows, are left out.               *)
(***************************************************************************)
EXTENDS Integers

CONSTANTS
    H_VISIBLE, H_FRONT, H_SYNC, H_BACK,
    V_VISIBLE, V_FRONT, V_SYNC, V_BACK

H_TOTAL == H_VISIBLE + H_FRONT + H_SYNC + H_BACK
V_TOTAL == V_VISIBLE + V_FRONT + V_SYNC + V_BACK

ASSUME PeriodAssumption ==
    /\ {H_VISIBLE, H_FRONT, H_SYNC, H_BACK, V_VISIBLE, V_FRONT, V_SYNC, V_BACK} \subseteq Nat
    /\ H_VISIBLE > 0 /\ V_VISIBLE > 0 /\ H_SYNC > 0 /\ V_SYNC > 0
    /\ H_TOTAL <= 1024 /\ V_TOTAL <= 1024      \* the counters have 10 bits

VARIABLES hcount, vcount
counters == <<hcount, vcount>>

h_wrap == hcount = H_TOTAL - 1
v_wrap == h_wrap /\ vcount = V_TOTAL - 1

\* Mutant: the last line is lost.
visible_OneLess == hcount < H_VISIBLE /\ vcount < V_VISIBLE - 1

visible == hcount < H_VISIBLE /\ vcount < V_VISIBLE

pixel_x == IF visible THEN hcount ELSE 0
pixel_y == IF visible THEN vcount ELSE 0

ResetCounters == hcount = 0 /\ vcount = 0

CountPixel ==
    /\ hcount' = IF h_wrap THEN 0 ELSE hcount + 1
    /\ vcount' = IF h_wrap THEN IF vcount = V_TOTAL - 1 THEN 0 ELSE vcount + 1 ELSE vcount
=============================================================================
