----------------------------- MODULE VideoScan -----------------------------
(***************************************************************************)
(* The screen while the game writes: the FPGA scans its tile memory out    *)
(* (video_pipeline.sv: vga_timing.sv, tile_map_ram.sv and                  *)
(* tile_map_renderer.sv, without a register between them) while the driver *)
(* of VideoPath stores bytes into it at any edge of the pixel clock.  The  *)
(* board's reset button, which clears the FPGA's memories, is not pressed. *)
(***************************************************************************)
EXTENDS VideoPath, VgaTiming

CONSTANTS
    MAP_ROWS, MAP_COLS,    \* the screen, in tiles
    TILE_SIZE              \* pixels of a tile's side

ASSUME ScreenAssumption ==
    /\ MAP_ROWS \in Nat \ {0} /\ MAP_COLS \in Nat \ {0} /\ TILE_SIZE \in Nat \ {0}
    /\ H_VISIBLE = MAP_COLS * TILE_SIZE /\ V_VISIBLE = MAP_ROWS * TILE_SIZE
    /\ TILE_BYTES = MAP_ROWS * MAP_COLS

VARIABLES
    picture,     \* the monitor: the tile id shown by each pixel of this scan
    steady       \* history: the tiles have not changed during this scan
scanVars == <<vars, counters, picture, steady>>

Pixels == (0..H_VISIBLE - 1) \X (0..V_VISIBLE - 1)
Blank  == [p \in Pixels |-> -1]

\* Mutant: the board is scanned out by columns.
tile_address_ByColumn ==
    (pixel_x \div TILE_SIZE) * MAP_ROWS + pixel_y \div TILE_SIZE

tile_address == (pixel_y \div TILE_SIZE) * MAP_COLS + pixel_x \div TILE_SIZE

render_tile_id == IF tile_address \in TilePos THEN fpga[tile_address] ELSE 0

ScanInit == Init /\ ResetCounters /\ picture = Blank /\ steady = TRUE

\* An edge of the pixel clock ends the pixel under the beam.
PixelClock ==
    /\ CountPixel
    /\ picture' = IF v_wrap THEN Blank
                  ELSE IF visible THEN [picture EXCEPT ![<<hcount, vcount>>] = render_tile_id]
                  ELSE picture
    /\ steady' = (v_wrap \/ steady)
    /\ UNCHANGED vars

Software ==
    /\ Next
    /\ steady' = (steady /\ \A a \in TilePos : fpga'[a] = fpga[a])
    /\ UNCHANGED <<counters, picture>>

ScanNext == PixelClock \/ Software

ScanSpec == ScanInit /\ [][ScanNext]_scanVars

-----------------------------------------------------------------------------
\* The tile a pixel belongs to, by the row-major index of video_set_tile.
Tile(pixel) == (pixel[2] \div TILE_SIZE) * MAP_COLS + pixel[1] \div TILE_SIZE

\* A picture that was left alone while it was scanned out is shown whole and
\* every tile in its place.  One that was written meanwhile may be torn, but
\* shows every pixel, and none of a frame newer than the memory's.
ScanShowsMemory ==
    /\ v_wrap /\ steady => \A p \in Pixels : picture[p] = fpga[Tile(p)]
    /\ \A p \in Pixels : picture[p] <= fpga[Tile(p)]
    /\ v_wrap => \A p \in Pixels : picture[p] # -1
=============================================================================
