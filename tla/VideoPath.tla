------------------------------ MODULE VideoPath ------------------------------
(***************************************************************************)
(* How a staged frame reaches the FPGA: render_frame's video_flush in      *)
(* game/video_interface.c, the pwrite calls it makes, the driver           *)
(* kernel_modules/video/fpga_video.c that copies them into its shadows and *)
(* the FPGA's memories under fpga_video_lock, and another program that     *)
(* reads the device.                                                       *)
(*                                                                         *)
(* A frame is its number: a byte of a region holds the number of the frame *)
(* it was staged for, 0 at load.  The device may also be a regular file    *)
(* (the loopback tests), which may take a write in parts, be interrupted   *)
(* or take nothing; the driver takes a write whole or refuses it.          *)
(***************************************************************************)
EXTENDS Integers

CONSTANTS
    TILE_BYTES,
    SPRITE_COUNT,
    WORD_BYTES,      \* the bytes of a sprite register
    SPRITE_OFFSET,   \* where the sprite region starts; a gap precedes it
    MaxFrame         \* bound: the frames that are staged

ASSUME SizeAssumption ==
    /\ TILE_BYTES \in Nat \ {0} /\ SPRITE_COUNT \in Nat \ {0} /\ WORD_BYTES \in Nat \ {0}
    /\ SPRITE_OFFSET \in Nat /\ SPRITE_OFFSET >= TILE_BYTES
    /\ MaxFrame \in Nat

SPRITE_BYTES == SPRITE_COUNT * WORD_BYTES
TILE_END     == TILE_BYTES
REGION_SIZE  == SPRITE_OFFSET + SPRITE_BYTES

TilePos   == 0..TILE_END - 1
SpritePos == SPRITE_OFFSET..REGION_SIZE - 1
Positions == TilePos \cup SpritePos

Regions == {"tiles", "sprites"}
Offset(region) == IF region = "tiles" THEN 0 ELSE SPRITE_OFFSET
Length(region) == IF region = "tiles" THEN TILE_BYTES ELSE SPRITE_BYTES

VARIABLES
    device,     \* what is behind the path: "driver", "file", or "none" yet
    mapped,     \* the regions whose ioremap succeeded
    stored,     \* the driver's shadows, or the file
    fpga,       \* Tile Map RAM and sprite registers
    lock,       \* fpga_video_lock: "free", "writer" or "reader"
    pc,         \* where the game program is
    video_open, \* video_fd >= 0
    staged,     \* the frame in the staging buffers
    region, written,   \* write_full's call and progress
    cursor,     \* the driver's copy loop: the next position
    rpc, rcursor, rbuf \* the reader: where it is, its loop and buffer

writer == <<pc, video_open, staged, region, written, cursor>>
reader == <<rpc, rcursor, rbuf>>
vars   == <<device, mapped, stored, fpga, lock, writer, reader>>

AllZero == [p \in Positions |-> 0]

\* Before the driver is loaded.
Init ==
    /\ device = "none" /\ mapped = {}
    /\ stored = AllZero /\ fpga = AllZero
    /\ lock = "free"
    /\ pc = "down" /\ video_open = FALSE /\ staged = 0
    /\ region = "tiles" /\ written = 0 /\ cursor = 0
    /\ rpc = "idle" /\ rcursor = 0 /\ rbuf = AllZero

-----------------------------------------------------------------------------
\* Loading and unloading the driver

\* fpga_video_init: the shadows are cleared, the FPGA is left as it is; a
\* region that cannot be mapped is kept in its shadow only.  If the device
\* cannot be registered nothing is left of it.
fpga_video_init(regions) ==
    /\ device = "none"
    /\ device' = "driver" /\ mapped' = regions
    /\ stored' = AllZero
    /\ UNCHANGED <<fpga, lock, writer, reader>>

\* fpga_video_exit: only while nobody has the device open.
fpga_video_exit ==
    /\ device = "driver" /\ ~video_open /\ rpc = "idle"
    /\ device' = "none" /\ mapped' = {}
    /\ UNCHANGED <<stored, fpga, lock, writer, reader>>

-----------------------------------------------------------------------------
\* The game program

\* video_interface_init opens the device, or fails, and the program runs on
\* either way.  Where there is no device O_CREAT makes a regular file; what a
\* driver would do beside that file is not looked at.
Start(ok) ==
    /\ pc = "down"
    /\ pc' = "tick" /\ video_open' = ok
    /\ IF ok /\ device = "none" THEN device' = "file" /\ stored' = AllZero
                                ELSE UNCHANGED <<device, stored>>
    /\ UNCHANGED <<mapped, fpga, lock, staged, region, written, cursor, reader>>

\* render_frame stages a whole frame, and video_flush starts on the tiles.
Render ==
    /\ pc = "tick" /\ staged < MaxFrame
    /\ staged' = staged + 1
    /\ IF video_open THEN pc' = "pwrite" /\ region' = "tiles" /\ written' = 0
                     ELSE UNCHANGED <<pc, region, written>>
    /\ UNCHANGED <<device, mapped, stored, fpga, lock, video_open, cursor, reader>>

\* video_interface_close at the end of main, or the program is killed between
\* two system calls.
Stop ==
    /\ pc \in {"tick", "pwrite"}
    /\ pc' = "down" /\ video_open' = FALSE
    /\ UNCHANGED <<device, mapped, stored, fpga, lock, staged, region, written, cursor, reader>>

\* Mutant: the sprites are pushed although the tiles were not.
WriteFails_GoesOn ==
    IF region = "tiles" THEN pc' = "pwrite" /\ region' = "sprites" /\ written' = 0
                        ELSE pc' = "tick" /\ UNCHANGED <<region, written>>

\* write_full returns -1: the frame is given up, its sprites too.
WriteFails == pc' = "tick" /\ UNCHANGED <<region, written>>

\* Mutant: a short write counts as a full one.
WriteReturns_NoLoop(n) ==
    IF region = "tiles" THEN pc' = "pwrite" /\ region' = "sprites" /\ written' = 0
                        ELSE pc' = "flushed" /\ UNCHANGED <<region, written>>

\* pwrite returns n > 0: write_full loops until all is written; then video_flush
\* goes on to the sprites, and after them returns 0.
WriteReturns(n) ==
    \/ /\ written + n < Length(region)
       /\ pc' = "pwrite" /\ written' = written + n /\ UNCHANGED region
    \/ /\ written + n = Length(region) /\ region = "tiles"
       /\ pc' = "pwrite" /\ region' = "sprites" /\ written' = 0
    \/ /\ written + n = Length(region) /\ region = "sprites"
       /\ pc' = "flushed" /\ UNCHANGED <<region, written>>

EndOfTick ==
    /\ pc = "flushed"
    /\ pc' = "tick"
    /\ UNCHANGED <<device, mapped, stored, fpga, lock, video_open, staged, region, written,
                   cursor, reader>>

-----------------------------------------------------------------------------
\* pwrite on a regular file: n bytes are stored, none, or the call fails (with
\* EINTR, which write_full takes for a reason to call again)

pos   == Offset(region) + written
count == Length(region) - written

FileStores(n) ==
    /\ pc = "pwrite" /\ device = "file" /\ n \in 1..count
    /\ stored' = [p \in Positions |-> IF p \in pos..pos + n - 1 THEN staged ELSE stored[p]]
    /\ WriteReturns(n)
    /\ UNCHANGED <<device, mapped, fpga, lock, video_open, staged, cursor, reader>>

FileFails ==
    /\ pc = "pwrite" /\ device = "file"
    /\ WriteFails
    /\ UNCHANGED <<device, mapped, stored, fpga, lock, video_open, staged, cursor, reader>>

-----------------------------------------------------------------------------
\* pwrite on the driver: fpga_video_write

\* Where a write may go: into the tiles, or into whole sprite registers.
accepts ==
    \/ pos + count <= TILE_END
    \/ /\ pos >= SPRITE_OFFSET
       /\ (pos - SPRITE_OFFSET) % WORD_BYTES = 0 /\ count % WORD_BYTES = 0
       /\ pos + count <= REGION_SIZE

\* Out of memory or a bad copy: nothing was locked or written.
DriverRefuses ==
    /\ pc = "pwrite" /\ device = "driver"
    /\ WriteFails
    /\ UNCHANGED <<device, mapped, stored, fpga, lock, video_open, staged, cursor, reader>>

\* Mutant: the driver does not take its mutex.
available_Always == TRUE

available == lock = "free"

DriverLocks ==
    /\ pc = "pwrite" /\ device = "driver" /\ accepts
    /\ available
    /\ lock' = "writer"
    /\ pc' = "copy" /\ cursor' = pos
    /\ UNCHANGED <<device, mapped, stored, fpga, video_open, staged, region, written, reader>>

\* One turn of the copy loop stores a tile byte or a sprite register, in the
\* shadow and, where it is mapped, in the FPGA.
unit == IF region = "tiles" THEN 1 ELSE WORD_BYTES

put(memory) == [p \in Positions |-> IF p \in cursor..cursor + unit - 1 THEN staged ELSE memory[p]]

DriverCopies ==
    /\ pc = "copy" /\ cursor < pos + count
    /\ stored' = put(stored)
    /\ fpga' = IF region \in mapped THEN put(fpga) ELSE fpga
    /\ cursor' = cursor + unit
    /\ UNCHANGED <<device, mapped, lock, pc, video_open, staged, region, written, reader>>

DriverReturns ==
    /\ pc = "copy" /\ cursor = pos + count
    /\ lock' = "free"
    /\ WriteReturns(count)
    /\ UNCHANGED <<device, mapped, stored, fpga, video_open, staged, cursor, reader>>

-----------------------------------------------------------------------------
\* fpga_video_read: another program reads the whole device in one call

ReaderLocks ==
    /\ rpc = "idle" /\ device = "driver"
    /\ available
    /\ lock' = "reader"
    /\ rpc' = "copy" /\ rcursor' = 0
    /\ UNCHANGED <<device, mapped, stored, fpga, writer, rbuf>>

ReaderCopies ==
    /\ rpc = "copy" /\ rcursor < REGION_SIZE
    /\ rbuf' = IF rcursor \in Positions THEN [rbuf EXCEPT ![rcursor] = stored[rcursor]] ELSE rbuf
    /\ rcursor' = rcursor + 1
    /\ UNCHANGED <<device, mapped, stored, fpga, lock, writer, rpc>>

ReaderUnlocks ==
    /\ rpc = "copy" /\ rcursor = REGION_SIZE
    /\ lock' = "free"
    /\ rpc' = "read"
    /\ UNCHANGED <<device, mapped, stored, fpga, writer, rcursor, rbuf>>

ReaderReturns ==
    /\ rpc = "read"
    /\ rpc' = "idle" /\ rcursor' = 0 /\ rbuf' = AllZero
    /\ UNCHANGED <<device, mapped, stored, fpga, lock, writer>>

Next ==
    \/ \E regions \in SUBSET Regions : fpga_video_init(regions)
    \/ fpga_video_exit
    \/ \E ok \in BOOLEAN : Start(ok)
    \/ Render \/ Stop \/ EndOfTick
    \/ \E n \in 1..TILE_BYTES + SPRITE_BYTES : FileStores(n)
    \/ FileFails
    \/ DriverRefuses \/ DriverLocks \/ DriverCopies \/ DriverReturns
    \/ ReaderLocks \/ ReaderCopies \/ ReaderUnlocks \/ ReaderReturns

Spec == Init /\ [][Next]_vars

-----------------------------------------------------------------------------
\* Properties

TypeOK ==
    /\ device \in {"none", "driver", "file"} /\ mapped \subseteq Regions
    /\ stored \in [Positions -> 0..MaxFrame] /\ fpga \in [Positions -> 0..MaxFrame]
    /\ lock \in {"free", "writer", "reader"}
    /\ pc \in {"down", "tick", "pwrite", "copy", "flushed"}
    /\ video_open \in BOOLEAN /\ staged \in 0..MaxFrame
    /\ region \in Regions /\ written \in 0..Length(region) - 1
    /\ cursor \in 0..REGION_SIZE
    /\ rpc \in {"idle", "copy", "read"} /\ rcursor \in 0..REGION_SIZE
    /\ rbuf \in [Positions -> 0..MaxFrame]

\* Frames never go backwards on the screen: read in the order they are written,
\* the bytes come from ever older frames.  So a torn frame, or one that failed
\* or was cut off by a crash, shows newer tiles above older ones and never
\* sprites that are ahead of the board.  (On the screen the last holds once a
\* whole board was written since the driver was loaded: loading it leaves what
\* an earlier driver, perhaps without the tiles, had put there.)
InOrder(memory, positions) ==
    \A p, q \in positions : p < q => memory[p] >= memory[q]

FrameOrder ==
    /\ InOrder(stored, Positions)
    /\ InOrder(fpga, TilePos) /\ InOrder(fpga, SpritePos)
    /\ mapped = Regions /\ stored[TILE_END - 1] # 0 => InOrder(fpga, Positions)

\* A flush that returns 0 has put the whole staged frame into the device, and
\* into every memory of the FPGA that is mapped, however the writes went.
FlushPublishes ==
    pc = "flushed" =>
        /\ \A p \in Positions : stored[p] = staged
        /\ \A p \in Positions :
              (IF p \in TilePos THEN "tiles" ELSE "sprites") \in mapped => fpga[p] = staged

\* A program that reads the device in one call never sees half a region: all
\* the tiles are of one frame, and so are all the sprites.
ReadsWholeRegions ==
    rpc = "read" =>
        /\ \A p, q \in TilePos : rbuf[p] = rbuf[q]
        /\ \A p, q \in SpritePos : rbuf[p] = rbuf[q]
=============================================================================
