--------------------------- MODULE VideoScan_proofs ---------------------------
(***************************************************************************)
(* Theorems about VideoPath and VideoScan: what a frame looks like in the  *)
(* driver, in the FPGA and on the screen at every instant, whichever       *)
(* writes fail, stop short or are cut off, for regions and screens of any  *)
(* size and any number of frames.                                          *)
(***************************************************************************)
EXTENDS VideoScan, TLAPS

\* Who has what open, and who holds fpga_video_lock.  The driver takes a write
\* whole, so only a file leaves one begun.
Opened ==
    /\ device # "driver" => mapped = {}
    /\ device # "file" => written = 0
    /\ video_open => device # "none"
    /\ pc \in {"pwrite", "copy", "flushed"} => video_open /\ staged > 0
    /\ pc = "copy" => device = "driver"
    /\ rpc # "idle" => device = "driver"
    /\ lock = "writer" <=> pc = "copy"
    /\ lock = "reader" <=> rpc = "copy"

\* A sprite region is copied register by register.
Copying ==
    pc = "copy" =>
        IF region = "tiles" THEN cursor <= TILE_END
        ELSE \E k \in 0..SPRITE_COUNT : cursor = SPRITE_OFFSET + k * WORD_BYTES

\* No byte is newer than the staged frame, and what precedes the place that is
\* written to is of the staged frame.
Reached == IF pc = "copy" THEN cursor ELSE Offset(region) + written
Progress ==
    /\ \A p \in Positions : stored[p] <= staged /\ fpga[p] <= staged
    /\ pc \in {"pwrite", "copy"} => \A p \in Positions : p < Reached => stored[p] = staged
    /\ pc = "flushed" => \A p \in Positions : stored[p] = staged

\* What was written since the driver was loaded is in the FPGA too, where it is
\* mapped, and is at least as new as anything that was left there.
RegionOf(p) == IF p \in TilePos THEN "tiles" ELSE "sprites"
Mirrored ==
    /\ \A p \in Positions : stored[p] # 0 /\ RegionOf(p) \in mapped => fpga[p] = stored[p]
    /\ \A p, q \in Positions : stored[p] # 0 /\ stored[q] = 0 => fpga[q] <= stored[p]

Ordered ==
    /\ InOrder(stored, Positions)
    /\ InOrder(fpga, TilePos) /\ InOrder(fpga, SpritePos)

\* A region of the driver's shadow is of one frame unless it is being copied,
\* and the reader has what it has read.
Even(memory, positions) == \A p, q \in positions : memory[p] = memory[q]
PositionsOf(r) == IF r = "tiles" THEN TilePos ELSE SpritePos
Whole ==
    /\ \A r \in Regions : device = "driver" /\ ~(pc = "copy" /\ region = r) => Even(stored, PositionsOf(r))
    /\ rpc = "copy" => \A p \in Positions : p < rcursor => rbuf[p] = stored[p]
    /\ rpc = "read" => \A r \in Regions : Even(rbuf, PositionsOf(r))

VideoInv == TypeOK /\ Opened /\ Copying /\ Progress /\ Mirrored /\ Ordered /\ Whole

-----------------------------------------------------------------------------
\* The layout: the tiles, a gap, then the sprite registers.

LEMMA Sizes ==
    /\ TILE_BYTES \in Nat /\ TILE_BYTES > 0 /\ TILE_END = TILE_BYTES
    /\ WORD_BYTES \in Nat /\ WORD_BYTES > 0 /\ SPRITE_COUNT \in Nat /\ SPRITE_COUNT > 0
    /\ SPRITE_BYTES \in Nat /\ SPRITE_BYTES > 0
    /\ SPRITE_OFFSET \in Nat /\ SPRITE_OFFSET >= TILE_END
    /\ REGION_SIZE \in Nat /\ REGION_SIZE = SPRITE_OFFSET + SPRITE_BYTES
    /\ MaxFrame \in Nat
<1>1. \A m, n \in Nat \ {0} : m * n \in Nat \ {0}
    OBVIOUS
<1>2. SPRITE_BYTES \in Nat \ {0}
    BY <1>1, SizeAssumption DEF SPRITE_BYTES
<1> QED BY <1>2, SizeAssumption DEF TILE_END, REGION_SIZE

LEMMA Layout ==
    /\ TilePos = 0..TILE_END - 1 /\ SpritePos = SPRITE_OFFSET..REGION_SIZE - 1
    /\ Positions = TilePos \cup SpritePos /\ TilePos \cap SpritePos = {}
    /\ Positions \subseteq Nat
BY Sizes DEF Positions, TilePos, SpritePos

LEMMA Places ==
    ASSUME NEW r \in Regions
    PROVE  /\ Offset(r) \in Nat /\ Length(r) \in Nat /\ Length(r) > 0
           /\ r = "tiles"   => Offset(r) = 0 /\ Length(r) = TILE_END
           /\ r = "sprites" => Offset(r) = SPRITE_OFFSET /\ Length(r) = SPRITE_BYTES
           /\ r = "tiles" \/ r = "sprites"
BY Sizes DEF Regions, Offset, Length

\* One more register stays inside the sprite region.
LEMMA NextRegister ==
    ASSUME NEW k \in 0..SPRITE_COUNT, SPRITE_OFFSET + k * WORD_BYTES < REGION_SIZE
    PROVE  /\ k + 1 \in 0..SPRITE_COUNT
           /\ SPRITE_OFFSET + k * WORD_BYTES + WORD_BYTES = SPRITE_OFFSET + (k + 1) * WORD_BYTES
<1>1. k # SPRITE_COUNT
    BY Sizes DEF REGION_SIZE, SPRITE_BYTES
<1>2. (k + 1) * WORD_BYTES = k * WORD_BYTES + WORD_BYTES /\ k * WORD_BYTES \in Nat
    BY Sizes
<1> QED BY <1>1, <1>2, Sizes

LEMMA RegistersInside ==
    ASSUME NEW k \in 0..SPRITE_COUNT
    PROVE  SPRITE_OFFSET + k * WORD_BYTES \in SPRITE_OFFSET..REGION_SIZE
<1>1. PICK j \in Nat : SPRITE_COUNT = k + j
  <2>1. SPRITE_COUNT - k \in Nat /\ SPRITE_COUNT = k + (SPRITE_COUNT - k)
      BY Sizes
  <2> QED BY <2>1
<1>2. SPRITE_BYTES = k * WORD_BYTES + j * WORD_BYTES
    BY <1>1, Sizes DEF SPRITE_BYTES
<1>3. k * WORD_BYTES \in Nat /\ j * WORD_BYTES \in Nat
    BY Sizes
<1> QED BY <1>2, <1>3, Sizes

-----------------------------------------------------------------------------
\* Each part of the invariant is kept by every step.

LEMMA Initially == Init => VideoInv
<1> SUFFICES ASSUME Init PROVE VideoInv
    OBVIOUS
<1>1. \A p \in Positions : stored[p] = 0 /\ fpga[p] = 0 /\ rbuf[p] = 0
    BY DEF Init, AllZero
<1>2. TypeOK
  <2>1. AllZero \in [Positions -> 0..MaxFrame] /\ 0 \in 0..MaxFrame /\ 0 \in 0..REGION_SIZE
      BY Sizes DEF AllZero
  <2>2. region \in Regions /\ written \in 0..Length(region) - 1
      BY Sizes DEF Init, Length, Regions
  <2>3. mapped \subseteq Regions
      BY DEF Init
  <2> QED BY <2>1, <2>2, <2>3 DEF Init, TypeOK
<1>3. Opened /\ Copying
    BY DEF Init, Opened, Copying
<1>4. Progress /\ Mirrored
    BY <1>1 DEF Init, Progress, Mirrored
<1>5. Ordered /\ Whole
    BY <1>1, Layout DEF Init, Ordered, InOrder, Whole, Even, PositionsOf
<1> QED BY <1>2, <1>3, <1>4, <1>5 DEF VideoInv

LEMMA TypeStep == TypeOK /\ Copying /\ [Next]_vars => TypeOK'
<1> SUFFICES ASSUME TypeOK, Copying, [Next]_vars PROVE TypeOK'
    OBVIOUS
<1> USE Sizes DEF TypeOK, vars, writer, reader
<1>1. AllZero \in [Positions -> 0..MaxFrame]
    BY DEF AllZero
<1>2. Length("tiles") > 0 /\ Length("tiles") \in Nat /\ Length("sprites") > 0 /\ Length("sprites") \in Nat
    BY Places DEF Regions
<1>3. ASSUME NEW regions \in SUBSET Regions, fpga_video_init(regions) PROVE TypeOK'
    BY <1>1, <1>3 DEF fpga_video_init
<1>4. CASE fpga_video_exit
    BY <1>4 DEF fpga_video_exit
<1>5. ASSUME NEW ok \in BOOLEAN, Start(ok) PROVE TypeOK'
    BY <1>1, <1>5 DEF Start
<1>6. CASE Render
    BY <1>2, <1>6 DEF Render, Regions
<1>7. CASE Stop \/ EndOfTick
    BY <1>7 DEF Stop, EndOfTick
<1>8. ASSUME NEW n \in Nat \ {0}, WriteReturns(n)
      PROVE  /\ pc' \in {"pwrite", "flushed"} /\ region' \in Regions
             /\ written' \in 0..Length(region') - 1
  <2>1. Length(region) \in Nat
      BY Places
  <2> QED BY <1>2, <1>8, <2>1 DEF WriteReturns, Regions
<1>9. ASSUME NEW n \in 1..TILE_BYTES + SPRITE_BYTES, FileStores(n) PROVE TypeOK'
  <2>1. n \in Nat \ {0} /\ stored' \in [Positions -> 0..MaxFrame]
      BY <1>9 DEF FileStores
  <2> QED BY <1>8, <1>9, <2>1 DEF FileStores
<1>10. CASE FileFails \/ DriverRefuses
    BY <1>10 DEF FileFails, DriverRefuses, WriteFails
<1>11. CASE DriverLocks
  <2>1. pos \in 0..REGION_SIZE
    <3>1. \/ region = "tiles" /\ Offset(region) = 0 /\ Length(region) = TILE_END
          \/ region = "sprites" /\ Offset(region) = SPRITE_OFFSET /\ Length(region) = SPRITE_BYTES
        BY Places
    <3> QED BY <3>1 DEF pos
  <2> QED BY <1>11, <2>1 DEF DriverLocks
<1>12. CASE DriverCopies
  <2>1. put(stored) \in [Positions -> 0..MaxFrame] /\ put(fpga) \in [Positions -> 0..MaxFrame]
      BY DEF put
  <2>2. cursor' \in 0..REGION_SIZE
    <3>1. CASE region = "tiles"
      <4>1. pos + count = TILE_END
          BY <3>1, Places DEF pos, count
      <4> QED BY <1>12, <3>1, <4>1 DEF DriverCopies, unit
    <3>2. CASE region = "sprites"
      <4>1. pos + count = REGION_SIZE
          BY <3>2, Places DEF pos, count
      <4>2. PICK k \in 0..SPRITE_COUNT : cursor = SPRITE_OFFSET + k * WORD_BYTES
          BY <1>12, <3>2 DEF DriverCopies, Copying
      <4>3. k + 1 \in 0..SPRITE_COUNT /\ cursor' = SPRITE_OFFSET + (k + 1) * WORD_BYTES
          BY <1>12, <3>2, <4>1, <4>2, NextRegister DEF DriverCopies, unit
      <4>4. cursor' \in SPRITE_OFFSET..REGION_SIZE
          BY <4>3, RegistersInside
      <4> QED BY <4>4
    <3> QED BY <3>1, <3>2, Places
  <2> QED BY <1>12, <2>1, <2>2 DEF DriverCopies
<1>13. CASE DriverReturns
  <2>1. count \in Nat \ {0}
      BY Places DEF count
  <2> QED BY <1>8, <1>13, <2>1 DEF DriverReturns
<1>14. CASE ReaderLocks \/ ReaderCopies \/ ReaderUnlocks \/ ReaderReturns
    BY <1>1, <1>14 DEF ReaderLocks, ReaderCopies, ReaderUnlocks, ReaderReturns
<1>15. CASE UNCHANGED vars
    BY <1>15
<1> QED
    BY <1>3, <1>4, <1>5, <1>6, <1>7, <1>9, <1>10, <1>11, <1>12, <1>13, <1>14, <1>15 DEF Next

LEMMA OpenedStep == TypeOK /\ Opened /\ [Next]_vars => Opened'
<1> SUFFICES ASSUME TypeOK, Opened, [Next]_vars PROVE Opened'
    OBVIOUS
<1> USE DEF Opened, vars, writer, reader
<1>1. ASSUME NEW regions \in SUBSET Regions, fpga_video_init(regions) PROVE Opened'
    BY <1>1 DEF fpga_video_init
<1>2. CASE fpga_video_exit
    BY <1>2 DEF fpga_video_exit
<1>3. ASSUME NEW ok \in BOOLEAN, Start(ok) PROVE Opened'
    BY <1>3 DEF Start
<1>4. CASE Render
    BY <1>4, Sizes DEF Render, TypeOK
<1>5. CASE Stop \/ EndOfTick
    BY <1>5 DEF Stop, EndOfTick
<1>6. ASSUME NEW n, FileStores(n) PROVE Opened'
    BY <1>6 DEF FileStores, WriteReturns
<1>7. CASE FileFails \/ DriverRefuses
    BY <1>7 DEF FileFails, DriverRefuses, WriteFails
<1>8. CASE DriverLocks
    BY <1>8 DEF DriverLocks, available
<1>9. CASE DriverCopies
    BY <1>9 DEF DriverCopies
<1>10. CASE DriverReturns
  <2>1. ~(written + count < Length(region))
      BY Places DEF count, TypeOK
  <2>2. pc' \in {"pwrite", "flushed"} /\ (written' = 0 \/ written' = written)
      BY <1>10, <2>1 DEF DriverReturns, WriteReturns
  <2> QED BY <1>10, <2>2 DEF DriverReturns
<1>11. CASE ReaderLocks \/ ReaderCopies \/ ReaderUnlocks \/ ReaderReturns
    BY <1>11 DEF ReaderLocks, ReaderCopies, ReaderUnlocks, ReaderReturns, available
<1>12. CASE UNCHANGED vars
    BY <1>12
<1> QED BY <1>1, <1>2, <1>3, <1>4, <1>5, <1>6, <1>7, <1>8, <1>9, <1>10, <1>11, <1>12 DEF Next

LEMMA CopyingStep == TypeOK /\ Opened /\ Copying /\ [Next]_vars => Copying'
<1> SUFFICES ASSUME TypeOK, Opened, Copying, [Next]_vars, pc' = "copy"
             PROVE  IF region' = "tiles" THEN cursor' <= TILE_END
                    ELSE \E k \in 0..SPRITE_COUNT : cursor' = SPRITE_OFFSET + k * WORD_BYTES
    BY DEF Copying
<1> DEFINE Goal == IF region' = "tiles" THEN cursor' <= TILE_END
                   ELSE \E k \in 0..SPRITE_COUNT : cursor' = SPRITE_OFFSET + k * WORD_BYTES
<1>1. CASE DriverLocks
  <2>1. cursor' = Offset(region) /\ region' = region
      BY <1>1, Places DEF DriverLocks, pos, Opened, TypeOK
  <2>2. 0 \in 0..SPRITE_COUNT /\ SPRITE_OFFSET = SPRITE_OFFSET + 0 * WORD_BYTES
      BY Sizes
  <2> QED BY <2>1, <2>2, Places, Sizes DEF TypeOK
<1>2. CASE DriverCopies
  <2>1. pc = "copy" /\ region' = region /\ cursor < pos + count /\ cursor' = cursor + unit
      BY <1>2 DEF DriverCopies
  <2>2. CASE region = "tiles"
    <3>1. pos + count = TILE_END
        BY <2>2, Places, Sizes DEF pos, count, TypeOK
    <3> QED BY <2>1, <2>2, <3>1, Sizes DEF unit, TypeOK
  <2>3. CASE region = "sprites"
    <3>1. pos + count = REGION_SIZE
        BY <2>3, Places, Sizes DEF pos, count, TypeOK
    <3>2. PICK k \in 0..SPRITE_COUNT : cursor = SPRITE_OFFSET + k * WORD_BYTES
        BY <2>1, <2>3 DEF Copying
    <3>3. k + 1 \in 0..SPRITE_COUNT /\ cursor' = SPRITE_OFFSET + (k + 1) * WORD_BYTES
        BY <2>1, <2>3, <3>1, <3>2, NextRegister DEF unit
    <3> QED BY <2>1, <2>3, <3>3
  <2> QED BY <2>2, <2>3, Places DEF TypeOK
<1>3. CASE ReaderLocks \/ ReaderCopies \/ ReaderUnlocks \/ ReaderReturns \/ UNCHANGED vars
    BY <1>3 DEF ReaderLocks, ReaderCopies, ReaderUnlocks, ReaderReturns, Copying, vars, writer
<1>4. CASE FileFails \/ DriverRefuses \/ DriverReturns \/ Render \/ Stop \/ EndOfTick
    BY <1>4 DEF FileFails, DriverRefuses, DriverReturns, WriteFails, WriteReturns, Render, Stop, EndOfTick
<1>5. ASSUME NEW n, FileStores(n) PROVE Goal
    BY <1>5 DEF FileStores, WriteReturns
<1>6. ASSUME NEW regions \in SUBSET Regions, fpga_video_init(regions) PROVE Goal
    BY <1>6 DEF fpga_video_init, Opened, writer
<1>7. CASE fpga_video_exit
    BY <1>7 DEF fpga_video_exit, Opened, writer
<1>8. ASSUME NEW ok \in BOOLEAN, Start(ok) PROVE Goal
    BY <1>8 DEF Start
<1> QED BY <1>1, <1>2, <1>3, <1>4, <1>5, <1>6, <1>7, <1>8 DEF Next

LEMMA Numbers ==
    ASSUME TypeOK
    PROVE  /\ Positions \subseteq Nat /\ pos \in Nat /\ count \in Nat \ {0}
           /\ staged \in Nat /\ cursor \in Nat /\ Reached \in Nat
<1>1. staged \in Nat /\ cursor \in Nat
    BY Sizes DEF TypeOK
<1>2. region \in Regions /\ written \in 0..Length(region) - 1
    BY DEF TypeOK
<1>3. Offset(region) \in Nat /\ Length(region) \in Nat
    BY <1>2, Places
<1>4. pos \in Nat /\ count \in Nat \ {0}
    BY <1>2, <1>3 DEF pos, count
<1>5. Reached = cursor \/ Reached = pos
    BY DEF Reached, pos
<1> QED BY <1>1, <1>4, <1>5, Layout

\* A turn of the copy loop stays in the region of the call.
LEMMA CopiesInside ==
    ASSUME TypeOK, Opened, Copying, pc = "copy", cursor < pos + count
    PROVE  /\ unit \in Nat \ {0}
           /\ \A p \in Positions : p \in cursor..cursor + unit - 1 => RegionOf(p) = region
<1>1. unit \in Nat \ {0}
    BY Sizes DEF unit
<1>2. CASE region = "tiles"
  <2>1. pos + count = TILE_END
      BY <1>2, Places, Sizes DEF pos, count, TypeOK
  <2> QED BY <1>1, <1>2, <2>1, Layout, Sizes DEF unit, RegionOf, TypeOK
<1>3. CASE region = "sprites"
  <2>1. PICK k \in 0..SPRITE_COUNT : cursor = SPRITE_OFFSET + k * WORD_BYTES
      BY <1>3 DEF Copying
  <2>2. cursor >= SPRITE_OFFSET
      BY <2>1, RegistersInside, Sizes
  <2> QED BY <1>1, <1>3, <2>2, Layout, Sizes DEF RegionOf, TypeOK
<1> QED BY <1>2, <1>3, Places DEF TypeOK

\* Where a write that returns n has come to.
LEMMA ReturnsReached ==
    ASSUME TypeOK, NEW n \in Nat \ {0}, WriteReturns(n), UNCHANGED staged,
           \A p \in Positions : stored'[p] <= staged /\ fpga'[p] <= staged,
           \A p \in Positions : p < pos + n => stored'[p] = staged
    PROVE  Progress'
<1>1. pos \in Nat /\ Positions \subseteq Nat
    BY Places, Layout DEF pos, TypeOK
<1>2. CASE written + n < Length(region)
  <2>1. pc' = "pwrite" /\ Reached' = pos + n
      BY <1>2, Places DEF WriteReturns, Reached, pos, TypeOK
  <2> QED BY <2>1 DEF Progress
<1>3. CASE written + n = Length(region) /\ region = "tiles"
  <2>1. pc' = "pwrite" /\ Reached' = SPRITE_OFFSET /\ pos + n = TILE_END
      BY <1>3, Places, Sizes DEF WriteReturns, Reached, pos, TypeOK, Offset
  <2>2. \A p \in Positions : p < SPRITE_OFFSET => p < TILE_END
      BY Layout, Sizes
  <2> QED BY <2>1, <2>2 DEF Progress
<1>4. CASE written + n = Length(region) /\ region = "sprites"
  <2>1. pc' = "flushed" /\ pos + n = REGION_SIZE
      BY <1>4, Places, Sizes DEF WriteReturns, pos, TypeOK
  <2>2. \A p \in Positions : p < REGION_SIZE
      BY Layout, Sizes
  <2> QED BY <2>1, <2>2 DEF Progress
<1> QED BY <1>2, <1>3, <1>4 DEF WriteReturns

LEMMA ProgressStep == TypeOK /\ Opened /\ Copying /\ Progress /\ [Next]_vars => Progress'
<1> SUFFICES ASSUME TypeOK, Opened, Copying, Progress, [Next]_vars PROVE Progress'
    OBVIOUS
<1>0. Positions \subseteq Nat /\ pos \in Nat /\ count \in Nat \ {0} /\ staged \in Nat
    BY Numbers
<1>1. \A p \in Positions : stored[p] \in Nat /\ fpga[p] \in Nat
    BY Sizes DEF TypeOK
<1>2. ASSUME NEW regions \in SUBSET Regions, fpga_video_init(regions) PROVE Progress'
    BY <1>0, <1>1, <1>2 DEF fpga_video_init, Opened, Progress, AllZero, writer
<1>3. CASE fpga_video_exit
    BY <1>3 DEF fpga_video_exit, Opened, Progress, writer
<1>4. ASSUME NEW ok \in BOOLEAN, Start(ok) PROVE Progress'
    BY <1>0, <1>1, <1>4 DEF Start, Progress, AllZero
<1>5. CASE Render
  <2>1. \A p \in Positions : stored'[p] <= staged' /\ fpga'[p] <= staged'
      BY <1>0, <1>1, <1>5 DEF Render, Progress
  <2>2. pc' = "tick" \/ (pc' = "pwrite" /\ Reached' = 0)
      BY <1>5, Places DEF Render, Reached, Offset
  <2> QED BY <1>0, <2>1, <2>2 DEF Progress
<1>6. CASE Stop \/ EndOfTick
    BY <1>6 DEF Stop, EndOfTick, Progress
<1>7. ASSUME NEW n \in 1..TILE_BYTES + SPRITE_BYTES, FileStores(n) PROVE Progress'
  <2>1. n \in Nat \ {0}
      OBVIOUS
  <2>2. \A p \in Positions : p < pos => stored[p] = staged
      BY <1>7 DEF FileStores, Progress, Reached, pos
  <2>3. \A p \in Positions : stored'[p] = IF p \in pos..pos + n - 1 THEN staged ELSE stored[p]
      BY <1>7 DEF FileStores
  <2>4. \A p \in Positions : p < pos + n => stored'[p] = staged
      BY <1>0, <2>1, <2>2, <2>3
  <2>5. \A p \in Positions : stored'[p] <= staged /\ fpga'[p] <= staged
      BY <1>0, <1>7, <2>3 DEF FileStores, Progress
  <2>6. WriteReturns(n) /\ UNCHANGED staged
      BY <1>7 DEF FileStores
  <2> QED BY <2>1, <2>4, <2>5, <2>6, ReturnsReached
<1>8. CASE FileFails \/ DriverRefuses
    BY <1>8 DEF FileFails, DriverRefuses, WriteFails, Progress
<1>9. CASE DriverLocks
    BY <1>9 DEF DriverLocks, Progress, Reached, pos
<1>10. CASE DriverCopies
  <2>1. unit \in Nat \ {0} /\ cursor \in Nat
      BY <1>10, CopiesInside, Sizes DEF DriverCopies, TypeOK
  <2>2. \A p \in Positions : p < cursor => stored[p] = staged
      BY <1>10 DEF DriverCopies, Progress, Reached
  <2>3. \A p \in Positions : /\ stored'[p] = IF p \in cursor..cursor + unit - 1 THEN staged ELSE stored[p]
                             /\ fpga'[p] = staged \/ fpga'[p] = fpga[p]
      BY <1>10 DEF DriverCopies, put
  <2>4. \A p \in Positions : p < cursor + unit => stored'[p] = staged
      BY <1>0, <2>1, <2>2, <2>3
  <2>5. \A p \in Positions : stored'[p] <= staged /\ fpga'[p] <= staged
      BY <1>0, <2>3 DEF Progress
  <2>6. pc' = "copy" /\ staged' = staged /\ Reached' = cursor + unit
      BY <1>10 DEF DriverCopies, Reached
  <2> QED BY <2>4, <2>5, <2>6 DEF Progress
<1>11. CASE DriverReturns
  <2>1. \A p \in Positions : p < pos + count => stored'[p] = staged
      BY <1>11 DEF DriverReturns, Progress, Reached
  <2>2. \A p \in Positions : stored'[p] <= staged /\ fpga'[p] <= staged
      BY <1>11 DEF DriverReturns, Progress
  <2>3. WriteReturns(count) /\ UNCHANGED staged
      BY <1>11 DEF DriverReturns
  <2> QED BY <1>0, <2>1, <2>2, <2>3, ReturnsReached
<1>12. CASE ReaderLocks \/ ReaderCopies \/ ReaderUnlocks \/ ReaderReturns \/ UNCHANGED vars
    BY <1>12 DEF ReaderLocks, ReaderCopies, ReaderUnlocks, ReaderReturns, Progress, Reached, vars, writer
<1> QED BY <1>2, <1>3, <1>4, <1>5, <1>6, <1>7, <1>8, <1>9, <1>10, <1>11, <1>12 DEF Next

\* What one write does to the memories, whichever takes it: the bytes from
\* Reached on take the staged frame, in the FPGA too when the region is mapped.
Written(b) ==
    /\ b \in Nat
    /\ \A p \in Positions : stored'[p] = IF Reached <= p /\ p < b THEN staged ELSE stored[p]
    /\ \A p \in Positions : fpga'[p] = IF region \in mapped /\ Reached <= p /\ p < b THEN staged ELSE fpga[p]
    /\ device = "driver" => \A p \in Positions : Reached <= p /\ p < b => RegionOf(p) = region
    /\ pc \in {"pwrite", "copy"} /\ UNCHANGED <<device, mapped>>

LEMMA FileWrites ==
    ASSUME TypeOK, Opened, NEW n \in Nat, FileStores(n)
    PROVE  Written(pos + n)
<1>1. Positions \subseteq Nat /\ pos \in Nat /\ Reached = pos /\ pos + n \in Nat
    BY Places, Layout DEF pos, TypeOK, FileStores, Reached
<1>2. \A p \in Positions : p \in pos..pos + n - 1 <=> Reached <= p /\ p < pos + n
    BY <1>1
<1> QED BY <1>1, <1>2 DEF FileStores, Written, Opened

LEMMA DriverWrites ==
    ASSUME TypeOK, Opened, Copying, DriverCopies
    PROVE  Written(cursor + unit)
<1>1. Positions \subseteq Nat /\ cursor \in Nat /\ unit \in Nat \ {0} /\ Reached = cursor /\ cursor + unit \in Nat
  <2>1. unit \in Nat \ {0}
      BY CopiesInside DEF DriverCopies
  <2>2. Reached = cursor
      BY DEF DriverCopies, Reached
  <2> QED BY <2>1, <2>2, Numbers
<1>2. \A p \in Positions : p \in cursor..cursor + unit - 1 <=> Reached <= p /\ p < cursor + unit
    BY <1>1
<1>3. \A p \in Positions : p \in cursor..cursor + unit - 1 => RegionOf(p) = region
    BY CopiesInside DEF DriverCopies
<1> QED BY <1>1, <1>2, <1>3 DEF DriverCopies, Written, put

\* Every other step leaves the memories alone, or clears the shadow.
LEMMA OtherwiseKept ==
    ASSUME TypeOK, Opened, Copying, [Next]_vars
    PROVE  \/ \E b \in Nat : Written(b)
           \/ fpga' = fpga /\ stored' = AllZero /\ device = "none"
           \/ fpga' = fpga /\ stored' = stored /\ (mapped' = mapped \/ mapped' = {})
<1>1. ASSUME NEW regions \in SUBSET Regions, fpga_video_init(regions)
      PROVE  fpga' = fpga /\ stored' = AllZero /\ device = "none"
    BY <1>1 DEF fpga_video_init
<1>2. CASE fpga_video_exit
    BY <1>2 DEF fpga_video_exit
<1>3. ASSUME NEW ok \in BOOLEAN, Start(ok)
      PROVE  \/ fpga' = fpga /\ stored' = AllZero /\ device = "none"
             \/ fpga' = fpga /\ stored' = stored /\ mapped' = mapped
    BY <1>3 DEF Start
<1>4. ASSUME NEW n \in 1..TILE_BYTES + SPRITE_BYTES, FileStores(n) PROVE \E b \in Nat : Written(b)
  <2>1. n \in Nat
      OBVIOUS
  <2> QED BY <1>4, <2>1, FileWrites DEF Written
<1>5. CASE DriverCopies
    BY <1>5, DriverWrites DEF Written
<1>6. CASE Render \/ Stop \/ EndOfTick \/ FileFails \/ DriverRefuses \/ DriverLocks \/ DriverReturns
    BY <1>6 DEF Render, Stop, EndOfTick, FileFails, DriverRefuses, DriverLocks, DriverReturns
<1>7. CASE ReaderLocks \/ ReaderCopies \/ ReaderUnlocks \/ ReaderReturns \/ UNCHANGED vars
    BY <1>7 DEF ReaderLocks, ReaderCopies, ReaderUnlocks, ReaderReturns, vars
<1> QED BY <1>1, <1>2, <1>3, <1>4, <1>5, <1>6, <1>7 DEF Next

LEMMA MirroredStep ==
    TypeOK /\ Opened /\ Copying /\ Progress /\ Mirrored /\ [Next]_vars => Mirrored'
<1> SUFFICES ASSUME TypeOK, Opened, Copying, Progress, Mirrored, [Next]_vars PROVE Mirrored'
    OBVIOUS
<1>1. \A p \in Positions : stored[p] \in Nat /\ fpga[p] \in Nat
    BY Sizes DEF TypeOK
<1>2. ASSUME NEW b \in Nat, Written(b) PROVE Mirrored'
  <2>1. staged \in Nat \ {0}
      BY <1>2, Sizes DEF Written, Opened, TypeOK
  <2>2. ASSUME NEW p \in Positions, stored'[p] # 0, RegionOf(p) \in mapped' PROVE fpga'[p] = stored'[p]
    <3>1. device = "driver" /\ RegionOf(p) \in mapped
        BY <1>2, <2>2 DEF Written, Opened
    <3>2. CASE Reached <= p /\ p < b
        BY <1>2, <3>1, <3>2 DEF Written
    <3>3. CASE ~(Reached <= p /\ p < b)
        BY <1>2, <2>2, <3>1, <3>3 DEF Written, Mirrored
    <3> QED BY <3>2, <3>3
  <2>3. ASSUME NEW p \in Positions, NEW q \in Positions, stored'[p] # 0, stored'[q] = 0
        PROVE  fpga'[q] <= stored'[p]
    <3>1. stored[q] = 0 /\ fpga'[q] = fpga[q]
        BY <1>2, <2>1, <2>3 DEF Written
    <3>2. stored'[p] = staged \/ stored'[p] = stored[p]
        BY <1>2 DEF Written
    <3> QED BY <2>3, <3>1, <3>2 DEF Progress, Mirrored
  <2>4. \A p \in Positions : RegionOf(p)' = RegionOf(p)
      BY DEF RegionOf
  <2> QED BY <2>2, <2>3, <2>4 DEF Mirrored
<1>3. CASE fpga' = fpga /\ stored' = AllZero
    BY <1>3 DEF Mirrored, AllZero
<1>4. CASE fpga' = fpga /\ stored' = stored /\ (mapped' = mapped \/ mapped' = {})
    BY <1>4 DEF Mirrored, RegionOf
<1> QED BY <1>2, <1>3, <1>4, OtherwiseKept

LEMMA OrderedStep ==
    TypeOK /\ Opened /\ Copying /\ Progress /\ Mirrored /\ Ordered /\ [Next]_vars => Ordered'
<1> SUFFICES ASSUME TypeOK, Opened, Copying, Progress, Mirrored, Ordered, [Next]_vars PROVE Ordered'
    OBVIOUS
<1>1. \A p \in Positions : stored[p] \in Nat /\ fpga[p] \in Nat
    BY Sizes DEF TypeOK
<1>2. ASSUME NEW b \in Nat, Written(b) PROVE Ordered'
  <2>1. staged \in Nat \ {0} /\ Positions \subseteq Nat /\ Reached \in Nat
      BY <1>2, Numbers DEF Written, Opened
  <2>2. \A p \in Positions : p < Reached => stored[p] = staged
      BY <1>2 DEF Written, Progress
  <2>3. ASSUME NEW p \in Positions, NEW q \in Positions, p < q PROVE stored'[p] >= stored'[q]
    <3>1. stored[p] >= stored[q] /\ stored[p] <= staged /\ stored[q] <= staged
        BY <2>3 DEF Ordered, InOrder, Progress
    <3>2. CASE Reached <= q /\ q < b
        BY <1>2, <2>1, <2>2, <2>3, <3>2 DEF Written
    <3>3. CASE ~(Reached <= q /\ q < b)
        BY <1>1, <1>2, <2>1, <3>1, <3>3 DEF Written
    <3> QED BY <3>2, <3>3
  <2>4. ASSUME NEW p \in Positions, NEW q \in Positions, p < q, RegionOf(p) = RegionOf(q),
               fpga[p] >= fpga[q]
        PROVE  fpga'[p] >= fpga'[q]
    <3>1. fpga[p] <= staged /\ fpga[q] <= staged
        BY DEF Progress
    <3>2. CASE region \in mapped /\ Reached <= q /\ q < b
      <4>1. device = "driver"
          BY <3>2 DEF Opened
      <4>2. RegionOf(p) \in mapped
          BY <1>2, <2>4, <3>2, <4>1 DEF Written
      <4>3. CASE p < Reached
        <5>1. fpga[p] = staged
            BY <2>1, <2>2, <4>2, <4>3 DEF Mirrored
        <5> QED BY <1>2, <2>1, <3>2, <4>3, <5>1 DEF Written
      <4>4. CASE Reached <= p
        <5>1. p < b
            BY <1>2, <2>1, <2>4, <3>2
        <5> QED BY <1>2, <2>1, <3>2, <4>4, <5>1 DEF Written
      <4> QED BY <2>1, <4>3, <4>4
    <3>3. CASE ~(region \in mapped /\ Reached <= q /\ q < b)
        BY <1>1, <1>2, <2>1, <2>4, <3>1, <3>3 DEF Written
    <3> QED BY <3>2, <3>3
  <2>5. \A p, q \in TilePos : p \in Positions /\ RegionOf(p) = RegionOf(q)
      BY Layout DEF RegionOf
  <2>6. \A p, q \in SpritePos : p \in Positions /\ RegionOf(p) = RegionOf(q)
      BY Layout DEF RegionOf
  <2> QED BY <2>3, <2>4, <2>5, <2>6 DEF Ordered, InOrder
<1>3. CASE fpga' = fpga /\ stored' = AllZero
    BY <1>3 DEF Ordered, InOrder, AllZero
<1>4. CASE fpga' = fpga /\ stored' = stored
    BY <1>4 DEF Ordered, InOrder
<1> QED BY <1>2, <1>3, <1>4, OtherwiseKept

LEMMA WholeStep ==
    TypeOK /\ Opened /\ Copying /\ Progress /\ Whole /\ [Next]_vars => Whole'
<1> SUFFICES ASSUME TypeOK, Opened, Copying, Progress, Whole, [Next]_vars PROVE Whole'
    OBVIOUS
<1>0. \A r \in Regions : PositionsOf(r) \subseteq Positions
    BY Layout DEF PositionsOf
<1>1. Even(AllZero, TilePos) /\ Even(AllZero, SpritePos)
    BY Layout DEF Even, AllZero
<1>2. ASSUME NEW regions \in SUBSET Regions, fpga_video_init(regions) PROVE Whole'
  <2>1. stored' = AllZero /\ rpc' = "idle"
      BY <1>2 DEF fpga_video_init, Opened, reader
  <2>2. \A r \in Regions : Even(AllZero, PositionsOf(r))
      BY <1>1 DEF PositionsOf
  <2> QED BY <2>1, <2>2 DEF Whole
<1>3. CASE fpga_video_exit
    BY <1>3 DEF fpga_video_exit, Whole, reader
<1>4. ASSUME NEW ok \in BOOLEAN, Start(ok) PROVE Whole'
  <2>1. \/ stored' = stored /\ device' = device
        \/ device' = "file" /\ rpc = "idle"
      BY <1>4 DEF Start, Opened
  <2>2. pc # "copy" /\ UNCHANGED <<rpc, rcursor, rbuf, region>>
      BY <1>4 DEF Start, reader
  <2> QED BY <2>1, <2>2 DEF Whole
<1>5. CASE Render \/ Stop \/ EndOfTick
    BY <1>5 DEF Render, Stop, EndOfTick, Whole, reader
<1>6. CASE FileFails \/ DriverRefuses \/ DriverLocks
    BY <1>6 DEF FileFails, DriverRefuses, DriverLocks, Whole, reader
<1>7. ASSUME NEW n, FileStores(n) PROVE Whole'
    BY <1>7 DEF FileStores, Opened, Whole, reader
<1>8. CASE DriverCopies
  <2>1. Written(cursor + unit)
      BY <1>8, DriverWrites
  <2>2. ASSUME NEW r \in Regions, r # region PROVE Even(stored', PositionsOf(r))
    <3>1. \A p \in PositionsOf(r) : RegionOf(p) = r
        BY Layout, Places DEF PositionsOf, RegionOf
    <3>2. \A p \in PositionsOf(r) : stored'[p] = stored[p]
        BY <1>0, <1>8, <2>1, <2>2, <3>1 DEF Written, DriverCopies, Opened
    <3>3. Even(stored, PositionsOf(r))
        BY <1>8, <2>2 DEF DriverCopies, Opened, Whole
    <3> QED BY <3>2, <3>3 DEF Even
  <2>3. rpc # "copy" /\ UNCHANGED reader /\ device' = device /\ region' = region /\ pc' = "copy"
      BY <1>8 DEF DriverCopies, Opened
  <2> QED BY <2>2, <2>3 DEF Whole, reader
<1>9. CASE DriverReturns
  <2>1. \A p \in PositionsOf(region) : stored[p] = staged
    <3>1. cursor = pos + count /\ pc = "copy"
        BY <1>9 DEF DriverReturns
    <3>2. region \in Regions /\ written \in 0..Length(region) - 1
        BY DEF TypeOK
    <3>3. cursor = Offset(region) + Length(region)
        BY <3>1, <3>2, Places DEF pos, count
    <3>4. \A p \in PositionsOf(region) : p < cursor /\ p \in Positions
        BY <3>2, <3>3, Layout, Places, Sizes DEF PositionsOf
    <3> QED BY <3>1, <3>4 DEF Progress, Reached
  <2>2. ASSUME NEW r \in Regions PROVE Even(stored, PositionsOf(r))
    <3>1. CASE r = region
        BY <2>1, <3>1 DEF Even
    <3>2. CASE r # region
        BY <1>9, <3>2 DEF DriverReturns, Opened, Whole
    <3> QED BY <3>1, <3>2
  <2> QED BY <1>9, <2>2 DEF DriverReturns, Whole, reader
<1>10. CASE ReaderLocks
    BY <1>10, Layout DEF ReaderLocks, Opened, Whole, writer
<1>11. CASE ReaderCopies
  <2>1. \A p \in Positions : p < rcursor => rbuf[p] = stored[p]
      BY <1>11 DEF ReaderCopies, Whole
  <2>2. ASSUME NEW p \in Positions, p < rcursor + 1 PROVE rbuf'[p] = stored[p]
    <3>1. p < rcursor \/ p = rcursor
        BY <2>2, Layout, Sizes DEF TypeOK
    <3> QED BY <1>11, <2>1, <3>1 DEF ReaderCopies, TypeOK
  <2> QED BY <1>11, <2>2 DEF ReaderCopies, Whole, writer
<1>12. CASE ReaderUnlocks
  <2>1. \A p \in Positions : rbuf[p] = stored[p]
      BY <1>12, Layout, Sizes DEF ReaderUnlocks, Whole
  <2>2. pc # "copy" /\ device = "driver"
      BY <1>12 DEF ReaderUnlocks, Opened
  <2>3. ASSUME NEW r \in Regions PROVE Even(stored, PositionsOf(r)) /\ Even(rbuf, PositionsOf(r))
      BY <1>0, <2>1, <2>2 DEF Whole, Even
  <2> QED BY <1>12, <2>3 DEF ReaderUnlocks, Whole, writer
<1>13. CASE ReaderReturns
    BY <1>13 DEF ReaderReturns, Whole, writer
<1>14. CASE UNCHANGED vars
    BY <1>14 DEF vars, writer, reader, Whole
<1> QED BY <1>2, <1>3, <1>4, <1>5, <1>6, <1>7, <1>8, <1>9, <1>10, <1>11, <1>12, <1>13, <1>14 DEF Next

LEMMA VideoInvStep == VideoInv /\ [Next]_vars => VideoInv'
BY TypeStep, OpenedStep, CopyingStep, ProgressStep, MirroredStep, OrderedStep, WholeStep DEF VideoInv

\* The inductive invariant holds in every reachable state.
THEOREM VideoInvariant == Spec => []VideoInv
BY Initially, VideoInvStep, PTL DEF Spec

-----------------------------------------------------------------------------
\* What the invariant says of the screen, of a flush and of a read.

\* Frames never go backwards on the screen (FrameOrder): whichever writes of
\* video_flush fail, are short, or are cut off by the end of the program, and
\* across loads of the driver, the tiles are as new as the sprites, and in each
\* region what is further on is older.
THEOREM FramesInOrder == Spec => []FrameOrder
<1>1. VideoInv => FrameOrder
  <2> SUFFICES ASSUME VideoInv PROVE FrameOrder
      OBVIOUS
  <2>1. Ordered /\ Mirrored
      BY DEF VideoInv
  <2>2. \A p \in Positions : stored[p] \in Nat /\ fpga[p] \in Nat
      BY Sizes DEF VideoInv, TypeOK
  <2>3. ASSUME mapped = Regions, stored[TILE_END - 1] # 0,
               NEW p \in Positions, NEW q \in Positions, p < q
        PROVE  fpga[p] >= fpga[q]
    <3>1. TILE_END - 1 \in Positions /\ \A t \in TilePos : t = TILE_END - 1 \/ t < TILE_END - 1
        BY Layout, Sizes
    <3>2. \A t \in TilePos : stored[t] # 0
        BY <2>1, <2>2, <2>3, <3>1, Layout DEF Ordered, InOrder
    <3>3. \A t \in TilePos : fpga[t] = stored[t]
        BY <2>1, <2>3, <3>2, Layout DEF Mirrored, RegionOf, Regions
    <3>4. CASE q \in TilePos
        BY <2>1, <2>3, <3>3, <3>4, Layout, Sizes DEF Ordered, InOrder
    <3>5. CASE q \in SpritePos /\ p \in SpritePos
        BY <2>1, <2>3, <3>5 DEF Ordered, InOrder
    <3>6. CASE q \in SpritePos /\ p \in TilePos
      <4>1. CASE stored[q] = 0
          BY <2>1, <2>2, <2>3, <3>2, <3>3, <3>6, <4>1 DEF Mirrored
      <4>2. CASE stored[q] # 0
        <5>1. fpga[q] = stored[q]
            BY <2>1, <2>3, <4>2 DEF Mirrored, RegionOf, Regions
        <5> QED BY <2>1, <2>3, <3>3, <3>6, <5>1 DEF Ordered, InOrder
      <4> QED BY <4>1, <4>2
    <3> QED BY <2>3, <3>4, <3>5, <3>6, Layout, Sizes
  <2> QED BY <2>1, <2>3 DEF FrameOrder, Ordered, InOrder
<1> QED BY <1>1, VideoInvariant, PTL

\* A flush that returns 0 has put the whole staged frame into the device, and
\* into every memory of the FPGA that the driver has mapped (FlushPublishes).
THEOREM FlushesPublish == Spec => []FlushPublishes
<1>1. VideoInv => FlushPublishes
  <2> SUFFICES ASSUME VideoInv, pc = "flushed" PROVE FlushPublishes
      BY DEF FlushPublishes
  <2>1. \A p \in Positions : stored[p] = staged
      BY DEF VideoInv, Progress
  <2>2. staged # 0
      BY Sizes DEF VideoInv, Opened, TypeOK
  <2> QED BY <2>1, <2>2 DEF VideoInv, Mirrored, RegionOf, FlushPublishes
<1> QED BY <1>1, VideoInvariant, PTL

\* A program that reads the whole device in one call sees tiles of one frame
\* and sprites of one frame (ReadsWholeRegions): fpga_video_lock is held over
\* both copies.
THEOREM ReadsWhole == Spec => []ReadsWholeRegions
<1>1. VideoInv => ReadsWholeRegions
    BY DEF VideoInv, Whole, Even, PositionsOf, Regions, ReadsWholeRegions
<1> QED BY <1>1, VideoInvariant, PTL

-----------------------------------------------------------------------------
\* The screen.

\* The beam has passed pixel p in this scan.
Scanned(p) == p[2] < vcount \/ (p[2] = vcount /\ p[1] < hcount)

\* A pixel that was scanned shows its tile, of the frame that was there, and
\* still shows the memory if nothing was written since the scan began.
ScanInv ==
    /\ hcount \in 0..H_TOTAL - 1 /\ vcount \in 0..V_TOTAL - 1
    /\ picture \in [Pixels -> Int]
    /\ \A p \in Pixels : /\ picture[p] <= fpga[Tile(p)]
                         /\ Scanned(p) => picture[p] # -1
                         /\ Scanned(p) /\ steady => picture[p] = fpga[Tile(p)]

LEMMA ScreenSizes ==
    /\ H_VISIBLE \in Nat \ {0} /\ V_VISIBLE \in Nat \ {0}
    /\ H_TOTAL \in Nat /\ V_TOTAL \in Nat /\ H_VISIBLE < H_TOTAL /\ V_VISIBLE < V_TOTAL
    /\ Pixels = (0..H_VISIBLE - 1) \X (0..V_VISIBLE - 1)
BY PeriodAssumption DEF H_TOTAL, V_TOTAL, Pixels

\* The tile of a pixel is on the board.
LEMMA DivBelow ==
    ASSUME NEW m \in Nat, NEW k \in Nat \ {0}, NEW n \in Nat, n < m * k
    PROVE  n \div k \in 0..m - 1
<1> DEFINE q == n \div k
<1>1. q \in Nat /\ q * k <= n
    OBVIOUS
<1> HIDE DEF q
<1>2. q < m
  <2> SUFFICES ASSUME q >= m PROVE FALSE
      BY <1>1
  <2>1. PICK d \in Nat : q = m + d
    <3>1. q - m \in Nat /\ q = m + (q - m)
        BY <1>1
    <3> QED BY <3>1
  <2>2. q * k = m * k + d * k /\ m * k \in Nat /\ d * k \in Nat /\ q * k \in Nat
      BY <2>1
  <2> QED BY <1>1, <2>2
<1> QED BY <1>1, <1>2 DEF q

LEMMA TileOnBoard == ASSUME NEW p \in Pixels PROVE Tile(p) \in TilePos
<1> DEFINE r == p[2] \div TILE_SIZE
           c == p[1] \div TILE_SIZE
<1>1. /\ MAP_ROWS \in Nat /\ MAP_COLS \in Nat /\ TILE_SIZE \in Nat \ {0}
      /\ p[1] \in Nat /\ p[1] < MAP_COLS * TILE_SIZE
      /\ p[2] \in Nat /\ p[2] < MAP_ROWS * TILE_SIZE
    BY ScreenSizes, ScreenAssumption
<1>2. r \in 0..MAP_ROWS - 1 /\ c \in 0..MAP_COLS - 1
    BY <1>1, DivBelow
<1> HIDE DEF r, c
<1>3. PICK d \in Nat : MAP_ROWS = r + 1 + d
  <2>1. MAP_ROWS - r - 1 \in Nat /\ MAP_ROWS = r + 1 + (MAP_ROWS - r - 1)
      BY <1>1, <1>2
  <2> QED BY <2>1
<1>4. /\ MAP_ROWS * MAP_COLS = r * MAP_COLS + MAP_COLS + d * MAP_COLS
      /\ r * MAP_COLS \in Nat /\ d * MAP_COLS \in Nat
  <2>1. r \in Nat
      BY <1>2
  <2> QED BY <1>1, <1>3, <2>1
<1>5. r * MAP_COLS + c \in 0..MAP_ROWS * MAP_COLS - 1
    BY <1>1, <1>2, <1>4
<1> QED BY <1>5, ScreenAssumption DEF Tile, TilePos, TILE_END, r, c

LEMMA TileNumbers == ASSUME VideoInv PROVE \A a \in TilePos : fpga[a] \in Nat
<1>1. fpga \in [Positions -> 0..MaxFrame]
    BY DEF VideoInv, TypeOK
<1>2. 0..MaxFrame \subseteq Nat /\ TilePos \subseteq Positions
    BY Sizes DEF Positions
<1> QED BY <1>1, <1>2

\* What the renderer reads under the beam is the tile of that pixel.
LEMMA ReadsTile ==
    ASSUME VideoInv, ScanInv, visible
    PROVE  /\ <<hcount, vcount>> \in Pixels
           /\ render_tile_id = fpga[Tile(<<hcount, vcount>>)]
           /\ render_tile_id \in Nat
<1>1. <<hcount, vcount>> \in Pixels
    BY ScreenSizes DEF visible, ScanInv
<1>2. Tile(<<hcount, vcount>>) \in TilePos
    BY <1>1, TileOnBoard
<1>3. tile_address = Tile(<<hcount, vcount>>)
    BY DEF tile_address, Tile, pixel_x, pixel_y
<1>4. fpga[Tile(<<hcount, vcount>>)] \in Nat
    BY <1>2, TileNumbers
<1> QED BY <1>1, <1>2, <1>3, <1>4 DEF render_tile_id

\* A tile of the FPGA is only ever replaced by a newer one.
LEMMA NewerTiles ==
    ASSUME VideoInv, [Next]_vars, NEW a \in TilePos PROVE fpga[a] <= fpga'[a]
<1>1. a \in Positions /\ fpga[a] \in Nat /\ staged \in Nat /\ fpga[a] <= staged
    BY Layout, Sizes DEF VideoInv, TypeOK, Progress
<1>2. fpga'[a] = fpga[a] \/ fpga'[a] = staged
    BY <1>1, OtherwiseKept DEF Written, VideoInv
<1> QED BY <1>1, <1>2

LEMMA ScanInvStep == VideoInv /\ ScanInv /\ [ScanNext]_scanVars => ScanInv'
<1> SUFFICES ASSUME VideoInv, ScanInv, [ScanNext]_scanVars PROVE ScanInv'
    OBVIOUS
<1>0. /\ \A p \in Pixels : p[1] \in 0..H_VISIBLE - 1 /\ p[2] \in 0..V_VISIBLE - 1 /\ p = <<p[1], p[2]>>
      /\ \A p \in Pixels : fpga[Tile(p)] \in Nat
  <2>1. \A a \in TilePos : fpga[a] \in Nat
      BY TileNumbers
  <2> QED BY <2>1, ScreenSizes, TileOnBoard
<1>1. CASE PixelClock
  <2>1. fpga' = fpga
      BY <1>1 DEF PixelClock, vars
  <2>2. hcount' \in 0..H_TOTAL - 1 /\ vcount' \in 0..V_TOTAL - 1
      BY <1>1, ScreenSizes DEF PixelClock, CountPixel, h_wrap, ScanInv
  <2>3. CASE v_wrap
    <3>1. picture' = Blank /\ hcount' = 0 /\ vcount' = 0
        BY <1>1, <2>3 DEF PixelClock, CountPixel, v_wrap, h_wrap
    <3>2. \A p \in Pixels : ~Scanned(p)'
        BY <1>0, <3>1 DEF Scanned
    <3> QED BY <1>0, <2>1, <2>2, <3>1, <3>2 DEF ScanInv, Blank, Tile
  <2>4. CASE ~v_wrap /\ visible
    <3> DEFINE beam == <<hcount, vcount>>
    <3>1. /\ picture' = [picture EXCEPT ![beam] = render_tile_id] /\ (steady' => steady)
        BY <1>1, <2>4 DEF PixelClock, ScanInv
    <3>2. beam \in Pixels /\ render_tile_id = fpga[Tile(beam)] /\ render_tile_id \in Nat
        BY <2>4, ReadsTile
    <3>3. \A p \in Pixels : Scanned(p)' => Scanned(p) \/ p = beam
        BY <1>0, <1>1, <2>4, ScreenSizes DEF Scanned, PixelClock, CountPixel, h_wrap, v_wrap, ScanInv
    <3> HIDE DEF beam
    <3>4. picture' \in [Pixels -> Int]
        BY <3>1, <3>2 DEF ScanInv
    <3>5. ASSUME NEW p \in Pixels
          PROVE  /\ picture'[p] <= fpga'[Tile(p)]
                 /\ Scanned(p)' => picture'[p] # -1
                 /\ Scanned(p)' /\ steady' => picture'[p] = fpga'[Tile(p)]
      <4>1. CASE p = beam
          BY <2>1, <3>1, <3>2, <4>1 DEF ScanInv
      <4>2. CASE p # beam
          BY <2>1, <3>1, <3>3, <4>2 DEF ScanInv
      <4> QED BY <4>1, <4>2
    <3> QED BY <2>2, <3>4, <3>5 DEF ScanInv, Tile
  <2>5. CASE ~v_wrap /\ ~visible
    <3>1. picture' = picture /\ (steady' => steady)
        BY <1>1, <2>5 DEF PixelClock
    <3>2. \A p \in Pixels : Scanned(p)' => Scanned(p)
        BY <1>0, <1>1, <2>5, ScreenSizes DEF Scanned, PixelClock, CountPixel, h_wrap, v_wrap, visible, ScanInv
    <3> QED BY <2>1, <2>2, <3>1, <3>2 DEF ScanInv, Tile
  <2> QED BY <2>3, <2>4, <2>5
<1>2. CASE Software
  <2>1. /\ picture' = picture /\ hcount' = hcount /\ vcount' = vcount
        /\ steady' => steady /\ \A a \in TilePos : fpga'[a] = fpga[a]
      BY <1>2 DEF Software, counters
  <2>2. \A a \in TilePos : fpga[a] <= fpga'[a] /\ fpga'[a] \in Nat
    <3>1. VideoInv'
        BY <1>2, VideoInvStep DEF Software
    <3>2. (\A a \in TilePos : fpga[a] \in Nat)'
        BY <3>1, TileNumbers, PTL
    <3> QED BY <1>2, <3>2, NewerTiles DEF Software
  <2>3. ASSUME NEW p \in Pixels
        PROVE  /\ picture'[p] <= fpga'[Tile(p)]
               /\ Scanned(p)' => picture'[p] # -1
               /\ Scanned(p)' /\ steady' => picture'[p] = fpga'[Tile(p)]
    <3>1. Tile(p) \in TilePos /\ picture[p] \in Int /\ fpga[Tile(p)] \in Nat
        BY <1>0, TileOnBoard DEF ScanInv
    <3>2. Scanned(p)' <=> Scanned(p)
        BY <2>1 DEF Scanned
    <3> QED BY <2>1, <2>2, <3>1, <3>2 DEF ScanInv
  <2> QED BY <2>1, <2>3 DEF ScanInv, Tile
<1>3. CASE UNCHANGED scanVars
    BY <1>3 DEF scanVars, vars, counters, ScanInv, Scanned, Tile
<1> QED BY <1>1, <1>2, <1>3 DEF ScanNext

\* A scan that was left alone shows the memory, every tile in its place; one
\* that was written meanwhile shows every pixel and nothing newer than the
\* memory (ScanShowsMemory), for every screen and every interleaving of the
\* pixel clock with the driver's stores.
THEOREM ScanShows == ScanSpec => []ScanShowsMemory
<1>1. ScanInit => VideoInv /\ ScanInv
  <2> SUFFICES ASSUME ScanInit PROVE VideoInv /\ ScanInv
      OBVIOUS
  <2>1. VideoInv
      BY Initially DEF ScanInit
  <2>2. \A a \in TilePos : fpga[a] = 0
      BY Layout DEF ScanInit, Init, AllZero
  <2>3. \A p \in Pixels : ~Scanned(p)
      BY ScreenSizes DEF ScanInit, ResetCounters, Scanned
  <2>4. \A p \in Pixels : picture[p] = -1 /\ fpga[Tile(p)] = 0
      BY <2>2, TileOnBoard DEF ScanInit, Blank
  <2> QED BY <2>1, <2>3, <2>4, ScreenSizes DEF ScanInv, ScanInit, ResetCounters, Blank
<1>2. [ScanNext]_scanVars => [Next]_vars
    BY DEF ScanNext, PixelClock, Software, scanVars
<1>3. VideoInv /\ ScanInv => ScanShowsMemory
  <2> SUFFICES ASSUME VideoInv, ScanInv PROVE ScanShowsMemory
      OBVIOUS
  <2>1. v_wrap => \A p \in Pixels : Scanned(p)
      BY ScreenSizes DEF v_wrap, h_wrap, Scanned
  <2> QED BY <2>1 DEF ScanInv, ScanShowsMemory
<1> QED BY <1>1, <1>2, <1>3, VideoInvStep, ScanInvStep, PTL DEF ScanSpec

=============================================================================
