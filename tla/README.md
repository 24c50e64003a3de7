# GridBrawl in TLA+

A verification project for GridBrawl, a two-player bomb game on a DE1-SoC board: C game logic
on the processor, two Linux drivers, and SystemVerilog for picture and sound. It holds TLA+
modules translated from that code, TLC configurations that check them on small instances, and
proofs, checked by TLAPS, for every size of the parameters.

## The system

| Component | State | Operations | Talks to |
|---|---|---|---|
| Rules engine, `game/game_logic.c` | `game_state_t`; file-static previous inputs, wall-hit counters, wall marks, respawn waits | `game_init`, `game_reset`, `game_step` once per tick | called by main; read by the renderer; its two pending sounds are sent by main |
| Gamepads, `game/usbcontroller.c` | device slots, `state_cache`, `state_lock`, the poll thread | init, get_state, close; the poll loop | libusb; main's snapshot shares `state_cache` |
| Main loop, `game/main.c` | `g_running`, the next deadline | snapshot, step, render, sounds, sleep | all of the above; signals |
| Renderer, `game/render.c` | none of its own | `render_init`, `render_frame` | game state in, staging buffers out |
| Video writer, `game/video_interface.c` | `video_fd`, staging buffers | init, close, set_tile, set_sprite, flush | two `pwrite`s per frame to the driver |
| Video driver, `kernel_modules/video` | shadows, mappings, `fpga_video_lock` | write, read, load, unload | FPGA memories |
| Audio writer and driver, `game/audio_interface.c`, `kernel_modules/audio` | `audio_fd`; `last_sound_id` | play_sound; write, read, load | the Sound Select register |
| Audio hardware, `hardware/rtl/audio_*`, `wm8731_i2s_tx` | playback phases; clock divider, bit counter, shift words | one step per clock edge, register writes | register bus; the WM8731 codec |
| Video hardware, `hardware/rtl/` (others) | VGA counters, tile RAM, sprite registers | scan-out, register writes | register bus; VGA |

What makes it hard, and what would make each part correct:

* **Rules engine.** Sequential, but a tick is nine ordered phases over shared tiles, and the
  two players interact through all of them: moves that reserve a tile, captures and deaths of
  one tick, explosions that overlap on a wall and end in different ticks, a respawn beside a
  blast. Correct means: the incremental scores equal the board, bodies never overlap, walls
  open once and for good, no blast leaves the arrays, nobody lives in a blast, the dead come
  back, and the verdict is the count.
* **Gamepads.** Two threads, a mutex, a device that may fail at any call or stay silent.
  Correct means: whole snapshots, silence is not a release, no closed handle in use,
  everything handed back, a shutdown that ends.
* **Video.** A frame is two writes, the program can be killed between them, the FPGA scans out
  at any time, and another program may read. Correct means: never older over newer,
  a successful flush is complete, readers see whole regions.
* **Picture.** What is drawn later lies on top, there are thirty registers for everything, and
  they are rebuilt every tick. Correct means: nothing that matters is hidden, dropped or left
  over.
* **Main loop.** Absolute deadlines, turns that overrun, a signal at any point, subsystems that
  may be missing. Correct means: the rate holds and does not drift, every way out closes
  everything.
* **Audio driver.** No lock, a device that exists before its register is cleared, unloading.
  Correct means: the register is mapped when it is touched and is read back right.
* **Audio hardware.** Two machines on one clock, register writes at any edge, counters whose
  widths are computed. Correct means: aligned frames, no sample lost or repeated, effects
  heard and ended, music in time.

`PROJECT.json` lists every component, every hazard at its line, and the lines each definition
stands for.

## Modules

| Module | Models | Notes |
|---|---|---|
| `GridGame` | `game_logic.c` | `game` is one record with `game_state_t` and the statics; each phase of `game_step` is an operator from record to record, applied in the code's order by `PlayTick`. Actions: `Restart`, `GameOverTick`, `Play`, the three ways through `game_step` |
| `GridGameLive` | the same under main's endless loop | adds a tick that flips every step, so that fairness is "ticks keep coming" and not about what changes |
| `Match` | what a match promises its players | abstract: who owns which tile, who lives, the verdict |
| `GridGameRefinement` | `GridGame` implements `Match` | an instance under a refinement mapping; the property is `ImplementsMatch` |
| `ShippedMap` | the map and spawns of the repository | run with the real sizes |
| `Rendering` (extends `GridGame`) | `render.c`, the staging of `video_interface.c`, the decoding and priority of `sprite_registers.sv`, `sprite_scan_renderer.sv` and `tile_map_renderer.sv` | a turn is a step of the game and then its frame; the properties look at the pixels |
| `Arenas`, `MC*` | instances for TLC | small maps and pad sets |
| `UsbController` | `usbcontroller.c`, and main's use of it | `mpc` and `ppc` are the two threads' places; copies under the mutex are two steps each |
| `AudioController` | `audio_controller.sv` with the lengths of `audio_sound_rom.sv` | one step per edge; a sample is named by its track and index |
| `I2STransmitter` | `wm8731_i2s_tx.sv` | counters and part-selects keep their computed widths |
| `AudioSubsystem` | `audio_subsystem.sv` | both on one clock: each edge is one step of both, on the wires before it; three history variables |
| `VideoPath` | opening and closing, `video_flush`, `write_full`, the video driver from loading to unloading | a byte holds the number of its frame |
| `VgaTiming` | `vga_timing.sv` | the two counters and the visible window |
| `VideoScan` (extends both) | `video_pipeline.sv`, `tile_map_ram.sv`, the addresses of `tile_map_renderer.sv` | the screen is scanned out while `VideoPath` writes; `picture` is what the monitor has shown |
| `AudioPath` | `audio_interface.c`, `fpga_audio.c` | any number of programs and the loader run `fpga_audio_hw_write`, two steps each |
| `MainLoop` (extends `AudioPath`) | `main.c` | `now` and `next_tick` in nanoseconds, of which a second has few |
| `GridGame_proofs`, `GridGamePlay_proofs`, `GridGameRefinement_proofs`, `Rendering_proofs` | | theorems about the game and its picture; each extends the one before |
| `UsbController_proofs`, `VideoScan_proofs`, `AudioSubsystem_proofs`, `MainLoop_proofs` | | theorems about the other components |

Mutants, marked so, stand before the definition they would replace: each is a plausible slip,
and the run named for it in `PROJECT.json` fails with it.

### What is abstracted

* A direction button set becomes a set of names; `dir` (it only chooses a picture), indices
  stored in records and `target_x`/`target_y` (always the target tile's pixels when read) are
  left out. In `GridGame` every `uint8_t` and `uint16_t` stays in range: positions and timers
  by `TypeOK`, and a score is at most the number of tiles.
* The parity bit beside each entry of `state_cache` counts commits modulo two, to tell two
  commits apart; it is not in the code.
* A pad report, a frame, a sample are values; HID bytes, pixels and waveforms are not built.
* A sprite's picture is named by its kind and its owner; images count as full squares, so that
  what is found visible is visible whatever is transparent above it. A square is looked at
  through its four corners: of two overlapping squares of one size each covers a corner of the
  other.
* In `Rendering` a frame reaches the FPGA at once and in `VideoPath` it has no content. The two
  halves meet in the order of the tiles, which both take from `video_set_tile`.
* In `MainLoop` the snapshot, the tick and the frame of a turn are the time they take and the
  sounds they leave. The clock does not pass while `main` opens, closes or writes sounds, and once
  it has answered it goes on answering (`main.c:195` ignores the result of `clock_gettime`).
* In `UsbController` a device is held or not: a release that fails is not told apart, since the
  close of the handle that follows gives the interface up. `refused` is a history variable, the
  devices whose driver the kernel did not attach when it was asked.
* A wrong index written to the Sound Select register and a write to another address are kept:
  they are no-ops in the code.

## Runs

All complete within a few minutes with two workers.

| Run | Instance | What it shows |
|---|---|---|
| `corridor` | 3 by 6 arena, four floor tiles in a row, restarts, bomb timer 6, blast 3, tile of 3 pixels, speed 2 | scores equal the board; bodies apart; bombs keep their tile; a slot is never lit and burning at once; nobody survives in a blast; the dead wait for something; land is won by arriving |
| `walls` | 3 by 6 arena with a soft wall next to the middle, both within reach of it, winning score 3, bomb timer 2, blast 2, restarts, ticks for ever | hit counters and marks agree under overlapping explosions; open tiles stay open; every hit wall opens; a player stays dead for ever only behind a spawn that is unsafe at every tick; `GridGame` refines `Match`; types |
| `field` | 2 by 2 floor, winning score 2, drawn every tick | contention across corners and in all four directions; living players are hidden by nothing but their own bomb; blasts on top; every thing has its sprite and nothing else has one; verdict by counting, an exact tie has no winner |
| `shipped_map` | the real 15 by 20 map, spawns, tile size, registers and banner; short timers, winning score 4, a tile crossed in two ticks, reduced input | the shipped data satisfy the assumptions of the proofs; blasts stay in the arrays; the banner, and positions cut to 10 and 9 bits, hide nobody |
| `usb` | two devices, two reports, every failure, also of attaching a kernel driver again | the five promises of the gamepad component |
| `audio` | 3 bits per channel, divider 6, tracks of 2 to 5 samples, writes of no-op, valid and invalid ids at any edge, reads, resets | framing, stability, order of samples, time of the music, effects heard and ended |
| `video` | 2 by 2 tiles of a pixel, a blank column and line, 2 sprites of 2 bytes, 2 frames, driver or file, loaded and unloaded, each region mapped or not | order of frames, complete flushes, whole reads; an undisturbed scan shows the memory, a disturbed one nothing newer |
| `main_loop` | a second of 8 ns, 4 ticks a second, start just before a full second, 3 turns of 0 to 5 ns, wake-ups up to 1 ns late; another program at the device | deadlines; everything closed; the register mapped and read back right |
| `left_slot`, `bclk_48k`, `requests_8k`, `slot_table` | see findings | each finds a disagreement of the code with its own comments |

Why the bounds are enough. A tile of three pixels at speed two puts a
body between two tiles for a tick and cuts the last step short; where bodies are not at stake a
move takes one tick. In the corridor the
bomb timer of six lets its owner get two tiles away and the other player reach the bomb, and the
blast of three lasts long enough for its owner, who escaped, to press again while it burns; a
blast of two is the shortest that is visible between ticks (with one it ends in the tick that
lights it, and survivors and respawns could not be told apart). Two players, two bombs and two explosions are the
code's own numbers, not a bound. Four tiles in a row hold both spawns, a contested tile and
room to flee. Three bits per channel and a divider of six give a frame of six bits and a half
period of three, none a power of two, so that every counter is cleared by its comparison and
not by overflow. Tracks of two samples are the shortest of which no write can hide all
(shorter ones do not exist: the shortest track has a quarter of a second). Two frames are
needed for one that fails or is torn after one that succeeded, and for two generations of the
driver that mapped different memories. Two by two tiles tell rows from columns, and one
blank column and line are enough for the beam to be off the screen; the arithmetic of tiles of
more than a pixel is checked in `field` and `shipped_map`. A tick of two nanoseconds and turns of up to
five give turns that end early, on the deadline, late, and two ticks late; the start at 7 of 8 makes the first
deadline carry a second. In `walls` both players' explosions overlap on the wall (a hit count
of two) and a match can be won. In `shipped_map` the winning score is reached with a
player at home.

The bounds in guards are `MaxFrame` of `VideoPath` and `MaxTick` of `MainLoop`; `MaxBody` and
`MaxWake` bound how long a turn takes and how late a sleep ends. `main_loop` does not check
deadlock: the program ends, and the bound on turns ends it too. Symmetry is not used: players differ
by priority.

### Fairness

* `RenderSpec`, `ScanSpec` and `MainLoop`'s `Spec` state none: their properties are safety. The
  pixel clock may tick any number of times, or not at all, between two steps of the software.
* `LiveSpec` of `GridGameLive`: ticks keep coming. Main's loop runs until a signal, and the
  properties are about a program that is not told to stop. Nothing is assumed about input.
* `FairSpec` of `UsbController`: each thread, while it can move, moves. A transfer returns
  after 20 ms at the latest, and the mutex is held for a copy only. `Stop` is one of
  the things main may do; nothing makes it happen.
* `FairSpec` of `AudioSubsystem`: clock edges on which the processor is idle keep coming; the
  processor cannot write on every edge, since its writes are system calls. `EffectEnds` is
  about a processor that stops writing; `BclkRuns` and `RequestsKeepComing` set resets aside.

## Findings

* `left_slot`: the pair is loaded on the edge that ends the first bit of the left slot, though
  the comment says at its start. The top bit, the sign, of each left sample is the previous one's.
* `bclk_48k`: with the default divider of 8 the comparison in the clock divider is with
  `4[1:0] - 1`. The part-select is zero, the difference 2^32 - 1, and BCLK never moves.
* `requests_8k`: with the documented divider of 48 BCLK runs, but the request compares the bit
  counter with `32[4:0] - 1`, so no sample is ever requested and the phases stand still. The bit
  counter itself wraps by overflow, which is why LRCK looks right.

* `slot_table`: `render.h` gives players, bombs and blasts fixed registers, `render.c` the next
  free ones, and `render_test.c` expects the latter. Priority is not affected: the order of the
  kinds is the same.

The `audio` run is about a frame whose length is no power of two, as the transmitter would be
with the comparison mended. What the sound comes to with the 16 bits that the repository has,
whatever is written and however the clock is divided, is proved: `FirstSampleOnly` (see Proofs).

Observations that are no disagreement with a statement of the code: the shipped map has 150
tiles to win and the winning score is 80, so both cannot reach it at once, and in
`game_logic.c:626-633` players at or over it in the same tick on a larger map are compared by count. A bomb
button held through a restart counts as a new press, because a reset forgets the previous
inputs. A player who keeps the other's spawn tile unsafe keeps the other dead. `O_CREAT` makes the opening of a
missing device succeed on a regular file, so `main` reports no failure and frames and sounds go
into it; a driver loaded later is not noticed. `render_init` never reaches the FPGA: until the first frame the
screen shows what the last program left there. Two sounds of one tick are written one right
after the other to a register that keeps one. Two overlapping writes of the audio device may
leave `last_sound_id` and the register apart until the next write, which is why `ReadbackAgrees`
excepts them.

## Proofs

`GridGame_proofs` proves, for every arena with hard walls all round (`MapAssumption`), every
spawn, timer, speed, tile size, winning score and set of inputs:

* `TypeCorrect`: `TypeOK`. One lemma per phase shows that it maps typed records to typed
  records; `PlayTick` composes them.
* `BombInvInvariant`: the inductive `BombInv`, four named parts: `Border` (the walls round the
  arena stand), `Planted` (a lit bomb and a burning explosion are inside the border),
  `OneEach` (a player's bomb and explosion are never both active) and `Marks` (marks belong to
  burning explosions, mark soft walls only, and the hit counters count them). None of the four
  is inductive alone: that a bomb is planted inside needs the border, that an explosion does
  not overwrite marks needs the slots, that a wall opens exactly at its last hit needs counters
  and marks together.
* From it `BlastsStayInside`, `SlotsExclusive` and `WallsBookkept`, and, from a frame argument on
  what each phase may do to a tile, `OpenStaysOpen`.

The border is what makes the unchecked indices of `create_explosion_from_bomb` safe:
the walls are `HARD_WALL`, no phase changes one, so a player and hence a bomb stay inside.
Phases that touch little are dealt with by frame lemmas (`SameBoard`, `Recoloured`,
`Repainted`): what a phase leaves alone is proved once and used for every part.

`GridGamePlay_proofs` proves, under the same assumptions, what the players see, from the inductive
`PlayInv`. It is stated of a game and not of a state, because it has to hold between the nine
phases of a tick, or to be broken by one and mended by a later one in a known way:

* `Standing`: a moving player is on the segment between two neighbouring tiles (`Paths`), no tile
  is held by both (`Reserved`), and a lit bomb's tile is held by nobody but an owner that has not
  left it (`BombTiles`). Overlapping bodies (`BodiesApart`) are excluded by tiles, not pixels: a
  body fits in the rectangle of the tiles its player holds, and the two rectangles are disjoint.
  `BodiesApart` alone is not inductive: where a body may be next depends on its reservation.
* `Owning`: a score counts its player's tiles, the dead own none, and exactly the dead wait. A
  capture moves one tile and two scores, a death one score to zero and all its tiles to nobody,
  and both may happen in one tick.
* `Burning`: who waits for an explosion waits for one that burns. `cleanup_explosion` must come
  before the wait is looked at, and `OneEach` of `BombInv` keeps the killer's slot from reuse.
* `Spared`: nobody alive overlaps a burning blast. It is broken while bombs go off and players
  walk, and mended by `KillPlayers`; a return must not break it again, and the spawn's test is
  enough because a body at rest overlaps its own tile only.
* `Judged`: the verdict agrees with the scores. With `Owning` it agrees with the board.

From it the seven theorems of that module, the action property `LandIsWonByArrival` included,
which follows a capture through the rest of its tick (`Won`, `Later`).

`GridGameRefinement_proofs` proves `GameImplementsMatch`, the safety of the refinement that `walls`
checks. `BoardTick` says what a whole tick did to the board in terms of `Match`: claims, deaths,
walls; one lemma per phase contributes its share. `GroundStands` is the invariant it needs:
the tiles that can be owned are the same for ever, so that all land that is scored lies on them.

`Rendering_proofs` proves the three properties of the picture for any arena, tile size and
number of registers. They need the rules (`PlayInv`, which `RenderSpec` inherits), that
things keep to tiles that can be owned (`ThingsStayPlaced`), and `Framed`: from the first frame on
registers and tile bytes are those of the game. What is seen at a pixel is the highest
register over it, hence the last of the staged sprites over it (`PictureShown`), so that each
property splits by stage: what lies above is absent there (`Clear`), what is meant is in its own
stage (`Shown`). The assumptions are about constants that `field` and `shipped_map` have TLC
evaluate: eighteen registers (`RegisterAssumption`: two players, two bombs, ten blast cells and
four tiles of the banner), coordinates that fit the 10 and 9 bits of a register
(`PixelAssumption`), and a banner that is neither on nor beside a tile that can be owned
(`BannerAssumption`). The last one is the map's promise and no code checks it.

`UsbController_proofs` proves the four safety properties of the gamepads for any devices,
reports and interleaving. `UsbInv` adds to the types `Locks` (who copies holds the mutex),
`Lifetime` (the poll thread lives from the start of main's loop to the join), `Parities` (the
cache is uneven only in the middle of a commit, and main never copies then), `Heard` (where the
last report of each pad is: in the thread's local copy once the pad was asked, in the cache
otherwise) and `Accounts` (the slots are exactly what is open, claimed and detached, but for the
drivers the kernel refused to attach again). At the end (`AllReturned`) such a refusal is the only
way a driver can be missing: the code ignores the result of `libusb_attach_kernel_driver`, and
does not try again. A
handle is never used after its close because of `Lifetime`, and a torn snapshot is
excluded by `Locks` with `Parities`.

`VideoScan_proofs` proves the three properties of the video path and that of the screen, for
regions and screens of any size and any number of frames. `VideoInv` says who has the device open
and who holds the lock (`Opened`), where a copy can be (`Copying`), that everything before the
place written to is of the staged frame (`Progress`), that what was written since the
driver was loaded is in the FPGA too (`Mirrored`), the order of frames in every memory
(`Ordered`) and that a region not being copied is of one frame (`Whole`). `Ordered` needs
`Progress` and `Mirrored`, since a driver that is loaded again starts from a cleared shadow over old
FPGA memories. `ScanInv` follows the beam: what it has passed shows its own tile. It
assumes a screen that is exactly the tiles (`ScreenAssumption`) and sync pulses of at least one
clock, so that the beam leaves the screen between two scans.

`AudioSubsystem_proofs` proves the safety of the audio hardware for tracks of any length of at
least two, samples of any width of at least two bits, any divider, and register writes and resets
at any edge:

* `RomReadsInside`: `PhasesFit` adds to `InsideTrack` the music's phase under a playing effect and
  an effect's own track.
* `WireStable` and `CodecSeesFrames`: `Line` says that the codec holds the bit on the wire while
  BCLK is high and the bit before while it is low, which belongs to the latched word once the
  latch is behind.
* `EffectsHeard`, from `Pending`: an effect not yet latched plays its first sample, or its second
  if the request of this frame was answered after the write.
* `MusicInTime` and `NoSampleLost`, from `InTime` and `Sent`: the producer is at the sample that is
  on the wire until the last bit asks for the next, and one further until the latch. Both are
  stated for every width. Where the number of bits of a frame is less than the power of two that
  the bit counter is wide for (`RequestsRun`), the order and the time are right. Where it is that
  power, as with the repository's 16 bits per channel, `NoLastBit` shows that no bit of the frame is
  ever taken for the last (TLC evaluates the widths for 16 in `requests_8k`), hence no sample is requested (the finding `requests_8k`, for any divider,
  writes and resets), and `AtFirst` that every frame then repeats a first sample.

`WidthAssumption` states what `$clog2` promises of the counters' widths. It holds for every
parameter, but that a power of two is a natural number and that some power exceeds n takes
induction, which is out of the prover's reach; TLC evaluates it for the parameters of every run.

`MainLoop_proofs` proves the four invariants of the main loop and the audio device below it, for
any set of programs that contains the game and not the loader (`GameAssumption`,
`LoaderAssumption`), any sounds and, for the rate, any clock with at least one nanosecond per tick
and any delays (`ClockAssumption`):

* `RegisterMapped` and `ReadbackRight` follow from the inductive `AudioInv`. Its part `Guarded`
  ties whoever is at the register to a driver that stays: the loader until it returns, a program
  because its descriptor pins the module. Its part `Agreeing` says that, unless two writes
  overlapped, only the writer of the register may still have to store the number. The agreement
  itself is not inductive: it is broken and mended within every write.
* `EverythingReleased` follows from `ReleaseInv`: whatever is held is remembered in `ok`, and
  while main closes, what is still held is still on the list.
* `RateHolds` follows from `ClockInv`, which adds to `DeadlinesHold` that the deadline has passed
  during a turn. It rests on two lemmas on `struct timespec`: `AddValue` (one carried second is
  enough, since a tick is at most a second) and `AfterIsLater` (the comparison of
  `main.c:196-197` is that of the times).

Only model-checked. Every safety invariant and every `[][A]_vars` of a passing run is a theorem, and
so is the refinement. The type invariants are conjuncts of the inductive ones, and `TypeOK` of
`GridGame` is also checked by `walls`. What stays with TLC is liveness, since fairness and
`ENABLED` are beyond the prover used: `HitWallsOpen` and `DeadReturn` of the game, `ShutdownEnds` of
the gamepads, `EffectEnds` of the audio hardware; and the four findings, which are
counterexamples. No theorem is about what a recursive definition computes for every input.

## Not modelled

* Sprite images, waveforms, colours, pin and build files: constant data and wiring.
* Report bytes of the gamepads: a table that the source itself marks to be adjusted.
* Sync pulses. The reset of the video hardware: `KEY[0]` is a button, which clears tile and sprite
  memories whenever it is pressed (`de1_soc_top.sv:29,84`), and no software hears of it. `FrameOrder`,
  `FlushPublishes`, `ScanShowsMemory` and the properties of the picture are about runs in which it is
  not pressed; until the next frame it leaves an empty screen. The reset of the audio hardware is
  modelled.
* `sprite_renderer.sv`, a renderer of one sprite that the pipeline does not use.
* Sprites and tiles of one scan together: `VideoScan` scans tiles out, `Rendering` composes
  sprites over whole frames. The product of both would only repeat `FrameOrder` pixel by pixel.
* The debug line of `main`, and the text form of a sound number.

## Plan

1. Done: rules engine with liveness, refinement and first proofs; renderer and picture; gamepads;
   video path with the scan-out; audio path and main loop with their proofs; audio hardware.
2. Done: every safety property of a passing run proved, the refinement of `Match` included, with
   one inductive invariant per component.
3. Left: abstract specifications of the other components with their refinements proved, above all
   of the gamepads (two registers read at one instant) and of the video driver (a memory whose
   writes and reads are whole), for which `UsbInv` and `VideoInv` hold the facts needed.
