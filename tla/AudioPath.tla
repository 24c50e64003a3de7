----------------------------- MODULE AudioPath -----------------------------
(***************************************************************************)
(* How a sound reaches the Sound Select register: play_sound and its file  *)
(* descriptor (game/audio_interface.c), and the driver behind the device   *)
(* (kernel_modules/audio/fpga_audio.c), which takes no lock.  Everybody    *)
(* may write the device (mode 0666), so programs are many.                 *)
(*                                                                         *)
(* The register write and the update of last_sound_id are two steps.  A    *)
(* sound travels as a line of text that snprintf builds and kstrtouint     *)
(* reads back; here it is its number.  What the register does with a       *)
(* number is module AudioController.                                       *)
(***************************************************************************)
EXTENDS Integers

CONSTANTS
    Programs,    \* who may open the device; the game is one of them
    WrittenIds   \* the numbers they may write

SOUND_NONE  == 0                 \* FPGA_AUDIO_SOUND_NONE
WALL_BREAKS == 4                 \* FPGA_AUDIO_SOUND_WALL_BREAKS, the last sound
Loader == "insmod"               \* the context fpga_audio_init runs in

ASSUME IdAssumption     == WrittenIds \subseteq Nat
ASSUME LoaderAssumption == Loader \notin Programs

VARIABLES
    driver,         \* "out", "mapped", "registered", "live" or "leaving"
    audio_base,     \* whether audio_base is mapped
    audio_fd,       \* what each program's descriptor refers to
    hw,             \* what each context is doing in fpga_audio_hw_write
    value,          \* the number it does it with
    register,       \* the Sound Select register as last written
    last_sound_id,
    overlapped      \* history: the last register write found another in progress

access    == <<hw, value, register, last_sound_id, overlapped>>
audioVars == <<driver, audio_base, audio_fd, access>>

Contexts == Programs \cup {Loader}

AudioInit ==
    /\ driver = "out" /\ audio_base = FALSE
    /\ audio_fd = [p \in Programs |-> "closed"]
    /\ hw = [c \in Contexts |-> "outside"] /\ value = [c \in Contexts |-> SOUND_NONE]
    /\ register = SOUND_NONE /\ last_sound_id = SOUND_NONE
    /\ overlapped = FALSE

-----------------------------------------------------------------------------
\* fpga_audio_hw_write: the register, then last_sound_id; no lock is held

Enter(c, id) ==
    /\ hw' = [hw EXCEPT ![c] = "entered"]
    /\ value' = [value EXCEPT ![c] = id % 16]

iowrite32(c) ==
    /\ hw[c] = "entered"
    /\ register' = value[c]
    /\ hw' = [hw EXCEPT ![c] = "written"]
    /\ overlapped' = (\E d \in Contexts \ {c} : hw[d] = "written")
    /\ UNCHANGED <<driver, audio_base, audio_fd, value, last_sound_id>>

Stored(c) ==
    /\ hw[c] = "written"
    /\ last_sound_id' = value[c]
    /\ hw' = [hw EXCEPT ![c] = "outside"]
    /\ UNCHANGED <<driver, audio_base, audio_fd, value, register, overlapped>>

-----------------------------------------------------------------------------
\* Loading and unloading

fpga_audio_init ==
    /\ driver = "out"
    /\ driver' = "mapped" /\ audio_base' = TRUE
    /\ last_sound_id' = SOUND_NONE
    /\ UNCHANGED <<audio_fd, hw, value, register, overlapped>>

\* misc_register fails: the mapping is undone and the driver is not loaded.
RegisterFails ==
    /\ driver = "mapped"
    /\ driver' = "out" /\ audio_base' = FALSE
    /\ UNCHANGED <<audio_fd, access>>

\* From here on the device can be opened, and only then is its register cleared.
Register ==
    /\ driver = "mapped"
    /\ driver' = "registered"
    /\ Enter(Loader, SOUND_NONE)
    /\ UNCHANGED <<audio_base, audio_fd, register, last_sound_id, overlapped>>

InitReturns ==
    /\ driver = "registered" /\ hw[Loader] = "outside"
    /\ driver' = "live"
    /\ UNCHANGED <<audio_base, audio_fd, access>>

\* Mutant: the module does not own its operations.
pinned_NoOwner == FALSE

\* .owner = THIS_MODULE: an open descriptor keeps the module in the kernel.
pinned == \E p \in Programs : audio_fd[p] = "driver"

Deregister ==
    /\ driver = "live" /\ ~pinned
    /\ driver' = "leaving"
    /\ UNCHANGED <<audio_base, audio_fd, access>>

fpga_audio_exit ==
    /\ driver = "leaving"
    /\ driver' = "out" /\ audio_base' = FALSE
    /\ UNCHANGED <<audio_fd, access>>

-----------------------------------------------------------------------------
\* The programs: audio_interface.c and its like

\* audio_interface_init: the device where there is one; else O_CREAT makes a
\* regular file, into which later sounds are written, or the open fails.  (Such
\* a file is taken to be gone when the driver is loaded.)
Open(p) ==
    /\ audio_fd[p] = "closed"
    /\ audio_fd' = [audio_fd EXCEPT ![p] =
            IF driver \in {"registered", "live"} THEN "driver" ELSE "file"]
    /\ UNCHANGED <<driver, audio_base, access>>

Close(p) ==
    /\ hw[p] = "outside"
    /\ audio_fd' = [audio_fd EXCEPT ![p] = "closed"]
    /\ UNCHANGED <<driver, audio_base, access>>

\* Mutant: the number is noted before it is looked at.
fpga_audio_write_NotedFirst(p, id) ==
    /\ IF id <= WALL_BREAKS THEN Enter(p, id) ELSE UNCHANGED <<hw, value>>
    /\ last_sound_id' = id
    /\ UNCHANGED <<driver, audio_base, audio_fd, register, overlapped>>

\* A number beyond the last sound is refused (EINVAL), like a line that is no
\* number and a buffer that cannot be read.
fpga_audio_write(p, id) ==
    /\ IF id <= WALL_BREAKS THEN Enter(p, id) ELSE UNCHANGED <<hw, value>>
    /\ UNCHANGED <<driver, audio_base, audio_fd, register, last_sound_id, overlapped>>

\* write() of a number through an open descriptor; a file only grows.
Write(p, id) ==
    /\ audio_fd[p] # "closed" /\ hw[p] = "outside"
    /\ IF audio_fd[p] = "driver" THEN fpga_audio_write(p, id) ELSE UNCHANGED audioVars

\* What a reader of the device is told; no lock is taken.
fpga_audio_read == last_sound_id

Kernel ==
    \/ fpga_audio_init \/ RegisterFails \/ Register \/ InitReturns
    \/ Deregister \/ fpga_audio_exit
    \/ \E c \in Contexts : iowrite32(c) \/ Stored(c)

\* A program other than the game does as it likes.
Stranger(p) == Open(p) \/ Close(p) \/ \E id \in WrittenIds : Write(p, id)

-----------------------------------------------------------------------------
\* Properties

\* Whoever is about to touch the register finds it mapped: while the driver is
\* loading, when its registration fails, and when it is unloaded although
\* programs have the device open.
AccessMapped == \A c \in Contexts : hw[c] = "entered" => audio_base

\* What a reader of the device is told is what the register holds, although
\* writers race and the loading driver is one of them, unless the last write
\* to the register overlapped another one: then either may have come last.
ReadbackAgrees ==
    /\ driver = "live" /\ \A c \in Contexts : hw[c] = "outside"
    /\ ~overlapped
    => fpga_audio_read = register
=============================================================================
