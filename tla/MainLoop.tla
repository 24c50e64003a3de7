------------------------------ MODULE MainLoop ------------------------------
(***************************************************************************)
(* game/main.c: what is opened at the start, the loop that ticks at        *)
(* GAME_TICK_HZ by absolute deadlines, the signal that ends it, and what   *)
(* is closed at the end.  Its sounds go through module AudioPath, whose    *)
(* other programs and driver run beside it; the snapshot, the tick and the *)
(* frame of a turn (modules UsbController, GridGame, VideoPath) are the    *)
(* time they take and the sounds they leave pending.                       *)
(*                                                                         *)
(* now is CLOCK_MONOTONIC in nanoseconds, of which there are NS_PER_SEC in *)
(* a second; a struct timespec is a pair of seconds and nanoseconds.       *)
(***************************************************************************)
EXTENDS AudioPath, Sequences

CONSTANTS
    NS_PER_SEC, GAME_TICK_HZ,
    PendingSounds,   \* the pairs of sounds a tick may leave
    StartTimes,      \* the times the program may start at
    MaxBody,         \* bound: how long a turn takes at most
    MaxWake,         \* bound: how late clock_nanosleep returns at most
    MaxTick          \* bound: the turns that are run

Game == "game"

ASSUME GameAssumption == Game \in Programs
ASSUME ClockAssumption ==
    /\ NS_PER_SEC \in Nat \ {0} /\ GAME_TICK_HZ \in 1..NS_PER_SEC
    /\ StartTimes \subseteq Nat
    /\ MaxBody \in Nat /\ MaxWake \in Nat /\ MaxTick \in Nat

TICK_NS == NS_PER_SEC \div GAME_TICK_HZ

VARIABLES
    pc,           \* where main is
    g_running,
    ok,           \* the subsystems main will close: audio_ok, video_ok, ~skip_usb
    held,         \* those of "video" and "usb" that are open
    now,
    next_tick,
    tick,
    pending,      \* the sounds of this turn still to be written
    closing,      \* the subsystems still to be closed, in order
    started,      \* history: the time next_tick was first set to
    overran       \* history: a turn has taken longer than a tick

clock == <<now, next_tick, tick, started, overran>>
mainVars == <<pc, g_running, ok, held, pending, closing, clock>>
vars == <<audioVars, mainVars>>

Timespec(t) == [tv_sec |-> t \div NS_PER_SEC, tv_nsec |-> t % NS_PER_SEC]
Nanoseconds(ts) == ts.tv_sec * NS_PER_SEC + ts.tv_nsec

\* At most one second is carried, since a tick is at most a second.
timespec_add_ns(ts, ns) ==
    LET n == ts.tv_nsec + ns
    IN  IF n >= NS_PER_SEC
        THEN [tv_sec |-> ts.tv_sec + 1, tv_nsec |-> n - NS_PER_SEC]
        ELSE [ts EXCEPT !.tv_nsec = n]

Init ==
    /\ AudioInit
    /\ pc = "audio" /\ g_running = TRUE /\ ok = {} /\ held = {}
    /\ now \in StartTimes /\ next_tick = Timespec(0) /\ tick = 0
    /\ pending = <<>> /\ closing = <<>>
    /\ started = 0 /\ overran = FALSE

-----------------------------------------------------------------------------
\* Opening.  A subsystem may be skipped or fail to open; main goes on.

OpenAudio(opens) ==
    /\ pc = "audio" /\ pc' = "video"
    /\ IF opens THEN Open(Game) /\ ok' = ok \cup {"audio"}
                ELSE UNCHANGED <<audioVars, ok>>
    /\ UNCHANGED <<g_running, held, pending, closing, clock>>

OpenVideo(opens) ==
    /\ pc = "video" /\ pc' = "usb"
    /\ IF opens THEN ok' = ok \cup {"video"} /\ held' = held \cup {"video"}
                ELSE UNCHANGED <<ok, held>>
    /\ UNCHANGED <<audioVars, g_running, pending, closing, clock>>

\* Mutant: gamepads are closed only if there were any.
usb_to_close_IfPads(pads) == IF pads > 0 THEN {"usb"} ELSE {}

\* usbcontroller_close is called unless usb was skipped.
usb_to_close(pads) == {"usb"}

\* usbcontroller_init opened that many pads.  With none the libusb context is
\* open all the same; with -1 all was undone.
OpenUsb(pads) ==
    /\ pc = "usb" /\ pc' = "clock"
    /\ ok' = ok \cup usb_to_close(pads)
    /\ held' = IF pads >= 0 THEN held \cup {"usb"} ELSE held
    /\ UNCHANGED <<audioVars, g_running, pending, closing, clock>>

SkipUsb ==
    /\ pc = "usb" /\ pc' = "clock"
    /\ UNCHANGED <<audioVars, g_running, ok, held, pending, closing, clock>>

ReadClock ==
    /\ pc = "clock" /\ pc' = "top"
    /\ next_tick' = Timespec(now) /\ started' = now
    /\ UNCHANGED <<audioVars, g_running, ok, held, pending, closing, now, tick, overran>>

\* clock_gettime fails: what was opened is closed, the gamepads last.
NoClock ==
    /\ pc = "clock" /\ pc' = "close"
    /\ closing' = <<"audio", "video", "usb">>
    /\ UNCHANGED <<audioVars, g_running, ok, held, pending, clock>>

-----------------------------------------------------------------------------
\* The loop

\* SIGINT or SIGTERM, at any time.
on_signal ==
    /\ g_running /\ pc # "exited"
    /\ g_running' = FALSE
    /\ UNCHANGED <<audioVars, pc, ok, held, pending, closing, clock>>

\* Snapshot, tick and frame take d nanoseconds and leave two sounds pending.
\* emit_sound leaves SOUND_NONE out.
Turn(d, sounds) ==
    /\ pc = "top" /\ g_running /\ tick < MaxTick
    /\ now' = now + d
    /\ pc' = "sounds"
    /\ pending' = IF "audio" \in ok THEN SelectSeq(sounds, LAMBDA s : s # SOUND_NONE) ELSE <<>>
    /\ UNCHANGED <<audioVars, g_running, ok, held, closing, next_tick, tick, started, overran>>

\* play_sound; the call returns before the next one is made.
EmitSound ==
    /\ pc = "sounds" /\ pending # <<>>
    /\ Write(Game, Head(pending))
    /\ pending' = Tail(pending)
    /\ UNCHANGED <<pc, g_running, ok, held, closing, clock>>

\* Mutant: only the nanoseconds are compared.
after_NsecOnly(a, b) == a.tv_nsec > b.tv_nsec

after(a, b) == a.tv_sec > b.tv_sec \/ (a.tv_sec = b.tv_sec /\ a.tv_nsec > b.tv_nsec)

\* The deadline moves on by a tick; a turn that missed it moves it to now and
\* goes on at once.
\* (The clock that answered at the start goes on answering: the code does not
\* look at the result of this clock_gettime, and a monotonic clock that exists
\* does not fail.)
Deadline ==
    /\ pc = "sounds" /\ pending = <<>> /\ hw[Game] = "outside"
    /\ tick' = tick + 1
    /\ LET deadline == timespec_add_ns(next_tick, TICK_NS)
       IN  IF after(Timespec(now), deadline)
           THEN pc' = "top" /\ next_tick' = Timespec(now) /\ overran' = TRUE
           ELSE pc' = "asleep" /\ next_tick' = deadline /\ UNCHANGED overran
    /\ UNCHANGED <<audioVars, g_running, ok, held, pending, closing, now, started>>

\* clock_nanosleep with an absolute time returns late by a little.
Wake(late) ==
    /\ pc = "asleep" /\ pc' = "top"
    /\ now' = (IF now > Nanoseconds(next_tick) THEN now ELSE Nanoseconds(next_tick)) + late
    /\ UNCHANGED <<audioVars, g_running, ok, held, pending, closing, next_tick, tick,
                   started, overran>>

\* A signal handler has run: the sleep ends early and the loop ends.
Interrupted ==
    /\ pc = "asleep" /\ ~g_running /\ pc' = "top"
    /\ UNCHANGED <<audioVars, g_running, ok, held, pending, closing, clock>>

LeaveLoop ==
    /\ pc = "top" /\ ~g_running
    /\ pc' = "close" /\ closing' = <<"usb", "audio", "video">>
    /\ UNCHANGED <<audioVars, g_running, ok, held, pending, clock>>

CloseNext ==
    /\ pc = "close" /\ closing # <<>>
    /\ closing' = Tail(closing)
    /\ IF Head(closing) = "audio" /\ "audio" \in ok THEN Close(Game) ELSE UNCHANGED audioVars
    /\ held' = IF Head(closing) \in ok THEN held \ {Head(closing)} ELSE held
    /\ UNCHANGED <<pc, g_running, ok, pending, clock>>

Exit ==
    /\ pc = "close" /\ closing = <<>>
    /\ pc' = "exited"
    /\ UNCHANGED <<audioVars, g_running, ok, held, pending, closing, clock>>

Main ==
    \/ \E opens \in BOOLEAN : OpenAudio(opens) \/ OpenVideo(opens)
    \/ \E pads \in -1..2 : OpenUsb(pads)
    \/ SkipUsb \/ ReadClock \/ NoClock
    \/ \E d \in 0..MaxBody, sounds \in PendingSounds : Turn(d, sounds)
    \/ EmitSound \/ Deadline
    \/ \E late \in 0..MaxWake : Wake(late)
    \/ Interrupted \/ LeaveLoop \/ CloseNext \/ Exit

Next ==
    \/ Main \/ on_signal
    \/ Kernel /\ UNCHANGED mainVars
    \/ \E p \in Programs \ {Game} : Stranger(p) /\ UNCHANGED mainVars

Spec == Init /\ [][Next]_vars

-----------------------------------------------------------------------------
\* Properties

\* The loop keeps its rate.  A sleep is at most a tick long.  At the top of a
\* turn the deadline is less than a late wake-up behind, so no turns pile up,
\* however long one took.  And as long as every turn ends in time, turn n ends
\* n ticks after the start: late wake-ups do not add up.
DeadlinesHold ==
    LET due == Nanoseconds(next_tick)
    IN  /\ pc = "asleep" => now <= due /\ due - now <= TICK_NS
        /\ pc = "top" /\ g_running => due <= now /\ now - due <= MaxWake
        /\ pc \in {"top", "sounds", "asleep"} /\ ~overran =>
                due = started + tick * TICK_NS

\* Whatever was skipped or failed to open, and whichever way main ends, it
\* leaves nothing open: not the audio device, the video device, nor libusb
\* without a pad.
AllReleased == pc = "exited" => held = {} /\ audio_fd[Game] = "closed"
=============================================================================
