--------------------------- MODULE MainLoop_proofs ---------------------------
(***************************************************************************)
(* Theorems about MainLoop and the audio device below it, for any number   *)
(* of programs, any sounds, any clock and any bounds.                      *)
(***************************************************************************)
EXTENDS MainLoop, TLAPS

-----------------------------------------------------------------------------
\* The audio device

AudioTypes ==
    /\ driver \in {"out", "mapped", "registered", "live", "leaving"}
    /\ audio_base \in BOOLEAN /\ overlapped \in BOOLEAN
    /\ audio_fd \in [Programs -> {"closed", "driver", "file"}]
    /\ hw \in [Contexts -> {"outside", "entered", "written"}]
    /\ DOMAIN value = Contexts

\* Nobody is at the register but through a driver that stays: the loader until
\* it returns, a program while its descriptor pins the module.
Guarded ==
    /\ driver # "out" => audio_base
    /\ hw[Loader] # "outside" => driver = "registered"
    /\ \A p \in Programs :
          /\ hw[p] # "outside" => audio_fd[p] = "driver"
          /\ audio_fd[p] = "driver" => driver \in {"registered", "live"}

\* Since the last write to the register, unless it overlapped another: only its
\* writer may still have to store the number, and once it has, both agree.  A
\* driver that is loading has not written yet.
Agreeing ==
    ~overlapped =>
        /\ \A c, d \in Contexts : hw[c] = "written" /\ hw[d] = "written" => c = d
        /\ \A c \in Contexts : hw[c] = "written" => value[c] = register
        /\ (\A c \in Contexts : hw[c] # "written") =>
              \/ last_sound_id = register
              \/ driver \in {"out", "mapped"}
              \/ driver = "registered" /\ hw[Loader] = "entered"

AudioInv == AudioTypes /\ Guarded /\ Agreeing

LEMMA AudioInitially == AudioInit => AudioInv
  BY LoaderAssumption DEF AudioInit, AudioInv, AudioTypes, Guarded, Agreeing, Contexts

LEMMA AudioStutters == AudioInv /\ UNCHANGED audioVars => AudioInv'
  BY DEF AudioInv, AudioTypes, Guarded, Agreeing, audioVars, access

\* A register access, whoever makes it, leaves the driver in place.
LEMMA AccessKeepsInv ==
    ASSUME AudioInv, NEW c \in Contexts, iowrite32(c) \/ Stored(c)
    PROVE  AudioInv'
<1>1. CASE iowrite32(c)
  <2>1. AudioTypes' /\ Guarded'
    BY <1>1, LoaderAssumption DEF AudioInv, AudioTypes, Guarded, iowrite32, Contexts
  <2>2. Agreeing'
    BY <1>1 DEF AudioInv, AudioTypes, Guarded, Agreeing, iowrite32
  <2>3. QED BY <2>1, <2>2 DEF AudioInv
<1>2. CASE Stored(c)
  <2>1. AudioTypes' /\ Guarded'
    BY <1>2, LoaderAssumption DEF AudioInv, AudioTypes, Guarded, Stored, Contexts
  <2>2. Agreeing'
    BY <1>2 DEF AudioInv, AudioTypes, Guarded, Agreeing, Stored
  <2>3. QED BY <2>1, <2>2 DEF AudioInv
<1>3. QED BY <1>1, <1>2

LEMMA KernelKeepsInv == AudioInv /\ Kernel => AudioInv'
<1> SUFFICES ASSUME AudioInv, Kernel PROVE AudioInv'
  OBVIOUS
<1> USE DEF AudioInv, AudioTypes, Contexts, access
<1>1. CASE fpga_audio_init
  BY <1>1, LoaderAssumption DEF fpga_audio_init, Guarded, Agreeing
<1>2. CASE RegisterFails
  BY <1>2, LoaderAssumption DEF RegisterFails, Guarded, Agreeing
<1>3. CASE Register
  BY <1>3, LoaderAssumption DEF Register, Enter, Guarded, Agreeing
<1>4. CASE InitReturns
  BY <1>4, LoaderAssumption DEF InitReturns, Guarded, Agreeing
<1>5. CASE Deregister
  BY <1>5, LoaderAssumption DEF Deregister, pinned, Guarded, Agreeing
<1>6. CASE fpga_audio_exit
  BY <1>6, LoaderAssumption DEF fpga_audio_exit, Guarded, Agreeing
<1>7. CASE \E c \in Contexts : iowrite32(c) \/ Stored(c)
  BY <1>7, AccessKeepsInv
<1>8. QED BY <1>1, <1>2, <1>3, <1>4, <1>5, <1>6, <1>7 DEF Kernel

\* A program is anybody, the game included.
LEMMA ProgramKeepsInv ==
    ASSUME AudioInv, NEW p \in Programs, NEW id, Open(p) \/ Close(p) \/ Write(p, id)
    PROVE  AudioInv'
<1> USE DEF AudioInv, AudioTypes, Contexts, access
<1>1. CASE Open(p)
  BY <1>1, LoaderAssumption DEF Open, Guarded, Agreeing
<1>2. CASE Close(p)
  BY <1>2, LoaderAssumption DEF Close, Guarded, Agreeing
<1>3. CASE Write(p, id)
  <2>1. CASE UNCHANGED audioVars
    BY <2>1, AudioStutters
  <2>2. CASE audio_fd[p] = "driver" /\ hw[p] = "outside" /\ Enter(p, id)
             /\ UNCHANGED <<driver, audio_base, audio_fd, register, last_sound_id, overlapped>>
    BY <2>2, LoaderAssumption DEF Enter, Guarded, Agreeing
  <2>3. QED BY <1>3, <2>1, <2>2 DEF Write, fpga_audio_write, audioVars
<1>4. QED BY <1>1, <1>2, <1>3

\* The game goes to the device like any program, or not at all.
LEMMA MainUsesDevice ==
    ASSUME AudioInv, Next
    PROVE  AudioInv'
<1>1. ASSUME Open(Game) \/ Close(Game) \/ Write(Game, Head(pending)) PROVE AudioInv'
  BY <1>1, GameAssumption, ProgramKeepsInv
<1>2. CASE UNCHANGED audioVars
  BY <1>2, AudioStutters
<1>3. CASE Main
  <2>1. CASE \E opens \in BOOLEAN : OpenAudio(opens)
    BY <2>1, <1>1, <1>2 DEF OpenAudio
  <2>2. CASE EmitSound
    BY <2>2, <1>1 DEF EmitSound
  <2>3. CASE CloseNext
    BY <2>3, <1>1, <1>2 DEF CloseNext
  <2>4. CASE UNCHANGED audioVars
    BY <2>4, <1>2
  <2>5. QED
    BY <1>3, <2>1, <2>2, <2>3, <2>4
       DEF Main, OpenVideo, OpenUsb, SkipUsb, ReadClock, NoClock, Turn, Deadline, Wake,
           Interrupted, LeaveLoop, Exit
<1>4. CASE on_signal
  BY <1>4, <1>2 DEF on_signal
<1>5. CASE Kernel
  BY <1>5, KernelKeepsInv
<1>6. CASE \E p \in Programs \ {Game} : Stranger(p)
  BY <1>6, ProgramKeepsInv DEF Stranger
<1>7. QED BY <1>3, <1>4, <1>5, <1>6 DEF Next

THEOREM AudioInvariant == Spec => []AudioInv
<1>1. Init => AudioInv
  BY AudioInitially DEF Init
<1>2. AudioInv /\ [Next]_vars => AudioInv'
  BY MainUsesDevice, AudioStutters DEF vars
<1>3. QED BY <1>1, <1>2, PTL DEF Spec

\* fpga_audio_hw_write never meets an unmapped register (fpga_audio.c:20), with
\* any number of programs, whenever the driver is loaded and unloaded.
THEOREM RegisterMapped == Spec => []AccessMapped
<1>1. AudioInv => AccessMapped
  BY LoaderAssumption DEF AudioInv, AudioTypes, Guarded, AccessMapped, Contexts
<1>2. QED BY <1>1, AudioInvariant, PTL

\* A read of the device tells what the register holds unless the last two
\* writes overlapped (fpga_audio.c:19-31), with any number of programs.
THEOREM ReadbackRight == Spec => []ReadbackAgrees
<1>1. AudioInv => ReadbackAgrees
  BY DEF AudioInv, AudioTypes, Agreeing, ReadbackAgrees, fpga_audio_read
<1>2. QED BY <1>1, AudioInvariant, PTL

-----------------------------------------------------------------------------
\* What is open is closed

\* The lists of subsystems to close and what is left of them.
Closings == {<<"usb", "audio", "video">>, <<"audio", "video", "usb">>, <<"audio", "video">>,
             <<"video", "usb">>, <<"video">>, <<"usb">>, <<>>}

Listed(x) == \E i \in 1..Len(closing) : closing[i] = x

\* What is open is noted in ok, and at the end is still on the list.
ReleaseInv ==
    /\ audio_fd \in [Programs -> {"closed", "driver", "file"}]
    /\ held \subseteq ok /\ held \subseteq {"video", "usb"}
    /\ audio_fd[Game] # "closed" => "audio" \in ok
    /\ pc = "audio" => ok = {} /\ audio_fd[Game] = "closed"
    /\ pc = "close" =>
          /\ closing \in Closings
          /\ \A x \in held : Listed(x)
          /\ audio_fd[Game] # "closed" => Listed("audio")
    /\ pc = "exited" => held = {} /\ audio_fd[Game] = "closed"

\* Nobody else opens or closes the game's descriptor.
LEMMA OthersKeepFd ==
    ASSUME audio_fd \in [Programs -> {"closed", "driver", "file"}],
           Kernel \/ \E p \in Programs \ {Game} : Stranger(p)
    PROVE  /\ audio_fd' \in [Programs -> {"closed", "driver", "file"}]
           /\ audio_fd'[Game] = audio_fd[Game]
<1>1. CASE Kernel
  BY <1>1 DEF Kernel, fpga_audio_init, RegisterFails, Register, InitReturns, Deregister,
              fpga_audio_exit, iowrite32, Stored
<1>2. CASE \E p \in Programs \ {Game} : Stranger(p)
  BY <1>2, GameAssumption DEF Stranger, Open, Close, Write, fpga_audio_write, audioVars
<1>3. QED BY <1>1, <1>2

LEMMA Tails ==
    ASSUME NEW S, NEW a \in S, NEW b \in S, NEW c \in S
    PROVE  /\ Tail(<<a, b, c>>) = <<b, c>> /\ Tail(<<a, b>>) = <<b>> /\ Tail(<<a>>) = <<>>
           /\ {<<a, b, c>>, <<a, b>>, <<a>>, <<>>} \subseteq Seq(S)
<1>1. Tail(<<a, b, c>>) = <<b, c>> /\ Tail(<<a, b>>) = <<b>> /\ Tail(<<a>>) = <<>>
  OBVIOUS
<1>2. <<a, b, c>> \in Seq(S) /\ <<a, b>> \in Seq(S) /\ <<a>> \in Seq(S) /\ <<>> \in Seq(S)
  OBVIOUS
<1>3. QED BY <1>1, <1>2

LEMMA ListHead ==
    ASSUME closing \in Closings, closing # <<>>
    PROVE  /\ Tail(closing) \in Closings
           /\ \A x : Listed(x) => x = Head(closing) \/ \E i \in 1..Len(Tail(closing)) : Tail(closing)[i] = x
<1> DEFINE S == {"usb", "audio", "video"}
<1>1. closing \in Seq(S) /\ Tail(closing) \in Closings
  <2>1. CASE closing = <<"usb", "audio", "video">>
    BY <2>1, Tails DEF Closings
  <2>2. CASE closing = <<"audio", "video", "usb">>
    BY <2>2, Tails DEF Closings
  <2>3. CASE closing = <<"audio", "video">>
    BY <2>3, Tails DEF Closings
  <2>4. CASE closing = <<"video", "usb">>
    BY <2>4, Tails DEF Closings
  <2>5. ASSUME NEW x \in S, closing = <<x>> PROVE closing \in Seq(S) /\ Tail(closing) = <<>>
    BY <2>5, Tails
  <2>6. CASE closing = <<"video">> \/ closing = <<"usb">>
    BY <2>5, <2>6 DEF Closings
  <2>7. QED BY <2>1, <2>2, <2>3, <2>4, <2>6 DEF Closings
<1> HIDE DEF S
<1>2. Tail(closing) \in Closings
  BY <1>1
<1>3. ASSUME NEW x, Listed(x), x # Head(closing)
      PROVE  \E i \in 1..Len(Tail(closing)) : Tail(closing)[i] = x
  <2>1. PICK j \in 1..Len(closing) : closing[j] = x
    BY <1>3 DEF Listed
  <2>2. j # 1 /\ j - 1 \in 1..Len(Tail(closing)) /\ Tail(closing)[j - 1] = x
    BY <1>1, <1>3, <2>1
  <2>3. QED BY <2>2
<1>4. QED BY <1>2, <1>3

LEMMA ReleaseStep == ReleaseInv /\ [Next]_vars => ReleaseInv'
<1> SUFFICES ASSUME ReleaseInv, [Next]_vars PROVE ReleaseInv'
  OBVIOUS
<1>1. CASE UNCHANGED vars
  BY <1>1 DEF ReleaseInv, Listed, vars, audioVars, mainVars
<1>2. CASE (Kernel \/ \E p \in Programs \ {Game} : Stranger(p)) /\ UNCHANGED mainVars
  BY <1>2, OthersKeepFd DEF ReleaseInv, Listed, mainVars
<1>3. CASE on_signal
  BY <1>3 DEF ReleaseInv, Listed, on_signal, audioVars
<1>4. CASE Main
  <2>1. ASSUME NEW opens \in BOOLEAN, OpenAudio(opens) PROVE ReleaseInv'
    BY <2>1, GameAssumption DEF ReleaseInv, OpenAudio, Open, audioVars
  <2>2. ASSUME NEW opens \in BOOLEAN, OpenVideo(opens) PROVE ReleaseInv'
    BY <2>2 DEF ReleaseInv, OpenVideo, audioVars
  <2>3. ASSUME NEW pads \in -1..2, OpenUsb(pads) PROVE ReleaseInv'
    BY <2>3 DEF ReleaseInv, OpenUsb, usb_to_close, audioVars
  <2>4. CASE SkipUsb \/ ReadClock \/ Deadline \/ Interrupted
    BY <2>4 DEF ReleaseInv, SkipUsb, ReadClock, Deadline, Interrupted, audioVars
  <2>5. CASE \E d \in 0..MaxBody, sounds \in PendingSounds : Turn(d, sounds)
    BY <2>5 DEF ReleaseInv, Turn, audioVars
  <2>6. CASE \E late \in 0..MaxWake : Wake(late)
    BY <2>6 DEF ReleaseInv, Wake, audioVars
  <2>7. CASE EmitSound
    BY <2>7 DEF ReleaseInv, EmitSound, Write, fpga_audio_write, audioVars
  <2>8. CASE NoClock \/ LeaveLoop
    <3>1. pc' = "close" /\ closing' \in Closings /\ UNCHANGED <<audioVars, ok, held>>
      BY <2>8 DEF NoClock, LeaveLoop, Closings
    <3>2. \A x \in {"audio", "video", "usb"} : Listed(x)'
      <4>1. Len(closing') = 3
            /\ {closing'[1], closing'[2], closing'[3]} = {"audio", "video", "usb"}
        BY <2>8 DEF NoClock, LeaveLoop
      <4>2. QED BY <4>1 DEF Listed
    <3>3. QED BY <3>1, <3>2 DEF ReleaseInv, audioVars
  <2>9. CASE CloseNext
    <3>1. closing \in Closings /\ closing # <<>> /\ closing' = Tail(closing) /\ pc' = "close"
      BY <2>9 DEF CloseNext, ReleaseInv
    <3>2. closing' \in Closings /\ \A x : Listed(x) => x = Head(closing) \/ Listed(x)'
      BY <3>1, ListHead DEF Listed
    <3>3. /\ audio_fd' \in [Programs -> {"closed", "driver", "file"}]
          /\ audio_fd'[Game] # "closed" =>
                audio_fd[Game] # "closed" /\ "audio" \in ok /\ Head(closing) # "audio"
      BY <2>9, GameAssumption DEF CloseNext, Close, ReleaseInv, audioVars
    <3>4. held' \subseteq held /\ Head(closing) \notin held' /\ ok' = ok
      BY <2>9 DEF CloseNext, ReleaseInv
    <3>5. QED BY <2>9, <3>1, <3>2, <3>3, <3>4 DEF ReleaseInv, CloseNext
  <2>10. CASE Exit
    BY <2>10 DEF ReleaseInv, Exit, Listed, audioVars
  <2>11. QED
    BY <1>4, <2>1, <2>2, <2>3, <2>4, <2>5, <2>6, <2>7, <2>8, <2>9, <2>10 DEF Main
<1>5. QED BY <1>1, <1>2, <1>3, <1>4 DEF Next

\* Whichever way main ends (main.c:166-169 or main.c:207-209), nothing it
\* opened stays open, however many programs and whatever fails.
THEOREM EverythingReleased == Spec => []AllReleased
<1>1. Init => ReleaseInv
  BY GameAssumption DEF Init, AudioInit, ReleaseInv
<1>2. ReleaseInv => AllReleased
  BY DEF ReleaseInv, AllReleased
<1>3. QED BY <1>1, <1>2, ReleaseStep, PTL DEF Spec

-----------------------------------------------------------------------------
\* The deadlines

Timespecs == [tv_sec : Nat, tv_nsec : 0..NS_PER_SEC - 1]

due == Nanoseconds(next_tick)

Running == {"top", "sounds", "asleep"}

ClockInv ==
    /\ now \in Nat /\ started \in Nat /\ tick \in Nat
    /\ next_tick \in Timespecs
    /\ pc \in {"audio", "video", "usb", "clock"} => tick = 0 /\ ~overran
    /\ pc = "top" /\ g_running => due <= now /\ now - due <= MaxWake
    /\ pc = "sounds" => due <= now
    /\ pc = "asleep" => now <= due /\ due - now <= TICK_NS
    /\ pc \in Running /\ ~overran => due = started + tick * TICK_NS

LEMMA TickLength == TICK_NS \in 0..NS_PER_SEC
  BY ClockAssumption DEF TICK_NS

LEMMA TimespecValue ==
    ASSUME NEW t \in Nat
    PROVE  Timespec(t) \in Timespecs /\ Nanoseconds(Timespec(t)) = t
<1>1. /\ t \div NS_PER_SEC \in Nat /\ t % NS_PER_SEC \in 0..NS_PER_SEC - 1
      /\ (t \div NS_PER_SEC) * NS_PER_SEC + (t % NS_PER_SEC) = t
  BY ClockAssumption
<1>2. QED BY <1>1 DEF Timespec, Timespecs, Nanoseconds

LEMMA NanosecondsType == ASSUME NEW ts \in Timespecs PROVE Nanoseconds(ts) \in Nat
  BY ClockAssumption DEF Timespecs, Nanoseconds

\* A second is carried at most once, and that is enough.
LEMMA AddValue ==
    ASSUME NEW ts \in Timespecs, NEW ns \in 0..NS_PER_SEC
    PROVE  /\ timespec_add_ns(ts, ns) \in Timespecs
           /\ Nanoseconds(timespec_add_ns(ts, ns)) = Nanoseconds(ts) + ns
<1>1. NS_PER_SEC \in Nat /\ ts.tv_sec \in Nat /\ ts.tv_nsec \in 0..NS_PER_SEC - 1
  BY ClockAssumption DEF Timespecs
<1>2. (ts.tv_sec + 1) * NS_PER_SEC = ts.tv_sec * NS_PER_SEC + NS_PER_SEC
  BY <1>1
<1>3. CASE ts.tv_nsec + ns >= NS_PER_SEC
  BY <1>1, <1>2, <1>3 DEF timespec_add_ns, Timespecs, Nanoseconds
<1>4. CASE ts.tv_nsec + ns < NS_PER_SEC
  BY <1>1, <1>4 DEF timespec_add_ns, Timespecs, Nanoseconds
<1>5. QED BY <1>1, <1>3, <1>4

\* A whole second outweighs any nanoseconds.
LEMMA SecondOutweighs ==
    ASSUME NEW n \in Nat, NEW x \in Nat, NEW y \in Nat, x >= y + n,
           NEW u \in Nat, NEW v \in 0..n - 1
    PROVE  x + u > y + v
  OBVIOUS

\* The comparison of main.c:196-197 is the comparison of the times.
LEMMA AfterIsLater ==
    ASSUME NEW a \in Timespecs, NEW b \in Timespecs
    PROVE  after(a, b) <=> Nanoseconds(a) > Nanoseconds(b)
<1>1. /\ NS_PER_SEC \in Nat
      /\ a.tv_sec \in Nat /\ a.tv_nsec \in 0..NS_PER_SEC - 1
      /\ b.tv_sec \in Nat /\ b.tv_nsec \in 0..NS_PER_SEC - 1
  BY ClockAssumption DEF Timespecs
<1>2. ASSUME NEW s \in Nat, NEW t \in Nat, s > t
      PROVE  s * NS_PER_SEC >= t * NS_PER_SEC + NS_PER_SEC
  <2>1. PICK k \in Nat : s = t + 1 + k
    <3>1. s - t - 1 \in Nat /\ s = t + 1 + (s - t - 1)
      BY <1>2
    <3>2. QED BY <3>1
  <2>2. s * NS_PER_SEC = t * NS_PER_SEC + NS_PER_SEC + k * NS_PER_SEC
    BY <1>1, <2>1
  <2>3. k * NS_PER_SEC \in Nat /\ t * NS_PER_SEC \in Nat
    BY <1>1
  <2>4. QED BY <1>1, <2>2, <2>3
<1>3. PICK x \in Nat : x = a.tv_sec * NS_PER_SEC
  BY <1>1
<1>4. PICK y \in Nat : y = b.tv_sec * NS_PER_SEC
  BY <1>1
<1>5. PICK u \in 0..NS_PER_SEC - 1 : u = a.tv_nsec
  BY <1>1
<1>6. PICK v \in 0..NS_PER_SEC - 1 : v = b.tv_nsec
  BY <1>1
<1>7. Nanoseconds(a) = x + u /\ Nanoseconds(b) = y + v
  BY <1>3, <1>4, <1>5, <1>6 DEF Nanoseconds
<1>8. CASE a.tv_sec > b.tv_sec
  <2>1. x >= y + NS_PER_SEC
    BY <1>1, <1>2, <1>3, <1>4, <1>8
  <2>2. x + u > y + v
    BY <1>1, <2>1, SecondOutweighs
  <2>3. QED BY <1>7, <1>8, <2>2 DEF after
<1>9. CASE b.tv_sec > a.tv_sec
  <2>1. y >= x + NS_PER_SEC
    BY <1>1, <1>2, <1>3, <1>4, <1>9
  <2>2. y + v > x + u
    BY <1>1, <2>1, SecondOutweighs
  <2>3. ~after(a, b)
    BY <1>1, <1>9 DEF after
  <2>4. ~(x + u > y + v)
    BY <1>1, <2>2
  <2>5. QED BY <1>7, <2>3, <2>4
<1>10. CASE a.tv_sec = b.tv_sec
  <2>1. x = y
    BY <1>3, <1>4, <1>10
  <2>2. after(a, b) <=> u > v
    BY <1>1, <1>5, <1>6, <1>10 DEF after
  <2>3. x + u > y + v <=> u > v
    BY <1>1, <2>1
  <2>4. QED BY <1>7, <2>2, <2>3
<1>11. QED BY <1>1, <1>8, <1>9, <1>10

LEMMA DeadlineStep == ASSUME ClockInv, Deadline PROVE ClockInv'
<1> DEFINE deadline == timespec_add_ns(next_tick, TICK_NS)
<1>1. deadline \in Timespecs /\ Nanoseconds(deadline) = due + TICK_NS /\ due \in Nat
  BY AddValue, TickLength, NanosecondsType DEF ClockInv, due
<1>2. after(Timespec(now), deadline) <=> now > due + TICK_NS
  BY <1>1, TimespecValue, AfterIsLater DEF ClockInv
<1>3. (tick + 1) * TICK_NS = tick * TICK_NS + TICK_NS /\ tick * TICK_NS \in Nat
  BY TickLength, ClockAssumption DEF ClockInv
<1>4. pc = "sounds" /\ tick' = tick + 1 /\ now' = now /\ started' = started /\ due <= now
  BY DEF Deadline, ClockInv
<1>5. CASE now > due + TICK_NS
  <2>1. pc' = "top" /\ next_tick' = Timespec(now) /\ overran' = TRUE
    BY <1>2, <1>5 DEF Deadline
  <2>2. next_tick' \in Timespecs /\ due' = now
    BY <2>1, TimespecValue DEF ClockInv, due, Nanoseconds
  <2>3. QED
    BY <1>4, <2>1, <2>2, ClockAssumption DEF ClockInv, Running
<1>6. CASE now <= due + TICK_NS
  <2>1. ~after(Timespec(now), deadline)
    BY <1>1, <1>2, <1>6, TickLength, ClockAssumption DEF ClockInv
  <2>2. pc' = "asleep" /\ next_tick' = deadline /\ overran' = overran
    BY <2>1 DEF Deadline
  <2>3. next_tick' \in Timespecs /\ due' = due + TICK_NS
    BY <1>1, <2>2 DEF due, Nanoseconds
  <2>4. QED
    BY <1>1, <1>3, <1>4, <1>6, <2>2, <2>3, TickLength, ClockAssumption DEF ClockInv, Running
<1>7. QED BY <1>1, <1>5, <1>6, TickLength, ClockAssumption DEF ClockInv

LEMMA WakeStep ==
    ASSUME ClockInv, NEW late \in 0..MaxWake, Wake(late)
    PROVE  ClockInv'
<1>1. due \in Nat /\ now \in Nat /\ now <= due
  BY NanosecondsType DEF ClockInv, due, Wake
<1>2. now' = due + late
  BY <1>1, ClockAssumption DEF Wake, due
<1>3. pc' = "top" /\ due' = due /\ UNCHANGED <<next_tick, tick, started, overran>>
  BY DEF Wake, due, Nanoseconds
<1>4. QED BY <1>1, <1>2, <1>3, ClockAssumption DEF ClockInv, Running, Wake

LEMMA ClockStep == ClockInv /\ [Next]_vars => ClockInv'
<1> SUFFICES ASSUME ClockInv, [Next]_vars PROVE ClockInv'
  OBVIOUS
<1>1. ASSUME UNCHANGED <<pc, clock>>, g_running' = g_running \/ g_running' = FALSE
      PROVE  ClockInv'
  BY <1>1 DEF ClockInv, clock, due, Nanoseconds, Running
<1>2. CASE UNCHANGED vars
  BY <1>1, <1>2 DEF vars, mainVars
<1>3. CASE on_signal \/ EmitSound \/ CloseNext \/ UNCHANGED mainVars
  BY <1>1, <1>3 DEF on_signal, EmitSound, CloseNext, mainVars
<1>4. ASSUME UNCHANGED clock,
             \/ pc' \notin Running \cup {"audio", "video", "usb", "clock"}
             \/ {pc, pc'} \subseteq {"audio", "video", "usb", "clock"}
      PROVE  ClockInv'
  BY <1>4 DEF ClockInv, clock, Running
<1>5. CASE Main
  <2>1. CASE \E opens \in BOOLEAN : OpenAudio(opens) \/ OpenVideo(opens)
    BY <1>4, <2>1 DEF OpenAudio, OpenVideo
  <2>2. CASE (\E pads \in -1..2 : OpenUsb(pads)) \/ SkipUsb
    BY <1>4, <2>2 DEF OpenUsb, SkipUsb
  <2>3. CASE NoClock \/ LeaveLoop \/ Exit
    BY <1>4, <2>3 DEF NoClock, LeaveLoop, Exit, Running
  <2>4. CASE ReadClock
    <3>1. next_tick' \in Timespecs /\ due' = now
      BY <2>4, TimespecValue DEF ReadClock, ClockInv, due, Nanoseconds
    <3>2. tick' = 0 /\ tick' * TICK_NS = 0 /\ pc' = "top" /\ now' = now /\ started' = now
      BY <2>4, TickLength DEF ReadClock, ClockInv
    <3>3. QED BY <3>1, <3>2, ClockAssumption DEF ClockInv, Running
  <2>5. ASSUME NEW d \in 0..MaxBody, NEW sounds \in PendingSounds, Turn(d, sounds)
        PROVE  ClockInv'
    <3>1. pc = "top" /\ g_running /\ now' = now + d /\ pc' = "sounds"
          /\ UNCHANGED <<next_tick, tick, started, overran>>
      BY <2>5 DEF Turn
    <3>2. due' = due /\ due \in Nat /\ due <= now /\ now' \in Nat /\ due <= now'
      BY <3>1, NanosecondsType, ClockAssumption DEF ClockInv, due, Nanoseconds
    <3>3. QED BY <3>1, <3>2 DEF ClockInv, Running
  <2>6. CASE EmitSound \/ CloseNext
    BY <1>3, <2>6
  <2>7. CASE Deadline
    BY <2>7, DeadlineStep
  <2>8. CASE \E late \in 0..MaxWake : Wake(late)
    BY <2>8, WakeStep
  <2>9. CASE Interrupted
    BY <2>9 DEF Interrupted, ClockInv, clock, due, Nanoseconds, Running
  <2>10. QED
    BY <1>5, <2>1, <2>2, <2>3, <2>4, <2>5, <2>6, <2>7, <2>8, <2>9 DEF Main
<1>6. QED BY <1>2, <1>3, <1>5 DEF Next

\* The rate of main.c:190-202: no sleep is longer than a tick, no turns pile
\* up, and turn n of turns in time ends n ticks after the start; for every
\* clock rate, tick rate, start and delay.
THEOREM RateHolds == Spec => []DeadlinesHold
<1>1. Init => ClockInv
  BY ClockAssumption, TimespecValue DEF Init, ClockInv, Running
<1>2. ClockInv => DeadlinesHold
  BY DEF ClockInv, DeadlinesHold, due, Running
<1>3. QED BY <1>1, <1>2, ClockStep, PTL DEF Spec
=============================================================================
