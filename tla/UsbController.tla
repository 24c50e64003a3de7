--------------------------- MODULE UsbController ---------------------------
(***************************************************************************)
(* game/usbcontroller.c: the main thread opens two gamepads, starts the    *)
(* poll thread, takes a snapshot of the button states at every tick, and   *)
(* shuts the thread and the devices down.  The poll thread reads one pad   *)
(* after the other and publishes both under state_lock.                    *)
(*                                                                         *)
(* libusb is external: an open, a detach, a claim or a transfer may fail   *)
(* at any time, a transfer returns after at most 20 ms, and a claim fails  *)
(* on an interface that is already claimed.  The kernel may refuse to      *)
(* attach its driver again and the code does not look; refused is where.   *)
(* A release may fail too, but the close that follows gives the interface  *)
(* up.  Button states are reports.                                         *)
(***************************************************************************)
EXTENDS Integers, FiniteSets

CONSTANTS
    Devices,     \* the USB devices that can be opened
    Reports,     \* what a pad may report
    Idle,        \* the all-zero controller state
    NoDevice

Players == 0..1

ASSUME ReportAssumption == Idle \in Reports
ASSUME DeviceAssumption == NoDevice \notin Devices

VARIABLES
    mpc, mp,        \* main thread: where it is, and the player it deals with
    ppc, pp,        \* poll thread: likewise
    run,            \* poll_thread_run
    lock,           \* state_lock: "free", "main" or "poll"
    slots,          \* slots[]: handle and kernel_driver_was_attached
    state_cache,    \* state_cache[], each entry with the parity of its commit
    local,          \* poll_loop's local[]
    busy,           \* the device whose transfer the poll thread is in
    out,            \* the snapshot main works with, with parities
    attached,       \* the devices bound to a kernel driver
    claimed,        \* the devices whose interface we hold
    opened,         \* the devices with an open handle
    refused,        \* the devices whose driver the kernel did not attach again
    boundAtStart,   \* the devices that were bound when the program started
    last            \* what each pad said last, silence apart

usb == <<attached, claimed, opened, refused>>
vars == <<mpc, mp, ppc, pp, busy, run, lock, slots, state_cache, local, out, usb, boundAtStart, last>>

Closed == [handle |-> NoDevice, was_attached |-> FALSE]
Fresh  == [p \in Players |-> [report |-> Idle, parity |-> 0]]

Init ==
    /\ mpc = "open" /\ mp = 0
    /\ ppc = "off" /\ pp = 0 /\ busy = NoDevice
    /\ run = FALSE /\ lock = "free"
    /\ slots = [p \in Players |-> Closed]
    /\ state_cache = Fresh /\ out = Fresh
    /\ local = [p \in Players |-> Idle]
    /\ boundAtStart \in SUBSET Devices
    /\ attached = boundAtStart
    /\ claimed = {} /\ opened = {} /\ refused = {}
    /\ last = [p \in Players |-> Idle]

-----------------------------------------------------------------------------
\* usbcontroller_init

InitGoesOn == IF mp = 0 THEN mpc' = "open" /\ mp' = 1 ELSE mpc' = "start" /\ mp' = 0

\* open_controller succeeds: the kernel driver is detached, the interface is
\* ours and the slot remembers what to give back.
OpenSucceeds(d) ==
    /\ mpc = "open" /\ d \notin claimed
    /\ slots' = [slots EXCEPT ![mp] = [handle |-> d, was_attached |-> d \in attached]]
    /\ attached' = attached \ {d}
    /\ claimed' = claimed \cup {d}
    /\ opened' = opened \cup {d}
    /\ InitGoesOn
    /\ UNCHANGED <<busy, ppc, pp, run, lock, state_cache, local, out, refused, boundAtStart, last>>

\* No device opens, or detaching its driver fails.
OpenFails ==
    /\ mpc = "open"
    /\ InitGoesOn
    /\ UNCHANGED <<busy, ppc, pp, run, lock, slots, state_cache, local, out, usb, boundAtStart, last>>

\* libusb_attach_kernel_driver is asked for every device of back, and the kernel
\* refuses some; left is what stays bound meanwhile.
Reattach(left, back) ==
    \E no \in SUBSET back :
        /\ attached' = left \cup (back \ no)
        /\ refused' = refused \cup no

\* Mutant: the driver stays detached when the claim fails.
rebind_NotAttached(d) == attached' = attached \ {d} /\ UNCHANGED refused

\* The failure path of the claim asks for the driver it detached.
rebind(d) == Reattach(attached \ {d}, attached \cap {d})

\* libusb_claim_interface fails, for one because the other slot, with the same
\* vendor and product, holds the device.
ClaimFails(d) ==
    /\ mpc = "open"
    /\ rebind(d)
    /\ InitGoesOn
    /\ UNCHANGED <<busy, ppc, pp, run, lock, slots, state_cache, local, out, claimed, opened,
                   boundAtStart, last>>

\* The devices of the slots ps whose driver the open detached.
detached(ps) == {slots[p].handle : p \in {q \in ps : slots[q].was_attached}}

\* Closing the handle of slot p: release, attach again, close.
close_controller(p) ==
    /\ Reattach(attached, detached({p}))
    /\ claimed' = claimed \ {slots[p].handle}
    /\ opened' = opened \ {slots[p].handle}
    /\ slots' = [slots EXCEPT ![p] = Closed]

HasPad == \E p \in Players : slots[p].handle # NoDevice

StartThread ==
    /\ mpc = "start" /\ HasPad
    /\ run' = TRUE /\ ppc' = "top"
    /\ mpc' = "loop"
    /\ UNCHANGED <<busy, mp, pp, lock, slots, state_cache, local, out, usb, boundAtStart, last>>

\* pthread_create fails: init closes both slots and returns -1.
StartFails ==
    /\ mpc = "start" /\ HasPad
    /\ Reattach(attached, detached(Players))
    /\ claimed' = claimed \ {slots[p].handle : p \in Players}
    /\ opened' = opened \ {slots[p].handle : p \in Players}
    /\ slots' = [p \in Players |-> Closed]
    /\ mpc' = "blind"
    /\ UNCHANGED <<busy, mp, ppc, pp, run, lock, state_cache, local, out, boundAtStart, last>>

\* No pad: no thread is started.  Main runs on without input, as after a failure.
NoPad ==
    /\ mpc = "start" /\ ~HasPad
    /\ mpc' = "blind"
    /\ UNCHANGED <<busy, mp, ppc, pp, run, lock, slots, state_cache, local, out, usb, boundAtStart, last>>

-----------------------------------------------------------------------------
\* usbcontroller_get_state, in the main loop

\* Mutant: nobody waits for state_lock.
unlocked_Ignored == TRUE
unlocked == lock = "free"

SnapLock ==
    /\ mpc = "loop" /\ unlocked
    /\ lock' = "main" /\ mpc' = "copy" /\ mp' = 0
    /\ UNCHANGED <<busy, ppc, pp, run, slots, state_cache, local, out, usb, boundAtStart, last>>

\* memcpy copies one pad, then the other.
SnapCopy ==
    /\ mpc = "copy"
    /\ out' = [out EXCEPT ![mp] = state_cache[mp]]
    /\ IF mp = 0 THEN mp' = 1 /\ UNCHANGED <<mpc, lock>>
                 ELSE mp' = 0 /\ mpc' = "step" /\ lock' = "free"
    /\ UNCHANGED <<busy, ppc, pp, run, slots, state_cache, local, usb, boundAtStart, last>>

\* game_step and the rest of the tick use the snapshot.
Step ==
    /\ mpc = "step"
    /\ mpc' = "loop"
    /\ UNCHANGED <<busy, mp, ppc, pp, run, lock, slots, state_cache, local, out, usb, boundAtStart, last>>

-----------------------------------------------------------------------------
\* usbcontroller_close

\* A signal ends the main loop; poll_thread_run is cleared without the lock.
Stop ==
    /\ mpc = "loop"
    /\ run' = FALSE /\ mpc' = "join"
    /\ UNCHANGED <<busy, mp, ppc, pp, lock, slots, state_cache, local, out, usb, boundAtStart, last>>

\* Mutant: the thread is not joined.
joined_Not == TRUE

joined == ppc = "exited"

Join ==
    /\ mpc = "join" /\ joined
    /\ mpc' = "close" /\ mp' = 0
    /\ UNCHANGED <<busy, ppc, pp, run, lock, slots, state_cache, local, out, usb, boundAtStart, last>>

BlindStop ==
    /\ mpc = "blind"
    /\ mpc' = "close" /\ mp' = 0
    /\ UNCHANGED <<busy, ppc, pp, run, lock, slots, state_cache, local, out, usb, boundAtStart, last>>

CloseSlot ==
    /\ mpc = "close"
    /\ IF slots[mp].handle # NoDevice THEN close_controller(mp) ELSE UNCHANGED <<slots, usb>>
    /\ IF mp = 0 THEN mp' = 1 /\ UNCHANGED mpc ELSE mp' = 0 /\ mpc' = "done"
    /\ UNCHANGED <<busy, ppc, pp, run, lock, state_cache, local, out, boundAtStart, last>>

Done == mpc = "done" /\ UNCHANGED vars

-----------------------------------------------------------------------------
\* poll_loop

\* Mutant: the loop does not look at poll_thread_run.
PollTop_Forever ==
    /\ ppc = "top"
    /\ ppc' = "transfer" /\ pp' = 0
    /\ local' = [p \in Players |-> Idle]
    /\ UNCHANGED <<busy, mpc, mp, run, lock, slots, state_cache, out, usb, boundAtStart, last>>

PollTop ==
    /\ ppc = "top"
    /\ IF run THEN /\ ppc' = "transfer" /\ pp' = 0
                   /\ local' = [p \in Players |-> Idle]
              ELSE ppc' = "exited" /\ UNCHANGED <<pp, local>>
    /\ UNCHANGED <<busy, mpc, mp, run, lock, slots, state_cache, out, usb, boundAtStart, last>>

NextPad == IF pp = 0 THEN ppc' = "transfer" /\ pp' = 1 ELSE ppc' = "publish" /\ pp' = 0

PollNoPad ==
    /\ ppc = "transfer" /\ slots[pp].handle = NoDevice
    /\ NextPad
    /\ UNCHANGED <<busy, mpc, mp, run, lock, slots, state_cache, local, out, usb, boundAtStart, last>>

\* The thread reads the handle and is inside the transfer until it returns.
PollStart ==
    /\ ppc = "transfer" /\ slots[pp].handle # NoDevice
    /\ busy' = slots[pp].handle
    /\ ppc' = "inflight"
    /\ UNCHANGED <<mpc, mp, pp, run, lock, slots, state_cache, local, out, usb, boundAtStart, last>>

\* A full report, or an error or a short report (the zeroes of local stay).
PollReport(r) ==
    /\ ppc = "inflight"
    /\ busy' = NoDevice
    /\ local' = [local EXCEPT ![pp] = r]
    /\ last' = [last EXCEPT ![pp] = r]
    /\ NextPad
    /\ UNCHANGED <<mpc, mp, run, lock, slots, state_cache, out, usb, boundAtStart>>

PollTimeout ==
    /\ ppc = "inflight"
    /\ busy' = NoDevice
    /\ ppc' = "keep"
    /\ UNCHANGED <<mpc, mp, pp, run, lock, slots, state_cache, local, out, usb, boundAtStart, last>>

\* Mutant: a silent pad is taken for a released one.
kept_Zero == local

\* A silent pad has not changed: it keeps its published state.
kept == [local EXCEPT ![pp] = state_cache[pp].report]

PollKeep ==
    /\ ppc = "keep" /\ unlocked
    /\ local' = kept
    /\ NextPad
    /\ UNCHANGED <<busy, mpc, mp, run, lock, slots, state_cache, out, usb, boundAtStart, last>>

PollLock ==
    /\ ppc = "publish" /\ unlocked
    /\ lock' = "poll" /\ ppc' = "copy"
    /\ UNCHANGED <<busy, mpc, mp, pp, run, slots, state_cache, local, out, usb, boundAtStart, last>>

PollCopy ==
    /\ ppc = "copy"
    /\ state_cache' = [state_cache EXCEPT ![pp] =
                        [report |-> local[pp], parity |-> 1 - state_cache[pp].parity]]
    /\ IF pp = 0 THEN pp' = 1 /\ UNCHANGED <<ppc, lock>>
                 ELSE pp' = 0 /\ ppc' = "top" /\ lock' = "free"
    /\ UNCHANGED <<busy, mpc, mp, run, slots, local, out, usb, boundAtStart, last>>

-----------------------------------------------------------------------------
MainNext ==
    \/ \E d \in Devices : OpenSucceeds(d) \/ ClaimFails(d)
    \/ OpenFails \/ StartThread \/ StartFails \/ NoPad
    \/ SnapLock \/ SnapCopy \/ Step
    \/ Stop \/ Join \/ BlindStop \/ CloseSlot

PollNext ==
    \/ PollTop \/ PollNoPad \/ PollStart \/ PollTimeout \/ PollKeep \/ PollLock \/ PollCopy
    \/ \E r \in Reports : PollReport(r)

Next == MainNext \/ PollNext \/ Done

Spec == Init /\ [][Next]_vars

\* Both threads are scheduled and every libusb call returns: a transfer has a
\* timeout.  Main may be told to stop at any tick, and need not be.
FairSpec == Spec /\ WF_vars(MainNext) /\ WF_vars(PollNext)

-----------------------------------------------------------------------------
\* Properties

TypeOK ==
    /\ mpc \in {"open", "start", "loop", "copy", "step", "join", "blind", "close", "done"}
    /\ ppc \in {"off", "top", "transfer", "inflight", "keep", "publish", "copy", "exited"}
    /\ mp \in Players /\ pp \in Players /\ busy \in Devices \cup {NoDevice}
    /\ run \in BOOLEAN /\ lock \in {"free", "main", "poll"}
    /\ slots \in [Players -> [handle : Devices \cup {NoDevice}, was_attached : BOOLEAN]]
    /\ state_cache \in [Players -> [report : Reports, parity : 0..1]]
    /\ out \in [Players -> [report : Reports, parity : 0..1]]
    /\ local \in [Players -> Reports] /\ last \in [Players -> Reports]
    /\ attached \subseteq Devices /\ claimed \subseteq Devices /\ opened \subseteq Devices
    /\ refused \subseteq Devices /\ boundAtStart \subseteq Devices

\* game_step never sees half of a commit: both pads of a snapshot come from
\* the same turn of the poll thread.
SnapshotWhole == mpc = "step" => out[0].parity = out[1].parity

\* A pad that times out keeps its buttons: between two turns of the poll
\* thread the published state of every pad is what it said last.
SilenceKeepsState ==
    ppc = "top" => \A p \in Players : state_cache[p].report = last[p]

\* The poll thread is never inside a transfer on a closed handle, not even
\* while the program shuts down: usbcontroller_close joins it before it closes
\* the slots.
NoUseAfterClose == ppc = "inflight" => busy \in opened \cap claimed

\* After the shutdown, whatever failed before, no device is open or claimed,
\* and a kernel driver that was bound at the start is missing only where the
\* kernel itself refused to attach it when the program asked.
DevicesReturned ==
    mpc = "done" =>
        opened = {} /\ claimed = {} /\ attached = boundAtStart \ refused

\* The shutdown ends: the join does not wait for ever.
ShutdownEnds == mpc = "join" ~> mpc = "done"

=============================================================================
