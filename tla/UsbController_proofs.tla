------------------------- MODULE UsbController_proofs -------------------------
(***************************************************************************)
(* Theorems about UsbController, for any devices and any reports: the two  *)
(* threads, whatever their order, share whole snapshots, keep the buttons  *)
(* of a silent pad, never use a closed handle and give every device back.  *)
(***************************************************************************)
EXTENDS UsbController, TLAPS

\* Whoever copies state_cache holds state_lock, and nobody else does.
Locks ==
    /\ lock = "main" <=> mpc = "copy"
    /\ lock = "poll" <=> ppc = "copy"

\* The poll thread lives from the start of main's loop to the join.
Lifetime ==
    /\ mpc \in {"open", "start", "blind"} => ppc = "off"
    /\ mpc \in {"loop", "copy", "step", "join"} => ppc # "off"
    /\ mpc \in {"close", "done"} => ppc \in {"off", "exited"}
    /\ mpc = "start" => mp = 0

\* Between two copies of the poll thread the parities of the cache differ; what
\* main has copied of it is still there.
Parities ==
    /\ ppc = "copy" /\ pp = 1 => state_cache[0].parity = 1 - state_cache[1].parity
    /\ ~(ppc = "copy" /\ pp = 1) => state_cache[0].parity = state_cache[1].parity
    /\ mpc = "copy" /\ mp = 1 => out[0].parity = state_cache[0].parity
    /\ mpc = "step" => out[0].parity = out[1].parity

\* What each pad said last is in local once the pad was asked in this turn, and
\* in the cache until then and again once it is published.  A slot without a
\* pad has never said anything.
Heard ==
    /\ ppc = "off" => \A p \in Players : last[p] = Idle
    /\ ppc \notin {"off", "exited"} =>
          \A p \in Players : slots[p].handle = NoDevice => last[p] = Idle
    /\ ppc \in {"off", "top", "exited"} => \A p \in Players : state_cache[p].report = last[p]
    /\ ppc \in {"transfer", "inflight", "keep"} =>
          \A p \in Players : IF p < pp THEN local[p] = last[p]
                             ELSE local[p] = Idle /\ state_cache[p].report = last[p]
    /\ ppc \in {"publish", "copy"} => \A p \in Players : local[p] = last[p]
    /\ ppc = "publish" => pp = 0
    /\ ppc = "copy" /\ pp = 1 => state_cache[0].report = last[0]

\* The slots say what is open and claimed, and what must be attached again: all
\* that was bound but what the kernel has refused already.  The poll thread is
\* at the handle of its slot.
Held == {slots[p].handle : p \in Players} \ {NoDevice}

Accounts ==
    /\ opened = Held /\ claimed = Held
    /\ slots[0].handle = slots[1].handle => slots[0].handle = NoDevice
    /\ \A p \in Players : slots[p].was_attached <=> slots[p].handle \in boundAtStart \ refused
    /\ attached = (boundAtStart \ Held) \ refused
    /\ mpc = "open" => \A p \in Players : p >= mp => slots[p] = Closed
    /\ mpc = "close" => \A p \in Players : p < mp => slots[p] = Closed
    /\ mpc = "done" => \A p \in Players : slots[p] = Closed
    /\ ppc = "inflight" => busy = slots[pp].handle /\ busy # NoDevice

UsbInv == TypeOK /\ Locks /\ Lifetime /\ Parities /\ Heard /\ Accounts

-----------------------------------------------------------------------------
\* One lemma per part: every step of either thread keeps it.

LEMMA Constants == Idle \in Reports /\ NoDevice \notin Devices /\ 0 \in Players /\ 1 \in Players
BY ReportAssumption, DeviceAssumption DEF Players

LEMMA Initially == Init => UsbInv
<1> SUFFICES ASSUME Init PROVE UsbInv
    OBVIOUS
<1> USE Constants DEF Init, Fresh, Closed
<1>1. TypeOK
  <2>1. Fresh \in [Players -> [report : Reports, parity : 0..1]]
      BY DEF Fresh
  <2>2. slots \in [Players -> [handle : Devices \cup {NoDevice}, was_attached : BOOLEAN]]
      BY DEF Closed
  <2> QED BY <2>1, <2>2 DEF TypeOK
<1>2. Locks /\ Lifetime
    BY DEF Locks, Lifetime
<1>3. Parities /\ Heard
    BY DEF Parities, Heard, Players
<1>4. Accounts
  <2>1. Held = {}
      BY DEF Held
  <2>2. \A p \in Players : slots[p] = Closed /\ ~slots[p].was_attached /\ slots[p].handle = NoDevice
      OBVIOUS
  <2>3. NoDevice \notin boundAtStart /\ attached = boundAtStart /\ refused = {}
      OBVIOUS
  <2> QED BY <2>1, <2>2, <2>3 DEF Accounts
<1> QED BY <1>1, <1>2, <1>3, <1>4 DEF UsbInv

LEMMA TypeStep == TypeOK /\ Accounts /\ [Next]_vars => TypeOK'
<1> SUFFICES ASSUME TypeOK, Accounts, [Next]_vars PROVE TypeOK'
    OBVIOUS
<1> USE Constants DEF TypeOK, usb, InitGoesOn, NextPad
<1>1. ASSUME NEW d \in Devices, OpenSucceeds(d) PROVE TypeOK'
    BY <1>1 DEF OpenSucceeds
<1>2. ASSUME NEW d \in Devices, ClaimFails(d) PROVE TypeOK'
    BY <1>2 DEF ClaimFails, rebind, Reattach
<1>3. CASE OpenFails \/ StartThread \/ NoPad
    BY <1>3 DEF OpenFails, StartThread, NoPad
<1>4. CASE StartFails
  <2>1. detached(Players) \subseteq Devices
      BY DEF Accounts, detached
  <2>2. attached' \subseteq Devices /\ refused' \subseteq Devices
      BY <1>4, <2>1 DEF StartFails, Reattach
  <2> QED BY <1>4, <2>2 DEF StartFails, Closed
<1>5. CASE SnapLock \/ SnapCopy \/ Step
    BY <1>5 DEF SnapLock, SnapCopy, Step
<1>6. CASE Stop \/ Join \/ BlindStop
    BY <1>6 DEF Stop, Join, BlindStop
<1>7. CASE CloseSlot
  <2>1. CASE slots[mp].handle # NoDevice
    <3>1. detached({mp}) \subseteq Devices
        BY <2>1 DEF detached
    <3>3. attached' \subseteq Devices /\ refused' \subseteq Devices
        BY <1>7, <2>1, <3>1 DEF CloseSlot, close_controller, Reattach
    <3>2. [slots EXCEPT ![mp] = Closed] \in [Players -> [handle : Devices \cup {NoDevice}, was_attached : BOOLEAN]]
        BY DEF Closed
    <3> QED BY <1>7, <2>1, <3>2, <3>3 DEF CloseSlot, close_controller
  <2>2. CASE slots[mp].handle = NoDevice
      BY <1>7, <2>2 DEF CloseSlot
  <2> QED BY <2>1, <2>2
<1>8. CASE PollTop \/ PollNoPad \/ PollStart \/ PollTimeout
    BY <1>8 DEF PollTop, PollNoPad, PollStart, PollTimeout
<1>9. CASE PollKeep \/ PollLock
    BY <1>9 DEF PollKeep, kept, PollLock
<1>10. CASE PollCopy
    BY <1>10 DEF PollCopy
<1>11. ASSUME NEW r \in Reports, PollReport(r) PROVE TypeOK'
    BY <1>11 DEF PollReport
<1>12. CASE UNCHANGED vars
    BY <1>12 DEF vars
<1> QED
    BY <1>1, <1>2, <1>3, <1>4, <1>5, <1>6, <1>7, <1>8, <1>9, <1>10, <1>11, <1>12
    DEF Next, MainNext, PollNext, Done

\* state_lock excludes the two threads from each other.
LEMMA LocksStep == TypeOK /\ Locks /\ Lifetime /\ [Next]_vars => Locks'
<1> SUFFICES ASSUME TypeOK, Locks, Lifetime, [Next]_vars PROVE Locks'
    OBVIOUS
<1> USE DEF Locks, InitGoesOn, NextPad
<1>1. ASSUME NEW d \in Devices, OpenSucceeds(d) \/ ClaimFails(d) PROVE Locks'
  <2>1. mpc = "open" /\ lock' = lock /\ ppc' = ppc
      BY <1>1 DEF OpenSucceeds, ClaimFails
  <2>2. mpc' \in {"open", "start"}
      BY <1>1 DEF OpenSucceeds, ClaimFails
  <2> QED BY <2>1, <2>2
<1>2. CASE OpenFails \/ StartThread \/ StartFails \/ NoPad
    BY <1>2 DEF OpenFails, StartThread, StartFails, NoPad, Lifetime
<1>3. CASE SnapLock \/ SnapCopy
    BY <1>3 DEF SnapLock, SnapCopy, unlocked
<1>4. CASE Step \/ Stop \/ Join \/ BlindStop \/ CloseSlot
    BY <1>4 DEF Step, Stop, Join, BlindStop, CloseSlot
<1>5. CASE PollTop \/ PollNoPad \/ PollStart \/ PollTimeout \/ PollKeep
    BY <1>5 DEF PollTop, PollNoPad, PollStart, PollTimeout, PollKeep
<1>6. CASE PollLock \/ PollCopy
    BY <1>6 DEF PollLock, PollCopy, unlocked
<1>7. ASSUME NEW r \in Reports, PollReport(r) PROVE Locks'
    BY <1>7 DEF PollReport
<1>8. CASE UNCHANGED vars
    BY <1>8 DEF vars
<1> QED
    BY <1>1, <1>2, <1>3, <1>4, <1>5, <1>6, <1>7, <1>8 DEF Next, MainNext, PollNext, Done

LEMMA LifetimeStep == TypeOK /\ Lifetime /\ [Next]_vars => Lifetime'
<1> SUFFICES ASSUME TypeOK, Lifetime, [Next]_vars PROVE Lifetime'
    OBVIOUS
<1> USE DEF Lifetime, InitGoesOn, NextPad
<1>1. CASE MainNext
    BY <1>1 DEF MainNext, OpenSucceeds, ClaimFails, OpenFails, StartThread, StartFails, NoPad,
                SnapLock, SnapCopy, Step, Stop, Join, BlindStop, CloseSlot, joined
<1>2. CASE PollNext
    BY <1>2 DEF PollNext, PollTop, PollNoPad, PollStart, PollTimeout, PollKeep, PollLock,
                PollCopy, PollReport
<1>3. CASE UNCHANGED vars
    BY <1>3 DEF vars
<1> QED BY <1>1, <1>2, <1>3 DEF Next, Done

\* A commit changes the two parities one after the other; main copies none while
\* it runs, and both while none runs.
LEMMA ParitiesStep == UsbInv /\ [Next]_vars => Parities'
<1> SUFFICES ASSUME UsbInv, [Next]_vars PROVE Parities'
    OBVIOUS
<1> USE DEF UsbInv, Parities
<1>1. ASSUME UNCHANGED <<ppc, pp, state_cache, out>>, mpc' \notin {"copy", "step"} \/ mp' = 0,
             mpc' # "step" \/ mpc = "step"
      PROVE  Parities'
    BY <1>1
<1>2. ASSUME UNCHANGED <<mpc, mp, state_cache, out>>, ppc # "copy", ppc' # "copy" \/ pp' = 0
      PROVE  Parities'
    BY <1>2
<1>3. ASSUME NEW d \in Devices, OpenSucceeds(d) \/ ClaimFails(d) PROVE Parities'
    BY <1>1, <1>3 DEF OpenSucceeds, ClaimFails, InitGoesOn
<1>4. CASE OpenFails \/ StartFails \/ NoPad \/ SnapLock
    BY <1>1, <1>4 DEF OpenFails, StartFails, NoPad, SnapLock, InitGoesOn
<1>5. CASE StartThread
    BY <1>5 DEF StartThread, Lifetime
<1>6. CASE Step \/ Stop \/ Join \/ BlindStop \/ CloseSlot
    BY <1>1, <1>6 DEF Step, Stop, Join, BlindStop, CloseSlot
<1>7. CASE SnapCopy
  <2>1. ppc # "copy" /\ mpc = "copy"
      BY <1>7 DEF SnapCopy, Locks
  <2>2. mp \in {0, 1} /\ out \in [Players -> [report : Reports, parity : 0..1]]
      BY DEF TypeOK, Players
  <2> QED BY <1>7, <2>1, <2>2 DEF SnapCopy, Players
<1>8. CASE PollTop \/ PollNoPad \/ PollStart \/ PollTimeout \/ PollKeep
    BY <1>2, <1>8 DEF PollTop, PollNoPad, PollStart, PollTimeout, PollKeep, NextPad
<1>9. CASE PollLock
    BY <1>2, <1>9 DEF PollLock, Heard
<1>10. ASSUME NEW r \in Reports, PollReport(r) PROVE Parities'
    BY <1>2, <1>10 DEF PollReport, NextPad
<1>11. CASE PollCopy
  <2>1. mpc # "copy" /\ ppc = "copy"
      BY <1>11 DEF PollCopy, Locks
  <2>2. pp \in {0, 1} /\ state_cache \in [Players -> [report : Reports, parity : 0..1]]
      BY DEF TypeOK, Players
  <2>3. state_cache[0].parity \in 0..1 /\ state_cache[1].parity \in 0..1
      BY <2>2 DEF Players
  <2> QED BY <1>11, <2>1, <2>2, <2>3 DEF PollCopy, Players
<1>12. CASE UNCHANGED vars
    BY <1>12 DEF vars
<1> QED
    BY <1>3, <1>4, <1>5, <1>6, <1>7, <1>8, <1>9, <1>10, <1>11, <1>12
    DEF Next, MainNext, PollNext, Done

\* A turn of the poll thread asks both pads, keeps what a silent one said
\* before, and publishes what it has.
LEMMA HeardStep == UsbInv /\ [Next]_vars => Heard'
<1> SUFFICES ASSUME UsbInv, [Next]_vars PROVE Heard'
    OBVIOUS
<1>0. /\ pp \in {0, 1} /\ mp \in {0, 1} /\ Players = {0, 1}
      /\ local \in [Players -> Reports] /\ last \in [Players -> Reports]
      /\ state_cache \in [Players -> [report : Reports, parity : 0..1]]
      /\ slots \in [Players -> [handle : Devices \cup {NoDevice}, was_attached : BOOLEAN]]
    BY DEF UsbInv, TypeOK, Players
<1>1. ASSUME UNCHANGED <<ppc, pp, state_cache, local, last>>,
             ppc \in {"off", "exited"} \/ slots' = slots
      PROVE  Heard'
    BY <1>1 DEF UsbInv, Heard
<1>2. CASE MainNext /\ ~StartThread
    BY <1>1, <1>2
       DEF MainNext, OpenSucceeds, ClaimFails, OpenFails, StartFails, NoPad, SnapLock, SnapCopy,
           Step, Stop, Join, BlindStop, CloseSlot, UsbInv, Lifetime
<1>3. CASE StartThread
    BY <1>3 DEF StartThread, UsbInv, Heard, Lifetime
<1>4. CASE PollTop
    BY <1>0, <1>4 DEF PollTop, UsbInv, Heard
<1>5. CASE PollNoPad
    BY <1>0, <1>5 DEF PollNoPad, NextPad, UsbInv, Heard
<1>6. CASE PollStart \/ PollTimeout
    BY <1>6 DEF PollStart, PollTimeout, UsbInv, Heard
<1>7. ASSUME NEW r \in Reports, PollReport(r) PROVE Heard'
    BY <1>0, <1>7 DEF PollReport, NextPad, UsbInv, Heard, Accounts
<1>8. CASE PollKeep
    BY <1>0, <1>8 DEF PollKeep, kept, NextPad, UsbInv, Heard
<1>9. CASE PollLock
    BY <1>9 DEF PollLock, UsbInv, Heard
<1>10. CASE PollCopy
    BY <1>0, <1>10 DEF PollCopy, UsbInv, Heard
<1>11. CASE UNCHANGED vars
    BY <1>1, <1>11 DEF vars
<1> QED
    BY <1>2, <1>3, <1>4, <1>5, <1>6, <1>7, <1>8, <1>9, <1>10, <1>11 DEF Next, PollNext, Done

\* Opening, a failed start and closing keep the books of the devices.
LEMMA AccountsStep == UsbInv /\ [Next]_vars => Accounts'
<1> SUFFICES ASSUME UsbInv, [Next]_vars PROVE Accounts'
    OBVIOUS
<1>0. /\ pp \in {0, 1} /\ mp \in {0, 1} /\ Players = {0, 1}
      /\ slots \in [Players -> [handle : Devices \cup {NoDevice}, was_attached : BOOLEAN]]
      /\ boundAtStart \subseteq Devices
    BY DEF UsbInv, TypeOK, Players
<1>1. Held = {slots[0].handle, slots[1].handle} \ {NoDevice}
    BY <1>0 DEF Held
<1>2. ASSUME UNCHANGED <<slots, opened, claimed, attached, refused, boundAtStart>>,
             (mpc' = mpc /\ mp' = mp) \/ mpc' \notin {"open", "close", "done"},
             ppc' = "inflight" => UNCHANGED <<ppc, pp, busy>>
      PROVE  Accounts'
    BY <1>2 DEF UsbInv, Accounts, Held
<1>3. ASSUME UNCHANGED <<opened, claimed, slots, boundAtStart, ppc, pp, busy>>,
             refused \subseteq refused', refused' \ refused \subseteq attached,
             attached' = attached \ refused',
             mpc = "open", InitGoesOn
      PROVE  Accounts'
  <2>1. attached' = (boundAtStart \ Held) \ refused' /\ Held' = Held
      BY <1>3 DEF UsbInv, Accounts, Held
  <2>2. \A p \in Players : slots[p].handle \notin attached
      BY Constants, <1>0 DEF UsbInv, Accounts, Held
  <2>3. \A p \in Players :
            slots[p].handle \in boundAtStart \ refused' <=> slots[p].handle \in boundAtStart \ refused
      BY <1>3, <2>2
  <2> QED BY <1>0, <1>3, <2>1, <2>3 DEF UsbInv, Accounts, InitGoesOn
<1>4. ASSUME NEW d \in Devices, OpenSucceeds(d) PROVE Accounts'
  <2>1. /\ slots[mp] = Closed /\ d \notin Held /\ d # NoDevice
        /\ ppc = "off" /\ ppc' = "off"
      BY <1>4, Constants, <1>0 DEF OpenSucceeds, UsbInv, Accounts, Lifetime
  <2>2. /\ slots'[mp] = [handle |-> d, was_attached |-> d \in attached]
        /\ slots'[1 - mp] = slots[1 - mp]
      BY <1>0, <1>4 DEF OpenSucceeds
  <2>3. Held' = Held \cup {d}
      BY <1>0, <1>1, <2>1, <2>2 DEF Held, Closed
  <2>4. /\ opened' = opened \cup {d} /\ claimed' = claimed \cup {d}
        /\ attached' = attached \ {d} /\ boundAtStart' = boundAtStart /\ refused' = refused
        /\ mpc' \in {"open", "start"} /\ (mpc' = "open" => mp = 0 /\ mp' = 1)
      BY <1>4 DEF OpenSucceeds, InitGoesOn
  <2>5. opened' = Held' /\ claimed' = Held' /\ attached' = (boundAtStart' \ Held') \ refused'
      BY <2>3, <2>4 DEF UsbInv, Accounts
  <2>6. slots'[0].handle # slots'[1].handle
      BY <1>0, <1>1, <2>1, <2>2
  <2>7. \A p \in Players : slots'[p].was_attached <=> slots'[p].handle \in boundAtStart' \ refused'
    <3>1. d \in attached <=> d \in boundAtStart \ refused
        BY <2>1 DEF UsbInv, Accounts
    <3>2. slots'[mp].handle = d /\ slots'[mp].was_attached = (d \in attached)
        BY <2>2
    <3>3. slots'[mp].was_attached <=> slots'[mp].handle \in boundAtStart \ refused
        BY <3>1, <3>2, Zenon
    <3>4. slots'[1 - mp].was_attached <=> slots'[1 - mp].handle \in boundAtStart \ refused
        BY <1>0, <2>2 DEF UsbInv, Accounts
    <3>5. \A p \in Players : p = mp \/ p = 1 - mp
        BY <1>0
    <3> QED BY <2>4, <3>3, <3>4, <3>5, Zenon
  <2>8. mpc' = "open" => \A p \in Players : p >= mp' => slots'[p] = Closed
    <3> SUFFICES ASSUME mpc' = "open" PROVE slots'[1] = Closed
        BY <1>0, <2>4
    <3> QED BY <1>0, <1>4, <2>2, <2>4 DEF OpenSucceeds, UsbInv, Accounts
  <2> QED BY <2>1, <2>4, <2>5, <2>6, <2>7, <2>8 DEF Accounts
<1>5. ASSUME NEW d \in Devices, ClaimFails(d) PROVE Accounts'
  <2>1. PICK no \in SUBSET (attached \cap {d}) :
            attached' = (attached \ {d}) \cup ((attached \cap {d}) \ no) /\ refused' = refused \cup no
      BY <1>5 DEF ClaimFails, rebind, Reattach
  <2>2. refused \subseteq refused' /\ refused' \ refused \subseteq attached
      BY <2>1
  <2>3. attached \cap refused = {}
      BY DEF UsbInv, Accounts
  <2>4. attached' = attached \ refused'
      BY <2>1, <2>3
  <2> QED BY <1>3, <1>5, <2>2, <2>4 DEF ClaimFails
<1>6. CASE OpenFails
  <2>1. attached = attached \ refused
      BY DEF UsbInv, Accounts
  <2> QED BY <1>3, <1>6, <2>1 DEF OpenFails, usb
<1>7. CASE StartFails
  <2>1. slots' = [p \in Players |-> Closed] /\ Held' = {}
      BY <1>0, <1>7 DEF StartFails, Held, Closed
  <2>2. opened' = {} /\ claimed' = {}
      BY <1>0, <1>7 DEF StartFails, UsbInv, Accounts, Held
  <2>3. detached(Players) = (boundAtStart \cap Held) \ refused
      BY <1>0, Constants DEF UsbInv, Accounts, Held, detached
  <2>4. attached' = boundAtStart' \ refused'
    <3>1. PICK no \in SUBSET ((boundAtStart \cap Held) \ refused) :
              /\ attached' = attached \cup (((boundAtStart \cap Held) \ refused) \ no)
              /\ refused' = refused \cup no
        BY <1>7, <2>3 DEF StartFails, Reattach
    <3> QED BY <1>7, <3>1 DEF StartFails, UsbInv, Accounts
  <2>5. mpc' = "blind" /\ ppc' = "off"
      BY <1>7 DEF StartFails, UsbInv, Lifetime
  <2>6. NoDevice \notin boundAtStart'
      BY <1>0, <1>7, Constants DEF StartFails
  <2> QED BY <1>0, <2>1, <2>2, <2>4, <2>5, <2>6 DEF Accounts, Closed
<1>8. CASE StartThread \/ NoPad \/ SnapLock \/ SnapCopy \/ Step \/ Stop
    BY <1>2, <1>8 DEF StartThread, NoPad, SnapLock, SnapCopy, Step, Stop, usb
<1>9. CASE Join \/ BlindStop
    BY <1>0, <1>9 DEF Join, BlindStop, joined, usb, UsbInv, Accounts, Lifetime, Held
<1>10. CASE CloseSlot
  <2>1. /\ mpc = "close" /\ ppc' # "inflight" /\ boundAtStart' = boundAtStart
        /\ \/ mp = 0 /\ mp' = 1 /\ mpc' = "close"
           \/ mp = 1 /\ mp' = 0 /\ mpc' = "done"
      BY <1>0, <1>10 DEF CloseSlot, UsbInv, Lifetime
  <2>2. mp = 1 => slots[0] = Closed
      BY <1>0, <2>1 DEF UsbInv, Accounts
  <2>3. CASE slots[mp].handle = NoDevice
    <3>1. UNCHANGED <<slots, attached, claimed, opened, refused>>
        BY <1>10, <2>3 DEF CloseSlot, usb
    <3>2. slots[mp] = Closed
      <4>1. slots[mp].was_attached = FALSE
          BY <1>0, <2>3, Constants DEF UsbInv, Accounts
      <4> QED BY <1>0, <2>3, <4>1 DEF Closed
    <3> QED BY <1>0, <2>1, <2>2, <3>1, <3>2 DEF UsbInv, Accounts, Held
  <2>4. CASE slots[mp].handle # NoDevice
    <3> DEFINE h == slots[mp].handle
    <3>0. detached({mp}) = {h} \cap (boundAtStart \ refused)
        BY <1>0 DEF detached, UsbInv, Accounts
    <3>9. PICK no \in SUBSET ({h} \cap (boundAtStart \ refused)) :
              /\ attached' = attached \cup (({h} \cap (boundAtStart \ refused)) \ no)
              /\ refused' = refused \cup no
        BY <1>10, <2>4, <3>0 DEF CloseSlot, close_controller, Reattach
    <3>1. /\ claimed' = claimed \ {h} /\ opened' = opened \ {h}
          /\ slots'[mp] = Closed /\ slots'[1 - mp] = slots[1 - mp]
        BY <1>0, <1>10, <2>4 DEF CloseSlot, close_controller
    <3>2. h \in Held /\ h # slots[1 - mp].handle
        BY <1>0, <1>1, <2>4 DEF UsbInv, Accounts
    <3>3. Held' = Held \ {h}
        BY <1>0, <1>1, <2>4, <3>1, <3>2 DEF Held, Closed
    <3>4. opened' = Held' /\ claimed' = Held' /\ attached' = (boundAtStart' \ Held') \ refused'
        BY <2>1, <3>1, <3>2, <3>3, <3>9 DEF UsbInv, Accounts
    <3>5. \A p \in Players : slots'[p].was_attached <=> slots'[p].handle \in boundAtStart' \ refused'
        BY <1>0, <2>1, <3>1, <3>2, <3>9, Constants DEF UsbInv, Accounts, Closed
    <3>6. slots'[0].handle = slots'[1].handle => slots'[0].handle = NoDevice
        BY <1>0, <3>1 DEF Closed
    <3>7. /\ mpc' = "close" => \A p \in Players : p < mp' => slots'[p] = Closed
          /\ mpc' = "done" => \A p \in Players : slots'[p] = Closed
        BY <1>0, <2>1, <2>2, <3>1
    <3> QED BY <2>1, <3>4, <3>5, <3>6, <3>7 DEF Accounts
  <2> QED BY <2>3, <2>4
<1>11. CASE PollTop \/ PollNoPad \/ PollTimeout \/ PollKeep \/ PollLock \/ PollCopy
    BY <1>2, <1>11 DEF PollTop, PollNoPad, PollTimeout, PollKeep, PollLock, PollCopy, NextPad, usb
<1>12. CASE PollStart
    BY <1>12 DEF PollStart, usb, UsbInv, Accounts, Held
<1>13. ASSUME NEW r \in Reports, PollReport(r) PROVE Accounts'
    BY <1>2, <1>13 DEF PollReport, NextPad, usb
<1>14. CASE UNCHANGED vars
    BY <1>2, <1>14 DEF vars, usb
<1> QED
    BY <1>4, <1>5, <1>6, <1>7, <1>8, <1>9, <1>10, <1>11, <1>12, <1>13, <1>14
    DEF Next, MainNext, PollNext, Done

\* Every state of every interleaving satisfies the invariant.
THEOREM UsbInvariant == Spec => []UsbInv
<1>1. UsbInv /\ [Next]_vars => UsbInv'
  <2> SUFFICES ASSUME UsbInv, [Next]_vars PROVE UsbInv'
      OBVIOUS
  <2>1. TypeOK'
      BY TypeStep DEF UsbInv
  <2>2. Locks' /\ Lifetime'
      BY LocksStep, LifetimeStep DEF UsbInv
  <2>3. Parities' /\ Heard'
      BY ParitiesStep, HeardStep
  <2>4. Accounts'
      BY AccountsStep
  <2> QED BY <2>1, <2>2, <2>3, <2>4 DEF UsbInv
<1> QED BY <1>1, Initially, PTL DEF Spec

\* A snapshot of usbcontroller_get_state is never torn: both pads of it come
\* from one commit of poll_loop, for state_lock spans both copies.
THEOREM SnapshotsWhole == Spec => []SnapshotWhole
<1>1. UsbInv => SnapshotWhole
    BY DEF UsbInv, Parities, SnapshotWhole
<1> QED BY <1>1, UsbInvariant, PTL

\* Between two turns of poll_loop the cache holds what each pad said last, and
\* a pad that only timed out since still holds its buttons.
THEOREM SilenceKept == Spec => []SilenceKeepsState
<1>1. UsbInv => SilenceKeepsState
    BY DEF UsbInv, Heard, SilenceKeepsState
<1> QED BY <1>1, UsbInvariant, PTL

\* poll_loop is only ever inside a transfer on a handle that is open and whose
\* interface is claimed: usbcontroller_close joins the thread first.
THEOREM HandlesLive == Spec => []NoUseAfterClose
<1>1. UsbInv => NoUseAfterClose
  <2> SUFFICES ASSUME UsbInv, ppc = "inflight" PROVE busy \in opened \cap claimed
      BY DEF NoUseAfterClose
  <2>1. busy = slots[pp].handle /\ busy # NoDevice /\ pp \in Players
      BY DEF UsbInv, Accounts, TypeOK
  <2>2. busy \in Held
      BY <2>1 DEF Held
  <2> QED BY <2>2 DEF UsbInv, Accounts
<1> QED BY <1>1, UsbInvariant, PTL

\* At the end nothing is open or claimed and the kernel has every driver back
\* that it did not refuse itself, whichever open, claim, thread start or attach
\* failed before.
THEOREM AllReturned == Spec => []DevicesReturned
<1>1. UsbInv => DevicesReturned
  <2> SUFFICES ASSUME UsbInv, mpc = "done"
               PROVE  opened = {} /\ claimed = {} /\ attached = boundAtStart \ refused
      BY DEF DevicesReturned
  <2>1. Held = {}
      BY DEF UsbInv, Accounts, Held, Closed
  <2> QED BY <2>1 DEF UsbInv, Accounts
<1> QED BY <1>1, UsbInvariant, PTL
=============================================================================
