------------------------------ MODULE TouchPanel ------------------------------
(***************************************************************************)
(* The NT36525B touch driver, ports/input/nt36525b-rmx3171.c: probe with   *)
(* its supplies, suspend and resume, remove, and the interrupt thread that *)
(* reads the event buffer and reports the fingers in it.                   *)
(*                                                                         *)
(* External: the chip (what it puts in the buffer and when it raises its   *)
(* line), the interrupt core, devres, and the slots of the input core,     *)
(* which keep the last slot when they are asked for one they do not have   *)
(* and, with INPUT_MT_DROP_UNUSED, release a slot no frame has mentioned.  *)
(***************************************************************************)
EXTENDS Naturals, FiniteSetsExt

CONSTANTS
  Slots,   \* NVT_MAX_FINGERS
  Worlds   \* the supplies the board has, whether reads and enables may fail,
           \* and whether the chip may use ids beyond the last slot

VARIABLES
  driver, suspended,
  on,          \* the supplies that are enabled
  edge, pc,    \* a pending edge, and where the interrupt thread is
  event_buf,   \* what it has read of each id, until it has reported it
  active, slot,\* input core: the slots in touch, and the current one
  btn,         \* BTN_TOUCH, as last synced
  down, lifted,\* chip: fingers on the glass, and fingers lifted since the last read
  missed,      \* history: the chip has news that no pending edge announces
  world

input == <<active, slot, btn>>
chip  == <<down, lifted>>
vars  == <<driver, suspended, on, edge, pc, event_buf, input, chip, missed, world>>

Ids    == 0 .. IF world.high THEN Slots ELSE Slots - 1
Empty  == [i \in 0 .. Slots |-> "empty"]

TypeOK ==
  /\ driver \in {"unbound", "vdd", "vio", "setup", "bound", "removing"}
  /\ suspended \in BOOLEAN
  /\ on \in SUBSET world.supplies
  /\ edge \in BOOLEAN /\ pc \in {"idle", "read", "report"}
  /\ event_buf \in [0 .. Slots -> {"empty", "touch", "lift"}]
  /\ active \in SUBSET (0 .. Slots - 1) /\ slot \in 0 .. Slots - 1
  /\ btn \in BOOLEAN
  /\ down \in SUBSET Ids /\ lifted \in SUBSET Ids
  /\ missed \in BOOLEAN
  /\ world \in Worlds

Init ==
  /\ driver = "unbound" /\ suspended = FALSE /\ on = {}
  /\ edge = FALSE /\ pc = "idle" /\ event_buf = Empty
  /\ active = {} /\ slot = 0 /\ btn = FALSE
  /\ down = {} /\ lifted = {} /\ missed = FALSE
  /\ world \in Worlds

Powered      == on = world.supplies
IrqRequested == driver \in {"bound", "removing"}

-----------------------------------------------------------------------------
(* nvt_irq_handler *)

HandlerStarts ==
  /\ edge /\ IrqRequested /\ ~suspended /\ pc = "idle"
  /\ edge' = FALSE /\ pc' = "read"
  /\ UNCHANGED <<driver, suspended, on, event_buf, input, chip, missed, world>>

\* A lifted finger is shown once, or not at all.
HandlerReads ==
  /\ pc = "read" /\ Powered
  /\ \E shown \in SUBSET lifted :
       event_buf' = [i \in 0 .. Slots |-> IF i \in down THEN "touch"
                                          ELSE IF i \in shown THEN "lift" ELSE "empty"]
  /\ lifted' = {}
  /\ missed' = FALSE /\ pc' = "report"
  /\ UNCHANGED <<driver, suspended, on, edge, input, down, world>>

\* The early return: whatever the buffer held is not looked at.
HandlerReadFails ==
  /\ pc = "read" /\ (~Powered \/ world.fails)
  /\ missed' = TRUE /\ pc' = "idle"
  /\ UNCHANGED <<driver, suspended, on, edge, event_buf, input, chip, world>>

\* input_mt_slot: the chip lists its frames by id, so those beyond the last
\* slot come at the end and land in the slot of the frame before them.
Mentioned == {id \in 0 .. Slots : event_buf[id] # "empty"}

LastSlot == LET own == Mentioned \ {Slots} IN IF own = {} THEN slot ELSE Max(own)

Landing(k) == {id \in Mentioned : id = k \/ (id = Slots /\ k = LastSlot)}

\* The last frame that lands in a slot says whether it is in touch.
Touched == {k \in 0 .. Slots - 1 : Landing(k) # {} /\ event_buf[Max(Landing(k))] = "touch"}

Unused  == {k \in active : Landing(k) = {}}

\* Plausible bug: INPUT_MT_DROP_UNUSED is forgotten.
KeepUnused == active' = Touched \union Unused /\ slot' = LastSlot

\* input_mt_sync_frame: the slots no frame landed in are released, one after
\* the other.
SyncFrame == active' = Touched /\ slot' = IF Unused = {} THEN LastSlot ELSE Max(Unused)

AnyTouch == \E id \in Mentioned : event_buf[id] = "touch"

HandlerReports ==
  /\ pc = "report" /\ pc' = "idle" /\ event_buf' = Empty
  /\ SyncFrame
  /\ btn' = AnyTouch
  /\ UNCHANGED <<driver, suspended, on, edge, chip, missed, world>>

-----------------------------------------------------------------------------
(* nvt_probe, nvt_power_on and nvt_power_off *)

\* An optional supply that is not there is skipped.
Enabled(s) == on' = on \union ({s} \intersect world.supplies)

ProbeEnablesVdd ==
  /\ driver = "unbound"
  /\ driver' = "vdd" /\ Enabled("vdd")
  /\ UNCHANGED <<suspended, edge, pc, event_buf, input, chip, missed, world>>

ProbeEnablesVio ==
  /\ driver = "vdd"
  /\ driver' = "vio" /\ Enabled("vio")
  /\ UNCHANGED <<suspended, edge, pc, event_buf, input, chip, missed, world>>

\* err_vdd.
VioFails ==
  /\ driver = "vdd" /\ "vio" \in world.supplies /\ world.fails
  /\ driver' = "unbound" /\ on' = on \ {"vdd"}
  /\ UNCHANGED <<suspended, edge, pc, event_buf, input, chip, missed, world>>

\* The reset, the firmware that is never uploaded, and the input device.
ProbeSetsUpInput ==
  /\ driver = "vio"
  /\ driver' = "setup"
  /\ active' = {} /\ slot' = 0 /\ btn' = FALSE
  /\ UNCHANGED <<suspended, on, edge, pc, event_buf, chip, missed, world>>

\* err_off: the chip loses its fingers with its power.
ProbeFails ==
  /\ driver \in {"vio", "setup"} /\ world.fails
  /\ driver' = "unbound" /\ on' = {}
  /\ down' = {} /\ lifted' = {}
  /\ UNCHANGED <<suspended, edge, pc, event_buf, input, missed, world>>

\* A finger that came before has no edge to announce it.
ProbeRequestsIrq ==
  /\ driver = "setup"
  /\ driver' = "bound"
  /\ missed' = (down # {})
  /\ UNCHANGED <<suspended, on, edge, pc, event_buf, input, chip, world>>

RemovePowersOff ==
  /\ driver = "bound" /\ ~suspended
  /\ driver' = "removing" /\ on' = {}
  /\ down' = {} /\ lifted' = {}
  /\ UNCHANGED <<suspended, edge, pc, event_buf, input, missed, world>>

\* The managed interrupt is freed, which waits for its thread, then the rest.
DevresFrees ==
  /\ driver = "removing" /\ pc = "idle"
  /\ driver' = "unbound"
  /\ edge' = FALSE /\ event_buf' = Empty
  /\ active' = {} /\ slot' = 0 /\ btn' = FALSE
  /\ missed' = FALSE
  /\ UNCHANGED <<suspended, on, pc, chip, world>>

-----------------------------------------------------------------------------
(* nvt_suspend and nvt_resume: the interrupt, and nothing else *)

\* disable_irq waits for the interrupt thread.
Suspend ==
  /\ driver = "bound" /\ ~suspended /\ pc = "idle"
  /\ suspended' = TRUE
  /\ UNCHANGED <<driver, on, edge, pc, event_buf, input, chip, missed, world>>

Resume ==
  /\ suspended
  /\ suspended' = FALSE
  /\ UNCHANGED <<driver, on, edge, pc, event_buf, input, chip, missed, world>>

-----------------------------------------------------------------------------
\* Every change on a powered chip is an edge; before the interrupt is requested
\* nobody sees it.
FingerDown ==
  /\ Powered
  /\ \E i \in Ids \ down : down' = down \union {i} /\ lifted' = lifted \ {i}
  /\ edge' = (edge \/ IrqRequested)
  /\ UNCHANGED <<driver, suspended, on, pc, event_buf, input, missed, world>>

FingerUp ==
  /\ Powered
  /\ \E i \in down : down' = down \ {i} /\ lifted' = lifted \union {i}
  /\ edge' = (edge \/ IrqRequested)
  /\ UNCHANGED <<driver, suspended, on, pc, event_buf, input, missed, world>>

Handler == HandlerStarts \/ HandlerReads \/ HandlerReadFails \/ HandlerReports
Driver  == \/ ProbeEnablesVdd \/ ProbeEnablesVio \/ VioFails \/ ProbeSetsUpInput \/ ProbeFails
           \/ ProbeRequestsIrq \/ RemovePowersOff \/ DevresFrees \/ Suspend \/ Resume

Next == Handler \/ Driver \/ FingerDown \/ FingerUp

\* The interrupt thread is scheduled.
Spec == Init /\ [][Next]_vars /\ WF_vars(Handler)

-----------------------------------------------------------------------------
Settled == driver = "bound" /\ ~edge /\ pc = "idle" /\ ~missed

\* What the input core shows is what is on the glass, once the last edge has
\* been handled by a read that worked: no finger is stuck, none is lost, none
\* is invented, although the chip may leave a lifted finger out of its buffer,
\* earlier reads failed and the fingers moved during them or during suspend.
\* (Of ids within the slots: one beyond them is reported in another's slot.)
TouchesMatch == Settled /\ ~world.high => active = down /\ (btn <=> down # {})

\* Why it holds.  Nothing is read before the interrupt is requested; and what was read
\* is what is on the glass until the next edge.
QuietBefore ==
  /\ ~IrqRequested => pc = "idle" /\ ~edge
  /\ driver = "setup" => active = {} /\ ~btn

ReadIsDown ==
  pc = "report" /\ ~world.high =>
    /\ event_buf[Slots] = "empty"
    /\ driver = "bound" /\ ~edge => \A i \in 0 .. Slots - 1 : event_buf[i] = "touch" <=> i \in down

\* Of the types, those that matter here.
Types ==
  /\ down \in SUBSET Ids /\ lifted \in SUBSET Ids
  /\ pc \in {"idle", "read", "report"}
  /\ event_buf \in [0 .. Slots -> {"empty", "touch", "lift"}]

IInv == Types /\ QuietBefore /\ ReadIsDown /\ TouchesMatch
===============================================================================
