--------------------------------- MODULE Panel ---------------------------------
(***************************************************************************)
(* The display panel driver, ports/panel/panel-ilt9881h-rmx3171.c: two bias *)
(* rails, a reset line and an initialisation sequence sent over DSI, each  *)
(* of which may fail half way.                                             *)
(*                                                                         *)
(* prepare and unprepare run one at a time, under the locks of the mode    *)
(* set; so does remove, which waits for them.  External: the regulator     *)
(* core, which counts the enables of a rail and leaves the count alone     *)
(* when a disable fails; the GPIO core, which turns the driver's value     *)
(* into a level as the device tree says; and the DSI host.                 *)
(***************************************************************************)
EXTENDS Naturals

CONSTANTS
  Rows,       \* rows of the initialisation sequence
  Delays,     \* those of them that are delays, and cannot fail
  ActiveLow,  \* the flag of reset-gpios in the device tree
  MaxLost     \* bound: enables whose disable was lost, per rail

ASSUME RowsAssumption      == Rows \in Nat \ {0}
ASSUME DelaysAssumption    == Delays \subseteq 1 .. Rows
ASSUME ActiveLowAssumption == ActiveLow \in BOOLEAN
ASSUME MaxLostAssumption   == MaxLost \in Nat

VARIABLES
  bound, prepared,     \* the driver's instance and its flag
  pc,                  \* where prepare or unprepare is
  vsp, vsn,            \* the rails' use counts
  reset,               \* the value last given to the reset line
  row,                 \* rows of the sequence sent since the last reset pulse
  lostVsp, lostVsn     \* history: enables that nobody will undo

rails == <<vsp, vsn>>
lost  == <<lostVsp, lostVsn>>
vars  == <<bound, prepared, pc, rails, reset, row, lost>>

Preparing   == {"vsp", "vsn", "high", "low", "high again", "init"}
Unwinding   == {"error reset", "error vsn", "error vsp"}
Unpreparing == {"unprepare vsn", "unprepare vsp"}

TypeOK ==
  /\ bound \in BOOLEAN /\ prepared \in BOOLEAN
  /\ pc \in {"idle"} \union Preparing \union Unwinding \union Unpreparing
  /\ vsp \in Nat /\ vsn \in Nat
  /\ reset \in {0, 1}
  /\ row \in 0 .. Rows
  /\ lostVsp \in 0 .. MaxLost /\ lostVsn \in 0 .. MaxLost

Init ==
  /\ bound = FALSE /\ prepared = FALSE /\ pc = "idle"
  /\ vsp = 0 /\ vsn = 0 /\ reset = 0 /\ row = 0
  /\ lostVsp = 0 /\ lostVsn = 0

Goto(here, there) == pc = here /\ pc' = there

-----------------------------------------------------------------------------
(* Binding and unbinding.  A probe that fails may have taken the line down. *)

Probe ==
  /\ ~bound
  /\ reset' = 0 /\ prepared' = FALSE
  /\ bound' \in BOOLEAN
  /\ UNCHANGED <<pc, rails, row, lost>>

\* Nothing is unprepared: what the instance had enabled stays enabled.
Remove ==
  /\ bound /\ pc = "idle"
  /\ bound' = FALSE
  /\ prepared => lostVsp < MaxLost /\ lostVsn < MaxLost
  /\ lostVsp' = IF prepared THEN lostVsp + 1 ELSE lostVsp
  /\ lostVsn' = IF prepared THEN lostVsn + 1 ELSE lostVsn
  /\ UNCHANGED <<prepared, pc, rails, reset, row>>

-----------------------------------------------------------------------------
(* ilt9881h_prepare *)

Prepare ==
  /\ bound /\ ~prepared
  /\ Goto("idle", "vsp")
  /\ UNCHANGED <<bound, prepared, rails, reset, row, lost>>

EnableVsp ==
  /\ \/ Goto("vsp", "vsn") /\ vsp' = vsp + 1
     \/ Goto("vsp", "idle") /\ vsp' = vsp
  /\ UNCHANGED <<bound, prepared, vsn, reset, row, lost>>

\* Plausible bug: a failure returns as the first one does.
EnableVsnReturns ==
  /\ \/ Goto("vsn", "high") /\ vsn' = vsn + 1
     \/ Goto("vsn", "idle") /\ vsn' = vsn
  /\ UNCHANGED <<bound, prepared, vsp, reset, row, lost>>

EnableVsn ==
  /\ \/ Goto("vsn", "high") /\ vsn' = vsn + 1
     \/ Goto("vsn", "error vsp") /\ vsn' = vsn
  /\ UNCHANGED <<bound, prepared, vsp, reset, row, lost>>

ResetPulse ==
  /\ \/ Goto("high", "low") /\ reset' = 1
     \/ Goto("low", "high again") /\ reset' = 0
     \/ Goto("high again", "init") /\ reset' = 1
  /\ row' = 0
  /\ UNCHANGED <<bound, prepared, rails, lost>>

\* ilt9881h_send_init: one row.
SendRow ==
  /\ pc = "init" /\ row < Rows
  /\ row' = row + 1
  /\ UNCHANGED <<bound, prepared, pc, rails, reset, lost>>

RowFails ==
  /\ row < Rows /\ row + 1 \notin Delays
  /\ Goto("init", "error reset")
  /\ UNCHANGED <<bound, prepared, rails, reset, row, lost>>

IsPrepared ==
  /\ row = Rows
  /\ Goto("init", "idle")
  /\ prepared' = TRUE
  /\ UNCHANGED <<bound, rails, reset, row, lost>>

-----------------------------------------------------------------------------
(* ilt9881h_unprepare, and the way out of a failed prepare *)

\* Display off and sleep in, whose errors are ignored, and reset.
Unprepare ==
  /\ bound /\ prepared
  /\ Goto("idle", "unprepare vsn")
  /\ reset' = 0
  /\ UNCHANGED <<bound, prepared, rails, row, lost>>

ErrorReset ==
  /\ Goto("error reset", "error vsn")
  /\ reset' = 0
  /\ UNCHANGED <<bound, prepared, rails, row, lost>>

\* A failed disable is not noticed, and leaves the count as it was.
DisableVsn ==
  /\ Goto("unprepare vsn", "unprepare vsp") \/ Goto("error vsn", "error vsp")
  /\ \/ vsn' = vsn - 1 /\ lostVsn' = lostVsn
     \/ vsn' = vsn /\ lostVsn < MaxLost /\ lostVsn' = lostVsn + 1
  /\ UNCHANGED <<bound, prepared, vsp, reset, row, lostVsp>>

DisableVsp ==
  /\ \/ Goto("unprepare vsp", "idle") /\ prepared' = FALSE
     \/ Goto("error vsp", "idle") /\ prepared' = prepared
  /\ \/ vsp' = vsp - 1 /\ lostVsp' = lostVsp
     \/ vsp' = vsp /\ lostVsp < MaxLost /\ lostVsp' = lostVsp + 1
  /\ UNCHANGED <<bound, vsn, reset, row, lostVsn>>

Next ==
  \/ Probe \/ Remove
  \/ Prepare \/ EnableVsp \/ EnableVsn \/ ResetPulse \/ SendRow \/ RowFails \/ IsPrepared
  \/ Unprepare \/ ErrorReset \/ DisableVsn \/ DisableVsp

Spec == Init /\ [][Next]_vars

-----------------------------------------------------------------------------
Held == IF bound /\ prepared THEN 1 ELSE 0

\* Between calls a rail is enabled once if the panel is prepared and not at all
\* if it is not, wherever the last prepare failed; the exceptions are the
\* disables that failed and the removal of a prepared panel, each counted as
\* one enable too many that stays for good.
RailsBalanced ==
  pc = "idle" => vsp = Held + lostVsp /\ vsn = Held + lostVsn

\* In no order of steps, failures and rebinding is the driver's enable of VSN
\* in force without its enable of VSP, nor the reset line raised with a rail off.
PowerOrder ==
  /\ vsn > lostVsn => vsp > lostVsp
  /\ reset = 1 => vsp > 0 /\ vsn > 0

\* A panel that counts as prepared was sent every row since its reset pulse.
InitComplete == bound /\ prepared => row = Rows

\* What the device tree makes of the value.
Pin == IF ActiveLow THEN 1 - reset ELSE reset

\* "Reset pulse: HIGH 5ms -> LOW 10ms -> HIGH 50ms (per LCM driver)": when the
\* initialisation is sent, and as long as the panel is on, the line is high.
OutOfReset == pc = "init" \/ (bound /\ prepared /\ pc = "idle") => Pin = 1
===============================================================================
