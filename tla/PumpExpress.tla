----------------------------- MODULE PumpExpress -----------------------------
(***************************************************************************)
(* The MT6370 Pump Express Plus helper, ports/power/mt6370-pe-rmx3171.c.   *)
(*                                                                         *)
(* Three threads of control touch struct mt6370_pe: the delayed work item  *)
(* pe_negotiate_work, the power-supply notifier pe_psy_notify, and the     *)
(* platform driver's probe and remove.  The mutex p->lock is held only by  *)
(* the work item across a sleep (from "high" to "check"), so it is the     *)
(* predicate LockHeld and not a variable; the notifier takes and drops it  *)
(* within one step.                                                        *)
(*                                                                         *)
(* External, modelled from its use: the workqueue (pending bit, timer,     *)
(* cancellation), the charger's power supply with its coalesced            *)
(* change notifications, and the adapter at the other end of the cable.    *)
(***************************************************************************)
EXTENDS Naturals

CONSTANTS
  PulseCount,    \* PE_PULSE_COUNT
  RetryMax,      \* PE_RETRY_MAX
  Worlds         \* which charger calls may fail, and whether the cable may be
                 \* replugged before the unplug is noticed

Calls == {"online", "set", "vbus"}

ASSUME PulseCountAssumption == PulseCount \in Nat \ {0}
ASSUME RetryMaxAssumption   == RetryMax \in Nat \ {0}
ASSUME WorldAssumption      == Worlds \subseteq [failing : SUBSET Calls, fast : BOOLEAN]

VARIABLES
  state, retry_count, ac_present,  \* struct mt6370_pe
  work,       \* the delayed work item: not pending, timer armed, or queued
  wpc, pulse, \* where pe_negotiate_work is, and pulses already sent
  npc, ac_now,\* where pe_psy_notify is, and its local
  driver,     \* how far probe and remove have got
  latePlug,   \* history: a plug was accepted after remove cancelled the work
  online, changed, vset,  \* charger: ONLINE, change flag, programmed voltage
  adapter, high, watching,\* adapter: kind, is it at 9 V, did it see pulse one
  world         \* the member of Worlds this behaviour lives in

peVars      == <<state, retry_count, ac_present>>
workVars    == <<work, wpc, pulse>>
notifyVars  == <<npc, ac_now>>
driverVars  == <<driver, latePlug>>
adapterVars == <<adapter, high, watching>>
vars == <<peVars, workVars, notifyVars, driverVars, online, changed, vset, adapterVars, world>>

pe_state == {"IDLE", "DETECTING", "NEGOTIATING", "RUNNING", "FAILED"}

TypeOK ==
  /\ state \in pe_state
  /\ retry_count \in 0 .. RetryMax
  /\ ac_present \in BOOLEAN
  /\ work \in {"none", "timer", "queued"}
  /\ wpc \in {"idle", "lock", "high", "low", "check"}
  /\ pulse \in 0 .. PulseCount
  /\ npc \in {"idle", "lock"}
  /\ ac_now \in BOOLEAN
  /\ driver \in {"unbound", "bound", "cancelling", "cancelled", "removed"}
  /\ latePlug \in BOOLEAN
  /\ online \in BOOLEAN
  /\ changed \in BOOLEAN
  /\ vset \in {"5V", "7V"}
  /\ adapter \in {"none", "standard", "pe"}
  /\ high \in BOOLEAN
  /\ watching \in BOOLEAN
  /\ world \in Worlds

\* devm_kzalloc clears the structure; the cable may already be attached.
Init ==
  /\ state = "IDLE" /\ retry_count = 0 /\ ac_present = FALSE
  /\ work = "none" /\ wpc = "idle" /\ pulse = 0
  /\ npc = "idle" /\ ac_now = FALSE
  /\ driver = "unbound" /\ latePlug = FALSE
  /\ changed = FALSE /\ vset = "5V"
  /\ \/ online = FALSE /\ adapter = "none"
     \/ online = TRUE  /\ adapter \in {"standard", "pe"}
  /\ high = FALSE /\ watching = FALSE
  /\ world \in Worlds

LockHeld == wpc \in {"high", "low", "check"}
Alive    == driver # "removed"
MayFail(call) == call \in world.failing

-----------------------------------------------------------------------------
(* The workqueue.  queue_delayed_work does nothing when the item is already *)
(* pending, and cancel_delayed_work_sync owns the pending bit while it      *)
(* waits for the running instance.                                          *)

\* Plausible bug: the item is never queued.
ScheduledNever == work

Scheduled == IF work = "none" /\ driver # "cancelling" THEN "timer" ELSE work

TimerFires ==
  /\ Alive /\ work = "timer"
  /\ work' = "queued"
  /\ UNCHANGED <<peVars, wpc, pulse, notifyVars, driverVars, online, changed, vset, adapterVars>>

WorkStarts ==
  /\ Alive /\ work = "queued" /\ wpc = "idle"
  /\ work' = "none" /\ wpc' = "lock"
  /\ UNCHANGED <<peVars, pulse, notifyVars, driverVars, online, changed, vset, adapterVars>>

-----------------------------------------------------------------------------
(* pe_negotiate_work *)

\* The early return of pe_negotiate_work.
NothingToNegotiate == ~ac_present \/ state \in {"RUNNING", "FAILED"}

WorkReturns ==
  /\ Alive /\ wpc = "lock" /\ NothingToNegotiate
  /\ wpc' = "idle"
  /\ UNCHANGED <<peVars, work, pulse, notifyVars, driverVars, online, changed, vset, adapterVars>>

\* A new attempt; the adapter's pattern detector starts over.
WorkNegotiates ==
  /\ Alive /\ wpc = "lock" /\ ~NothingToNegotiate
  /\ state' = "NEGOTIATING"
  /\ wpc' = "high" /\ pulse' = 0
  /\ watching' = online
  /\ UNCHANGED <<retry_count, ac_present, work, notifyVars, driverVars, online, changed, vset, adapter, high>>

RetryForgetsWork ==
  /\ retry_count' = retry_count + 1
  /\ state' = IF retry_count + 1 >= RetryMax THEN "FAILED" ELSE "DETECTING"
  /\ work' = work
  /\ wpc' = "idle"

\* The retry label of pe_negotiate_work, with the unlock at its end.
Retry ==
  /\ retry_count' = retry_count + 1
  /\ \/ /\ retry_count + 1 >= RetryMax
        /\ state' = "FAILED"
        /\ work' = work
     \/ /\ retry_count + 1 < RetryMax
        /\ state' = "DETECTING"
        /\ work' = Scheduled
  /\ wpc' = "idle"

\* pe_set_charger_voltage fails: the charger keeps its last setting.
PulseFails ==
  /\ Alive /\ wpc \in {"high", "low"} /\ MayFail("set")
  /\ Retry
  /\ UNCHANGED <<ac_present, pulse, notifyVars, driverVars, online, changed, vset, adapterVars>>

PulseHigh ==
  /\ Alive /\ wpc = "high"
  /\ vset' = "7V"
  /\ wpc' = "low"
  /\ UNCHANGED <<peVars, work, pulse, notifyVars, driverVars, online, changed, adapterVars>>

\* The last pulse moves on to the check, and a PE+ adapter that saw them all
\* switches its output.
LastPulse == pulse + 1 = PulseCount

PulseLow ==
  /\ Alive /\ wpc = "low"
  /\ vset' = "5V"
  /\ pulse' = pulse + 1
  /\ wpc' = IF LastPulse THEN "check" ELSE "high"
  /\ high' = (high \/ (LastPulse /\ watching /\ adapter = "pe"))
  /\ UNCHANGED <<peVars, work, notifyVars, driverVars, online, changed, adapter, watching>>

\* pe_check_adapter_response: VBUS reads 9 V within half a volt.
CheckAccepts ==
  /\ Alive /\ wpc = "check" /\ high
  /\ state' = "RUNNING"
  /\ wpc' = "idle"
  /\ UNCHANGED <<retry_count, ac_present, work, pulse, notifyVars, driverVars, online, changed, vset, adapterVars>>

CheckRejects ==
  /\ Alive /\ wpc = "check" /\ (~high \/ MayFail("vbus"))
  /\ Retry
  /\ UNCHANGED <<ac_present, pulse, notifyVars, driverVars, online, changed, vset, adapterVars>>

-----------------------------------------------------------------------------
(* pe_psy_notify.  power_supply_changed coalesces: the flag is cleared when *)
(* the callback runs, and one callback runs at a time.                      *)

Registered == driver \in {"bound", "cancelling", "cancelled"}

\* ONLINE is read before the mutex is taken.
NotifyReads ==
  /\ Registered /\ changed /\ npc = "idle"
  /\ changed' = FALSE
  /\ ac_now' = online
  /\ npc' = "lock"
  /\ UNCHANGED <<peVars, workVars, driverVars, online, vset, adapterVars>>

NotifyReadFails ==
  /\ Registered /\ changed /\ npc = "idle" /\ MayFail("online")
  /\ changed' = FALSE
  /\ UNCHANGED <<peVars, workVars, notifyVars, driverVars, online, vset, adapterVars>>

NotifyDropped ==
  /\ ~Registered /\ Alive /\ changed
  /\ changed' = FALSE
  /\ UNCHANGED <<peVars, workVars, notifyVars, driverVars, online, vset, adapterVars>>

\* Plausible bug: no work is scheduled.
AcceptPlugWithoutWork ==
  /\ ac_now /\ ~ac_present
  /\ ac_present' = TRUE /\ state' = "DETECTING" /\ retry_count' = 0
  /\ latePlug' = (latePlug \/ driver = "cancelled")
  /\ UNCHANGED work

AcceptPlug ==
  /\ ac_now /\ ~ac_present
  /\ ac_present' = TRUE /\ state' = "DETECTING" /\ retry_count' = 0
  /\ work' = Scheduled
  /\ latePlug' = (latePlug \/ driver = "cancelled")

\* cancel_delayed_work: a pending item is dropped, a running one is not.
AcceptUnplug ==
  /\ ~ac_now /\ ac_present
  /\ ac_present' = FALSE /\ state' = "IDLE"
  /\ work' = "none"
  /\ UNCHANGED <<retry_count, latePlug>>

\* ONLINE says what the driver already believes.
AcceptNothing ==
  /\ ac_now = ac_present
  /\ UNCHANGED <<peVars, work, latePlug>>

\* Plausible bug: mutex_trylock that gives up.
NotifyTriesLock ==
  /\ npc = "lock"
  /\ npc' = "idle"
  /\ IF LockHeld THEN UNCHANGED <<peVars, work, latePlug>>
                 ELSE AcceptPlug \/ AcceptUnplug \/ AcceptNothing
  /\ UNCHANGED <<wpc, pulse, ac_now, driver, online, changed, vset, adapterVars>>

NotifyApplies ==
  /\ npc = "lock" /\ ~LockHeld
  /\ npc' = "idle"
  /\ AcceptPlug \/ AcceptUnplug \/ AcceptNothing
  /\ UNCHANGED <<wpc, pulse, ac_now, driver, online, changed, vset, adapterVars>>

-----------------------------------------------------------------------------
(* mt6370_pe_probe and mt6370_pe_remove.  A deferred or failed probe leaves *)
(* nothing behind.                                                          *)

Probe ==
  /\ driver = "unbound"
  /\ driver' = "bound"
  /\ UNCHANGED <<peVars, workVars, notifyVars, latePlug, online, changed, vset, adapterVars>>

\* cancel_delayed_work_sync drops a pending item ...
RemoveBegins ==
  /\ driver = "bound"
  /\ driver' = "cancelling"
  /\ work' = "none"
  /\ UNCHANGED <<peVars, wpc, pulse, notifyVars, latePlug, online, changed, vset, adapterVars>>

\* ... and waits for a running one.
RemoveCancelled ==
  /\ driver = "cancelling" /\ wpc = "idle"
  /\ driver' = "cancelled"
  /\ UNCHANGED <<peVars, workVars, notifyVars, latePlug, online, changed, vset, adapterVars>>

\* Unregistering waits for a callback in progress; then the structure is freed.
RemoveUnregisters ==
  /\ driver = "cancelled" /\ npc = "idle"
  /\ driver' = "removed"
  /\ UNCHANGED <<peVars, workVars, notifyVars, latePlug, online, changed, vset, adapterVars>>

-----------------------------------------------------------------------------
(* The cable, the adapter and the charger's notifications. *)

\* In a fast world the cable may return before the notifier saw it leave.
UnplugNoticed == ~changed /\ npc = "idle" /\ ~ac_present

Plug ==
  /\ Alive /\ ~online
  /\ world.fast \/ UnplugNoticed
  /\ online' = TRUE /\ changed' = TRUE
  /\ adapter' \in {"standard", "pe"}
  /\ high' = FALSE /\ watching' = FALSE
  /\ UNCHANGED <<peVars, workVars, notifyVars, driverVars, vset>>

Unplug ==
  /\ Alive /\ online
  /\ online' = FALSE /\ changed' = TRUE
  /\ adapter' = "none"
  /\ high' = FALSE /\ watching' = FALSE
  /\ UNCHANGED <<peVars, workVars, notifyVars, driverVars, vset>>

\* Some other property of the charger changed.
PropertyChanged ==
  /\ Alive /\ ~changed
  /\ changed' = TRUE
  /\ UNCHANGED <<peVars, workVars, notifyVars, driverVars, online, vset, adapterVars>>

-----------------------------------------------------------------------------
Work   == /\ \/ TimerFires \/ WorkStarts \/ WorkReturns \/ WorkNegotiates
             \/ PulseFails \/ PulseHigh \/ PulseLow \/ CheckAccepts \/ CheckRejects
          /\ UNCHANGED world
Notify == (NotifyReads \/ NotifyReadFails \/ NotifyDropped \/ NotifyApplies) /\ UNCHANGED world
Driver == (Probe \/ RemoveBegins \/ RemoveCancelled \/ RemoveUnregisters) /\ UNCHANGED world
Cable  == (Plug \/ Unplug \/ PropertyChanged) /\ UNCHANGED world

Next == Work \/ Notify \/ Driver \/ Cable

\* The timer, the worker thread and the notifier's work item are scheduled by
\* the kernel; nobody owes us a cable or a driver removal.
Fairness == WF_vars(Work) /\ WF_vars(Notify)

Spec == Init /\ [][Next]_vars /\ Fairness

-----------------------------------------------------------------------------
(* Safety *)

\* The state field agrees with the adapter flag, the retry counter and the
\* worker: IDLE exactly without an adapter, NEGOTIATING only inside the
\* work item's critical section, FAILED exactly when the tries are used up.
StateAgrees ==
  /\ state = "IDLE" <=> ~ac_present
  /\ state = "NEGOTIATING" <=> LockHeld
  /\ ac_present => (state = "FAILED" <=> retry_count = RetryMax)

\* While the driver is bound, DETECTING is never a dead end: an attempt is
\* pending, or a started one is waiting for the mutex.  Neither an unplug that
\* cancels work nor a schedule on a still-pending item may strand it.
NoStrandedNegotiation ==
  driver = "bound" /\ state = "DETECTING" => work # "none" \/ wpc = "lock"

\* The charger's change flag has been consumed and no callback is in flight.
Settled == driver = "bound" /\ ~changed /\ npc = "idle"

\* No call fails, and the notifier sees every unplug before the next plug.
Ideal == world.failing = {} /\ ~world.fast

\* What the state field claims is what the adapter does: RUNNING means it is at
\* 9 V ("adapter switched to 9V"), FAILED that the charger is back at 5 V and
\* the adapter with it ("standard 5V/2A").  In an ideal world only: a replug
\* seen as no change leaves RUNNING to an adapter at 5 V, and a failed write in
\* the last try leaves FAILED with the charger at 7 V.
VerdictIsTrue ==
  Ideal /\ Settled =>
    /\ online /\ state = "RUNNING" => high
    /\ state = "FAILED" => vset = "5V" /\ ~high

\* An unplug is never lost: once notifications settle, a driver that still
\* believes in an adapter has one (when reading ONLINE cannot fail).
NoLostUnplug == Settled /\ ac_present /\ ~MayFail("online") => online

\* Once notifications settle, what the driver believes is so: of the adapter, and
\* of what was negotiated with it.
SettledIsTrue == NoLostUnplug /\ VerdictIsTrue

\* Once notifications settle the driver knows whether an adapter is attached
\* (Kconfig:76 promises 9V/2A "instead of default 5V/2A").
SettledAgrees == Settled => ac_present = online

\* Work that outlives remove comes from a plug accepted in the window between
\* cancel_delayed_work_sync and power_supply_unreg_notifier, and no other way.
LeftoverOnlyFromLatePlug ==
  driver = "removed" /\ (work # "none" \/ wpc # "idle") => latePlug

(* Actions *)

\* The charger is reprogrammed only on behalf of an adapter the driver has
\* accepted and not given up on, whatever notifications arrive meanwhile.
PulsesOnlyWhileNegotiating ==
  [][vset' # vset => ac_present /\ state = "NEGOTIATING" /\ UNCHANGED peVars]_vars

(* Liveness *)

\* In an ideal world a PE+ adapter the driver has accepted is switched to 9 V,
\* unless it is unplugged or the driver removed first.
PeAdapterIsBoosted ==
  (Ideal /\ driver = "bound" /\ ac_present /\ adapter = "pe")
     ~> (high \/ ~online \/ driver # "bound")

-----------------------------------------------------------------------------
(* What the helper promises its user, and how it keeps the promise. *)

phaseBar ==
  CASE driver \in {"unbound", "removed", "cancelling", "cancelled"} -> "absent"
    [] driver = "bound" /\ state = "IDLE" -> "off"
    [] driver = "bound" /\ state \in {"DETECTING", "NEGOTIATING"} -> "trying"
    [] driver = "bound" /\ state = "RUNNING" -> "boosted"
    [] driver = "bound" /\ state = "FAILED" -> "standard"

triesBar == IF phaseBar = "trying" THEN retry_count ELSE 0

Session == INSTANCE ChargeSession WITH phase <- phaseBar, tries <- triesBar, MaxTries <- RetryMax
SessionSpec == Session!Spec
=============================================================================
