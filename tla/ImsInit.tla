------------------------------- MODULE ImsInit -------------------------------
(***************************************************************************)
(* The ImsInit service of device/realme/RMX3171/ImsInit: on every boot     *)
(* after the first it switches VoLTE off and, a second later, on again.    *)
(*                                                                         *)
(* Everything but the sleeping toggle threads runs on the main thread of   *)
(* one process, so a handler is one step.  External: telephony with its    *)
(* queued callbacks, the VoLTE setting, the activity manager that starts,  *)
(* kills and restarts the process, and the user.                           *)
(***************************************************************************)
EXTENDS Naturals, Sequences

CONSTANTS
  MaxBoots,     \* bound: how often the phone boots
  MaxInbox,     \* bound: service-state callbacks in flight
  MaxLosses,    \* bound: how often one process sees the service lost
  Interrupts,   \* may the process die or the phone reboot during a toggle?
  Busy          \* may the user change the setting during one?

ASSUME BoundAssumption == MaxBoots \in Nat \ {0} /\ MaxInbox \in Nat \ {0} /\ MaxLosses \in Nat
ASSUME WorldAssumption == Interrupts \subseteq BOOLEAN /\ Busy \subseteq BOOLEAN

VARIABLES
  boot,         \* how many times the phone has booted
  bootCompleted,\* was BOOT_COMPLETED delivered in this boot?
  running,      \* has the service run onStartCommand in this process?
  sLastState,   \* the static of that name
  inbox,        \* callbacks posted to the main thread
  threads,      \* toggle threads asleep
  first_time,   \* the shared preference
  volte,        \* the setting, as isEnhanced4gLteModeSettingEnabledByUser reads it
  reg,          \* the data registration state
  wanted,       \* history: what the user last chose
  toggles,      \* history: toggles in this process
  losses,       \* history: how often service was lost during this process
  spared,       \* history: no toggle has happened in this boot
  skipped,      \* history: this boot was taken for the first
  world         \* the one of Worlds this behaviour lives in

phone   == <<boot, bootCompleted, reg, world>>
history == <<toggles, losses, spared, skipped>>
vars == <<phone, running, sLastState, inbox, threads, first_time, volte, wanted, history>>

State == {"IN_SERVICE", "OUT"}
Worlds == [interrupts : Interrupts, busy : Busy]

TypeOK ==
  /\ boot \in 1 .. MaxBoots
  /\ bootCompleted \in BOOLEAN /\ running \in BOOLEAN
  /\ sLastState \in State \union {"null"}
  /\ inbox \in Seq(State) /\ Len(inbox) <= MaxInbox
  /\ threads \in 0 .. 2
  /\ first_time \in BOOLEAN /\ volte \in BOOLEAN /\ wanted \in BOOLEAN
  /\ reg \in State
  /\ losses \in 0 .. MaxLosses /\ toggles \in 0 .. MaxLosses + 2
  /\ spared \in BOOLEAN /\ skipped \in BOOLEAN
  /\ world \in Worlds

Init ==
  /\ boot = 1 /\ bootCompleted = FALSE /\ running = FALSE
  /\ sLastState = "null" /\ inbox = <<>> /\ threads = 0
  /\ first_time = TRUE
  /\ volte \in BOOLEAN /\ wanted = volte
  /\ reg = "OUT"
  /\ toggles = 0 /\ losses = 0 /\ spared = TRUE /\ skipped = FALSE
  /\ world \in Worlds

-----------------------------------------------------------------------------
(* handleServiceStateChanged *)

ComesIntoService(s) == sLastState # "IN_SERVICE" /\ s = "IN_SERVICE"

\* The first boot returns before it records the state.
SkipFirstBoot(s) ==
  /\ ComesIntoService(s) /\ first_time
  /\ first_time' = FALSE
  /\ skipped' = TRUE
  /\ UNCHANGED <<sLastState, threads, volte, toggles, losses, spared>>

\* Plausible bug: the state is not recorded.
ToggleForgetsState(s) ==
  /\ ComesIntoService(s) /\ ~first_time /\ volte
  /\ volte' = FALSE
  /\ threads' = threads + 1
  /\ toggles' = toggles + 1 /\ spared' = FALSE
  /\ UNCHANGED <<sLastState, first_time, losses, skipped>>

\* VoLTE off, and a thread to switch it on again.
Toggle(s) ==
  /\ ComesIntoService(s) /\ ~first_time /\ volte
  /\ volte' = FALSE
  /\ threads' = threads + 1
  /\ sLastState' = s
  /\ toggles' = toggles + 1 /\ spared' = FALSE
  /\ UNCHANGED <<first_time, losses, skipped>>

JustRecord(s) ==
  /\ ~ComesIntoService(s) \/ (~first_time /\ ~volte)
  /\ sLastState' = s
  /\ UNCHANGED <<threads, first_time, volte, history>>

handleServiceStateChanged(s) == SkipFirstBoot(s) \/ Toggle(s) \/ JustRecord(s)

ThreadSwitchesOff ==
  /\ threads > 0
  /\ threads' = threads - 1
  /\ volte' = FALSE
  /\ UNCHANGED <<phone, running, sLastState, inbox, first_time, wanted, history>>

ThreadSwitchesOn ==
  /\ threads > 0
  /\ threads' = threads - 1
  /\ volte' = TRUE
  /\ UNCHANGED <<phone, running, sLastState, inbox, first_time, wanted, history>>

-----------------------------------------------------------------------------
(* BootCompletedReceiver and onStartCommand: the current state is handled,  *)
(* and listen delivers it a second time.                                    *)

onStartCommand ==
  /\ handleServiceStateChanged(reg)
  /\ running' = TRUE
  /\ inbox' = <<reg>>

BootCompleted ==
  /\ ~bootCompleted
  /\ bootCompleted' = TRUE
  /\ onStartCommand
  /\ UNCHANGED <<boot, reg, world, wanted>>

\* START_STICKY: a killed service is started again.
StickyRestart ==
  /\ bootCompleted /\ ~running
  /\ onStartCommand
  /\ UNCHANGED <<phone, wanted>>

onServiceStateChanged ==
  /\ inbox # <<>>
  /\ handleServiceStateChanged(Head(inbox))
  /\ inbox' = Tail(inbox)
  /\ UNCHANGED <<phone, running, wanted>>

-----------------------------------------------------------------------------
(* The world. *)

Uninterruptible == ~world.interrupts /\ threads > 0

\* The process, its threads, its static and its callbacks are gone.
ProcessGone ==
  /\ running' = FALSE /\ sLastState' = "null" /\ inbox' = <<>> /\ threads' = 0
  /\ toggles' = 0 /\ losses' = 0

ProcessDies ==
  /\ running /\ ~Uninterruptible
  /\ ProcessGone
  /\ UNCHANGED <<phone, first_time, volte, wanted, spared, skipped>>

Reboot ==
  /\ boot < MaxBoots /\ ~Uninterruptible
  /\ boot' = boot + 1 /\ bootCompleted' = FALSE /\ reg' = "OUT"
  /\ ProcessGone
  /\ spared' = TRUE /\ skipped' = FALSE
  /\ UNCHANGED <<first_time, volte, wanted, world>>

RegistrationChanges ==
  /\ Len(inbox) < MaxInbox
  /\ reg' \in State \ {reg}
  /\ inbox' = IF running THEN Append(inbox, reg') ELSE inbox
  /\ losses' = IF reg = "IN_SERVICE" THEN losses + 1 ELSE losses
  /\ losses' <= MaxLosses
  /\ UNCHANGED <<boot, bootCompleted, running, sLastState, threads, first_time, volte, wanted, toggles, spared, skipped, world>>

UserSets ==
  /\ threads = 0 \/ (world.busy /\ threads < 2)
  /\ volte' \in BOOLEAN /\ wanted' = volte'
  /\ <<volte, wanted>>' # <<volte, wanted>>
  /\ UNCHANGED <<phone, running, sLastState, inbox, threads, first_time, history>>

Service == BootCompleted \/ StickyRestart \/ onServiceStateChanged \/ ThreadSwitchesOn

Next == Service \/ ProcessDies \/ Reboot \/ RegistrationChanges \/ UserSets

\* The main thread and the sleeping threads make progress; the activity
\* manager delivers the broadcast and the restart it owes.
Spec ==
  /\ Init /\ [][Next]_vars
  /\ WF_vars(BootCompleted) /\ WF_vars(StickyRestart)
  /\ WF_vars(onServiceStateChanged) /\ WF_vars(ThreadSwitchesOn)

-----------------------------------------------------------------------------
Calm == ~world.interrupts /\ ~world.busy

\* "toggle IMS off and back on again" (BootCompletedReceiver.java:18): once no
\* thread is asleep, the setting is what the user chose.
OffAndBackOn == threads = 0 => volte = wanted

\* In a calm world that promise is kept, whatever the registration does
\* meanwhile and however many callbacks are queued.
ChoiceRestored == Calm => OffAndBackOn

\* One loss of service, one toggle: however the registration flaps, and though
\* a steady state is handled twice (by onStartCommand and by the new listener),
\* a process toggles at most once more often than it lost service.
OneTogglePerService == toggles <= losses + 1

\* Every boot after the one taken for the first that comes into service with
\* VoLTE on toggles it, whether the registration came before or after the
\* service was started and however many callbacks are still queued.
LaterBootsToggle ==
  \A b \in 2 .. MaxBoots :
    (boot = b /\ reg = "IN_SERVICE" /\ sLastState # "IN_SERVICE" /\ volte /\ ~first_time /\ ~skipped)
      ~> (~spared \/ boot # b \/ reg = "OUT" \/ ~volte)

\* A toggle always ends: in a calm world the setting does not stay off against
\* the user's will.
OffIsTemporary == Calm /\ wanted /\ ~volte ~> (volte \/ ~wanted)

\* What BootCompletedReceiver promises of every boot but the first: off, and back on.
TogglesAreDone == LaterBootsToggle /\ OffIsTemporary
==============================================================================
