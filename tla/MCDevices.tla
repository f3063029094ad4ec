------------------------------- MODULE MCDevices -------------------------------
(* The devices the user looks at and touches: the display (Panel), the touch     *)
(* screen (TouchPanel), the fingerprint sensor's driver (GoodixFp) and the one it  *)
(* was written after (GfSpi), the adapter in front of the vendor's fingerprint     *)
(* service (FingerprintHal), and how the vendor's FM driver comes and goes         *)
(* (FmSetup).  The drivers know nothing of each other, and the service is not in   *)
(* the repository: a behaviour follows one of them, its subject, and the others    *)
(* stay in an initial state.                                                     *)
(*                                                                              *)
(* The panel has a sequence of three rows, the second of them a delay; the touch  *)
(* screen runs on every board and in every world.  The FM driver has every library, *)
(* and one that is not the chip's.                                                  *)
EXTENDS Panel, Sequences, FiniteSets

CONSTANTS Slots, MaxPid, Clients, None, Fingers, MaxTries, MaxInbox,
          MaxUsers, MaxDepth, MaxFailed, MaxBinds

VARIABLES subject,
  driver, suspended, on, edge, thread_pc, event_buf, active, slot, btn, down, lifted, missed, world,
  fp_driver, g_priv, nl_sk, nl_pid, irq_enabled, depth, reset_line, fp_pc, op, fp_edge, handler,
  hal, file, said, undone, born,
  build, cs_disable, aspect, gf_bound, device_list_lock, users, gpios, numbers, irq, gf_irq_enabled,
  gf_depth, gf_pc, device_available, vreg, ldo, left, overlapped, cs_gpio_set, fb_black, lasttouchmode,
  finger, pid, told, extra, cleaned, overfreed,
  adapter, tries, mOppoBiometricsFingerprint, adapter_pc, asker, mOppoClientCallback,
  receivedCancel, receivedEnumerate, knownFingers, nFingers, todo, inbox,
  vendor, templates, synced, heard,
  fm_build, phase, fm_todo, live, held, ref, failed, probed, published, listening, rst_queued, binds,
  broken

\* There is a slot; the templates can be counted, and so can the processes.
ASSUME SlotsArePositive == Slots \in Nat \ {0}
ASSUME FingersAreFinite == IsFiniteSet(Fingers)
ASSUME BoundsAreNumbers == MaxPid \in Nat /\ MaxTries \in Nat \ {0} /\ MaxInbox \in Nat

AllWorlds == [supplies : SUBSET {"vdd", "vio"}, fails : BOOLEAN, high : BOOLEAN]

Touch   == INSTANCE TouchPanel WITH pc <- thread_pc, Worlds <- AllWorlds
Sensor  == INSTANCE GoodixFp WITH driver <- fp_driver, pc <- fp_pc, edge <- fp_edge
Old     == INSTANCE GfSpi WITH bound <- gf_bound, irq_enabled <- gf_irq_enabled, depth <- gf_depth, pc <- gf_pc
Adapter == INSTANCE FingerprintHal WITH pc <- adapter_pc

FmBuilds == {
  <<"wmt", "mt6631", "mt6631">>, <<"wmt", "mt6631", "mt6635">>, <<"wmt", "mt6635", "mt6635">>,
  <<"wmt", "mt6635_2", "none">>, <<"wmt", "mt6627", "none">>, <<"wmt", "mt6580", "none">>,
  <<"wmt", "mt6630", "none">>, <<"wmt", "mt6632", "none">>, <<"conninfra", "mt6635", "mt6635">>}
Setup   == INSTANCE FmSetup WITH build <- fm_build, todo <- fm_todo, Builds <- FmBuilds

touch_vars ==
  <<driver, suspended, on, edge, thread_pc, event_buf, active, slot, btn, down, lifted, missed, world>>
sensor_vars ==
  <<fp_driver, g_priv, nl_sk, nl_pid, irq_enabled, depth, reset_line, fp_pc, op, fp_edge, handler,
    hal, file, said, undone, born>>
old_vars ==
  <<build, cs_disable, aspect, gf_bound, device_list_lock, users, gpios, numbers, irq, gf_irq_enabled,
    gf_depth, gf_pc, device_available, vreg, ldo, left, overlapped, cs_gpio_set, fb_black, lasttouchmode,
    finger, pid, told, extra, cleaned, overfreed>>
adapter_vars ==
  <<adapter, tries, mOppoBiometricsFingerprint, adapter_pc, asker, mOppoClientCallback,
    receivedCancel, receivedEnumerate, knownFingers, nFingers, todo, inbox,
    vendor, templates, synced, heard>>

setup_vars ==
  <<fm_build, phase, fm_todo, live, held, ref, failed, probed, published, listening, rst_queued, binds,
    broken>>

MCInit ==
  /\ subject \in {"panel", "touch", "sensor", "old sensor", "adapter", "fm"}
  /\ Touch!Init
  /\ subject # "touch" => world = [supplies |-> {}, fails |-> FALSE, high |-> FALSE]
  /\ Old!Init
  /\ subject # "old sensor" => build = "mtk" /\ ~cs_disable /\ aspect = "lines"
  /\ Adapter!Init
  /\ subject # "adapter" => ~vendor /\ templates = {}
  /\ Setup!Init
  /\ subject # "fm" => fm_build = CHOOSE b \in FmBuilds : TRUE
  /\ Init /\ Sensor!Init

\* Nothing moves but the parts of the subject.
Still(moving) ==
  /\ (moving # "panel" => UNCHANGED vars)             /\ (moving # "touch" => UNCHANGED touch_vars)
  /\ (moving # "sensor" => UNCHANGED sensor_vars)     /\ (moving # "adapter" => UNCHANGED adapter_vars)
  /\ (moving # "old sensor" => UNCHANGED old_vars)    /\ (moving # "fm" => UNCHANGED setup_vars)
  /\ UNCHANGED subject

PanelNext   == subject = "panel" /\ Next /\ Still(subject)
TouchNext   == subject = "touch" /\ Touch!Next /\ Still(subject)
SensorNext  == subject = "sensor" /\ Sensor!Next /\ Still(subject)
AdapterNext == subject = "adapter" /\ Adapter!Next /\ Still(subject)
OldNext     == subject = "old sensor" /\ Old!Next /\ Still(subject)
SetupNext   == subject = "fm" /\ Setup!Next /\ Still(subject)

MCNext == PanelNext \/ TouchNext \/ SensorNext \/ OldNext \/ AdapterNext \/ SetupNext

mc_vars == <<subject, vars, touch_vars, sensor_vars, old_vars, adapter_vars, setup_vars>>

MCSpec ==
  /\ MCInit
  /\ [][MCNext]_mc_vars
  /\ WF_touch_vars(subject = "touch" /\ Touch!Handler)
  /\ WF_sensor_vars(subject = "sensor" /\ Sensor!Handler)
  /\ \A t \in Sensor!Threads : WF_sensor_vars(subject = "sensor" /\ Sensor!Call(t))
  /\ WF_adapter_vars(subject = "adapter" /\ Adapter!Process)
  /\ WF_adapter_vars(subject = "adapter" /\ Adapter!Answer)

\* Stated and explained in the modules they come from.
TouchesMatch        == Touch!TouchesMatch
IrqBalanced         == Sensor!IrqBalanced
ReportsToCurrentHal == Sensor!ReportsToCurrentHal
CallsReturn         == Sensor!CallsReturn
OffIsOff            == Old!OffIsOff
TouchIsTold         == Old!TouchIsTold
ToldIsTrue          == Adapter!ToldIsTrue
ComesBack           == Adapter!ComesBack
SetupIsUndone       == Setup!SetupIsUndone
===============================================================================
