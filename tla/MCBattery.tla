------------------------------ MODULE MCBattery ------------------------------
(* The battery drivers of the tree, checked side by side: the simple gauge     *)
(* (Gauge), and of the vendor gauge the coulomb service, the timer service,    *)
(* the core, the temperature, the cycle count and the watch of the NAFG        *)
(* counter.  They run independently of each other here, so a behaviour follows *)
(* one of them, its subject; the others stay in an initial state.              *)
EXTENDS MCGauge, FiniteSets

CONSTANTS Users, Gap, Restarts, Off, NoTh, Far, CarLimit, MaxDrift, MaxCalls,
          Timers, Intervals, MaxTime,
          MaxDeaths, MaxSleeps, AtOnce,
          Currents,
          Callers, bat_cycle_thr, MaxOut, MaxResets,
          Limit, MaxWrites

ASSUME GapsAreSigned == Gap \in [Users -> Int \ {0}]
ASSUME SwitchedOffIsNoNumber == Off \notin Int /\ NoTh \notin Int
ASSUME DistancesAreNumbers == Far \in Int /\ MaxDrift \in Nat
ASSUME IntervalsAreSeconds == Intervals \subseteq Nat
ASSUME LimitIsMinutes == Limit \in Nat

VARIABLES subject,
  car, ht, lt, end, timeout, thread_pc, seen, drift, todo, reset, reset_coulomb,
  is_fg_disabled, calls,
  now, endtime, left, awake, wlock, thread, pm, hibernating, arm, overwritten, unresumed,
  followed, armed, handler, inbox, daemon, fgd_pid, init_flag, dod_init_sel, disableGM30,
  ui_soc, iavg_intr_flag, fixed, asleep, deaths, sleeps,
  degree, current, is_charging,
  cycle_car, bat_cycle_car, bat_cycle_ncar, at, out, told, overlapped, resets,
  nafg_moved, age, is_nafg_broken, ntc_disable_nafg, cmd_disable_nafg, fixed_bat_tmp,
  fixed_temp_en, timer, fg_update_flag, routine, power, still, blame, naps, writes

\* One user of each list; its callback may start both again.
TwoUsers == {"plus", "minus"}
TwoGaps  == "plus" :> 2 @@ "minus" :> -2
Both     == [u \in TwoUsers |-> TwoUsers]

Coulomb == INSTANCE CoulombService WITH pc <- thread_pc
Timer   == INSTANCE TimerService
Core    == INSTANCE Gm30

\* A thermistor of 10 kOhm, every five degrees, as the vendor's tables are.
Ohms == << 195652, 148171, 113347, 87559, 68237, 53650, 42506, 33892, 27219, 22021, 17926,
           14674, 12081, 10000, 8315, 6948, 5834, 4917, 4161, 3535, 3014 >>
Thermo == INSTANCE Thermistor WITH
  Fg_Temperature_Table <- [i \in DOMAIN Ohms |-> <<5 * i - 45, Ohms[i]>>],
  PullUpR <- 16900, PullUpVolt <- 1800, MeterResistance <- 175
Cycle == INSTANCE CycleCount WITH car <- cycle_car
Nafg  == INSTANCE NafgMonitor

coulomb_vars == <<car, ht, lt, end, timeout, thread_pc, seen, drift, todo, reset, reset_coulomb,
                  is_fg_disabled, calls>>
timer_vars   == <<now, endtime, left, awake, wlock, thread, pm, hibernating, arm, overwritten,
                  unresumed>>
core_vars    == <<followed, armed, handler, inbox, daemon, fgd_pid, init_flag, dod_init_sel,
                  disableGM30, ui_soc, iavg_intr_flag, fixed, asleep, deaths,
                  sleeps>>
thermistor_vars == <<degree, current, is_charging>>
cycle_vars   == <<cycle_car, bat_cycle_car, bat_cycle_ncar, at, out, told, overlapped, resets>>
nafg_vars    == <<nafg_moved, age, is_nafg_broken, ntc_disable_nafg, cmd_disable_nafg, fixed_bat_tmp,
                  fixed_temp_en, timer, fg_update_flag, routine, power, still, blame, naps, writes>>
parts_vars   == <<thermistor_vars, cycle_vars, nafg_vars>>
service_vars == <<coulomb_vars, timer_vars, core_vars>>
battery_vars == <<subject, vars, service_vars, parts_vars>>

MCInit ==
  /\ subject \in {"gauge", "coulomb", "timer", "core", "thermistor", "cycle", "nafg"}
  /\ Init
  /\ subject # "gauge" => ~registered /\ vbat = 3850000 /\ temp = 250
  /\ Core!Init
  /\ subject # "core" =>
       followed = CHOOSE F \in SUBSET Core!Sources : Cardinality(F) = AtOnce
  /\ Thermo!Init
  /\ subject # "thermistor" => degree = 25 /\ current = 0 /\ ~is_charging
  /\ Cycle!Init
  /\ subject # "cycle" => cycle_car = 0
  /\ Coulomb!Init /\ Timer!Init /\ Nafg!Init

GaugeNext   == subject = "gauge" /\ Next /\ UNCHANGED <<service_vars, parts_vars>>
CoulombNext == subject = "coulomb" /\ Coulomb!Next /\ UNCHANGED <<vars, timer_vars, core_vars, parts_vars>>
TimerNext   == subject = "timer" /\ Timer!Next /\ UNCHANGED <<vars, coulomb_vars, core_vars, parts_vars>>
CoreNext    == subject = "core" /\ Core!Next /\ UNCHANGED <<vars, coulomb_vars, timer_vars, parts_vars>>
ThermoNext  ==
  subject = "thermistor" /\ Thermo!Drifts /\ UNCHANGED <<vars, service_vars, cycle_vars, nafg_vars>>
CycleNext   ==
  subject = "cycle" /\ Cycle!Next /\ UNCHANGED <<vars, service_vars, thermistor_vars, nafg_vars>>
NafgNext    ==
  subject = "nafg" /\ Nafg!Next /\ UNCHANGED <<vars, service_vars, thermistor_vars, cycle_vars>>

MCNext ==
  /\ GaugeNext \/ CoulombNext \/ TimerNext \/ CoreNext \/ ThermoNext \/ CycleNext \/ NafgNext
  /\ UNCHANGED subject

MCSpec == MCInit /\ [][MCNext]_battery_vars

\* Stated and explained in the modules they come from; one that is long to compute
\* only where its subject moves.
HeadsAreWatched     == Coulomb!HeadsAreWatched
FirstIsArmed        == Timer!FirstIsArmed
NoSourceIsForgotten == Core!NoSourceIsForgotten
ReadingIsRight      == subject = "thermistor" => Thermo!ReadingIsRight
CycleIsDischarged   == Cycle!CycleIsDischarged
BlamedWhenStill     == Nafg!BlamedWhenStill
==============================================================================
