------------------------------ MODULE NafgMonitor ------------------------------
(* The vendor gauge watches one of its own counters (fg_nafg_monitor): once a      *)
(* minute a thread looks at the temperature and then at the NAFG count; when the   *)
(* count has stood still for ten minutes the counter is called broken, and the     *)
(* daemon is told to go on without it.  Cold, the user and a disabled gauge stop   *)
(* the watch.  The time is the boot clock, which runs on in suspend: resume resets *)
(* it.  The thread is not frozen, and its hrtimer runs again before the devices    *)
(* are resumed.                                                                  *)
(*                                                                             *)
(* Of the temperature only cold matters here, at or below the limit for NAFG.  The *)
(* thermistor is never that cold, since its value is replaced by 25 degrees or, if *)
(* the converter gives 0, by 0.  A cold value comes from FG_ntc_disable_nafg, and  *)
(* what was written to Battery_Temperature (-10 .. 58, never cold) goes before it. *)
(* `still' and `blame' are the history.                                          *)
EXTENDS Naturals

CONSTANTS
  Limit,          \* the 600 s, in minutes
  MaxSleeps,      \* bound: suspend cycles
  MaxWrites       \* bound: writes to the files in sysfs

VARIABLES
  nafg_moved,     \* the chip's count is not last_nafg_cnt
  age,            \* minutes since last_nafg_update_time, up to Limit
  is_nafg_broken,
  ntc_disable_nafg, cmd_disable_nafg,
  fixed_bat_tmp,  \* is Battery_Temperature written
  fixed_temp_en,  \* does FG_ntc_disable_nafg fix a cold value
  timer,          \* is the hrtimer armed
  fg_update_flag,
  routine,        \* battery_update_routine: where it is, and if it read a cold value
  power,
  still,          \* minutes awake since the count moved or its interrupt came
  blame,          \* what still and power were when the counter was called broken
  naps, writes

nafg_vars ==
  <<nafg_moved, age, is_nafg_broken, ntc_disable_nafg, cmd_disable_nafg, fixed_bat_tmp,
    fixed_temp_en, timer, fg_update_flag, routine, power, still, blame, naps, writes>>

switches == <<ntc_disable_nafg, cmd_disable_nafg, fixed_bat_tmp, fixed_temp_en, writes>>
clockwork == <<timer, fg_update_flag, routine>>

Init ==
  /\ nafg_moved = FALSE /\ age = 0 /\ is_nafg_broken = FALSE
  /\ ntc_disable_nafg = FALSE /\ cmd_disable_nafg = FALSE
  /\ fixed_bat_tmp = FALSE /\ fixed_temp_en = FALSE
  /\ timer = TRUE /\ fg_update_flag = FALSE /\ routine = [at |-> "wait", cold |-> FALSE]
  /\ power = "on" /\ still = 0 /\ blame = [still |-> 0, power |-> "none"]
  /\ naps = 0 /\ writes = 0

Runs == power \in {"on", "resuming"}
Capped(n) == IF n > Limit THEN Limit ELSE n

---------------------------------------------------------------------------------
\* battery_update_routine and fg_drv_update_hw_status.

fg_drv_thread_hrtimer_func ==
  /\ Runs /\ timer
  /\ timer' = FALSE /\ fg_update_flag' = TRUE
  /\ UNCHANGED <<nafg_moved, age, is_nafg_broken, switches, routine, power, still, blame, naps>>

Starts ==
  /\ Runs /\ routine.at = "wait" /\ fg_update_flag
  /\ fg_update_flag' = FALSE
  /\ routine' = [at |-> "tbat", cold |-> FALSE]
  /\ UNCHANGED <<nafg_moved, age, is_nafg_broken, switches, timer, power, still, blame, naps>>

\* force_get_tbat: what was fixed in sysfs goes before the converter.
force_get_tbat_internal ==
  /\ Runs /\ routine.at = "tbat"
  /\ routine' = [at |-> "flag", cold |-> ~fixed_bat_tmp /\ fixed_temp_en]
  /\ UNCHANGED <<nafg_moved, age, is_nafg_broken, switches, timer, fg_update_flag, power, still,
                 blame, naps>>

force_get_tbat ==
  /\ Runs /\ routine.at = "flag"
  /\ ntc_disable_nafg' = routine.cold
  /\ routine' = [at |-> "monitor", cold |-> FALSE]
  /\ UNCHANGED <<nafg_moved, age, is_nafg_broken, cmd_disable_nafg, fixed_bat_tmp, fixed_temp_en,
                 timer, fg_update_flag, power, still, blame, naps, writes>>

\* The last step also starts the timer again.
fg_nafg_monitor ==
  /\ Runs /\ routine.at = "monitor"
  /\ LET watches == ~cmd_disable_nafg /\ ~ntc_disable_nafg
         breaks  == watches /\ ~nafg_moved /\ age >= Limit IN
       /\ nafg_moved' = (nafg_moved /\ ~watches)
       /\ age' = IF watches /\ nafg_moved THEN 0 ELSE age
       /\ is_nafg_broken' = (is_nafg_broken \/ breaks)
       /\ blame' = IF breaks /\ ~is_nafg_broken THEN [still |-> still, power |-> power] ELSE blame
  /\ timer' = TRUE /\ routine' = [at |-> "wait", cold |-> FALSE]
  /\ UNCHANGED <<switches, fg_update_flag, power, still, naps>>

---------------------------------------------------------------------------------
\* The chip, time, the user.

Counts ==
  /\ Runs /\ nafg_moved' = TRUE /\ still' = 0
  /\ UNCHANGED <<age, is_nafg_broken, switches, clockwork, power, blame, naps>>

fg_nafg_int_handler ==
  /\ Runs /\ age' = 0 /\ still' = 0
  /\ UNCHANGED <<nafg_moved, is_nafg_broken, switches, clockwork, power, blame, naps>>

Minute ==
  /\ power = "on"
  /\ age' = Capped(age + 1) /\ still' = Capped(still + 1)
  /\ UNCHANGED <<nafg_moved, is_nafg_broken, switches, clockwork, power, blame, naps>>

store_Battery_Temperature ==
  /\ power = "on" /\ writes < MaxWrites /\ writes' = writes + 1
  /\ fixed_bat_tmp' = TRUE
  /\ UNCHANGED <<nafg_moved, age, is_nafg_broken, ntc_disable_nafg, cmd_disable_nafg,
                 fixed_temp_en, clockwork, power, still, blame, naps>>

store_FG_ntc_disable_nafg(b) ==
  /\ power = "on" /\ writes < MaxWrites /\ writes' = writes + 1
  /\ ntc_disable_nafg' = b /\ fixed_temp_en' = b
  /\ UNCHANGED <<nafg_moved, age, is_nafg_broken, cmd_disable_nafg, fixed_bat_tmp, clockwork,
                 power, still, blame, naps>>

store_FG_nafg_disable(b) ==
  /\ power = "on" /\ writes < MaxWrites /\ writes' = writes + 1
  /\ cmd_disable_nafg' = b
  /\ UNCHANGED <<nafg_moved, age, is_nafg_broken, ntc_disable_nafg, fixed_bat_tmp, fixed_temp_en,
                 clockwork, power, still, blame, naps>>

---------------------------------------------------------------------------------
\* Suspend may stop the thread anywhere.  The boot clock jumps.

battery_suspend ==
  /\ power = "on" /\ naps < MaxSleeps
  /\ power' = "asleep" /\ naps' = naps + 1
  /\ UNCHANGED <<nafg_moved, age, is_nafg_broken, switches, clockwork, still, blame>>

Wakes ==
  /\ power = "asleep" /\ power' = "resuming"
  /\ age' \in {age, Limit}
  /\ UNCHANGED <<nafg_moved, is_nafg_broken, switches, clockwork, still, blame, naps>>

\* Plausible bug: resume leaves the time of the last change.
ResumeKeepsTime ==
  /\ power = "resuming" /\ power' = "on"
  /\ UNCHANGED <<nafg_moved, age, is_nafg_broken, switches, clockwork, still, blame, naps>>

battery_resume ==
  /\ power = "resuming" /\ power' = "on"
  /\ age' = 0
  /\ UNCHANGED <<nafg_moved, is_nafg_broken, switches, clockwork, still, blame, naps>>

Next ==
  \/ fg_drv_thread_hrtimer_func \/ Starts
  \/ force_get_tbat_internal \/ force_get_tbat \/ fg_nafg_monitor
  \/ Counts \/ fg_nafg_int_handler \/ Minute \/ store_Battery_Temperature
  \/ \E b \in BOOLEAN : store_FG_ntc_disable_nafg(b) \/ store_FG_nafg_disable(b)
  \/ battery_suspend \/ Wakes \/ battery_resume

Spec == Init /\ [][Next]_nafg_vars

---------------------------------------------------------------------------------
\* A counter is called broken only after it has really stood still for the whole
\* time with the system awake: time asleep, a watch that was switched off and on
\* again, and a thread that suspend stopped in the middle do not add up to a false
\* alarm.  The exception is a thread that gets to its look before battery_resume has
\* reset the time.
BlamedWhenStill ==
  is_nafg_broken => blame.still >= Limit \/ blame.power = "resuming"

\* Awake, the driver's time since the count moved is no longer than the real one, as
\* long as it has no movement yet to take in.
AgeIsStill == power = "on" /\ ~nafg_moved => age <= still

\* What every step keeps.
Types ==
  /\ power \in {"on", "asleep", "resuming"}
  /\ nafg_moved \in BOOLEAN /\ is_nafg_broken \in BOOLEAN
  /\ age \in Nat /\ still \in Nat
IInv == Types /\ AgeIsStill /\ BlamedWhenStill
===============================================================================
