------------------------------ MODULE CycleCount ------------------------------
(* How the vendor gauge counts battery cycles in software (fg_sw_bat_cycle_accu): *)
(* it adds up what went out of the battery since it looked last, from a counter   *)
(* that goes down while the battery empties and up while it fills, and tells the  *)
(* daemon at a threshold.  It is called when charging starts or stops, when the   *)
(* counter has moved down by one percent, and before the counter is reset.        *)
(* Nothing keeps two of these calls apart.                                       *)
(*                                                                             *)
(* `out' and `told' are the history: what really went out, and what the daemon    *)
(* was told of.  The threshold is set once; the daemon's own writes to the count  *)
(* are left out, and the gauge is not disabled (a disabled one reads 0 and tells  *)
(* nobody).                                                                      *)
EXTENDS Integers

CONSTANTS
  Callers,        \* the charger's notifier, the coulomb thread
  bat_cycle_thr,
  CarLimit,       \* bound: the counter stays in -CarLimit .. CarLimit
  MaxOut,         \* bound: what goes out of the battery
  MaxResets       \* bound: how often the daemon resets the counter

VARIABLES
  car,            \* the chip's counter
  bat_cycle_car,  \* where the count looked last
  bat_cycle_ncar, \* what was counted
  at,             \* where each caller is, and the counter it read
  out, told, overlapped, resets

cycle_vars ==
  <<car, bat_cycle_car, bat_cycle_ncar, at, out, told, overlapped, resets>>

Daemon  == "daemon"
Threads == Callers \union {Daemon}
Idle    == [pc |-> "idle", coulomb |-> 0]

\* gm25 starts from 0: what went out before the driver came up is counted too.
Init ==
  /\ car \in -1 .. 1 /\ bat_cycle_car = IF car < 0 THEN 0 ELSE car
  /\ out = IF car < 0 THEN -car ELSE 0
  /\ bat_cycle_ncar = 0 /\ told = 0 /\ resets = 0
  /\ at = [t \in Threads |-> Idle]
  /\ overlapped = FALSE

Goes(t, pc) ==
  /\ at' = [at EXCEPT ![t].pc = pc]
  /\ overlapped' = (overlapped \/ \E u \in Threads \ {t} : at[u].pc # "idle")

\* fg_sw_bat_cycle_accu: the counter is read, the difference is added, the
\* threshold is looked at.
Read(t) ==
  /\ at' = [at EXCEPT ![t] = [pc |-> "add", coulomb |-> car]]
  /\ overlapped' = (overlapped \/ \E u \in Threads \ {t} : at[u].pc # "idle")
  /\ UNCHANGED <<car, bat_cycle_car, bat_cycle_ncar, out, told>>

\* battery_callback, fg_bat_int1_l_handler
Accumulate(t) == t \in Callers /\ at[t].pc = "idle" /\ Read(t) /\ UNCHANGED resets

\* gauge_reset_hw counts first, then forgets where it looked.
ResetHw ==
  /\ at[Daemon].pc = "idle" /\ resets < MaxResets
  /\ resets' = resets + 1
  /\ Read(Daemon)

Add(t) ==
  /\ at[t].pc = "add"
  /\ LET diff == at[t].coulomb - bat_cycle_car IN
       bat_cycle_ncar' = IF diff > 0 THEN bat_cycle_ncar ELSE bat_cycle_ncar - diff
  /\ bat_cycle_car' = at[t].coulomb
  /\ Goes(t, "check")
  /\ UNCHANGED <<car, out, told, resets>>

Check(t) ==
  /\ at[t].pc = "check"
  /\ LET full == bat_cycle_ncar >= bat_cycle_thr IN
       /\ bat_cycle_ncar' = IF full THEN 0 ELSE bat_cycle_ncar
       /\ told' = IF full THEN told + bat_cycle_ncar ELSE told
  /\ Goes(t, IF t = Daemon THEN "forget" ELSE "idle")
  /\ UNCHANGED <<car, bat_cycle_car, out, resets>>

\* Plausible bug: where the count looked last is kept over the reset.
KeepsLookedAt ==
  /\ at[Daemon].pc \in {"forget", "again"}
  /\ Goes(Daemon, IF at[Daemon].pc = "forget" THEN "chip" ELSE "idle")
  /\ UNCHANGED <<car, bat_cycle_car, bat_cycle_ncar, out, told, resets>>

Forget ==
  /\ at[Daemon].pc \in {"forget", "again"}
  /\ bat_cycle_car' = 0
  /\ Goes(Daemon, IF at[Daemon].pc = "forget" THEN "chip" ELSE "idle")
  /\ UNCHANGED <<car, bat_cycle_ncar, out, told, resets>>

ResetChip ==
  /\ at[Daemon].pc = "chip"
  /\ car' = 0
  /\ Goes(Daemon, "again")
  /\ UNCHANGED <<bat_cycle_car, bat_cycle_ncar, out, told, resets>>

\* Charge flows; the counter is the chip's.
Flow(d) ==
  /\ car + d \in -CarLimit .. CarLimit /\ (d < 0 => out < MaxOut)
  /\ car' = car + d /\ out' = IF d < 0 THEN out + 1 ELSE out
  /\ UNCHANGED <<bat_cycle_car, bat_cycle_ncar, at, told, overlapped, resets>>

Next ==
  \/ \E t \in Threads : Accumulate(t) \/ Add(t) \/ Check(t)
  \/ ResetHw \/ Forget \/ ResetChip
  \/ \E d \in {-1, 1} : Flow(d)

Spec == Init /\ [][Next]_cycle_vars

---------------------------------------------------------------------------------
\* Whatever goes in and out between and during the calls, and however often the
\* counter is reset, the cycles told to the daemon and the rest that waits are never
\* more than what went out of the battery: a battery is not called older than it is.
\* Two calls that overlap may count the same charge twice, since nothing locks them.
CycleIsDischarged == ~overlapped => bat_cycle_ncar + told <= out

\* As long as no two calls have overlapped, one thread at most is in the count.
OneAtATime ==
  ~overlapped => \A t, u \in Threads : t # u => at[t].pc = "idle" \/ at[u].pc = "idle"

\* What has been counted, and what the counter shows since it was looked at last, has
\* gone out of the battery; not so while a call holds a value it has yet to add ...
NextIsDischarged ==
  ~overlapped /\ at[Daemon].pc # "chip" /\ (\A t \in Threads : at[t].pc # "add") =>
    bat_cycle_ncar + told + (bat_cycle_car - car) <= out

\* ... which is as true of the count once it has been added.
AddedIsDischarged ==
  ~overlapped => \A t \in Threads : at[t].pc = "add" =>
    \A n \in {bat_cycle_ncar, bat_cycle_ncar + (bat_cycle_car - at[t].coulomb)} :
      n + told <= out /\ n + told + (at[t].coulomb - car) <= out

\* Between the two times it forgets, the count looks at nothing.
ForgotBeforeChip == ~overlapped /\ at[Daemon].pc \in {"chip", "again"} => bat_cycle_car = 0

\* What every step keeps.
Places == {"idle", "add", "check", "forget", "chip", "again"}
Types ==
  /\ car \in Int /\ bat_cycle_car \in Int /\ bat_cycle_ncar \in Int
  /\ out \in Int /\ told \in Int /\ overlapped \in BOOLEAN
  /\ at \in [Threads -> [pc : Places, coulomb : Int]]
IInv ==
  /\ Types /\ OneAtATime /\ ForgotBeforeChip
  /\ CycleIsDischarged /\ NextIsDischarged /\ AddedIsDischarged
===============================================================================
