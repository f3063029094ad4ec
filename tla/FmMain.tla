------------------------------- MODULE FmMain -------------------------------
(***************************************************************************)
(* Who calls the receiver chip, and in which order: core/fm_main.c of the   *)
(* vendor FM driver, with the part of core/fm_module.c that calls it.       *)
(* Users come in through ioctl, one worker thread runs the driver's own      *)
(* work and another the interrupt's, and every function takes some of the    *)
(* driver's locks.  The locks are semaphores: down_interruptible, which a    *)
(* signal ends, and up, which anyone may call.                              *)
(*                                                                         *)
(* A function is a tuple of steps; what a thread still has to do is the      *)
(* tuple it has left.  Chip stands for the calls of fm_low_ops that talk to  *)
(* the chip, which FmChip runs in detail.  On the platforms without firmware *)
(* (plat/conn_infra.c) such a call needs own_lock for a while, which the     *)
(* interrupt's thread holds from end to end.  Left out: locks inside which   *)
(* no other is taken, or only own_lock (the buffer of a command, the timers),*)
(* and tx_lock, which is only taken with own_lock in hand.                  *)
(***************************************************************************)
EXTENDS Integers, Sequences, FiniteSets

CONSTANTS Users,      \* threads that hold the device open
          MaxFaults   \* bound: signals, resets and chip failures in one behaviour

Worker  == "timer_wkthd"
Eint    == "eint_wkthd"
Kernel  == {Worker, Eint}
Threads == Users \union Kernel
Locks   == {"ops", "rxtx", "rds_cnt", "read", "rtc", "own"}

-----------------------------------------------------------------------------
(* The steps.  alt is what is left to do when the step fails.               *)

LockOr(l, alt) == [op |-> "lock", lock |-> l, alt |-> alt]
Lock(l)        == LockOr(l, <<>>)     \* if (FM_LOCK(l)) return
Unlock(l)      == [op |-> "unlock", lock |-> l]
ChipOr(alt)    == [op |-> "chip", alt |-> alt]
Chip           == [op |-> "call"]     \* its result changes nothing
Copy           == [op |-> "copy"]     \* of data in memory
Put(var, val)  == [op |-> "put", var |-> var, val |-> val]

If(cond, then, else) == [op |-> "if", cond |-> cond, then |-> then, else |-> else]
When(cond, steps)    == If(cond, steps, <<>>)

Out == <<Unlock("ops")>>              \* goto out
Ops(steps) == <<Lock("ops")>> \o steps \o Out

-----------------------------------------------------------------------------
(* The functions.                                                          *)

\* The radio is off, or it is not: what comes after the locks are released.
Pwroff == <<When("off", <<When("hot", <<Chip, Put("chipon", FALSE)>>)>>)>>

\* after: what the caller does when it fails
fm_powerdowntx(after) ==
  <<LockOr("rxtx", after),
    When("tx", <<ChipOr(<<Put("pwr", "off"), Unlock("rxtx")>> \o after), Put("pwr", "off")>>),
    Unlock("rxtx")>>

\* Failing to leave the transmitter returns at once.
fm_powerup ==
  Ops(<<When("cold", <<ChipOr(Out), Put("chipon", TRUE)>>),
        If("rx", <<>>,
           <<When("tx", fm_powerdowntx(<<>>)),
             Put("pwr", "rx"), ChipOr(<<Put("pwr", "off")>> \o Out)>>)>>)

pwrdown_flow(failed) == <<When("rx", <<Put("pwr", "off"), ChipOr(failed)>>)>>

\* Plausible bug: the second lock is kept.
DownKeepsRxtx(after) ==
  LET over == Out \o Pwroff
  IN  <<LockOr("ops", after), LockOr("rxtx", after)>> \o pwrdown_flow(over \o after) \o over

\* A signal between the two locks leaves with the first.
fm_powerdown(after) ==
  LET over == <<Unlock("rxtx")>> \o Out \o Pwroff
  IN  <<LockOr("ops", after), LockOr("rxtx", after)>> \o pwrdown_flow(over \o after) \o over

fm_powerdown_tx == fm_powerdowntx(Pwroff) \o Pwroff

\* Unlike the others, the label out of these two is reached without the lock as
\* well as with it.
fm_powerup_tx ==
  <<If("tx", Out,
       <<When("rx", fm_powerdown(Out))>>
       \o Ops(<<When("cold", <<Chip, Put("chipon", TRUE)>>),
                Put("pwr", "tx"), ChipOr(<<Put("pwr", "off")>> \o Out)>>))>>

fm_rds_onoff == <<If("rx", Ops(<<Chip>>), Out)>>

fm_open  == <<When("cold", Ops(<<>>))>>
fm_close == Ops(<<>>)

\* The lock, and whatever the state.
fm_is_dese_chan      == Ops(<<Chip>>)
fm_desense_check     == Ops(<<Chip>>)
fm_dump_reg          == Ops(<<Chip>>)
fm_get_hw_info       == Ops(<<Chip>>)
fm_monostereo_get    == Ops(<<Chip>>)
fm_monostereo_set    == Ops(<<Chip>>)
fm_pamd_get          == Ops(<<Chip>>)
fm_caparray_get      == Ops(<<Chip>>)
fm_em_test           == Ops(<<Chip>>)
fm_set_search_th     == Ops(<<Chip>>)
fm_rds_good_bc_get   == Ops(<<Chip>>)
fm_rds_bad_bc_get    == Ops(<<Chip>>)
fm_rds_bler_ratio_get == Ops(<<Chip>>)
fm_rds_block_cnt_reset == Ops(<<Chip>>)
fm_cqi_log           == Ops(<<Chip>>)
fm_tx_support        == Ops(<<Chip>>)
fm_rdstx_support     == Ops(<<Chip>>)
fm_reg_access        == Ops(<<Chip>>)    \* fm_read, fm_write and their kin
fm_set_stat          == Ops(<<>>)
fm_get_stat          == Ops(<<>>)
fm_chipid_get        == Ops(<<>>)

\* The lock first, then the state.
Locked(cond) == Ops(<<When(cond, <<Chip>>)>>)

fm_cqi_get        == Locked("rx")
fm_soft_mute_tune == Locked("rx")
fm_tx_scan        == Locked("hot")
fm_ana_switch     == Locked("on")
fm_i2s_set        == Locked("on")

\* The state first, then the lock: by the time the lock is there, the state may
\* be another.
Checked(cond) == <<When(cond, Ops(<<Chip>>))>>

fm_setvol         == Checked("rx")
fm_getvol         == Checked("rx")
fm_mute           == Checked("rx")
fm_getrssi        == Checked("rx")
fm_pre_search     == Checked("rx")
fm_restore_search == Checked("rx")
fm_over_bt        == Checked("rx")
fm_tune_tx        == Checked("tx")
fm_rdstx_enable   == Checked("tx")

\* scanstop and seekstop interrupt what runs under the lock.
fm_hwscan_stop == <<Chip>> \o Ops(<<Chip>>)

fm_rds_tx              == <<When("tx", <<Chip>>)>>
fm_rds_group_cnt_get   == <<Lock("rds_cnt"), Copy, Unlock("rds_cnt")>>
fm_rds_group_cnt_reset == <<Lock("rds_cnt"), Copy, Unlock("rds_cnt")>>
fm_rds_log_get(after)  == <<LockOr("read", after), Copy, Unlock("read")>>
fm_rds_read            == <<Lock("read"), Copy, Unlock("read")>>
fm_get_gps_rtc_info    == <<Lock("rtc"), Copy, Unlock("rtc")>>   \* trylock, a few times

\* The log of RDS data is read until it is empty, with the ops lock in hand:
\* bound: twice.  A signal meanwhile ends the reading, not the tune.
fm_tune ==
  LET tuning == <<When("rx", <<ChipOr(Out), Chip>>)>> \o Out
  IN  <<Lock("ops")>> \o fm_rds_log_get(tuning) \o fm_rds_log_get(tuning) \o tuning

Ioctls ==
  {fm_powerup, fm_powerdown(<<>>), fm_powerup_tx, fm_powerdown_tx, fm_rds_onoff, fm_hwscan_stop,
   fm_is_dese_chan, fm_desense_check, fm_dump_reg, fm_get_hw_info, fm_monostereo_get,
   fm_monostereo_set, fm_pamd_get, fm_caparray_get, fm_em_test, fm_set_search_th,
   fm_rds_good_bc_get, fm_rds_bad_bc_get, fm_rds_bler_ratio_get, fm_rds_block_cnt_reset,
   fm_cqi_log, fm_tx_support, fm_rdstx_support, fm_reg_access, fm_set_stat, fm_get_stat,
   fm_chipid_get, fm_tune, fm_cqi_get, fm_soft_mute_tune, fm_tx_scan, fm_ana_switch, fm_i2s_set,
   fm_setvol, fm_getvol, fm_mute, fm_getrssi, fm_pre_search, fm_restore_search, fm_over_bt,
   fm_tune_tx, fm_rdstx_enable, fm_rds_tx, fm_rds_group_cnt_get, fm_rds_group_cnt_reset,
   fm_rds_log_get(<<>>), fm_rds_read, fm_get_gps_rtc_info}

fm_rds_reset_work_func ==
  <<Lock("rxtx"), Lock("rds_cnt"), Chip, Unlock("rds_cnt"), Unlock("rxtx")>>

fm_tx_power_ctrl_worker_func == <<Lock("rxtx"), When("tx", <<Chip>>), Unlock("rxtx")>>

fm_tx_rtc_ctrl_worker_func == <<Lock("rtc"), Copy, Unlock("rtc"), Chip>>

fm_tx_desense_wifi_worker_func ==
  <<LockOr("rxtx", <<>>), When("tx", fm_tx_rtc_ctrl_worker_func \o <<Chip>>), Unlock("rxtx")>>

ResetOver == <<Put("rst", FALSE), Put("whole", TRUE)>> \o Out

\* A radio that had power is started again as it was.  What fails after it has
\* its power is not noticed.
fm_subsys_reset_work_func ==
  <<Lock("ops"), Put("rst", TRUE),
    When("hot", <<If("whole", <<>>, <<Chip, ChipOr(ResetOver)>>), ChipOr(ResetOver),
                  When("rx", <<Chip>>)>>)>>
  \o ResetOver

fm_pwroff_work_func == fm_powerdown(<<>>)

fm_rds_parser == <<Lock("read"), Copy, Unlock("read")>>

\* What the chip has sent is parsed with the bus in hand, unless its firmware has
\* the bus.
fm_eint_work_func == {fm_rds_parser, <<Lock("own")>> \o fm_rds_parser \o <<Unlock("own")>>}

Works(t) ==
  IF t = Eint THEN fm_eint_work_func
  ELSE {fm_rds_reset_work_func, fm_tx_power_ctrl_worker_func, fm_tx_desense_wifi_worker_func,
        fm_subsys_reset_work_func, fm_pwroff_work_func}

-----------------------------------------------------------------------------
VARIABLES
  sem,     \* lock -> count of its semaphore
  rest,    \* thread -> the steps it has left
  holds,   \* thread -> the locks it has taken and not released
  st,      \* pwr (fm_pwr_state), chipon, rst (fm_sys_state is not OFF), whole (wholechiprst)
  faults,
  leaked   \* a failure has made a function return with a lock

vars == <<sem, rest, holds, st, faults, leaked>>

Init ==
  /\ sem = [l \in Locks |-> 1]
  /\ rest = [t \in Threads |-> <<>>]
  /\ holds = [t \in Threads |-> {}]
  /\ st = [pwr |-> "off", chipon |-> FALSE, rst |-> FALSE, whole |-> TRUE]
  /\ faults = 0 /\ leaked = FALSE

Holds(cond) ==
  CASE cond = "rx"  -> st.pwr = "rx"   [] cond = "tx"    -> st.pwr = "tx"
    [] cond = "off" -> st.pwr = "off"  [] cond = "on"    -> st.pwr # "off"
    [] cond = "hot" -> st.chipon       [] cond = "cold"  -> ~st.chipon
    [] cond = "whole" -> st.whole

\* fm_ops_ioctl: everything is refused while the subsystem is being reset.
\* FM_IOCTL_POWERUP tunes afterwards.
fm_ops_ioctl(u) ==
  /\ rest[u] = <<>> /\ ~st.rst
  /\ \E f \in Ioctls :
       rest' = [rest EXCEPT ![u] = IF f = fm_powerup THEN f \o fm_tune ELSE f]
  /\ UNCHANGED <<sem, holds, st, faults, leaked>>

fm_ops_open(u) ==
  /\ rest[u] = <<>>
  /\ rest' \in {[rest EXCEPT ![u] = f] : f \in {fm_open, fm_close}}
  /\ UNCHANGED <<sem, holds, st, faults, leaked>>

\* The worker threads run what the timers, the interrupt, the core of the
\* connectivity chip and the transmitter's control have queued.
Work(t) ==
  /\ rest[t] = <<>>
  /\ \E w \in Works(t) : rest' = [rest EXCEPT ![t] = w]
  /\ UNCHANGED <<sem, holds, st, faults, leaked>>

\* A reset of the whole chip begins and ends, or a call finds the radio's firmware
\* lost: that asks for the reset of the radio alone.
fm_wholechip_rst_cb ==
  /\ \/ st.rst /\ st' = [st EXCEPT !.rst = FALSE] /\ UNCHANGED faults
     \/ /\ faults < MaxFaults /\ faults' = faults + 1
        /\ ~st.rst
        /\ st' \in {[st EXCEPT !.rst = TRUE], [st EXCEPT !.whole = FALSE]}
  /\ UNCHANGED <<sem, rest, holds, leaked>>

Step(t) == Head(rest[t])
Is(t, op) == rest[t] # <<>> /\ Step(t).op = op

\* The locks that these steps begin with giving back.
Given(steps) ==
  {steps[i].lock : i \in {j \in DOMAIN steps : \A k \in 1..j : steps[k].op = "unlock"}}

\* The thread goes on with these steps.  What it gives back at once, it gives back
\* now: this can only help the others, and they see nothing else of it.  up()
\* needs no holder.  bound: the count stops at 2.
Goes(t, steps, sems, has) ==
  /\ rest' = [rest EXCEPT ![t] = SubSeq(steps, Cardinality(Given(steps)) + 1, Len(steps))]
  /\ sem' = [l \in Locks |-> IF l \in Given(steps) /\ sems[l] < 2 THEN sems[l] + 1 ELSE sems[l]]
  /\ holds' = [holds EXCEPT ![t] = has \ Given(steps)]

TakeLock(t) ==
  /\ Is(t, "lock") /\ sem[Step(t).lock] > 0
  /\ Goes(t, Tail(rest[t]), [sem EXCEPT ![Step(t).lock] = @ - 1], holds[t] \union {Step(t).lock})
  /\ UNCHANGED <<st, faults, leaked>>

\* The bus is given back before the call returns.
Command(t) ==
  /\ Is(t, "chip") \/ Is(t, "call")
  /\ sem["own"] > 0
  /\ Goes(t, Tail(rest[t]), sem, holds[t])
  /\ UNCHANGED <<st, faults, leaked>>

Other(t) ==
  /\ \/ /\ Is(t, "if")
        /\ Goes(t, (IF Holds(Step(t).cond) THEN Step(t).then ELSE Step(t).else) \o Tail(rest[t]),
                sem, holds[t])
        /\ UNCHANGED st
     \/ /\ Is(t, "put") /\ st' = [st EXCEPT ![Step(t).var] = Step(t).val]
        /\ Goes(t, Tail(rest[t]), sem, holds[t])
     \/ Is(t, "copy") /\ Goes(t, Tail(rest[t]), sem, holds[t]) /\ UNCHANGED st
  /\ UNCHANGED <<faults, leaked>>

Run(t) == TakeLock(t) \/ Command(t) \/ Other(t)

\* A signal ends the wait for a lock; the chip does not do what it is told.
\* What is left then does not always give back what was taken.
Fault(t) ==
  /\ faults < MaxFaults /\ faults' = faults + 1
  /\ Is(t, "lock") \/ Is(t, "chip")
  /\ t \in Kernel => ~Is(t, "lock")   \* a kernel thread gets no signals
  /\ leaked' = (leaked \/ \E l \in holds[t] :
                            \A i \in DOMAIN Step(t).alt : Step(t).alt[i] # Unlock(l))
  /\ Goes(t, Step(t).alt, sem, holds[t])
  /\ UNCHANGED st

Next ==
  \/ \E u \in Users : fm_ops_ioctl(u) \/ fm_ops_open(u)
  \/ (\E t \in Kernel : Work(t)) \/ fm_wholechip_rst_cb
  \/ \E t \in Threads : Run(t) \/ Fault(t)

Spec == Init /\ [][Next]_vars

-----------------------------------------------------------------------------
\* "mutex for char device ops" (fm_main.c:31): between taking and releasing it, a
\* function of the driver has the chip to itself.
OneCallInside == Cardinality({t \in Threads : "ops" \in holds[t]}) <= 1

\* The locks a thread waits for, and those who have them.
Wanted(t) ==
  IF Is(t, "lock") THEN {Step(t).lock} ELSE IF Is(t, "chip") \/ Is(t, "call") THEN {"own"} ELSE {}
WaitsFor(t) == {l \in Wanted(t) : sem[l] = 0}
Holders(t) == {h \in Threads : holds[h] \intersect WaitsFor(t) # {}}

\* No order of calls, work, interrupts and resets leaves anybody waiting for
\* ever, with the locks taken one inside the other: there are no threads that wait
\* only for each other, or for a thread that has left with a lock, unless a
\* failure made it leave.  So every call returns, since no function loops for good
\* and a semaphore serves its waiters in turn.
EveryCallReturns ==
  ~leaked =>
    \A S \in SUBSET Threads \ {{}} :
      \E t \in S : WaitsFor(t) = {} \/ \E h \in Holders(t) : h \notin S /\ rest[h] # <<>>
=============================================================================
