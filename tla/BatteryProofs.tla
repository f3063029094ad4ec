----------------------------- MODULE BatteryProofs -----------------------------
(* The vendor gauge: its core for any number of deaths of the daemon and suspend  *)
(* cycles, its timer service for any timers and intervals, its cycle count for    *)
(* any counter, threshold and callers, its watch of the NAFG counter for any time *)
(* limit.                                                                         *)
EXTENDS MCBattery, Sequences, SequenceTheorems, WellFoundedInduction, TLAPS

-----------------------------------------------------------------------------
(* NafgMonitor. *)

LEMMA NafgInit == Nafg!Init => Nafg!IInv
<1> SUFFICES ASSUME Nafg!Init PROVE Nafg!IInv
  OBVIOUS
<1>1. ~is_nafg_broken /\ age <= still
  BY DEF Nafg!Init
<1>2. Nafg!Types
  BY DEF Nafg!Init, Nafg!Types
<1> QED BY <1>1, <1>2 DEF Nafg!IInv, Nafg!AgeIsStill, Nafg!BlamedWhenStill

\* The watch itself: only here is a counter called broken.
LEMMA NafgWatchKeeps == ASSUME Nafg!IInv, Nafg!fg_nafg_monitor PROVE Nafg!IInv'
<1> USE LimitIsMinutes DEF Nafg!IInv, Nafg!Types, Nafg!fg_nafg_monitor, Nafg!Runs
<1>1. Nafg!Types'
  BY DEF Nafg!switches
<1>2. Nafg!AgeIsStill'
  BY DEF Nafg!AgeIsStill
<1>3. Nafg!BlamedWhenStill'
  <2>1. CASE is_nafg_broken
    BY <2>1 DEF Nafg!BlamedWhenStill
  <2>2. CASE ~is_nafg_broken /\ is_nafg_broken'
    <3>1. ~nafg_moved /\ age >= Limit
      BY <2>2
    <3>2. power = "on" => still >= Limit
      BY <3>1 DEF Nafg!AgeIsStill
    <3>3. blame' = [still |-> still, power |-> power]
      BY <2>2
    <3> QED BY <3>2, <3>3 DEF Nafg!BlamedWhenStill
  <2>3. CASE ~is_nafg_broken'
    BY <2>3 DEF Nafg!BlamedWhenStill
  <2> QED BY <2>1, <2>2, <2>3
<1> QED BY <1>1, <1>2, <1>3

LEMMA NafgStep == Nafg!IInv /\ [Nafg!Next]_nafg_vars => Nafg!IInv'
<1> SUFFICES ASSUME Nafg!IInv, [Nafg!Next]_nafg_vars PROVE Nafg!IInv'
  OBVIOUS
<1> USE LimitIsMinutes DEF Nafg!IInv, Nafg!Types, Nafg!AgeIsStill, Nafg!BlamedWhenStill,
        Nafg!switches, Nafg!clockwork
<1>1. CASE Nafg!fg_drv_thread_hrtimer_func \/ Nafg!Starts \/ Nafg!force_get_tbat_internal
           \/ Nafg!force_get_tbat
  BY <1>1 DEF Nafg!fg_drv_thread_hrtimer_func, Nafg!Starts, Nafg!force_get_tbat_internal,
     Nafg!force_get_tbat
<1>2. CASE Nafg!fg_nafg_monitor
  BY <1>2, NafgWatchKeeps
<1>3. CASE Nafg!Counts \/ Nafg!fg_nafg_int_handler
  <2>1. CASE Nafg!Counts
    <3>1. nafg_moved' /\ nafg_moved' \in BOOLEAN
      BY <2>1 DEF Nafg!Counts
    <3> QED BY <2>1, <3>1 DEF Nafg!Counts
  <2>2. CASE Nafg!fg_nafg_int_handler
    BY <2>2 DEF Nafg!fg_nafg_int_handler
  <2> QED BY <1>3, <2>1, <2>2
<1>4. CASE Nafg!Minute
  BY <1>4 DEF Nafg!Minute, Nafg!Capped
<1>5. CASE Nafg!store_Battery_Temperature
  BY <1>5 DEF Nafg!store_Battery_Temperature
<1>6. ASSUME NEW b \in BOOLEAN,
             Nafg!store_FG_ntc_disable_nafg(b) \/ Nafg!store_FG_nafg_disable(b)
      PROVE  Nafg!IInv'
  BY <1>6 DEF Nafg!store_FG_ntc_disable_nafg, Nafg!store_FG_nafg_disable
<1>7. CASE Nafg!battery_suspend \/ Nafg!Wakes \/ Nafg!battery_resume
  BY <1>7 DEF Nafg!battery_suspend, Nafg!Wakes, Nafg!battery_resume
<1>8. CASE UNCHANGED nafg_vars
  BY <1>8 DEF nafg_vars
<1> QED BY <1>1, <1>2, <1>3, <1>4, <1>5, <1>6, <1>7, <1>8 DEF Nafg!Next

-----------------------------------------------------------------------------
(* CycleCount. *)

LEMMA CycleInit == Cycle!Init => Cycle!IInv
<1> SUFFICES ASSUME Cycle!Init PROVE Cycle!IInv
  OBVIOUS
<1>1. Cycle!Types
  <2>1. Cycle!Idle \in [pc : Cycle!Places, coulomb : Int]
    BY DEF Cycle!Idle, Cycle!Places
  <2>2. at \in [Cycle!Threads -> [pc : Cycle!Places, coulomb : Int]]
    BY <2>1 DEF Cycle!Init
  <2>3. overlapped \in BOOLEAN
    BY DEF Cycle!Init
  <2> QED BY <2>2, <2>3 DEF Cycle!Init, Cycle!Types
<1>2. \A t \in Cycle!Threads : at[t].pc = "idle"
  BY DEF Cycle!Init, Cycle!Idle
<1>3. Cycle!Daemon \in Cycle!Threads
  BY DEF Cycle!Threads
<1>4. bat_cycle_ncar + told + (bat_cycle_car - cycle_car) <= out /\ bat_cycle_ncar + told <= out
  BY DEF Cycle!Init
<1> QED BY <1>1, <1>2, <1>3, <1>4 DEF Cycle!IInv, Cycle!OneAtATime, Cycle!ForgotBeforeChip,
   Cycle!CycleIsDischarged, Cycle!NextIsDischarged, Cycle!AddedIsDischarged

\* A step of a thread that has overlapped with no other: the others are idle.
LEMMA CycleAlone ==
  ASSUME NEW t \in Cycle!Threads, ~overlapped',
         overlapped' = (overlapped \/ \E u \in Cycle!Threads \ {t} : at[u].pc # "idle")
  PROVE  ~overlapped /\ \A u \in Cycle!Threads \ {t} : at[u].pc = "idle"
OBVIOUS

LEMMA CycleReadKeeps ==
  ASSUME Cycle!IInv, NEW t \in Cycle!Threads, at[t].pc = "idle", Cycle!Read(t)
  PROVE  Cycle!IInv'
<1> USE DEF Cycle!Read
<1>1. Cycle!Types'
  BY DEF Cycle!IInv, Cycle!Types, Cycle!Places
<1> SUFFICES ASSUME ~overlapped' PROVE Cycle!IInv'
  BY <1>1 DEF Cycle!IInv, Cycle!OneAtATime, Cycle!ForgotBeforeChip,
     Cycle!CycleIsDischarged, Cycle!NextIsDischarged, Cycle!AddedIsDischarged
<1>2. ~overlapped /\ \A u \in Cycle!Threads : at[u].pc = "idle"
  BY CycleAlone
<1>3. /\ bat_cycle_ncar + told + (bat_cycle_car - cycle_car) <= out
      /\ bat_cycle_ncar + told <= out
  BY <1>2 DEF Cycle!IInv, Cycle!NextIsDischarged, Cycle!CycleIsDischarged, Cycle!Threads
<1>4. \A u \in Cycle!Threads : at'[u] = IF u = t THEN [pc |-> "add", coulomb |-> cycle_car] ELSE at[u]
  BY DEF Cycle!IInv, Cycle!Types
<1>5. Cycle!AddedIsDischarged'
  BY <1>2, <1>3, <1>4 DEF Cycle!AddedIsDischarged, Cycle!IInv, Cycle!Types
<1>6. Cycle!OneAtATime' /\ Cycle!ForgotBeforeChip' /\ Cycle!CycleIsDischarged'
  <2>1. Cycle!Daemon \in Cycle!Threads
    BY DEF Cycle!Threads
  <2>2. at'[Cycle!Daemon].pc \in {"idle", "add"}
    BY <1>2, <1>4, <2>1
  <2>3. Cycle!ForgotBeforeChip'
    BY <2>2 DEF Cycle!ForgotBeforeChip
  <2>4. Cycle!OneAtATime'
    BY <1>2, <1>4 DEF Cycle!OneAtATime
  <2>5. Cycle!CycleIsDischarged'
    BY <1>3 DEF Cycle!CycleIsDischarged
  <2> QED BY <2>3, <2>4, <2>5
<1>7. Cycle!NextIsDischarged'
  BY <1>4 DEF Cycle!NextIsDischarged
<1> QED BY <1>1, <1>5, <1>6, <1>7 DEF Cycle!IInv

\* What Goes does to the thread that takes a step.
LEMMA CycleGoes ==
  ASSUME Cycle!Types, NEW t \in Cycle!Threads, NEW to \in Cycle!Places, Cycle!Goes(t, to)
  PROVE  /\ at' \in [Cycle!Threads -> [pc : Cycle!Places, coulomb : Int]]
         /\ \A u \in Cycle!Threads \ {t} : at'[u] = at[u]
         /\ at'[t].pc = to /\ at'[t].coulomb = at[t].coulomb
         /\ overlapped' \in BOOLEAN
         /\ ~overlapped' =>
              ~overlapped /\ \A u \in Cycle!Threads \ {t} : at[u].pc = "idle" /\ at'[u].pc = "idle"
<1> USE DEF Cycle!Goes, Cycle!Types
<1>1. at' = [at EXCEPT ![t].pc = to]
  OBVIOUS
<1>2. overlapped' = (overlapped \/ \E u \in Cycle!Threads \ {t} : at[u].pc # "idle")
  OBVIOUS
<1>3. \A u \in Cycle!Threads \ {t} : at'[u] = at[u]
  BY <1>1
<1>4. ~overlapped' =>
         ~overlapped /\ \A u \in Cycle!Threads \ {t} : at[u].pc = "idle" /\ at'[u].pc = "idle"
  BY <1>2, <1>3
<1>5. overlapped' \in BOOLEAN
  BY <1>2
<1>6. at'[t].pc = to /\ at'[t].coulomb = at[t].coulomb
  BY <1>1
<1>7. at' \in [Cycle!Threads -> [pc : Cycle!Places, coulomb : Int]]
  BY <1>1
<1> QED BY <1>3, <1>4, <1>5, <1>6, <1>7

LEMMA CycleAddKeeps ==
  ASSUME Cycle!IInv, NEW t \in Cycle!Threads, Cycle!Add(t)
  PROVE  Cycle!IInv'
<1> DEFINE c == at[t].coulomb
<1>1. Cycle!Goes(t, "check") /\ at[t].pc = "add" /\ bat_cycle_car' = c
  BY DEF Cycle!Add
<1>2. Cycle!Types /\ "check" \in Cycle!Places
  BY DEF Cycle!IInv, Cycle!Places
<1>3. /\ at' \in [Cycle!Threads -> [pc : Cycle!Places, coulomb : Int]]
      /\ at'[t].pc = "check"
      /\ overlapped' \in BOOLEAN
      /\ ~overlapped' =>
           ~overlapped /\ \A u \in Cycle!Threads \ {t} : at[u].pc = "idle" /\ at'[u].pc = "idle"
  BY <1>1, <1>2, CycleGoes
<1>4. c \in Int /\ bat_cycle_ncar' \in Int
  BY <1>2 DEF Cycle!Types, Cycle!Add
<1>5. Cycle!Types'
  BY <1>1, <1>2, <1>3, <1>4 DEF Cycle!Types, Cycle!Add
<1> SUFFICES ASSUME ~overlapped' PROVE Cycle!IInv'
  BY <1>5 DEF Cycle!IInv, Cycle!OneAtATime, Cycle!ForgotBeforeChip,
     Cycle!CycleIsDischarged, Cycle!NextIsDischarged, Cycle!AddedIsDischarged
<1>6. \A u \in Cycle!Threads : at'[u].pc \in {"idle", "check"}
  BY <1>3
<1>7. \A n \in {bat_cycle_ncar, bat_cycle_ncar + (bat_cycle_car - c)} :
        n + told <= out /\ n + told + (c - cycle_car) <= out
  BY <1>1, <1>3 DEF Cycle!IInv, Cycle!AddedIsDischarged
<1>8. bat_cycle_ncar' \in {bat_cycle_ncar, bat_cycle_ncar + (bat_cycle_car - c)}
  <2>1. bat_cycle_ncar' = IF c - bat_cycle_car > 0 THEN bat_cycle_ncar
                          ELSE bat_cycle_ncar - (c - bat_cycle_car)
    BY DEF Cycle!Add
  <2> QED BY <1>2, <1>4, <2>1 DEF Cycle!Types
<1>9. bat_cycle_ncar' + told' <= out' /\ bat_cycle_ncar' + told' + (bat_cycle_car' - cycle_car') <= out'
  BY <1>1, <1>7, <1>8 DEF Cycle!Add
<1>10. Cycle!CycleIsDischarged' /\ Cycle!NextIsDischarged'
  BY <1>9 DEF Cycle!CycleIsDischarged, Cycle!NextIsDischarged
<1>11. Cycle!AddedIsDischarged'
  BY <1>6 DEF Cycle!AddedIsDischarged
<1>12. Cycle!OneAtATime'
  BY <1>3 DEF Cycle!OneAtATime
<1>13. Cycle!ForgotBeforeChip'
  BY <1>6 DEF Cycle!ForgotBeforeChip, Cycle!Threads
<1> QED BY <1>5, <1>10, <1>11, <1>12, <1>13 DEF Cycle!IInv

LEMMA CycleCheckKeeps ==
  ASSUME Cycle!IInv, NEW t \in Cycle!Threads, Cycle!Check(t)
  PROVE  Cycle!IInv'
<1> DEFINE next == IF t = Cycle!Daemon THEN "forget" ELSE "idle"
<1>1. Cycle!Goes(t, next) /\ at[t].pc = "check"
  BY DEF Cycle!Check
<1>2. Cycle!Types /\ next \in Cycle!Places
  BY DEF Cycle!IInv, Cycle!Places
<1>3. /\ at' \in [Cycle!Threads -> [pc : Cycle!Places, coulomb : Int]]
      /\ at'[t].pc = next
      /\ overlapped' \in BOOLEAN
      /\ ~overlapped' =>
           ~overlapped /\ \A u \in Cycle!Threads \ {t} : at[u].pc = "idle" /\ at'[u].pc = "idle"
  <2> HIDE DEF next
  <2> QED BY <1>1, <1>2, CycleGoes
<1>4. /\ bat_cycle_ncar' + told' = bat_cycle_ncar + told
      /\ bat_cycle_ncar' \in Int /\ told' \in Int
  BY <1>2 DEF Cycle!Types, Cycle!Check
<1>5. Cycle!Types'
  BY <1>2, <1>3, <1>4 DEF Cycle!Types, Cycle!Check
<1> SUFFICES ASSUME ~overlapped' PROVE Cycle!IInv'
  BY <1>5 DEF Cycle!IInv, Cycle!OneAtATime, Cycle!ForgotBeforeChip,
     Cycle!CycleIsDischarged, Cycle!NextIsDischarged, Cycle!AddedIsDischarged
<1>6. \A u \in Cycle!Threads : at'[u].pc \in {"idle", "forget"} /\ at[u].pc \in {"idle", "check"}
  BY <1>1, <1>3
<1>7. Cycle!Daemon \in Cycle!Threads
  BY DEF Cycle!Threads
<1>8. bat_cycle_ncar + told <= out /\ bat_cycle_ncar + told + (bat_cycle_car - cycle_car) <= out
  BY <1>3, <1>6, <1>7 DEF Cycle!IInv, Cycle!CycleIsDischarged, Cycle!NextIsDischarged
<1>9. Cycle!CycleIsDischarged' /\ Cycle!NextIsDischarged'
  BY <1>4, <1>8 DEF Cycle!CycleIsDischarged, Cycle!NextIsDischarged, Cycle!Check
<1>10. Cycle!AddedIsDischarged'
  BY <1>6 DEF Cycle!AddedIsDischarged
<1>11. Cycle!OneAtATime'
  BY <1>3 DEF Cycle!OneAtATime
<1>12. Cycle!ForgotBeforeChip'
  BY <1>6, <1>7 DEF Cycle!ForgotBeforeChip
<1> QED BY <1>5, <1>9, <1>10, <1>11, <1>12 DEF Cycle!IInv

\* The daemon's reset: forget, the chip, forget again.
LEMMA CycleResetKeeps ==
  ASSUME Cycle!IInv, Cycle!Forget \/ Cycle!ResetChip
  PROVE  Cycle!IInv'
<1> DEFINE d == Cycle!Daemon
<1>1. d \in Cycle!Threads /\ Cycle!Types
  BY DEF Cycle!Threads, Cycle!IInv
<1>2. PICK to \in {"chip", "idle", "again"} :
        /\ Cycle!Goes(d, to) /\ at[d].pc \in {"forget", "chip", "again"}
        /\ (to = "again") = (at[d].pc = "chip")
        /\ to = "again" => cycle_car' = 0 /\ bat_cycle_car' = bat_cycle_car
        /\ to # "again" => cycle_car' = cycle_car /\ bat_cycle_car' = 0
        /\ to = "idle" => at[d].pc = "again"
        /\ UNCHANGED <<bat_cycle_ncar, out, told>>
  <2>1. CASE Cycle!Forget
    BY <2>1 DEF Cycle!Forget
  <2>2. CASE Cycle!ResetChip
    BY <2>2 DEF Cycle!ResetChip
  <2> QED BY <2>1, <2>2
<1>3. /\ at' \in [Cycle!Threads -> [pc : Cycle!Places, coulomb : Int]]
      /\ at'[d].pc = to
      /\ overlapped' \in BOOLEAN
      /\ ~overlapped' =>
           ~overlapped /\ \A u \in Cycle!Threads \ {d} : at[u].pc = "idle" /\ at'[u].pc = "idle"
  <2>1. to \in Cycle!Places
    BY DEF Cycle!Places
  <2> HIDE DEF d
  <2> QED BY <1>1, <1>2, <2>1, CycleGoes
<1>4. Cycle!Types'
  <2>1. cycle_car' \in Int /\ bat_cycle_car' \in Int
    <3>1. CASE to = "again"
      BY <1>1, <1>2, <3>1 DEF Cycle!Types
    <3>2. CASE to # "again"
      BY <1>1, <1>2, <3>2 DEF Cycle!Types
    <3> QED BY <3>1, <3>2
  <2>2. bat_cycle_ncar' \in Int /\ out' \in Int /\ told' \in Int
    BY <1>1, <1>2 DEF Cycle!Types
  <2> QED BY <1>3, <2>1, <2>2 DEF Cycle!Types
<1> SUFFICES ASSUME ~overlapped' PROVE Cycle!IInv'
  BY <1>4 DEF Cycle!IInv, Cycle!OneAtATime, Cycle!ForgotBeforeChip,
     Cycle!CycleIsDischarged, Cycle!NextIsDischarged, Cycle!AddedIsDischarged
<1>5. \A u \in Cycle!Threads : at'[u].pc # "add" /\ at[u].pc # "add"
  BY <1>2, <1>3
<1>6. bat_cycle_ncar + told <= out
  BY <1>3 DEF Cycle!IInv, Cycle!CycleIsDischarged
<1>7. to # "chip" => bat_cycle_car = 0
  BY <1>2, <1>3 DEF Cycle!IInv, Cycle!ForgotBeforeChip
<1>8. to = "idle" => bat_cycle_ncar + told + (bat_cycle_car - cycle_car) <= out
  BY <1>2, <1>3, <1>5 DEF Cycle!IInv, Cycle!NextIsDischarged
<1>9. Cycle!CycleIsDischarged'
  BY <1>2, <1>6 DEF Cycle!CycleIsDischarged
<1>10. Cycle!NextIsDischarged'
  <2>1. CASE to = "again"
    <3>1. bat_cycle_car' = 0 /\ cycle_car' = 0
      BY <1>2, <1>7, <2>1
    <3>2. bat_cycle_car' - cycle_car' = 0
      BY <3>1
    <3>3. bat_cycle_ncar' + told' <= out' /\ bat_cycle_ncar' \in Int /\ told' \in Int
      BY <1>1, <1>2, <1>6 DEF Cycle!Types
    <3> QED BY <3>2, <3>3 DEF Cycle!NextIsDischarged
  <2>2. CASE to = "idle"
    BY <1>1, <1>2, <1>7, <1>8, <2>2 DEF Cycle!NextIsDischarged, Cycle!Types
  <2>3. CASE to = "chip"
    BY <1>3, <2>3 DEF Cycle!NextIsDischarged
  <2> QED BY <2>1, <2>2, <2>3
<1>11. Cycle!AddedIsDischarged'
  BY <1>5 DEF Cycle!AddedIsDischarged
<1>12. Cycle!OneAtATime'
  BY <1>3 DEF Cycle!OneAtATime
<1>13. Cycle!ForgotBeforeChip'
  BY <1>2, <1>3, <1>7 DEF Cycle!ForgotBeforeChip
<1> QED BY <1>4, <1>9, <1>10, <1>11, <1>12, <1>13 DEF Cycle!IInv

LEMMA FlowArithmetic ==
  ASSUME NEW n \in Int, NEW c \in Int, NEW v \in Int, NEW w \in Int, NEW p \in Int, NEW q \in Int,
         n <= p, n + (c - v) <= p, p <= q, p - q <= w - v
  PROVE  n <= q /\ n + (c - w) <= q
OBVIOUS

LEMMA CycleFlowKeeps ==
  ASSUME Cycle!IInv, NEW d \in {-1, 1}, Cycle!Flow(d)
  PROVE  Cycle!IInv'
<1>1. /\ cycle_car' = cycle_car + d /\ out' = IF d < 0 THEN out + 1 ELSE out
      /\ UNCHANGED <<bat_cycle_car, bat_cycle_ncar, at, told, overlapped>>
  BY DEF Cycle!Flow
<1>2. out <= out' /\ out - out' <= cycle_car' - cycle_car /\ cycle_car' \in Int /\ out' \in Int
  BY <1>1 DEF Cycle!IInv, Cycle!Types
<1>3. Cycle!Types' /\ Cycle!OneAtATime' /\ Cycle!ForgotBeforeChip'
  BY <1>1, <1>2 DEF Cycle!IInv, Cycle!Types, Cycle!OneAtATime, Cycle!ForgotBeforeChip
<1>4. Cycle!CycleIsDischarged' /\ Cycle!NextIsDischarged'
  BY <1>1, <1>2 DEF Cycle!IInv, Cycle!Types, Cycle!CycleIsDischarged,
     Cycle!NextIsDischarged
<1>5. Cycle!AddedIsDischarged'
  <2> SUFFICES ASSUME ~overlapped, NEW t \in Cycle!Threads, at[t].pc = "add",
                      NEW n \in {bat_cycle_ncar, bat_cycle_ncar + (bat_cycle_car - at[t].coulomb)}
               PROVE  n + told <= out' /\ n + told + (at[t].coulomb - cycle_car') <= out'
    BY <1>1 DEF Cycle!AddedIsDischarged
  <2>1. n + told <= out /\ n + told + (at[t].coulomb - cycle_car) <= out
    BY DEF Cycle!IInv, Cycle!AddedIsDischarged
  <2>2. /\ n \in Int /\ at[t].coulomb \in Int /\ told \in Int /\ out \in Int /\ cycle_car \in Int
        /\ cycle_car' \in Int /\ out' \in Int
    BY <1>2 DEF Cycle!IInv, Cycle!Types
  <2>3. PICK c \in Int : c = at[t].coulomb
    BY <2>2
  <2>4. PICK m \in Int : m = n + told
    BY <2>2
  <2>5. m <= out /\ m + (c - cycle_car) <= out
    BY <2>1, <2>3, <2>4
  <2>6. m <= out' /\ m + (c - cycle_car') <= out'
    BY <1>2, <2>2, <2>5, FlowArithmetic
  <2> QED BY <2>3, <2>4, <2>6
<1> QED BY <1>3, <1>4, <1>5 DEF Cycle!IInv

LEMMA CycleStep == Cycle!IInv /\ [Cycle!Next]_cycle_vars => Cycle!IInv'
<1> SUFFICES ASSUME Cycle!IInv, [Cycle!Next]_cycle_vars PROVE Cycle!IInv'
  OBVIOUS
<1>1. ASSUME NEW t \in Cycle!Threads, Cycle!Accumulate(t) PROVE Cycle!IInv'
  BY <1>1, CycleReadKeeps DEF Cycle!Accumulate
<1>2. CASE Cycle!ResetHw
  BY <1>2, CycleReadKeeps DEF Cycle!ResetHw, Cycle!Threads
<1>3. ASSUME NEW t \in Cycle!Threads, Cycle!Add(t) \/ Cycle!Check(t) PROVE Cycle!IInv'
  BY <1>3, CycleAddKeeps, CycleCheckKeeps
<1>4. CASE Cycle!Forget \/ Cycle!ResetChip
  BY <1>4, CycleResetKeeps
<1>5. ASSUME NEW d \in {-1, 1}, Cycle!Flow(d) PROVE Cycle!IInv'
  BY <1>5, CycleFlowKeeps
<1>6. CASE UNCHANGED cycle_vars
  BY <1>6 DEF cycle_vars, Cycle!IInv, Cycle!Types, Cycle!OneAtATime, Cycle!ForgotBeforeChip,
     Cycle!CycleIsDischarged, Cycle!NextIsDischarged, Cycle!AddedIsDischarged
<1> QED BY <1>1, <1>2, <1>3, <1>4, <1>5, <1>6 DEF Cycle!Next

-----------------------------------------------------------------------------
(* Gm30. *)

\* The steps of the handlers, with the state they depend on as a parameter.
CoreStepOf == [do : Core!Steps, of : Core!Sources]
Promises(q, f) ==
  \A i \in 1..Len(q) :
     q[i].do \in {"disarm", "unflag"} /\ q[i].of # "zcv" /\ (q[i].of # "temp" \/ ~f) =>
        \E j \in (i + 1)..Len(q) : q[j].of = q[i].of /\ q[j].do \in Core!Rearms(q[i].of)
Unflags(q) == \A i \in 1..Len(q) : q[i].do = "unflag" => q[i].of = "iavg"
Yet(q, s) == \E i \in 1..Len(q) : q[i].of = s /\ q[i].do \in Core!Rearms(s)

\* What is left after a step keeps the promises of what was left before it, and the one
\* of the step itself; what had yet to arm a source still has to, or the step did it.
LEMMA TailKeeps ==
  ASSUME NEW q \in Seq(CoreStepOf), q # <<>>, NEW f \in BOOLEAN, Promises(q, f), Unflags(q)
  PROVE  /\ Tail(q) \in Seq(CoreStepOf) /\ Promises(Tail(q), f) /\ Unflags(Tail(q))
         /\ \A s : Yet(q, s) =>
              Yet(Tail(q), s) \/ (Head(q).of = s /\ Head(q).do \in Core!Rearms(s))
         /\ Head(q).do \in {"disarm", "unflag"} /\ Head(q).of # "zcv" /\ (Head(q).of # "temp" \/ ~f) =>
              Yet(Tail(q), Head(q).of)
         /\ Head(q).do = "unflag" => Head(q).of = "iavg"
         /\ Head(q) \in CoreStepOf
<1> DEFINE r == Tail(q)
<1>1. /\ r \in Seq(CoreStepOf) /\ Len(q) \in Nat /\ Len(r) = Len(q) - 1
      /\ \A i \in 1..Len(r) : r[i] = q[i + 1]
      /\ Head(q) = q[1] /\ 1 \in 1..Len(q) /\ q[1] \in CoreStepOf
  OBVIOUS
<1> HIDE DEF r
<1>2. Promises(r, f)
  <2>1. SUFFICES ASSUME NEW i \in 1..Len(r), r[i].do \in {"disarm", "unflag"}, r[i].of # "zcv",
                        r[i].of # "temp" \/ ~f
                 PROVE  \E j \in (i + 1)..Len(r) :
                           r[j].of = r[i].of /\ r[j].do \in Core!Rearms(r[i].of)
    BY DEF Promises
  <2>2. i + 1 \in 1..Len(q) /\ r[i] = q[i + 1]
    BY <1>1
  <2>3. \E j \in ((i + 1) + 1)..Len(q) :
           q[j].of = q[i + 1].of /\ q[j].do \in Core!Rearms(q[i + 1].of)
    BY <2>1, <2>2 DEF Promises
  <2>4. PICK j \in ((i + 1) + 1)..Len(q) :
           q[j].of = q[i + 1].of /\ q[j].do \in Core!Rearms(q[i + 1].of)
    BY <2>3
  <2>5. j - 1 \in (i + 1)..Len(r) /\ r[j - 1] = q[j]
    BY <1>1
  <2> QED BY <2>2, <2>4, <2>5
<1>3. Unflags(r)
  BY <1>1 DEF Unflags
<1>4. ASSUME NEW s, Yet(q, s)
      PROVE  Yet(r, s) \/ (Head(q).of = s /\ Head(q).do \in Core!Rearms(s))
  <2>1. PICK i \in 1..Len(q) : q[i].of = s /\ q[i].do \in Core!Rearms(s)
    BY <1>4 DEF Yet
  <2>2. CASE i = 1
    BY <1>1, <2>1, <2>2
  <2>3. CASE i # 1
    <3>1. i - 1 \in 1..Len(r) /\ r[i - 1] = q[i]
      BY <1>1, <2>3
    <3> QED BY <2>1, <3>1 DEF Yet
  <2> QED BY <2>2, <2>3
<1>5. ASSUME Head(q).do \in {"disarm", "unflag"}, Head(q).of # "zcv", Head(q).of # "temp" \/ ~f
      PROVE  Yet(r, Head(q).of)
  <2>0. \E j \in (1 + 1)..Len(q) : q[j].of = q[1].of /\ q[j].do \in Core!Rearms(q[1].of)
    BY <1>1, <1>5 DEF Promises
  <2>1. PICK j \in 2..Len(q) : q[j].of = q[1].of /\ q[j].do \in Core!Rearms(q[1].of)
    BY <2>0
  <2>2. j - 1 \in 1..Len(r) /\ r[j - 1] = q[j]
    BY <1>1
  <2> QED BY <1>1, <2>1, <2>2 DEF Yet
<1>6. Head(q).do = "unflag" => Head(q).of = "iavg"
  BY <1>1 DEF Unflags
<1> QED BY <1>1, <1>2, <1>3, <1>4, <1>5, <1>6 DEF r

\* One sequence of steps put before another.
LEMMA JoinKeeps ==
  ASSUME NEW p \in Seq(CoreStepOf), NEW q \in Seq(CoreStepOf), NEW f \in BOOLEAN,
         Promises(p, f), Unflags(p), Promises(q, f), Unflags(q)
  PROVE  /\ p \o q \in Seq(CoreStepOf) /\ Promises(p \o q, f) /\ Unflags(p \o q)
         /\ \A s : Yet(p, s) \/ Yet(q, s) => Yet(p \o q, s)
<1> DEFINE r == p \o q
<1>1. r \in Seq(CoreStepOf) /\ Len(p) \in Nat /\ Len(q) \in Nat /\ Len(r) = Len(p) + Len(q)
  BY ConcatProperties
<1>2. \A i \in 1..Len(r) : r[i] = IF i <= Len(p) THEN p[i] ELSE q[i - Len(p)]
  BY ConcatProperties
<1> HIDE DEF r
<1>3. \A i \in 1..Len(p) : i \in 1..Len(r) /\ r[i] = p[i]
  BY <1>1, <1>2
<1>4. \A i \in 1..Len(q) : Len(p) + i \in 1..Len(r) /\ r[Len(p) + i] = q[i]
  <2> TAKE i \in 1..Len(q)
  <2>1. Len(p) + i \in 1..Len(r) /\ ~(Len(p) + i <= Len(p)) /\ (Len(p) + i) - Len(p) = i
    BY <1>1
  <2> QED BY <1>2, <2>1
<1>5. \A i \in 1..Len(r) : i \in 1..Len(p) \/ (i - Len(p) \in 1..Len(q) /\ r[i] = q[i - Len(p)])
  <2> TAKE i \in 1..Len(r)
  <2>1. i \in 1..Len(p) \/ (i - Len(p) \in 1..Len(q) /\ ~(i <= Len(p)))
    BY <1>1
  <2> QED BY <1>2, <2>1
<1>6. Promises(r, f)
  <2>1. SUFFICES ASSUME NEW i \in 1..Len(r), r[i].do \in {"disarm", "unflag"}, r[i].of # "zcv",
                        r[i].of # "temp" \/ ~f
                 PROVE  \E j \in (i + 1)..Len(r) :
                           r[j].of = r[i].of /\ r[j].do \in Core!Rearms(r[i].of)
    BY DEF Promises
  <2>2. CASE i \in 1..Len(p)
    <3>1. PICK j \in (i + 1)..Len(p) : p[j].of = p[i].of /\ p[j].do \in Core!Rearms(p[i].of)
      BY <1>3, <2>1, <2>2 DEF Promises
    <3>2. j \in (i + 1)..Len(r) /\ r[j] = p[j] /\ r[i] = p[i]
      BY <1>1, <1>3, <2>2
    <3> QED BY <3>1, <3>2
  <2>3. CASE i \notin 1..Len(p)
    <3>1. i - Len(p) \in 1..Len(q) /\ r[i] = q[i - Len(p)]
      BY <1>5, <2>3
    <3>2. PICK j \in (i - Len(p) + 1)..Len(q) :
             q[j].of = r[i].of /\ q[j].do \in Core!Rearms(r[i].of)
      BY <2>1, <3>1 DEF Promises
    <3>3. Len(p) + j \in (i + 1)..Len(r) /\ r[Len(p) + j] = q[j]
      BY <1>1, <1>4, <3>1
    <3> QED BY <3>2, <3>3
  <2> QED BY <2>2, <2>3
<1>7. Unflags(r)
  BY <1>3, <1>5 DEF Unflags
<1>8. ASSUME NEW s, Yet(p, s) \/ Yet(q, s) PROVE Yet(r, s)
  <2>1. CASE Yet(p, s)
    <3>1. PICK i \in 1..Len(p) : p[i].of = s /\ p[i].do \in Core!Rearms(s)
      BY <2>1 DEF Yet
    <3> QED BY <1>3, <3>1 DEF Yet
  <2>2. CASE Yet(q, s)
    <3>1. PICK i \in 1..Len(q) : q[i].of = s /\ q[i].do \in Core!Rearms(s)
      BY <2>2 DEF Yet
    <3>2. Len(p) + i \in 1..Len(r) /\ r[Len(p) + i] = q[i]
      BY <1>4
    <3> QED BY <3>1, <3>2 DEF Yet
  <2> QED BY <1>8, <2>1, <2>2
<1> QED BY <1>1, <1>6, <1>7, <1>8 DEF r

\* Every handler, from its first step: only the zero-current one tells before it disarms.
Starts(q) == q \in Seq(CoreStepOf) /\ Promises(q, FALSE) /\ Unflags(q)

\* A step that arms after all those that disarm.
LEMMA ThenArms ==
  ASSUME NEW h \in Seq(CoreStepOf), NEW k \in 1..Len(h), Unflags(h),
         \A i \in 1..Len(h) : h[i].of = h[k].of /\ (h[i].do \in {"disarm", "unflag"} => i < k),
         h[k].do \in Core!Rearms(h[k].of)
  PROVE  Starts(h) /\ h # <<>>
<1>1. Promises(h, FALSE)
  <2> SUFFICES ASSUME NEW i \in 1..Len(h), h[i].do \in {"disarm", "unflag"}
               PROVE  \E j \in (i + 1)..Len(h) :
                         h[j].of = h[i].of /\ h[j].do \in Core!Rearms(h[i].of)
    BY DEF Promises
  <2>1. k \in (i + 1)..Len(h) /\ h[k].of = h[i].of
    OBVIOUS
  <2> QED BY <2>1
<1>2. h # <<>>
  OBVIOUS
<1> QED BY <1>1, <1>2 DEF Starts

LEMMA NoneDisarms ==
  ASSUME NEW h \in Seq(CoreStepOf), Len(h) # 0, Unflags(h),
         \A i \in 1..Len(h) : h[i].do \in {"disarm", "unflag"} => h[i].of = "zcv"
  PROVE  Starts(h) /\ h # <<>>
<1>1. Starts(h)
  BY DEF Promises, Starts
<1>2. h # <<>>
  OBVIOUS
<1> QED BY <1>1, <1>2

LEMMA OnIs ==
  ASSUME NEW s \in Core!Sources, NEW q \in Seq(Core!Steps)
  PROVE  /\ Core!On(s, q) \in Seq(CoreStepOf) /\ Len(Core!On(s, q)) = Len(q)
         /\ \A i \in 1..Len(q) : Core!On(s, q)[i] = [do |-> q[i], of |-> s]
<1>1. DOMAIN q = 1..Len(q) /\ Len(q) \in Nat /\ \A i \in 1..Len(q) : q[i] \in Core!Steps
  OBVIOUS
<1>2. Core!On(s, q) = [i \in 1..Len(q) |-> [do |-> q[i], of |-> s]]
  BY <1>1 DEF Core!On
<1>3. \A i \in 1..Len(q) : [do |-> q[i], of |-> s] \in CoreStepOf
  BY <1>1 DEF CoreStepOf
<1> DEFINE h == [i \in 1..Len(q) |-> [do |-> q[i], of |-> s]]
<1>4. h \in [1..Len(q) -> CoreStepOf] /\ \A i \in 1..Len(q) : h[i] = [do |-> q[i], of |-> s]
  BY <1>3
<1> HIDE DEF h
<1>5. h \in Seq(CoreStepOf) /\ DOMAIN h = 1..Len(q)
  BY <1>1, <1>4
<1>6. Len(h) = Len(q)
  BY <1>1, <1>5
<1>7. Core!On(s, q) = h
  BY <1>2 DEF h
<1> QED BY <1>4, <1>5, <1>6, <1>7

LEMMA OneStepStarts ==
  ASSUME NEW s \in Core!Sources
  PROVE  /\ Starts(Core!On(s, <<"arm">>)) /\ Core!On(s, <<"arm">>) # <<>>
         /\ s = "temp" => Yet(Core!On(s, <<"arm">>), s)
<1> DEFINE q == <<"arm">>  h == Core!On(s, q)
<1>1. q \in Seq(Core!Steps) /\ Len(q) = 1 /\ q[1] = "arm"
  BY DEF Core!Steps
<1> HIDE DEF q
<1>2. h \in Seq(CoreStepOf) /\ Len(h) = 1 /\ h[1] = [do |-> "arm", of |-> s]
  BY <1>1, OnIs
<1> HIDE DEF h
<1>3. Unflags(h)
  BY <1>2 DEF Unflags
<1>4. Len(h) # 0 /\ \A i \in 1..Len(h) : h[i].do \in {"disarm", "unflag"} => h[i].of = "zcv"
  BY <1>2
<1>5. Starts(h) /\ h # <<>>
  BY <1>2, <1>3, <1>4, NoneDisarms
<1>6. Yet(h, s)
  BY <1>2 DEF Yet, Core!Rearms
<1> QED BY <1>5, <1>6 DEF h, q

LEMMA HandlersStart ==
  ASSUME NEW s \in Core!Sources, NEW q \in Core!Handlers(s)
  PROVE  Starts(Core!On(s, q)) /\ Core!On(s, q) # <<>>
<1> DEFINE h == Core!On(s, q)
<1> SUFFICES Starts(h) /\ h # <<>>
  OBVIOUS
<1>0. q \in Seq(Core!Steps) =>
        /\ h \in Seq(CoreStepOf) /\ Len(h) = Len(q)
        /\ \A i \in 1..Len(q) : h[i] = [do |-> q[i], of |-> s]
  BY OnIs
<1> HIDE DEF h
<1>1. CASE s = "zcv"
  <2>1. q = <<"tell", "disarm", "event">> \/ q = <<"event">>
    BY <1>1 DEF Core!Handlers, Core!fg_zcv_int_handler
  <2>2. CASE q = <<"tell", "disarm", "event">>
    <3>1. /\ q \in Seq(Core!Steps) /\ Len(q) = 3
          /\ q[1] = "tell" /\ q[2] = "disarm" /\ q[3] = "event"
      BY <2>2 DEF Core!Steps
    <3>2. /\ h \in Seq(CoreStepOf) /\ Len(h) = 3
          /\ \A i \in 1..3 : h[i].do = q[i] /\ h[i].of = s
      BY <1>0, <3>1
    <3>3. Unflags(h)
      BY <1>1, <3>1, <3>2 DEF Unflags
    <3>4. Len(h) # 0 /\ \A i \in 1..Len(h) : h[i].do \in {"disarm", "unflag"} => h[i].of = "zcv"
      BY <1>1, <3>1, <3>2
    <3> QED BY <3>2, <3>3, <3>4, NoneDisarms
  <2>3. CASE q = <<"event">>
    <3>1. /\ q \in Seq(Core!Steps) /\ Len(q) = 1
          /\ q[1] = "event"
      BY <2>3 DEF Core!Steps
    <3>2. /\ h \in Seq(CoreStepOf) /\ Len(h) = 1
          /\ \A i \in 1..1 : h[i].do = q[i] /\ h[i].of = s
      BY <1>0, <3>1
    <3>3. Unflags(h)
      BY <1>1, <3>1, <3>2 DEF Unflags
    <3>4. Len(h) # 0 /\ \A i \in 1..Len(h) : h[i].do \in {"disarm", "unflag"} => h[i].of = "zcv"
      BY <1>1, <3>1, <3>2
    <3> QED BY <3>2, <3>3, <3>4, NoneDisarms
  <2> QED BY <2>1, <2>2, <2>3
<1>2. CASE s \in {"nafg", "soc"}
  <2>0. q = <<"disarm", "event", "tell">>
    BY <1>2 DEF Core!Handlers, Core!fg_nafg_int_handler, Core!fg_bat_int2_handler
  <2>1. /\ q \in Seq(Core!Steps) /\ Len(q) = 3
        /\ q[1] = "disarm" /\ q[2] = "event" /\ q[3] = "tell"
    BY <2>0 DEF Core!Steps
  <2>2. /\ h \in Seq(CoreStepOf) /\ Len(h) = 3
        /\ \A i \in 1..3 : h[i].do = q[i] /\ h[i].of = s
    BY <1>0, <2>1
  <2>3. Unflags(h)
    BY <1>2, <2>1, <2>2 DEF Unflags
  <2>4. \A i \in 1..Len(h) : h[i].of = h[3].of /\ (h[i].do \in {"disarm", "unflag"} => i < 3)
    BY <2>1, <2>2
  <2>5. h[3].do \in Core!Rearms(h[3].of)
    BY <1>2, <2>1, <2>2 DEF Core!Rearms
  <2>6. 3 \in 1..Len(h)
    BY <2>2
  <2> QED BY <2>2, <2>3, <2>4, <2>5, <2>6, ThenArms
<1>3. CASE s \in {"cycle", "vbat"}
  <2>0. q = <<"disarm", "tell", "event">>
    BY <1>3 DEF Core!Handlers, Core!fg_cycle_int_handler, Core!fg_vbat2_int_handler
  <2>1. /\ q \in Seq(Core!Steps) /\ Len(q) = 3
        /\ q[1] = "disarm" /\ q[2] = "tell" /\ q[3] = "event"
    BY <2>0 DEF Core!Steps
  <2>2. /\ h \in Seq(CoreStepOf) /\ Len(h) = 3
        /\ \A i \in 1..3 : h[i].do = q[i] /\ h[i].of = s
    BY <1>0, <2>1
  <2>3. Unflags(h)
    BY <1>3, <2>1, <2>2 DEF Unflags
  <2>4. \A i \in 1..Len(h) : h[i].of = h[2].of /\ (h[i].do \in {"disarm", "unflag"} => i < 2)
    BY <2>1, <2>2
  <2>5. h[2].do \in Core!Rearms(h[2].of)
    BY <1>3, <2>1, <2>2 DEF Core!Rearms
  <2>6. 2 \in 1..Len(h)
    BY <2>2
  <2> QED BY <2>2, <2>3, <2>4, <2>5, <2>6, ThenArms
<1>4. CASE s = "iavg"
  <2>0. q = <<"unflag", "disarm", "tell", "event">>
    BY <1>4 DEF Core!Handlers, Core!fg_iavg_int_handler
  <2>1. /\ q \in Seq(Core!Steps) /\ Len(q) = 4
        /\ q[1] = "unflag" /\ q[2] = "disarm" /\ q[3] = "tell" /\ q[4] = "event"
    BY <2>0 DEF Core!Steps
  <2>2. /\ h \in Seq(CoreStepOf) /\ Len(h) = 4
        /\ \A i \in 1..4 : h[i].do = q[i] /\ h[i].of = s
    BY <1>0, <2>1
  <2>3. Unflags(h)
    BY <1>4, <2>1, <2>2 DEF Unflags
  <2>4. \A i \in 1..Len(h) : h[i].of = h[3].of /\ (h[i].do \in {"disarm", "unflag"} => i < 3)
    BY <2>1, <2>2
  <2>5. h[3].do \in Core!Rearms(h[3].of)
    BY <1>4, <2>1, <2>2 DEF Core!Rearms
  <2>6. 3 \in 1..Len(h)
    BY <2>2
  <2> QED BY <2>2, <2>3, <2>4, <2>5, <2>6, ThenArms
<1>5. CASE s = "temp"
  <2>1. q = <<"disarm", "tell", "check">> \/ q = <<"disarm", "check">>
    BY <1>5 DEF Core!Handlers, Core!fg_bat_temp_int_internal
  <2>2. CASE q = <<"disarm", "tell", "check">>
    <3>1. /\ q \in Seq(Core!Steps) /\ Len(q) = 3
          /\ q[1] = "disarm" /\ q[2] = "tell" /\ q[3] = "check"
      BY <2>2 DEF Core!Steps
    <3>2. /\ h \in Seq(CoreStepOf) /\ Len(h) = 3
          /\ \A i \in 1..3 : h[i].do = q[i] /\ h[i].of = s
      BY <1>0, <3>1
    <3>3. Unflags(h)
      BY <1>5, <3>1, <3>2 DEF Unflags
    <3>4. \A i \in 1..Len(h) : h[i].of = h[3].of /\ (h[i].do \in {"disarm", "unflag"} => i < 3)
      BY <3>1, <3>2
    <3>5. h[3].do \in Core!Rearms(h[3].of)
      BY <1>5, <3>1, <3>2 DEF Core!Rearms
    <3>6. 3 \in 1..Len(h)
      BY <3>2
    <3> QED BY <3>2, <3>3, <3>4, <3>5, <3>6, ThenArms
  <2>3. CASE q = <<"disarm", "check">>
    <3>1. /\ q \in Seq(Core!Steps) /\ Len(q) = 2
          /\ q[1] = "disarm" /\ q[2] = "check"
      BY <2>3 DEF Core!Steps
    <3>2. /\ h \in Seq(CoreStepOf) /\ Len(h) = 2
          /\ \A i \in 1..2 : h[i].do = q[i] /\ h[i].of = s
      BY <1>0, <3>1
    <3>3. Unflags(h)
      BY <1>5, <3>1, <3>2 DEF Unflags
    <3>4. \A i \in 1..Len(h) : h[i].of = h[2].of /\ (h[i].do \in {"disarm", "unflag"} => i < 2)
      BY <3>1, <3>2
    <3>5. h[2].do \in Core!Rearms(h[2].of)
      BY <1>5, <3>1, <3>2 DEF Core!Rearms
    <3>6. 2 \in 1..Len(h)
      BY <3>2
    <3> QED BY <3>2, <3>3, <3>4, <3>5, <3>6, ThenArms
  <2> QED BY <2>1, <2>2, <2>3
<1>6. CASE s = "car"
  <2>0. q = <<"disarm", "arm", "event", "tell">>
    BY <1>6 DEF Core!Handlers, Core!fg_bat_int1_handler
  <2>1. /\ q \in Seq(Core!Steps) /\ Len(q) = 4
        /\ q[1] = "disarm" /\ q[2] = "arm" /\ q[3] = "event" /\ q[4] = "tell"
    BY <2>0 DEF Core!Steps
  <2>2. /\ h \in Seq(CoreStepOf) /\ Len(h) = 4
        /\ \A i \in 1..4 : h[i].do = q[i] /\ h[i].of = s
    BY <1>0, <2>1
  <2>3. Unflags(h)
    BY <1>6, <2>1, <2>2 DEF Unflags
  <2>4. \A i \in 1..Len(h) : h[i].of = h[2].of /\ (h[i].do \in {"disarm", "unflag"} => i < 2)
    BY <2>1, <2>2
  <2>5. h[2].do \in Core!Rearms(h[2].of)
    BY <1>6, <2>1, <2>2 DEF Core!Rearms
  <2>6. 2 \in 1..Len(h)
    BY <2>2
  <2> QED BY <2>2, <2>3, <2>4, <2>5, <2>6, ThenArms
<1> QED BY <1>1, <1>2, <1>3, <1>4, <1>5, <1>6 DEF Core!Sources

\* A promise kept is kept when more is fixed.
LEMMA FixingKeeps ==
  ASSUME NEW q, NEW f \in BOOLEAN, NEW g \in BOOLEAN, f => g, Promises(q, f)
  PROVE  Promises(q, g)
BY DEF Promises

\* The invariant, in these terms.
CoreKept ==
  /\ \A t \in Core!Threads : Promises(handler[t], fixed) /\ Unflags(handler[t])
  /\ ~disableGM30 =>
       \A s \in followed \ {"zcv"} : Core!LookedAfter(s) =>
          \/ s \in armed
          \/ s # "temp" /\ s \in inbox \cup daemon.todo
          \/ \E t \in Core!Threads : Yet(handler[t], s)
          \/ Core!Resumed(s)

LEMMA CoreInTheseTerms ==
  /\ Core!IInv <=> Core!Types /\ Core!PidIsKnown /\ CoreKept
  /\ Core!IInv' <=> Core!Types' /\ Core!PidIsKnown' /\ CoreKept'
<1>1. Core!IInv <=> Core!Types /\ Core!PidIsKnown /\ CoreKept
  <2> SUFFICES ASSUME Core!Types
               PROVE  Core!HandlerGoesOn /\ Core!UnflagsIavg /\ Core!EachIsKept <=> CoreKept
    BY DEF Core!IInv
  <2>1. \A t \in Core!Threads : DOMAIN handler[t] = 1..Len(handler[t])
    BY DEF Core!Types
  <2>2. Core!HandlerGoesOn <=> \A t \in Core!Threads : Promises(handler[t], fixed)
    BY DEF Core!HandlerGoesOn, Core!KeepsPromises, Core!MustArm, Promises
  <2>3. Core!UnflagsIavg <=> \A t \in Core!Threads : Unflags(handler[t])
    BY DEF Core!UnflagsIavg, Unflags
  <2>4. \A t \in Core!Threads : \A s : Core!HasYetToArm(handler[t], s) <=> Yet(handler[t], s)
    BY <2>1 DEF Core!HasYetToArm, Yet
  <2> QED BY <2>2, <2>3, <2>4 DEF Core!EachIsKept, Core!OnItsWay, CoreKept
<1>2. Core!IInv' <=> Core!Types' /\ Core!PidIsKnown' /\ CoreKept'
  <2> SUFFICES ASSUME Core!Types'
               PROVE  Core!HandlerGoesOn' /\ Core!UnflagsIavg' /\ Core!EachIsKept' <=> CoreKept'
    BY DEF Core!IInv
  <2>1. \A t \in Core!Threads : DOMAIN handler'[t] = 1..Len(handler'[t])
    BY DEF Core!Types
  <2>2. Core!HandlerGoesOn' <=> \A t \in Core!Threads : Promises(handler'[t], fixed')
    BY DEF Core!HandlerGoesOn, Core!KeepsPromises, Core!MustArm, Promises
  <2>3. Core!UnflagsIavg' <=> \A t \in Core!Threads : Unflags(handler'[t])
    BY DEF Core!UnflagsIavg, Unflags
  <2>4. \A t \in Core!Threads : \A s : Core!HasYetToArm(handler'[t], s) <=> Yet(handler'[t], s)
    BY <2>1 DEF Core!HasYetToArm, Yet
  <2> QED BY <2>2, <2>3, <2>4 DEF Core!EachIsKept, Core!OnItsWay, CoreKept
<1> QED BY <1>1, <1>2

LEMMA CoreInit == Core!Init => Core!IInv
<1> SUFFICES ASSUME Core!Init PROVE Core!IInv
  OBVIOUS
<1>1. /\ daemon.at = "dead" /\ daemon.todo = {} /\ fixed = FALSE
      /\ handler = [t \in Core!Threads |-> <<>>]
  BY DEF Core!Init
<1>2. Core!Types
  <2>1. asleep \in BOOLEAN /\ disableGM30 \in BOOLEAN /\ followed \subseteq Core!Sources
    BY DEF Core!Init
  <2>2. daemon \in [at : {"dead", "new", "registered", "running"}, todo : SUBSET Core!Sources]
    BY DEF Core!Init
  <2>3. handler \in [Core!Threads -> Seq([do : Core!Steps, of : Core!Sources])]
    BY <1>1
  <2> QED BY <1>1, <2>1, <2>2, <2>3 DEF Core!Types
<1>3. CoreKept
  <2>1. armed = followed \cap {"temp"}
    BY DEF Core!Init
  <2> QED BY <1>1, <2>1 DEF CoreKept, Promises, Unflags, Core!Registered, Core!LookedAfter
<1>4. Core!PidIsKnown
  BY <1>1 DEF Core!PidIsKnown, Core!Registered
<1> QED BY <1>2, <1>3, <1>4, CoreInTheseTerms

\* One step of a handler.
LEMMA CoreGoesKeeps ==
  ASSUME NEW step, NEW rest \in Seq(CoreStepOf), fixed \in BOOLEAN,
         Promises(rest, fixed), Unflags(rest), NEW p \in Core!Goes(step, rest)
  PROVE  /\ p \in Seq(CoreStepOf) /\ Promises(p, fixed) /\ Unflags(p)
         /\ \A s : Yet(rest, s) => Yet(p, s)
         /\ step = "check" /\ ~fixed => Yet(p, "temp")
<1>0. "temp" \in Core!Sources
  BY DEF Core!Sources
<1>1. ASSUME NEW h, Starts(h), p = h \o rest
      PROVE  /\ p \in Seq(CoreStepOf) /\ Promises(p, fixed) /\ Unflags(p)
             /\ \A s : Yet(rest, s) \/ Yet(h, s) => Yet(p, s)
  <2>1. h \in Seq(CoreStepOf) /\ Unflags(h) /\ Promises(h, FALSE)
    BY <1>1 DEF Starts
  <2>2. Promises(h, fixed)
    BY <2>1, FixingKeeps
  <2> QED BY <1>1, <2>1, <2>2, JoinKeeps
<1>2. CASE step = "event"
  <2>1. p = rest \/ \E q \in Core!fg_bat_temp_int_internal : p = Core!On("temp", q) \o rest
    BY <1>2 DEF Core!Goes, Core!fg_int_event
  <2>2. ASSUME NEW q \in Core!fg_bat_temp_int_internal, p = Core!On("temp", q) \o rest
        PROVE  /\ p \in Seq(CoreStepOf) /\ Promises(p, fixed) /\ Unflags(p)
               /\ \A s : Yet(rest, s) => Yet(p, s)
    <3>1. q \in Core!Handlers("temp")
      BY DEF Core!Handlers
    <3>2. Starts(Core!On("temp", q))
      BY <1>0, <3>1, HandlersStart
    <3> QED BY <1>1, <2>2, <3>2
  <2> QED BY <1>2, <2>1, <2>2
<1>3. CASE step = "check" /\ ~fixed
  <2> DEFINE h == Core!On("temp", <<"arm">>)
  <2>1. p = h \o rest
    BY <1>3 DEF Core!Goes
  <2>2. Starts(h) /\ Yet(h, "temp")
    BY <1>0, OneStepStarts
  <2> HIDE DEF h
  <2> QED BY <1>1, <2>1, <2>2
<1>4. CASE step # "event" /\ ~(step = "check" /\ ~fixed)
  <2>1. p = rest
    BY <1>4 DEF Core!Goes
  <2> QED BY <1>4, <2>1
<1> QED BY <1>2, <1>3, <1>4

LEMMA CoreHandlerKeeps ==
  ASSUME Core!IInv, NEW t \in Core!Threads, Core!HandlerStep(t)
  PROVE  Core!IInv'
<1> DEFINE q == handler[t]  r == Tail(q)  step == Head(q).do  s == Head(q).of
<1>1. Core!Types /\ Core!PidIsKnown /\ CoreKept
  BY CoreInTheseTerms
<1>2. /\ q \in Seq(CoreStepOf) /\ q # <<>> /\ fixed \in BOOLEAN
      /\ Promises(q, fixed) /\ Unflags(q)
  BY <1>1 DEF Core!Types, CoreStepOf, CoreKept, Core!HandlerStep
<1>3. /\ r \in Seq(CoreStepOf) /\ Promises(r, fixed) /\ Unflags(r)
      /\ \A x : Yet(q, x) => Yet(r, x) \/ (s = x /\ step \in Core!Rearms(x))
      /\ step \in {"disarm", "unflag"} /\ s # "zcv" /\ (s # "temp" \/ ~fixed) => Yet(r, s)
      /\ step = "unflag" => s = "iavg"
      /\ Head(q) \in CoreStepOf
  BY <1>2, TailKeeps
<1>4. PICK p \in Core!Goes(step, r) : handler' = [handler EXCEPT ![t] = p]
  BY DEF Core!HandlerStep
<1>5. /\ step = "tell" => Core!wakeup_fg_algo(s)
      /\ step # "tell" => inbox' = inbox
      /\ armed' = CASE step = "disarm" -> armed \ {s}
                    [] step = "arm" /\ (s = "temp" \/ ~disableGM30) -> armed \cup {s}
                    [] OTHER -> armed
      /\ iavg_intr_flag' = (iavg_intr_flag /\ step # "unflag")
      /\ followed' = followed /\ daemon' = daemon /\ fgd_pid' = fgd_pid
      /\ disableGM30' = disableGM30 /\ fixed' = fixed /\ asleep' = asleep
  BY DEF Core!HandlerStep
<1> HIDE DEF r, step, s
<1>6. /\ p \in Seq(CoreStepOf) /\ Promises(p, fixed) /\ Unflags(p)
      /\ \A x : Yet(r, x) => Yet(p, x)
      /\ step = "check" /\ ~fixed => Yet(p, "temp")
  BY <1>2, <1>3, CoreGoesKeeps
<1> HIDE DEF q
<1>7. Core!Types'
  <2>1. handler' \in [Core!Threads -> Seq(CoreStepOf)]
    BY <1>1, <1>4, <1>6 DEF Core!Types, CoreStepOf
  <2> QED BY <1>1, <1>5, <2>1 DEF Core!Types, CoreStepOf
<1>8. Core!PidIsKnown'
  BY <1>1, <1>5 DEF Core!PidIsKnown, Core!Registered
<1>9. /\ handler \in [Core!Threads -> Seq(CoreStepOf)]
      /\ handler'[t] = p /\ \A u \in Core!Threads \ {t} : handler'[u] = handler[u]
  BY <1>1, <1>4 DEF Core!Types, CoreStepOf
<1>10. \A u \in Core!Threads : Promises(handler'[u], fixed') /\ Unflags(handler'[u])
  BY <1>1, <1>5, <1>6, <1>9 DEF CoreKept
<1>11. inbox \subseteq inbox'
  BY <1>5 DEF Core!wakeup_fg_algo
<1>12. ASSUME ~disableGM30', NEW x \in followed' \ {"zcv"}, Core!LookedAfter(x)'
       PROVE  \/ x \in armed'
              \/ x # "temp" /\ x \in inbox' \cup daemon'.todo
              \/ \E u \in Core!Threads : Yet(handler'[u], x)
              \/ Core!Resumed(x)'
  <2>0. /\ ~disableGM30 /\ x \in followed \ {"zcv"} /\ Core!LookedAfter(x)
        /\ (x # "temp" => Core!Registered) /\ (x # "temp" \/ ~fixed)
    BY <1>5, <1>12 DEF Core!Registered, Core!LookedAfter
  <2>1. \/ x \in armed
        \/ x # "temp" /\ x \in inbox \cup daemon.todo
        \/ \E u \in Core!Threads : Yet(handler[u], x)
        \/ Core!Resumed(x)
    BY <1>1, <2>0 DEF CoreKept
  <2>2. CASE x \in armed
    <3>1. x \in armed' \/ (step = "disarm" /\ s = x)
      BY <1>5, <2>2
    <3>2. step = "disarm" /\ s = x => Yet(p, x)
      BY <1>3, <1>6, <2>0
    <3> QED BY <1>9, <3>1, <3>2
  <2>3. CASE x # "temp" /\ x \in inbox \cup daemon.todo
    BY <1>5, <1>11, <2>3
  <2>4. CASE \E u \in Core!Threads : Yet(handler[u], x)
    <3>1. PICK u \in Core!Threads : Yet(handler[u], x)
      BY <2>4
    <3>2. CASE u # t
      BY <1>9, <3>1, <3>2
    <3>3. CASE u = t
      <4>1. Yet(p, x) \/ (s = x /\ step \in Core!Rearms(x))
        BY <1>3, <1>6, <3>1, <3>3 DEF q
      <4>2. CASE s = x /\ step = "arm"
        <5>1. x \in armed'
          BY <1>5, <2>0, <4>2
        <5> QED BY <5>1
      <4>3. CASE s = x /\ step = "tell" /\ x # "temp"
        <5>1. fgd_pid = "alive"
          BY <1>1, <2>0, <4>3 DEF Core!PidIsKnown
        <5>2. x \in inbox'
          BY <1>5, <2>0, <4>3, <5>1 DEF Core!wakeup_fg_algo
        <5> QED BY <4>3, <5>2
      <4>4. CASE step = "check" /\ x = "temp"
        BY <1>6, <1>9, <2>0, <4>4
      <4>5. CASE Yet(p, x)
        BY <1>9, <4>5
      <4> QED BY <4>1, <4>2, <4>3, <4>4, <4>5 DEF Core!Rearms
    <3> QED BY <3>2, <3>3
  <2>5. CASE Core!Resumed(x)
    <3>1. CASE step = "unflag" /\ x = "iavg"
      <4>1. Yet(p, x)
        BY <1>3, <1>6, <3>1
      <4> QED BY <1>9, <4>1
    <3>2. CASE ~(step = "unflag" /\ x = "iavg")
      <4>1. Core!Resumed(x)'
        BY <1>3, <1>5, <2>5, <3>2 DEF Core!Resumed
      <4> QED BY <4>1
    <3> QED BY <3>1, <3>2
  <2> QED BY <2>1, <2>2, <2>3, <2>4, <2>5
<1>13. CoreKept'
  BY <1>10, <1>12 DEF CoreKept
<1> QED BY <1>7, <1>8, <1>13, CoreInTheseTerms

\* The daemon's commands leave the handlers alone.
LEMMA CoreDaemonKeeps ==
  ASSUME Core!IInv, UNCHANGED <<handler, followed, fixed, asleep, disableGM30>>,
         Core!Types', Core!PidIsKnown', ~disableGM30 => armed \subseteq armed',
         iavg_intr_flag => iavg_intr_flag',
         ~disableGM30 /\ Core!Registered' =>
           \A s \in followed \ {"zcv", "temp"} :
              \/ s \in daemon'.todo
              \/ /\ Core!Registered
                 /\ s \in inbox \cup daemon.todo => s \in armed' \cup inbox' \cup daemon'.todo
  PROVE  Core!IInv'
<1>1. CoreKept
  BY CoreInTheseTerms
<1>2. \A t \in Core!Threads : Promises(handler'[t], fixed') /\ Unflags(handler'[t])
  BY <1>1 DEF CoreKept
<1>3. ASSUME ~disableGM30', NEW x \in followed' \ {"zcv"}, Core!LookedAfter(x)'
      PROVE  \/ x \in armed'
             \/ x # "temp" /\ x \in inbox' \cup daemon'.todo
             \/ \E u \in Core!Threads : Yet(handler'[u], x)
             \/ Core!Resumed(x)'
  <2>1. CASE x # "temp" /\ x \in daemon'.todo
    BY <2>1
  <2>2. CASE x = "temp" \/ x \notin daemon'.todo
    <3>1. ~disableGM30 /\ x \in followed \ {"zcv"} /\ Core!LookedAfter(x)
      BY <1>3, <2>2 DEF Core!LookedAfter
    <3>2. \/ x \in armed
          \/ x # "temp" /\ x \in inbox \cup daemon.todo
          \/ \E u \in Core!Threads : Yet(handler[u], x)
          \/ Core!Resumed(x)
      BY <1>1, <3>1 DEF CoreKept
    <3>3. x # "temp" /\ x \in inbox \cup daemon.todo => x \in armed' \cup inbox' \cup daemon'.todo
      BY <1>3, <2>2, <3>1 DEF Core!LookedAfter
    <3>4. Core!Resumed(x) => Core!Resumed(x)'
      BY DEF Core!Resumed
    <3> QED BY <3>1, <3>2, <3>3, <3>4
  <2> QED BY <2>1, <2>2
<1>4. CoreKept'
  BY <1>2, <1>3 DEF CoreKept
<1> QED BY <1>4, CoreInTheseTerms

\* The commands that only write what the sources do not depend on.
LEMMA CoreSmallKeeps ==
  ASSUME Core!IInv,
         \/ Core!DaemonStarts \/ Core!SetInitFlag \/ Core!SetKernelUisoc \/ Core!DaemonDies
  PROVE  Core!IInv'
<1>1. Core!Types /\ Core!PidIsKnown
  BY DEF Core!IInv
<1>2. Core!Types'
  <2>1. UNCHANGED <<followed, asleep, disableGM30, fixed, handler>>
    BY DEF Core!DaemonStarts, Core!SetInitFlag, Core!SetKernelUisoc, Core!DaemonDies
  <2>2. daemon' \in [at : {"dead", "new", "registered", "running"}, todo : SUBSET Core!Sources]
    BY <1>1 DEF Core!Types, Core!DaemonStarts, Core!SetInitFlag, Core!SetKernelUisoc,
                Core!DaemonDies
  <2> QED BY <1>1, <2>1, <2>2 DEF Core!Types
<1>3. Core!PidIsKnown'
  BY <1>1 DEF Core!Types, Core!PidIsKnown, Core!Registered, Core!DaemonStarts, Core!SetInitFlag,
              Core!SetKernelUisoc, Core!DaemonDies
<1>4. UNCHANGED <<handler, followed, fixed, asleep, disableGM30, armed, iavg_intr_flag>>
  BY DEF Core!DaemonStarts, Core!SetInitFlag, Core!SetKernelUisoc, Core!DaemonDies
<1>5. Core!Registered' => Core!Registered /\ inbox' = inbox /\ daemon'.todo = daemon.todo
  BY <1>1 DEF Core!Types, Core!Registered, Core!DaemonStarts, Core!SetInitFlag,
              Core!SetKernelUisoc, Core!DaemonDies
<1> QED BY <1>2, <1>3, <1>4, <1>5, CoreDaemonKeeps

LEMMA CoreCommandKeeps ==
  ASSUME Core!IInv,
         \/ Core!SetDaemonPid
         \/ \E s \in Core!Sources : Core!Arm(s) \/ Core!TakeNotice(s)
  PROVE  Core!IInv'
<1>1. Core!Types /\ Core!PidIsKnown
  BY DEF Core!IInv
<1>2. CASE Core!SetDaemonPid
  <2>1. Core!Types'
    BY <1>1, <1>2 DEF Core!Types, Core!SetDaemonPid
  <2>2. Core!PidIsKnown'
    BY <1>2 DEF Core!PidIsKnown, Core!SetDaemonPid
  <2>3. UNCHANGED <<handler, followed, fixed, asleep, disableGM30, armed, iavg_intr_flag>>
    BY <1>2 DEF Core!SetDaemonPid
  <2>4. daemon'.todo = followed
    BY <1>2 DEF Core!SetDaemonPid
  <2> QED BY <2>1, <2>2, <2>3, <2>4, CoreDaemonKeeps
<1>3. ASSUME NEW s \in Core!Sources, Core!Arm(s) PROVE Core!IInv'
  <2>1. Core!Types'
    BY <1>1, <1>3 DEF Core!Types, Core!Arm
  <2>2. Core!PidIsKnown'
    BY <1>1, <1>3 DEF Core!Types, Core!PidIsKnown, Core!Registered, Core!Arm
  <2>3. UNCHANGED <<handler, followed, fixed, asleep, disableGM30, inbox>>
    BY <1>3 DEF Core!Arm
  <2>4. /\ armed \subseteq armed' /\ (iavg_intr_flag => iavg_intr_flag')
        /\ ~disableGM30 /\ s # "temp" => s \in armed'
    BY <1>3 DEF Core!Arm
  <2>5. daemon'.todo = daemon.todo \ {s} /\ daemon'.at = daemon.at
    BY <1>1, <1>3 DEF Core!Types, Core!Arm
  <2>6. Core!Registered' <=> Core!Registered
    BY <2>5 DEF Core!Registered
  <2> QED BY <2>1, <2>2, <2>3, <2>4, <2>5, <2>6, CoreDaemonKeeps
<1>4. ASSUME NEW s \in Core!Sources, Core!TakeNotice(s) PROVE Core!IInv'
  <2>1. Core!Types'
    BY <1>1, <1>4 DEF Core!Types, Core!TakeNotice
  <2>2. Core!PidIsKnown'
    BY <1>1, <1>4 DEF Core!Types, Core!PidIsKnown, Core!Registered, Core!TakeNotice
  <2>3. UNCHANGED <<handler, followed, fixed, asleep, disableGM30, armed, iavg_intr_flag>>
    BY <1>4 DEF Core!TakeNotice
  <2>4. /\ daemon'.todo = daemon.todo \cup {s} /\ daemon'.at = daemon.at
        /\ inbox' = inbox \ {s}
    BY <1>1, <1>4 DEF Core!Types, Core!TakeNotice
  <2>5. Core!Registered' <=> Core!Registered
    BY <2>4 DEF Core!Registered
  <2> QED BY <2>1, <2>2, <2>3, <2>4, <2>5, CoreDaemonKeeps
<1> QED BY <1>2, <1>3, <1>4

\* A handler put into a thread that has none; the sources stay as they are, or the one
\* the handler is about is no longer looked after.
LEMMA CoreStartsKeeps ==
  ASSUME Core!IInv, NEW t \in Core!Threads, handler[t] = <<>>,
         NEW h, h \in Seq(CoreStepOf), Promises(h, fixed'), Unflags(h),
         handler' = [handler EXCEPT ![t] = h], fixed' \in BOOLEAN, fixed => fixed',
         UNCHANGED <<followed, armed, inbox, daemon, fgd_pid, disableGM30, iavg_intr_flag, asleep>>
  PROVE  Core!IInv'
<1>1. Core!Types /\ Core!PidIsKnown /\ CoreKept
  BY CoreInTheseTerms
<1>2. /\ handler \in [Core!Threads -> Seq(CoreStepOf)] /\ fixed \in BOOLEAN
      /\ handler'[t] = h /\ \A u \in Core!Threads \ {t} : handler'[u] = handler[u]
  BY <1>1 DEF Core!Types, CoreStepOf
<1>3. Core!Types'
  <2>1. handler' \in [Core!Threads -> Seq(CoreStepOf)]
    BY <1>2
  <2> QED BY <1>1, <2>1 DEF Core!Types, CoreStepOf
<1>4. Core!PidIsKnown'
  BY <1>1 DEF Core!PidIsKnown, Core!Registered
<1>5. \A u \in Core!Threads : Promises(handler'[u], fixed') /\ Unflags(handler'[u])
  <2> TAKE u \in Core!Threads
  <2>1. CASE u = t
    BY <1>2, <2>1
  <2>2. CASE u # t
    <3>1. Promises(handler[u], fixed) /\ Unflags(handler[u]) /\ handler'[u] = handler[u]
      BY <1>1, <1>2, <2>2 DEF CoreKept
    <3>2. Promises(handler[u], fixed')
      BY <1>2, <3>1, FixingKeeps
    <3> QED BY <3>1, <3>2
  <2> QED BY <2>1, <2>2
<1>6. \A x : ~Yet(handler[t], x)
  BY DEF Yet
<1>7. \A x : (\E u \in Core!Threads : Yet(handler[u], x)) =>
                \E u \in Core!Threads : Yet(handler'[u], x)
  BY <1>2, <1>6
<1>8. \A x : Core!LookedAfter(x)' => Core!LookedAfter(x)
  BY DEF Core!LookedAfter, Core!Registered
<1>9. \A x : Core!Resumed(x)' <=> Core!Resumed(x)
  BY DEF Core!Resumed
<1>10. CoreKept'
  BY <1>1, <1>5, <1>7, <1>8, <1>9 DEF CoreKept
<1> QED BY <1>3, <1>4, <1>10, CoreInTheseTerms

\* On a disabled gauge there is nothing to keep.
LEMMA CoreDisabledKeeps ==
  ASSUME Core!IInv, UNCHANGED <<handler, followed, daemon, fgd_pid, asleep, fixed>>, disableGM30' = TRUE
  PROVE  Core!IInv'
<1>1. Core!Types /\ Core!PidIsKnown /\ CoreKept
  BY CoreInTheseTerms
<1>2. Core!Types'
  BY <1>1 DEF Core!Types
<1>3. Core!PidIsKnown'
  BY <1>1 DEF Core!PidIsKnown, Core!Registered
<1>4. CoreKept'
  BY <1>1 DEF CoreKept
<1> QED BY <1>2, <1>3, <1>4, CoreInTheseTerms

\* An interrupt.
LEMMA CoreFireKeeps ==
  ASSUME Core!IInv, NEW s \in Core!Sources, Core!Fire(s)
  PROVE  Core!IInv'
<1>1. Core!Types
  BY DEF Core!IInv
<1>2. Core!ThreadOf(s) \in Core!Threads
  BY DEF Core!ThreadOf, Core!Threads
<1>3. CASE ~disableGM30
  <2>1. PICK q \in Core!Handlers(s) :
           handler' = [handler EXCEPT ![Core!ThreadOf(s)] = Core!On(s, q)]
    BY <1>3 DEF Core!Fire
  <2> DEFINE h == Core!On(s, q)
  <2>2. Starts(h)
    BY HandlersStart
  <2>3. /\ handler[Core!ThreadOf(s)] = <<>>
        /\ UNCHANGED <<followed, armed, inbox, daemon, fgd_pid, disableGM30, iavg_intr_flag,
                       fixed, asleep>>
    BY <1>3 DEF Core!Fire
  <2>4. handler' = [handler EXCEPT ![Core!ThreadOf(s)] = h]
    BY <2>1
  <2> HIDE DEF h
  <2>5. h \in Seq(CoreStepOf) /\ Promises(h, FALSE) /\ Unflags(h)
    BY <2>2 DEF Starts
  <2>6. fixed' \in BOOLEAN /\ (fixed => fixed')
    BY <1>1, <2>3 DEF Core!Types
  <2>7. Promises(h, fixed')
    BY <2>5, <2>6, FixingKeeps
  <2> QED BY <1>2, <2>3, <2>4, <2>5, <2>6, <2>7, CoreStartsKeeps
<1>4. CASE disableGM30
  <2>1. /\ UNCHANGED <<handler, followed, daemon, fgd_pid, asleep, fixed>>
        /\ disableGM30' = TRUE \/ disableGM30' = disableGM30
    BY <1>4 DEF Core!Fire, Core!disable_fg
  <2>2. disableGM30' = TRUE
    BY <1>1, <1>4, <2>1 DEF Core!Types
  <2> QED BY <2>1, <2>2, CoreDisabledKeeps
<1> QED BY <1>3, <1>4

\* The file Battery_Temperature.
LEMMA CoreFixKeeps ==
  ASSUME Core!IInv, Core!store_Battery_Temperature
  PROVE  Core!IInv'
<1> DEFINE q == <<"disarm", "tell">>  h == Core!On("temp", q)
<1>1. q \in Seq(Core!Steps) /\ Len(q) = 2 /\ q[1] = "disarm" /\ q[2] = "tell"
  BY DEF Core!Steps
<1>2. "temp" \in Core!Sources /\ "sysfs" \in Core!Threads
  BY DEF Core!Sources, Core!Threads
<1>3. /\ handler["sysfs"] = <<>> /\ fixed' = TRUE
      /\ handler' = [handler EXCEPT !["sysfs"] = h]
      /\ UNCHANGED <<followed, armed, inbox, daemon, fgd_pid, disableGM30, iavg_intr_flag, asleep>>
  BY DEF Core!store_Battery_Temperature
<1> HIDE DEF q
<1>4. /\ h \in Seq(CoreStepOf) /\ Len(h) = 2
      /\ \A i \in 1..2 : h[i] = [do |-> q[i], of |-> "temp"]
  BY <1>1, <1>2, OnIs
<1> HIDE DEF h
<1>5. Unflags(h)
  BY <1>1, <1>4 DEF Unflags
<1>6. Promises(h, fixed')
  BY <1>3, <1>4 DEF Promises
<1> QED BY <1>2, <1>3, <1>4, <1>5, <1>6, CoreStartsKeeps

\* Suspend and resume.
LEMMA CoreSleepKeeps ==
  ASSUME Core!IInv, Core!battery_suspend \/ Core!battery_resume
  PROVE  Core!IInv'
<1>1. Core!Types /\ Core!PidIsKnown /\ CoreKept
  BY CoreInTheseTerms
<1>2. /\ UNCHANGED <<followed, handler, inbox, daemon, fgd_pid, disableGM30, iavg_intr_flag, fixed>>
      /\ asleep' \in BOOLEAN
  BY DEF Core!battery_suspend, Core!battery_resume
<1>3. Core!Types'
  BY <1>1, <1>2 DEF Core!Types
<1>4. Core!PidIsKnown'
  BY <1>1, <1>2 DEF Core!PidIsKnown, Core!Registered
<1>5. \A x : (Core!LookedAfter(x)' <=> Core!LookedAfter(x))
  BY <1>2 DEF Core!LookedAfter, Core!Registered
<1>6. ASSUME NEW x \in followed, x \in armed \/ Core!Resumed(x)
      PROVE  x \in armed' \/ Core!Resumed(x)'
  <2>1. CASE Core!battery_suspend
    BY <1>1, <1>2, <1>6, <2>1 DEF Core!battery_suspend, Core!Resumed
  <2>2. CASE Core!battery_resume
    BY <1>1, <1>2, <1>6, <2>2 DEF Core!battery_resume, Core!Resumed
  <2> QED BY <2>1, <2>2
<1>7. CoreKept'
  BY <1>1, <1>2, <1>5, <1>6 DEF CoreKept
<1> QED BY <1>3, <1>4, <1>7, CoreInTheseTerms

LEMMA CoreStep == Core!IInv /\ [Core!Next]_core_vars => Core!IInv'
<1> SUFFICES ASSUME Core!IInv, [Core!Next]_core_vars PROVE Core!IInv'
  OBVIOUS
<1>1. CASE UNCHANGED core_vars
  <2>1. UNCHANGED <<followed, armed, handler, inbox, daemon, fgd_pid, disableGM30, iavg_intr_flag,
                    fixed, asleep>>
    BY <1>1 DEF core_vars
  <2> QED BY <2>1 DEF Core!IInv, Core!Types, Core!HandlerGoesOn, Core!KeepsPromises, Core!MustArm,
                      Core!UnflagsIavg, Core!PidIsKnown, Core!EachIsKept, Core!OnItsWay,
                      Core!HasYetToArm, Core!Resumed, Core!LookedAfter, Core!Registered
<1>2. ASSUME NEW s \in Core!Sources, Core!Fire(s) PROVE Core!IInv'
  BY <1>2, CoreFireKeeps
<1>3. ASSUME NEW s \in Core!Sources, Core!Arm(s) \/ Core!TakeNotice(s) PROVE Core!IInv'
  BY <1>3, CoreCommandKeeps
<1>4. ASSUME NEW t \in Core!Threads, Core!HandlerStep(t) PROVE Core!IInv'
  BY <1>4, CoreHandlerKeeps
<1>5. CASE Core!StoreDaemonDisable
  <2>1. UNCHANGED <<handler, followed, daemon, fgd_pid, asleep, fixed>> /\ disableGM30' = TRUE
    BY <1>5 DEF Core!StoreDaemonDisable, Core!disable_fg
  <2> QED BY <2>1, CoreDisabledKeeps
<1>6. CASE Core!store_Battery_Temperature
  BY <1>6, CoreFixKeeps
<1>7. CASE Core!SetDaemonPid
  BY <1>7, CoreCommandKeeps
<1>8. CASE \/ Core!DaemonStarts \/ Core!SetInitFlag \/ Core!SetKernelUisoc \/ Core!DaemonDies
  BY <1>8, CoreSmallKeeps
<1>9. CASE Core!battery_suspend \/ Core!battery_resume
  BY <1>9, CoreSleepKeeps
<1> QED BY <1>1, <1>2, <1>3, <1>4, <1>5, <1>6, <1>7, <1>8, <1>9 DEF Core!Next

LEMMA CoreKeepsAll == Core!IInv => NoSourceIsForgotten
<1> SUFFICES ASSUME Core!IInv PROVE NoSourceIsForgotten
  OBVIOUS
<1>1. Core!EachIsKept
  BY DEF Core!IInv
<1> QED BY <1>1 DEF NoSourceIsForgotten, Core!NoSourceIsForgotten, Core!EachIsKept,
                    Core!LookedAfter, Core!Registered, Core!Resumed

-----------------------------------------------------------------------------
(* TimerService. *)

LEMMA Least ==
  ASSUME NEW S \in SUBSET Nat, S # {}
  PROVE  \E m \in S : \A k \in S : m <= k
<1> DEFINE R == OpToRel(<, Nat)
<1>1. IsWellFoundedOn(R, Nat)
  BY NatLessThanWellFounded
<1>2. \A x, y \in S : y < x => <<y, x>> \in R
  BY DEF OpToRel
<1> HIDE DEF R
<1>3. \E x \in S : \A y \in S : ~(<<y, x>> \in R)
  BY <1>1, WFMin
<1>4. \E x \in S : \A y \in S : ~(y < x)
  BY <1>2, <1>3, Zenon
<1>5. S \subseteq Nat
  OBVIOUS
<1> QED BY <1>4, <1>5

\* Of a list with timers one is first, and the hrtimer that is started for it covers all.
LEMMA FirstCoversAll ==
  ASSUME NEW e \in [Timers -> Nat \cup {Timer!Idle}], NEW time \in Nat,
         \E t \in Timers : e[t] # Timer!Idle
  PROVE  /\ Timer!First(e) # {}
         /\ Timer!StartFirst(e, time) \in Nat \ {0}
         /\ \A t \in Timers : e[t] # Timer!Idle =>
              Timer!StartFirst(e, time) <= Timer!AtLeastOne(e[t] - time)
<1> DEFINE S == {e[t] : t \in {u \in Timers : e[u] # Timer!Idle}}
<1>1. S \in SUBSET Nat /\ S # {}
  OBVIOUS
<1>2. PICK m \in S : \A k \in S : m <= k
  BY <1>1, Least
<1>3. Timer!First(e) # {}
  BY <1>1, <1>2 DEF Timer!First
<1>4. PICK f \in Timer!First(e) : f = CHOOSE t \in Timer!First(e) : TRUE
  BY <1>3
<1>5. Timer!StartFirst(e, time) = Timer!AtLeastOne(e[f] - time)
  BY <1>3, <1>4 DEF Timer!StartFirst
<1>6. f \in Timers /\ e[f] \in Nat /\ \A t \in Timers : e[t] # Timer!Idle => e[f] <= e[t]
  BY DEF Timer!First
<1>7. Timer!AtLeastOne(e[f] - time) \in Nat \ {0}
  BY <1>6 DEF Timer!AtLeastOne
<1>8. ASSUME NEW t \in Timers, e[t] # Timer!Idle
      PROVE  Timer!AtLeastOne(e[f] - time) <= Timer!AtLeastOne(e[t] - time)
  <2>1. e[t] \in Nat /\ e[f] <= e[t]
    BY <1>6, <1>8
  <2> QED BY <1>6, <2>1 DEF Timer!AtLeastOne
<1> QED BY <1>3, <1>5, <1>7, <1>8

LEMMA NothingToStart ==
  ASSUME NEW e \in [Timers -> Nat \cup {Timer!Idle}], NEW time \in Nat,
         ~\E t \in Timers : e[t] # Timer!Idle
  PROVE  Timer!StartFirst(e, time) = Timer!Idle
BY DEF Timer!StartFirst, Timer!First

LEMMA TimerInit == Timer!Init => Timer!IInv
<1> SUFFICES ASSUME Timer!Init PROVE Timer!IInv
  OBVIOUS
<1>1. Timer!Types
  BY DEF Timer!Init, Timer!Types, Timer!Idle
<1>2. Timer!Listed = {}
  BY DEF Timer!Init, Timer!Listed
<1> QED BY <1>1, <1>2 DEF Timer!IInv, Timer!AllAreArmed, Timer!ResumeCovers, Timer!Quiet

LEMMA TimerStartKeeps ==
  ASSUME Timer!IInv, NEW t \in Timers, NEW sec \in Intervals, Timer!gtimer_start(t, sec)
  PROVE  Timer!IInv'
<1> DEFINE e == [endtime EXCEPT ![t] = now + sec]
           due == \E u \in Timer!First(e) : e[u] < now
<1>1. /\ endtime' = e /\ overwritten' = FALSE /\ unresumed' = FALSE
      /\ UNCHANGED <<now, thread, pm, hibernating, arm>>
      /\ due => left' = Timer!Idle /\ awake'
      /\ ~due => left' = Timer!StartFirst(e, now) /\ awake' = awake
      /\ awake' \in BOOLEAN
  BY DEF Timer!gtimer_start, Timer!wake_up_gtimer, Timer!IInv, Timer!Types
<1>2. e \in [Timers -> Nat \cup {Timer!Idle}] /\ now \in Nat /\ e[t] \in Nat
  BY IntervalsAreSeconds DEF Timer!IInv, Timer!Types
<1>3. e[t] # Timer!Idle
  BY <1>2 DEF Timer!Idle
<1> HIDE DEF e, due
<1>4. /\ Timer!StartFirst(e, now) \in Nat \ {0}
      /\ \A u \in Timers : e[u] # Timer!Idle =>
           Timer!StartFirst(e, now) <= Timer!AtLeastOne(e[u] - now)
  BY <1>2, <1>3, FirstCoversAll
<1>5. Timer!Types'
  BY <1>1, <1>2, <1>4 DEF Timer!IInv, Timer!Types
<1>6. ~awake' => left' # Timer!Idle /\ \A u \in Timer!Listed' : Timer!Covers(left, u)'
  <2>1. ~awake' => left' = Timer!StartFirst(e, now)
    BY <1>1
  <2>2. Timer!StartFirst(e, now) # Timer!Idle
    BY <1>4 DEF Timer!Idle
  <2> QED BY <1>1, <1>4, <2>1, <2>2 DEF Timer!Listed, Timer!Covers
<1> QED BY <1>5, <1>6 DEF Timer!IInv, Timer!AllAreArmed, Timer!ResumeCovers, Timer!Quiet

LEMMA TimerStopKeeps ==
  ASSUME Timer!IInv, NEW t \in Timers, Timer!gtimer_stop(t)
  PROVE  Timer!IInv'
<1>1. /\ endtime' = [endtime EXCEPT ![t] = Timer!Idle]
      /\ UNCHANGED <<now, left, awake, wlock, thread, pm, hibernating, arm, overwritten, unresumed>>
  BY DEF Timer!gtimer_stop
<1>2. Timer!Types'
  BY <1>1 DEF Timer!IInv, Timer!Types
<1>3. \A u \in Timer!Listed' : u \in Timer!Listed /\ endtime'[u] = endtime[u]
  BY <1>1 DEF Timer!IInv, Timer!Types, Timer!Listed
<1>4. \A u \in Timer!Listed' : /\ Timer!Covers(left, u) => Timer!Covers(left, u)'
                               /\ Timer!Covers(arm, u) => Timer!Covers(arm, u)'
  BY <1>1, <1>3 DEF Timer!Covers
<1>5. Timer!Quiet' => Timer!Quiet
  BY <1>1, <1>3 DEF Timer!Quiet
<1>6. Timer!AllAreArmed'
  BY <1>1, <1>3, <1>4, <1>5 DEF Timer!IInv, Timer!AllAreArmed
<1>7. Timer!ResumeCovers'
  BY <1>1, <1>3, <1>4, <1>5 DEF Timer!IInv, Timer!ResumeCovers
<1> QED BY <1>2, <1>6, <1>7 DEF Timer!IInv

\* The thread arms the hrtimer for the head of the list before it sleeps.
LEMMA TimerScanEnds == ASSUME Timer!IInv, Timer!ScanEnds PROVE Timer!IInv'
<1>1. /\ left' = (IF Timer!Listed = {} THEN left ELSE Timer!StartFirst(endtime, now))
      /\ thread' = "wait" /\ overwritten' = FALSE /\ unresumed' = FALSE
      /\ UNCHANGED <<now, endtime, awake, pm, hibernating, arm>>
  BY DEF Timer!ScanEnds
<1>2. endtime \in [Timers -> Nat \cup {Timer!Idle}] /\ now \in Nat
  BY DEF Timer!IInv, Timer!Types
<1>3. Timer!Listed # {} =>
        /\ left' \in Nat \ {0}
        /\ \A t \in Timers : endtime[t] # Timer!Idle => left' <= Timer!AtLeastOne(endtime[t] - now)
  <2>1. Timer!Listed # {} => \E t \in Timers : endtime[t] # Timer!Idle
    BY DEF Timer!Listed
  <2> QED BY <1>1, <1>2, <2>1, FirstCoversAll
<1>4. Timer!Types'
  BY <1>1, <1>3 DEF Timer!IInv, Timer!Types
<1>5. Timer!Listed' # {} => left' # Timer!Idle /\ \A t \in Timer!Listed' : Timer!Covers(left, t)'
  <2>1. Timer!Listed' = Timer!Listed
    BY <1>1 DEF Timer!Listed
  <2>2. Timer!Listed # {} => left' # Timer!Idle
    BY <1>3 DEF Timer!Idle
  <2> QED BY <1>1, <1>3, <2>1, <2>2 DEF Timer!Covers, Timer!Listed
<1> QED BY <1>4, <1>5 DEF Timer!IInv, Timer!AllAreArmed, Timer!ResumeCovers, Timer!Quiet

\* The two steps of gtimer_resume.
LEMMA TimerResumeKeeps ==
  ASSUME Timer!IInv, Timer!gtimer_resume \/ Timer!ResumeArms
  PROVE  Timer!IInv'
<1>1. CASE Timer!gtimer_resume
  <2>1. /\ pm' = "resuming" /\ unresumed' = FALSE
        /\ UNCHANGED <<now, endtime, left, thread, hibernating, overwritten>>
        /\ ~awake' => arm' = Timer!StartFirst(endtime, now) /\ ~awake
        /\ awake' \in BOOLEAN
        /\ arm' \in {Timer!Idle, Timer!StartFirst(endtime, now)}
    <3>1. CASE \E t \in Timer!First(endtime) : endtime[t] <= now
      BY <1>1, <3>1 DEF Timer!gtimer_resume, Timer!wake_up_gtimer
    <3>2. CASE ~\E t \in Timer!First(endtime) : endtime[t] <= now
      BY <1>1, <3>2 DEF Timer!gtimer_resume, Timer!IInv, Timer!Types
    <3> QED BY <3>1, <3>2
  <2>2. endtime \in [Timers -> Nat \cup {Timer!Idle}] /\ now \in Nat
    BY DEF Timer!IInv, Timer!Types
  <2>3. Timer!StartFirst(endtime, now) \in Nat \cup {Timer!Idle}
    BY <2>2, FirstCoversAll, NothingToStart
  <2>4. Timer!Types'
    BY <2>1, <2>3 DEF Timer!IInv, Timer!Types
  <2>5. Timer!Listed' = Timer!Listed
    BY <2>1 DEF Timer!Listed
  <2>6. Timer!Listed # {} =>
          /\ Timer!StartFirst(endtime, now) # Timer!Idle
          /\ \A t \in Timer!Listed :
               Timer!StartFirst(endtime, now) <= Timer!AtLeastOne(endtime[t] - now)
    BY <2>2, FirstCoversAll DEF Timer!Listed, Timer!Idle
  <2>7. Timer!ResumeCovers'
    BY <2>1, <2>5, <2>6 DEF Timer!ResumeCovers, Timer!Quiet, Timer!Covers
  <2>8. Timer!AllAreArmed'
    BY <2>1 DEF Timer!AllAreArmed
  <2> QED BY <2>4, <2>7, <2>8 DEF Timer!IInv
<1>2. CASE Timer!ResumeArms
  <2>1. /\ pm = "resuming" /\ pm' = "on" /\ arm' = Timer!Idle
        /\ left' = (IF arm = Timer!Idle THEN left ELSE arm)
        /\ overwritten' = (overwritten \/ (left # Timer!Idle /\ arm > left))
        /\ UNCHANGED <<now, endtime, awake, wlock, thread, hibernating, unresumed>>
    BY <1>2 DEF Timer!ResumeArms
  <2>2. Timer!Types'
    BY <2>1 DEF Timer!IInv, Timer!Types
  <2>3. Timer!Listed' = Timer!Listed /\ Timer!Quiet' = Timer!Quiet
    BY <2>1 DEF Timer!Listed, Timer!Quiet
  <2>4. ASSUME Timer!Quiet, ~overwritten', NEW t \in Timer!Listed
        PROVE  Timer!Covers(left, t)'
    <3>1. ~overwritten /\ (left = Timer!Idle \/ ~(arm > left))
      BY <2>1, <2>4
    <3>2. Timer!Covers(arm, t) \/ Timer!Covers(left, t)
      BY <2>1, <2>4, <3>1 DEF Timer!IInv, Timer!ResumeCovers
    <3>3. Timer!AtLeastOne(endtime[t] - now) \in Nat
      BY DEF Timer!IInv, Timer!Types, Timer!Listed, Timer!Idle, Timer!AtLeastOne
    <3>4. CASE arm = Timer!Idle
      BY <2>1, <3>2, <3>4 DEF Timer!Covers
    <3>5. CASE arm # Timer!Idle
      <4>1. left' = arm
        BY <2>1, <3>5
      <4>2. arm <= Timer!AtLeastOne(endtime[t] - now)
        BY <3>1, <3>2, <3>3, <3>5 DEF Timer!Covers, Timer!IInv, Timer!Types, Timer!Idle
      <4> QED BY <2>1, <3>5, <4>1, <4>2 DEF Timer!Covers
    <3> QED BY <3>4, <3>5
  <2>5. Timer!Quiet => left' # Timer!Idle
    BY <2>1 DEF Timer!IInv, Timer!ResumeCovers
  <2>6. Timer!AllAreArmed'
    BY <2>3, <2>4, <2>5 DEF Timer!AllAreArmed
  <2>7. Timer!ResumeCovers'
    BY <2>1 DEF Timer!ResumeCovers
  <2> QED BY <2>2, <2>6, <2>7 DEF Timer!IInv
<1> QED BY <1>1, <1>2

\* A second off the hrtimer is a second off every distance.
LEMMA TimerSecondKeeps == ASSUME Timer!IInv, Timer!Second PROVE Timer!IInv'
<1>1. /\ Timer!Running => left # 0
      /\ pm # "resuming" /\ now' = now + 1
      /\ left' = (IF Timer!Running /\ left > 0 THEN left - 1 ELSE left)
      /\ UNCHANGED <<endtime, awake, wlock, thread, pm, hibernating, arm, overwritten, unresumed>>
  BY DEF Timer!Second
<1>2. Timer!Types'
  BY <1>1 DEF Timer!IInv, Timer!Types, Timer!Idle
<1>3. Timer!Listed' = Timer!Listed /\ Timer!Quiet' = Timer!Quiet
  BY <1>1 DEF Timer!Listed, Timer!Quiet
<1>4. ASSUME Timer!Quiet, pm = "on", ~unresumed
      PROVE  left \in Nat \ {0} /\ left' = left - 1 /\ left' # Timer!Idle
  <2>1. Timer!Running /\ left # Timer!Idle
    BY <1>4 DEF Timer!Running, Timer!IInv, Timer!AllAreArmed
  <2> QED BY <1>1, <2>1 DEF Timer!IInv, Timer!Types, Timer!Idle
<1>5. ASSUME Timer!Quiet, pm = "on", ~unresumed, NEW t \in Timer!Listed, Timer!Covers(left, t)
      PROVE  Timer!Covers(left, t)'
  <2>1. endtime[t] \in Nat /\ now \in Nat
    BY DEF Timer!Listed, Timer!IInv, Timer!Types
  <2>2. left - 1 <= Timer!AtLeastOne(endtime[t] - (now + 1))
    BY <1>4, <1>5, <2>1 DEF Timer!Covers, Timer!AtLeastOne
  <2> QED BY <1>1, <1>4, <1>5, <2>2 DEF Timer!Covers
<1>6. Timer!AllAreArmed'
  BY <1>1, <1>3, <1>4, <1>5 DEF Timer!IInv, Timer!AllAreArmed
<1>7. Timer!ResumeCovers'
  BY <1>1 DEF Timer!ResumeCovers
<1> QED BY <1>2, <1>6, <1>7 DEF Timer!IInv

LEMMA TimerStep == Timer!IInv /\ [Timer!Next]_timer_vars => Timer!IInv'
<1> SUFFICES ASSUME Timer!IInv, [Timer!Next]_timer_vars PROVE Timer!IInv'
  OBVIOUS
<1> USE DEF Timer!AllAreArmed, Timer!ResumeCovers, Timer!Quiet
<1>1. ASSUME NEW t \in Timers, NEW sec \in Intervals, Timer!gtimer_start(t, sec) PROVE Timer!IInv'
  BY <1>1, TimerStartKeeps
<1>2. ASSUME NEW t \in Timers, Timer!gtimer_stop(t) PROVE Timer!IInv'
  BY <1>2, TimerStopKeeps
<1>3. ASSUME NEW t \in Timers, Timer!Expire(t) PROVE Timer!IInv'
  BY <1>3 DEF Timer!Expire, Timer!IInv, Timer!Types
<1>4. CASE Timer!HrtimerFires
  <2>1. awake' /\ awake' \in BOOLEAN
    BY <1>4 DEF Timer!HrtimerFires, Timer!wake_up_gtimer
  <2> QED BY <1>4, <2>1 DEF Timer!HrtimerFires, Timer!IInv, Timer!Types
<1>5. CASE Timer!ThreadWakes \/ Timer!ThreadEnters \/ Timer!CallbackReturns
  <2>1. thread' # "wait"
    BY <1>5 DEF Timer!ThreadWakes, Timer!ThreadEnters, Timer!CallbackReturns
  <2>2. Timer!Types'
    BY <1>5 DEF Timer!ThreadWakes, Timer!ThreadEnters, Timer!CallbackReturns, Timer!IInv, Timer!Types
  <2> QED BY <2>1, <2>2 DEF Timer!IInv
<1>6. CASE Timer!ScanEnds
  BY <1>6, TimerScanEnds
<1>7. CASE Timer!gtimer_suspend \/ Timer!Freeze \/ Timer!Thaw
  BY <1>7 DEF Timer!gtimer_suspend, Timer!Freeze, Timer!Thaw, Timer!IInv, Timer!Types
<1>8. CASE Timer!gtimer_resume \/ Timer!ResumeArms
  BY <1>8, TimerResumeKeeps
<1>9. CASE Timer!Second
  BY <1>9, TimerSecondKeeps
<1>10. CASE Timer!HibernationEnds
  BY <1>10 DEF Timer!HibernationEnds, Timer!IInv, Timer!Types
<1>11. CASE UNCHANGED timer_vars
  BY <1>11 DEF timer_vars, Timer!IInv, Timer!Types, Timer!Listed, Timer!Covers
<1> QED BY <1>1, <1>2, <1>3, <1>4, <1>5, <1>6, <1>7, <1>8, <1>9, <1>10, <1>11 DEF Timer!Next

LEMMA TimerArmsFirst == Timer!IInv => FirstIsArmed
BY DEF Timer!IInv, Timer!AllAreArmed, Timer!Quiet, Timer!Covers, Timer!First, Timer!Listed,
   FirstIsArmed, Timer!FirstIsArmed

-----------------------------------------------------------------------------
(* CoulombService. *)

LEMMA CoulombInit == Coulomb!Init => Coulomb!IInv
<1> SUFFICES ASSUME Coulomb!Init PROVE Coulomb!IInv
  OBVIOUS
<1>1. end = [u \in Users |-> Off]
  BY DEF Coulomb!Init
<1>2. Coulomb!Plus = {} /\ Coulomb!Minus = {}
  BY <1>1 DEF Coulomb!Plus, Coulomb!Minus
<1>3. timeout \in BOOLEAN /\ is_fg_disabled \in BOOLEAN
  BY DEF Coulomb!Init
<1>4. Coulomb!Types
  BY <1>1, <1>3, DistancesAreNumbers DEF Coulomb!Init, Coulomb!Types
<1>5. thread_pc = "wait"
  BY DEF Coulomb!Init
<1> QED BY <1>2, <1>4, <1>5 DEF Coulomb!IInv, Coulomb!SeenIsClose, Coulomb!PlusIsWatched,
   Coulomb!MinusIsWatched

\* Of values that are all ahead of the counter one is the nearest.
LEMMA NearestAhead ==
  ASSUME NEW e \in [Users -> Int \cup {Off}], NEW list \in SUBSET Users, NEW at_car \in Int,
         list # {}, \A u \in list : e[u] \in Int,
         \/ \A u \in list : Gap[u] > 0 /\ e[u] > at_car
         \/ \A u \in list : Gap[u] < 0 /\ e[u] < at_car
  PROVE  Coulomb!Nearest(list, e) # {}
<1>1. CASE \A u \in list : Gap[u] > 0 /\ e[u] > at_car
  <2> DEFINE S == {e[u] - at_car : u \in list}
  <2>1. S \in SUBSET Nat /\ S # {}
    BY <1>1
  <2>2. PICK m \in S : \A k \in S : m <= k
    BY <2>1, Least
  <2>3. PICK u \in list : m = e[u] - at_car
    OBVIOUS
  <2>4. \A v \in list : e[u] <= e[v]
    BY <2>2, <2>3
  <2> QED BY <1>1, <2>4 DEF Coulomb!Nearest
<1>2. CASE \A u \in list : Gap[u] < 0 /\ e[u] < at_car
  <2> DEFINE S == {at_car - e[u] : u \in list}
  <2>1. S \in SUBSET Nat /\ S # {}
    BY <1>2
  <2>2. PICK m \in S : \A k \in S : m <= k
    BY <2>1, Least
  <2>3. PICK u \in list : m = at_car - e[u]
    OBVIOUS
  <2>4. \A v \in list : e[u] >= e[v]
    BY <2>2, <2>3
  <2>5. \A v \in list : ~(Gap[v] > 0)
    BY <1>2, GapsAreSigned
  <2> QED BY <2>4, <2>5 DEF Coulomb!Nearest
<1> QED BY <1>1, <1>2

\* What the chip makes of a distance.
LEMMA Thresholds ==
  ASSUME car \in Int, NEW n \in Int
  PROVE  /\ Coulomb!Ht(n) \in Int \cup {NoTh} /\ Coulomb!Lt(n) \in Int \cup {NoTh}
         /\ n # car => Coulomb!Ht(n - car) = n /\ Coulomb!Lt(car - n) = n
         /\ \A m \in Int : n # m => Coulomb!Ht(n - m) = car + (n - m) /\ Coulomb!Lt(n - m) = car - (n - m)
BY DEF Coulomb!Ht, Coulomb!Lt

\* A user that starts: the thread is woken for one that is due, or the chip watches for
\* the nearest of the user's list, and goes on as it did for the other list.
LEMMA StartWatches ==
  ASSUME Coulomb!Types, NEW u \in Users, Coulomb!gauge_coulomb_start(u), ~is_fg_disabled
  PROVE  /\ end' = [end EXCEPT ![u] = car + Gap[u]]
         /\ ht' \in Int \cup {NoTh} /\ lt' \in Int \cup {NoTh} /\ timeout' \in BOOLEAN
         /\ timeout => timeout'
         /\ ~timeout' /\ Gap[u] > 0 =>
              lt' = lt /\ \A v \in Users : Gap[v] > 0 /\ end'[v] # Off => ht' # NoTh /\ ht' <= end'[v]
         /\ ~timeout' /\ Gap[u] < 0 =>
              ht' = ht /\ \A v \in Users : Gap[v] < 0 /\ end'[v] # Off => lt' # NoTh /\ lt' >= end'[v]
<1> DEFINE e    == [end EXCEPT ![u] = car + Gap[u]]
           list == {v \in Users : (Gap[v] > 0) = (Gap[u] > 0) /\ e[v] # Off}
           near == CHOOSE v \in Coulomb!FirstAhead(list, e) : TRUE
           late == \E v \in list : IF Gap[v] > 0 THEN e[v] <= car ELSE e[v] >= car
<1>1. /\ end' = e
      /\ late => timeout' /\ timeout' \in BOOLEAN /\ ht' = Coulomb!Ht(Far) /\ lt' = Coulomb!Lt(Far)
      /\ ~late /\ Gap[u] > 0 => ht' = Coulomb!Ht(e[near] - car) /\ lt' = lt /\ timeout' = timeout
      /\ ~late /\ ~(Gap[u] > 0) => lt' = Coulomb!Lt(car - e[near]) /\ ht' = ht /\ timeout' = timeout
  BY DEF Coulomb!gauge_coulomb_start
<1>2. car \in Int /\ e \in [Users -> Int \cup {Off}] /\ e[u] \in Int /\ u \in list
  <2>1. car \in Int /\ Gap[u] \in Int /\ end \in [Users -> Int \cup {Off}]
    BY GapsAreSigned DEF Coulomb!Types
  <2>2. e \in [Users -> Int \cup {Off}] /\ e[u] = car + Gap[u]
    BY <2>1
  <2> QED BY <2>1, <2>2, SwitchedOffIsNoNumber
<1>3. \A v \in list : v \in Users /\ e[v] \in Int /\ Gap[v] \in Int \ {0}
  BY <1>2, GapsAreSigned
<1> HIDE DEF late
<1>4. CASE late
  <2>1. Coulomb!Ht(Far) \in Int \cup {NoTh} /\ Coulomb!Lt(Far) \in Int \cup {NoTh}
    BY <1>2, Thresholds, DistancesAreNumbers
  <2> QED BY <1>1, <1>4, <2>1
<1>5. CASE ~late /\ Gap[u] > 0
  <2>1. \A v \in list : Gap[v] > 0 /\ e[v] > car
    BY <1>2, <1>3, <1>5 DEF late
  <2>2. Coulomb!FirstAhead(list, e) = Coulomb!Nearest(list, e)
    <3>1. list = {v \in list : IF Gap[v] > 0 THEN e[v] > car ELSE e[v] < car}
      BY <2>1
    <3> HIDE DEF list, e
    <3> QED BY <1>2, <3>1 DEF Coulomb!FirstAhead
  <2>3. Coulomb!Nearest(list, e) # {}
    <3> HIDE DEF list, e
    <3>1. list \in SUBSET Users
      BY <1>3
    <3> QED BY <1>2, <1>3, <2>1, <3>1, NearestAhead
  <2>4. near \in Coulomb!Nearest(list, e)
    BY <2>2, <2>3
  <2>5. near \in list /\ \A v \in list : e[near] <= e[v]
    BY <2>1, <2>4 DEF Coulomb!Nearest
  <2>6. e[near] \in Int /\ e[near] > car
    BY <1>3, <2>1, <2>5
  <2>7. Coulomb!Ht(e[near] - car) = e[near]
    <3> HIDE DEF near, e
    <3> QED BY <1>2, <2>6, Thresholds
  <2>8. \A v \in Users : Gap[v] > 0 /\ e[v] # Off => v \in list
    BY <1>5
  <2> HIDE DEF list, near
  <2>9. ht' = e[near] /\ lt' = lt /\ timeout' = timeout
    BY <1>1, <1>5, <2>7
  <2>10. end' = e
    BY <1>1
  <2> HIDE DEF e
  <2>11. \A v \in Users : Gap[v] > 0 /\ end'[v] # Off => ht' # NoTh /\ ht' <= end'[v]
    BY <2>5, <2>6, <2>8, <2>9, <2>10, SwitchedOffIsNoNumber
  <2>12. ht' \in Int \cup {NoTh} /\ lt' \in Int \cup {NoTh} /\ timeout' \in BOOLEAN
    BY <2>6, <2>9 DEF Coulomb!Types
  <2>13. ~(Gap[u] < 0)
    BY <1>2, <1>3, <1>5
  <2> QED BY <2>9, <2>10, <2>11, <2>12, <2>13 DEF e
<1>6. CASE ~late /\ ~(Gap[u] > 0)
  <2>1. \A v \in list : Gap[v] < 0 /\ ~(Gap[v] > 0) /\ e[v] < car
    BY <1>2, <1>3, <1>6 DEF late
  <2>2. Coulomb!FirstAhead(list, e) = Coulomb!Nearest(list, e)
    <3>1. list = {v \in list : IF Gap[v] > 0 THEN e[v] > car ELSE e[v] < car}
      BY <2>1
    <3> HIDE DEF list, e
    <3> QED BY <1>2, <3>1 DEF Coulomb!FirstAhead
  <2>3. Coulomb!Nearest(list, e) # {}
    <3> HIDE DEF list, e
    <3>1. list \in SUBSET Users
      BY <1>3
    <3> QED BY <1>2, <1>3, <2>1, <3>1, NearestAhead
  <2>4. near \in Coulomb!Nearest(list, e)
    BY <2>2, <2>3
  <2>5. near \in list /\ \A v \in list : e[near] >= e[v]
    BY <2>1, <2>4 DEF Coulomb!Nearest
  <2>6. e[near] \in Int /\ e[near] < car
    BY <1>3, <2>1, <2>5
  <2>7. Coulomb!Lt(car - e[near]) = e[near]
    <3> HIDE DEF near, e
    <3> QED BY <1>2, <2>6, Thresholds
  <2>8. \A v \in Users : Gap[v] < 0 /\ e[v] # Off => v \in list
    BY <1>6, GapsAreSigned
  <2>9. ~(Gap[u] > 0) /\ Gap[u] < 0
    BY <1>2, <2>1
  <2> HIDE DEF list, near
  <2>10. lt' = e[near] /\ ht' = ht /\ timeout' = timeout
    BY <1>1, <1>6, <2>7
  <2>11. end' = e
    BY <1>1
  <2> HIDE DEF e
  <2>12. \A v \in Users : Gap[v] < 0 /\ end'[v] # Off => lt' # NoTh /\ lt' >= end'[v]
    BY <2>5, <2>6, <2>8, <2>10, <2>11, SwitchedOffIsNoNumber
  <2>13. ht' \in Int \cup {NoTh} /\ lt' \in Int \cup {NoTh} /\ timeout' \in BOOLEAN
    BY <2>6, <2>10 DEF Coulomb!Types
  <2> QED BY <2>9, <2>10, <2>11, <2>12, <2>13 DEF e
<1> QED BY <1>4, <1>5, <1>6

LEMMA CoulombStartKeeps ==
  ASSUME Coulomb!IInv, NEW u \in Users, Coulomb!gauge_coulomb_start(u),
         UNCHANGED <<car, thread_pc, seen, drift, reset, reset_coulomb, is_fg_disabled>>
  PROVE  Coulomb!IInv'
<1>1. CASE is_fg_disabled
  <2>1. ht' = NoTh /\ lt' = NoTh /\ UNCHANGED <<end, timeout>>
    BY <1>1 DEF Coulomb!gauge_coulomb_start
  <2>2. Coulomb!Types'
    BY <2>1 DEF Coulomb!IInv, Coulomb!Types
  <2>3. Coulomb!Excused'
    BY <1>1 DEF Coulomb!Excused
  <2> QED BY <2>2, <2>3 DEF Coulomb!IInv, Coulomb!SeenIsClose, Coulomb!PlusIsWatched,
     Coulomb!MinusIsWatched
<1>2. CASE ~is_fg_disabled
  <2>1. /\ end' = [end EXCEPT ![u] = car + Gap[u]]
        /\ ht' \in Int \cup {NoTh} /\ lt' \in Int \cup {NoTh} /\ timeout' \in BOOLEAN
        /\ timeout => timeout'
    BY <1>2, StartWatches DEF Coulomb!IInv
  <2>2. ~timeout' /\ Gap[u] > 0 =>
          lt' = lt /\ \A v \in Users : Gap[v] > 0 /\ end'[v] # Off => ht' # NoTh /\ ht' <= end'[v]
    BY <1>2, StartWatches DEF Coulomb!IInv
  <2>3. ~timeout' /\ Gap[u] < 0 =>
          ht' = ht /\ \A v \in Users : Gap[v] < 0 /\ end'[v] # Off => lt' # NoTh /\ lt' >= end'[v]
    BY <1>2, StartWatches DEF Coulomb!IInv
  <2>4. \A v \in Users : (v # u => end'[v] = end[v]) /\ end'[v] \in Int \cup {Off}
    <3>1. car \in Int /\ Gap[u] \in Int /\ end \in [Users -> Int \cup {Off}]
      BY GapsAreSigned DEF Coulomb!IInv, Coulomb!Types
    <3>2. PICK n \in Int : n = car + Gap[u]
      BY <3>1
    <3>3. end' = [end EXCEPT ![u] = n]
      BY <2>1, <3>2
    <3> QED BY <3>1, <3>3
  <2>5. Coulomb!Types'
    <3>1. end' \in [Users -> Int \cup {Off}]
      <4>1. end' = [v \in Users |-> end'[v]]
        BY <2>1 DEF Coulomb!IInv, Coulomb!Types
      <4> QED BY <2>4, <4>1
    <3> QED BY <2>1, <3>1 DEF Coulomb!IInv, Coulomb!Types
  <2>6. ~Coulomb!Excused' => ~Coulomb!Excused /\ ~timeout'
    BY <2>1 DEF Coulomb!Excused
  <2>7. Coulomb!SeenIsClose'
    BY <2>6 DEF Coulomb!IInv, Coulomb!SeenIsClose
  <2>8. Gap[u] \in Int /\ (Gap[u] > 0 \/ Gap[u] < 0) /\ ~(Gap[u] > 0 /\ Gap[u] < 0)
    BY GapsAreSigned
  <2>9. Coulomb!PlusIsWatched'
    <3> SUFFICES ASSUME ~Coulomb!Excused', thread_pc \in {"minus", "callback-", "wait"},
                        NEW v \in Users, Gap[v] > 0, end'[v] # Off
                 PROVE  ht' # NoTh /\ ht' <= end'[v] + MaxDrift
      BY DEF Coulomb!PlusIsWatched, Coulomb!Plus
    <3>1. CASE Gap[u] > 0
      <4>1. ht' # NoTh /\ ht' <= end'[v]
        BY <2>2, <2>6, <3>1
      <4> QED BY <2>1, <2>4, <4>1, DistancesAreNumbers
    <3>2. CASE Gap[u] < 0
      <4>1. v # u /\ ht' = ht
        BY <2>3, <2>6, <2>8, <3>2
      <4> QED BY <2>4, <2>6, <4>1 DEF Coulomb!IInv, Coulomb!PlusIsWatched, Coulomb!Plus
    <3> QED BY <2>8, <3>1, <3>2
  <2>10. Coulomb!MinusIsWatched'
    <3> SUFFICES ASSUME ~Coulomb!Excused', thread_pc = "wait",
                        NEW v \in Users, Gap[v] < 0, end'[v] # Off
                 PROVE  lt' # NoTh /\ lt' >= end'[v] - MaxDrift
      BY DEF Coulomb!MinusIsWatched, Coulomb!Minus
    <3>1. CASE Gap[u] < 0
      <4>1. lt' # NoTh /\ lt' >= end'[v]
        BY <2>3, <2>6, <3>1
      <4> QED BY <2>1, <2>4, <4>1, DistancesAreNumbers
    <3>2. CASE Gap[u] > 0
      <4>1. v # u /\ lt' = lt
        BY <2>2, <2>6, <2>8, <3>2
      <4> QED BY <2>4, <2>6, <4>1 DEF Coulomb!IInv, Coulomb!MinusIsWatched, Coulomb!Minus
    <3> QED BY <2>8, <3>1, <3>2
  <2> QED BY <2>5, <2>7, <2>9, <2>10 DEF Coulomb!IInv
<1> QED BY <1>1, <1>2

LEMMA CoulombStopKeeps ==
  ASSUME Coulomb!IInv, NEW u \in Users, Coulomb!CoreStops(u)
  PROVE  Coulomb!IInv'
<1> USE DEF Coulomb!IInv, Coulomb!Types, Coulomb!SeenIsClose, Coulomb!PlusIsWatched,
        Coulomb!MinusIsWatched, Coulomb!Excused, Coulomb!Plus, Coulomb!Minus
<1>1. CASE is_fg_disabled
  BY <1>1 DEF Coulomb!CoreStops, Coulomb!gauge_coulomb_stop
<1>2. CASE ~is_fg_disabled
  <2>1. /\ end' = [end EXCEPT ![u] = Off]
        /\ UNCHANGED <<car, thread_pc, seen, drift, reset, reset_coulomb, is_fg_disabled, ht, lt,
                       timeout>>
    BY <1>2 DEF Coulomb!CoreStops, Coulomb!gauge_coulomb_stop
  <2>2. \A v \in Users : end'[v] # Off => end'[v] = end[v]
    BY <2>1
  <2> QED BY <2>1, <2>2
<1> QED BY <1>1, <1>2

\* gauge_reset_hw: what lies between is excused, and its end wakes the thread.
LEMMA CoulombResetKeeps ==
  ASSUME Coulomb!IInv,
         Coulomb!gauge_coulomb_before_reset \/ Coulomb!ReadResetCoulomb \/ Coulomb!ResetHw
           \/ Coulomb!gauge_coulomb_after_reset
  PROVE  Coulomb!IInv'
<1>1. Coulomb!Excused' /\ UNCHANGED <<seen, drift, is_fg_disabled>> /\ timeout' \in BOOLEAN
  <2>1. CASE Coulomb!gauge_coulomb_after_reset
    BY <2>1 DEF Coulomb!gauge_coulomb_after_reset, Coulomb!wake_up_gauge_coulomb, Coulomb!Excused,
       Coulomb!IInv, Coulomb!Types
  <2>2. CASE Coulomb!gauge_coulomb_before_reset \/ Coulomb!ReadResetCoulomb \/ Coulomb!ResetHw
    BY <2>2 DEF Coulomb!gauge_coulomb_before_reset, Coulomb!ReadResetCoulomb, Coulomb!ResetHw,
       Coulomb!Excused, Coulomb!IInv, Coulomb!Types
  <2> QED BY <2>1, <2>2
<1>2. Coulomb!Types'
  <2>1. CASE Coulomb!gauge_coulomb_before_reset
    BY <2>1 DEF Coulomb!gauge_coulomb_before_reset, Coulomb!IInv, Coulomb!Types
  <2>2. CASE Coulomb!ReadResetCoulomb
    BY <2>2 DEF Coulomb!ReadResetCoulomb, Coulomb!IInv, Coulomb!Types
  <2>3. CASE Coulomb!ResetHw
    BY <2>3 DEF Coulomb!ResetHw, Coulomb!IInv, Coulomb!Types
  <2>4. CASE Coulomb!gauge_coulomb_after_reset
    <3>1. end' = [u \in Users |-> IF end[u] = Off THEN Off ELSE end[u] - reset_coulomb]
      BY <2>4 DEF Coulomb!gauge_coulomb_after_reset
    <3>2. end' \in [Users -> Int \cup {Off}]
      BY <3>1 DEF Coulomb!IInv, Coulomb!Types
    <3>3. ht' \in Int \cup {NoTh} /\ lt' \in Int \cup {NoTh}
      <4>1. ht' \in {NoTh, Coulomb!Ht(Far)} /\ lt' \in {NoTh, Coulomb!Lt(Far)}
        BY <2>4 DEF Coulomb!gauge_coulomb_after_reset, Coulomb!wake_up_gauge_coulomb
      <4> QED BY <4>1, Thresholds, DistancesAreNumbers DEF Coulomb!IInv, Coulomb!Types
    <3> QED BY <1>1, <2>4, <3>2, <3>3 DEF Coulomb!gauge_coulomb_after_reset, Coulomb!IInv, Coulomb!Types
  <2> QED BY <2>1, <2>2, <2>3, <2>4
<1> QED BY <1>1, <1>2 DEF Coulomb!IInv, Coulomb!SeenIsClose, Coulomb!PlusIsWatched,
   Coulomb!MinusIsWatched

\* The end of the plus list: the chip is given the distance to the head from the counter
\* that was read, and is at most MaxDrift late; the minus list likewise.
LEMMA CoulombPlusDone == ASSUME Coulomb!IInv, Coulomb!PlusDone PROVE Coulomb!IInv'
<1>1. /\ thread_pc = "plus" /\ thread_pc' = "minus" /\ \A u \in Coulomb!Plus : ~Coulomb!Due(u, seen)
      /\ UNCHANGED <<car, lt, end, timeout, seen, drift, todo, reset, reset_coulomb, is_fg_disabled>>
  BY DEF Coulomb!PlusDone
<1>2. CASE Coulomb!Plus = {}
  <2>1. ht' = ht
    BY <1>2 DEF Coulomb!PlusDone
  <2>2. Coulomb!Plus' = {}
    BY <1>1, <1>2 DEF Coulomb!Plus
  <2> QED BY <1>1, <2>1, <2>2 DEF Coulomb!IInv, Coulomb!Types, Coulomb!SeenIsClose,
     Coulomb!PlusIsWatched, Coulomb!MinusIsWatched, Coulomb!Excused
<1>3. CASE Coulomb!Plus # {}
  <2>1. PICK u \in Coulomb!Nearest(Coulomb!Plus, end) : ht' = Coulomb!Ht(end[u] - seen)
    BY <1>3 DEF Coulomb!PlusDone
  <2>2. u \in Coulomb!Plus /\ \A v \in Coulomb!Plus : end[u] <= end[v]
    BY <2>1 DEF Coulomb!Nearest, Coulomb!Plus
  <2>3. /\ end[u] \in Int /\ seen \in Int /\ car \in Int /\ drift \in 0..MaxDrift
        /\ \A v \in Coulomb!Plus : end[v] \in Int
    BY <2>2 DEF Coulomb!IInv, Coulomb!Types, Coulomb!Plus
  <2>4. end[u] > seen
    BY <1>1, <2>2, <2>3 DEF Coulomb!Due, Coulomb!Plus
  <2>5. ht' = car + (end[u] - seen)
    BY <2>1, <2>3, <2>4, Thresholds
  <2>6. Coulomb!Types'
    BY <1>1, <2>3, <2>5 DEF Coulomb!IInv, Coulomb!Types
  <2>7. Coulomb!PlusIsWatched'
    <3> SUFFICES ASSUME ~Coulomb!Excused, NEW v \in Coulomb!Plus
                 PROVE  ht' # NoTh /\ ht' <= end[v] + MaxDrift
      BY <1>1 DEF Coulomb!PlusIsWatched, Coulomb!Excused, Coulomb!Plus
    <3>1. car <= seen + drift /\ seen <= car + drift
      BY <1>1 DEF Coulomb!IInv, Coulomb!SeenIsClose
    <3>2. car - seen <= MaxDrift
      BY <2>3, <3>1, DistancesAreNumbers
    <3>3. end[u] <= end[v] /\ end[v] \in Int
      BY <2>2, <2>3
    <3> QED BY <2>3, <2>5, <3>2, <3>3, SwitchedOffIsNoNumber, DistancesAreNumbers
  <2>8. Coulomb!SeenIsClose' /\ Coulomb!MinusIsWatched'
    BY <1>1 DEF Coulomb!IInv, Coulomb!SeenIsClose, Coulomb!MinusIsWatched, Coulomb!Excused
  <2> QED BY <2>6, <2>7, <2>8 DEF Coulomb!IInv
<1> QED BY <1>2, <1>3

LEMMA CoulombMinusDone == ASSUME Coulomb!IInv, Coulomb!MinusDone PROVE Coulomb!IInv'
<1>1. /\ thread_pc = "minus" /\ thread_pc' = "wait" /\ \A u \in Coulomb!Minus : ~Coulomb!Due(u, seen)
      /\ UNCHANGED <<car, ht, end, timeout, seen, drift, todo, reset, reset_coulomb, is_fg_disabled>>
  BY DEF Coulomb!MinusDone
<1>2. Coulomb!PlusIsWatched'
  BY <1>1 DEF Coulomb!IInv, Coulomb!PlusIsWatched, Coulomb!Excused, Coulomb!Plus
<1>3. CASE Coulomb!Minus = {}
  <2>1. lt' = lt
    BY <1>3 DEF Coulomb!MinusDone
  <2>2. Coulomb!Minus' = {}
    BY <1>1, <1>3 DEF Coulomb!Minus
  <2> QED BY <1>1, <1>2, <2>1, <2>2 DEF Coulomb!IInv, Coulomb!Types, Coulomb!SeenIsClose,
     Coulomb!MinusIsWatched, Coulomb!Excused
<1>4. CASE Coulomb!Minus # {}
  <2>1. PICK u \in Coulomb!Nearest(Coulomb!Minus, end) : lt' = Coulomb!Lt(seen - end[u])
    BY <1>4 DEF Coulomb!MinusDone
  <2>2. u \in Coulomb!Minus /\ \A v \in Coulomb!Minus : ~(Gap[v] > 0)
    BY <2>1, GapsAreSigned DEF Coulomb!Nearest, Coulomb!Minus
  <2>3. \A v \in Coulomb!Minus : end[u] >= end[v]
    BY <2>1, <2>2 DEF Coulomb!Nearest
  <2>4. /\ end[u] \in Int /\ seen \in Int /\ car \in Int /\ drift \in 0..MaxDrift
        /\ \A v \in Coulomb!Minus : end[v] \in Int
    BY <2>2 DEF Coulomb!IInv, Coulomb!Types, Coulomb!Minus
  <2>5. end[u] < seen
    BY <1>1, <2>2, <2>4 DEF Coulomb!Due
  <2>6. lt' = car - (seen - end[u])
    BY <2>1, <2>4, <2>5, Thresholds
  <2>7. Coulomb!Types'
    BY <1>1, <2>4, <2>6 DEF Coulomb!IInv, Coulomb!Types
  <2>8. Coulomb!MinusIsWatched'
    <3> SUFFICES ASSUME ~Coulomb!Excused, NEW v \in Coulomb!Minus
                 PROVE  lt' # NoTh /\ lt' >= end[v] - MaxDrift
      BY <1>1 DEF Coulomb!MinusIsWatched, Coulomb!Excused, Coulomb!Minus
    <3>1. car <= seen + drift /\ seen <= car + drift
      BY <1>1 DEF Coulomb!IInv, Coulomb!SeenIsClose
    <3>2. seen - car <= MaxDrift
      BY <2>4, <3>1, DistancesAreNumbers
    <3>3. end[u] >= end[v] /\ end[v] \in Int
      BY <2>3, <2>4
    <3> QED BY <2>4, <2>6, <3>2, <3>3, SwitchedOffIsNoNumber, DistancesAreNumbers
  <2>9. Coulomb!SeenIsClose'
    BY <1>1 DEF Coulomb!SeenIsClose
  <2> QED BY <1>2, <2>7, <2>8, <2>9 DEF Coulomb!IInv
<1> QED BY <1>3, <1>4

LEMMA CoulombThreadKeeps ==
  ASSUME Coulomb!IInv,
         Coulomb!Wake \/ Coulomb!EnterHandler \/ Coulomb!gauge_coulomb_int_handler
           \/ Coulomb!CallbackReturns
  PROVE  Coulomb!IInv'
<1>1. CASE Coulomb!Wake
  <2>1. thread_pc' = "woken" /\ timeout' \in BOOLEAN
    BY <1>1 DEF Coulomb!Wake
  <2> QED BY <1>1, <2>1 DEF Coulomb!Wake, Coulomb!IInv, Coulomb!Types, Coulomb!SeenIsClose,
     Coulomb!PlusIsWatched, Coulomb!MinusIsWatched
<1>2. CASE Coulomb!EnterHandler
  <2>1. thread_pc' = "plus" /\ seen' = car /\ drift' = 0 /\ car' = car
    BY <1>2 DEF Coulomb!EnterHandler
  <2>2. Coulomb!Types'
    BY <1>2, <2>1, DistancesAreNumbers DEF Coulomb!EnterHandler, Coulomb!IInv, Coulomb!Types
  <2>3. car' <= seen' + drift' /\ seen' <= car' + drift'
    BY <2>1 DEF Coulomb!IInv, Coulomb!Types
  <2>4. Coulomb!SeenIsClose'
    BY <2>1, <2>3 DEF Coulomb!SeenIsClose
  <2> QED BY <2>1, <2>2, <2>4 DEF Coulomb!IInv, Coulomb!PlusIsWatched, Coulomb!MinusIsWatched
<1>3. ASSUME NEW u \in Users,
             \/ u \in Coulomb!Plus /\ Coulomb!Expire(u, Coulomb!Plus, "plus", "callback+")
             \/ u \in Coulomb!Minus /\ Coulomb!Expire(u, Coulomb!Minus, "minus", "callback-")
      PROVE  Coulomb!IInv'
  <2>1. /\ end' = [end EXCEPT ![u] = Off]
        /\ \/ thread_pc = "plus" /\ thread_pc' = "callback+"
           \/ thread_pc = "minus" /\ thread_pc' = "callback-"
        /\ UNCHANGED <<car, ht, lt, timeout, seen, drift, reset, reset_coulomb, is_fg_disabled>>
    BY <1>3 DEF Coulomb!Expire
  <2>2. Coulomb!Types'
    BY <2>1 DEF Coulomb!IInv, Coulomb!Types
  <2>3. \A v \in Users : end'[v] # Off => end'[v] = end[v]
    BY <2>1 DEF Coulomb!IInv, Coulomb!Types
  <2>4. Coulomb!PlusIsWatched'
    BY <2>1, <2>3 DEF Coulomb!IInv, Coulomb!PlusIsWatched, Coulomb!Excused, Coulomb!Plus
  <2>5. Coulomb!SeenIsClose' /\ Coulomb!MinusIsWatched'
    BY <2>1 DEF Coulomb!IInv, Coulomb!SeenIsClose, Coulomb!MinusIsWatched, Coulomb!Excused
  <2> QED BY <2>2, <2>4, <2>5 DEF Coulomb!IInv
<1>4. CASE Coulomb!CallbackReturns
  BY <1>4 DEF Coulomb!CallbackReturns, Coulomb!IInv, Coulomb!Types, Coulomb!SeenIsClose,
     Coulomb!PlusIsWatched, Coulomb!MinusIsWatched, Coulomb!Excused, Coulomb!Plus
<1>5. \A u \in Coulomb!Plus \cup Coulomb!Minus : u \in Users
  BY DEF Coulomb!Plus, Coulomb!Minus
<1> QED BY <1>1, <1>2, <1>3, <1>4, <1>5, CoulombPlusDone, CoulombMinusDone
  DEF Coulomb!gauge_coulomb_int_handler

LEMMA CoulombChipKeeps ==
  ASSUME Coulomb!IInv,
         Coulomb!Interrupt \/ Coulomb!DisableFg \/ \E d \in {-1, 1} : Coulomb!Count(d)
  PROVE  Coulomb!IInv'
<1>1. CASE Coulomb!Interrupt
  <2>1. /\ UNCHANGED <<car, end, thread_pc, seen, drift, reset, reset_coulomb, is_fg_disabled>>
        /\ timeout' \in BOOLEAN /\ Coulomb!Excused'
        /\ ht' \in {NoTh, Coulomb!Ht(Far)} /\ lt' \in {NoTh, Coulomb!Lt(Far)}
    BY <1>1 DEF Coulomb!Interrupt, Coulomb!wake_up_gauge_coulomb, Coulomb!Excused, Coulomb!IInv,
       Coulomb!Types
  <2>2. ht' \in Int \cup {NoTh} /\ lt' \in Int \cup {NoTh}
    BY <2>1, Thresholds, DistancesAreNumbers DEF Coulomb!IInv, Coulomb!Types
  <2>3. Coulomb!Types'
    BY <2>1, <2>2 DEF Coulomb!IInv, Coulomb!Types
  <2> QED BY <2>1, <2>3 DEF Coulomb!IInv, Coulomb!SeenIsClose, Coulomb!PlusIsWatched,
     Coulomb!MinusIsWatched
<1>2. CASE Coulomb!DisableFg
  <2>1. is_fg_disabled' /\ is_fg_disabled' \in BOOLEAN
    BY <1>2 DEF Coulomb!DisableFg
  <2>2. Coulomb!Types'
    BY <1>2, <2>1 DEF Coulomb!DisableFg, Coulomb!IInv, Coulomb!Types
  <2> QED BY <2>1, <2>2 DEF Coulomb!IInv, Coulomb!SeenIsClose, Coulomb!PlusIsWatched,
     Coulomb!MinusIsWatched, Coulomb!Excused
<1>3. ASSUME NEW d \in {-1, 1}, Coulomb!Count(d) PROVE Coulomb!IInv'
  <2>1. /\ car' = car + d
        /\ thread_pc # "wait" => drift < MaxDrift
        /\ drift' = (IF thread_pc = "wait" THEN 0 ELSE drift + 1)
        /\ UNCHANGED <<ht, lt, end, timeout, thread_pc, seen, reset, reset_coulomb, is_fg_disabled>>
    BY <1>3 DEF Coulomb!Count
  <2>2. car \in Int /\ seen \in Int /\ drift \in 0..MaxDrift
    BY DEF Coulomb!IInv, Coulomb!Types
  <2>3. car' \in Int /\ drift' \in 0..MaxDrift
    <3>0. d \in Int
      BY <1>3
    <3>1. car' \in Int
      BY <2>1, <2>2, <3>0
    <3>2. CASE thread_pc = "wait"
      BY <2>1, <3>1, <3>2, DistancesAreNumbers
    <3>3. CASE thread_pc # "wait"
      BY <2>1, <2>2, <3>1, <3>3, DistancesAreNumbers
    <3> QED BY <3>2, <3>3
  <2>4. Coulomb!Types'
    BY <2>1, <2>3 DEF Coulomb!IInv, Coulomb!Types
  <2>5. Coulomb!SeenIsClose'
    <3> SUFFICES ASSUME ~Coulomb!Excused, thread_pc \in {"plus", "minus", "callback+", "callback-"}
                 PROVE  car' <= seen + drift' /\ seen <= car' + drift'
      BY <2>1 DEF Coulomb!SeenIsClose, Coulomb!Excused
    <3>1. car <= seen + drift /\ seen <= car + drift
      BY DEF Coulomb!IInv, Coulomb!SeenIsClose
    <3>2. drift' = drift + 1
      BY <2>1
    <3>3. car' = car - 1 \/ car' = car + 1
      BY <2>1, <2>2
    <3>4. drift \in Int
      BY <2>2, DistancesAreNumbers
    <3> QED BY <2>2, <3>1, <3>2, <3>3, <3>4
  <2>6. Coulomb!PlusIsWatched' /\ Coulomb!MinusIsWatched'
    BY <2>1 DEF Coulomb!IInv, Coulomb!PlusIsWatched, Coulomb!MinusIsWatched, Coulomb!Excused,
       Coulomb!Plus, Coulomb!Minus
  <2> QED BY <2>4, <2>5, <2>6 DEF Coulomb!IInv
<1> QED BY <1>1, <1>2, <1>3

LEMMA CoulombStep == Coulomb!IInv /\ [Coulomb!Next]_coulomb_vars => Coulomb!IInv'
<1> SUFFICES ASSUME Coulomb!IInv, [Coulomb!Next]_coulomb_vars PROVE Coulomb!IInv'
  OBVIOUS
<1>1. ASSUME NEW u \in Users, Coulomb!CoreStarts(u) \/ Coulomb!CallbackStarts(u) PROVE Coulomb!IInv'
  <2>1. /\ Coulomb!gauge_coulomb_start(u)
        /\ UNCHANGED <<car, thread_pc, seen, drift, reset, reset_coulomb, is_fg_disabled>>
    BY <1>1 DEF Coulomb!CoreStarts, Coulomb!CallbackStarts
  <2> QED BY <2>1, CoulombStartKeeps
<1>2. ASSUME NEW u \in Users, Coulomb!CoreStops(u) PROVE Coulomb!IInv'
  BY <1>2, CoulombStopKeeps
<1>3. CASE UNCHANGED coulomb_vars
  BY <1>3 DEF coulomb_vars, Coulomb!IInv, Coulomb!Types, Coulomb!SeenIsClose, Coulomb!PlusIsWatched,
     Coulomb!MinusIsWatched, Coulomb!Excused, Coulomb!Plus, Coulomb!Minus
<1> QED BY <1>1, <1>2, <1>3, CoulombResetKeeps, CoulombThreadKeeps, CoulombChipKeeps DEF Coulomb!Next

LEMMA CoulombWatches == Coulomb!IInv => HeadsAreWatched
BY DEF Coulomb!IInv, Coulomb!PlusIsWatched, Coulomb!MinusIsWatched, Coulomb!Excused,
   HeadsAreWatched, Coulomb!HeadsAreWatched

-----------------------------------------------------------------------------
(* The parts together. *)

LEMMA PartsStep ==
  [MCNext]_battery_vars =>
    /\ [Coulomb!Next]_coulomb_vars /\ [Core!Next]_core_vars /\ [Timer!Next]_timer_vars
    /\ [Cycle!Next]_cycle_vars /\ [Nafg!Next]_nafg_vars
BY DEF MCNext, battery_vars, service_vars, parts_vars, GaugeNext, CoulombNext, TimerNext, CoreNext,
   ThermoNext, CycleNext, NafgNext

\* While the thread sleeps, the chip watches for the head of both lists, for any users and
\* distances: no user is left waiting on a chip that looks elsewhere (gauge_coulomb_start,
\* gauge_coulomb_int_handler, gauge_coulomb_after_reset).
THEOREM HeadsAreAlwaysWatched == MCSpec => []HeadsAreWatched
<1>1. MCInit => Coulomb!IInv
  BY CoulombInit DEF MCInit
<1> QED BY <1>1, CoulombStep, CoulombWatches, PartsStep, PTL DEF MCSpec

\* No interleaving of handlers, commands, deaths of the daemon and suspend cycles leaves
\* the gauge deaf to a source for good (wakeup_fg_algo, the handlers' order of disarming
\* and telling, battery_suspend and battery_resume).
THEOREM NoSourceIsEverForgotten == MCSpec => []NoSourceIsForgotten
<1>1. MCInit => Core!IInv
  BY CoreInit DEF MCInit
<1> QED BY <1>1, CoreStep, CoreKeepsAll, PartsStep, PTL DEF MCSpec

\* Whatever starts, stops, callbacks and suspend cycles did before, the hrtimer is started
\* for the first timer of the list (gtimer_start, gtimer_handler, gtimer_resume).
THEOREM FirstIsAlwaysArmed == MCSpec => []FirstIsArmed
<1>1. MCInit => Timer!IInv
  BY TimerInit DEF MCInit
<1> QED BY <1>1, TimerStep, TimerArmsFirst, PartsStep, PTL DEF MCSpec

\* The cycles told to the daemon are never more than what went out of the battery, unless
\* two calls have overlapped (fg_sw_bat_cycle_accu, gauge_reset_hw).
THEOREM CyclesAreDischarged == MCSpec => []CycleIsDischarged
<1>1. MCInit => Cycle!IInv
  BY CycleInit DEF MCInit
<1>2. Cycle!IInv => CycleIsDischarged
  BY DEF Cycle!IInv, CycleIsDischarged
<1> QED BY <1>1, <1>2, CycleStep, PartsStep, PTL DEF MCSpec

\* The NAFG counter is called broken only after it stood still for the whole time with
\* the system awake, or by a thread that resume has not yet told (fg_nafg_monitor).
THEOREM BlamedOnlyWhenStill == MCSpec => []BlamedWhenStill
<1>1. MCInit => Nafg!IInv
  BY NafgInit DEF MCInit
<1>2. Nafg!IInv => BlamedWhenStill
  BY DEF Nafg!IInv, BlamedWhenStill
<1> QED BY <1>1, <1>2, NafgStep, PartsStep, PTL DEF MCSpec
=============================================================================
