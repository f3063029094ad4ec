----------------------------- MODULE DevicesProofs -----------------------------
(* The panel for every length of the sequence, either polarity of the line and any  *)
(* number of lost disables; the touch screen with any number of slots; the          *)
(* fingerprint driver for any number of restarts of its HAL, and the one it was      *)
(* written after for any number of open files; and the adapter for any templates,   *)
(* clients and callbacks on their way.                                              *)
EXTENDS MCDevices, FiniteSetTheorems, TLAPS

-----------------------------------------------------------------------------
(* Panel.  RailsBalanced speaks of the moments between calls.  What makes it        *)
(* inductive is what each point of prepare and of unprepare holds, in HoldsVsp and  *)
(* HoldsVsn, and where the line may be raised, in Where.                            *)

Flags ==
  /\ bound \in BOOLEAN /\ prepared \in BOOLEAN
  /\ pc \in {"idle"} \union Preparing \union Unwinding \union Unpreparing
  /\ reset \in {0, 1}

Numbers ==
  /\ vsp \in Nat /\ vsn \in Nat
  /\ row \in 0 .. Rows
  /\ lostVsp \in 0 .. MaxLost /\ lostVsn \in 0 .. MaxLost

On == bound /\ prepared

HoldsVsp == (pc = "idle" /\ On) \/ pc \notin {"idle", "vsp"}

HoldsVsn ==
  \/ pc = "idle" /\ On
  \/ pc \notin {"idle", "vsp", "vsn", "error vsp", "unprepare vsp"}

Counts ==
  /\ HoldsVsp => vsp = lostVsp + 1
  /\ ~HoldsVsp => vsp = lostVsp
  /\ HoldsVsn => vsn = lostVsn + 1
  /\ ~HoldsVsn => vsn = lostVsn

Where ==
  /\ pc \in Preparing \union Unwinding => bound /\ ~prepared
  /\ pc \in Unpreparing => On
  /\ pc = "idle" /\ ~prepared => reset = 0
  /\ reset = 0 \/ pc \in {"idle", "low", "init", "error reset"}
  /\ ~bound /\ prepared => lostVsp > 0 /\ lostVsn > 0

IInv == Flags /\ Numbers /\ Counts /\ Where /\ InitComplete

LEMMA InitIInv == Init => IInv
<1> SUFFICES ASSUME Init PROVE IInv
  OBVIOUS
<1> USE RowsAssumption, MaxLostAssumption DEF Init
<1>1. Flags BY DEF Flags
<1>2. Numbers BY DEF Numbers
<1>3. Counts BY DEF Counts, HoldsVsp, HoldsVsn, On
<1>4. Where BY DEF Where, Preparing, Unwinding, Unpreparing, On
<1>5. InitComplete BY DEF InitComplete
<1> QED BY <1>1, <1>2, <1>3, <1>4, <1>5 DEF IInv

LEMMA StepIInv == IInv /\ [Next]_vars => IInv'
<1> SUFFICES ASSUME IInv, [Next]_vars PROVE IInv'
  OBVIOUS
<1> USE RowsAssumption, MaxLostAssumption DEF IInv, Goto, rails, lost
<1>1. CASE Probe
  <2>1. Flags' BY <1>1 DEF Probe, Flags, Preparing, Unwinding, Unpreparing
  <2>2. Numbers' BY <1>1 DEF Probe, Numbers
  <2>3. Counts' BY <1>1 DEF Probe, Numbers, Counts, HoldsVsp, HoldsVsn, On, Where, Preparing, Unwinding, Unpreparing
  <2>4. Where' BY <1>1 DEF Probe, Numbers, Where, On, Preparing, Unwinding, Unpreparing
  <2>5. InitComplete' BY <1>1 DEF Probe, InitComplete, Where, On, Preparing, Unwinding, Unpreparing
  <2> QED BY <2>1, <2>2, <2>3, <2>4, <2>5
<1>2. CASE Remove
  <2>1. Flags' BY <1>2 DEF Remove, Flags, Preparing, Unwinding, Unpreparing
  <2>2. Numbers' BY <1>2 DEF Remove, Numbers
  <2>3. Counts' BY <1>2 DEF Remove, Numbers, Counts, HoldsVsp, HoldsVsn, On, Where, Preparing, Unwinding, Unpreparing
  <2>4. Where' BY <1>2 DEF Remove, Numbers, Where, On, Preparing, Unwinding, Unpreparing
  <2>5. InitComplete' BY <1>2 DEF Remove, InitComplete, Where, On, Preparing, Unwinding, Unpreparing
  <2> QED BY <2>1, <2>2, <2>3, <2>4, <2>5
<1>3. CASE Prepare
  <2>1. Flags' BY <1>3 DEF Prepare, Flags, Preparing, Unwinding, Unpreparing
  <2>2. Numbers' BY <1>3 DEF Prepare, Numbers
  <2>3. Counts' BY <1>3 DEF Prepare, Numbers, Counts, HoldsVsp, HoldsVsn, On, Where, Preparing, Unwinding, Unpreparing
  <2>4. Where' BY <1>3 DEF Prepare, Numbers, Where, On, Preparing, Unwinding, Unpreparing
  <2>5. InitComplete' BY <1>3 DEF Prepare, InitComplete, Where, On, Preparing, Unwinding, Unpreparing
  <2> QED BY <2>1, <2>2, <2>3, <2>4, <2>5
<1>4. CASE EnableVsp
  <2>1. Flags' BY <1>4 DEF EnableVsp, Flags, Preparing, Unwinding, Unpreparing
  <2>2. Numbers'
    <3>1. vsp' = vsp + 1 \/ vsp' = vsp BY <1>4 DEF EnableVsp
    <3>2. vsn' = vsn /\ row' = row /\ lostVsp' = lostVsp /\ lostVsn' = lostVsn BY <1>4 DEF EnableVsp
    <3> QED BY <3>1, <3>2 DEF Numbers
  <2>3. Counts' BY <1>4 DEF EnableVsp, Numbers, Counts, HoldsVsp, HoldsVsn, On, Where, Preparing, Unwinding, Unpreparing
  <2>4. Where' BY <1>4 DEF EnableVsp, Numbers, Where, On, Preparing, Unwinding, Unpreparing
  <2>5. InitComplete' BY <1>4 DEF EnableVsp, InitComplete, Where, On, Preparing, Unwinding, Unpreparing
  <2> QED BY <2>1, <2>2, <2>3, <2>4, <2>5
<1>5. CASE EnableVsn
  <2>1. Flags' BY <1>5 DEF EnableVsn, Flags, Preparing, Unwinding, Unpreparing
  <2>2. Numbers'
    <3>1. vsn' = vsn + 1 \/ vsn' = vsn BY <1>5 DEF EnableVsn
    <3>2. vsp' = vsp /\ row' = row /\ lostVsp' = lostVsp /\ lostVsn' = lostVsn BY <1>5 DEF EnableVsn
    <3> QED BY <3>1, <3>2 DEF Numbers
  <2>3. Counts' BY <1>5 DEF EnableVsn, Numbers, Counts, HoldsVsp, HoldsVsn, On, Where, Preparing, Unwinding, Unpreparing
  <2>4. Where' BY <1>5 DEF EnableVsn, Numbers, Where, On, Preparing, Unwinding, Unpreparing
  <2>5. InitComplete' BY <1>5 DEF EnableVsn, InitComplete, Where, On, Preparing, Unwinding, Unpreparing
  <2> QED BY <2>1, <2>2, <2>3, <2>4, <2>5
<1>6. CASE ResetPulse
  <2>1. Flags' BY <1>6 DEF ResetPulse, Flags, Preparing, Unwinding, Unpreparing
  <2>2. Numbers'
    <3>1. row' = 0 /\ vsp' = vsp /\ vsn' = vsn /\ lostVsp' = lostVsp /\ lostVsn' = lostVsn BY <1>6 DEF ResetPulse
    <3> QED BY <3>1 DEF Numbers
  <2>3. Counts' BY <1>6 DEF ResetPulse, Numbers, Counts, HoldsVsp, HoldsVsn, On, Where, Preparing, Unwinding, Unpreparing
  <2>4. Where' BY <1>6 DEF ResetPulse, Numbers, Where, On, Preparing, Unwinding, Unpreparing
  <2>5. InitComplete' BY <1>6 DEF ResetPulse, InitComplete, Where, On, Preparing, Unwinding, Unpreparing
  <2> QED BY <2>1, <2>2, <2>3, <2>4, <2>5
<1>7. CASE SendRow
  <2>1. Flags' BY <1>7 DEF SendRow, Flags, Preparing, Unwinding, Unpreparing
  <2>2. Numbers' BY <1>7 DEF SendRow, Numbers
  <2>3. Counts' BY <1>7 DEF SendRow, Numbers, Counts, HoldsVsp, HoldsVsn, On, Where, Preparing, Unwinding, Unpreparing
  <2>4. Where' BY <1>7 DEF SendRow, Numbers, Where, On, Preparing, Unwinding, Unpreparing
  <2>5. InitComplete' BY <1>7 DEF SendRow, InitComplete, Where, On, Preparing, Unwinding, Unpreparing
  <2> QED BY <2>1, <2>2, <2>3, <2>4, <2>5
<1>8. CASE RowFails
  <2>1. Flags' BY <1>8 DEF RowFails, Flags, Preparing, Unwinding, Unpreparing
  <2>2. Numbers' BY <1>8 DEF RowFails, Numbers
  <2>3. Counts' BY <1>8 DEF RowFails, Numbers, Counts, HoldsVsp, HoldsVsn, On, Where, Preparing, Unwinding, Unpreparing
  <2>4. Where' BY <1>8 DEF RowFails, Numbers, Where, On, Preparing, Unwinding, Unpreparing
  <2>5. InitComplete' BY <1>8 DEF RowFails, InitComplete, Where, On, Preparing, Unwinding, Unpreparing
  <2> QED BY <2>1, <2>2, <2>3, <2>4, <2>5
<1>9. CASE IsPrepared
  <2>1. Flags' BY <1>9 DEF IsPrepared, Flags, Preparing, Unwinding, Unpreparing
  <2>2. Numbers' BY <1>9 DEF IsPrepared, Numbers
  <2>3. Counts' BY <1>9 DEF IsPrepared, Numbers, Counts, HoldsVsp, HoldsVsn, On, Where, Preparing, Unwinding, Unpreparing
  <2>4. Where' BY <1>9 DEF IsPrepared, Numbers, Where, On, Preparing, Unwinding, Unpreparing
  <2>5. InitComplete' BY <1>9 DEF IsPrepared, InitComplete, Where, On, Preparing, Unwinding, Unpreparing
  <2> QED BY <2>1, <2>2, <2>3, <2>4, <2>5
<1>10. CASE Unprepare
  <2>1. Flags' BY <1>10 DEF Unprepare, Flags, Preparing, Unwinding, Unpreparing
  <2>2. Numbers' BY <1>10 DEF Unprepare, Numbers
  <2>3. Counts' BY <1>10 DEF Unprepare, Numbers, Counts, HoldsVsp, HoldsVsn, On, Where, Preparing, Unwinding, Unpreparing
  <2>4. Where' BY <1>10 DEF Unprepare, Numbers, Where, On, Preparing, Unwinding, Unpreparing
  <2>5. InitComplete' BY <1>10 DEF Unprepare, InitComplete, Where, On, Preparing, Unwinding, Unpreparing
  <2> QED BY <2>1, <2>2, <2>3, <2>4, <2>5
<1>11. CASE ErrorReset
  <2>1. Flags' BY <1>11 DEF ErrorReset, Flags, Preparing, Unwinding, Unpreparing
  <2>2. Numbers' BY <1>11 DEF ErrorReset, Numbers
  <2>3. Counts' BY <1>11 DEF ErrorReset, Numbers, Counts, HoldsVsp, HoldsVsn, On, Where, Preparing, Unwinding, Unpreparing
  <2>4. Where' BY <1>11 DEF ErrorReset, Numbers, Where, On, Preparing, Unwinding, Unpreparing
  <2>5. InitComplete' BY <1>11 DEF ErrorReset, InitComplete, Where, On, Preparing, Unwinding, Unpreparing
  <2> QED BY <2>1, <2>2, <2>3, <2>4, <2>5
<1>12. CASE DisableVsn
  <2>1. Flags' BY <1>12 DEF DisableVsn, Flags, Preparing, Unwinding, Unpreparing
  <2>2. (pc = "unprepare vsn" /\ pc' = "unprepare vsp") \/ (pc = "error vsn" /\ pc' = "error vsp")
    BY <1>12 DEF DisableVsn
  <2>3. HoldsVsn /\ ~HoldsVsn' BY <2>2 DEF HoldsVsn, On
  <2>4. HoldsVsp' <=> HoldsVsp BY <2>2 DEF HoldsVsp, On
  <2>5. vsn = lostVsn + 1 BY <2>3 DEF Counts
  <2>6. \/ vsn' = vsn - 1 /\ lostVsn' = lostVsn
        \/ vsn' = vsn /\ lostVsn < MaxLost /\ lostVsn' = lostVsn + 1
    BY <1>12 DEF DisableVsn
  <2>7. vsp' = vsp /\ row' = row /\ lostVsp' = lostVsp BY <1>12 DEF DisableVsn
  <2>8. Numbers' /\ vsn' = lostVsn' BY <2>5, <2>6, <2>7 DEF Numbers
  <2>11. Counts' BY <2>3, <2>4, <2>7, <2>8 DEF Counts
  <2>9. Where' BY <1>12 DEF DisableVsn, Numbers, Where, On, Preparing, Unwinding, Unpreparing
  <2>10. InitComplete' BY <1>12 DEF DisableVsn, InitComplete, Where, On, Preparing, Unwinding, Unpreparing
  <2> QED BY <2>1, <2>8, <2>11, <2>9, <2>10
<1>13. CASE DisableVsp
  <2>1. Flags' BY <1>13 DEF DisableVsp, Flags, Preparing, Unwinding, Unpreparing
  <2>2. \/ pc = "unprepare vsp" /\ pc' = "idle" /\ ~prepared'
        \/ pc = "error vsp" /\ pc' = "idle" /\ ~prepared'
    BY <1>13 DEF DisableVsp, Where, Unwinding
  <2>3. HoldsVsp /\ ~HoldsVsp' BY <2>2 DEF HoldsVsp, On
  <2>4. HoldsVsn' <=> HoldsVsn BY <2>2 DEF HoldsVsn, On
  <2>5. vsp = lostVsp + 1 BY <2>3 DEF Counts
  <2>6. \/ vsp' = vsp - 1 /\ lostVsp' = lostVsp
        \/ vsp' = vsp /\ lostVsp < MaxLost /\ lostVsp' = lostVsp + 1
    BY <1>13 DEF DisableVsp
  <2>7. vsn' = vsn /\ row' = row /\ lostVsn' = lostVsn BY <1>13 DEF DisableVsp
  <2>8. Numbers' /\ vsp' = lostVsp' BY <2>5, <2>6, <2>7 DEF Numbers
  <2>11. Counts' BY <2>3, <2>4, <2>7, <2>8 DEF Counts
  <2>9. Where' BY <1>13 DEF DisableVsp, Numbers, Where, On, Preparing, Unwinding, Unpreparing
  <2>10. InitComplete' BY <1>13 DEF DisableVsp, InitComplete, Where, On, Preparing, Unwinding, Unpreparing
  <2> QED BY <2>1, <2>8, <2>11, <2>9, <2>10
<1>14. CASE UNCHANGED vars
  BY <1>14 DEF vars, Flags, Numbers, Counts, HoldsVsp, HoldsVsn, On, Where, InitComplete
<1> QED BY <1>1, <1>2, <1>3, <1>4, <1>5, <1>6, <1>7, <1>8, <1>9, <1>10, <1>11, <1>12, <1>13, <1>14 DEF Next

LEMMA AlwaysIInv == Spec => []IInv
BY InitIInv, StepIInv, PTL DEF Spec

\* The types, for every value of the constants.
THEOREM PanelTyped == Spec => []TypeOK
<1>1. IInv => TypeOK BY DEF IInv, Flags, Numbers, TypeOK
<1> QED BY AlwaysIInv, <1>1, PTL

\* Between calls the rails are enabled once or not at all, whatever failed
\* before: every way out of prepare undoes what that prepare had done.
THEOREM RailsStayBalanced == Spec => []RailsBalanced
<1>1. IInv => RailsBalanced BY DEF IInv, Numbers, Counts, HoldsVsp, HoldsVsn, On, Held, RailsBalanced
<1> QED BY AlwaysIInv, <1>1, PTL

LEMMA IInvPowerOrder == IInv => PowerOrder
<1> SUFFICES ASSUME IInv PROVE PowerOrder
  OBVIOUS
<1> USE DEF IInv
<1>1. HoldsVsn => HoldsVsp BY DEF HoldsVsp, HoldsVsn
<1>2. vsn > lostVsn => vsp > lostVsp BY <1>1, MaxLostAssumption DEF Counts, Numbers
<1>3. ASSUME reset = 1 PROVE vsp > 0 /\ vsn > 0
  <2>1. CASE pc = "idle" /\ bound
    <3>1. HoldsVsp /\ HoldsVsn BY <1>3, <2>1 DEF HoldsVsp, HoldsVsn, On, Where
    <3> QED BY <3>1, MaxLostAssumption DEF Counts, Numbers
  <2>2. CASE pc = "idle" /\ ~bound
    <3>1. lostVsp > 0 /\ lostVsn > 0 BY <1>3, <2>2 DEF Where
    <3> QED BY <3>1, MaxLostAssumption DEF Counts, Numbers
  <2>3. CASE pc # "idle"
    <3>0. reset # 0 BY <1>3
    <3>1. pc \in {"low", "init", "error reset"} BY <2>3, <3>0 DEF Where
    <3>2. HoldsVsp /\ HoldsVsn BY <3>1 DEF HoldsVsp, HoldsVsn
    <3> QED BY <3>2, MaxLostAssumption DEF Counts, Numbers
  <2> QED BY <2>1, <2>2, <2>3
<1> QED BY <1>2, <1>3 DEF PowerOrder

\* VSN never without VSP, the line never raised without both.
THEOREM PowerInOrder == Spec => []PowerOrder
BY AlwaysIInv, IInvPowerOrder, PTL

\* A prepared panel was sent the whole sequence.
THEOREM PreparedIsInitialised == Spec => []InitComplete
<1>1. IInv => InitComplete BY DEF IInv
<1> QED BY AlwaysIInv, <1>1, PTL

-----------------------------------------------------------------------------
(* GoodixFp. *)

\* The invariant but for what the driver and the HAL know of each other.
SensorRest ==
  /\ Sensor!Types /\ Sensor!Exclusive /\ Sensor!Stages /\ Sensor!Switching
  /\ Sensor!IrqBalanced /\ Sensor!ResetPulseIntact

LEMMA SensorInit == Sensor!Init => Sensor!IInv
<1>1. Sensor!Init => irq_enabled \in BOOLEAN
  BY DEF Sensor!Init
<1>2. Sensor!Init => Sensor!Types
  BY <1>1 DEF Sensor!Init, Sensor!Types, Sensor!Threads, Sensor!Ioctls
<1>3. Sensor!Init => SensorRest
  BY <1>2 DEF Sensor!Init, SensorRest, Sensor!Types, Sensor!Exclusive, Sensor!Stages,
     Sensor!Switching, Sensor!IrqBalanced, Sensor!ResetPulseIntact, Sensor!Threads, Sensor!Ioctls
<1>4. Sensor!Init => Sensor!PidsAreNew
  BY DEF Sensor!Init, Sensor!PidsAreNew
<1> QED BY <1>3, <1>4 DEF Sensor!IInv, SensorRest

\* Without a file nobody is inside the fp_driver.
LEMMA SensorAlone == ASSUME Sensor!Exclusive, file # "priv", NEW t \in Sensor!Threads PROVE fp_pc[t] = "idle"
BY DEF Sensor!Exclusive

LEMMA SensorDriverKeeps == ASSUME SensorRest, Sensor!Probe \/ Sensor!Remove PROVE SensorRest'
<1> USE DEF SensorRest, Sensor!Types, Sensor!Exclusive, Sensor!Stages, Sensor!Switching,
        Sensor!IrqBalanced, Sensor!ResetPulseIntact,
        Sensor!calls, Sensor!irq, Sensor!process, Sensor!gf_priv
<1>1. CASE Sensor!ProbeCreatesNode
  <2>1. \A t \in Sensor!Threads : fp_pc[t] = "idle"
    BY <1>1 DEF Sensor!ProbeCreatesNode
  <2> QED BY <1>1, <2>1 DEF Sensor!ProbeCreatesNode
<1>2. CASE Sensor!ProbeCreatesSocket
  BY <1>2 DEF Sensor!ProbeCreatesSocket
<1>3. CASE Sensor!ProbeRequestsIrq
  <2>1. \A t \in Sensor!Threads : fp_pc[t] = "idle"
    BY <1>3 DEF Sensor!ProbeRequestsIrq
  <2>2. irq_enabled' \in BOOLEAN
    BY <1>3 DEF Sensor!ProbeRequestsIrq
  <2>3. irq_enabled' = TRUE /\ depth' = 0
    BY <1>3 DEF Sensor!ProbeRequestsIrq
  <2>4. Sensor!IrqBalanced'
    BY <2>3
  <2>5. (Sensor!Exclusive /\ Sensor!Switching /\ Sensor!ResetPulseIntact)'
    BY <1>3, <2>1 DEF Sensor!ProbeRequestsIrq
  <2>6. Sensor!Stages'
    BY <1>3 DEF Sensor!ProbeRequestsIrq
  <2>7. Sensor!Types'
    BY <1>3, <2>2 DEF Sensor!ProbeRequestsIrq
  <2> QED BY <2>4, <2>5, <2>6, <2>7
<1>4. CASE Sensor!ProbeFails
  BY <1>4 DEF Sensor!ProbeFails
<1>5. CASE Sensor!ProbeEnds
  BY <1>5 DEF Sensor!ProbeEnds
<1>6. CASE Sensor!RemoveReleasesSocket
  BY <1>6 DEF Sensor!RemoveReleasesSocket
<1>7. CASE Sensor!RemoveDestroysNode
  BY <1>7 DEF Sensor!RemoveDestroysNode
<1>8. CASE Sensor!DevresFrees
  <2>1. \A t \in Sensor!Threads : fp_pc[t] = "idle"
    BY <1>8 DEF Sensor!DevresFrees
  <2>2. irq_enabled' \in BOOLEAN
    BY <1>8 DEF Sensor!DevresFrees
  <2> QED BY <1>8, <2>1, <2>2 DEF Sensor!DevresFrees
<1> QED BY <1>1, <1>2, <1>3, <1>4, <1>5, <1>6, <1>7, <1>8 DEF Sensor!Probe, Sensor!Remove

LEMMA SensorHandlerKeeps == ASSUME SensorRest, Sensor!Handler \/ Sensor!FingerTouches PROVE SensorRest'
<1> USE DEF SensorRest, Sensor!Types, Sensor!Exclusive, Sensor!Stages, Sensor!Switching,
        Sensor!IrqBalanced, Sensor!ResetPulseIntact,
        Sensor!calls, Sensor!irq, Sensor!process, Sensor!gf_priv
<1>1. CASE Sensor!HandlerStarts
  BY <1>1 DEF Sensor!HandlerStarts
<1>2. CASE Sensor!HandlerChecks
  BY <1>2 DEF Sensor!HandlerChecks
<1>3. CASE Sensor!HandlerSends
  BY <1>3 DEF Sensor!HandlerSends
<1>4. CASE Sensor!FingerTouches
  BY <1>4 DEF Sensor!FingerTouches
<1>5. CASE Sensor!HandlerHearsItself
  BY <1>5 DEF Sensor!HandlerHearsItself
<1> QED BY <1>1, <1>2, <1>3, <1>4, <1>5 DEF Sensor!Handler

LEMMA SensorCallKeeps == ASSUME SensorRest, NEW t \in Sensor!Threads, Sensor!Call(t) PROVE SensorRest'
<1> USE DEF SensorRest, Sensor!Types, Sensor!Exclusive, Sensor!Stages, Sensor!Switching,
        Sensor!IrqBalanced, Sensor!ResetPulseIntact,
        Sensor!calls, Sensor!irq, Sensor!process, Sensor!gf_priv, Sensor!Finish
<1>1. CASE Sensor!GfInit(t)
  BY <1>1 DEF Sensor!GfInit
<1>2. CASE Sensor!GfExit(t)
  BY <1>2 DEF Sensor!GfExit
<1>3. CASE Sensor!GfResetLow(t)
  BY <1>3 DEF Sensor!GfResetLow
<1>4. CASE Sensor!GfResetHigh(t)
  BY <1>4 DEF Sensor!GfResetHigh
<1>5. CASE Sensor!GfEnableIrq(t)
  BY <1>5 DEF Sensor!GfEnableIrq
<1>6. CASE Sensor!GfDisableIrq(t)
  BY <1>6 DEF Sensor!GfDisableIrq
<1>7. CASE Sensor!GfStoresIrqFlag(t)
  <2>1. irq_enabled' \in BOOLEAN
    BY <1>7 DEF Sensor!GfStoresIrqFlag
  <2> QED BY <1>7, <2>1 DEF Sensor!GfStoresIrqFlag
<1>8. CASE Sensor!GfReturns(t)
  BY <1>8 DEF Sensor!GfReturns, Sensor!NothingToDo
<1> QED BY <1>1, <1>2, <1>3, <1>4, <1>5, <1>6, <1>7, <1>8 DEF Sensor!Call

LEMMA SensorHalKeeps == ASSUME SensorRest, Sensor!Hal PROVE SensorRest'
<1> USE DEF SensorRest, Sensor!Types, Sensor!Exclusive, Sensor!Stages, Sensor!Switching,
        Sensor!IrqBalanced, Sensor!ResetPulseIntact,
        Sensor!calls, Sensor!irq, Sensor!process, Sensor!gf_priv
<1>1. ASSUME NEW t \in Sensor!Threads, NEW cmd \in Sensor!Ioctls, Sensor!Enter(t, cmd) PROVE SensorRest'
  BY <1>1 DEF Sensor!Enter
<1>2. CASE Sensor!EnterNull
  BY <1>2 DEF Sensor!EnterNull
<1>3. CASE Sensor!GfOpen
  BY <1>3 DEF Sensor!GfOpen
<1>4. CASE Sensor!GfRelease
  BY <1>4 DEF Sensor!GfRelease
<1>5. CASE Sensor!NetlinkRecv
  BY <1>5 DEF Sensor!NetlinkRecv
<1>6. CASE Sensor!HalStarts
  BY <1>6 DEF Sensor!HalStarts
<1>7. CASE Sensor!HalDies
  BY <1>7 DEF Sensor!HalDies
<1> QED BY <1>1, <1>2, <1>3, <1>4, <1>5, <1>6, <1>7 DEF Sensor!Hal

\* The driver stores the number of the living process or none, and a new process has a
\* number nobody has had.
LEMMA SensorPids == ASSUME Sensor!PidsAreNew, SensorRest, Sensor!Next PROVE Sensor!PidsAreNew'
<1>1. CASE UNCHANGED <<nl_pid, hal, said, undone, born>>
  BY <1>1 DEF Sensor!PidsAreNew
<1>2. CASE Sensor!DevresFrees
  <2>1. nl_pid' = Sensor!NoPid /\ said' = "nothing" /\ UNCHANGED <<hal, born>>
    BY <1>2 DEF Sensor!DevresFrees
  <2> QED BY <2>1 DEF Sensor!PidsAreNew, Sensor!NoPid, Sensor!Port
<1>3. CASE Sensor!HandlerHearsItself
  <2>1. UNCHANGED <<hal, said, born>>
    BY <1>3 DEF Sensor!HandlerHearsItself
  <2>2. CASE g_priv
    <3>1. nl_pid' = Sensor!NoPid /\ (undone' <=> undone \/ nl_pid # Sensor!NoPid)
      BY <1>3, <2>2 DEF Sensor!HandlerHearsItself
    <3>2. hal # 0 => Sensor!NoPid # Sensor!Port(hal)
      BY DEF Sensor!NoPid, Sensor!Port
    <3>3. hal # 0 => ~(said = "main" /\ ~undone')
      BY <3>1, <3>2 DEF Sensor!PidsAreNew
    <3> QED BY <2>1, <3>1, <3>2, <3>3 DEF Sensor!PidsAreNew
  <2>3. CASE ~g_priv
    <3>1. UNCHANGED <<nl_pid, undone>>
      BY <1>3, <2>3 DEF Sensor!HandlerHearsItself
    <3> QED BY <2>1, <3>1 DEF Sensor!PidsAreNew
  <2> QED BY <2>2, <2>3
<1>4. ASSUME NEW t \in Sensor!Threads, Sensor!GfInit(t) \/ Sensor!GfExit(t)
      PROVE  Sensor!PidsAreNew'
  <2>0. hal # 0
    BY <1>4 DEF Sensor!GfInit, Sensor!GfExit, SensorRest, Sensor!Exclusive
  <2>1. UNCHANGED <<hal, born>> /\ undone' = FALSE
    BY <1>4 DEF Sensor!GfInit, Sensor!GfExit
  <2>2. CASE nl_pid' = <<hal, t>> /\ said' = t
    BY <2>0, <2>1, <2>2 DEF Sensor!PidsAreNew, Sensor!NoPid, Sensor!Port, Sensor!Threads
  <2>3. CASE nl_pid' = Sensor!NoPid /\ said' = "exit"
    BY <2>0, <2>1, <2>3 DEF Sensor!PidsAreNew, Sensor!NoPid, Sensor!Port
  <2> QED BY <1>4, <2>2, <2>3 DEF Sensor!GfInit, Sensor!GfExit
<1>5. CASE Sensor!NetlinkRecv
  <2>1. /\ UNCHANGED <<hal, born>> /\ nl_pid' = Sensor!Port(hal) /\ hal # 0
        /\ said' = "main" /\ undone' = FALSE
    BY <1>5 DEF Sensor!NetlinkRecv
  <2> QED BY <2>1 DEF Sensor!PidsAreNew, Sensor!Port, Sensor!Threads
<1>6. CASE Sensor!EnterNull \/ Sensor!HalDies
  <2>1. UNCHANGED <<nl_pid, born>> /\ hal' = 0 /\ said' = "nothing"
    BY <1>6 DEF Sensor!EnterNull, Sensor!HalDies, Sensor!gf_priv
  <2> QED BY <2>1 DEF Sensor!PidsAreNew
<1>7. CASE Sensor!HalStarts
  <2>1. /\ hal = 0 /\ hal' = born + 1 /\ born' = born + 1
        /\ UNCHANGED <<nl_pid, said, undone>>
    BY <1>7 DEF Sensor!HalStarts, Sensor!gf_priv
  <2>2. said' # "main" /\ nl_pid' # Sensor!Port(hal')
    BY <2>1 DEF Sensor!PidsAreNew, Sensor!NoPid, Sensor!Port
  <2>3. born' \in Nat /\ hal' # 0 /\ hal' = born'
    BY <2>1 DEF Sensor!PidsAreNew
  <2>4. nl_pid' = Sensor!NoPid
          \/ \E h \in 1 .. born', t \in Sensor!Threads : nl_pid' = <<h, t>>
    BY <2>1 DEF Sensor!PidsAreNew
  <2> QED BY <2>2, <2>3, <2>4 DEF Sensor!PidsAreNew, Sensor!NoPid
<1>8. Sensor!Probe \/ Sensor!RemoveReleasesSocket \/ Sensor!RemoveDestroysNode =>
        UNCHANGED <<nl_pid, hal, said, undone, born>>
  BY DEF Sensor!Probe, Sensor!ProbeCreatesNode, Sensor!ProbeCreatesSocket,
         Sensor!ProbeRequestsIrq, Sensor!ProbeFails, Sensor!ProbeEnds,
         Sensor!RemoveReleasesSocket, Sensor!RemoveDestroysNode, Sensor!gf_priv, Sensor!process
<1>9. Sensor!HandlerStarts \/ Sensor!HandlerChecks \/ Sensor!HandlerSends \/ Sensor!FingerTouches =>
        UNCHANGED <<nl_pid, hal, said, undone, born>>
  BY DEF Sensor!HandlerStarts, Sensor!HandlerChecks, Sensor!HandlerSends, Sensor!FingerTouches,
         Sensor!gf_priv, Sensor!process
<1>10. \A t \in Sensor!Threads :
         Sensor!Call(t) /\ ~(Sensor!GfInit(t) \/ Sensor!GfExit(t)) =>
            UNCHANGED <<nl_pid, hal, said, undone, born>>
  BY DEF Sensor!Call, Sensor!GfResetLow, Sensor!GfResetHigh, Sensor!GfEnableIrq,
         Sensor!GfDisableIrq, Sensor!GfStoresIrqFlag, Sensor!GfReturns,
         Sensor!gf_priv, Sensor!process
<1>11. (\E t \in Sensor!Threads, cmd \in Sensor!Ioctls : Sensor!Enter(t, cmd))
          \/ Sensor!GfOpen \/ Sensor!GfRelease =>
         UNCHANGED <<nl_pid, hal, said, undone, born>>
  BY DEF Sensor!Enter, Sensor!GfOpen, Sensor!GfRelease, Sensor!gf_priv, Sensor!process
<1> QED
  BY <1>1, <1>2, <1>3, <1>4, <1>5, <1>6, <1>7, <1>8, <1>9, <1>10, <1>11
     DEF Sensor!Next, Sensor!Remove, Sensor!Handler, Sensor!Hal

LEMMA SensorStep == Sensor!IInv /\ [Sensor!Next]_sensor_vars => Sensor!IInv'
<1> SUFFICES ASSUME Sensor!IInv, [Sensor!Next]_sensor_vars PROVE Sensor!IInv'
  OBVIOUS
<1>1. CASE UNCHANGED sensor_vars
  <2>1. UNCHANGED <<nl_pid, hal, said, undone, born>>
    BY <1>1 DEF sensor_vars
  <2>2. Sensor!PidsAreNew'
    BY <2>1 DEF Sensor!IInv, Sensor!PidsAreNew
  <2>3. SensorRest'
    BY <1>1 DEF Sensor!IInv, SensorRest, Sensor!Types, Sensor!Exclusive, Sensor!Stages,
          Sensor!Switching, Sensor!IrqBalanced, Sensor!ResetPulseIntact,
          Sensor!calls, Sensor!irq, Sensor!process, Sensor!gf_priv, sensor_vars
  <2> QED BY <2>2, <2>3 DEF Sensor!IInv, SensorRest
<1>2. CASE Sensor!Next
  <2>1. SensorRest /\ Sensor!PidsAreNew
    BY DEF Sensor!IInv, SensorRest
  <2>2. SensorRest'
    BY <1>2, <2>1, SensorDriverKeeps, SensorHandlerKeeps, SensorCallKeeps, SensorHalKeeps
       DEF Sensor!Next
  <2>3. Sensor!PidsAreNew'
    BY <1>2, <2>1, SensorPids
  <2> QED BY <2>2, <2>3 DEF Sensor!IInv, SensorRest
<1> QED BY <1>1, <1>2

-----------------------------------------------------------------------------
(* GfSpi. *)

LEMMA OldInit == Old!Init => Old!IInv
<1> SUFFICES ASSUME Old!Init PROVE Old!IInv
  OBVIOUS
<1> USE DEF Old!Init, Old!Threads
<1>1. Old!Types
  BY DEF Old!Types
<1>2. Old!IrqOnItsWay
  BY DEF Old!IrqOnItsWay
<1>3. Old!PowerInTurn
  BY DEF Old!PowerInTurn, Old!Powering
<1>4. Old!PowerCounted
  BY <1>3 DEF Old!PowerCounted, Old!Idle
<1>5. Old!NumbersAreLines /\ Old!LinesFreedOnce
  BY DEF Old!NumbersAreLines, Old!LinesFreedOnce
<1>6. Old!FlagIsFinger /\ Old!TouchIsTold
  BY DEF Old!FlagIsFinger, Old!TouchIsTold
<1> QED BY <1>1, <1>2, <1>4, <1>5, <1>6 DEF Old!IInv

\* A step that clears the power list, and at which no thread is in a power call: what is
\* counted is left behind.
LEMMA OldUnpowered ==
  ASSUME Old!Types, vreg' = FALSE, left' = ldo, ldo' = ldo, gf_pc' = gf_pc, Old!Idle,
         ~device_available', ~overlapped', ~gf_bound' => users' = 0
  PROVE  Old!PowerCounted'
<1>1. ldo' = left' + 0
  BY DEF Old!Types
<1>2. \A t \in Old!Threads : gf_pc'[t] = "idle"
  BY DEF Old!Idle
<1>3. Old!PowerInTurn'
  BY <1>1, <1>2 DEF Old!PowerInTurn, Old!Powering
<1>4. Old!Idle'
  BY <1>2 DEF Old!Idle
<1> QED BY <1>3, <1>4 DEF Old!PowerCounted

\* A step that leaves the power alone.
LEMMA OldPowerKept ==
  ASSUME Old!PowerCounted, UNCHANGED <<device_available, vreg, ldo, left, overlapped, gf_pc>>,
         users' = 0 => Old!Idle /\ ~overlapped /\ ~vreg /\ ~device_available,
         ~gf_bound' => users' = 0
  PROVE  Old!PowerCounted'
<1>1. Old!PowerInTurn => Old!PowerInTurn'
  BY DEF Old!PowerInTurn, Old!Powering
<1>2. Old!Idle => Old!Idle'
  BY DEF Old!Idle
<1> QED BY <1>1, <1>2 DEF Old!PowerCounted

LEMMA OldProbeRemove == ASSUME Old!IInv, Old!gf_probe \/ Old!gf_remove PROVE Old!IInv'
<1> USE DEF Old!gf_cleanup, Old!gf_cleanup_pwr_list, Old!world, Old!irqs, Old!freed, Old!events
<1>0. /\ Old!Types /\ Old!IrqOnItsWay /\ Old!PowerCounted /\ Old!NumbersAreLines
      /\ Old!LinesFreedOnce /\ Old!FlagIsFinger /\ Old!TouchIsTold
  BY DEF Old!IInv
<1>1. CASE Old!gf_probe
  <2> USE DEF Old!gf_probe, Old!ProbeFails_mtk, Old!ProbeFails_qcom
  <2>0. users = 0 /\ users' = 0
    BY <1>0, <1>1 DEF Old!PowerCounted
  <2>1. left' \in Nat
    BY <1>0, <1>1 DEF Old!Types
  <2>2. Old!Types'
    BY <1>0, <1>1, <2>1 DEF Old!Types
  <2>3. Old!IrqOnItsWay'
    BY <1>0, <1>1 DEF Old!IrqOnItsWay
  <2>4. Old!PowerCounted'
    <3>1. /\ device_available' = FALSE /\ ldo' = ldo /\ gf_pc' = gf_pc
          /\ Old!Idle /\ ~vreg /\ ~device_available /\ ~overlapped /\ overlapped' = overlapped
      BY <1>0, <1>1, <2>0 DEF Old!PowerCounted
    <3>2. CASE UNCHANGED <<vreg, left>>
      <4>1. Old!PowerInTurn' /\ Old!Idle'
        BY <1>0, <2>0, <3>1, <3>2 DEF Old!PowerCounted, Old!PowerInTurn, Old!Powering, Old!Idle
      <4> QED BY <2>0, <3>1, <3>2, <4>1 DEF Old!PowerCounted
    <3>3. CASE vreg' = FALSE /\ left' = ldo
      BY <1>0, <2>0, <3>1, <3>3, OldUnpowered
    <3> QED BY <1>1, <3>2, <3>3
  <2>5. Old!NumbersAreLines'
    BY <1>0, <1>1, <2>0 DEF Old!NumbersAreLines
  <2>6. Old!LinesFreedOnce'
    BY <1>0, <1>1 DEF Old!LinesFreedOnce
  <2>7. (Old!FlagIsFinger /\ Old!TouchIsTold)'
    BY <1>0, <1>1 DEF Old!FlagIsFinger, Old!TouchIsTold
  <2> QED BY <2>2, <2>3, <2>4, <2>5, <2>6, <2>7 DEF Old!IInv
<1>2. CASE Old!gf_remove
  <2> USE DEF Old!gf_remove, Old!gf_remove_mtk, Old!gf_remove_qcom
  <2>0. users = 0 /\ users' = 0
    BY <1>0, <1>2 DEF Old!PowerCounted
  <2>1. left' \in Nat
    BY <1>0, <1>2 DEF Old!Types
  <2>2. Old!Types'
    BY <1>0, <1>2, <2>1 DEF Old!Types
  <2>3. Old!IrqOnItsWay'
    BY <1>0, <1>2 DEF Old!IrqOnItsWay
  <2>4. Old!PowerCounted'
    <3>1. /\ device_available' = device_available /\ ldo' = ldo /\ gf_pc' = gf_pc
          /\ Old!Idle /\ ~vreg /\ ~device_available /\ ~overlapped /\ overlapped' = overlapped
      BY <1>0, <1>2, <2>0 DEF Old!PowerCounted
    <3>2. CASE UNCHANGED <<vreg, left>>
      BY <1>0, <2>0, <3>1, <3>2, OldPowerKept
    <3>3. CASE vreg' = FALSE /\ left' = ldo
      BY <1>0, <2>0, <3>1, <3>3, OldUnpowered
    <3> QED BY <1>2, <3>2, <3>3
  <2>5. Old!NumbersAreLines'
    BY <1>0, <1>2, <2>0 DEF Old!NumbersAreLines
  <2>6. Old!LinesFreedOnce'
    BY <1>0, <1>2 DEF Old!LinesFreedOnce
  <2>7. (Old!FlagIsFinger /\ Old!TouchIsTold)'
    BY <1>0, <1>2 DEF Old!FlagIsFinger, Old!TouchIsTold
  <2> QED BY <2>2, <2>3, <2>4, <2>5, <2>6, <2>7 DEF Old!IInv
<1> QED BY <1>1, <1>2

\* The first open requests every line whose number it learns.
LEMMA OldOpen == ASSUME Old!IInv, Old!gf_open PROVE Old!IInv'
<1> USE DEF Old!gf_cleanup_pwr_list, Old!world, Old!irqs, Old!events, Old!lines
<1>0. /\ Old!Types /\ Old!IrqOnItsWay /\ Old!PowerCounted /\ Old!NumbersAreLines
      /\ Old!LinesFreedOnce /\ Old!FlagIsFinger /\ Old!TouchIsTold
  BY DEF Old!IInv
<1>1. /\ Old!OpenFirst \/ Old!OpenFails \/ Old!OpenWithoutIrq \/ Old!OpenAgain
      /\ gf_bound /\ ~device_list_lock
      /\ UNCHANGED <<build, cs_disable, gf_bound, gf_pc, device_available, ldo, overlapped,
                     lasttouchmode, finger, cleaned, pid, told, extra>>
  BY DEF Old!gf_open
<1>2. (Old!FlagIsFinger /\ Old!TouchIsTold)'
  BY <1>0, <1>1 DEF Old!FlagIsFinger, Old!TouchIsTold
<1>3. CASE Old!OpenAgain
  <2>1. users \in Nat /\ users # 0 /\ users' = users + 1
    BY <1>0, <1>3 DEF Old!OpenAgain, Old!Types
  <2>2. UNCHANGED <<device_list_lock, gpios, numbers, irq, gf_irq_enabled, gf_depth, vreg, left, overfreed>>
    BY <1>3 DEF Old!OpenAgain
  <2>3. Old!PowerCounted'
    BY <1>0, <1>1, <2>1, <2>2, OldPowerKept
  <2>4. Old!Types' /\ Old!IrqOnItsWay'
    BY <1>0, <1>1, <2>1, <2>2 DEF Old!Types, Old!IrqOnItsWay
  <2>5. (Old!NumbersAreLines /\ Old!LinesFreedOnce)'
    BY <1>0, <1>1, <2>1, <2>2 DEF Old!NumbersAreLines, Old!LinesFreedOnce
  <2> QED BY <1>2, <2>3, <2>4, <2>5 DEF Old!IInv
<1>4. CASE ~Old!OpenAgain
  <2>0. users = 0 /\ users' = 1
    BY <1>1, <1>4 DEF Old!OpenFirst, Old!OpenFails, Old!OpenWithoutIrq
  <2>1. Old!Idle /\ ~overlapped /\ ~device_available /\ ~vreg
    BY <1>0, <2>0 DEF Old!PowerCounted
  <2>2. UNCHANGED <<vreg, left>> \/ (vreg' = FALSE /\ left' = ldo)
    BY <1>1, <1>4 DEF Old!OpenFirst, Old!OpenFails, Old!OpenWithoutIrq
  <2>3. Old!PowerCounted'
    <3>1. CASE UNCHANGED <<vreg, left>>
      BY <1>0, <1>1, <2>0, <3>1, OldPowerKept
    <3>2. CASE vreg' = FALSE /\ left' = ldo
      BY <1>0, <1>1, <2>0, <2>1, <3>2, OldUnpowered
    <3> QED BY <2>2, <3>1, <3>2
  <2>4. /\ UNCHANGED <<irq, gf_irq_enabled, gf_depth>> \/ (gf_irq_enabled' = TRUE /\ gf_depth' = 0)
    BY <1>1, <1>4 DEF Old!OpenFirst, Old!OpenFails, Old!OpenWithoutIrq, Old!irq_setup
  <2>5. Old!Types'
    <3>1. left' \in Nat
      BY <1>0, <2>2 DEF Old!Types
    <3> QED BY <1>0, <1>1, <2>0, <2>4, <3>1 DEF Old!Types
  <2>6. Old!IrqOnItsWay'
    BY <1>0, <1>1, <2>4 DEF Old!IrqOnItsWay
  <2>7. Old!NumbersAreLines'
    <3>1. numbers' \subseteq {"reset", "cs", "irq"}
      BY <1>0, <1>1, <1>4 DEF Old!NumbersAreLines, Old!OpenFirst, Old!OpenFails, Old!OpenWithoutIrq,
         Old!gf_parse_dts, Old!gf_parse_dts_mtk, Old!gf_parse_dts_qcom, Old!MtkLines
    <3>2. cs_disable \/ device_list_lock' \/ numbers' \subseteq gpios'
      BY <1>0, <1>1, <1>4 DEF Old!NumbersAreLines, Old!OpenFirst, Old!OpenFails, Old!OpenWithoutIrq,
         Old!gf_parse_dts, Old!gf_parse_dts_mtk, Old!gf_parse_dts_qcom, Old!MtkLines
    <3> QED BY <1>1, <3>1, <3>2 DEF Old!NumbersAreLines
  <2>8. Old!LinesFreedOnce'
    <3>1. CASE Old!OpenFirst \/ Old!OpenFails
      BY <1>0, <1>1, <3>1 DEF Old!LinesFreedOnce, Old!OpenFirst, Old!OpenFails
    <3>2. CASE Old!OpenWithoutIrq
      BY <1>0, <1>1, <3>2 DEF Old!LinesFreedOnce, Old!OpenWithoutIrq, Old!NumbersAreLines, Old!MtkLines
    <3> QED BY <1>1, <1>4, <3>1, <3>2
  <2> QED BY <1>2, <2>3, <2>5, <2>6, <2>7, <2>8 DEF Old!IInv
<1> QED BY <1>3, <1>4

LEMMA OldRelease == ASSUME Old!IInv, Old!gf_release PROVE Old!IInv'
<1> USE DEF Old!irq_cleanup, Old!gf_cleanup, Old!gf_cleanup_pwr_list, Old!world, Old!irqs
<1>0. /\ Old!Types /\ Old!IrqOnItsWay /\ Old!PowerCounted /\ Old!NumbersAreLines
      /\ Old!LinesFreedOnce /\ Old!FlagIsFinger /\ Old!TouchIsTold
  BY DEF Old!IInv
<1>1. /\ users \in Nat /\ users > 0 /\ users' = users - 1
      /\ UNCHANGED <<cs_disable, gf_bound, device_list_lock, numbers, gf_pc, ldo,
                     lasttouchmode, finger, cleaned, extra>>
  BY <1>0 DEF Old!gf_release, Old!Types
<1>2. CASE users = 1
  <2>1. /\ gf_irq_enabled' = FALSE /\ gf_depth' = 1 /\ vreg' = FALSE /\ left' = ldo
        /\ gpios' = gpios \ numbers /\ overfreed' = overfreed \union (numbers \ gpios)
        /\ ~device_available' /\ ~overlapped' /\ pid' = FALSE /\ Old!Idle /\ ~device_list_lock
    BY <1>2 DEF Old!gf_release, Old!LastUser
  <2>0. users' = 0 /\ gf_pc' = gf_pc /\ ldo' = ldo
    BY <1>1, <1>2
  <2>2. Old!PowerCounted'
    BY <1>0, <2>0, <2>1, OldUnpowered
  <2>3. Old!Types' /\ Old!IrqOnItsWay'
    BY <1>0, <1>1, <1>2, <2>1 DEF Old!Types, Old!IrqOnItsWay
  <2>4. Old!NumbersAreLines'
    BY <1>0, <1>1, <1>2 DEF Old!NumbersAreLines
  <2>5. Old!LinesFreedOnce'
    <3>0. extra \/ cs_disable \/ numbers \subseteq gpios
      BY <1>0, <1>2, <2>1 DEF Old!NumbersAreLines
    <3>1. extra \/ cs_disable \/ numbers \ gpios = {}
      BY <3>0
    <3> QED BY <1>0, <1>1, <2>1, <3>1 DEF Old!LinesFreedOnce
  <2>6. (Old!FlagIsFinger /\ Old!TouchIsTold)'
    BY <1>0, <1>1, <2>1 DEF Old!FlagIsFinger, Old!TouchIsTold
  <2> QED BY <2>2, <2>3, <2>4, <2>5, <2>6 DEF Old!IInv
<1>3. CASE users # 1
  <2>1. /\ UNCHANGED <<irq, gf_irq_enabled, gf_depth, gpios, overfreed, device_available, vreg, left,
                       overlapped, pid, told>>
        /\ users' \in Nat /\ users' # 0 /\ gf_bound
    BY <1>0, <1>1, <1>3 DEF Old!gf_release, Old!LastUser, Old!PowerCounted
  <2>2. Old!PowerCounted'
    BY <1>0, <1>1, <2>1, OldPowerKept
  <2>3. Old!Types' /\ Old!IrqOnItsWay'
    BY <1>0, <1>1, <2>1 DEF Old!Types, Old!IrqOnItsWay
  <2>4. (Old!NumbersAreLines /\ Old!LinesFreedOnce)'
    BY <1>0, <1>1, <2>1 DEF Old!NumbersAreLines, Old!LinesFreedOnce
  <2>5. (Old!FlagIsFinger /\ Old!TouchIsTold)'
    BY <1>0, <1>1, <2>1 DEF Old!FlagIsFinger, Old!TouchIsTold
  <2> QED BY <2>2, <2>3, <2>4, <2>5 DEF Old!IInv
<1> QED BY <1>2, <1>3

\* Where a thread is in a call about the interrupt, and in one about the power.
OldIrqPlaces   == {"idle", "enable", "enabled", "disable", "disabled"}
OldPowerPlaces == {"idle", "power_on", "on", "power_off", "off"}

\* A thread that moves within its call about the interrupt is not at the power.
LEMMA OldPowerStill ==
  ASSUME Old!Types, Old!PowerCounted, NEW t \in Old!Threads, NEW from \in OldIrqPlaces,
         NEW to \in OldIrqPlaces, gf_pc[t] = from, gf_pc' = [gf_pc EXCEPT ![t] = to], users # 0,
         UNCHANGED <<gf_bound, users, device_available, vreg, ldo, left, overlapped>>
  PROVE  Old!PowerCounted'
<1>1. \A u \in Old!Threads : \A p \in {"power_on", "on", "power_off", "off"} :
        gf_pc'[u] = p <=> gf_pc[u] = p
  BY DEF Old!Types, OldIrqPlaces
<1>2. Old!PowerInTurn => Old!PowerInTurn'
  BY <1>1 DEF Old!PowerInTurn, Old!Powering
<1> QED BY <1>2 DEF Old!PowerCounted

\* Two threads at the interrupt: the one that has lowered the depth has the flag still to
\* set, and the one that has cleared the flag has the depth still to raise.
LEMMA OldSwitches ==
  ASSUME Old!IInv, NEW t \in Old!Threads,
         Old!EnableChecks(t) \/ Old!gf_enable_irq(t) \/ Old!DisableChecks(t) \/ Old!gf_disable_irq(t)
  PROVE  Old!IInv'
<1>0. /\ Old!Types /\ Old!IrqOnItsWay /\ Old!PowerCounted /\ Old!NumbersAreLines
      /\ Old!LinesFreedOnce /\ Old!FlagIsFinger /\ Old!TouchIsTold
  BY DEF Old!IInv
<1>1. PICK from \in OldIrqPlaces, to \in OldIrqPlaces :
        Old!Step(t, from, to) /\ (from = "idle" => users # 0)
  BY <1>0 DEF Old!EnableChecks, Old!gf_enable_irq, Old!DisableChecks, Old!gf_disable_irq,
         Old!Available, Old!Called, OldIrqPlaces, Old!Types
<1>2. /\ gf_pc' = [gf_pc EXCEPT ![t] = to] /\ gf_pc[t] = from
      /\ UNCHANGED <<gf_bound, users, device_available, vreg, ldo, left, overlapped>>
      /\ UNCHANGED <<irq, numbers, gpios, extra, cs_disable, device_list_lock, overfreed,
                     lasttouchmode, finger, cleaned, pid, told>>
  BY <1>1 DEF Old!Step, Old!world, Old!opened, Old!lines, Old!power, Old!events, Old!freed
<1>3. users # 0
  BY <1>0, <1>1, <1>2 DEF Old!PowerCounted, Old!Idle
<1>4. Old!PowerCounted'
  BY <1>0, <1>2, <1>3, OldPowerStill
<1>5. (Old!NumbersAreLines /\ Old!LinesFreedOnce)'
  BY <1>0, <1>2 DEF Old!NumbersAreLines, Old!LinesFreedOnce
<1>6. (Old!FlagIsFinger /\ Old!TouchIsTold)'
  BY <1>0, <1>2 DEF Old!FlagIsFinger, Old!TouchIsTold
<1>7. gf_depth' \in Nat
  BY <1>0 DEF Old!Types, Old!EnableChecks, Old!gf_enable_irq, Old!DisableChecks,
     Old!gf_disable_irq, Old!InterruptOn, Old!FlagOn
<1>8. Old!Types'
  BY <1>0, <1>2, <1>7 DEF Old!Types, OldIrqPlaces
<1>9. Old!IrqOnItsWay'
  <2>1. gf_pc'[t] = to /\ \A u \in Old!Threads \ {t} : gf_pc'[u] = gf_pc[u]
    BY <1>0, <1>2 DEF Old!Types
  <2>2. CASE Old!EnableChecks(t) \/ Old!DisableChecks(t)
    <3>1. UNCHANGED <<gf_irq_enabled, gf_depth>> /\ gf_pc[t] = "idle"
      BY <2>2 DEF Old!EnableChecks, Old!DisableChecks, Old!Step
    <3> QED BY <1>0, <1>2, <2>1, <3>1 DEF Old!IrqOnItsWay
  <2>3. CASE Old!gf_enable_irq(t)
    <3>1. gf_pc'[t] = "enabled" \/ gf_irq_enabled'
      BY <1>0, <2>3 DEF Old!gf_enable_irq, Old!FlagOn, Old!Step, Old!Types
    <3> QED BY <3>1 DEF Old!IrqOnItsWay
  <2>4. CASE Old!gf_disable_irq(t)
    <3>1. gf_pc'[t] = "disabled" \/ gf_depth' > 0
      BY <1>0, <2>4 DEF Old!gf_disable_irq, Old!Step, Old!Types
    <3> QED BY <3>1 DEF Old!IrqOnItsWay
  <2> QED BY <2>2, <2>3, <2>4
<1> QED BY <1>4, <1>5, <1>6, <1>8, <1>9 DEF Old!IInv

\* The three steps of a power call: entry, the regulator, and the flag.
LEMMA OldPowerSteps ==
  ASSUME NEW t \in Old!Threads, Old!Types, Old!PowerCounted,
         Old!EnablePower(t) \/ Old!DisablePower(t)
  PROVE  /\ \E from, to \in OldPowerPlaces :
              gf_pc[t] = from /\ gf_pc' = [gf_pc EXCEPT ![t] = to]
         /\ users # 0
         /\ UNCHANGED <<gf_bound, users, left, gf_depth, gf_irq_enabled, irq, numbers, gpios, extra,
                        cs_disable, device_list_lock, overfreed, lasttouchmode, finger, cleaned,
                        pid, told>>
         /\ ldo' \in Nat
<1>1. \E from, to \in OldPowerPlaces : Old!PowerStep(t, from, to) /\ (from = "idle" => users # 0)
  BY DEF Old!EnablePower, Old!DisablePower, OldPowerPlaces, Old!Called, Old!Types
<1>2. PICK from \in OldPowerPlaces, to \in OldPowerPlaces :
        Old!PowerStep(t, from, to) /\ (from = "idle" => users # 0)
  BY <1>1
<1>3. gf_pc[t] = from /\ gf_pc' = [gf_pc EXCEPT ![t] = to]
  BY <1>2 DEF Old!PowerStep
<1>4. users # 0
  BY <1>2, <1>3 DEF Old!PowerCounted, Old!Idle
<1>5. UNCHANGED <<gf_bound, users, left, gf_depth, gf_irq_enabled, irq, numbers, gpios, extra,
                  cs_disable, device_list_lock, overfreed, lasttouchmode, finger, cleaned, pid, told>>
  BY <1>2 DEF Old!PowerStep, Old!world, Old!opened, Old!lines, Old!irqs, Old!events, Old!freed
<1>6. ldo' \in Nat
  <2>1. ldo' = ldo \/ ldo' = ldo + 1 \/ (ldo > 0 /\ ldo' = ldo - 1)
    BY DEF Old!EnablePower, Old!DisablePower, Old!gf_power_on, Old!PowerGoes, Old!gf_power_off
  <2> QED BY <2>1 DEF Old!Types
<1> QED BY <1>3, <1>4, <1>5, <1>6

\* How the flag and the list stand to each other while thread t is the only one at them.
OldInTurn(place, available, listed, uses, gone) ==
  /\ uses = gone + (IF listed THEN 1 ELSE 0)
  /\ listed => available \/ place = "on"
  /\ place \in {"power_on", "off"} => ~listed
  /\ place = "power_on" => ~available

\* A power call that has met no other, nor found one: the flag follows the list.
LEMMA OldPowerCall ==
  ASSUME NEW t \in Old!Threads, Old!Types, Old!PowerCounted,
         Old!EnablePower(t) \/ Old!DisablePower(t)
  PROVE  Old!PowerCounted'
<1>1. users # 0 /\ UNCHANGED <<gf_bound, users, left>> /\ ldo' \in Nat
  BY OldPowerSteps
<1>2. PICK from \in OldPowerPlaces, to \in OldPowerPlaces :
        gf_pc[t] = from /\ gf_pc' = [gf_pc EXCEPT ![t] = to]
  BY OldPowerSteps
<1>3. gf_pc'[t] = to /\ \A u \in Old!Threads \ {t} : gf_pc'[u] = gf_pc[u]
  BY <1>2 DEF Old!Types
<1>4. ASSUME ~overlapped' PROVE Old!PowerInTurn'
  <2>1. ~overlapped /\ (Old!MeetsAnother(t) \/ (overlapped' = overlapped /\ from # "idle"))
    <3>1. Old!MeetsAnother(t) \/ (overlapped' = overlapped /\ gf_pc[t] # "idle")
      BY DEF Old!EnablePower, Old!DisablePower, Old!PowerStep
    <3>2. Old!MeetsAnother(t) => (~overlapped' => ~overlapped)
      BY ZenonT(30) DEF Old!MeetsAnother
    <3> QED BY <1>2, <1>4, <3>1, <3>2
  <2>2. Old!PowerInTurn
    BY <2>1 DEF Old!PowerCounted
  <2>3. \A u \in Old!Threads \ {t} : ~Old!Powering(u)
    <3>1. CASE Old!MeetsAnother(t)
      BY <1>4, <3>1 DEF Old!MeetsAnother
    <3>2. CASE from # "idle"
      BY <1>2, <2>2, <3>2 DEF Old!PowerInTurn, Old!Powering, OldPowerPlaces
    <3> QED BY <2>1, <3>1, <3>2
  <2>4. OldInTurn(gf_pc[t], device_available, vreg, ldo, left)
    BY <2>2, <2>3 DEF OldInTurn, Old!PowerInTurn, Old!Powering
  <2>5. OldInTurn(gf_pc'[t], device_available', vreg', ldo', left')
    <3> USE DEF OldInTurn, Old!PowerStep
    <3>1. CASE Old!EnablePower(t)
      BY <1>1, <1>3, <2>4, <3>1 DEF Old!EnablePower, Old!gf_power_on, Old!Types
    <3>2. CASE Old!DisablePower(t)
      BY <1>1, <1>3, <2>4, <3>2 DEF Old!DisablePower, Old!PowerGoes, Old!gf_power_off, Old!Types
    <3> QED BY <3>1, <3>2
  <2>6. \A u \in Old!Threads \ {t} : gf_pc'[u] \notin {"power_on", "on", "power_off", "off"}
    BY <1>3, <2>3 DEF Old!Powering
  <2> QED BY <2>5, <2>6 DEF OldInTurn, Old!PowerInTurn, Old!Powering
<1> QED BY <1>1, <1>4 DEF Old!PowerCounted

LEMMA OldPower ==
  ASSUME Old!IInv, NEW t \in Old!Threads,
         Old!EnablePower(t) \/ Old!DisablePower(t) \/ Old!Reset(t) \/ Old!Remove(t)
  PROVE  Old!IInv'
<1>0. /\ Old!Types /\ Old!IrqOnItsWay /\ Old!PowerCounted /\ Old!NumbersAreLines
      /\ Old!LinesFreedOnce /\ Old!FlagIsFinger /\ Old!TouchIsTold
  BY DEF Old!IInv
<1>1. CASE Old!EnablePower(t) \/ Old!DisablePower(t)
  <2>1. Old!PowerCounted'
    BY <1>0, <1>1, OldPowerCall
  <2>2. PICK from \in OldPowerPlaces, to \in OldPowerPlaces :
          gf_pc[t] = from /\ gf_pc' = [gf_pc EXCEPT ![t] = to]
    BY <1>0, <1>1, OldPowerSteps
  <2>3. /\ UNCHANGED <<gf_bound, users, left, gf_depth, gf_irq_enabled, irq, numbers, gpios, extra,
                       cs_disable, device_list_lock, overfreed, lasttouchmode, finger, cleaned,
                       pid, told>>
        /\ ldo' \in Nat
    BY <1>0, <1>1, OldPowerSteps
  <2>4. Old!Types'
    BY <1>0, <2>2, <2>3 DEF Old!Types, OldPowerPlaces
  <2>5. Old!IrqOnItsWay'
    <3>1. \A u \in Old!Threads : gf_pc[u] \in {"enabled", "disabled"} => gf_pc'[u] = gf_pc[u]
      BY <1>0, <2>2 DEF Old!Types, OldPowerPlaces
    <3> QED BY <1>0, <2>3, <3>1 DEF Old!IrqOnItsWay
  <2>6. (Old!NumbersAreLines /\ Old!LinesFreedOnce)'
    BY <1>0, <2>3 DEF Old!NumbersAreLines, Old!LinesFreedOnce
  <2>7. (Old!FlagIsFinger /\ Old!TouchIsTold)'
    BY <1>0, <2>3 DEF Old!FlagIsFinger, Old!TouchIsTold
  <2> QED BY <2>1, <2>4, <2>5, <2>6, <2>7 DEF Old!IInv
<1>2. CASE Old!Reset(t)
  <2>1. UNCHANGED <<gf_bound, users, device_available, vreg, ldo, left, overlapped, gf_pc, gf_depth,
                    gf_irq_enabled, irq, numbers, gpios, extra, cs_disable, device_list_lock,
                    overfreed, lasttouchmode, finger, cleaned, pid, told>>
    BY <1>2 DEF Old!Reset, Old!world, Old!opened, Old!irqs, Old!power, Old!events, Old!freed
  <2>2. Old!PowerCounted'
    BY <1>0, <2>1, OldPowerKept DEF Old!PowerCounted
  <2>3. Old!Types' /\ Old!IrqOnItsWay'
    BY <1>0, <2>1 DEF Old!Types, Old!IrqOnItsWay
  <2>4. (Old!NumbersAreLines /\ Old!LinesFreedOnce)'
    BY <1>0, <2>1 DEF Old!NumbersAreLines, Old!LinesFreedOnce
  <2>5. (Old!FlagIsFinger /\ Old!TouchIsTold)'
    BY <1>0, <2>1 DEF Old!FlagIsFinger, Old!TouchIsTold
  <2> QED BY <2>2, <2>3, <2>4, <2>5 DEF Old!IInv
<1>3. CASE Old!Remove(t)
  <2>1. /\ users # 0 /\ vreg' = FALSE /\ left' = ldo /\ device_available /\ extra' = TRUE
        /\ gf_irq_enabled' = FALSE /\ gf_depth' = 1 /\ Old!MeetsAnother(t) /\ gf_pc[t] = "idle"
        /\ UNCHANGED <<gf_bound, users, device_available, ldo, gf_pc, numbers, lasttouchmode, finger,
                       cleaned, pid, told>>
    BY <1>0, <1>3 DEF Old!Remove, Old!Available, Old!Called, Old!irq_cleanup, Old!gf_cleanup,
       Old!gf_cleanup_pwr_list, Old!world, Old!opened, Old!events, Old!Types
  <2>2. Old!PowerCounted'
    <3>1. ASSUME ~overlapped' PROVE Old!PowerInTurn'
      <4>1. \A u \in Old!Threads : ~Old!Powering(u)
        BY <2>1, <3>1 DEF Old!MeetsAnother, Old!Powering
      <4>2. \A u \in Old!Threads : gf_pc'[u] \notin {"power_on", "on", "power_off", "off"}
        BY <2>1, <4>1 DEF Old!Powering
      <4>3. ldo' = left' + 0
        BY <1>0, <2>1 DEF Old!Types
      <4> QED BY <2>1, <4>2, <4>3 DEF Old!PowerInTurn, Old!Powering
    <3> QED BY <1>0, <2>1, <3>1 DEF Old!PowerCounted
  <2>3. Old!Types' /\ Old!IrqOnItsWay'
    BY <1>0, <2>1 DEF Old!Types, Old!IrqOnItsWay
  <2>4. (Old!NumbersAreLines /\ Old!LinesFreedOnce)'
    BY <1>0, <2>1 DEF Old!NumbersAreLines, Old!LinesFreedOnce
  <2>5. (Old!FlagIsFinger /\ Old!TouchIsTold)'
    BY <1>0, <2>1 DEF Old!FlagIsFinger, Old!TouchIsTold
  <2> QED BY <2>2, <2>3, <2>4, <2>5 DEF Old!IInv
<1> QED BY <1>1, <1>2, <1>3

LEMMA OldEvents ==
  ASSUME Old!IInv,
         \/ \E t \in Old!Threads : Old!CleanTouchFlag(t)
         \/ Old!nl_data_ready
         \/ \E s \in 0 .. 1 : Old!gf_opticalfp_irq_handler(s)
         \/ \E black \in BOOLEAN : Old!goodix_fb_state_chg_callback(black)
  PROVE  Old!IInv'
<1>0. /\ Old!Types /\ Old!IrqOnItsWay /\ Old!PowerCounted /\ Old!NumbersAreLines
      /\ Old!LinesFreedOnce /\ Old!FlagIsFinger /\ Old!TouchIsTold
  BY DEF Old!IInv
<1>1. UNCHANGED <<gf_bound, users, device_available, vreg, ldo, left, overlapped, gf_pc, gf_depth,
                  gf_irq_enabled, irq, numbers, gpios, extra, cs_disable, device_list_lock, overfreed>>
  BY DEF Old!CleanTouchFlag, Old!nl_data_ready, Old!gf_opticalfp_irq_handler,
         Old!goodix_fb_state_chg_callback, Old!world, Old!opened, Old!lines, Old!irqs, Old!power,
         Old!freed
<1>2. Old!PowerCounted'
  BY <1>0, <1>1, OldPowerKept DEF Old!PowerCounted
<1>3. Old!Types' /\ Old!IrqOnItsWay'
  BY <1>0, <1>1 DEF Old!Types, Old!IrqOnItsWay
<1>4. (Old!NumbersAreLines /\ Old!LinesFreedOnce)'
  BY <1>0, <1>1 DEF Old!NumbersAreLines, Old!LinesFreedOnce
<1>5. (Old!FlagIsFinger /\ Old!TouchIsTold)'
  <2> USE DEF Old!FlagIsFinger, Old!TouchIsTold
  <2>1. CASE \E t \in Old!Threads : Old!CleanTouchFlag(t)
    BY <1>0, <2>1 DEF Old!CleanTouchFlag
  <2>2. CASE Old!nl_data_ready
    BY <1>0, <2>2 DEF Old!nl_data_ready
  <2>3. ASSUME NEW s \in 0 .. 1, Old!gf_opticalfp_irq_handler(s)
        PROVE  (Old!FlagIsFinger /\ Old!TouchIsTold)'
    BY <1>0, <2>3 DEF Old!gf_opticalfp_irq_handler, Old!Remembered
  <2>4. ASSUME NEW black \in BOOLEAN, Old!goodix_fb_state_chg_callback(black)
        PROVE  (Old!FlagIsFinger /\ Old!TouchIsTold)'
    BY <1>0, <2>4 DEF Old!goodix_fb_state_chg_callback
  <2> QED BY <2>1, <2>2, <2>3, <2>4
<1> QED BY <1>2, <1>3, <1>4, <1>5 DEF Old!IInv

LEMMA OldStep == Old!IInv /\ [Old!Next]_old_vars => Old!IInv'
<1> SUFFICES ASSUME Old!IInv, [Old!Next]_old_vars PROVE Old!IInv'
  OBVIOUS
<1>0. /\ Old!Types /\ Old!IrqOnItsWay /\ Old!PowerCounted /\ Old!NumbersAreLines
      /\ Old!LinesFreedOnce /\ Old!FlagIsFinger /\ Old!TouchIsTold
  BY DEF Old!IInv
<1>1. CASE UNCHANGED old_vars
  <2>1. Old!PowerCounted'
    BY <1>0, <1>1, OldPowerKept DEF old_vars, Old!PowerCounted
  <2>2. Old!Types' /\ Old!IrqOnItsWay'
    BY <1>0, <1>1 DEF old_vars, Old!Types, Old!IrqOnItsWay
  <2>3. (Old!NumbersAreLines /\ Old!LinesFreedOnce)'
    BY <1>0, <1>1 DEF old_vars, Old!NumbersAreLines, Old!LinesFreedOnce
  <2>4. (Old!FlagIsFinger /\ Old!TouchIsTold)'
    BY <1>0, <1>1 DEF old_vars, Old!FlagIsFinger, Old!TouchIsTold
  <2> QED BY <2>1, <2>2, <2>3, <2>4 DEF Old!IInv
<1>2. CASE Old!Next
  <2>1. ASSUME Old!gf_ioctl PROVE Old!IInv'
    <3>1. PICK t \in Old!Threads :
            \/ Old!EnableChecks(t) \/ Old!gf_enable_irq(t) \/ Old!DisableChecks(t) \/ Old!gf_disable_irq(t)
            \/ Old!EnablePower(t) \/ Old!DisablePower(t) \/ Old!Reset(t) \/ Old!Remove(t)
            \/ Old!CleanTouchFlag(t)
      BY <2>1 DEF Old!gf_ioctl, Old!Callers, Old!Threads
    <3> QED BY <3>1, OldSwitches, OldPower, OldEvents
  <2> QED BY <1>2, <2>1, OldProbeRemove, OldOpen, OldRelease, OldEvents DEF Old!Next
<1> QED BY <1>1, <1>2

\* What the driver marks as off is what the invariant says when no thread is inside.
LEMMA OldIsOff == Old!IInv => Old!OffIsOff
<1> SUFFICES ASSUME Old!IInv PROVE Old!OffIsOff
  OBVIOUS
<1>1. Old!OffIsSilent
  BY DEF Old!IInv, Old!OffIsSilent, Old!Idle, Old!IrqOnItsWay
<1>2. Old!OffIsUnpowered
  <2> SUFFICES ASSUME \A t \in Old!Threads : ~Old!Powering(t), ~device_available, ~overlapped
               PROVE  ldo = left
    BY DEF Old!OffIsUnpowered
  <2>1. Old!PowerInTurn /\ left \in Nat
    BY DEF Old!IInv, Old!PowerCounted, Old!Types
  <2>2. ~vreg
    BY <2>1 DEF Old!PowerInTurn, Old!Powering
  <2> QED BY <2>1, <2>2 DEF Old!PowerInTurn
<1> QED BY <1>1, <1>2 DEF Old!IInv, Old!OffIsOff

-----------------------------------------------------------------------------
(* TouchPanel. *)

\* The largest of one.
LEMMA MaxOfOne == ASSUME NEW n \in Nat, NEW S, S = {n} PROVE Touch!Max(S) = n
<1>1. n \in S /\ \A y \in S : n >= y
  OBVIOUS
<1>2. \A x \in S : (\A y \in S : x >= y) => x = n
  OBVIOUS
<1> QED BY <1>1, <1>2 DEF Touch!Max

USE DEF Touch!QuietBefore, Touch!ReadIsDown, Touch!TouchesMatch, Touch!Settled, Touch!IrqRequested

LEMMA TouchInit == Touch!Init => Touch!IInv
  BY SlotsArePositive DEF Touch!Init, Touch!IInv, Touch!Types, Touch!Empty

\* The types.  The world stays what it is.
LEMMA TouchTyped == ASSUME Touch!Types, Touch!Next PROVE Touch!Types'
<1> USE DEF Touch!Types, Touch!input, Touch!chip
<1>0. world' = world /\ Touch!Ids' = Touch!Ids
  BY DEF Touch!Next, Touch!Handler, Touch!Driver, Touch!HandlerStarts, Touch!HandlerReads,
     Touch!HandlerReadFails, Touch!HandlerReports, Touch!ProbeEnablesVdd, Touch!ProbeEnablesVio,
     Touch!VioFails, Touch!ProbeSetsUpInput, Touch!ProbeFails, Touch!ProbeRequestsIrq,
     Touch!RemovePowersOff, Touch!DevresFrees, Touch!Suspend, Touch!Resume, Touch!FingerDown,
     Touch!FingerUp, Touch!Ids
<1>1. CASE Touch!HandlerStarts \/ Touch!HandlerReadFails
  BY <1>0, <1>1 DEF Touch!HandlerStarts, Touch!HandlerReadFails
<1>2. CASE Touch!HandlerReads
  BY <1>0, <1>2 DEF Touch!HandlerReads
<1>3. CASE Touch!HandlerReports
  BY <1>0, <1>3 DEF Touch!HandlerReports, Touch!Empty
<1>4. CASE \/ Touch!ProbeEnablesVdd \/ Touch!ProbeEnablesVio \/ Touch!VioFails
           \/ Touch!ProbeSetsUpInput \/ Touch!ProbeRequestsIrq \/ Touch!Suspend \/ Touch!Resume
  BY <1>0, <1>4 DEF Touch!ProbeEnablesVdd, Touch!ProbeEnablesVio, Touch!VioFails,
     Touch!ProbeSetsUpInput, Touch!ProbeRequestsIrq, Touch!Suspend, Touch!Resume
<1>5. CASE Touch!ProbeFails \/ Touch!RemovePowersOff \/ Touch!DevresFrees
  BY <1>0, <1>5 DEF Touch!ProbeFails, Touch!RemovePowersOff, Touch!DevresFrees, Touch!Empty
<1>6. CASE Touch!FingerDown
  BY <1>0, <1>6 DEF Touch!FingerDown
<1>7. CASE Touch!FingerUp
  BY <1>0, <1>7 DEF Touch!FingerUp
<1> QED BY <1>1, <1>2, <1>3, <1>4, <1>5, <1>6, <1>7 DEF Touch!Next, Touch!Handler, Touch!Driver

\* A frame within the slots lands in the slot of its id, and nowhere else.
LEMMA FramesLand ==
  ASSUME Touch!Types, event_buf[Slots] = "empty"
  PROVE  /\ Touch!Touched = {i \in 0 .. Slots - 1 : event_buf[i] = "touch"}
         /\ Touch!AnyTouch <=> \E i \in 0 .. Slots - 1 : event_buf[i] = "touch"
<1>1. Touch!Mentioned = {i \in 0 .. Slots - 1 : event_buf[i] # "empty"}
  BY SlotsArePositive DEF Touch!Mentioned
<1>2. ASSUME NEW k \in 0 .. Slots - 1
      PROVE  Touch!Landing(k) = IF event_buf[k] = "empty" THEN {} ELSE {k}
  BY <1>1, <1>2, SlotsArePositive DEF Touch!Landing
<1>3. ASSUME NEW k \in 0 .. Slots - 1, event_buf[k] # "empty"
      PROVE  Touch!Max(Touch!Landing(k)) = k
  BY <1>2, <1>3, MaxOfOne, SlotsArePositive
<1> QED BY <1>1, <1>2, <1>3 DEF Touch!Touched, Touch!AnyTouch

\* The interrupt thread.
LEMMA TouchHandles == ASSUME Touch!IInv, Touch!Handler PROVE Touch!IInv'
<1> USE DEF Touch!IInv, Touch!input, Touch!chip
<1>0. Touch!Types'
  BY TouchTyped DEF Touch!Next
<1>1. CASE Touch!HandlerStarts
  BY <1>0, <1>1 DEF Touch!HandlerStarts
<1>2. CASE Touch!HandlerReads
  <2>1. ~world.high => Slots \notin down /\ Slots \notin lifted
    BY SlotsArePositive DEF Touch!Types, Touch!Ids
  <2>2. PICK shown \in SUBSET lifted :
          event_buf' = [i \in 0 .. Slots |-> IF i \in down THEN "touch"
                                            ELSE IF i \in shown THEN "lift" ELSE "empty"]
    BY <1>2 DEF Touch!HandlerReads
  <2>3. /\ ~world.high => event_buf'[Slots] = "empty"
        /\ \A i \in 0 .. Slots - 1 : event_buf'[i] = "touch" <=> i \in down
    BY <2>1, <2>2, SlotsArePositive
  <2>4. UNCHANGED <<driver, edge, world, active, btn, down>> /\ thread_pc' = "report"
    BY <1>2 DEF Touch!HandlerReads
  <2> QED BY <1>0, <1>2, <2>3, <2>4 DEF Touch!HandlerReads
<1>3. CASE Touch!HandlerReadFails
  BY <1>0, <1>3 DEF Touch!HandlerReadFails
<1>4. CASE Touch!HandlerReports
  <2>1. /\ active' = Touch!Touched /\ btn' = Touch!AnyTouch /\ thread_pc' = "idle"
        /\ thread_pc = "report" /\ UNCHANGED <<driver, edge, world, down, missed>>
    BY <1>4 DEF Touch!HandlerReports, Touch!SyncFrame
  <2>2. Touch!TouchesMatch'
    <3>1. SUFFICES ASSUME driver = "bound", ~edge, ~world.high
                   PROVE  active' = down /\ (btn' <=> down # {})
      BY <2>1
    <3>2. event_buf[Slots] = "empty" /\ \A i \in 0 .. Slots - 1 : event_buf[i] = "touch" <=> i \in down
      BY <2>1, <3>1
    <3>3. down \subseteq 0 .. Slots - 1
      BY <3>1 DEF Touch!Types, Touch!Ids
    <3>4. down = {i \in 0 .. Slots - 1 : event_buf[i] = "touch"}
      BY <3>2, <3>3
    <3>5. active' = down
      BY <2>1, <3>2, <3>4, FramesLand
    <3>6. Touch!AnyTouch <=> down # {}
      BY <3>2, <3>4, FramesLand
    <3> QED BY <2>1, <3>5, <3>6
  <2>3. Touch!QuietBefore' /\ Touch!ReadIsDown'
    BY <2>1
  <2> QED BY <1>0, <2>2, <2>3
<1> QED BY <1>1, <1>2, <1>3, <1>4 DEF Touch!Handler

\* Before the interrupt is requested nothing is shown, and a finger that is there by then
\* counts as missed.
LEMMA TouchDriver == ASSUME Touch!IInv, Touch!Driver PROVE Touch!IInv'
<1> USE DEF Touch!IInv, Touch!input, Touch!chip
<1>0. Touch!Types'
  BY TouchTyped DEF Touch!Next
<1>1. CASE Touch!ProbeEnablesVdd \/ Touch!ProbeEnablesVio \/ Touch!VioFails
  BY <1>0, <1>1 DEF Touch!ProbeEnablesVdd, Touch!ProbeEnablesVio, Touch!VioFails
<1>2. CASE Touch!ProbeSetsUpInput \/ Touch!ProbeFails
  BY <1>0, <1>2 DEF Touch!ProbeSetsUpInput, Touch!ProbeFails
<1>3. CASE Touch!ProbeRequestsIrq
  BY <1>0, <1>3 DEF Touch!ProbeRequestsIrq
<1>4. CASE Touch!RemovePowersOff \/ Touch!DevresFrees
  BY <1>0, <1>4 DEF Touch!RemovePowersOff, Touch!DevresFrees
<1>5. CASE Touch!Suspend \/ Touch!Resume
  BY <1>0, <1>5 DEF Touch!Suspend, Touch!Resume
<1> QED BY <1>1, <1>2, <1>3, <1>4, <1>5 DEF Touch!Driver

LEMMA TouchStep == Touch!IInv /\ [Touch!Next]_touch_vars => Touch!IInv'
<1> SUFFICES ASSUME Touch!IInv, [Touch!Next]_touch_vars PROVE Touch!IInv'
  OBVIOUS
<1>1. CASE UNCHANGED touch_vars
  BY <1>1 DEF Touch!IInv, Touch!Types, Touch!Ids, touch_vars
<1>2. CASE Touch!FingerDown \/ Touch!FingerUp
  <2>1. Touch!Types'
    BY <1>2, TouchTyped DEF Touch!IInv, Touch!Next
  <2>2. /\ edge' = (edge \/ Touch!IrqRequested)
        /\ UNCHANGED <<driver, thread_pc, event_buf, active, btn, missed, world>>
    BY <1>2 DEF Touch!FingerDown, Touch!FingerUp, Touch!input
  <2>3. CASE Touch!IrqRequested
    BY <2>1, <2>2, <2>3 DEF Touch!IInv
  <2>4. CASE ~Touch!IrqRequested
    BY <2>1, <2>2, <2>4 DEF Touch!IInv
  <2> QED BY <2>3, <2>4
<1> QED BY <1>1, <1>2, TouchHandles, TouchDriver DEF Touch!Next

-----------------------------------------------------------------------------
(* FingerprintHal. *)

USE DEF Adapter!CancelWaits, Adapter!LastSyncIsTrue, Adapter!CancelAnswered, Adapter!ListConsistent

LEMMA AdapterInit == Adapter!Init => Adapter!IInv
  BY DEF Adapter!Init, Adapter!IInv, Adapter!Types

\* What is taken off the queue, and what is put on it.
LEMMA InboxShrinks ==
  ASSUME NEW q \in Seq(Adapter!Callbacks), q # <<>>
  PROVE  /\ Head(q) = q[1] /\ 1 \in DOMAIN q /\ q[1] \in Adapter!Callbacks
         /\ Tail(q) \in Seq(Adapter!Callbacks)
         /\ \A i \in DOMAIN Tail(q) : i \in Nat \ {0} /\ i + 1 \in DOMAIN q /\ Tail(q)[i] = q[i + 1]
         /\ \A i \in DOMAIN q : i \in Nat /\ (i # 1 => i - 1 \in DOMAIN Tail(q))
  OBVIOUS

LEMMA InboxGrows ==
  ASSUME NEW q \in Seq(Adapter!Callbacks), NEW cb \in Adapter!Callbacks
  PROVE  /\ Append(q, cb) \in Seq(Adapter!Callbacks) /\ Len(q) \in Nat
         /\ \A i \in DOMAIN q : i \in Nat /\ i <= Len(q) /\ i \in DOMAIN Append(q, cb) /\ Append(q, cb)[i] = q[i]
         /\ Len(q) + 1 \in DOMAIN Append(q, cb) /\ Append(q, cb)[Len(q) + 1] = cb
         /\ \A i \in DOMAIN Append(q, cb) : i \in DOMAIN q \/ i = Len(q) + 1
  OBVIOUS

\* The end of the process leaves nothing to be wrong.
LEMMA AdapterEnds == ASSUME Adapter!IInv, Adapter!ProcessEnds PROVE Adapter!IInv'
BY DEF Adapter!IInv, Adapter!ProcessEnds, Adapter!Types, Adapter!world

LEMMA AdapterProcess == ASSUME Adapter!IInv, Adapter!Process PROVE Adapter!IInv'
<1> USE DEF Adapter!IInv, Adapter!Types, Adapter!request, Adapter!flags, Adapter!loop, Adapter!world
<1>1. CASE Adapter!InitStarts \/ Adapter!FindsVendor \/ Adapter!TriesAgain
  BY <1>1 DEF Adapter!InitStarts, Adapter!FindsVendor, Adapter!TriesAgain
<1>2. CASE Adapter!GivesUp \/ Adapter!Aborts
  BY <1>2, AdapterEnds DEF Adapter!GivesUp, Adapter!Aborts
<1> QED BY <1>1, <1>2 DEF Adapter!Process

LEMMA AdapterRequests ==
  ASSUME Adapter!IInv, NEW c \in Clients,
         Adapter!setNotify(c) \/ Adapter!CancelBegins(c) \/ Adapter!EnumerateBegins(c)
  PROVE  Adapter!IInv'
<1> USE DEF Adapter!IInv, Adapter!Types, Adapter!process, Adapter!request, Adapter!flags, Adapter!loop,
        Adapter!world, Adapter!ThreadFree
<1>1. CASE Adapter!setNotify(c)
  BY <1>1 DEF Adapter!setNotify
<1>2. CASE Adapter!CancelBegins(c)
  BY <1>2 DEF Adapter!CancelBegins
<1>3. CASE Adapter!EnumerateBegins(c)
  BY <1>3 DEF Adapter!EnumerateBegins
<1> QED BY <1>1, <1>2, <1>3

\* The module of the adapter counts as the theorems about counting do.
LEMMA SameCount == \A S : Adapter!Cardinality(S) = Cardinality(S)
  BY DEF Adapter!Cardinality, Cardinality

\* The countdown of a list: one finger less, one less to count.
LEMMA AdapterAnswers == ASSUME Adapter!IInv, Adapter!Answer PROVE Adapter!IInv'
<1> USE DEF Adapter!IInv, Adapter!Types, Adapter!process, Adapter!flags, Adapter!world
<1>1. CASE Adapter!CancelReturns
  BY <1>1 DEF Adapter!CancelReturns, Adapter!loop
<1>2. CASE Adapter!EnumerateReturns
  BY <1>2 DEF Adapter!EnumerateReturns, Adapter!loop
<1>3. CASE Adapter!EnumerateLists
  BY <1>3 DEF Adapter!EnumerateLists
<1>4. CASE Adapter!ListsFinger
  <2>1. PICK f \in todo : todo' = todo \ {f}
    BY <1>4 DEF Adapter!ListsFinger
  <2>2. /\ adapter_pc = "listing" /\ nFingers' = nFingers - 1 /\ adapter_pc' \in {"idle", "listing"}
        /\ UNCHANGED <<knownFingers, inbox, synced, templates, heard, mOppoClientCallback>>
    BY <1>4 DEF Adapter!ListsFinger
  <2>3. IsFiniteSet(todo)
    BY <2>2, FingersAreFinite, FS_Subset
  <2>4. Cardinality(todo \ {f}) = Cardinality(todo) - 1
    BY <2>3, FS_RemoveElement
  <2>5. Adapter!ListConsistent'
    <3>1. nFingers = Cardinality(todo) /\ todo \subseteq knownFingers
      BY <2>2, SameCount
    <3>2. nFingers' = Cardinality(todo \ {f}) /\ todo' \subseteq knownFingers'
      BY <2>1, <2>2, <2>4, <3>1
    <3> QED BY <2>1, <3>2, SameCount
  <2> QED BY <2>2, <2>5
<1> QED BY <1>1, <1>2, <1>3, <1>4 DEF Adapter!Answer

\* The callbacks wait for the thread; one that is taken off the queue leaves the order of
\* the others.
LEMMA AdapterForwards == ASSUME Adapter!IInv, Adapter!Forward PROVE Adapter!IInv'
<1> USE DEF Adapter!IInv, Adapter!Types, Adapter!process, Adapter!request, Adapter!flags, Adapter!loop,
        Adapter!world, Adapter!ThreadFree
<1>1. /\ adapter_pc = "idle" /\ inbox # <<>> /\ inbox' = Tail(inbox)
      /\ UNCHANGED <<adapter_pc, synced, templates, todo, nFingers, mOppoClientCallback>>
  BY DEF Adapter!Forward, Adapter!onError, Adapter!onEnumerate, Adapter!onSyncTemplates, Adapter!onOther
<1>2. knownFingers' = IF inbox[1].kind = "sync" THEN inbox[1].fingers ELSE knownFingers
  BY <1>1, InboxShrinks
  DEF Adapter!Forward, Adapter!onError, Adapter!onEnumerate, Adapter!onSyncTemplates, Adapter!onOther
<1>3. inbox[1].kind = "sync" => inbox[1].fingers \in SUBSET Fingers
  BY <1>1, InboxShrinks DEF Adapter!Callbacks
<1>4. Adapter!Types'
  BY <1>1, <1>2, <1>3, InboxShrinks
<1>5. Adapter!LastSyncIsTrue'
  <2>1. SUFFICES ASSUME synced PROVE Adapter!LastSyncIsTrue'
    BY <1>1
  <2>2. CASE knownFingers = templates /\ \A i \in DOMAIN inbox : inbox[i].kind # "sync"
    BY <1>1, <1>2, <2>2, InboxShrinks
  <2>3. ASSUME NEW i \in DOMAIN inbox, inbox[i].kind = "sync", inbox[i].fingers = templates,
               \A j \in DOMAIN inbox : j > i => inbox[j].kind # "sync"
        PROVE  Adapter!LastSyncIsTrue'
    <3>1. CASE i = 1
      BY <1>1, <1>2, <2>3, <3>1, InboxShrinks
    <3>2. CASE i # 1
      <4>1. i - 1 \in DOMAIN inbox' /\ inbox'[i - 1] = inbox[i] /\ i \in Nat
        BY <1>1, <3>2, InboxShrinks
      <4>2. ASSUME NEW j \in DOMAIN inbox', j > i - 1 PROVE inbox'[j].kind # "sync"
        <5>1. j \in Nat /\ j + 1 \in DOMAIN inbox /\ inbox'[j] = inbox[j + 1]
          BY <1>1, InboxShrinks
        <5>2. j + 1 > i
          BY <4>1, <4>2, <5>1
        <5> QED BY <2>3, <5>1, <5>2
      <4> QED BY <1>1, <2>3, <4>1, <4>2
    <3> QED BY <3>1, <3>2
  <2> QED BY <2>1, <2>2, <2>3
<1>6. Adapter!CancelWaits' /\ Adapter!CancelAnswered' /\ Adapter!ListConsistent'
  <2>1. heard'
    BY <1>1
    DEF Adapter!Forward, Adapter!onError, Adapter!onEnumerate, Adapter!onSyncTemplates, Adapter!onOther
  <2> QED BY <1>1, <2>1
<1> HIDE DEF Adapter!Types, Adapter!LastSyncIsTrue, Adapter!CancelWaits, Adapter!CancelAnswered,
             Adapter!ListConsistent
<1> QED BY <1>4, <1>5, <1>6

\* The vendor: what it tells is what it has.
LEMMA AdapterVendor == ASSUME Adapter!IInv, Adapter!Vendor PROVE Adapter!IInv'
<1> USE DEF Adapter!IInv, Adapter!Types, Adapter!process, Adapter!request, Adapter!flags, Adapter!loop,
        Adapter!world
<1>1. CASE Adapter!TemplatesChange
  BY <1>1 DEF Adapter!TemplatesChange
<1>2. CASE Adapter!VendorChanges
  BY <1>2 DEF Adapter!VendorChanges
<1>3. CASE Adapter!VendorReports \/ Adapter!VendorSyncs
  <2>1. UNCHANGED <<adapter_pc, asker, mOppoClientCallback, receivedCancel, knownFingers, nFingers,
                    todo, templates, heard>>
    BY <1>3 DEF Adapter!VendorReports, Adapter!VendorSyncs
  <2>2. PICK cb \in Adapter!Callbacks :
          /\ inbox' = Append(inbox, cb)
          /\ \/ cb.kind = "sync" /\ cb.fingers = templates
             \/ cb.kind # "sync" /\ synced' = synced
    <3>1. CASE Adapter!VendorReports
      <4>1. mOppoClientCallback \in Clients /\ synced' = synced
        BY <3>1 DEF Adapter!VendorReports, Adapter!Post
      <4>2. /\ [kind |-> "canceled", to |-> mOppoClientCallback] \in Adapter!Callbacks
            /\ \A k \in {"enumerate", "other"} : [kind |-> k] \in Adapter!Callbacks
        BY <4>1 DEF Adapter!Callbacks
      <4>3. PICK cb : /\ inbox' = Append(inbox, cb)
                      /\ \/ cb = [kind |-> "canceled", to |-> mOppoClientCallback]
                         \/ \E k \in {"enumerate", "other"} : cb = [kind |-> k]
        BY <3>1 DEF Adapter!VendorReports, Adapter!Post
      <4>4. cb \in Adapter!Callbacks /\ cb.kind # "sync"
        BY <4>2, <4>3
      <4> QED BY <4>1, <4>3, <4>4
    <3>2. CASE Adapter!VendorSyncs
      <4>1. [kind |-> "sync", fingers |-> templates] \in Adapter!Callbacks
        BY DEF Adapter!Callbacks
      <4> QED BY <3>2, <4>1 DEF Adapter!VendorSyncs, Adapter!Post
    <3> QED BY <1>3, <3>1, <3>2
  <2>3. Adapter!Types'
    BY <2>1, <2>2, InboxGrows
  <2>4. Adapter!LastSyncIsTrue'
    <3>1. CASE cb.kind = "sync"
      <4>1. Len(inbox) + 1 \in DOMAIN inbox' /\ inbox'[Len(inbox) + 1] = cb
        BY <2>2, InboxGrows
      <4>2. \A j \in DOMAIN inbox' : ~(j > Len(inbox) + 1)
        BY <2>2, InboxGrows
      <4> QED BY <2>1, <2>2, <3>1, <4>1, <4>2
    <3>2. CASE cb.kind # "sync"
      <4>1. SUFFICES ASSUME synced PROVE Adapter!LastSyncIsTrue'
        BY <2>2, <3>2
      <4>2. \A i \in DOMAIN inbox' : (i \in DOMAIN inbox /\ inbox'[i] = inbox[i]) \/ inbox'[i].kind # "sync"
        BY <2>2, <3>2, InboxGrows
      <4>3. CASE knownFingers = templates /\ \A i \in DOMAIN inbox : inbox[i].kind # "sync"
        BY <2>1, <4>2, <4>3
      <4>4. ASSUME NEW i \in DOMAIN inbox, inbox[i].kind = "sync", inbox[i].fingers = templates,
                   \A j \in DOMAIN inbox : j > i => inbox[j].kind # "sync"
            PROVE  Adapter!LastSyncIsTrue'
        <5>1. i \in DOMAIN inbox' /\ inbox'[i] = inbox[i]
          BY <2>2, InboxGrows
        <5> QED BY <2>1, <4>2, <4>4, <5>1
      <4> QED BY <4>1, <4>3, <4>4
    <3> QED BY <3>1, <3>2
  <2> QED BY <2>1, <2>3, <2>4
<1> QED BY <1>1, <1>2, <1>3 DEF Adapter!Vendor

LEMMA AdapterStep == Adapter!IInv /\ [Adapter!Next]_adapter_vars => Adapter!IInv'
<1> SUFFICES ASSUME Adapter!IInv, [Adapter!Next]_adapter_vars PROVE Adapter!IInv'
  OBVIOUS
<1>1. CASE UNCHANGED adapter_vars
  BY <1>1 DEF Adapter!IInv, Adapter!Types, adapter_vars
<1> QED BY <1>1, AdapterProcess, AdapterRequests, AdapterAnswers, AdapterForwards, AdapterVendor
        DEF Adapter!Next

\* News of the templates that is not on its way has arrived.
LEMMA AdapterTells == Adapter!IInv => Adapter!ToldIsTrue
  BY DEF Adapter!IInv, Adapter!ToldIsTrue, Adapter!KnownIsCurrent

-----------------------------------------------------------------------------
(* The composition: a step of it is a step of a part or leaves the part alone. *)

LEMMA PartsStep ==
  [MCNext]_mc_vars => /\ [Touch!Next]_touch_vars /\ [Sensor!Next]_sensor_vars
                      /\ [Old!Next]_old_vars /\ [Adapter!Next]_adapter_vars
  BY DEF MCNext, PanelNext, TouchNext, SensorNext, OldNext, AdapterNext, SetupNext, Still, mc_vars

LEMMA SensorInvariant == MCSpec => []Sensor!IInv
<1>1. MCInit => Sensor!IInv
  BY SensorInit DEF MCInit
<1> QED BY <1>1, SensorStep, PartsStep, PTL DEF MCSpec

\* The driver's flag and the interrupt core's disable depth agree outside the call that
\* changes them (gf_enable_irq and gf_disable_irq under p->lock), for every interleaving
\* of two threads' ioctls.
THEOREM IrqIsBalanced == MCSpec => []IrqBalanced
<1>1. Sensor!IInv => IrqBalanced
  BY DEF Sensor!IInv, IrqBalanced
<1> QED BY <1>1, SensorInvariant, PTL

\* No call disturbs another's reset pulse (gf_hw_reset sleeps with the lock held).
THEOREM ResetIsIntact == MCSpec => []Sensor!ResetPulseIntact
<1>1. Sensor!IInv => Sensor!ResetPulseIntact
  BY DEF Sensor!IInv
<1> QED BY <1>1, SensorInvariant, PTL

\* However often the HAL is restarted and whichever of its threads call, events reach
\* the process that lives exactly as it has asked, unless an event on its way undid it
\* (gf_send_netlink against GF_IOC_INIT, GF_IOC_EXIT, gf_netlink_recv and the end of a
\* process).
THEOREM ReportsCorrectly == MCSpec => []ReportsToCurrentHal
<1>1. Sensor!IInv => ReportsToCurrentHal
  BY DEF Sensor!IInv, Sensor!PidsAreNew, Sensor!ReportsToCurrentHal, ReportsToCurrentHal
<1> QED BY <1>1, SensorInvariant, PTL

LEMMA OldInvariant == MCSpec => []Old!IInv
<1>1. MCInit => Old!IInv
  BY OldInit DEF MCInit
<1> QED BY <1>1, OldStep, PartsStep, PTL DEF MCSpec

\* What the older driver marks as off is off, but for what the HALs before have left on, and
\* what it gives back it had: two threads are in gf_ioctl at once, which has no lock, and the
\* files come and go in any order (gf_open, gf_release).
THEOREM OffStaysOff == MCSpec => []OffIsOff
<1>1. Old!IInv => OffIsOff
  BY OldIsOff DEF OffIsOff
<1> QED BY <1>1, OldInvariant, PTL

\* A HAL that was there when the finger came and has not cleared the touch flag was told
\* of it (gf_opticalfp_irq_handler, which tells changes only).
THEOREM TouchIsAlwaysTold == MCSpec => []TouchIsTold
<1>1. Old!IInv => TouchIsTold
  BY DEF Old!IInv, TouchIsTold
<1> QED BY <1>1, OldInvariant, PTL

\* The fingers that the input core shows are those on the glass, once the last edge was
\* handled by a read that worked (nvt_irq_handler), for any number of slots.
THEOREM TouchesAlwaysMatch == MCSpec => []TouchesMatch
<1>1. MCInit => Touch!IInv
  BY TouchInit DEF MCInit
<1>2. Touch!IInv => TouchesMatch
  BY DEF Touch!IInv, TouchesMatch
<1> QED BY <1>1, <1>2, TouchStep, PartsStep, PTL DEF MCSpec

\* A cancel is answered, a list is one state of the templates, and the templates that the
\* adapter keeps are the vendor's once its news has arrived (BiometricsFingerprint's
\* statics against the vendor's callbacks), for any number of callbacks on their way.
THEOREM ToldIsAlwaysTrue == MCSpec => []ToldIsTrue
<1>1. MCInit => Adapter!IInv
  BY AdapterInit DEF MCInit
<1>2. Adapter!IInv => ToldIsTrue
  BY AdapterTells DEF ToldIsTrue
<1> QED BY <1>1, <1>2, AdapterStep, PartsStep, PTL DEF MCSpec
=============================================================================
