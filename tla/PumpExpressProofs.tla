-------------------------- MODULE PumpExpressProofs --------------------------
(***************************************************************************)
(* The safety of PumpExpress for every number of pulses and tries, every   *)
(* set of failing calls and every replugging speed.                        *)
(***************************************************************************)
EXTENDS PumpExpress, TLAPS

\* Where the worker is within the pulse pattern.
PulseInv == wpc \in {"high", "low"} => pulse < PulseCount

\* Before probe nothing has started; remove leaves work only to a late plug.
DriverInv ==
  /\ driver = "unbound" => state = "IDLE" /\ work = "none" /\ wpc = "idle" /\ npc = "idle"
  /\ driver = "cancelling" => work = "none"
  /\ driver \in {"cancelled", "removed"} /\ ~latePlug => work = "none" /\ wpc = "idle"
  /\ driver = "removed" => npc = "idle"

\* The inductive invariant: StateAgrees is what keeps retry_count in its type
\* and the lock's owner known, NoStrandedNegotiation needs nothing more.
IInv == TypeOK /\ StateAgrees /\ NoStrandedNegotiation /\ PulseInv /\ DriverInv

USE PulseCountAssumption, RetryMaxAssumption

LEMMA InitInv == Init => IInv
<1>1. Init => /\ ac_present \in BOOLEAN /\ ac_now \in BOOLEAN /\ latePlug \in BOOLEAN
              /\ online \in BOOLEAN /\ changed \in BOOLEAN
              /\ high \in BOOLEAN /\ watching \in BOOLEAN
  BY DEF Init
<1> QED BY <1>1 DEF Init, IInv, TypeOK, StateAgrees, NoStrandedNegotiation, PulseInv, DriverInv,
       LockHeld, pe_state

\* A failed try leaves the counter within its bound and work for the next one.
LEMMA RetryInv ==
  ASSUME IInv, LockHeld, Retry,
         UNCHANGED <<ac_present, pulse, notifyVars, driverVars, online, changed, vset, adapterVars, world>>
  PROVE  IInv'
BY DEF IInv, TypeOK, StateAgrees, NoStrandedNegotiation, PulseInv, DriverInv, LockHeld,
       pe_state, Retry, Scheduled, notifyVars, driverVars, adapterVars

LEMMA WorkInv == ASSUME IInv, Work PROVE IInv'
<1> USE DEF IInv, TypeOK, StateAgrees, NoStrandedNegotiation, PulseInv, DriverInv, LockHeld,
        pe_state, peVars, notifyVars, driverVars, adapterVars, Alive
<1>0. UNCHANGED world
  BY DEF Work
<1> USE <1>0
<1>1. CASE TimerFires
  BY <1>1 DEF TimerFires
<1>2. CASE WorkStarts
  BY <1>2 DEF WorkStarts
<1>3. CASE WorkReturns
  BY <1>3 DEF WorkReturns, NothingToNegotiate
<1>4. CASE WorkNegotiates
  BY <1>4 DEF WorkNegotiates, NothingToNegotiate
<1>5. CASE PulseFails
  BY <1>5, RetryInv DEF PulseFails
<1>6. CASE PulseHigh
  BY <1>6 DEF PulseHigh
<1>7. CASE PulseLow
  BY <1>7 DEF PulseLow, LastPulse
<1>8. CASE CheckAccepts
  BY <1>8 DEF CheckAccepts
<1>9. CASE CheckRejects
  BY <1>9, RetryInv DEF CheckRejects
<1> QED
  BY <1>1, <1>2, <1>3, <1>4, <1>5, <1>6, <1>7, <1>8, <1>9 DEF Work

LEMMA NotifyInv == ASSUME IInv, Notify PROVE IInv'
<1> USE DEF IInv, TypeOK, StateAgrees, NoStrandedNegotiation, PulseInv, DriverInv, LockHeld,
        pe_state, peVars, workVars, notifyVars, driverVars, adapterVars
<1>0. UNCHANGED world
  BY DEF Notify
<1>5. online \in BOOLEAN
  OBVIOUS
<1> USE <1>0
<1>1. CASE NotifyReads
  <2>1. changed' \in BOOLEAN /\ ac_now' \in BOOLEAN
    BY <1>5, <1>1 DEF NotifyReads
  <2> QED BY <1>1, <2>1 DEF NotifyReads, Registered
<1>2. CASE NotifyReadFails
  <2>1. changed' \in BOOLEAN
    BY <1>2 DEF NotifyReadFails
  <2> QED BY <1>2, <2>1 DEF NotifyReadFails
<1>3. CASE NotifyDropped
  <2>1. changed' \in BOOLEAN
    BY <1>3 DEF NotifyDropped
  <2> QED BY <1>3, <2>1 DEF NotifyDropped
<1>4. CASE NotifyApplies
  <2>1. CASE AcceptPlug
    <3>1. ac_present' \in BOOLEAN /\ latePlug' \in BOOLEAN
      BY <2>1 DEF AcceptPlug
    <3>2. ~latePlug' => ~latePlug /\ driver # "cancelled"
      BY <2>1 DEF AcceptPlug
    <3>3. StateAgrees'
      BY <1>4, <2>1 DEF NotifyApplies, AcceptPlug
    <3>4. NoStrandedNegotiation' /\ PulseInv' /\ work' \in {"none", "timer", "queued"}
      BY <1>4, <2>1 DEF NotifyApplies, AcceptPlug, Scheduled
    <3>5. DriverInv'
      BY <1>4, <2>1, <3>2 DEF NotifyApplies, AcceptPlug, Scheduled
    <3>6. TypeOK'
      BY <1>4, <2>1, <3>1, <3>4 DEF NotifyApplies, AcceptPlug
    <3> QED BY <3>3, <3>4, <3>5, <3>6
  <2>2. CASE AcceptUnplug
    <3>1. ac_present' \in BOOLEAN
      BY <2>2 DEF AcceptUnplug
    <3> QED BY <1>4, <2>2, <3>1 DEF NotifyApplies, AcceptUnplug
  <2>3. CASE AcceptNothing
    BY <1>4, <2>3 DEF NotifyApplies, AcceptNothing
  <2> QED BY <1>4, <2>1, <2>2, <2>3 DEF NotifyApplies
<1> QED BY <1>1, <1>2, <1>3, <1>4 DEF Notify

LEMMA DriverStepInv == ASSUME IInv, Driver PROVE IInv'
<1> USE DEF IInv, TypeOK, StateAgrees, NoStrandedNegotiation, PulseInv, DriverInv, LockHeld,
        pe_state, peVars, workVars, notifyVars, adapterVars
<1>0. UNCHANGED world
  BY DEF Driver
<1> USE <1>0
<1>1. CASE Probe
  BY <1>1 DEF Probe
<1>2. CASE RemoveBegins
  BY <1>2 DEF RemoveBegins
<1>3. CASE RemoveCancelled
  BY <1>3 DEF RemoveCancelled
<1>4. CASE RemoveUnregisters
  BY <1>4 DEF RemoveUnregisters
<1> QED BY <1>1, <1>2, <1>3, <1>4 DEF Driver

LEMMA CableInv == ASSUME IInv, Cable PROVE IInv'
<1>1. Plug \/ Unplug => /\ online' \in BOOLEAN /\ changed' \in BOOLEAN
                       /\ high' \in BOOLEAN /\ watching' \in BOOLEAN
  BY DEF Plug, Unplug
<1>2. PropertyChanged => changed' \in BOOLEAN
  BY DEF PropertyChanged
<1> QED BY <1>1, <1>2 DEF IInv, TypeOK, StateAgrees, NoStrandedNegotiation, PulseInv, DriverInv,
       LockHeld, pe_state, peVars, workVars, notifyVars, driverVars, adapterVars,
       Cable, Plug, Unplug, PropertyChanged

LEMMA StutterInv == ASSUME IInv, UNCHANGED vars PROVE IInv'
BY DEF IInv, TypeOK, StateAgrees, NoStrandedNegotiation, PulseInv, DriverInv, LockHeld,
       pe_state, vars, peVars, workVars, notifyVars, driverVars, adapterVars

LEMMA NextInv == IInv /\ [Next]_vars => IInv'
BY WorkInv, NotifyInv, DriverStepInv, CableInv, StutterInv DEF Next

LEMMA Invariance == Spec => []IInv
BY InitInv, NextInv, PTL DEF Spec

\* Every variable keeps its type; the retry counter never passes RetryMax.
THEOREM TypeCorrect == Spec => []TypeOK
<1>1. IInv => TypeOK BY DEF IInv
<1> QED BY <1>1, Invariance, PTL

\* The state field always agrees with the adapter flag, the counter and the lock.
THEOREM StateCorrect == Spec => []StateAgrees
<1>1. IInv => StateAgrees BY DEF IInv
<1> QED BY <1>1, Invariance, PTL

\* However plugs, unplugs and retries interleave, DETECTING always has an
\* attempt on its way.
THEOREM NeverStranded == Spec => []NoStrandedNegotiation
<1>1. IInv => NoStrandedNegotiation BY DEF IInv
<1> QED BY <1>1, Invariance, PTL

\* Work is left behind by remove only through the late-plug window.
THEOREM LeftoverCause == Spec => []LeftoverOnlyFromLatePlug
<1>1. IInv => LeftoverOnlyFromLatePlug BY DEF IInv, DriverInv, LeftoverOnlyFromLatePlug
<1> QED BY <1>1, Invariance, PTL

\* The charger is reprogrammed only while negotiating for an accepted adapter.
THEOREM PulsesGuarded == Spec => PulsesOnlyWhileNegotiating
<1> DEFINE Guarded == vset' # vset => ac_present /\ state = "NEGOTIATING" /\ UNCHANGED peVars
<1>1. ASSUME IInv, [Next]_vars PROVE [Guarded]_vars
  <2>1. CASE PulseHigh
    BY <1>1, <2>1 DEF IInv, StateAgrees, LockHeld, PulseHigh
  <2>2. CASE PulseLow
    BY <1>1, <2>2 DEF IInv, StateAgrees, LockHeld, PulseLow
  <2>3. CASE ~PulseHigh /\ ~PulseLow
    BY <1>1, <2>3 DEF Next, Work, Notify, Driver, Cable, TimerFires, WorkStarts, WorkReturns,
       WorkNegotiates, PulseFails, CheckAccepts, CheckRejects, NotifyReads, NotifyReadFails,
       NotifyDropped, NotifyApplies, Probe, RemoveBegins, RemoveCancelled, RemoveUnregisters,
       Plug, Unplug, PropertyChanged, vars
  <2> QED BY <2>1, <2>2, <2>3
<1> QED BY <1>1, Invariance, PTL DEF Spec, PulsesOnlyWhileNegotiating
-----------------------------------------------------------------------------
(* What the driver believes, once notifications settle. *)

\* A value read and not applied yet is still right, unless another notification is
\* due; and so is one applied.
SeenInv ==
  ~MayFail("online") /\ ~changed =>
    /\ npc = "lock" => ac_now = online
    /\ npc = "idle" /\ ac_present => online

\* The check finds the charger back at 5 V, and a verdict lasts as long as the cable.
VerdictInv ==
  Ideal =>
    /\ wpc = "check" => vset = "5V"
    /\ online /\ state = "RUNNING" => high
    /\ state = "FAILED" => vset = "5V" /\ ~high

LEMMA SeenStep == ASSUME IInv, SeenInv, [Next]_vars PROVE SeenInv'
<1> USE DEF SeenInv, MayFail, peVars, workVars, notifyVars, driverVars, adapterVars
<1>1. CASE Work
  <2>1. UNCHANGED <<ac_present, npc, ac_now, online, changed, world>>
    BY <1>1 DEF Work, TimerFires, WorkStarts, WorkReturns, WorkNegotiates, PulseFails, PulseHigh,
       PulseLow, CheckAccepts, CheckRejects
  <2> QED BY <2>1
<1>2. CASE Notify
  <2>1. CASE NotifyReads
    BY <1>2, <2>1 DEF Notify, NotifyReads
  <2>2. CASE NotifyReadFails
    BY <1>2, <2>2 DEF Notify, NotifyReadFails
  <2>3. CASE NotifyDropped
    <3>1. ~ac_present /\ npc = "idle"
      BY <2>3 DEF NotifyDropped, Registered, Alive, IInv, TypeOK, StateAgrees, DriverInv
    <3> QED BY <1>2, <2>3, <3>1 DEF Notify, NotifyDropped
  <2>4. CASE NotifyApplies
    <3>1. npc = "lock" /\ npc' = "idle" /\ UNCHANGED <<online, changed, world>>
      BY <1>2, <2>4 DEF Notify, NotifyApplies
    <3>2. ac_present' => ac_now
      <4>1. CASE AcceptPlug
        BY <4>1 DEF AcceptPlug
      <4>2. CASE AcceptUnplug
        BY <4>2 DEF AcceptUnplug
      <4>3. CASE AcceptNothing
        <5>1. ac_now = ac_present /\ ac_present' = ac_present
          BY <4>3 DEF AcceptNothing
        <5> QED BY <5>1, Zenon
      <4> QED BY <2>4, <4>1, <4>2, <4>3 DEF NotifyApplies
    <3> QED BY <3>1, <3>2
  <2> QED BY <1>2, <2>1, <2>2, <2>3, <2>4 DEF Notify
<1>3. CASE Driver
  BY <1>3 DEF Driver, Probe, RemoveBegins, RemoveCancelled, RemoveUnregisters
<1>4. CASE Cable
  <2>1. changed'
    BY <1>4 DEF Cable, Plug, Unplug, PropertyChanged
  <2> QED BY <2>1
<1>5. CASE UNCHANGED vars
  BY <1>5 DEF vars
<1> QED BY <1>1, <1>2, <1>3, <1>4, <1>5 DEF Next

LEMMA VerdictStep == ASSUME IInv, VerdictInv, [Next]_vars PROVE VerdictInv'
<1> USE DEF VerdictInv, Ideal, MayFail, peVars, workVars, notifyVars, driverVars, adapterVars
<1>1. UNCHANGED world
  BY DEF Next, Work, Notify, Driver, Cable, vars
<1> USE <1>1
<1>2. LockHeld <=> state = "NEGOTIATING"
  BY DEF IInv, StateAgrees
<1>3. CASE TimerFires \/ WorkStarts \/ WorkReturns \/ WorkNegotiates
  BY <1>3 DEF TimerFires, WorkStarts, WorkReturns, WorkNegotiates
<1>4. CASE PulseFails
  <2>1. ~Ideal
    BY <1>4 DEF PulseFails
  <2> QED BY <2>1
<1>5. CASE PulseHigh \/ PulseLow
  <2>1. state = "NEGOTIATING" /\ state' = state
    BY <1>2, <1>5 DEF LockHeld, PulseHigh, PulseLow
  <2> QED BY <1>5, <2>1 DEF PulseHigh, PulseLow
<1>6. CASE CheckAccepts
  BY <1>6 DEF CheckAccepts
<1>7. CASE CheckRejects
  <2>1. state' \in {"FAILED", "DETECTING"} /\ wpc' = "idle" /\ UNCHANGED <<high, vset, online>>
    BY <1>7 DEF CheckRejects, Retry
  <2>2. Ideal => ~high /\ vset = "5V"
    BY <1>7 DEF CheckRejects
  <2> QED BY <2>1, <2>2
<1>8. CASE NotifyReads \/ NotifyReadFails \/ NotifyDropped
  BY <1>8 DEF NotifyReads, NotifyReadFails, NotifyDropped
<1>9. CASE NotifyApplies
  BY <1>9 DEF NotifyApplies, AcceptPlug, AcceptUnplug, AcceptNothing
<1>10. CASE Driver \/ PropertyChanged
  BY <1>10 DEF Driver, Probe, RemoveBegins, RemoveCancelled, RemoveUnregisters, PropertyChanged
<1>11. CASE Plug
  <2>1. Ideal => state = "IDLE"
    BY <1>11 DEF Plug, UnplugNoticed, IInv, StateAgrees
  <2> QED BY <1>11, <2>1 DEF Plug
<1>12. CASE Unplug
  BY <1>12 DEF Unplug
<1>13. CASE UNCHANGED vars
  BY <1>13 DEF vars
<1> QED BY <1>3, <1>4, <1>5, <1>6, <1>7, <1>8, <1>9, <1>10, <1>11, <1>12, <1>13
        DEF Next, Work, Notify, Cable

\* Once notifications settle no unplug that could be read was lost, and in an ideal
\* world RUNNING and FAILED are true of the adapter and of the charger.
THEOREM SettledBeliefs == Spec => []SettledIsTrue
<1> DEFINE Inv == IInv /\ SeenInv /\ VerdictInv
<1>1. Init => Inv
  BY InitInv DEF Init, SeenInv, VerdictInv
<1>2. Inv /\ [Next]_vars => Inv'
  BY NextInv, SeenStep, VerdictStep
<1>3. Inv => SettledIsTrue
  BY DEF SeenInv, VerdictInv, SettledIsTrue, NoLostUnplug, VerdictIsTrue, Settled
<1> QED BY <1>1, <1>2, <1>3, PTL DEF Spec
-----------------------------------------------------------------------------
(* The helper implements ChargeSession's safety. *)

\* A step that keeps the driver, the state field and the counter is a stutter.
LEMMA BarStutter ==
  ASSUME UNCHANGED <<driver, state, retry_count>>
  PROVE  UNCHANGED Session!vars
BY DEF Session!vars, triesBar, phaseBar

\* A failed try is a Fail or a GiveUp; remove hides it once it has begun.
LEMMA BarRetry ==
  ASSUME IInv, LockHeld, Retry, UNCHANGED driverVars
  PROVE  Session!Next \/ UNCHANGED Session!vars
<1> USE DEF IInv, TypeOK, StateAgrees, LockHeld, Retry, driverVars, phaseBar, triesBar, pe_state,
        Session!vars
<1>1. CASE driver # "bound"
  BY <1>1
<1>2. CASE driver = "bound" /\ retry_count + 1 >= RetryMax
  <2>1. retry_count + 1 = RetryMax
    BY <1>2
  <2>2. Session!GiveUp
    BY <1>2, <2>1 DEF Session!GiveUp
  <2> QED BY <2>2 DEF Session!Next
<1>3. CASE driver = "bound" /\ retry_count + 1 < RetryMax
  <2>1. Session!Fail
    BY <1>3 DEF Session!Fail
  <2> QED BY <2>1 DEF Session!Next
<1>4. retry_count + 1 >= RetryMax \/ retry_count + 1 < RetryMax
  OBVIOUS
<1> QED BY <1>1, <1>2, <1>3, <1>4

LEMMA BarStep == ASSUME IInv, [Next]_vars PROVE [Session!Next]_(Session!vars)
<1> USE DEF IInv, TypeOK, StateAgrees, LockHeld, phaseBar, triesBar, pe_state,
        peVars, workVars, notifyVars, driverVars, adapterVars
<1>1. CASE PulseFails \/ CheckRejects
  BY <1>1, BarRetry DEF PulseFails, CheckRejects
<1>2. CASE WorkNegotiates
  <2>1. state \in {"DETECTING", "NEGOTIATING"}
    BY <1>2 DEF WorkNegotiates, NothingToNegotiate
  <2> QED BY <1>2, <2>1 DEF WorkNegotiates, Session!vars
<1>3. CASE CheckAccepts
  <2>1. CASE driver = "bound"
    BY <1>3, <2>1 DEF CheckAccepts, Session!Next, Session!Boost
  <2>2. CASE driver # "bound"
    BY <1>3, <2>2 DEF CheckAccepts, Session!vars
  <2> QED BY <2>1, <2>2
<1>4. CASE NotifyApplies /\ AcceptPlug
  <2>1. CASE driver = "bound"
    BY <1>4, <2>1 DEF NotifyApplies, AcceptPlug, Session!Next, Session!Attach
  <2>2. CASE driver # "bound"
    BY <1>4, <2>2 DEF NotifyApplies, AcceptPlug, Session!vars
  <2> QED BY <2>1, <2>2
<1>5. CASE NotifyApplies /\ AcceptUnplug
  <2>1. CASE driver = "bound"
    BY <1>5, <2>1 DEF NotifyApplies, AcceptUnplug, Session!Next, Session!Detach
  <2>2. CASE driver # "bound"
    BY <1>5, <2>2 DEF NotifyApplies, AcceptUnplug, Session!vars
  <2> QED BY <2>1, <2>2
<1>6. CASE Probe
  BY <1>6 DEF Probe, DriverInv, Session!Next, Session!Arrive
<1>7. CASE RemoveBegins
  BY <1>7 DEF RemoveBegins, Session!Next, Session!Leave
<1>8. CASE RemoveCancelled \/ RemoveUnregisters
  BY <1>8 DEF RemoveCancelled, RemoveUnregisters, Session!vars
<1>9. CASE \/ TimerFires \/ WorkStarts \/ WorkReturns \/ PulseHigh \/ PulseLow
           \/ NotifyReads \/ NotifyReadFails \/ NotifyDropped \/ (NotifyApplies /\ AcceptNothing)
           \/ Cable \/ UNCHANGED vars
  <2>1. UNCHANGED <<driver, state, retry_count>>
    BY <1>9 DEF TimerFires, WorkStarts, WorkReturns, PulseHigh, PulseLow, NotifyReads,
       NotifyReadFails, NotifyDropped, NotifyApplies, AcceptNothing, Cable, Plug, Unplug,
       PropertyChanged, vars
  <2> QED BY <2>1, BarStutter
<1>10. NotifyApplies => AcceptPlug \/ AcceptUnplug \/ AcceptNothing
  BY DEF NotifyApplies
<1> QED BY <1>1, <1>2, <1>3, <1>4, <1>5, <1>6, <1>7, <1>8, <1>9, <1>10 DEF Next, Work, Notify, Driver

\* Every adapter is tried at most RetryMax times, then is boosted or left at
\* the standard voltage until it is unplugged: the safety of ChargeSession.
THEOREM ImplementsSession == Spec => Session!Init /\ [][Session!Next]_(Session!vars)
<1>1. Init => Session!Init
  BY DEF Init, Session!Init, phaseBar, triesBar
<1> QED BY <1>1, BarStep, Invariance, PTL DEF Spec
==============================================================================
