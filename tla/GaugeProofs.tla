----------------------------- MODULE GaugeProofs -----------------------------
(***************************************************************************)
(* The gauge's cache and its polling, for every profile, voltage and       *)
(* temperature: compute_soc stays opaque, so nothing is assumed of the     *)
(* tables.  And the arithmetic of the interpolation between two tables.    *)
(***************************************************************************)
EXTENDS Gauge, TLAPS

\* A poll in progress belongs to a bound driver or to one that is waiting for
\* it; until the first successful poll there is no voltage.
PollInv ==
  /\ driver \in {"unbound", "bound", "cancelling"}
  /\ driver = "unbound" => work = "none" /\ pc = "idle"
  /\ driver = "cancelling" => work = "none"
  /\ driver = "bound" => work = "timer" \/ pc # "idle"
  /\ work = "timer" => pc = "idle"

IInv == PollInv /\ CacheConsistent

LEMMA InitInv == Init => IInv
BY DEF Init, IInv, PollInv, CacheConsistent, Polled, Cleared

LEMMA PollStep == ASSUME IInv, Poll PROVE IInv'
<1> USE DEF IInv, PollInv, CacheConsistent, Polled, cache, found, battery
<1>1. CASE PollReadsVoltage
  BY <1>1 DEF PollReadsVoltage
<1>2. CASE PollFails
  BY <1>2 DEF PollFails
<1>3. CASE PollReadsTemp
  BY <1>3 DEF PollReadsTemp
<1>4. CASE PollComputes
  BY <1>4 DEF PollComputes
<1>5. CASE PollRearms
  BY <1>5 DEF PollRearms
<1> QED BY <1>1, <1>2, <1>3, <1>4, <1>5 DEF Poll

LEMMA NextInv == IInv /\ [Next]_vars => IInv'
<1> SUFFICES ASSUME IInv, [Next]_vars PROVE IInv'
  OBVIOUS
<1> USE DEF IInv, PollInv, CacheConsistent, Polled, cache, found, battery
<1>1. CASE Poll
  BY <1>1, PollStep
<1>2. CASE Probe
  BY <1>2 DEF Probe
<1>3. CASE RemoveBegins
  BY <1>3 DEF RemoveBegins
<1>4. CASE RemoveEnds
  BY <1>4 DEF RemoveEnds
<1>5. CASE ChargerRegisters \/ BatteryMoves \/ UNCHANGED vars
  BY <1>5 DEF ChargerRegisters, BatteryMoves, vars
<1> QED BY <1>1, <1>2, <1>3, <1>4, <1>5 DEF Next

LEMMA Invariance == Spec => []IInv
BY InitInv, NextInv, PTL DEF Spec

\* Outside a poll's stores, the cached state of charge is the conversion of the
\* cached voltage and temperature, whatever the profile.
THEOREM CacheCorrect == Spec => []CacheConsistent
<1>1. IInv => CacheConsistent BY DEF IInv
<1> QED BY <1>1, Invariance, PTL

\* remove leaves no poll behind, although polls queue themselves.
THEOREM RemoveIsFinal == Spec => []NoPollAfterRemove
<1>1. IInv => NoPollAfterRemove BY DEF IInv, PollInv, NoPollAfterRemove
<1> QED BY <1>1, Invariance, PTL

\* Polling goes on as long as the driver is bound, whatever failed before.
THEOREM PollingGoesOn == Spec => []PollNeverStops
<1>1. IInv => PollNeverStops BY DEF IInv, PollInv, PollNeverStops
<1> QED BY <1>1, Invariance, PTL

-----------------------------------------------------------------------------
\* Division rounds a fraction of n to at most n.
LEMMA PartOfWhole ==
  ASSUME NEW n \in Nat, NEW d \in Nat, NEW s \in Nat \ {0}, d <= s
  PROVE  (n * d) \div s \in 0 .. n
<1> DEFINE q == (n * d) \div s
<1>1. q \in Int /\ s * q <= n * d /\ n * d < s * q + s
  <2>1. n * d \in Nat OBVIOUS
  <2>2. \A m \in Nat : m \div s \in Int /\ s * (m \div s) <= m /\ m < s * (m \div s) + s
    OBVIOUS
  <2> QED BY <2>1, <2>2
<1>2. n * d <= n * s
  OBVIOUS
<1> HIDE DEF q
<1>3. q >= 0
  <2> SUFFICES ASSUME q <= -1 PROVE FALSE
    BY <1>1
  <2>1. s * q <= -s
    BY <1>1
  <2> QED BY <1>1, <2>1
<1>4. q <= n
  <2> SUFFICES ASSUME q >= n + 1 PROVE FALSE
    BY <1>1
  <2>1. s * q >= s * n + s
    BY <1>1
  <2> QED BY <1>1, <1>2, <2>1
<1> QED BY <1>1, <1>3, <1>4 DEF q

\* Between two temperatures the reported state of charge lies between what the
\* two tables say, whichever is the larger: C's truncation never overshoots.
THEOREM InterpolationStaysBetween ==
  ASSUME NEW hi \in Int, NEW lo \in Int, NEW delta \in Nat, NEW span \in Nat \ {0}, delta <= span
  PROVE  \/ Interpolate(hi, lo, delta, span) \in lo .. hi
         \/ Interpolate(hi, lo, delta, span) \in hi .. lo
<1>1. CASE hi >= lo
  <2>1. hi - lo \in Nat /\ (hi - lo) * delta >= 0
    BY <1>1
  <2>2. ((hi - lo) * delta) \div span \in 0 .. (hi - lo)
    BY <2>1, PartOfWhole
  <2> QED BY <2>1, <2>2 DEF Interpolate, CDiv
<1>2. CASE hi < lo
  <2>1. lo - hi \in Nat /\ (lo - hi) * delta >= 0 /\ (lo - hi) * delta = -((hi - lo) * delta)
    BY <1>2
  <2>2. ((lo - hi) * delta) \div span \in 0 .. (lo - hi)
    BY <2>1, PartOfWhole
  <2>3. CASE (hi - lo) * delta >= 0
    <3>1. (hi - lo) * delta = 0
      BY <2>1, <2>3
    <3>2. 0 \div span = 0
      OBVIOUS
    <3> QED BY <1>2, <2>3, <3>1, <3>2 DEF Interpolate, CDiv
  <2>4. CASE ~((hi - lo) * delta >= 0)
    BY <1>2, <2>1, <2>2, <2>4 DEF Interpolate, CDiv
  <2> QED BY <2>3, <2>4
<1> QED BY <1>1, <1>2
==============================================================================
