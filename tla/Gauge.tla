-------------------------------- MODULE Gauge --------------------------------
(***************************************************************************)
(* The simple fuel gauge, ports/power/aether-simple-gauge.c: a delayed     *)
(* work item that polls the charger and the thermal zone and re-arms       *)
(* itself, and the cached values that get_property hands out without a     *)
(* lock; and the arithmetic from the battery profile in the device tree    *)
(* and one voltage and temperature to a state of charge.  A table is a     *)
(* function from rows to the VBAT field, the only one of a row's three     *)
(* fields that is used.  Voltages are in microvolts, temperatures in       *)
(* tenths of a degree.                                                     *)
(***************************************************************************)
EXTENDS Integers, FiniteSets, FiniteSetsExt

CONSTANTS
  Rows,      \* BAT_PROFILE_ROWS
  DtTemps,   \* TEMPERATURE_T<i>, for the keys the node has
  DtCells,   \* the number of cells in battery0_profile_t<i>
  DtVolt,    \* the VBAT column of battery0_profile_t<i>
  Voltages, Temperatures,  \* what the battery may be at
  TableUnit,               \* microvolts per unit of the profile's VBAT column
  ReadsMayFail             \* may the charger's VOLTAGE_NOW fail?

VARIABLES
  last_soc, last_voltage_uv, last_temp_c10,  \* struct aether_gauge
  charger, tz,   \* has the charger / the thermal zone been found?
  work, pc,      \* the delayed work item, and where a running poll is
  driver,
  registered,    \* is the charger's power supply registered?
  vbat, temp     \* the battery

cache   == <<last_soc, last_voltage_uv, last_temp_c10>>
found   == <<charger, tz>>
battery == <<vbat, temp>>
vars    == <<cache, found, work, pc, driver, registered, battery>>

ASSUME RowsAssumption == Rows \in Nat /\ Rows > 1
ASSUME VoltageAssumption == Voltages \subseteq Nat \ {0}

-----------------------------------------------------------------------------
(* The conversion. *)

RowSize  == 3
Profiles == 0 .. 4

\* aether_gauge_parse_profile: a missing temperature becomes 25, and a
\* property whose length is not exactly Rows * RowSize falls back to a
\* straight line from 4.2 V to 3.3 V.
Fallback == [j \in 0 .. Rows - 1 |-> 4200 - ((4200 - 3300) * j) \div Rows]

profile_temps == [i \in Profiles |-> IF i \in DOMAIN DtTemps THEN DtTemps[i] ELSE 25]
profile_t     == [i \in Profiles |-> IF DtCells[i] = Rows * RowSize THEN DtVolt[i] ELSE Fallback]

\* C division truncates towards zero.
CDiv(a, b) == IF a >= 0 THEN a \div b ELSE -((-a) \div b)

clamp(x, lo, hi) == IF x < lo THEN lo ELSE IF x > hi THEN hi ELSE x

-----------------------------------------------------------------------------
(* One table: the first row the voltage reaches, or the first pair of rows *)
(* it lies between.                                                         *)

Reaches(tbl, v, j) == v >= tbl[j]
Between(tbl, v, j) == tbl[j + 1] < v /\ v < tbl[j]

TableSoc(tbl, v) ==
  LET hits == {j \in 0 .. Rows - 2 : Reaches(tbl, v, j) \/ Between(tbl, v, j)}
  IN  IF hits = {} THEN 0
      ELSE LET j == Min(hits)
           IN  IF Reaches(tbl, v, j) THEN Rows - j
               ELSE Rows - j - (tbl[j] - v) \div (tbl[j] - tbl[j + 1])

(* Two tables: the pair of temperatures around the battery's. *)

Brackets(t) == {i \in 0 .. 3 : profile_temps[i + 1] * 10 <= t /\ t <= profile_temps[i] * 10}

TempHi(t) ==
  IF t < profile_temps[4] * 10 THEN 4
  ELSE IF t > profile_temps[0] * 10 THEN 0
  ELSE IF Brackets(t) = {} THEN 1 ELSE Min(Brackets(t))

TempLo(t) ==
  IF t < profile_temps[4] * 10 THEN 4
  ELSE IF t > profile_temps[0] * 10 THEN 0
  ELSE IF Brackets(t) = {} THEN 1 ELSE Min(Brackets(t)) + 1

\* Plausible bug: the weight is taken from the wrong end.
InterpolateFromLow(hi, lo, delta, span) == lo + CDiv((hi - lo) * delta, span)

Interpolate(hi, lo, delta, span) == hi - CDiv((hi - lo) * delta, span)

compute_soc(v, t) ==
  LET h == TempHi(t)  l == TempLo(t)
      hi == TableSoc(profile_t[h], v)
      lo == TableSoc(profile_t[l], v)
      span == (profile_temps[h] - profile_temps[l]) * 10
  IN  IF h = l \/ span = 0
      THEN clamp(hi, 0, 100)
      ELSE clamp(Interpolate(hi, lo, profile_temps[h] * 10 - t, span), 0, 100)

-----------------------------------------------------------------------------
(* A reference that shares nothing with the conversion of a table: the rows   *)
(* of the node's own VBAT columns the voltage has reached, in the node's unit, *)
(* weighed by how near each temperature is.                                  *)

RowsReached(tbl, v) == Cardinality({j \in 0 .. Rows - 1 : tbl[j] <= v})

\* The comparison is multiplied by span, to stay in the integers.
WithinThree(soc, v, t) ==
  LET h == TempHi(t)  l == TempLo(t)
      span == (profile_temps[h] - profile_temps[l]) * 10
      delta == profile_temps[h] * 10 - t
      want == RowsReached(DtVolt[h], v) * (span - delta) + RowsReached(DtVolt[l], v) * delta
  IN  IF span = 0
      THEN soc - RowsReached(DtVolt[h], v) \in -3 .. 3
      ELSE -3 * span <= soc * span - want /\ soc * span - want <= 3 * span

-----------------------------------------------------------------------------
TempDefault == 250  \* AETHER_GAUGE_TEMP_DEFAULT

TypeOK ==
  /\ last_soc \in 0 .. 100
  /\ last_voltage_uv \in Voltages \union {0}
  /\ last_temp_c10 \in Temperatures \union {TempDefault}
  /\ charger \in BOOLEAN /\ tz \in BOOLEAN /\ registered \in BOOLEAN
  /\ work \in {"none", "timer"}
  /\ pc \in {"idle", "temp", "soc", "rearm"}
  /\ driver \in {"unbound", "bound", "cancelling"}
  /\ vbat \in Voltages /\ temp \in Temperatures

Cleared == last_soc = 0 /\ last_voltage_uv = 0 /\ last_temp_c10 = TempDefault

Init ==
  /\ Cleared
  /\ charger = FALSE /\ tz = FALSE
  /\ work = "none" /\ pc = "idle" /\ driver = "unbound"
  /\ registered \in BOOLEAN
  /\ vbat \in Voltages /\ temp \in Temperatures

-----------------------------------------------------------------------------
(* aether_gauge_poll *)

\* aether_gauge_read_vbat_uv: the charger is looked up until it is found.
PollReadsVoltage ==
  /\ work = "timer" /\ pc = "idle"
  /\ registered
  /\ charger' = TRUE
  /\ last_voltage_uv' = vbat
  /\ work' = "none" /\ pc' = "temp"
  /\ UNCHANGED <<last_soc, last_temp_c10, tz, driver, registered, battery>>

\* No charger yet, or it returns an error: the cache is left alone.
PollFails ==
  /\ work = "timer" /\ pc = "idle"
  /\ ~registered \/ ReadsMayFail
  /\ charger' = (charger \/ registered)
  /\ work' = "none" /\ pc' = "rearm"
  /\ UNCHANGED <<cache, tz, driver, registered, battery>>

\* aether_gauge_read_temp_c10: a missing or failing zone reads as 25.0.
PollReadsTemp ==
  /\ pc = "temp"
  /\ \/ tz /\ last_temp_c10' = temp
     \/ last_temp_c10' = TempDefault
  /\ pc' = "soc"
  /\ UNCHANGED <<last_soc, last_voltage_uv, found, work, driver, registered, battery>>

\* The conversion, from the cached temperature; power_supply_changed.
PollComputes ==
  /\ pc = "soc"
  /\ last_soc' = compute_soc(last_voltage_uv \div 1000, last_temp_c10)
  /\ pc' = "rearm"
  /\ UNCHANGED <<last_voltage_uv, last_temp_c10, found, work, driver, registered, battery>>

PollRearmsAlways ==
  /\ pc = "rearm"
  /\ pc' = "idle"
  /\ work' = "timer"
  /\ UNCHANGED <<cache, found, driver, registered, battery>>

\* schedule_delayed_work, which cancel_delayed_work_sync defeats.
PollRearms ==
  /\ pc = "rearm"
  /\ pc' = "idle"
  /\ work' = IF driver = "cancelling" THEN "none" ELSE "timer"
  /\ UNCHANGED <<cache, found, driver, registered, battery>>

Poll == PollReadsVoltage \/ PollFails \/ PollReadsTemp \/ PollComputes \/ PollRearms

-----------------------------------------------------------------------------
(* aether_gauge_probe and aether_gauge_remove; a failing probe leaves no trace. *)

Probe ==
  /\ driver = "unbound"
  /\ driver' = "bound"
  /\ last_soc' = 50 /\ last_voltage_uv' = 0 /\ last_temp_c10' = TempDefault
  /\ charger' = FALSE /\ tz' \in BOOLEAN
  /\ work' = "timer"
  /\ UNCHANGED <<pc, registered, battery>>

\* cancel_delayed_work_sync drops a pending poll ...
RemoveBegins ==
  /\ driver = "bound"
  /\ driver' = "cancelling"
  /\ work' = "none"
  /\ UNCHANGED <<cache, found, pc, registered, battery>>

\* ... and waits for a running one; then the structure is freed.
RemoveEnds ==
  /\ driver = "cancelling" /\ pc = "idle"
  /\ driver' = "unbound"
  /\ last_soc' = 0 /\ last_voltage_uv' = 0 /\ last_temp_c10' = TempDefault
  /\ charger' = FALSE /\ tz' = FALSE
  /\ UNCHANGED <<work, pc, registered, battery>>

-----------------------------------------------------------------------------
ChargerRegisters ==
  /\ ~registered
  /\ registered' = TRUE
  /\ UNCHANGED <<cache, found, work, pc, driver, battery>>

BatteryMoves ==
  /\ vbat' \in Voltages /\ temp' \in Temperatures
  /\ battery' # battery
  /\ UNCHANGED <<cache, found, work, pc, driver, registered>>

Next == Poll \/ Probe \/ RemoveBegins \/ RemoveEnds \/ ChargerRegisters \/ BatteryMoves

\* The poll runs on the system workqueue.
Spec == Init /\ [][Next]_vars /\ WF_vars(Poll)

-----------------------------------------------------------------------------
(* aether_gauge_get_property, CAPACITY, VOLTAGE_NOW and TEMP: what a reader *)
(* sees is the cache, at any moment.                                        *)

Polled == driver = "bound" /\ last_voltage_uv # 0

\* The three values a reader sees belong together, except while a poll is
\* between its stores: no failed read, late timer or missing thermal zone may
\* leave a state of charge that was not computed from the voltage and
\* temperature shown beside it.
CacheConsistent ==
  Polled /\ pc \notin {"temp", "soc"}
    => last_soc = compute_soc(last_voltage_uv \div 1000, last_temp_c10)

\* "Accuracy: +-3% SOC" (aether-simple-gauge.c:14, Kconfig:25): between polls
\* the reported state of charge is within three points of what the profile in
\* the device tree says of the voltage, taken in the profile's own unit.
AccurateWithinThree ==
  Polled /\ pc \notin {"temp", "soc"}
    => WithinThree(last_soc, last_voltage_uv \div TableUnit, last_temp_c10)

\* No poll is pending or running on a structure that remove has freed, though
\* every poll queues the next one.
NoPollAfterRemove == driver = "unbound" => work = "none" /\ pc = "idle"

\* Every poll queues the next: while the driver is bound one is pending or
\* running, whatever the charger answered and whenever it registered.
PollNeverStops == driver = "bound" => work = "timer" \/ pc # "idle"
===============================================================================
