------------------------------ MODULE Thermistor ------------------------------
(* How the vendor gauge gets a temperature from the voltage at the battery's      *)
(* thermistor (mtk_battery.c): it takes off what the battery current adds on the  *)
(* way, solves the voltage divider for the thermistor, which has a resistor of    *)
(* 24 kOhm beside it, and looks the resistance up in a table, with straight lines *)
(* between its rows.  All of it in whole numbers.                                *)
(*                                                                             *)
(* The table, the divider and the thermistor itself are external: the table's     *)
(* header is not in the tree, and the thermistor is taken to follow the table.    *)
(* The value found is for the record: force_get_tbat_internal replaces it by 25   *)
(* degrees before it returns, whatever it is.                                    *)
EXTENDS Integers, Sequences

CONSTANTS
  Fg_Temperature_Table,  \* rows <<degrees, Ohm>>, in the order of the degrees
  PullUpR, PullUpVolt,   \* the divider: Ohm and mV
  MeterResistance,       \* what the current flows through, in 0.1 mOhm
  Currents               \* battery currents, in 0.1 mA

VARIABLES
  degree,                \* the battery's temperature
  current, is_charging   \* what gauge_dev_get_current returns

thermistor_vars == <<degree, current, is_charging>>

TableRows == Len(Fg_Temperature_Table)
Temp(i) == Fg_Temperature_Table[i][1]
R(i)    == Fg_Temperature_Table[i][2]
Degrees == Temp(1) .. Temp(TableRows)
RBAT_PULL_DOWN_R == 24000

\* C's division, towards zero
Quot(a, b) == IF (a < 0) # (b < 0) THEN -((IF a < 0 THEN -a ELSE a) \div (IF b < 0 THEN -b ELSE b))
              ELSE (IF a < 0 THEN -a ELSE a) \div (IF b < 0 THEN -b ELSE b)
Abs(a) == IF a < 0 THEN -a ELSE a

interpolation(i1, b1, i2, b2, i) == Quot((b2 - b1) * (i - i1), i2 - i1) + b1

\* The first row that the value has reached; it is not the first of the table.
FirstReached(reached) == CHOOSE i \in reached : \A j \in reached : i <= j

TempConverBattThermistor(temp) ==
  IF temp >= Temp(TableRows) THEN R(TableRows)
  ELSE IF temp <= Temp(1) THEN R(1)
  ELSE LET i == FirstReached({k \in 2 .. TableRows : temp <= Temp(k)})
       IN  interpolation(Temp(i - 1), R(i - 1), Temp(i), R(i), temp)

\* In tenths of a degree.  The ends of the table are named by their values there.
BattThermistorConverTemp(res) ==
  IF res >= R(1) THEN -400
  ELSE IF res <= R(TableRows) THEN 600
  ELSE LET i == FirstReached({k \in 2 .. TableRows : res >= R(k)})
       IN  Quot(((res - R(i)) * Temp(i - 1) + (R(i - 1) - res) * Temp(i)) * 10, R(i - 1) - R(i))

\* Plausible bug: the resistor beside the thermistor is forgotten.
Alone(res) == res

\* The resistance of the thermistor, from what the divider shows.
Beside(res) == (res * RBAT_PULL_DOWN_R) \div Abs(RBAT_PULL_DOWN_R - res)

BattVoltToTemp(volt) ==
  LET delta == Abs(PullUpVolt - volt)
      shown == (PullUpR * volt) \div (IF delta = 0 THEN 1 ELSE delta)
  IN  IF volt >= 2000 THEN -80 ELSE BattThermistorConverTemp(Beside(shown))

\* The current's share of the voltage, in mV.
Share == Quot(Quot(current, 10) * MeterResistance, 10000)

force_get_tbat_internal(volt) ==
  BattVoltToTemp(IF is_charging THEN volt - Share ELSE volt + Share)

---------------------------------------------------------------------------------
\* The thermistor, the divider and the current (external).
Parallel(res) == RBAT_PULL_DOWN_R - (RBAT_PULL_DOWN_R * RBAT_PULL_DOWN_R) \div (res + RBAT_PULL_DOWN_R)

AdcVolt ==
  LET shown == Parallel(TempConverBattThermistor(degree))
      volt  == (shown * PullUpVolt) \div (shown + PullUpR)
  IN  IF is_charging THEN volt + Share ELSE volt - Share

Init == degree \in Degrees /\ current \in Currents /\ is_charging \in BOOLEAN

Drifts ==
  /\ degree' \in Degrees \cap {degree - 1, degree + 1}
  /\ UNCHANGED <<current, is_charging>>

Spec == Init /\ [][Drifts]_thermistor_vars

---------------------------------------------------------------------------------
\* Over the whole table, charging or not and at every current, the temperature that
\* the code computes from the converter's voltage is within a degree of the
\* battery's: the two tables' lines, the divider and the correction undo each other
\* and what the whole numbers lose on the way adds up to less than a degree.
ReadingIsRight == Abs(force_get_tbat_internal(AdcVolt) - 10 * degree) <= 10
===============================================================================
