------------------------------- MODULE MCGauge -------------------------------
(* Gauge with hundred-row tables: straight lines between the first and the   *)
(* last VBAT of the profiles in dts/rmx3171_bat_profile.dtsi, once in the    *)
(* millivolts the driver documents and once in the tenths of a millivolt     *)
(* the profile holds.                                                        *)
EXTENDS Gauge, TLC

First == 0 :> 43940 @@ 1 :> 44010 @@ 2 :> 44050 @@ 3 :> 44070 @@ 4 :> 44100
Last  == 0 :> 29870 @@ 1 :> 30620 @@ 2 :> 31890 @@ 3 :> 34890 @@ 4 :> 36240

Line(i, unit) == [j \in 0 .. Rows - 1 |-> (First[i] - ((First[i] - Last[i]) * j) \div (Rows - 1)) \div unit]

Millivolts == [i \in Profiles |-> Line(i, 10)]
Stock      == [i \in Profiles |-> Line(i, 1)]

StockTemps  == 0 :> 50 @@ 1 :> 25 @@ 2 :> 10 @@ 3 :> 0 @@ 4 :> -6
ThreeCells  == [i \in Profiles |-> 300]
StockCells  == [i \in Profiles |-> IF i \in {2, 3} THEN 400 ELSE 300]

MCVoltages     == {2900000, 3406000, 3850000, 3862000, 4401000}
MCTemperatures == {-61, -25, 55, 250, 377, 600}

\* An ordinary battery, where the stock node has tables of three columns on both sides.
StockVoltages     == {3850000, 4100000}
StockTemperatures == {250, 377}
==============================================================================
