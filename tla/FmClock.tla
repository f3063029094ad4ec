-------------------------------- MODULE FmClock --------------------------------
(* The date in the vendor FM driver's RDS parser (rds_retrieve_g4 of              *)
(* core/fm_rds_parser.c): a station counts days, as a Modified Julian Day, and     *)
(* the parser makes a year, a month and a day of the number.  Beside the station   *)
(* runs the calendar.                                                            *)
EXTENDS Integers

CONSTANTS FirstMJD,   \* the day that is 1 January of FirstYear
          FirstYear,
          LastMJD     \* bound: how long the calendar runs

VARIABLES mjd, date,  \* the station's day, and what the calendar calls it
          CT,         \* as in the code
          event_status

clock_vars == <<mjd, date, CT, event_status>>

Minutes == 0 .. 1

Init ==
  /\ mjd = FirstMJD /\ date = [Year |-> FirstYear, Month |-> 1, Day |-> 1]
  /\ CT = [Year |-> 0, Month |-> 0, Day |-> 0, Minute |-> 0]
  /\ event_status = {}

IsLeap(y) == y % 4 = 0 /\ (y % 100 # 0 \/ y % 400 = 0)

DaysOf(m, y) == CASE m = 2 -> IF IsLeap(y) THEN 29 ELSE 28
                  [] m \in {4, 6, 9, 11} -> 30
                  [] OTHER -> 31

Tomorrow(d) ==
  CASE d.Day < DaysOf(d.Month, d.Year) -> [d EXCEPT !.Day = @ + 1]
    [] d.Month < 12 -> [d EXCEPT !.Month = @ + 1, !.Day = 1]
    [] OTHER -> [Year |-> d.Year + 1, Month |-> 1, Day |-> 1]

Midnight ==
  /\ mjd < LastMJD
  /\ mjd' = mjd + 1 /\ date' = Tomorrow(date)
  /\ event_status' = {}
  /\ UNCHANGED CT

YearOf(MJD)     == (MJD * 100 - 1507820) \div 36525
MonthOf(MJD, y) == (MJD * 10000 - 149561000 - 3652500 * y) \div 306001

\* The day is read in a year that is counted from March.
rds_retrieve_g4(minute) ==
  LET year  == YearOf(mjd)
      month == MonthOf(mjd, year)
      k     == IF month \in {14, 15} THEN 1 ELSE 0
  IN  /\ year <= 1000
      /\ CT' = [Year   |-> 1900 + year + k,
                Month  |-> month - 1 - k * 12,
                Day    |-> mjd - 14956 - (36525 * year) \div 100 - (306001 * month) \div 10000,
                Minute |-> minute]
      /\ event_status' = IF CT.Minute # minute THEN {"UTCDATETIME"} ELSE {}
      /\ UNCHANGED <<mjd, date>>

Next == Midnight \/ \E m \in Minutes : rds_retrieve_g4(m)

Spec == Init /\ [][Next]_clock_vars

-----------------------------------------------------------------------------
\* A date that is announced is the one that the station has sent.
NewDateIsRight ==
  event_status # {} => <<CT.Year, CT.Month, CT.Day>> = <<date.Year, date.Month, date.Day>>
=============================================================================
