--------------------------------- MODULE MCFm ---------------------------------
(* The FM radio's drivers: the skeleton that this tree builds (FmRadio), and the *)
(* chip libraries (FmChip), the locking (FmMain), the RDS parser (FmRds), the way  *)
(* of its data to the user (FmRdsUser) and the firmware link (FmLink) of the       *)
(* vendor driver kept beside it; its setup (FmSetup) is checked in MCDevices.  A    *)
(* behaviour follows one of them, its subject.                                     *)
(*                                                                             *)
(* FmRadio has a scale of 16 frequencies instead of 2^32, with two bands that     *)
(* overlap and every kind of spacing: none, narrow, wide, more than the band,    *)
(* and one that wraps.  FmChip has every chip, and every variant that its code   *)
(* tells apart; FmMain has one user and the driver's two threads. FmRds has two   *)
(* names that share a segment, texts with the end of text early, late and not at  *)
(* all, and lists of one, an odd and an even number of frequencies; one group is  *)
(* lost or wrong, and one comes late.  FmLink sends two commands, of four kinds;   *)
(* one packet is cut and one packet of RDS data comes between.  FmRdsUser has one  *)
(* reader, one call that switches or tunes, and one access or copy that fails.     *)
EXTENDS FmRadio, TLC

CONSTANTS Callers, MaxFails, MaxFaults,             \* FmChip, FmMain
          Lists, MaxAddr, ManyTimes, MaxBad, MaxLate, \* FmRds
          Commands, MaxCommands, MaxCuts, MaxRds,   \* FmLink
          Readers, MaxCalls, MaxMishaps             \* FmRdsUser

VARIABLES subject,
  chip, regs, kept, power, chipon, call, hop, pc, clean, lost, fails,
  sem, rest, holds, st, faults, leaked,
  program, station, bad, ps, rt, af, afon, flags, events,
  flag, result, state, wire, raising, cmd, last, sent, cuts, rds,
  rx_on, receiving, pending, listed, event_status, rds_event, parser, reader, tick, ticking, ctl,
  spoiled, calls, mishaps

Lows     == 0 :> 5 @@ 1 :> 4
Highs    == 0 :> 10 @@ 1 :> 7
MCSpaces == {0, 1, 3, 7, 15}

Variant(name, hwid, own, mt6625, i2s) ==
  [name |-> name, hwid |-> hwid, own |-> own, mt6625 |-> mt6625, i2s |-> i2s]

AllChips == {
  Variant("mt6631", 0, FALSE, FALSE, FALSE), Variant("mt6631", 1, FALSE, FALSE, FALSE),
  Variant("mt6631", 3, FALSE, FALSE, FALSE), Variant("mt6631", 0, TRUE, FALSE, FALSE),
  Variant("mt6635", 3, FALSE, FALSE, FALSE), Variant("mt6635_2", 0, FALSE, FALSE, FALSE),
  Variant("mt6627", 0, FALSE, FALSE, FALSE), Variant("mt6627", 0, FALSE, TRUE, FALSE),
  Variant("mt6580", 0, FALSE, FALSE, FALSE), Variant("mt6630", 0, FALSE, FALSE, TRUE),
  Variant("mt6632", 0, FALSE, FALSE, TRUE)}

MCNames == {<<1, 1, 1, 1>>, <<2, 2, 1, 2>>}
MCTexts == {<<1, 2, 13>>, <<3, 1, 12>>, <<2, 2, 2>>}
\* The code that fills up the last pair of a list is higher than any frequency's.
Filler == 205

MCLists == {<< <<1, 5>> >>, << <<5, 9>>, <<7, 3>>, <<2, 8>> >>, << <<4, 9>>, <<6, 3>>, <<4, Filler>> >>}

Library == INSTANCE FmChip WITH Chips <- AllChips
Driver  == INSTANCE FmMain WITH Users <- Callers

Rds     == INSTANCE FmRds WITH
             Names <- MCNames, Texts <- MCTexts

\* Stations send whole lists, and the old one's groups come to an end.
ASSUME StationsSendLists == (\A l \in Lists : Rds!IsList(l)) /\ MaxLate \in Nat

Link    == INSTANCE FmLink

\* The commands are of the kinds that fm_cmd.c sends.
ASSUME CommandsAreKnown == Commands \subseteq DOMAIN Link!Mask /\ MaxCommands \in Nat

\* The libraries that switch RDS each in a way of their own.
RdsChips == {c.name : c \in AllChips} \ {"mt6635_2"}

RdsUser == INSTANCE FmRdsUser WITH Chips <- RdsChips

library_vars == <<chip, regs, kept, power, chipon, call, hop, pc, clean, lost, fails>>
driver_vars  == <<sem, rest, holds, st, faults, leaked>>
rds_vars     == <<program, station, bad, ps, rt, af, afon, flags, events>>
link_vars    == <<flag, result, state, wire, raising, cmd, last, sent, cuts, rds>>
user_vars    == <<rx_on, receiving, pending, listed, event_status, rds_event, parser, reader, tick,
                  ticking, ctl, spoiled, calls, mishaps>>

MCInit ==
  /\ subject \in {"skeleton", "library", "driver", "rds", "link", "user"}
  /\ Library!Init /\ (subject # "library" => chip = CHOOSE c \in AllChips : TRUE)
  /\ Rds!Init /\ (subject # "rds" => program = "flags")
  /\ RdsUser!Init /\ (subject # "user" => ~receiving)
  /\ Init /\ Driver!Init /\ Link!Init

\* The vendor driver's parts but for the one that moves.
Still(moving) ==
  /\ (moving # "library" => UNCHANGED library_vars) /\ (moving # "driver" => UNCHANGED driver_vars)
  /\ (moving # "rds" => UNCHANGED rds_vars)         /\ (moving # "link" => UNCHANGED link_vars)
  /\ (moving # "user" => UNCHANGED user_vars)

SkeletonNext == subject = "skeleton" /\ Next /\ Still(subject)
LibraryNext  == subject = "library" /\ Library!Next /\ Still(subject) /\ UNCHANGED vars
DriverNext   == subject = "driver" /\ Driver!Next /\ Still(subject) /\ UNCHANGED vars
RdsNext      == subject = "rds" /\ Rds!Next /\ Still(subject) /\ UNCHANGED vars
LinkNext     == subject = "link" /\ Link!Next /\ Still(subject) /\ UNCHANGED vars
UserNext     == subject = "user" /\ RdsUser!Next /\ Still(subject) /\ UNCHANGED vars

MCNext ==
  /\ SkeletonNext \/ LibraryNext \/ DriverNext \/ RdsNext \/ LinkNext \/ UserNext
  /\ UNCHANGED subject

vendor_vars == <<library_vars, driver_vars, rds_vars, link_vars, user_vars>>

mc_vars == <<subject, vars, vendor_vars>>

MCSpec ==
  /\ MCInit
  /\ [][MCNext]_mc_vars

\* Stated and explained in the modules they come from.
CallsRecover      == Library!CallsRecover
FastBusOnPll      == Library!FastBusOnPll
EveryCallReturns  == Driver!EveryCallReturns
ShownIsWhole      == Rds!ShownIsWhole
ListIsStations    == Rds!ListIsStations
OwnAnswer         == Link!OwnAnswer
NoUpdateIsMissed  == RdsUser!NoUpdateIsMissed
===============================================================================
