---------------------------- MODULE ChargeSession ----------------------------
(***************************************************************************)
(* What the Pump Express helper promises, with no threads in sight: every  *)
(* time an adapter is attached it is tried at most MaxTries times, ends up *)
(* boosted or at the standard voltage, and stays there until it leaves.    *)
(***************************************************************************)
EXTENDS Naturals

CONSTANT MaxTries

VARIABLES
  phase,  \* "absent" (no driver), "off", "trying", "boosted" or "standard"
  tries   \* failed tries of the current adapter, while trying

vars == <<phase, tries>>

Init == phase = "absent" /\ tries = 0

Arrive  == phase = "absent" /\ phase' = "off" /\ tries' = 0
Attach  == phase = "off" /\ phase' = "trying" /\ tries' = 0
Fail    == phase = "trying" /\ tries + 1 < MaxTries /\ tries' = tries + 1 /\ UNCHANGED phase
GiveUp  == phase = "trying" /\ tries + 1 = MaxTries /\ phase' = "standard" /\ tries' = 0
Boost   == phase = "trying" /\ phase' = "boosted" /\ tries' = 0
Detach  == phase \in {"trying", "boosted", "standard"} /\ phase' = "off" /\ tries' = 0
Leave   == phase # "absent" /\ phase' = "absent" /\ tries' = 0

Next == Arrive \/ Attach \/ Fail \/ GiveUp \/ Boost \/ Detach \/ Leave

\* An adapter under trial is not left there.
Spec == Init /\ [][Next]_vars /\ WF_vars(Fail \/ GiveUp \/ Boost)
==============================================================================
