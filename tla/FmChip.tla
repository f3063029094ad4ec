-------------------------------- MODULE FmChip --------------------------------
(***************************************************************************)
(* A receiver chip under the vendor FM driver: core/fm_main.c calls the     *)
(* chip library's functions one at a time (fm_ops_lock), each runs its      *)
(* sequence of FmMt6631, FmMt6627 or FmMt6630 step by step, and any step     *)
(* may fail: the connectivity chip's bus loses a write, a batch gets no      *)
(* answer, a poll gives up.                                                 *)
(***************************************************************************)
EXTENDS FmMt6631, FmMt6627, FmMt6630

CONSTANTS Chips,    \* the chips of one run, as records (see Chip)
          MaxFails  \* bound: failing steps in one behaviour

Chip(name, hwid, own, mt6625, i2s) ==
  [name |-> name, hwid |-> hwid, own |-> own, mt6625 |-> mt6625, i2s |-> i2s]

VARIABLES
  chip,
  regs,    \* register -> what it holds
  kept,    \* GetCapArray's copy of 0x60
  power,   \* fm_pwr_state: "off", "rx" or "tx"
  chipon,  \* fm->chipon: the radio's subsystem has power
  call,    \* the function that runs or ran last
  hop,     \* and whether its frequency hops
  pc,      \* the step it is at; 0: nothing runs
  clean,   \* no step of it has failed
  lost,    \* a write to the bus clock was lost and not repeated since
  fails

vars == <<chip, regs, kept, power, chipon, call, hop, pc, clean, lost, fails>>

\* Registers of the FM core: they are gone when the subsystem loses power.
Inside  == {"rf", "int_main", "int_ext", "audio", "i2s", "i2s_hop", "clock"}
\* Registers of the SoC and of the subsystem around the core.
Outside == {"spi", "mux", "pll", "top2", "osc_en", "cspi", "adie", "crystal", "crystal_old",
            "bandgap", "bgldo", "osc", "trigger", "memory", "topawake", "pad", "pad_sel", "xtal",
            "fmbuf", "topoff", "paldo", "ldo", "topclock", "pmic"}
           \union {Tldo[i] : i \in DOMAIN Tldo}

Reset == [r \in Inside \union Outside |->
            CASE r = "rf" -> "none" [] r = "spi" -> "26" [] OTHER -> "off"]

Is(names) == chip.name \in names

-----------------------------------------------------------------------------
(* fm_low_ops: what each name is on each chip.                              *)

PowerUp ==
  CASE Is({"mt6631"}) -> mt6631_PowerUp(chip) [] Is({"mt6635"}) -> mt6635_PowerUp(chip)
    [] Is({"mt6635_2"}) -> c2_PowerUp(chip)   [] Is({"mt6627"}) -> mt6627_PowerUp(chip)
    [] Is({"mt6580"}) -> mt6580_PowerUp(chip) [] Is({"mt6630"}) -> mt6630_PowerUp(chip)
    [] Is({"mt6632"}) -> mt6632_PowerUp(chip)

PowerDown ==
  CASE Is({"mt6631"}) -> mt6631_PowerDown(chip) [] Is({"mt6635"}) -> mt6635_PowerDown(chip)
    [] Is({"mt6635_2"}) -> c2_PowerDown(chip)   [] Is({"mt6627"}) -> mt6627_PowerDown(chip)
    [] Is({"mt6580"}) -> mt6580_PowerDown(chip) [] Is({"mt6630"}) -> mt6630_PowerDown(chip)
    [] Is({"mt6632"}) -> mt6632_PowerDown(chip)

RampDown ==
  CASE Is({"mt6631"}) -> mt6631_RampDown(chip) [] Is({"mt6635"}) -> mt6635_RampDown(chip)
    [] Is({"mt6635_2"}) -> c2_RampDown(chip)   [] Is({"mt6627"}) -> mt6627_RampDown(chip)
    [] Is({"mt6580"}) -> mt6580_RampDown(chip) [] Is({"mt6630"}) -> mt6630_RampDown(chip)
    [] Is({"mt6632"}) -> mt6632_RampDown(chip)

SetFreq(h) ==
  CASE Is({"mt6631"}) -> mt6631_SetFreq(chip, h) [] Is({"mt6635"}) -> mt6635_SetFreq(chip, h)
    [] Is({"mt6635_2"}) -> c2_SetFreq(chip, h)   [] Is({"mt6627"}) -> mt6627_SetFreq(chip, h)
    [] Is({"mt6580"}) -> mt6580_SetFreq(chip, h) [] Is({"mt6630"}) -> mt6630_SetFreq(chip, h)
    [] Is({"mt6632"}) -> mt6632_SetFreq(chip, h)

soft_mute_tune(h) ==
  CASE Is({"mt6631"}) -> mt6631_soft_mute_tune(chip, h) [] Is({"mt6635"}) -> mt6635_soft_mute_tune(chip, h)
    [] Is({"mt6635_2"}) -> c2_soft_mute_tune(chip, h)   [] Is({"mt6627"}) -> mt6627_soft_mute_tune(chip, h)
    [] Is({"mt6580"}) -> mt6580_soft_mute_tune(chip, h) [] Is({"mt6630"}) -> mt6630_soft_mute_tune(chip, h)
    [] Is({"mt6632"}) -> mt6632_soft_mute_tune(chip, h)

pre_search ==
  CASE Is({"mt6631"}) -> mt6631_pre_search(chip) [] Is({"mt6635"}) -> mt6635_pre_search(chip)
    [] Is({"mt6635_2"}) -> c2_pre_search(chip)   [] Is({"mt6627"}) -> mt6627_pre_search(chip)
    [] Is({"mt6580"}) -> mt6580_pre_search(chip) [] Is({"mt6630"}) -> mt6630_pre_search(chip)
    [] Is({"mt6632"}) -> mt6632_pre_search(chip)

restore_search ==
  CASE Is({"mt6631"}) -> mt6631_restore_search(chip) [] Is({"mt6635"}) -> mt6635_restore_search(chip)
    [] Is({"mt6635_2"}) -> c2_restore_search(chip)   [] Is({"mt6627"}) -> mt6627_restore_search(chip)
    [] Is({"mt6580"}) -> mt6580_restore_search(chip) [] Is({"mt6630"}) -> mt6630_restore_search(chip)
    [] Is({"mt6632"}) -> mt6632_restore_search(chip)

\* The two that some chips lack are empty there.
SetMonoStereo ==
  CASE Is({"mt6631"}) -> mt6631_SetMonoStereo(chip) [] Is({"mt6635"}) -> mt6635_SetMonoStereo(chip)
    [] Is({"mt6635_2"}) -> c2_SetMonoStereo(chip)   [] Is({"mt6627"}) -> mt6627_SetMonoStereo(chip)
    [] Is({"mt6580"}) -> <<>>                       [] Is({"mt6630"}) -> mt6630_SetMonoStereo(chip)
    [] Is({"mt6632"}) -> mt6632_SetMonoStereo(chip)

GetCapArray ==
  CASE Is({"mt6631"}) -> mt6631_GetCapArray(chip) [] Is({"mt6635"}) -> mt6635_GetCapArray(chip)
    [] Is({"mt6635_2"}) -> c2_GetCapArray(chip)   [] Is({"mt6627"}) -> <<>>
    [] Is({"mt6580"}) -> mt6580_GetCapArray(chip) [] Is({"mt6630"}) -> mt6630_GetCapArray(chip)
    [] Is({"mt6632"}) -> mt6632_GetCapArray(chip)

\* fm_tune ramps down first, and only then tunes.
fm_tune(h) == RampDown \o SetFreq(h)

Steps(f, h) ==
  CASE f = "PowerUp" -> PowerUp               [] f = "PowerDown" -> PowerDown
    [] f = "tune" -> fm_tune(h)               [] f = "soft_mute_tune" -> soft_mute_tune(h)
    [] f = "pre_search" -> pre_search         [] f = "restore_search" -> restore_search
    [] f = "SetMonoStereo" -> SetMonoStereo   [] f = "GetCapArray" -> GetCapArray
    [] f = "FMOverBT" -> (IF Is({"mt6630"}) THEN MT6630_FMOverBT(chip) ELSE MT6632_FMOverBT(chip))
    [] f = "PowerUpTx" -> mt6630_PowerUpTx(chip) [] f = "PowerDownTx" -> mt6630_PowerDownTx(chip)
    [] f = "SetFreq_Tx" -> MT6630_SetFreq_Tx(chip)
    [] f = "soft_mute_tune_Tx" -> mt6630_soft_mute_tune_Tx(chip)
    [] f = "Rds_Tx" -> MT6630_lib_Rds_Tx_adapter

\* What fm_main calls in each of its power states.
Callable ==
  CASE power = "off" -> {"PowerUp"} \union (IF Is({"mt6630"}) THEN {"PowerUpTx"} ELSE {})
    [] power = "rx"  -> {"tune", "soft_mute_tune", "pre_search", "restore_search", "SetMonoStereo",
                         "GetCapArray", "PowerDown"}
                        \union (IF Is({"mt6630", "mt6632"}) THEN {"FMOverBT"} ELSE {})
    [] power = "tx"  -> {"SetFreq_Tx", "soft_mute_tune_Tx", "Rds_Tx", "PowerDownTx"}

-----------------------------------------------------------------------------
Init ==
  /\ chip \in Chips
  /\ regs = Reset /\ kept = "none"
  /\ power = "off" /\ chipon = FALSE
  /\ call = "none" /\ hop = FALSE /\ pc = 0
  /\ clean = TRUE /\ lost = FALSE /\ fails = 0

\* A function is called; fm_powerup and fm_powerup_tx first give the subsystem
\* its power.
Call ==
  /\ pc = 0
  /\ \E f \in Callable, h \in BOOLEAN :
       /\ h => f \in {"tune", "soft_mute_tune"}
       /\ call' = f /\ hop' = h
       /\ Steps(f, h) # <<>>
       /\ chipon' = (chipon \/ f \in {"PowerUp", "PowerUpTx"})
  /\ pc' = 1 /\ clean' = TRUE
  /\ UNCHANGED <<chip, regs, kept, power, lost, fails>>

Step == Steps(call, hop)[pc]
Last == Len(Steps(call, hop))

\* pwroff: fm_powerdown, once the radio is off.
PwrOff ==
  /\ pc = 0 /\ power = "off" /\ chipon
  /\ chipon' = FALSE
  /\ regs' = [r \in DOMAIN regs |-> IF r \in Inside THEN Reset[r] ELSE regs[r]]
  /\ UNCHANGED <<chip, kept, power, call, hop, pc, clean, lost, fails>>

\* fm_powerup and pwrdown_flow: a radio that does not start is off, and so is one
\* that does not stop.
PowerAfter(ok) ==
  CASE call = "PowerUp"   -> (IF ok THEN "rx" ELSE "off")
    [] call = "PowerUpTx" -> (IF ok THEN "tx" ELSE "off")
    [] call \in {"PowerDown", "PowerDownTx"} -> "off"
    [] OTHER -> power

\* The function goes on at step n, or is over.
Goto(n, ok) ==
  /\ pc' = IF n > Last THEN 0 ELSE n
  /\ power' = IF n > Last THEN PowerAfter(ok) ELSE power

BusClock == {"spi", "mux", "pll"}

\* Every function that sets the bus clock anew sets all of it.
Repairs == call \in {"tune", "PowerDown", "pre_search", "restore_search"}

Applied(batch, n) ==
  [r \in DOMAIN regs |->
     LET is == {i \in 1..n : batch[i][1] = r}
     IN  IF is = {} THEN regs[r] ELSE batch[CHOOSE i \in is : \A j \in is : j <= i][2]]

\* 0x60 without bit 3
Taken(v) == IF v = "dsp" THEN "host" ELSE v

Done ==
  /\ pc > 0
  /\ CASE Step.op = "set"   -> regs' = IF Step.reg \in DOMAIN regs
                                       THEN [regs EXCEPT ![Step.reg] = Step.val] ELSE regs
       [] Step.op = "batch" -> regs' = Applied(Step.batch, Len(Step.batch))
       [] Step.op = "save"  -> regs' = [regs EXCEPT !.rf = Taken(regs.rf)]
       [] Step.op = "back"  -> regs' = [regs EXCEPT !.rf = kept]
       [] Step.op = "wait"  -> regs[Step.reg] = Step.val /\ UNCHANGED regs
       [] Step.op = "check" -> UNCHANGED regs
  /\ kept' = IF Step.op = "save" THEN regs.rf ELSE kept
  /\ Goto(pc + 1, TRUE)
  /\ lost' = (lost /\ ~(pc = Last /\ clean /\ Repairs))
  /\ UNCHANGED <<chip, chipon, call, hop, clean, fails>>

Skip == Goto(IF Step.skip >= End THEN Last + 1 ELSE pc + 1 + Step.skip, Step.skip # End)

\* A poll that is not answered because the write before it was lost costs nothing.
Fail ==
  /\ pc > 0
  /\ IF Step.op = "wait" /\ regs[Step.reg] # Step.val
     THEN fails' = fails
     ELSE fails < MaxFails /\ fails' = fails + 1
  /\ \/ Step.op = "batch" /\ \E n \in 0 .. Len(Step.batch) : regs' = Applied(Step.batch, n)
     \/ Step.op = "save" /\ regs' = [regs EXCEPT !.rf = "none"]
     \/ Step.op \in {"set", "back", "wait", "check"} /\ UNCHANGED regs
  /\ kept' = IF Step.op = "save" THEN "none" ELSE kept
  /\ Skip
  /\ clean' = FALSE
  /\ lost' = (lost \/ (Step.op = "set" /\ Step.reg \in BusClock))
  /\ UNCHANGED <<chip, chipon, call, hop>>

Next == Call \/ Done \/ Fail \/ PwrOff

Spec == Init /\ [][Next]_vars

-----------------------------------------------------------------------------
Over(f) == pc = 0 /\ call = f /\ clean

\* The interrupts the chip library uses, and the switches that follow the frequency.
Used    == IF Is({"mt6630", "mt6632"}) THEN {"int_ext"} ELSE {"int_main", "int_ext"}
Hopping == Is({"mt6631", "mt6635", "mt6635_2"})

\* Whatever failed before, wherever a scan, a setting or a batch was cut off, one
\* fm_tune in which nothing fails brings the radio back: the DSP has its
\* registers, the interrupts are unmasked, the audio is up, and bus and audio
\* clock are those of the frequency.
TuneRecovers ==
  Over("tune") =>
    /\ regs.rf = "dsp" /\ regs.audio = "up"
    /\ \A r \in Used : regs[r] = "on"
    /\ regs.spi = (IF Hopping /\ hop THEN "64" ELSE "26")
    /\ regs.i2s_hop = (IF chip.mt6625 /\ hop THEN "on" ELSE "off")

\* The bus between the chips never runs on a clock that is not there: not while
\* it is switched, not when a poll gives up half way, in no order of tunes, scans
\* and power-downs, as long as no write to its clock was lost.
FastBusOnPll ==
  regs.spi = "64" /\ ~lost =>
    regs.pll = "on" /\ (Is({"mt6635_2"}) \/ regs.mux = "on")

\* What a library never gives back.
Leftover ==
  CASE Is({"mt6631"})   -> {"cspi", "adie", "bgldo", "pad"}
                           \union (IF chip.hwid = Connac_1_5 THEN {"crystal"} ELSE {})
    [] Is({"mt6635"})   -> {"cspi", "adie", "bandgap", "pad"}
    [] Is({"mt6635_2"}) -> {"osc_en"}
    [] Is({"mt6627"})   -> {"cspi", "adie", "pad_sel", "bgldo"}
    [] Is({"mt6580"})   -> {"pad"}
    [] Is({"mt6630"})   -> {"bandgap"}
    [] Is({"mt6632"})   -> {"bandgap", "pmic"}

\* A power-down in which nothing fails returns every resource of the SoC but
\* those, also the ones that an earlier power-up took and, failing, kept.
PowerDownReleases ==
  Over("PowerDown") => \A r \in Outside \ Leftover : regs[r] = Reset[r]

\* A call in which nothing fails makes good what failed before.
CallsRecover == TuneRecovers /\ PowerDownReleases
=============================================================================
