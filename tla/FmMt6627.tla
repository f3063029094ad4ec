------------------------------ MODULE FmMt6627 ------------------------------
(***************************************************************************)
(* The register sequences of the MT6627 and the MT6625, which share         *)
(* chips/mt6627/pub/mt6627_fm_lib.c (c.mt6625: MT6625_FM is defined), and   *)
(* of the MT6580, chips/soc/pub/soc_fm_lib.c.                               *)
(*                                                                         *)
(* On the MT6627 the register that says who controls the RF registers is a  *)
(* top register, 0x50; GetCapArray, which hands 0x60 over, changes nothing  *)
(* there, and neither does the MT6580's SetMonoStereo, which writes 0x50.   *)
(***************************************************************************)
EXTENDS FmSteps

mt6627_rampdown_reg_op == <<<<"audio", "down">>>>

mt6627_RampDown(c) ==
  <<ToHost(End), Write, ToDsp(End), Try("int_main", "off"), Try("int_ext", "off"),
    Send(mt6627_rampdown_reg_op), Try("int_ext", "on"), Try("int_main", "on")>>

mt6627_pwrup_clock_on_reg_op     == <<<<"clock", "on">>, Host>>
mt6627_pwrup_digital_init_reg_op == Ints("on") \o <<Dsp>>
mt6627_pwrup_fine_tune_reg_op    == <<Host, Dsp>>
mt6627_pwrdown_reg_op            == <<<<"i2s", "off">>, <<"rf", "none">>, <<"clock", "off">>>>
mt6627_pwrup_DSP_download        == DspDownload(RomVersion)

mt6627_PowerUp(c) ==
  <<Try("cspi", "on")>>
  \o When(c.mt6625, <<Try("adie", "on"), Try("xtal", "on"), Try("pad_sel", "on"), Try("bgldo", "on")>>)
  \o <<Send(mt6627_pwrup_clock_on_reg_op), Check("chip")>> \o mt6627_pwrup_DSP_download
  \o <<Send(mt6627_pwrup_digital_init_reg_op), Send(mt6627_pwrup_fine_tune_reg_op),
       Do("i2s", "on"), Do("pad", "on")>>

mt6627_PowerDown(c) ==
  <<Do("pad", "off"), Send(mt6627_pwrdown_reg_op), Do("int_ext", "off")>>
  \o When(c.mt6625, <<Try("xtal", "off")>>)

mt6627_tune_reg_op == <<<<"audio", "up">>>>

\* mt6627_I2S_hopping_check: on a few frequencies the audio bus runs at another
\* rate, at both of its ends.
I2sHopping(hop) ==
  IF hop THEN <<Do("i2s_hop", "on"), Do("pad", "hop")>>
         ELSE <<Do("i2s_hop", "off"), Do("pad", "on")>>

mt6627_SetFreq(c, hop) ==
  <<ToHost(0), ToDsp(0), Write, Write, Do("i2s", "on"), Do("pad", "on")>>
  \o When(c.mt6625, I2sHopping(hop))
  \o <<Send(mt6627_tune_reg_op)>>

mt6627_SetMonoStereo(c)       == <<ToHost(0), ToDsp(0)>>
mt6627_pre_search(c)          == Ignoring(mt6627_RampDown(c)) \o <<Do("pad", "off"), Do("i2s", "off")>>
mt6627_restore_search(c)      == Ignoring(mt6627_RampDown(c)) \o <<Do("i2s", "on"), Do("pad", "on")>>
mt6627_soft_mute_tune(c, hop) == Measure

-----------------------------------------------------------------------------
(* MT6580: the radio is part of the SoC, and nine bits of the SoC's clock and *)
(* power registers are its supply.                                          *)

Tldo == <<"mcupll_0", "mcupll_6", "mcupll_16", "mcupll_22",
          "rf_cg_16", "rf_cg_15", "rf_cg_14", "rf_cg_7", "rf_cg_6">>
TldoDown == <<4, 3, 2, 1, 5, 6, 7, 8, 9>>

mt6580_enable_pmic_tldo  == [i \in 1..9 |-> Try(Tldo[i], "on")]
mt6580_disable_pmic_tldo == [i \in 1..9 |-> Try(Tldo[TldoDown[i]], "off")]

mt6580_rampdown_reg_op == <<<<"audio", "down">>>>
mt6580_RampDown(c)     == <<ToHost(End), ToDsp(End), Send(mt6580_rampdown_reg_op)>>

mt6580_pwrup_clock_on_reg_op     == <<<<"clock", "on">>, Host>>
mt6580_pwrup_digital_init_reg_op == Ints("on") \o <<Dsp, Host, Dsp>>
mt6580_pwrdown_reg_op            == <<<<"i2s", "off">>, <<"rf", "none">>, <<"clock", "off">>>>
mt6580_pwrup_DSP_download        == DspDownload(RomVersion)

\* Whether the supplies came up is not asked.
mt6580_PowerUp(c) ==
  Ignoring(mt6580_enable_pmic_tldo)
  \o <<Send(mt6580_pwrup_clock_on_reg_op), Check("chip")>> \o mt6580_pwrup_DSP_download
  \o <<Send(mt6580_pwrup_digital_init_reg_op), Do("i2s", "on")>>

mt6580_PowerDown(c) == <<Send(mt6580_pwrdown_reg_op)>> \o Ignoring(mt6580_disable_pmic_tldo)

mt6580_tune_reg_op == <<<<"audio", "up">>>>

mt6580_SetFreq(c, hop) ==
  <<ToHost(0), Do("int_main", "on"), Do("int_ext", "on"), ToDsp(0), Write, Write,
    Send(mt6580_tune_reg_op)>>

mt6580_GetCapArray(c)         == <<Save(0), Back>>
mt6580_pre_search(c)          == Ignoring(mt6580_RampDown(c)) \o <<Do("pad", "off"), Do("i2s", "off")>>
mt6580_restore_search(c)      == Ignoring(mt6580_RampDown(c)) \o <<Do("i2s", "on"), Do("pad", "on")>>
mt6580_soft_mute_tune(c, hop) == <<ToHost(0), ToDsp(0)>> \o Measure
=============================================================================
