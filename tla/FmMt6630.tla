------------------------------ MODULE FmMt6630 ------------------------------
(***************************************************************************)
(* The register sequences of the MT6630 and of the MT6632,                   *)
(* chips/mt6630/pub/mt6630_fm_lib.c and chips/mt6632/pub/mt6632_fm_lib.c.   *)
(* The MT6630 also transmits.  c.i2s: the audio path is one of the two that  *)
(* the chip's I2S port serves.                                              *)
(***************************************************************************)
EXTENDS FmSteps

mt6630_rampdown_reg_op == <<<<"audio", "down">>>>

mt6630_RampDown(c) ==
  <<Try("int_ext", "off"), Send(mt6630_rampdown_reg_op), Try("int_ext", "on")>>

mt6630_pwrup_clock_on_reg_op     == <<<<"clock", "on">>, Host>>
mt6630_pwrup_digital_init_reg_op == <<<<"int_ext", "on">>, Dsp>>
mt6630_pwrdown_reg_op            == <<<<"rf", "none">>, <<"clock", "off">>>>
mt6630_tune_reg_op               == <<<<"audio", "up">>>>
mt6630_get_rom_version           == RomVersion
mt6630_pwrup_DSP_download        == DspDownload(mt6630_get_rom_version)

\* The supplies, in the order the chip wants them; one of the two bits of the
\* bandgap is never given back.
mt6630_pwrup_top_setting ==
  <<Try("fmbuf", "on"), Try("xtal", "on"), Try("topoff", "on"), Try("paldo", "on"),
    Try("bandgap", "on"), Try("ldo", "on"), Try("topclock", "on")>>

mt6630_pwrdown_top_setting ==
  <<Try("topclock", "off"), Try("ldo", "off"), Try("bandgap", "half"),
    Try("fmbuf", "off"), Try("xtal", "off"), Try("topoff", "off"), Try("paldo", "off")>>

\* The host keeps the RF registers when it fails half way, and FMOverBT calls
\* that a success.
mt6630_I2s_Setting == <<ToHost(End), Write, Write, Try("i2s", "on"), Write, ToDsp(End)>>
MT6630_FMOverBT(c) == Ignoring(mt6630_I2s_Setting)

mt6630_PowerUp(c) ==
  mt6630_pwrup_top_setting \o <<Send(mt6630_pwrup_clock_on_reg_op), Check("chip")>>
  \o mt6630_pwrup_DSP_download \o When(c.i2s, Ignoring(mt6630_I2s_Setting))
  \o <<Send(mt6630_pwrup_digital_init_reg_op)>>

mt6630_PowerDown(c) == <<Send(mt6630_pwrdown_reg_op)>> \o mt6630_pwrdown_top_setting

mt6630_SetFreq(c, hop)        == <<ToHost(0), ToDsp(0), Send(mt6630_tune_reg_op)>>
mt6630_SetMonoStereo(c)       == <<Do("rf", "host_mono")>>
mt6630_GetCapArray(c)         == <<Save(0), Back>>
mt6630_pre_search(c)          == Ignoring(mt6630_RampDown(c))
mt6630_restore_search(c)      == Ignoring(mt6630_RampDown(c))
mt6630_soft_mute_tune(c, hop) == Measure

-----------------------------------------------------------------------------
(* MT6630 transmitting.  SetFreq_Tx polls the DSP for ever, and returns its   *)
(* errors as truth values.                                                  *)

mt6630_pwrup_clock_on_tx_reg_op == <<<<"clock", "on">>, Host>>
mt6630_tx_rdson_deviation_reg_op == <<Host, Dsp>>
mt6630_tune_tx_reg_op           == <<<<"audio", "up">>>>

mt6630_PowerUpTx(c) ==
  mt6630_pwrup_top_setting \o <<Send(mt6630_pwrup_clock_on_tx_reg_op)>>
  \o mt6630_pwrup_DSP_download \o When(c.i2s, Ignoring(mt6630_I2s_Setting))
  \o <<Send(mt6630_pwrup_digital_init_reg_op), Send(mt6630_tx_rdson_deviation_reg_op)>>

mt6630_PowerDownTx(c) == mt6630_PowerDown(c)

\* Every failure ends it, and none is reported.
Claimed(steps) ==
  [i \in DOMAIN steps |-> IF steps[i].skip = End THEN [steps[i] EXCEPT !.skip = Quiet] ELSE steps[i]]

MT6630_SetFreq_Tx(c) ==
  Claimed(<<Send(mt6630_tx_rdson_deviation_reg_op)>> \o mt6630_RampDown(c)
          \o <<Write, Send(mt6630_tune_tx_reg_op)>>)

mt6630_soft_mute_tune_Tx(c) == <<ToHost(0), ToDsp(0)>> \o Measure
MT6630_lib_Rds_Tx_adapter   == <<Lock(End), Send(<<>>)>>

-----------------------------------------------------------------------------
(* MT6632: a receiver only, fed by a power management chip.                  *)

mt6632_rampdown_reg_op           == mt6630_rampdown_reg_op
mt6632_RampDown(c) ==
  <<Try("int_ext", "off"), Send(mt6632_rampdown_reg_op), Try("int_ext", "on")>>
mt6632_pwrup_clock_on_reg_op     == <<<<"clock", "on">>, Host>>
mt6632_pwrup_digital_init_reg_op == <<<<"int_ext", "on">>, Dsp>>
mt6632_pwrdown_reg_op            == <<<<"rf", "none">>, <<"clock", "off">>>>
mt6632_tune_reg_op               == <<<<"audio", "up">>>>
mt6632_get_rom_version           == RomVersion
mt6632_pwrup_DSP_download        == DspDownload(mt6632_get_rom_version)

\* mt6632_pmic_mod, twice; nothing gives it back.
mt6632_pmic_ctrl            == <<Try("pmic", "on"), Try("pmic", "on")>>
mt6632_pwrup_top_setting    == <<Try("bandgap", "on"), Try("ldo", "on"), Try("topclock", "on")>>
mt6632_pwrdown_top_setting  == <<Try("topclock", "off"), Try("ldo", "off"), Try("bandgap", "half")>>

mt6632_I2s_Setting == <<ToHost(End), Write, Write, Try("i2s", "on"), ToDsp(End)>>
MT6632_FMOverBT(c) == Ignoring(mt6632_I2s_Setting)

mt6632_PowerUp(c) ==
  mt6632_pmic_ctrl \o mt6632_pwrup_top_setting
  \o <<Send(mt6632_pwrup_clock_on_reg_op), Check("chip")>> \o mt6632_pwrup_DSP_download
  \o When(c.i2s, Ignoring(mt6632_I2s_Setting))
  \o <<Send(mt6632_pwrup_digital_init_reg_op), ToHost(0), ToDsp(0)>>

mt6632_PowerDown(c) == <<Send(mt6632_pwrdown_reg_op)>> \o mt6632_pwrdown_top_setting

mt6632_SetFreq(c, hop)        == <<ToHost(0), ToDsp(0), Send(mt6632_tune_reg_op)>>
mt6632_SetMonoStereo(c)       == <<Do("rf", "host_mono")>>
mt6632_GetCapArray(c)         == <<Save(0), Back>>
mt6632_pre_search(c)          == Ignoring(mt6632_RampDown(c))
mt6632_restore_search(c)      == Ignoring(mt6632_RampDown(c))
mt6632_soft_mute_tune(c, hop) == Measure
=============================================================================
