------------------------------ MODULE FmMt6631 ------------------------------
(***************************************************************************)
(* The register sequences of the MT6631 and of its two MT6635 successors,   *)
(* chips/mt6631/pub/mt6631_fm_lib.c, chips/mt6635/pub/mt6635_fm_lib.c and   *)
(* mt6635_2_fm_lib.c, one operator for each function.                       *)
(*                                                                         *)
(* c.hwid is the generation of the connectivity subsystem around the MT6631 *)
(* (get_hw_version), c.own whether the SoC has a clock switch of its own    *)
(* (projectid 0x8168).  hop: the frequency is one that the crystal's        *)
(* harmonics disturb, and wants the fast SPI clock.                         *)
(***************************************************************************)
EXTENDS FmSteps

Legacy      == 0   \* FM_CONNAC_LEGACY
Connac_1_0  == 1
Connac_1_2  == 2
Connac_1_5  == 3

-----------------------------------------------------------------------------
(* MT6631 *)

mt8168_spi_hopping_clock_switch(on) ==
  IF on THEN <<Do("top2", "on"), Do("pll", "on"), Wait(1, "pll", "on"), Do("mux", "on"),
               Wait(1, "mux", "on"), Do("spi", "64")>>
        ELSE <<Do("spi", "26"), Do("mux", "off"), Wait(1, "mux", "off"), Do("pll", "off"),
               Do("top2", "off")>>

\* Plausible bug: the PLL stops before the bus has left it.
PllStopsFirst(c) ==
  <<Do("pll", "off")>> \o fm_drv_switch_clk_26m \o When(c.hwid <= Connac_1_2, <<Do("top2", "off")>>)

mt6631_do_SPI_hopping_26M(c) ==
  fm_drv_switch_clk_26m \o <<Do("pll", "off")>> \o When(c.hwid <= Connac_1_2, <<Do("top2", "off")>>)

mt6631_do_SPI_hopping_64M(c) ==
  When(c.hwid <= Connac_1_2, <<Do("top2", "on")>>)
  \o <<Do("pll", "on"), Wait(3, "pll", "on")>> \o fm_drv_switch_clk_64m

SlowBus(c) == IF c.own THEN mt8168_spi_hopping_clock_switch(FALSE) ELSE mt6631_do_SPI_hopping_26M(c)
FastBus(c) == IF c.own THEN mt8168_spi_hopping_clock_switch(TRUE) ELSE mt6631_do_SPI_hopping_64M(c)

mt6631_rampdown_reg_op == <<<<"audio", "down">>>>

\* The ramp runs with the interrupts masked.  The first mask counts only for the
\* second: its failure alone is forgotten.
mt6631_Ramp(rampdown) ==
  <<ToHost(End), Write, ToDsp(End), Write, Write,
    Do("int_main", "off"), Try("int_ext", "off"),
    Send(rampdown), Try("int_ext", "on"), Try("int_main", "on")>>

\* Plausible bug: one of the two masks stays.
RampKeepsMask(c) == SlowBus(c) \o SubSeq(mt6631_Ramp(mt6631_rampdown_reg_op), 1, 9)

mt6631_RampDown(c) == SlowBus(c) \o mt6631_Ramp(mt6631_rampdown_reg_op)

mt6631_pwrup_clock_on_reg_op     == <<<<"clock", "on">>, Host>>
mt6631_pwrup_digital_init_reg_op == Ints("on") \o <<Dsp>>
mt6631_pwrup_fine_tune_reg_op    == <<Host, Dsp>>
mt6631_pwrdown_reg_op            == <<<<"i2s", "off">>, <<"rf", "none">>, <<"clock", "off">>>>

\* A ROM that never says it is ready is polled for ever; one that cannot be read
\* ends the download only when the lock was interrupted.
mt6631_pwrup_DSP_download == DspDownload(RomVersion)

\* chip id, patch, and the two batches that start the receiver
mt6631_Start(clock_on, download, init, fine) ==
  <<Send(clock_on), Check("chip")>> \o download \o <<Send(init), Send(fine)>>

mt6631_PowerUp(c) ==
  <<Try("cspi", "on")>>
  \o (CASE c.hwid = Connac_1_5 -> <<Try("adie", "on"), Do("crystal", "on")>>
        [] c.hwid \in {Connac_1_0, Connac_1_2} -> <<Do("adie", "on"), Do("crystal", "on")>>
        [] c.hwid = Legacy -> <<Do("adie", "on"), Do("crystal_old", "on")>>)
  \o <<Try("bgldo", "on")>>
  \o mt6631_Start(mt6631_pwrup_clock_on_reg_op, mt6631_pwrup_DSP_download,
                  mt6631_pwrup_digital_init_reg_op, mt6631_pwrup_fine_tune_reg_op)
  \o <<Do("i2s", "on"), Do("osc", "on"), Do("trigger", "on"), Do("memory", "on")>>

mt6631_PowerDown(c) ==
  <<Try("osc", "off"), Try("trigger", "off"), Try("memory", "off")>>
  \o mt6631_do_SPI_hopping_26M(c)
  \o (IF c.hwid \in {Connac_1_0, Connac_1_2} THEN <<Do("crystal", "off")>>
                                             ELSE <<Do("crystal_old", "off")>>)
  \o <<Send(mt6631_pwrdown_reg_op)>>

mt6631_tune_reg_op == <<<<"audio", "up">>>>

\* Whether the tuning itself succeeded is overwritten by the last hand-over to
\* the DSP.
mt6631_TuneTail(tune) == <<ToHost(0), ToDsp(0), Lock(End), Post(tune), ToHost(0), ToDsp(End)>>

mt6631_SetFreq(c, hop) ==
  <<ToHost(0), ToDsp(0), Write, Write>>
  \o When(hop, FastBus(c)) \o mt6631_TuneTail(mt6631_tune_reg_op)

mt6631_SetMonoStereo(c) == <<ToHost(0), ToDsp(0)>>
mt6631_GetCapArray(c)   == <<Save(0), Back>>

\* The audio paths are cut while the chip scans.
mt6631_pre_search(c)     == Ignoring(mt6631_RampDown(c)) \o <<Do("pad", "off"), Do("i2s", "off")>>
mt6631_restore_search(c) == Ignoring(mt6631_RampDown(c)) \o <<Do("i2s", "on"), Do("pad", "on")>>

\* One frequency of a scan; the bus is slowed down again by the next ramp.
mt6631_soft_mute_tune(c, hop) ==
  When(hop, FastBus(c)) \o Measure

-----------------------------------------------------------------------------
(* MT6635 *)

mt6635_do_SPI_hopping_26M == fm_drv_switch_clk_26m \o <<Do("pll", "off")>>
mt6635_do_SPI_hopping_64M == <<Do("pll", "on"), Wait(3, "pll", "on")>> \o fm_drv_switch_clk_64m

mt6635_rampdown_reg_op    == mt6631_rampdown_reg_op
mt6635_RampDown(c)        == mt6635_do_SPI_hopping_26M \o mt6631_Ramp(mt6635_rampdown_reg_op)

mt6635_pwrup_clock_on_reg_op       == <<<<"clock", "on">>, Host>>
mt6635_pwrup_digital_init_reg_op   == mt6631_pwrup_digital_init_reg_op
mt6635_pwrup_fine_tune_reg_op      == mt6631_pwrup_fine_tune_reg_op
mt6635_pwrdown_reg_op              == mt6631_pwrdown_reg_op
mt6635_tune_reg_op                 == mt6631_tune_reg_op
mt6635_set_freq_fine_tune_reg_op   == <<Host, Dsp>>
mt6635_pwrup_DSP_download          == DspDownload(RomVersion)

mt6635_PowerUp(c) ==
  <<Try("cspi", "on"), Try("adie", "on"), Do("crystal", "on"),
    Try("bandgap", "on"), Try("bandgap", "on"), Try("bgldo", "on")>>
  \o mt6631_Start(mt6635_pwrup_clock_on_reg_op, mt6635_pwrup_DSP_download,
                  mt6635_pwrup_digital_init_reg_op, mt6635_pwrup_fine_tune_reg_op)
  \o <<Do("i2s", "on"), Do("osc", "on"), Do("trigger", "on"), Do("memory", "on")>>

mt6635_PowerDown(c) ==
  <<Try("osc", "off"), Try("trigger", "off"), Try("memory", "off")>>
  \o mt6635_do_SPI_hopping_26M
  \o <<Do("crystal", "off"), Send(mt6635_pwrdown_reg_op), Try("bgldo", "off")>>

\* The fine tuning's failure is returned as a truth value: the tune succeeds.
mt6635_Retune(hop, fast, fine, tune) ==
  <<ToHost(0), Claim(fine), ToHost(0), ToDsp(0), Write, Write>>
  \o When(hop, fast) \o mt6631_TuneTail(tune)

mt6635_SetFreq(c, hop) ==
  mt6635_Retune(hop, mt6635_do_SPI_hopping_64M, mt6635_set_freq_fine_tune_reg_op, mt6635_tune_reg_op)
mt6635_SetMonoStereo(c)       == mt6631_SetMonoStereo(c)
mt6635_GetCapArray(c)         == mt6631_GetCapArray(c)
mt6635_pre_search(c)          == Ignoring(mt6635_RampDown(c)) \o <<Do("pad", "off"), Do("i2s", "off")>>
mt6635_restore_search(c)      == Ignoring(mt6635_RampDown(c)) \o <<Do("i2s", "on"), Do("pad", "on")>>
mt6635_soft_mute_tune(c, hop) ==
  When(hop, mt6635_do_SPI_hopping_64M) \o Measure

-----------------------------------------------------------------------------
(* MT6635 of the CONNAC 2 generation, mt6635_2_fm_lib.c: c2 in the names.    *)

c2_SlowBus == drv_spi_clock_switch \o <<Do("pll", "off"), Do("osc_en", "on")>>

c2_rampdown_reg_op             == mt6631_rampdown_reg_op
c2_RampDown(c)                 == c2_SlowBus \o mt6631_Ramp(c2_rampdown_reg_op)
c2_pwrup_clock_on_reg_op       == mt6635_pwrup_clock_on_reg_op
c2_pwrup_digital_init_reg_op   == mt6631_pwrup_digital_init_reg_op
c2_pwrup_fine_tune_reg_op      == mt6631_pwrup_fine_tune_reg_op
c2_pwrdown_reg_op              == mt6631_pwrdown_reg_op
c2_tune_reg_op                 == mt6631_tune_reg_op
c2_set_freq_fine_tune_reg_op   == mt6635_set_freq_fine_tune_reg_op
c2_pwrup_DSP_download          == DspDownload(RomVersion)

\* The subsystem is woken; that it never answers is only logged.
c2_PowerUp(c) ==
  <<Try("topawake", "on"), Check("awake"), Try("cspi", "on")>>
  \o mt6631_Start(c2_pwrup_clock_on_reg_op, c2_pwrup_DSP_download,
                  c2_pwrup_digital_init_reg_op, c2_pwrup_fine_tune_reg_op)
  \o <<Do("i2s", "on"), Do("osc", "on"), Do("trigger", "on"), Do("memory", "on")>>

c2_PowerDown(c) ==
  <<Try("osc", "off"), Try("trigger", "off"), Try("memory", "off")>> \o c2_SlowBus
  \o <<Send(c2_pwrdown_reg_op), Do("cspi", "off"), Do("topawake", "off")>>

c2_do_SPI_hopping         == Ignoring(drv_spi_hopping)
c2_SetFreq(c, hop) ==
  mt6635_Retune(hop, c2_do_SPI_hopping, c2_set_freq_fine_tune_reg_op, c2_tune_reg_op)
c2_SetMonoStereo(c)       == mt6631_SetMonoStereo(c)
c2_GetCapArray(c)         == mt6631_GetCapArray(c)
c2_pre_search(c)          == Ignoring(c2_RampDown(c)) \o <<Do("i2s", "off")>>
c2_restore_search(c)      == Ignoring(c2_RampDown(c)) \o <<Do("i2s", "on")>>
c2_soft_mute_tune(c, hop) == When(hop, c2_do_SPI_hopping) \o Measure
=============================================================================
