------------------------------- MODULE FmSteps -------------------------------
(***************************************************************************)
(* The steps that the vendor FM driver's register sequences are made of,    *)
(* and the sequences its platform layer shares between chips.  The sources  *)
(* are under ports/TODO/fm-mt6631/source; FmChip runs the sequences.        *)
(*                                                                         *)
(* A sequence is a tuple of steps, and a step may fail.  Its field "skip"   *)
(* says how many of the steps after it the failure skips: 0 when nobody     *)
(* looks at the result, End when the function returns the error and Quiet   *)
(* when it returns as if nothing had happened.  Registers are named for     *)
(* what they hold; one that holds the same on every path is left out, and   *)
(* so are reads that decide nothing.                                        *)
(***************************************************************************)
EXTENDS Integers, Sequences

End   == 100
Quiet == 101

Set(skip, reg, val)  == [op |-> "set", skip |-> skip, reg |-> reg, val |-> val]

\* Polls until the hardware shows the value, for a bounded number of polls.
Wait(skip, reg, val) == [op |-> "wait", skip |-> skip, reg |-> reg, val |-> val]

\* fm_cmd_tx: a batch of settings that the chip's own controller carries out.
\* When it fails, any first part of the batch may have been carried out.
Batch(skip, batch) == [op |-> "batch", skip |-> skip, batch |-> batch]

\* The register 0x60 is read and kept, its bit 3 is cleared; and put back.
Save(skip) == [op |-> "save", skip |-> skip]
Back       == [op |-> "back", skip |-> 0]

\* The chip must answer, be the right one or take its patch.
Check(what) == [op |-> "check", skip |-> End, what |-> what]

\* cmd_buf_lock, which a signal interrupts.
Lock(skip) == [op |-> "check", skip |-> skip, what |-> "lock"]

Do(reg, val)  == Set(0, reg, val)
Try(reg, val) == Set(End, reg, val)
Write         == Try("data", "any")   \* a register that no property follows

Send(batch)  == Batch(End, batch)
Post(batch)  == Batch(0, batch)
Claim(batch) == Batch(Quiet, batch)

When(cond, steps) == IF cond THEN steps ELSE <<>>

\* A call whose caller ignores the result: its failures end the call alone.
Ignoring(steps) ==
  [i \in DOMAIN steps |->
     IF steps[i].skip >= End THEN [steps[i] EXCEPT !.skip = Len(steps) - i] ELSE steps[i]]

\* Who controls the RF registers, 0x60[3:0]: 7 is the host, F the chip's DSP.
Host == <<"rf", "host">>
Dsp  == <<"rf", "dsp">>
ToHost(skip) == Set(skip, "rf", "host")
ToDsp(skip)  == Set(skip, "rf", "dsp")

\* The interrupts of the FM core, inside (0x6A) and towards the host (0x6B).
Ints(val) == <<<<"int_main", val>>, <<"int_ext", val>>>>

-----------------------------------------------------------------------------
(* plat/legacy_wmt.c and plat/conn_infra.c: the clock of the SPI bus between *)
(* the two chips.  26 MHz is the crystal's; 64 MHz needs a PLL, and a         *)
(* multiplexer that lets it through.                                        *)

fm_drv_switch_clk_64m == <<Set(2, "mux", "on"), Wait(1, "mux", "on"), Do("spi", "64")>>
fm_drv_switch_clk_26m == <<Set(1, "spi", "26"), Do("mux", "off")>>

drv_spi_clock_switch == <<Do("spi", "26")>>

\* Nothing is done without the connectivity subsystem's own clock.
drv_spi_hopping ==
  <<Check("own"), Do("osc_en", "on"), Do("pll", "on"), Wait(1, "pll", "on"), Do("spi", "64")>>

\* fm_full_cqi_req: one frequency of a scan is measured.  soft_mute_tune returns
\* an interrupted lock as a truth value.
Measure == <<Lock(Quiet), Send(<<>>)>>

-----------------------------------------------------------------------------
(* core/fm_cmd.c: the DSP runs from ROM until it is patched.  The chip only  *)
(* answers from then on.                                                    *)
fm_download_patch(what) == <<Check(what)>>

RomVersion       == <<Check("rom")>>
DspDownload(rom) == rom \o fm_download_patch("patch") \o fm_download_patch("coefficient")
=============================================================================
