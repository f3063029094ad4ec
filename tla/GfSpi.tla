--------------------------------- MODULE GfSpi ---------------------------------
(* The fingerprint driver that goodix-fp-rmx3171.c was written after: gf_spi_tee.c *)
(* with gf_platform_mtk.c, the build for this chip, and gf_spi.c with              *)
(* gf_platform.c, the other one.  Two threads of the HAL are in ioctls at a time,   *)
(* which no lock keeps apart; what one of them does to a regulator is one step.     *)
(* A file may be opened twice; a HAL dies with all its files.                       *)
(*                                                                               *)
(* Interrupt and lines, and the events of the touch panel and the screen, share    *)
(* only the open file and the power: a behaviour has one of the two, its aspect.   *)
EXTENDS Naturals, FiniteSets

CONSTANTS MaxUsers, MaxDepth   \* bounds: open files, nested disables

VARIABLES
  build,         \* "mtk" or "qcom"
  cs_disable,    \* g_cs_gpio_disable, and whether gf_parse_dts can fail
  aspect,        \* "lines" or "events"
  bound,         \* is the device probed?
  device_list_lock,   \* held by a call that has returned?
  users,
  gpios, numbers,     \* the lines requested, and those whose number is valid
  irq,           \* is the interrupt requested?
  irq_enabled, depth, pc,
  device_available,
  vreg, ldo,     \* the regulator in the power list, and its use count
  left,          \* history: the uses left when the list was last cleared
  overlapped,    \* history: has a power call met another, since the last close?
  cs_gpio_set, fb_black,
  lasttouchmode, finger, pid, told,   \* told: the last touch message to the HAL
  extra,         \* history: was there a clean-up besides a release's?
  cleaned, overfreed

gf_vars ==
  <<build, cs_disable, aspect, bound, device_list_lock, users, gpios, numbers, irq, irq_enabled,
    depth, pc, device_available, vreg, ldo, left, overlapped, cs_gpio_set, fb_black, lasttouchmode,
    finger, pid, told, extra, cleaned, overfreed>>

world   == <<build, cs_disable, aspect>>
opened  == <<bound, device_list_lock, users>>
lines   == <<gpios, numbers, cs_gpio_set>>
irqs    == <<irq, irq_enabled, depth>>
power   == <<device_available, vreg, ldo, left, overlapped>>
events  == <<fb_black, lasttouchmode, finger, pid, told, cleaned>>
freed   == <<extra, overfreed>>

Threads == {"main", "worker"}

\* A static struct: the number of the CS line is 0 until it is parsed, which is a
\* valid number.
Init ==
  /\ build \in {"mtk", "qcom"} /\ cs_disable \in BOOLEAN /\ aspect \in {"lines", "events"}
  /\ build = "qcom" => ~cs_disable
  /\ bound = FALSE /\ device_list_lock = FALSE /\ users = 0
  /\ gpios = {} /\ numbers = IF build = "mtk" THEN {"cs"} ELSE {}
  /\ irq = FALSE /\ irq_enabled = FALSE /\ depth = 1 /\ pc = [t \in Threads |-> "idle"]
  /\ device_available = FALSE /\ vreg = FALSE /\ ldo = 0 /\ left = 0 /\ overlapped = FALSE
  /\ cs_gpio_set = FALSE /\ fb_black = FALSE
  /\ lasttouchmode = 0 /\ finger = 0 /\ pid = FALSE /\ told = 0
  /\ extra = FALSE /\ cleaned = FALSE /\ overfreed = {}

Idle == \A t \in Threads : pc[t] = "idle"

\* Is the thread within a call that switches the power?
Powering(t) == pc[t] \in {"power_on", "on", "power_off", "off"}

-----------------------------------------------------------------------------
(* The platform: gf_platform_mtk.c and gf_platform.c.                          *)

MtkLines == IF cs_disable THEN {"reset", "irq"} ELSE {"reset", "cs", "irq"}

\* The lines are requested one after the other, and kept when the next one fails.
gf_parse_dts_mtk(ok) ==
  /\ build = "mtk"
  /\ IF ok THEN gpios' = MtkLines
           ELSE gpios' \in {{}, {"reset"}, MtkLines \ {"irq"}, MtkLines}
  /\ numbers' = numbers \union gpios'
  /\ cs_gpio_set' = ("cs" \in gpios')

\* The reset line is given back when the interrupt's cannot be requested or the
\* power list cannot be read; the interrupt's is not.
gf_parse_dts_qcom(ok) ==
  /\ build = "qcom"
  /\ IF ok THEN gpios' = {"reset", "irq"} ELSE gpios' \in {{}, {"reset"}, {"irq"}}
  /\ numbers' = {"reset", "irq"}
  /\ UNCHANGED cs_gpio_set

gf_parse_dts(ok) == gf_parse_dts_mtk(ok) \/ gf_parse_dts_qcom(ok)

\* The regulators are forgotten, whether they are on or not; so does
\* gf_parse_pwr_list before it reads the list.
gf_cleanup_pwr_list == vreg' = FALSE /\ left' = ldo

\* gpio_free of every line with a valid number, requested or not.
gf_cleanup ==
  /\ gpios' = gpios \ numbers
  /\ overfreed' = overfreed \union (numbers \ gpios)
  /\ gf_cleanup_pwr_list

\* gf_power_on, with vreg_setup; that it fails is not looked at.
gf_power_on ==
  \/ "irq" \in gpios /\ vreg' = TRUE /\ ldo' = ldo + 1
  \/ vreg' = FALSE /\ UNCHANGED ldo

gf_power_off ==
  /\ vreg' = FALSE
  /\ ldo' = IF vreg /\ ldo > 0 THEN ldo - 1 ELSE ldo

\* The first reset hands the CS line to the SPI controller.
gf_hw_reset == cs_gpio_set' = FALSE

-----------------------------------------------------------------------------
(* Probe, remove, open and release.                                            *)

\* A failed probe cleans up, in the first build, what it has not set up.
ProbeFails_mtk ==
  /\ build = "mtk" /\ extra' = TRUE /\ UNCHANGED bound
  /\ gpios' = gpios \ {"cs"} /\ overfreed' = overfreed \union ({"cs"} \ gpios)
  /\ gf_cleanup_pwr_list

\* In the second it ends as it began, and so does the power in factory mode, which
\* is switched on and off again.
ProbeFails_qcom == build = "qcom" /\ UNCHANGED <<bound, freed, gpios, vreg, left>>

gf_probe ==
  /\ ~bound /\ ~device_list_lock
  /\ \/ bound' = TRUE /\ UNCHANGED <<freed, gpios, vreg, left>>
     \/ ProbeFails_mtk \/ ProbeFails_qcom
  /\ numbers' = numbers \ {"reset", "irq"}
  /\ device_available' = FALSE /\ fb_black' = FALSE
  /\ UNCHANGED <<world, device_list_lock, users, cs_gpio_set, irqs, pc, ldo, overlapped,
                 lasttouchmode, finger, pid, told, cleaned>>

irq_setup   == irq' = TRUE /\ irq_enabled' = TRUE /\ depth' = 0
irq_cleanup == irq' = FALSE /\ irq_enabled' = FALSE /\ depth' = 1

\* The first open sets the device up.
OpenFirst ==
  /\ users = 0 /\ users' = 1
  /\ gf_parse_dts(TRUE) /\ gf_cleanup_pwr_list /\ irq_setup
  /\ UNCHANGED <<device_list_lock, overfreed>>

\* A failed set-up leaves by a way that keeps the lock, and counts a user.
OpenFails ==
  /\ users = 0 /\ users' = 1 /\ device_list_lock' = TRUE
  /\ gf_parse_dts(FALSE) /\ UNCHANGED <<irqs, overfreed>>
  /\ gf_cleanup_pwr_list \/ UNCHANGED <<vreg, left>>

\* The interrupt cannot be requested: what was set up is cleaned up.
OpenWithoutIrq ==
  /\ users = 0 /\ users' = 1 /\ device_list_lock' = TRUE
  /\ gpios' = {} /\ numbers' = numbers \union MtkLines
  /\ cs_gpio_set' = (build = "mtk" /\ ~cs_disable)
  /\ overfreed' = overfreed \union (IF build = "mtk" THEN numbers \ MtkLines ELSE {})
  /\ gf_cleanup_pwr_list /\ UNCHANGED irqs

OpenAgain ==
  /\ users \in 1 .. MaxUsers - 1 /\ users' = users + 1
  /\ UNCHANGED <<device_list_lock, lines, irqs, vreg, left, overfreed>>

gf_open ==
  /\ bound /\ ~device_list_lock
  /\ OpenFirst \/ OpenFails \/ OpenWithoutIrq \/ OpenAgain
  /\ UNCHANGED <<world, bound, pc, device_available, ldo, overlapped, events, extra>>

LastUser == users = 1

\* A call keeps its file from being released.
gf_release ==
  /\ users > 0 /\ (LastUser => Idle) /\ ~device_list_lock
  /\ users' = users - 1
  /\ IF LastUser
     THEN /\ irq_cleanup /\ gf_cleanup /\ device_available' = FALSE /\ overlapped' = FALSE
          /\ pid' = FALSE /\ told' = 0
     ELSE UNCHANGED <<irqs, gpios, overfreed, device_available, vreg, left, overlapped, pid, told>>
  /\ UNCHANGED <<world, bound, device_list_lock, numbers, cs_gpio_set, pc, ldo, fb_black,
                 lasttouchmode, finger, cleaned, extra>>

\* The first build frees again what the last release has freed.
gf_remove_mtk  == build = "mtk" /\ gf_cleanup /\ extra' = TRUE
gf_remove_qcom == build = "qcom" /\ UNCHANGED <<gpios, freed, vreg, left>>

\* The driver is unbound while nobody has the device open.
gf_remove ==
  /\ bound /\ users = 0 /\ ~device_list_lock
  /\ bound' = FALSE
  /\ gf_remove_mtk \/ gf_remove_qcom
  /\ UNCHANGED <<world, device_list_lock, users, numbers, cs_gpio_set, irqs, pc,
                 device_available, ldo, overlapped, events>>

-----------------------------------------------------------------------------
(* gf_ioctl.                                                                   *)

\* A file is open, and the power is on or the call is about the power.
Called(t)    == users > 0 /\ ~device_list_lock /\ pc[t] = "idle"
Available(t) == Called(t) /\ device_available

\* gf_enable_irq and gf_disable_irq test the flag, and then change it and the
\* interrupt, each in its own order.
Step(t, from, to) ==
  /\ aspect = "lines" /\ pc[t] = from /\ pc' = [pc EXCEPT ![t] = to]
  /\ UNCHANGED <<world, opened, lines, irq, power, events, freed>>

InterruptOn == depth' = (IF depth > 0 THEN depth - 1 ELSE 0) /\ UNCHANGED irq_enabled
FlagOn      == irq_enabled' = TRUE /\ UNCHANGED depth

EnableChecks(t) ==
  /\ Available(t) /\ ~irq_enabled
  /\ Step(t, "idle", "enable") /\ UNCHANGED <<irq_enabled, depth>>

gf_enable_irq(t) ==
  \/ Step(t, "enable", "enabled") /\ InterruptOn
  \/ Step(t, "enabled", "idle") /\ FlagOn

DisableChecks(t) ==
  /\ Available(t) /\ irq_enabled /\ depth < MaxDepth
  /\ Step(t, "idle", "disable") /\ UNCHANGED <<irq_enabled, depth>>

gf_disable_irq(t) ==
  \/ Step(t, "disable", "disabled") /\ irq_enabled' = FALSE /\ UNCHANGED depth
  \/ Step(t, "disabled", "idle") /\ depth' = depth + 1 /\ UNCHANGED irq_enabled

\* GF_IOC_ENABLE_POWER and GF_IOC_DISABLE_POWER look whether the sensor is available,
\* switch the regulator, which takes some ten milliseconds, and then set the flag.
PowerStep(t, from, to) ==
  /\ pc[t] = from /\ pc' = [pc EXCEPT ![t] = to]
  /\ UNCHANGED <<world, opened, lines, irqs, left, events, freed>>

MeetsAnother(t) == overlapped' = (overlapped \/ \E u \in Threads \ {t} : Powering(u))

EnablePower(t) ==
  \/ /\ Called(t) /\ MeetsAnother(t)
     /\ PowerStep(t, "idle", IF device_available THEN "on" ELSE "power_on")
     /\ UNCHANGED <<device_available, vreg, ldo>>
  \/ /\ PowerStep(t, "power_on", "on") /\ ldo < MaxDepth /\ gf_power_on
     /\ UNCHANGED <<device_available, overlapped>>
  \/ /\ PowerStep(t, "on", "idle") /\ device_available' = TRUE
     /\ UNCHANGED <<vreg, ldo, overlapped>>

\* Plausible bug: the power stays on for the next HAL.
KeepsPower == UNCHANGED <<vreg, ldo>>

PowerGoes == gf_power_off

DisablePower(t) ==
  \/ /\ Called(t) /\ MeetsAnother(t)
     /\ PowerStep(t, "idle", IF device_available THEN "power_off" ELSE "off")
     /\ UNCHANGED <<device_available, vreg, ldo>>
  \/ /\ PowerStep(t, "power_off", "off") /\ PowerGoes
     /\ UNCHANGED <<device_available, overlapped>>
  \/ /\ PowerStep(t, "off", "idle") /\ device_available' = FALSE
     /\ UNCHANGED <<vreg, ldo, overlapped>>

Reset(t) ==
  /\ Available(t) /\ gf_hw_reset
  /\ UNCHANGED <<world, opened, gpios, numbers, irqs, pc, power, events, freed>>

\* GF_IOC_REMOVE, after which the release cleans up once more.
Remove(t) ==
  /\ aspect = "lines" /\ Available(t) /\ MeetsAnother(t)
  /\ irq_cleanup /\ gf_cleanup /\ extra' = TRUE
  /\ UNCHANGED <<world, opened, numbers, cs_gpio_set, pc, device_available, ldo, events>>

CleanTouchFlag(t) ==
  /\ aspect = "events" /\ Available(t)
  /\ lasttouchmode' = 0 /\ cleaned' = TRUE
  /\ UNCHANGED <<world, opened, lines, irqs, pc, power, fb_black, finger, pid, told, freed>>

\* Two threads meet in the first aspect; the events are no matter of threads.
Callers == IF aspect = "lines" THEN Threads ELSE {"main"}

gf_ioctl == \E t \in Callers :
  \/ EnableChecks(t) \/ gf_enable_irq(t) \/ DisableChecks(t) \/ gf_disable_irq(t)
  \/ EnablePower(t) \/ DisablePower(t) \/ Reset(t) \/ Remove(t) \/ CleanTouchFlag(t)

-----------------------------------------------------------------------------
(* Events.                                                                     *)

\* The HAL's first message gives its pid; it takes no finger to be there.
nl_data_ready ==
  /\ aspect = "events" /\ users > 0 /\ ~pid
  /\ pid' = TRUE /\ told' = 0 /\ cleaned' = (finger # 0)
  /\ UNCHANGED <<world, opened, lines, irqs, pc, power, fb_black, lasttouchmode, finger, freed>>

\* Plausible bug: only a touch is remembered.
RemembersDown(s) == IF s = 1 THEN 1 ELSE lasttouchmode

Remembered(s) == s

\* The touch panel's driver reports a finger, or its absence, again and again.
gf_opticalfp_irq_handler(s) ==
  /\ aspect = "events" /\ finger' = s
  /\ IF s = lasttouchmode
     THEN UNCHANGED <<lasttouchmode, told, cleaned>>
     ELSE /\ lasttouchmode' = Remembered(s)
          /\ told' = IF pid THEN s ELSE told
          /\ cleaned' = (cleaned /\ ~pid)
  /\ UNCHANGED <<world, opened, lines, irqs, pc, power, fb_black, pid, freed>>

goodix_fb_state_chg_callback(black) ==
  /\ aspect = "events" /\ device_available /\ fb_black' = black
  /\ UNCHANGED <<world, opened, lines, irqs, pc, power, lasttouchmode, finger, pid, told, cleaned, freed>>

Next ==
  \/ gf_probe \/ gf_remove \/ gf_open \/ gf_release \/ gf_ioctl
  \/ nl_data_ready
  \/ \E s \in 0 .. 1 : gf_opticalfp_irq_handler(s)
  \/ \E black \in BOOLEAN : goodix_fb_state_chg_callback(black)

Spec == Init /\ [][Next]_gf_vars

-----------------------------------------------------------------------------

\* Whatever two threads do at once, the interrupt is disabled when its flag says so:
\* enabling sets the flag last and disabling clears it first.  (The other way round it
\* may go wrong: two calls at once leave the flag set and the interrupt disabled.)
OffIsSilent == irq /\ Idle /\ ~irq_enabled => depth > 0

\* The last of several users frees the lines, and frees what was requested: on a
\* board with a CS line, and as long as only gf_release cleans up.
LinesFreedOnce == extra \/ cs_disable \/ overfreed = {}

\* A device that is marked unavailable, with no thread at its power, has the uses of
\* the regulator that the HALs before left behind, and not one of this HAL's: gf_release
\* clears the list and leaves on what is on, and what is on then stays on.  (Two power
\* calls at once may leave it powered or the next HAL unpowered: from there to the last
\* close nothing is said.)
OffIsUnpowered ==
  (\A t \in Threads : ~Powering(t)) /\ ~device_available /\ ~overlapped => ldo = left

\* What the driver marks as off, is off, and what it gave back it had.
OffIsOff == OffIsSilent /\ OffIsUnpowered /\ LinesFreedOnce

\* A HAL that has not cleared the touch flag, and was there when the finger came,
\* was told whether there is one.
TouchIsTold == pid /\ ~cleaned => told = finger

\* Why they hold.  Between the flag and the interrupt is always a thread that has done
\* one and not yet the other; as long as power calls come one by one, the list has the
\* regulator when its use is counted, and then the flag is set or about to be; only the
\* first open requests lines, and only the last release, or
\* an extra clean-up, gives them back; and the flag differs from the finger only after
\* it was cleaned.
IrqOnItsWay ==
  irq /\ ~irq_enabled => depth > 0 \/ \E t \in Threads : pc[t] \in {"enabled", "disabled"}

PowerInTurn ==
  /\ \A t, u \in Threads : Powering(t) /\ Powering(u) => t = u
  /\ ldo = left + (IF vreg THEN 1 ELSE 0)
  /\ vreg => device_available \/ \E t \in Threads : pc[t] = "on"
  /\ \A t \in Threads :
       /\ pc[t] \in {"power_on", "off"} => ~vreg
       /\ pc[t] = "power_on" => ~device_available

PowerCounted ==
  /\ ~bound => users = 0
  /\ users = 0 => ~vreg /\ ~device_available
  /\ users = 0 => Idle /\ ~overlapped
  /\ overlapped \/ PowerInTurn

NumbersAreLines ==
  /\ numbers \subseteq {"reset", "cs", "irq"}
  /\ extra \/ cs_disable \/ users = 0 \/ device_list_lock \/ numbers \subseteq gpios

FlagIsFinger ==
  /\ lasttouchmode \in {0, finger}
  /\ ~cleaned => lasttouchmode = finger

Types ==
  /\ users \in Nat /\ ldo \in Nat /\ left \in Nat /\ depth \in Nat
  /\ pc \in [Threads -> {"idle", "enable", "enabled", "disable", "disabled",
                          "power_on", "on", "power_off", "off"}]

IInv ==
  /\ Types /\ IrqOnItsWay /\ PowerCounted /\ NumbersAreLines /\ LinesFreedOnce
  /\ FlagIsFinger /\ TouchIsTold
=============================================================================
