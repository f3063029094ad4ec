# A TLA+ model of the AETHER RMX3171 drivers and HALs

AETHER is a kernel overlay and a device tree for the Realme Narzo 30A
(RMX3171).  Most of the repository configures, patches or stages code that is
maintained elsewhere.  What it owns are a handful of Linux drivers under
`aether-rmx3171/ports/` and a few HALs and services under
`device/realme/RMX3171/`; what it keeps beside them, under
`aether-rmx3171/ports/TODO/`, are the vendor's drivers that the ports are written
after.  The first are small and live between parties they do not control: a
power-supply core that coalesces notifications, a vendor service that dies, a
regulator that cannot be disabled.  The second are large, have threads, locks and
timers of their own, and are what a port has to keep or to replace.  The models
are about what happens in between.

All line numbers below are in `src/`; `ports/` stands for
`aether-rmx3171/ports/`, `TODO/` for `aether-rmx3171/ports/TODO/`, `device/` for
`device/realme/RMX3171/`.

## Contents

1. [The parts of the system](#1-the-parts-of-the-system)
2. [How the modules correspond to the code](#2-how-the-modules-correspond-to-the-code)
3. [What the runs check](#3-what-the-runs-check)
4. [Bounds](#4-bounds)
5. [Fairness](#5-fairness)
6. [What is proved](#6-what-is-proved)
7. [Where the code and its documents disagree](#7-where-the-code-and-its-documents-disagree)
8. [What is not modelled](#8-what-is-not-modelled)
9. [Plan](#9-plan)
10. [Running it](#10-running-it)

## 1. The parts of the system

The ports do not call each other.  Each driver hangs on a kernel core
(power supply, DRM, input, netlink and IRQ, misc device) and each HAL between
the framework and a vendor service or a kernel file; the device tree gives the
drivers their data.  The interactions worth modelling are therefore inside each
part, between its callbacks, its work items and the core that runs them.

| part | state it keeps | operations | what is hard about it | what makes it correct |
|---|---|---|---|---|
| MT6370 Pump Express+ (`ports/power/mt6370-pe-rmx3171.c`) | `state`, `retry_count`, `ac_present`, a delayed work item, a mutex | negotiation work, power-supply notifier, probe, remove | a worker that sleeps holding the mutex, coalesced notifications, cancel against a started item, the order of remove, a half-sent pulse pattern | the state field tells the truth; no negotiation is stranded, no unplug lost; every adapter gets at most three tries and a verdict |
| simple gauge (`ports/power/aether-simple-gauge.c`) | last SOC, voltage and temperature, profile tables, a delayed work item | poll, get_property, parse_profile, probe, remove | tables of unexpected shape and unit, interpolation at the ends, readers that see the cache between two stores, a work item that queues itself | the values shown belong together; the SOC is near the tables and moves with the voltage; polling goes on, and stops with remove |
| ImsInit (`device/ImsInit`) | last service state, first-boot flag, the VoLTE setting it borrows | boot receiver, onStartCommand, service-state callback, toggle thread | sticky restarts, death between off and on, one state delivered twice | one toggle per coming into service; the user's setting comes back |
| fingerprint HAL adapter (`device/fingerprint`) | client callback, cancel and enumerate flags, known fingers | requests of the framework, one-way callbacks of the vendor | callbacks that arrive after the call that caused them; a dead vendor | every cancel is answered to the client that asked; the list is one state of the templates; a restarted vendor is found again |
| ILT9881H panel (`ports/panel`) | `prepared`, two rails, the reset line | prepare, unprepare, probe, remove | unwinding when any of some fifty steps fails; disables that fail | rails balanced and in order; a prepared panel was initialised, out of reset |
| Goodix fingerprint (`ports/misc`) | netlink socket and peer, `irq_enabled`, the device node | open, ioctl, release, netlink receive, interrupt, probe, remove | a peer that died, several threads, teardown against a live interrupt | flag and disable depth agree; events go to the living HAL; every call returns |
| NT36525B touch (`ports/input`) | supplies, `suspended`, slots | interrupt thread, suspend, resume, probe, remove | lost reads, fingers that move meanwhile, fingers the chip leaves out, ids without a slot | what is reported is what is on the glass; no supply leaks |
| FM radio (`ports/connectivity`) | powered, frequency, volume, mute | open, release, ioctl, probe, remove | several openers of one radio; 32-bit arithmetic on a caller's numbers | powered only while in use; a seek stays in its band |
| SIA81xx amplifier (`ports/audio`) | register cache, enable line | component probe and remove, DAPM events, mute | a cache that outlives the chip's power, two owners of one bit | cache and chip agree when sound plays (not modelled; the vendor's driver is) |
| lights HAL (`device/lights`) | backlight file | set, get, getSupportedTypes | a conversion under one mutex | brightness bounded and monotone (not modelled) |
| device tree and battery tables (`dts`) | data | | units, shapes, polarities the drivers rely on | (taken into `MCGauge` and `Panel`) |

The vendor's drivers are of several parts each, and those do call each other.

| part (under `TODO/`) | state it keeps | operations | what is hard about it | what makes it correct |
|---|---|---|---|---|
| FM radio, chip libraries (`fm-mt6631/source/chips`) | the chip's registers, power state | power up and down, tune, ramp, scan brackets, settings | thirty to sixty register accesses, each of which may fail; two clocks for one bus; eight chips | after any failure the next tune or power-down brings the chip back; the fast bus only on the PLL |
| FM radio, locks and work (`core/fm_main.c`, `core/fm_module.c`) | six semaphores, power and reset state, work queues | every ioctl, the driver's two threads, subsystem and whole-chip reset | functions that call functions that take locks; locks a signal interrupts | every call returns; one function at a time inside the ops lock |
| FM radio, RDS parser (`core/fm_rds_parser.c`) | what was received once, what is shown | one handler per kind of group, the clearing at a retune | groups lost, damaged, wrong, or of the station before | name, text and list are those of one station, each whole |
| FM radio, RDS delivery (`core/fm_main.c`, `*_fm_rds.c`) | the data, its event word, the reader's event | parser, timer, `fm_rds_read`, the RDS switch | the flag and the event change under different locks or none | no change stays unread and unannounced |
| FM radio, firmware link (`core/fm_link.c`, `core/fm_cmd.c`) | a flag word, one shared result | send a command and wait, parse what comes | answers after the time limit, packets cut by a buffer, a flag word changed by load and store | a caller gets the answer to its own command |
| FM radio, setup (`core`, `plat`) | everything probe and load allocate | load, probe, unbind, unload | some fifty steps, undone by hand | what is made is undone once, and nothing unmade is |
| fuel gauge GM 3.0 (`gm30-battery`) | two lists of charge distances, one of timers, armed sources, cycle count, the broken flag | interrupts, netlink commands, suspend and resume, two service threads | callbacks with the lock dropped, a daemon that dies, clocks that stop in suspend, a counter that is reset | nobody who waits is forgotten; counts and temperature are those of the battery |
| power gates (`clk-mt6768/clk-mt6768-pg.c`) | power, isolation, reset, bus fence, SRAM and clock of each domain | enable and disable of thirteen domains, pg_prepare, pg_unprepare | an order of some twenty writes per domain, clocks that fail, waits without limit | no open fence to a dead domain; what is in use is reachable; no wait for good |
| SIA81xx driver (`sia81xx-audio`) | two amplifiers' power and registers, a timer task, mailbox units, a busy flag | resume, suspend, settings, timer start and stop, mailbox and AFE commands | two chips with one bus address, a thread that is not waited for, answers after a timeout | each amplifier has its own settings; answers meet their own commands |
| Goodix driver (`goodix-fingerprint/source-goodix`) | open files, lines, interrupt, power flags, touch and screen state | probe, remove, open, release, ioctls, touch and screen events | HALs that die with the sensor on, steps of probe undone by hand | a sensor called off is off; the HAL is told what the finger does |

The hard-to-test behaviours, each at its line with the properties that watch
it, are the `hazards` of `PROJECT.json`.

## 2. How the modules correspond to the code

One module per part, parameterised by constants; a `Proofs` module holds
theorems.  At the end of a part's module, after the properties, stands what its
proof needs beside them (`IInv` and its conjuncts).  Operators named as a
*plausible bug* are variants of the definition after them: `PROJECT.json` pairs each
with the property that must notice it, and maps every definition to its source lines.

An `MC` module gives constants values a .cfg file cannot spell.  Four of them put
several parts side by side: `MCBattery` (`Gauge`, `CoulombService`,
`TimerService`, `Gm30`, `Thermistor`, `CycleCount`, `NafgMonitor`), `MCDevices`
(`Panel`, `TouchPanel`, `GoodixFp`, `GfSpi`, `FingerprintHal`, `FmSetup`), `MCSoc`
(`PowerGates`, `SiaAmp`, `SiaTimer`, `SiaMailbox`, `SiaAfe`) and `MCFm`
(`FmRadio`, `FmChip`, `FmMain`, `FmRds`, `FmRdsUser`, `FmLink`).  The parts share
no state there, so a behaviour follows one of them, its `subject`, and the others
stay in one initial state: the states of a run are the sum of the parts', not the
product.  `BatteryProofs`, `DevicesProofs`, `SetupProofs`, `SocProofs` and `FmProofs` prove
about these compositions, so their theorems are about the very formulas that the runs check.

### PumpExpress, ChargeSession: the charger helper

`state`, `retry_count` and `ac_present` are the fields of `struct mt6370_pe`.
`work` is the delayed work item (not pending, timer armed, queued), `wpc` and
`pulse` are where `pe_negotiate_work` is, `npc` and `ac_now` where
`pe_psy_notify` is.  The mutex is the predicate `LockHeld`: the worker holds it
from the first pulse to the verdict, the notifier only within one step.  The
notifier is two steps because it reads ONLINE (line 190) before it takes the
mutex.  Each `pe_set_charger_voltage` is an action, since the worker sleeps
after it; each may fail into `Retry`, the label `retry`.  `RemoveBegins`,
`RemoveCancelled` and `RemoveUnregisters` are the two synchronous calls of
`mt6370_pe_remove`: drop a pending item, wait for a running one, and only then
unregister the notifier.  A plug accepted in between is the history variable
`latePlug`.

External: the workqueue's rules (an item is pending once; `..._sync` defeats
requeueing while it waits), the change flag of the power supply (several changes
may become one notification), the charger's programmed voltage and an adapter
that switches to 9 V when it has seen all the pulses since it was attached.
Delays are not compared: any armed timer may fire at any time.

`ChargeSession` is what a user is promised, without threads: an adapter
attached is tried at most `MaxTries` times, ends boosted or standard, and stays
there until it leaves.  `PumpExpress` implements it under `phaseBar`/`triesBar`,
which forget everything but the verdict.

### Gauge: the simple fuel gauge

Its first half is `parse_profile` (with its fallbacks) and `compute_soc`, on
tables as functions from rows to the voltage column; C's truncating division is
`CDiv`.  `RowsReached` and `WithinThree` are an independent reference: count the
rows reached, weigh the two tables by temperature, allow three points.
The second half is the poll in four steps (voltage, temperature, conversion, re-arm), so
a reader may see the cache between any two stores; `registered` is whether the
charger's supply exists yet (probe order is not fixed), `tz` whether the thermal
zone was found.

### ImsInit

Everything except the sleeping toggle threads runs on the process's main
thread, so a handler is one step: `handleServiceStateChanged` is
`SkipFirstBoot` (which returns before recording the state, line 28), `Toggle`
(off, and a thread) or `JustRecord`; `onStartCommand` handles the current state
and registers a listener that delivers it again.  `ProcessDies`, `Reboot` and
`StickyRestart` are Android.  A world says whether a toggle may be interrupted
and whether the user changes the setting during one.

### FingerprintHal

The adapter serves the framework on top of the vendor's service.  `main`
configures one binder thread (`ThreadFree`); a request is a begin and a return
with the thread busy in between, so one-way callbacks (`inbox`) are handled only
afterwards.  The flags `receivedCancel` and `receivedEnumerate` and the list
`knownFingers` are the statics of the same names.  `Aborts` is what the code
does when the vendor is dead: the transport error of the `Return<>` is not
looked at before its value is converted, and libhidl aborts the process; init
restarts it, and the constructor looks for the vendor again.  That abort is the
adapter's only recovery: the mutant that returns the error instead never finds
the vendor again.

### Panel

`pc` walks through `ilt9881h_prepare`, its three error labels, and
`ilt9881h_unprepare`; `vsp` and `vsn` are the regulator core's use counts, and
`reset` is the value last given to gpiod, `Pin` the level the device tree makes
of it.  A disable may fail unnoticed and a prepared panel may be removed; both
leave an enable nobody will undo, counted in `lostVsp`, `lostVsn`.

### GoodixFp

Two threads of one HAL process call every ioctl; `Exclusive` entry is
`p->lock`.  Commands that sleep or change the interrupt are several steps:
`RESET` in its two halves, `ENABLE_IRQ`/`DISABLE_IRQ` before and after the flag.
`nl_pid` is the id of a thread, as `current->pid` is; the socket's port is that of the
process's first thread (`Port`), so an event may address nobody, or, as 0, the
driver itself (`HandlerHearsItself`, which is `gf_netlink_recv` on its own event).
The interrupt thread reads `nl_pid` twice without the lock (lines 109 and
further).  Probe makes the node visible before it sets `g_priv`, so an early
open gets NULL and its first ioctl kills the caller (`EnterNull`).  Remove is
its three stages, the managed interrupt freed last.

### TouchPanel

Probe with two optional supplies and its error labels, suspend and resume
(which only switch the interrupt), remove, and the interrupt thread: read, then
report.  `LastSlot`, `Landing`, `Touched` are the input core's slots: a finger id
beyond the last slot is reported in the slot of the frame before it, and slots
no frame mentions are released (`INPUT_MT_DROP_UNUSED`).  The chip may show a
lifted finger once or leave it out.

### FmRadio

Every ioctl and close runs under one mutex and is one step.  `StepFrom` is
`fm_chip_seek` in modular arithmetic.  The chip below it is a stub in the source.

### GfSpi: the Goodix driver the port was written after

Both builds of the vendor's driver: `gf_spi_tee.c` with `gf_platform_mtk.c`, and
`gf_spi.c` with `gf_platform.c` (`build`).  Unlike the port it has no lock around
its ioctls, so for two threads `gf_enable_irq` and `gf_disable_irq` are a check and
two stores each, and ENABLE_POWER and DISABLE_POWER the test of `device_available`,
the power and the flag.  `gpios` are the lines requested and `numbers` those whose
number counts as valid, which is what `gf_cleanup` goes by; `vreg` is the
regulator's place in the power list, `ldo` its use count.  A behaviour is about
lines and interrupt or about touch and screen events (`aspect`), because the two
share only the open file and the power.

### The vendor's FM driver

`FmSteps` is the language of the register sequences: a step, what it sets, and
how much of its function a failure skips.  `FmMt6631` (with MT6635), `FmMt6627`
(with the SoC's own MT6580) and `FmMt6630` (with MT6632) write the sequences of
the chip libraries down in it; `FmChip` runs them one function at a time, any step
failing, and knows what a register, clock or supply does (`regs`).

`FmMain` is every function of `fm_main.c` that takes a lock inside or around another,
as the tuple of what it takes, gives, tests and calls.  Six locks: `fm_ops_lock`,
`fm_rxtx_lock`, `fm_rds_cnt_lock`, `fm_read_lock`, `fm_rtc_lock` and the bus's
`own_lock` (`conn_infra.c`), which every call of the chip needs and the interrupt's
thread holds from end to end.  Threads are callers, the timer's worker and the
interrupt's; what a thread still has to do is `rest[t]`, what it has taken
`holds[t]`.  Semaphores have no owner: `up` by anyone adds one.  `Fault` is a signal
that ends `down_interruptible` or a chip call that fails; the step's `alt` is where
the code goes then.

`FmRds` is the parser group by group: names (type 0A/0B), text (2A/2B),
frequencies (method A and B), the other network's, flags.  A station repeats its
item; `Lose`, `Fail` and `ReceiveWrong` are the air.  A list has a filler in its last
pair when its count is even, which the code stores and sorts like a frequency.
`FmTune` clears and `Tuned`
is when the chip has left the old station; in between late groups come
(`station.mixed`).  `FmClock` is the date of group 4A beside a calendar.

`FmRdsUser` starts where the parser has found something: `parser` and `reader[r]`
are where each is between its lock and its event, `ctl` is what an RDS switch or a
tune still has to do, and `OnOff` is the switch of each library with the accesses
that may fail.  `FmLink` is one command at a time: `cmd` the caller, `wire` what
the firmware has answered, `state` where the parser was when a buffer ended,
`raising` the worker between load and store of the flag word.  A payload that the
end of a buffer cuts is stored in part (`CutPayload`), or not at all while its flag is
raised all the same (`DropPayload`).

`FmSetup` is loading, probing, unbinding and unloading as the sequence of its
steps (`todo`), for every chip library and both platforms (`build`).  `live` is
what exists, `held` the pointers, `ref` the count that decides who frees the
environment.  `Fails` is a step that fails, `Way` where the code goes then.
`ResetEnds` is the whole-chip reset callback at any moment, `WorkRuns` the work
that it queues.

### The vendor's fuel gauge

`CoulombService` and `TimerService`: a list is a set of users with what each waits
for, and its head any nearest one; a section under the lock is a step, except that
callbacks run with the lock dropped.  The chip compares its counter with
thresholds (`ht`, `lt`); the hrtimer counts the seconds awake (`left`), the end
times those since boot (`now`).  `pm` is the cycle of `gtimer_pm_event`: a suspend, a
hibernation or the restoring of an image (`hibernating`), which all cancel the
hrtimer and of which a hibernation alone starts it no more.

`Gm30` is the core's interrupt sources: a handler disarms its source and sends the
daemon a notice, and the daemon arms it again.  The temperature's handler arms its
own (`check`, which depends on `fixed`), and runs from the file
`Battery_Temperature` too (the thread `sysfs`).  `followed` are the sources that a
behaviour looks at.  The daemon is external and may die with notices in its
socket.  `NafgMonitor` and `CycleCount` are the two pieces of bookkeeping that run
in several threads, step by step; `Thermistor` is the conversion from a voltage to
a temperature, in whole numbers, against a thermistor that follows the table.

### PowerGates

`clk-mt6768-pg.c` is one function per domain and direction, each a list of
register writes and busy waits.  The model writes each list down (`ctrl_pwr`,
`ctrl_bus_prot`) and runs it a step at a time; `con[d]` are the bits that are 1 in
the domain's control register, `prot` the bus fence bits that are set.  `Answered`
says what the hardware acknowledges.  The clock framework calls one at a time
(`job`); `Init` are the states that the initialisation of the driver leaves.

The invariant at the end of the module says what the registers are at rest and what
the rest of a running sequence still brings; it takes the place of the state before
each write, of which there are hundreds.

### SiaAmp, SiaTimer, SiaMailbox, SiaAfe

`SiaAmp` turns a call into the list of hardware steps it still has to make
(`todo[c]`); `AddressOf` says who answers on the bus, which is where the two
SIA8101 meet.  `SiaTimer` is the polling thread and the voltage sampler on it:
starting makes a thread, stopping clears a flag, so threads can overlap.  In
`SiaMailbox` kernel users and the threads of daemons share a unit (`unit[u]`), and
only what the users store and copy is under its lock: PICK_CMD is four steps
(`picked[d]`: looked at the state, checked the kind, copied, set idle), an answer two,
a read's test one and its copy another.  `req[k].fate` is what became of a request.
In `SiaAfe` one busy flag stands for the command in flight.  Both have answers that
come after the one who asked has given up.

## 3. What the runs check

| run | module, cfg | checks | result |
|---|---|---|---|
| `pe_all` | `MCPumpExpress`, `PumpExpress_all.cfg` | `NoStrandedNegotiation`, `SettledIsTrue` (`NoLostUnplug`, `VerdictIsTrue`), `PeAdapterIsBoosted`, `SessionSpec` (refinement) | holds, 52 049 states |
| `pe_boot` | `MCPumpExpress`, `PumpExpress_boot.cfg` | `SettledAgrees` | violated: ONLINE is not sampled at probe |
| `battery` | `MCBattery`, `Battery.cfg` | `AccurateWithinThree`, `NoPollAfterRemove`; `HeadsAreWatched`, `FirstIsArmed`, `NoSourceIsForgotten`, `ReadingIsRight`, `CycleIsDischarged`, `BlamedWhenStill` | holds, 2.96 million states |
| `gauge_stock` | `MCGauge`, `Gauge_stock.cfg` | `AccurateWithinThree` with the device tree's own tables of three columns | violated: units |
| `ims_all` | `ImsInit`, `ImsInit_all.cfg` | `ChoiceRestored`, `OneTogglePerService`, `TogglesAreDone` (`LaterBootsToggle`, `OffIsTemporary`) | holds, 7 696 states |
| `ims_crash` | `ImsInit`, `ImsInit_crash.cfg` | `OffAndBackOn` when a toggle may be interrupted | violated |
| `devices` | `MCDevices`, `Devices.cfg` | `RailsBalanced`; `TouchesMatch`; `IrqBalanced`, `ReportsToCurrentHal`, `CallsReturn`; `ToldIsTrue` (`CancelAnswered`, `ListConsistent`, `KnownIsCurrent`), `ComesBack`; `OffIsOff` (`OffIsSilent`, `OffIsUnpowered`, `LinesFreedOnce`), `TouchIsTold`; `SetupIsUndone` | holds, 506 047 states |
| `panel_reset` | `Panel`, `Panel_reset.cfg` | `OutOfReset` with the device tree's polarity | violated |
| `fm` | `MCFm`, `Fm.cfg` | `SeekStaysInBand`; `CallsRecover` (`TuneRecovers`, `PowerDownReleases`), `FastBusOnPll`; `EveryCallReturns`; `ShownIsWhole` (`NameIsWhole`, `TextIsWhole`), `ListIsStations`; `NoUpdateIsMissed`; `OwnAnswer` | holds, 1.05 million states |
| `fm_lock` | `FmMain`, `FmMain_lock.cfg` | `OneCallInside` | violated: a lock released that was not taken |
| `fm_clock` | `FmClock`, `FmClock_date.cfg` | `NewDateIsRight` | violated: 32 February 2022 |
| `soc` | `MCSoc`, `Soc.cfg` | `OffIsFenced`, `InUseIsReachable`, `WaitsCanEnd`; `AmpsAreTwo` (`PowerFollows`, `OwnSettings`), `VoltageIsFresh`, `CommandsMeet` (`WriteWasTaken`, `ReplyIsForParam`), `NoCrossedAnswers` | holds, 765 649 states |

Deadlock is checked only where the code cannot stop (`ims_all`, `ims_crash`,
`gauge_stock`, `panel_reset`, `fm_lock`).  The others say
`CHECK_DEADLOCK FALSE`: drivers may be removed for good, a bounded number of calls
or faults is used up, or a service thread sleeps until somebody comes.

Some of what the passing properties say deserves a word:

* `VerdictIsTrue` and `PeAdapterIsBoosted` hold in an *ideal* world only, in
  which no charger call fails and each unplug is noticed before the next plug.
  Outside it they are false, and nothing in the repository promises them: a
  replug seen as no change leaves RUNNING to an adapter at 5 V (line 203), and a
  failed write in the last try leaves FAILED with the charger at 7 V (line 95).
  The rest of `pe_all` holds in every world.
* `NoLostUnplug` needs ONLINE to be readable: a notifier whose read fails
  (line 190) drops the notification, and nothing repeats it.
* `CancelAnswered` counts the adapter's own `ERROR_CANCELED` as the answer.  The
  vendor's may follow as a second one, because the only thread is inside
  `cancel()` when it arrives (line 208).
* `TouchesMatch` is about ids with a slot; others are reported in a
  neighbour's slot (line 144).
* `LaterBootsToggle` excludes a boot taken for the first one: if the first
  service state of a first boot arrives twice, which `listen` sees to, the early
  return leaves the second to toggle.
* `HeadsAreWatched` allows the distance by which the counter moved while the
  handler ran: it writes what it worked out from the counter it read first.
* `FirstIsArmed` excepts what `gtimer_resume` puts off, which reads the list and
  starts the hrtimer without the lock; and what a hibernation leaves: its preparation
  cancels the hrtimer and `PM_POST_HIBERNATION` starts nothing, so timers wait until one
  is started, the thread looks at the list, or another suspend is over.
* `NoSourceIsForgotten` excepts the zero-current source, whose handler disarms after
  it has told, and the temperature once a value was written to `Battery_Temperature`:
  its interrupt is off from then on, with no way back.
* `AccurateWithinThree` in `gauge_stock` is about 3.85 and 4.1 V at 25 and 37.7
  degrees, between the stock tables of three columns; the others (10 and 0 degrees,
  four columns) are replaced by a straight line in millivolts and show nothing.
* `BlamedWhenStill` excepts a monitor thread that gets to its look between the
  hrtimer's wake-up and `battery_resume`: the boot clock counts the time asleep.
* `CycleIsDischarged` is about calls that do not overlap: nothing locks them, and
  two at once may count a charge twice.
* `ReadingIsRight` is about the value that the conversion finds, before
  `force_get_tbat_internal` replaces it by 25 degrees.
* `ReportsToCurrentHal` says when events arrive, and that includes when they do not:
  after an INIT from any thread but the first the driver addresses a port nobody has.
  It excepts an event that met an EXIT, which goes to port 0, comes back to the driver
  and stores 0 over a registration made meanwhile.
* `OffIsUnpowered` excepts the power that `gf_cleanup_pwr_list` forgets: a HAL
  that dies with the sensor on leaves the regulator on, and the HALs after it have that
  use too many.  From two power calls at a time to the last close it says nothing:
  both see the sensor off, both power it, and one DISABLE_POWER leaves it on.
  `LinesFreedOnce` is about `gf_release`; a failed probe, `GF_IOC_REMOVE` and
  `gf_remove` free lines again.
* `SetupIsUndone` names what the code is known to leave (`DeviceLeftover`,
  `EnvLeftover`), and says there is nothing else.
* `FastBusOnPll` assumes that no write to the bus clock itself was lost; the
  library cannot know that it was.
* `ShownIsWhole` and `ListIsStations` exclude groups of the old station that come
  after a retune has cleared the data: those do mix.  `ListIsStations` says nothing of
  the second frequency of an even count's last place, which is not copied.
* `OwnAnswer` names the four ways in which an answer is not one's own.
* `EveryCallReturns` excepts a function that a fault made leave with the lock.  It says
  that no set of threads waits only for one another; that each call then returns
  follows because no function loops for good and a semaphore serves its waiters in
  turn.
* `CommandsMeet` names two ways in which a write is lost and still reports success
  (something else came into its unit while it waited; the unit was set idle by a
  PICK_CMD or a read that began before), and one in which a read takes what is no
  answer (another user's command between its test and its copy).
* `OffIsFenced` excepts `md1` before its first prepare, which the initialisation
  powers down without a fence; `WaitsCanEnd` a pre-clock that failed, with which
  `pg_prepare` goes on.
* `AmpsAreTwo` speaks of moments between calls; calls that overlap may leave both
  amplifiers wrong until each is turned off by a call of its own.

## 4. Bounds

| bound | value | why it is enough |
|---|---|---|
| `PulseCount`, `RetryMax` | 5, 3 | the code's own |
| `Worlds` (PumpExpress) | everything fails and cables are fast; ONLINE is readable; ideal | the first has every behaviour of the code; the other two are subsets for properties that need them |
| `Rows` (Gauge) | 100 | the code's own |
| `MCVoltages`, `MCTemperatures` | 5 and 6 values | above, below, between and on the edge of the tables (3406 and 3862 mV straddle rows of different tables), and temperatures below the coldest, between each kind of pair and above the hottest |
| tables | straight lines between the stock first and last rows | the driver uses only order and differences of neighbouring rows; the lines cross all five temperatures |
| `Users` and `Gap`, `Far`, `CarLimit`, `MaxDrift`, `MaxCalls` (CoulombService) | one user of each list, distance 2, 3, 2, 1, 2 | each callback starts both lists again; the counter passes a head, moves while the handler runs, and is reset between the handler's steps |
| `Timers`, `Intervals`, `MaxTime` (TimerService) | 2, {1, 2}, 5 | a timer that overtakes another, one that ends in suspend, one started in between |
| `MaxSleeps` (Gm30) | 1 | a suspend between any two steps of a handler |
| `AtOnce`, `MaxDeaths` (Gm30) | 2, 1 | any two sources side by side (the handlers share nothing but the socket), a daemon and its successor |
| `Currents` (Thermistor) | 0, 0.5 A, 3 A | every degree of the table at each, charging or not |
| `Callers`, `MaxOut`, `MaxResets` (CycleCount) | 1, 3, 1 | with the daemon two threads: a call between any two steps of the reset; a third thread adds nothing that two do not show |
| `Limit`, `MaxWrites` (NafgMonitor) | 2 minutes instead of 10, 2 | a minute that is not enough and one that is; a switch off and on again |
| `MaxBoots` | 3 | the first boot, the one after it, and one more with the state they leave |
| `MaxInbox` (ImsInit), `MaxLosses` | 3, 2 | the re-delivered state and two changes behind it; one loss would hide a double toggle.  The proofs are for every number |
| `Clients`, `Fingers`, `MaxInbox` (FingerprintHal) | 2, 1, 2 | one client and its successor; a list with and without its finger; two callbacks can be out of date relative to each other |
| `MaxTries` | 3 instead of 10 | the loop has a first, a middle and a last round |
| `Rows` (Panel), `MaxLost` | 3 instead of 49, the second a delay; 2 | a first, a middle and a last row; a second lost enable on top of a first.  The proof is for every number |
| `MaxPid` | 2 | a dead peer and its successor; the proof is for every number |
| `Slots` | 2 instead of 10 | a slot with a neighbour on either side of it in the order, and one id beyond; the proof is for every number |
| `MaxUsers`, `MaxDepth` (GfSpi) | 2, 2 | a release that is the last and one that is not; the disable depth of two threads at once |
| `FmBuilds`, `MaxFailed`, `MaxBinds` | every library on its platform and one that is not the chip's; 1; 2 | one failing step anywhere, alone, so that what is left is its doing; a second binding finds what the first left; the proof is for any number of both |
| `Wrap` | 16 instead of 2^32 | the bands 5..10 and 4..7 leave room below, above and for wrapping; the proof is for every width |
| `MaxFails` (FmChip), `MaxFaults` (FmMain) | 1, 1 | one failure at any step of any sequence, followed by any calls that do not fail.  Two failures in one call are left to the proofs, which bound none |
| `Callers` (FmMain) | 1, and 2 in `fm_lock` | with the driver's two threads three or four: enough to wait in a circle over three locks |
| `MaxAddr`, `ManyTimes`, `MaxBad`, `MaxLate` (FmRds) | 2 instead of 15, 2, 1, 1 | a text with a first, a middle and a last segment, ended early, late and not at all; two names that share a segment |
| `Lists`, `Slots` (FmRds) | one, four and five frequencies; 5 slots instead of 25 | no pair, and two that have to be sorted, with and without a filler; the proof is for every list of that length |
| `MaxCommands`, `MaxCuts`, `MaxRds` (FmLink) | 2, 1, 1 | the command that timed out and the one that meets its answer |
| `MaxCalls`, `MaxMishaps`, `Readers` (FmRdsUser) | 1, 1, 1 | one switch or tune beside parser, timer and reader; the proof is for any number |
| `MCTeams` | six pairs or triples of users | those that share a parent, a fence bit or a clock; other pairs touch disjoint registers |
| `MaxFails` (PowerGates, SiaAmp) | 1 | a pre-clock, or a mode write that is late ten times over |
| `Threads` (SiaTimer), `Files`, `Params`, `MaxCmds` | 2, 2, 2, 4 | the old thread and the new; a file opened again; an answer to the other parameter; two timed-out commands, one in flight and the next (proved for any) |
| `Users`, `Daemons`, `Units` (SiaMailbox) | 2, 2, 1 | the two users the driver has; a PICK_CMD or an answer between the steps of another; a unit that both share (proved for any) |

The bound of a cfg is never a guard the code has, except the first two and
`Rows` (Gauge).  Where it caps a counter the guard that uses it is on the
environment's action, or counts what the environment did.

## 5. Fairness

Weak fairness, and only for what a scheduler owes: a queued work item or a
timer runs (`PumpExpress` `Work` and `Notify`), an interrupt thread continues
(`GoodixFp` and `TouchPanel` `Handler`), a thread inside a driver continues
(`GoodixFp` `Call(t)`; `SiaTimer` `Step(t)`),
the main thread takes its next message and a sleeping thread wakes (`ImsInit`).
Beyond the kernel:

* `ImsInit`: the activity manager delivers BOOT_COMPLETED and restarts a
  START_STICKY service it killed;
* `FingerprintHal`: init restarts the service (`fps_hal.RMX3171` in its .rc file has no
  `oneshot`), a living vendor answers (`Answer`), and the framework asks again
  sooner or later, which is what notices a dead vendor (`Aborts` in `Process`).

Nobody owes a cable, a finger, a registration, a removal or the success of a
call.  The battery models state no fairness: what is checked of them is safety.

## 6. What is proved

For every value of the constants, from the named assumptions of each module
(sizes are positive, sets are of the right kind) and nothing else.

| module | theorem | for every | argument |
|---|---|---|---|
| `PumpExpressProofs` | `TypeCorrect`, `StateCorrect`, `NeverStranded`, `LeftoverCause` | number of pulses and tries, set of failing calls, cable speed | one inductive invariant, `TypeOK`, `StateAgrees` and `NoStrandedNegotiation` with `PulseInv` (where in the pattern) and `DriverInv` (what each stage of probe and remove excludes) |
| | `PulsesGuarded` | same | step property from `StateAgrees`: the worker at a pulse holds the lock, so the state is NEGOTIATING |
| | `SettledBeliefs` | same | two more invariants on top. `SeenInv`: a value of ONLINE that was read, and one that was applied, is right unless another notification is due. `VerdictInv`: the check finds the charger at 5 V, and a verdict lasts as long as the cable, since a new one is noticed only in IDLE |
| | `ImplementsSession` | same | `BarStep`: each step under that invariant is a session step or a stutter. The fairness half of the refinement is the run's |
| `GaugeProofs` | `CacheCorrect`, `RemoveIsFinal`, `PollingGoesOn` | profile, voltage, temperature | `PollInv` (where the work item may be, by driver stage) and `CacheConsistent`; `compute_soc` stays opaque |
| | `InterpolationStaysBetween` | integers | truncation of a part of a whole (`PartOfWhole`) lies between 0 and the whole, in both signs |
| `ImsInitProofs` | `ToggleRestores` | number of boots, callbacks, losses | `ToggleInv`: at most one thread sleeps, exactly while the setting is off against the user's will; that VoLTE reads as off is what keeps a second toggle away |
| | `TogglesAreCounted` | same, in every world | `CountInv`: the queued callbacks alternate and end with the registration as it is (`Alternates`), so how many losses are queued follows from their number (`QueuedLosses`); toggles done, losses queued and the one toggle that needs none (`ComesFirst`) together never pass the losses plus one |
| | `TypeCorrect` | same | from `CountInv`, and that a second thread sleeps only while the setting is off |
| `DevicesProofs` | `PanelTyped`, `RailsStayBalanced`, `PowerInOrder`, `PreparedIsInitialised` | sequence length, polarity, lost disables | `RailsBalanced` only speaks of moments between calls; `HoldsVsp`/`HoldsVsn` say what each program point holds, `Counts` relates them to the use counts, `Where` says where the line may be high |
| | `IrqIsBalanced`, `ResetIsIntact`, `ReportsCorrectly` | number of HAL restarts | the mutex (`Exclusive`), what an open file implies about the driver's stage (`Stages`), and how far ahead the depth is inside the switching call (`Switching`) |
| | `OffStaysOff`, `TouchIsAlwaysTold` | number of users, interrupt depth, restarts | between the flag and the interrupt is always a thread that has done one of the two (`IrqOnItsWay`); while power calls come one by one, the regulator's count is its place in the list and what was left before (`PowerInTurn`); only the first open requests lines (`NumbersAreLines`); the touch mode is the finger until it is cleaned (`FlagIsFinger`) |
| | `TouchesAlwaysMatch` | number of slots | nothing is reported before the interrupt is requested (`QuietBefore`), and what was read is what is on the glass until the next edge (`ReadIsDown`) |
| | `ToldIsAlwaysTrue` | set of clients, finite set of fingers, length of the queue, number of tries | while a cancel waits, its client is the one called back (`CancelWaits`); the last list on its way is the vendor's (`LastSyncIsTrue`) |
| `SetupProofs` | `SetupIsAlwaysUndone` | number of failing steps and of bindings, for each library of `FmBuilds` | what no state shows is the order of the steps ahead.  `Follows` says which step may come after which, and each routine, each way out of one and each suffix keeps it (`WaysAreFine`, built up concatenation by concatenation); a way undoes all that its failing step finds there (`Scope`, `Made`), frees it once (`Untouched`), and what is there without a step that undoes it belongs to a device that is complete or is a named leftover (`DeviceInv`, `EnvInv`).  `References` counts what was taken, so a put is always the last one |
| `FmProofs` | `RadioTyped`, `SeekInBand`, `RadioHasUser` | width, bands, spacings, users | `StepInBand`: after both limits are applied the frequency is in the band, however the sum wrapped |
| | `NoUpdateIsEverMissed` | chip library, set of readers, number of calls and failures | `ClearedHasNoPs`: the reader lowers the event only after it has emptied `event_status`, under the lock that the parser needs to add to it |
| | `ReadyListsAreStations` | lists of one to five frequencies (`IsList`), number of groups lost and of late ones | the two places are filled in their order, each with a pair of the list and no two with the same (`Holds`); a pair that is there already is found and the sort only swaps (`PlacedKeeps`, `SortedKeeps`), so a full list has all pairs (`FullHasAll`).  `ListInv` adds when the data may be the old station's |
| | `AnswersAreOwn` | set of commands, number of them, of cuts and of RDS groups | without an excuse no answer of the command's kind is on its way or raised when it goes out (`NoneBefore`), so one at most answers, after all others that fill its field (`OneAnswers`), and nothing may overwrite what it brought (`TakesOwn`); a payload that is dropped excuses the command it answers (`Dropped`) |
| | `FastBusAlwaysFed` | chip of the table, number of failures | each step of each function of each chip finds the clock it wants, reached by the step before it or by a failure that skips to it (`InOrder`, built up concatenation by concatenation: `CatInOrder`, `IgnoredInOrder`).  `BusInv` says it of the step that comes next; a lost write is made good by the next function that sets the whole clock (`Restored`) |
| | `CallsAlwaysRecover` | same | what a call wrote so far is in the registers as long as nothing failed (`SoFar`), so at its end they hold what its last writes put there (`InTheEnd`), whatever they held before; and what that is follows from the lists (`TuneEnds`, `DownEnds`).  Registers that a chip's lists never name are as after reset (`Untouched`) |
| `SocProofs` | `OffStaysFenced`, `UsersReachTheirs`, `WaitsAlwaysEnd` | set of users' teams, number of failures and of calls | what a sequence sets, clears, fences and opens in all (`InDone` to `BusEffect`: concatenation by concatenation, not state by state), that nothing it does is undone in it, and that each wait comes after what it waits for (`WaitsAreLed`); at rest a domain with power is whole and reached (`RestIsClean`); the framework's counts are the users and children of a gate (`Counted`), so a parent and its clocks are there while they are needed (`CountedIsOn`, `ClocksRun`); and what the rest of the running sequence will still do (`InitGoesOn`, `PrepareGoesOn`, `UnprepareGoesOn`) |
| | `AnswersNeverCross` | number of commands, timeouts, restarts of the processor | the busy flag stays set as long as a command is unanswered (`FlagCoversPending`), so at most one is (`OnePending`), and the one waited for is known (`WaitedIsKnown`) |
| | `CommandsAlwaysMeet` | set of units, files, scenes, users, parameters, daemon threads | a write that waits is in the unit of its user's handle, which is not idle (`CommandStays`), since whatever replaces a command (`LostKeeps`) or sets the unit idle befalls all who wait there; what a read has tested is an answer still unless a user's command came (`AnswerStays`) |
| | `AmpsStayTwo` | set of callers, chip and wiring | while calls do not overlap (`OneAtATime`) what is left of the running call says where each amplifier is (`InPlace`): the steps left are an end of one of the driver's lists (`OfOne`), the left amplifier is down while its address is borrowed (`LeftAside`), and each list has a known effect on both (`TurnsOn`, `Suspends`).  Nothing is claimed once a mode write was given up |
| | `VoltageStaysFresh` | set of threads and clients | with one thread (`OneThread`) each channel's counters agree with its samples while it sleeps (`AsleepAgrees`), or are still to be visited in this cycle (`CycleAgrees`) |
| `BatteryProofs` | `HeadsAreAlwaysWatched` | set of users, distances, drift, number of calls | a list is watched from the moment the handler has left it (`PlusIsWatched`, `MinusIsWatched`), by a distance taken from a counter at most `drift` away (`SeenIsClose`); what the chip watches is the nearest of the list, which exists because every set of naturals has a least element (`Least`) |
| | `FirstIsAlwaysArmed` | set of timers, intervals, time | not the first timer only but every listed one is covered by the hrtimer (`AllAreArmed`), and between the two steps of resume by it or by what resume will start (`ResumeCovers`); a hibernation ends without either |
| | `NoSourceIsEverForgotten` | number of sources at once, of deaths and suspends | a source is kept from the moment the daemon registers, the temperature's always, in suspend too (`EachIsKept`): what a handler disarms it goes on to arm or to tell (`MustArm`, `KeepsPromises`), and the registered daemon is the one told (`PidIsKnown`) and a handler's steps left are an end of its list (`HandlerGoesOn`) |
| | `CyclesAreDischarged` | threshold, charge, number of resets and callers | while calls do not overlap one thread at most counts (`OneAtATime`); the charge is accounted for both before and after it is added (`NextIsDischarged`, `AddedIsDischarged`), and between the two times it forgets nothing is looked at (`ForgotBeforeChip`) |
| | `BlamedOnlyWhenStill` | limit, number of switches and suspends | awake, the driver's age of the last movement is at most the real one (`AgeIsStill`) |

An invariant is proved in three facts: the initial states have it, every action
keeps it (one lemma per action or group of actions), and it implies the property;
the last step of the theorem puts them together with temporal logic.  Where the
property is not inductive, what is added is in the third column's names.

Each `IInv` was model-checked as an invariant of its run before it was proved; `ChipInv`,
which speaks of the steps that a list has behind it, was not.  In the
four compositions a step moves one part and leaves the others (`PartsStep`), so the
invariant of a part is kept by its own actions and by stuttering.

What is assumed of constants is what their use in the code says: distances of the
coulomb service have a sign (`GapsAreSigned`; `gauge_coulomb_start` does nothing
for a zero one), the marks for "no threshold" and "not listed" are
not numbers, time limits, intervals and the drift are natural numbers, a touch panel
has a slot, the vendor has a finite number of templates, the firmware commands are
those of the table of masks, a station's list has as many pairs as its count needs and
no frequency of 0 (`StationsSendLists`).

`StateAgrees`, `LeftoverOnlyFromLatePlug`, `PulsesOnlyWhileNegotiating`,
`CacheConsistent`, `PollNeverStops`, `PowerOrder`, `InitComplete`, `ResetPulseIntact`,
`PoweredHasUser` and the types are carried by their proofs alone and are in no run.

Only model-checked:

* what needs `ENABLED`, that is all of liveness: `PeAdapterIsBoosted`, the fairness
  half of `SessionSpec`, `TogglesAreDone`, `ComesBack`, `CallsReturn`;
* `EveryCallReturns`, a statement about every set of threads over some fifty fixed
  sequences, which TLC covers;
* what is about particular tables and dates: `AccurateWithinThree` and `ReadingIsRight`
  (the error of a search and two divisions over hundreds of given rows), `NewDateIsRight`;
* `ShownIsWhole`, which is true of one wrong segment only (the error has to come twice to
  be confirmed), and whose induction is over the segments of a text.

No proof does induction over data, and no module of the project has a RECURSIVE
operator: where the code loops, the model uses a recursive function or a fold, or
counts the rounds as steps.

## 7. Where the code and its documents disagree

With a run that shows it:

* `pe_boot`: an adapter attached before probe is never noticed
  (`mt6370-pe-rmx3171.c:231`), against `ports/Kconfig:76`.
* `gauge_stock`: the stock tables are in tenths of a millivolt
  (`dts/rmx3171_bat_profile.dtsi:38`) and the conversion is given millivolts
  (`aether-simple-gauge.c:192`), so the state of charge is 0 wherever they are
  used: 3.85 V at 25 degrees reads as empty.
* `ims_crash`: a process that dies, or a phone that reboots, in the second
  between off and on leaves VoLTE off, and later boots read that as the user's
  choice (`PhoneStateService.java:33`).
* `panel_reset`: gpiod's values are logical and the reset line is declared
  active low (`dts/mt6768-rmx3171.dts:214`), so the documented HIGH, LOW, HIGH
  comes out as its inverse and the sequence goes to a panel in reset
  (`panel-ilt9881h-rmx3171.c:209`).
* `fm_lock`: `fm_rds_onoff`, and `fm_powerup_tx` when the transmitter is on
  already, jump to the label that releases `fm_ops_lock` without having taken it
  (`fm_main.c:1341`), after which two callers fit inside the lock that
  `fm_main.c:31` calls the "mutex for char device ops".
* `fm_clock`: the month of a date is computed from 365.25 days times the year
  without rounding down and the day with rounding (`fm_rds_parser.c:1678`), so
  that 1 March 2022 is shown as 32 February; `inc/fm_rds.h:187` calls the event
  "A new UTC date/time is available".

Read in the ports while modelling, without a run of their own:

* `goodix-fp-rmx3171.c:152`: the same inversion of its reset line
  (`dts/mt6768-rmx3171.dts:283`).
* `goodix-fp-rmx3171.c:143`: INIT registers the id of the calling thread, while
  the netlink port of a process is bound by its main thread as a rule: from a worker
  thread it registers a port nobody has, and takes a good registration away.
* `goodix-fp-rmx3171.c:109`: an event that reads 0 after an EXIT is sent to the driver's
  own socket, whose receiver takes the sender's 0 for a registration.
* `nt36525b-rmx3171.c`: the header's event layout (line 23) and the status test
  (line 152) disagree on the status bits; the firmware is loaded and never sent.
* `panel-ilt9881h-rmx3171.c:189`: the comment names a VDDIO step that prepare
  does not have; `ports/Kconfig:16` promises two panel variants, one compatible
  string is matched.
* `fm-mt6631-aether.c:47`: SCAN is declared and not handled; TUNE and SEEK do
  not look at `powered` (line 191).
* `aether-simple-gauge.c:233`: STATUS ignores the error of the charger's answer.
* `BiometricsFingerprint.cpp:210`: a cancel or enumerate before the first
  setNotify would use a null callback (the model's framework sets it first);
  line 151: an unknown vendor error becomes ERROR_NO_ERROR.

Read in the vendor's drivers, which a port should not inherit.  The models do
what the code does in each case; the properties except them or do not speak of
them:

* Goodix: the failing path of `gf_open` keeps `device_list_lock`; a line that was
  never found stays 0 in the static struct and is freed as line 0; a failed probe,
  `GF_IOC_REMOVE` and `gf_remove` free lines twice; two ENABLE_POWER at once power the
  sensor twice, and one DISABLE_POWER leaves it on; the comment "power off the sensor" in
  `gf_release` (`gf_spi_tee.c:719`) stands at a line that only clears the flag.
* FM, RDS: late groups of the old station mix with the new one's after a retune;
  the PI event is set for the same code again, though `inc/fm_rds.h` says it "has
  changed"; a failed copy to user space loses the event; `fm_rds_block_cnt_reset`
  switches RDS on where it was off; of an even count of frequencies the filler is sorted in
  (`fm_rds_parser.c:1165`), so where its pair is not the last one it is reported and a
  frequency is not; MT6630 and MT6632 keep old data when RDS goes
  off.
* FM, link: an answer that is still to come when its command times out is taken
  for that of the next command of the same kind; a payload in the last byte of a full
  buffer is not stored (`fm_link.c:299`), its flag is raised, and the caller takes what
  an earlier call left.
* SIA81xx, mailbox: PICK_CMD and a read set the unit idle whatever it holds by then
  (`sia81xx_tuning_if_dev.c:466`, "it is not safe"), so a write that comes between their
  copy and their store is lost and reports success; RM_CAL_ID frees the buffer that
  another thread's call is copying.
* FM, setup: a lock that cannot be made is not noticed for the RTC lock (the
  code tests `fm_rxtx_lock`), and locks made before one that fails are left; the
  link is freed twice after `fm_link_setup` fails; on conninfra
  `low_ops_unregister` is never set and `fm_env_destroy` returns before the ops
  are taken back; the error exit of `fm_dev_init` keeps `rds_event`,
  `fm_dev_destroy` the two works of the transmitter; an error pointer of
  `class_create` reaches `device_destroy`; a failed probe leaves the module
  loaded, a second probe finds the pin of the amplifier busy; `g_fm_struct` is
  set before the timer's work thread exists and cleared after it is gone.
* Fuel gauge: the temperature that was measured is replaced by 25 degrees "for
  bring up" (`mtk_battery.c:1679`), and one fixed through the file
  `Battery_Temperature` cannot be released and leaves its interrupt off for good; after
  a hibernation the timer service has no hrtimer until something starts one
  (`mtk_gauge_time_service.c:331`); the way from a temperature to a
  voltage (`mtk_battery.c:1470`) ignores the resistor beside the thermistor that
  the way back counts; the cycle count can add a charge twice when two threads
  meet; the NAFG monitor may raise a false alarm when it looks between waking up
  and `battery_resume`; a disabled gauge reads 0 into the cycle count.

## 8. What is not modelled

* Of the modelled ports: the constant answers of `get_property` and STATUS, the
  panel's mode list, the Goodix no-op commands beyond one representative, the
  FM commands that only read, touch coordinates, sysfs unbinding of a device
  that is held open, the vendor fingerprint requests that pass straight through,
  and all timing beyond order.
* Of the vendor's FM driver: the bytes of firmware commands and the patch
  download, slow labels (group 1) and the counters of RDS, the searches that the
  DSP makes, the customisation files, and the RDS switch that follows a reset of
  the subsystem.
* Of the vendor's fuel gauge: the netlink commands that only read or store a
  value, the gauge algorithm in fixed point (`mtk_battery_algo.c`), the layer over
  the PMIC's registers (`mt6358_gauge.c`), the charger side and the low-voltage
  levels of older chips.
* Of the clock driver: the clock tables (`clk-mt6768.c`), which are data for the
  common clock framework, `mtcmos_force_off`, and the dump that
  `ram_console_update` makes of a wait that lasts.
* Of the SIA81xx driver: the tuning socket server, the binding of I2C clients to
  platform devices, raw register access from sysfs; copies in the mailbox that tear each
  other, and a daemon that removes its unit under its own other call.
* Of the vendor's Goodix driver: keys and gestures that pass through to the
  input core, wake locks, SPI clocks, and messages that the socket drops.
* The port of the SIA81xx amplifier (`ports/audio`) and the lights HAL: planned,
  see below.
* The pin controller and the mrdump stub: tables and empty functions.
* The panel drivers of the 4.14 kernel: their port is modelled instead.
* Build, release and extraction scripts, product makefiles, init scripts,
  policies, overlays: declarations and straight-line shell.

## 9. Plan

Order: the most important concurrent behaviour first, then outward.  Done:

1. `PumpExpress` with `ChargeSession` and the refinement; safety proved, with what
   the driver believes when nothing is on its way (`SettledIsTrue`).
2. `Gauge`; cache and polling proved.
3. `ImsInit`; restoration and the count of toggles proved.
4. `FingerprintHal`, `Panel`, `GoodixFp`, `TouchPanel`, `FmRadio`; safety proved.
5. The vendor's drivers.  Safety proved: the fuel gauge (`CoulombService` to
   `NafgMonitor`), Goodix (`GfSpi`), the delivery of RDS and the firmware link, the
   power gates, the chip libraries (`FmChip`), and of the SIA81xx the two amplifiers,
   timer task, mailbox and AFE link, and the FM driver's loading and removal
   (`FmSetup`).  Checked only: `FmMain`, `Thermistor`, and the names and texts of
   `FmRds`.

Left:

1. `Sia81xx`, the port of the amplifier.  The register cache is written before the
   bus and never synchronised after the enable line was low; the DAPM event and
   mute share bit 0 of SYSCTRL.  Abstract specification: an amplifier that is on
   exactly when a stream plays and is not muted.
2. `Lights`, the colour conversion (bounded, monotone, zero exactly for black),
   and a monotonicity theorem for a gauge table whose rows fall.
3. Abstract specifications for the panel (off, on, failed), the fingerprint HAL
   (request, answer) and the FM link (command, answer or timeout) in the manner of
   `ChargeSession`.
4. The gauge algorithm and the layer over the PMIC, once a port chooses between
   them and the simple gauge.

## 10. Running it

    tlc -config PumpExpress_all.cfg MCPumpExpress.tla
    tlapm PumpExpressProofs.tla

and the same for the other rows of the tables above.  With two workers
`devices` takes about three minutes, `fm`, `soc` and `battery` two and each of the others
less; the
proofs take a few minutes each, `SocProofs` about ten.
