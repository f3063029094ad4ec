-------------------------------- MODULE Gm30 --------------------------------
(***************************************************************************)
(* The vendor fuel gauge's core, mtk_battery_core.c and mtk_battery.c.  The  *)
(* gauge algorithm is a daemon in user space: the kernel side takes the      *)
(* interrupts, tells the daemon over netlink and runs the commands the       *)
(* daemon sends back.  Most interrupts are one-shot: the handler disarms its *)
(* source and tells the daemon, and it is the daemon that arms it again; the *)
(* temperature's handler arms its own.  The interrupts of the PMIC share one *)
(* thread, the coulomb service calls back from another.                     *)
(*                                                                         *)
(* The daemon is external: it registers, reads its settings, arms every      *)
(* source and sets init_flag; after that it arms the source of each notice  *)
(* it takes.  A notice to a process that is gone is lost; the socket's buffer *)
(* is taken to be large enough.                                            *)
(***************************************************************************)
EXTENDS Naturals, Sequences, FiniteSets, SequencesExt

CONSTANTS MaxDeaths,    \* bound: how often the daemon dies
          MaxSleeps,    \* bound: suspend cycles
          AtOnce        \* bound: how many of the sources one behaviour follows

VARIABLES followed,     \* the sources this behaviour is about
          armed,        \* the sources whose interrupt can fire
          handler,      \* what the handler running in each thread has left to do
          inbox,        \* notices the daemon has not taken
          daemon,       \* the daemon process: its state, and what it is arming
          fgd_pid,      \* g_fgd_pid is the pid of this daemon, of a dead one or 0
          init_flag, dod_init_sel,
          disableGM30, ui_soc,
          iavg_intr_flag,
          fixed,        \* fixed_bat_tmp is a temperature, no longer 0xffff
          asleep,
          deaths, sleeps

gmvars == <<followed, armed, handler, inbox, daemon, fgd_pid, init_flag, dod_init_sel, disableGM30,
            ui_soc, iavg_intr_flag, fixed, asleep, deaths, sleeps>>

Sources == {"zcv", "nafg", "cycle", "iavg", "vbat", "temp", "car", "soc"}
Threads == {"pmic", "coulomb", "sysfs"}
ThreadOf(s) == IF s \in {"car", "soc"} THEN "coulomb" ELSE "pmic"
None == "none"
Steps == {"tell", "disarm", "arm", "check", "unflag", "event"}

-----------------------------------------------------------------------------
(* The handlers: what each may do after fg_interrupt_check, in its order.  *)

\* Nothing but the event unless the current is small.
fg_zcv_int_handler      == {<<"tell", "disarm", "event">>, <<"event">>}
fg_nafg_int_handler     == {<<"disarm", "event", "tell">>}
fg_cycle_int_handler    == {<<"disarm", "tell", "event">>}
\* iavg_intr_flag is cleared first: resume must not arm it again.
fg_iavg_int_handler     == {<<"unflag", "disarm", "tell", "event">>}
\* Plausible bug: the daemon is told before the low-voltage alarms are switched off.
Vbat2TellsFirst == {<<"tell", "disarm", "event">>}
fg_vbat2_int_handler    == {<<"disarm", "tell", "event">>}
\* The daemon is told when a limit of its own is crossed; armed again unless the
\* temperature is fixed.
fg_bat_temp_int_internal == {<<"disarm", "tell", "check">>, <<"disarm", "check">>}
\* The coulomb service has taken the user off its list before it calls.
fg_bat_int1_handler     == {<<"disarm", "arm", "event", "tell">>}
fg_bat_int2_handler     == {<<"disarm", "event", "tell">>}

Handlers(s) ==
  CASE s = "zcv"  -> fg_zcv_int_handler       [] s = "nafg" -> fg_nafg_int_handler
    [] s = "cycle" -> fg_cycle_int_handler    [] s = "iavg" -> fg_iavg_int_handler
    [] s = "vbat" -> fg_vbat2_int_handler     [] s = "temp" -> fg_bat_temp_int_internal
    [] s = "car"  -> fg_bat_int1_handler      [] s = "soc"  -> fg_bat_int2_handler

\* Steps with the source they are about.
On(s, steps) == [i \in DOMAIN steps |-> [do |-> steps[i], of |-> s]]

Init ==
  /\ followed \in {F \in SUBSET Sources : Cardinality(F) = AtOnce}
  /\ armed = followed \cap {"temp"} /\ inbox = {}
  /\ handler = [t \in Threads |-> <<>>]
  /\ daemon = [at |-> "dead", todo |-> {}] /\ fgd_pid = None
  /\ init_flag = 0 /\ dod_init_sel = 0
  /\ disableGM30 = FALSE /\ ui_soc = "unknown"
  /\ iavg_intr_flag = FALSE /\ fixed = FALSE /\ asleep = FALSE
  /\ deaths = 0 /\ sleeps = 0

\* disable_fg: too cold, no fuel gauge in this build, or asked for in sysfs
disable_fg == armed' = {} /\ disableGM30' = TRUE /\ ui_soc' = "fifty"

StoreDaemonDisable ==
  /\ ~disableGM30
  /\ disable_fg
  /\ UNCHANGED <<followed, handler, inbox, daemon, fgd_pid, init_flag, dod_init_sel, iavg_intr_flag,
                 fixed, asleep, deaths, sleeps>>

\* An interrupt.  On a disabled gauge fg_interrupt_check turns everything off again, and
\* wake_up_gauge_coulomb the coulomb interrupts.
Fire(s) ==
  /\ ~asleep /\ s \in armed /\ handler[ThreadOf(s)] = <<>>
  /\ IF ~disableGM30
     THEN /\ \E q \in Handlers(s) : handler' = [handler EXCEPT ![ThreadOf(s)] = On(s, q)]
          /\ UNCHANGED <<armed, disableGM30, ui_soc>>
     ELSE /\ IF ThreadOf(s) = "pmic" THEN disable_fg
             ELSE armed' = armed \ {"car", "soc"} /\ UNCHANGED <<disableGM30, ui_soc>>
          /\ UNCHANGED handler
  /\ UNCHANGED <<followed, inbox, daemon, fgd_pid, init_flag, dod_init_sel, iavg_intr_flag, fixed,
                 asleep, deaths, sleeps>>

\* wakeup_fg_algo: nothing when disabled or without a daemon
wakeup_fg_algo(s) ==
  inbox' = IF disableGM30 \/ fgd_pid # "alive" THEN inbox ELSE inbox \cup {s}

\* fg_int_event looks at the temperature, whatever its interrupt says, and runs its
\* handler when it has crossed a limit.
fg_int_event(rest) ==
  {rest} \cup IF disableGM30 \/ "temp" \notin followed THEN {}
             ELSE {On("temp", q) \o rest : q \in fg_bat_temp_int_internal}

\* What is left after a step; the test of fixed_bat_tmp and the arming are two.
Goes(step, rest) ==
  CASE step = "event" -> fg_int_event(rest)
    [] step = "check" /\ ~fixed -> {On("temp", <<"arm">>) \o rest}
    [] OTHER -> {rest}

\* One step of the handler of a thread.  Only the temperature is armed on a disabled gauge.
HandlerStep(t) ==
  /\ handler[t] # <<>>
  /\ LET step == Head(handler[t]).do  s == Head(handler[t]).of
     IN  /\ IF step = "tell" THEN wakeup_fg_algo(s) ELSE UNCHANGED inbox
         /\ armed' = CASE step = "disarm" -> armed \ {s}
                       [] step = "arm" /\ (s = "temp" \/ ~disableGM30) -> armed \cup {s}
                       [] OTHER -> armed
         /\ iavg_intr_flag' = (iavg_intr_flag /\ step # "unflag")
         /\ \E q \in Goes(step, Tail(handler[t])) : handler' = [handler EXCEPT ![t] = q]
  /\ UNCHANGED <<followed, daemon, fgd_pid, init_flag, dod_init_sel, disableGM30, ui_soc, fixed,
                 asleep, deaths, sleeps>>

\* The range the file accepts leaves out 0xffff: once fixed, the temperature stays fixed.
store_Battery_Temperature ==
  /\ ~asleep /\ "temp" \in followed /\ handler["sysfs"] = <<>>
  /\ fixed' = TRUE
  /\ handler' = [handler EXCEPT !["sysfs"] = On("temp", <<"disarm", "tell">>)]
  /\ UNCHANGED <<followed, armed, inbox, daemon, fgd_pid, init_flag, dod_init_sel, disableGM30,
                 ui_soc, iavg_intr_flag, asleep, deaths, sleeps>>

-----------------------------------------------------------------------------
(* The daemon's commands.                                                  *)

DaemonStarts ==
  /\ ~asleep /\ daemon.at = "dead"
  /\ daemon' = [at |-> "new", todo |-> {}]
  /\ UNCHANGED <<followed, armed, handler, inbox, fgd_pid, init_flag, dod_init_sel, disableGM30,
                 ui_soc, iavg_intr_flag, fixed, asleep, deaths, sleeps>>

\* FG_DAEMON_CMD_SET_DAEMON_PID: a second one means the first was killed
SetDaemonPid ==
  /\ ~asleep /\ daemon.at = "new"
  /\ fgd_pid' = "alive"
  /\ dod_init_sel' = IF fgd_pid # None /\ init_flag = 1 THEN 14 ELSE dod_init_sel
  /\ daemon' = [at |-> "registered", todo |-> followed]
  /\ UNCHANGED <<followed, armed, handler, inbox, init_flag, disableGM30, ui_soc, iavg_intr_flag,
                 fixed, asleep, deaths, sleeps>>

\* The command that arms a source; those that go through a check of disableGM30 do
\* nothing on a disabled gauge, and the temperature's only sets the daemon's limits.
Arm(s) ==
  /\ ~asleep /\ s \in daemon.todo
  /\ daemon' = [daemon EXCEPT !.todo = @ \ {s}]
  /\ armed' = IF s = "temp" \/ (disableGM30 /\ s \in {"nafg", "car", "soc"}) THEN armed
               ELSE armed \cup {s}
  /\ iavg_intr_flag' = (iavg_intr_flag \/ s = "iavg")
  /\ UNCHANGED <<followed, handler, inbox, fgd_pid, init_flag, dod_init_sel, disableGM30, ui_soc,
                 fixed, asleep, deaths, sleeps>>

\* FG_DAEMON_CMD_SET_INIT_FLAG
SetInitFlag ==
  /\ ~asleep /\ daemon.at = "registered" /\ daemon.todo = {}
  /\ init_flag' = 1 /\ daemon' = [daemon EXCEPT !.at = "running"]
  /\ UNCHANGED <<followed, armed, handler, inbox, fgd_pid, dod_init_sel, disableGM30, ui_soc,
                 iavg_intr_flag, fixed, asleep, deaths, sleeps>>

TakeNotice(s) ==
  /\ ~asleep /\ daemon.at # "dead" /\ s \in inbox
  /\ inbox' = inbox \ {s}
  /\ daemon' = [daemon EXCEPT !.todo = @ \cup {s}]
  /\ UNCHANGED <<followed, armed, handler, fgd_pid, init_flag, dod_init_sel, disableGM30, ui_soc,
                 iavg_intr_flag, fixed, asleep, deaths, sleeps>>

\* FG_DAEMON_CMD_SET_KERNEL_UISOC
SetKernelUisoc ==
  /\ ~asleep /\ daemon.at = "running"
  /\ ui_soc' = IF disableGM30 THEN "fifty" ELSE "known"
  /\ UNCHANGED <<followed, armed, handler, inbox, daemon, fgd_pid, init_flag, dod_init_sel,
                 disableGM30, iavg_intr_flag, fixed, asleep, deaths, sleeps>>

\* The process dies with the notices in its socket; g_fgd_pid stays.
DaemonDies ==
  /\ daemon.at # "dead" /\ deaths < MaxDeaths
  /\ deaths' = deaths + 1
  /\ daemon' = [at |-> "dead", todo |-> {}] /\ inbox' = {}
  /\ fgd_pid' = IF fgd_pid = "alive" THEN "stale" ELSE fgd_pid
  /\ UNCHANGED <<followed, armed, handler, init_flag, dod_init_sel, disableGM30, ui_soc,
                 iavg_intr_flag, fixed, asleep, sleeps>>

-----------------------------------------------------------------------------
(* Suspend and resume; user space is frozen, a handler may still be running.  *)
(* The temperature is not watched in sleep: enable_tmp_intr_suspend is 0, as   *)
(* in the device tree of the tree (the file BAT_EC could change it).           *)

battery_suspend ==
  /\ ~asleep /\ handler["sysfs"] = <<>> /\ sleeps < MaxSleeps
  /\ asleep' = TRUE /\ sleeps' = sleeps + 1
  /\ armed' = armed \ ({"temp"} \cup IF iavg_intr_flag THEN {"iavg"} ELSE {})
  /\ UNCHANGED <<followed, handler, inbox, daemon, fgd_pid, init_flag, dod_init_sel, disableGM30,
                 ui_soc, iavg_intr_flag, fixed, deaths>>

\* The temperature is armed whether it is fixed or not.
battery_resume ==
  /\ asleep /\ asleep' = FALSE
  /\ armed' = armed \cup (followed \cap {"temp"}) \cup IF iavg_intr_flag THEN {"iavg"} ELSE {}
  /\ UNCHANGED <<followed, handler, inbox, daemon, fgd_pid, init_flag, dod_init_sel, disableGM30,
                 ui_soc, iavg_intr_flag, fixed, deaths, sleeps>>

Next ==
  \/ \E s \in Sources : Fire(s) \/ Arm(s) \/ TakeNotice(s)
  \/ \E t \in Threads : HandlerStep(t)
  \/ StoreDaemonDisable \/ store_Battery_Temperature
  \/ DaemonStarts \/ SetDaemonPid \/ SetInitFlag \/ SetKernelUisoc \/ DaemonDies
  \/ battery_suspend \/ battery_resume

Spec == Init /\ [][Next]_gmvars

-----------------------------------------------------------------------------
(* Properties.                                                             *)

\* What arms a source again, or has the daemon do so.  The temperature's handler does it
\* itself, and the daemon never.
Rearms(s) == IF s = "temp" THEN {"check", "arm"} ELSE {"tell", "arm"}
HasYetToArm(q, s) == \E i \in DOMAIN q : q[i].of = s /\ q[i].do \in Rearms(s)
OnItsWay(s) ==
  \/ s \in armed
  \/ s # "temp" /\ s \in inbox \cup daemon.todo
  \/ \E t \in Threads : HasYetToArm(handler[t], s)

\* A source that cannot fire is on its way to be armed again: the daemon has a
\* notice for it or is arming it, or a handler has yet to tell or to arm it, the
\* temperature's handler run out of another source's included.  No interleaving of
\* handlers, commands, daemon deaths and suspend cycles leaves the gauge deaf to a
\* source for good.  Two are left out: the zero-current source, whose handler tells
\* first and disarms afterwards, and the temperature once the file Battery_Temperature
\* has fixed it, which stops the source and cannot be undone.
NoSourceIsForgotten ==
  (daemon.at = "running" /\ ~disableGM30 /\ ~asleep) =>
     \A s \in followed \ {"zcv"} : s # "temp" \/ ~fixed => OnItsWay(s)

\* What disarms a source in a handler, or has resume leave it, is followed there by what
\* arms it again.
MustArm(step) ==
  step.do \in {"disarm", "unflag"} /\ step.of # "zcv" /\ (step.of # "temp" \/ ~fixed)
KeepsPromises(q) ==
  \A i \in 1..Len(q) : MustArm(q[i]) =>
     \E j \in (i + 1)..Len(q) : q[j].of = q[i].of /\ q[j].do \in Rearms(q[i].of)
HandlerGoesOn == \A t \in Threads : KeepsPromises(handler[t])
UnflagsIavg ==
  \A t \in Threads : \A i \in 1..Len(handler[t]) :
     handler[t][i].do = "unflag" => handler[t][i].of = "iavg"

\* A daemon that has registered is the one that is told.
Registered == daemon.at \in {"registered", "running"}
PidIsKnown == Registered => fgd_pid = "alive"

\* From the moment it registers, the daemon's sources are kept, and the temperature from
\* the start, in suspend too: what battery_suspend disarms, battery_resume arms.
Resumed(s) ==
  asleep /\ (s = "temp" \/ (s = "iavg" /\ iavg_intr_flag))
LookedAfter(s) == IF s = "temp" THEN ~fixed ELSE Registered
EachIsKept ==
  ~disableGM30 => \A s \in followed \ {"zcv"} : LookedAfter(s) => OnItsWay(s) \/ Resumed(s)

\* What every step keeps.
Types ==
  /\ followed \subseteq Sources /\ asleep \in BOOLEAN /\ disableGM30 \in BOOLEAN
  /\ fixed \in BOOLEAN
  /\ handler \in [Threads -> Seq([do : Steps, of : Sources])]
  /\ daemon \in [at : {"dead", "new", "registered", "running"}, todo : SUBSET Sources]
IInv == Types /\ HandlerGoesOn /\ UnflagsIavg /\ PidIsKnown /\ EachIsKept
=============================================================================
