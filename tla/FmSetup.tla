-------------------------------- MODULE FmSetup --------------------------------
(* How the vendor FM driver comes and goes: its environment (ops, locks, timer,    *)
(* link), its platform device, what a probe makes, and how all of it is undone.    *)
(* Each routine is the sequence of its steps.  A step that fails ends its routine  *)
(* and goes another way, or goes on.  Everything runs on one thread, but for the   *)
(* whole-chip reset callback and the work it queues.                               *)
(*                                                                               *)
(* An object is here what is created and destroyed as one; a pointer is held until *)
(* the code clears it.  What happens once freed memory is used is not followed.    *)
(* The kernel's own registrations are external, as are the probe's two other       *)
(* callers: binding and unbinding through sysfs.                                   *)
EXTENDS Integers, Sequences, FiniteSets

CONSTANTS Builds,     \* <<platform, library that is linked, A-die that is found>>
          MaxFailed,   \* steps that fail
          MaxBinds

VARIABLES
  build,
  phase,       \* "setup", "probing", "loaded", "unbinding", "leaving" or "gone"
  todo,        \* the steps of the running routine that are ahead
  live,        \* what exists
  held,        \* the pointers that are not NULL
  ref,         \* the references that are counted
  failed,      \* history: what could not be made
  probed,       \* is g_fm set?
  published,   \* is g_fm_struct set?
  listening,   \* is the reset callback registered?
  rst_queued,  \* is the reset work on the timer thread?
  binds,
  broken       \* "no", "misuse", "reset" or "work"

setup_vars == <<build, phase, todo, live, held, ref, failed, probed, published, listening,
                rst_queued, binds, broken>>

LocksBeforeRtc == <<"fm_ops_lock", "fm_read_lock", "fm_rds_cnt", "fm_timer_lock", "fm_rxtx_lock">>
LocksAfterRtc  == <<"tx_lock", "own_lock">>
Works          == <<"eint_wk", "rst_wk", "rds_wk", "tx_power_wk", "tx_desense_wk", "pwroff_wk">>

SetOf(s) == {s[i] : i \in DOMAIN s}
Locks   == SetOf(LocksBeforeRtc) \union SetOf(LocksAfterRtc) \union {"fm_rtc_mutex"}
CmdPath == {"cmd_buf", "cmd_buf_lock"}
Link    == {"link_event", "ln_event", "cmd_fifo", "evt_fifo"}
Fm      == {"rds_event", "rds_data", "timer_wkthd", "eint_wkthd"} \union SetOf(Works)
Device  == Fm \union {"fm", "chrdev", "cdev", "class", "device", "proc"}
Env     == Locks \union CmdPath \union Link \union {"fm_timer_sys", "regs"}
Counted == Locks \union Fm \union {"cmd_buf_lock", "fm_timer_sys", "ln_event"}

\* Where the pointer to an object is kept.
Holder(o) == CASE o = "ln_event" -> "link_event"
               [] o \in Fm -> "fm"
               [] o = "device" -> "class"
               [] OTHER -> o

---------------------------------------------------------------------------------
(* The routines.  <<"new", o, way>> makes o; "go" is the way of a failure that     *)
(* nobody looks at.                                                                *)

Each(op, os)   == [i \in DOMAIN os |-> <<op, os[i]>>]
New(os, way)   == [i \in DOMAIN os |-> <<"new", os[i], way>>]
NewGet(o, way) == << <<"new", o, way>>, <<"get", o>> >>

\* register_fw_ops_init: the A-die's library, or else the one that is linked.
Selected(b) ==
  CASE b[1] = "conninfra" -> "mt6635"
    [] b[3] = "none"      -> b[2]
    [] OTHER              -> b[3]

register_drv_ops_init == New(<<"regs">>, "go")

\* The other libraries' functions are weak symbols, which fail.
mt6631_fm_low_ops_register ==
  NewGet("cmd_buf_lock", "go") \o New(<<"cmd_buf">>, "env") \o << <<"need", "cmd_buf_lock", "env">> >>

mt6635_fm_low_ops_register   == mt6631_fm_low_ops_register
mt6635_2_fm_low_ops_register == mt6631_fm_low_ops_register
mt6627_low_ops_register      == mt6631_fm_low_ops_register
mt6580_low_ops_register      == mt6631_fm_low_ops_register
mt6630_low_ops_register      == mt6631_fm_low_ops_register
mt6632_low_ops_register      == mt6631_fm_low_ops_register

low_ops_register ==
  [mt6631 |-> mt6631_fm_low_ops_register, mt6635 |-> mt6635_fm_low_ops_register,
   mt6635_2 |-> mt6635_2_fm_low_ops_register, mt6627 |-> mt6627_low_ops_register,
   mt6580 |-> mt6580_low_ops_register, mt6630 |-> mt6630_low_ops_register,
   mt6632 |-> mt6632_low_ops_register]

fm_ops_register ==
  (IF build[1] = "conninfra" THEN register_drv_ops_init ELSE <<>>)
    \o << <<"need", "library", "env">> >> \o low_ops_register[build[2]]

fm_link_setup ==
  << <<"new", "link_event", "env">>, <<"new", "ln_event", "no_event">>, <<"get", "ln_event">>,
     <<"new", "cmd_fifo", "no_fifo">>, <<"new", "evt_fifo", "no_fifo">>, <<"listen", "callback">> >>

fm_link_release ==
  << <<"free", "evt_fifo">>, <<"free", "cmd_fifo">>, <<"put", "ln_event">>, <<"free", "link_event">> >>

\* After fm_rtc_mutex was made, fm_rxtx_lock is looked at.
fm_env_setup ==
  fm_ops_register
    \o New(LocksBeforeRtc, "env") \o New(<<"fm_rtc_mutex">>, "go") \o New(LocksAfterRtc, "env")
    \o Each("get", LocksBeforeRtc) \o << <<"get", "fm_rtc_mutex">> >> \o Each("get", LocksAfterRtc)
    \o NewGet("fm_timer_sys", "env") \o fm_link_setup

\* low_ops_unregister is NULL where it is never set.
fm_ops_unregister ==
  << <<"orstop", "library">>, <<"orstop", "low_ops_unregister">>,
     <<"drop", "cmd_buf">>, <<"orstop", "cmd_buf_lock">>, <<"put", "cmd_buf_lock">> >>

fm_env_destroy ==
  fm_link_release \o fm_ops_unregister \o Each("put", LocksBeforeRtc)
    \o << <<"put", "fm_rtc_mutex">>, <<"put", "fm_timer_sys">> >> \o Each("put", LocksAfterRtc)

fm_dev_init ==
  New(<<"fm">>, "no_fm") \o NewGet("rds_event", "dev") \o New(<<"rds_data">>, "dev")
    \o << <<"publish", "fm">> >> \o NewGet("timer_wkthd", "dev") \o NewGet("eint_wkthd", "dev")
    \o NewGet("eint_wk", "dev") \o NewGet("rst_wk", "dev") \o NewGet("rds_wk", "dev")
    \o NewGet("tx_power_wk", "dev") \o NewGet("tx_desense_wk", "dev") \o NewGet("pwroff_wk", "dev")

FreeFm == << <<"drop", "fm">>, <<"unpublish", "fm">> >>

\* ERR_EXIT of fm_dev_init
DevInitFails ==
  Each("put", <<"eint_wkthd", "timer_wkthd", "eint_wk", "rds_wk", "rst_wk", "tx_desense_wk",
                "tx_power_wk", "pwroff_wk">>) \o << <<"drop", "rds_data">> >> \o FreeFm

\* Plausible bug: the works go before the threads that run them.
DestroysWorksFirst ==
  Each("put", <<"eint_wk", "rds_wk", "rst_wk", "pwroff_wk", "eint_wkthd", "timer_wkthd">>)
    \o << <<"drop", "rds_data">>, <<"put", "rds_event">> >> \o FreeFm

fm_dev_destroy ==
  Each("put", <<"eint_wkthd", "timer_wkthd", "eint_wk", "rds_wk", "rst_wk", "pwroff_wk">>)
    \o << <<"drop", "rds_data">>, <<"put", "rds_event">> >> \o FreeFm

fm_cdev_setup   == New(<<"chrdev", "cdev", "class">>, "mod") \o New(<<"device">>, "go")
fm_cdev_destroy == Each("drop", <<"device", "class", "cdev", "chrdev">>)

fm_mod_init    == fm_dev_init \o fm_cdev_setup \o New(<<"proc">>, "mod") \o << <<"bind", "g_fm">> >>
fm_mod_destroy == << <<"drop", "proc">> >> \o fm_cdev_destroy \o fm_dev_destroy

mt_fm_init   == fm_env_setup \o << <<"new", "pdev", "left">>, <<"new", "added", "no_add">>,
                                   <<"new", "driver", "no_driver">> >>
mt_fm_probe  == << <<"request", "lna">> >> \o fm_mod_init
mt_fm_remove == fm_mod_destroy \o << <<"unbind", "g_fm">> >>
mt_fm_exit   ==
  << <<"drop", "lna">> >> \o (IF probed THEN mt_fm_remove ELSE <<>>)
    \o Each("drop", <<"driver", "added", "pdev">>) \o fm_env_destroy

\* What is done after a failure.
Way == [env       |-> fm_env_destroy,
        no_event  |-> << <<"free", "link_event">> >> \o fm_env_destroy,
        no_fifo   |-> fm_link_release \o fm_env_destroy,
        left      |-> <<>>,
        no_add    |-> << <<"drop", "pdev">> >>,
        no_driver |-> Each("drop", <<"added", "pdev">>),
        no_fm     |-> <<>>,
        dev       |-> DevInitFails,
        mod       |-> fm_cdev_destroy \o fm_dev_destroy]

---------------------------------------------------------------------------------
Init ==
  /\ build \in Builds
  /\ phase = "setup" /\ todo = mt_fm_init
  /\ live = {} /\ ref = [o \in Counted |-> 0]
  /\ held = (IF build[1] = "wmt" THEN {"low_ops_unregister"} ELSE {})
              \union (IF Selected(build) = build[2] THEN {"library"} ELSE {})
  /\ failed = {} /\ binds = 0 /\ broken = "no"
  /\ probed = FALSE /\ published = FALSE /\ listening = FALSE /\ rst_queued = FALSE

\* The next step of the routine is op, on o.
At(op, o) == broken = "no" /\ todo # <<>> /\ todo[1][1] = op /\ todo[1][2] = o

Misused(o) == \E p \in {o, Holder(o)} : p \in held \ live

\* The parts of a structure that is freed are not reached any more.
Reached(o) == IF o = "fm" THEN held \ (Fm \union {"fm"}) ELSE held \ {o}

kept_vars == <<build, binds>>

Makes(o) ==
  /\ At("new", o)
  /\ live' = live \union {o} /\ held' = held \union {o}
  /\ ref' = IF o \in Counted THEN [ref EXCEPT ![o] = 0] ELSE ref
  /\ todo' = Tail(todo)
  /\ UNCHANGED <<phase, failed, probed, published, listening, rst_queued, broken>>

\* class_create does not return NULL.
GoesAnotherWay(way) ==
  IF way = "go" THEN todo' = Tail(todo) /\ UNCHANGED phase
  ELSE todo' = Way[way] /\ phase' = IF phase = "probing" THEN phase ELSE "leaving"

Fails(o) ==
  /\ At("new", o) /\ Cardinality(failed) < MaxFailed
  /\ failed' = failed \union {o}
  /\ held' = IF o = "class" THEN held \union {o} ELSE held
  /\ GoesAnotherWay(todo[1][3])
  /\ UNCHANGED <<live, ref, probed, published, listening, rst_queued, broken>>

Needs(o) ==
  /\ At("need", o)
  /\ IF o \in held THEN todo' = Tail(todo) /\ UNCHANGED phase ELSE GoesAnotherWay(todo[1][3])
  /\ UNCHANGED <<live, held, ref, failed, probed, published, listening, rst_queued, broken>>

StopsWithout(o) ==
  /\ At("orstop", o)
  /\ todo' = IF o \in held THEN Tail(todo) ELSE <<>>
  /\ UNCHANGED <<phase, live, held, ref, failed, probed, published, listening, rst_queued, broken>>

Gets(o) ==
  /\ At("get", o)
  /\ ref' = IF o \in held THEN [ref EXCEPT ![o] = @ + 1] ELSE ref
  /\ todo' = Tail(todo)
  /\ UNCHANGED <<phase, live, held, failed, probed, published, listening, rst_queued, broken>>

\* destroy_workqueue runs what is queued.  Nothing that has never been got is freed.
Puts(o) ==
  /\ At("put", o) /\ ~Misused(o)
  /\ o = "timer_wkthd" => ~rst_queued
  /\ IF o \notin held THEN UNCHANGED <<live, held, ref>>
     ELSE /\ ref' = [ref EXCEPT ![o] = @ - 1]
          /\ IF ref[o] = 1 THEN live' = live \ {o} /\ held' = held \ {o}
             ELSE UNCHANGED <<live, held>>
  /\ todo' = Tail(todo)
  /\ UNCHANGED <<phase, failed, probed, published, listening, rst_queued, broken>>

\* "free" leaves the pointer as it is.
Frees(o) ==
  /\ At("free", o) \/ At("drop", o)
  /\ ~Misused(o)
  /\ live' = live \ (held \intersect {o})
  /\ held' = IF todo[1][1] = "drop" THEN Reached(o) ELSE held
  /\ todo' = Tail(todo)
  /\ UNCHANGED <<phase, ref, failed, probed, published, listening, rst_queued, broken>>

Misuses(o) ==
  /\ \E op \in {"put", "free", "drop"} : At(op, o)
  /\ Misused(o)
  /\ broken' = "misuse"
  /\ UNCHANGED <<phase, todo, live, held, ref, failed, probed, published, listening, rst_queued>>

\* fm_request_gpio: a pin that was requested before is busy.
RequestsGpio ==
  /\ At("request", "lna")
  /\ \/ "lna" \notin live /\ live' = live \union {"lna"} /\ held' = held \union {"lna"}
     \/ UNCHANGED live /\ held' = held \ {"lna"}
  /\ todo' = Tail(todo)
  /\ UNCHANGED <<phase, ref, failed, probed, published, listening, rst_queued, broken>>

Sets ==
  /\ \/ At("publish", "fm") /\ published' = TRUE /\ UNCHANGED <<probed, listening>>
     \/ At("unpublish", "fm") /\ published' = FALSE /\ UNCHANGED <<probed, listening>>
     \/ At("bind", "g_fm") /\ probed' = TRUE /\ UNCHANGED <<published, listening>>
     \/ At("unbind", "g_fm") /\ probed' = FALSE /\ UNCHANGED <<published, listening>>
     \/ At("listen", "callback") /\ listening' = TRUE /\ UNCHANGED <<probed, published>>
  /\ todo' = Tail(todo)
  /\ UNCHANGED <<phase, live, held, ref, failed, rst_queued, broken>>

Step ==
  /\ \/ Sets \/ RequestsGpio
     \/ \E o \in Env \union Device \union {"pdev", "added", "driver", "lna", "library", "low_ops_unregister"} :
          \/ Makes(o) \/ Fails(o) \/ Needs(o) \/ StopsWithout(o)
          \/ Gets(o) \/ Puts(o) \/ Frees(o) \/ Misuses(o)
  /\ UNCHANGED kept_vars

---------------------------------------------------------------------------------
(* From one routine to the next.                                                  *)

Begin(routine, new) ==
  /\ todo' = routine /\ phase' = new
  /\ UNCHANGED <<build, live, held, ref, failed, probed, published, listening, rst_queued, broken>>

AtRest(p) == broken = "no" /\ todo = <<>> /\ phase = p

\* The driver binds when it is registered, and later through sysfs.
Binds ==
  /\ AtRest("setup") \/ (AtRest("loaded") /\ ~probed)
  /\ binds < MaxBinds /\ binds' = binds + 1
  /\ Begin(mt_fm_probe, "probing")

\* fm_register_irq comes after the driver's registration, with the first probe in it.
Probed ==
  /\ AtRest("probing") /\ phase' = "loaded"
  /\ live' \in IF build[1] = "conninfra" /\ binds = 1 THEN {live, live \union {"irq"}} ELSE {live}
  /\ UNCHANGED <<build, todo, held, ref, failed, probed, published, listening, rst_queued, binds, broken>>

Unbinds == AtRest("loaded") /\ probed /\ binds < MaxBinds /\ Begin(mt_fm_remove, "unbinding") /\ UNCHANGED binds

Ends ==
  /\ \/ AtRest("unbinding") /\ phase' = "loaded"
     \/ AtRest("leaving") /\ phase' = "gone"
  /\ UNCHANGED <<build, todo, live, held, ref, failed, probed, published, listening, rst_queued, binds, broken>>

Exits == AtRest("loaded") /\ Begin(mt_fm_exit, "leaving") /\ UNCHANGED binds

\* fm_wholechip_rst_cb at the end of a reset; it asks only whether g_fm_struct is set.
ResetEnds ==
  /\ broken = "no" /\ listening /\ published
  /\ IF {"fm", "timer_wkthd"} \subseteq held
     THEN rst_queued' = (rst_queued \/ "rst_wk" \in held) /\ UNCHANGED broken
     ELSE broken' = "reset" /\ UNCHANGED rst_queued
  /\ UNCHANGED <<build, phase, todo, live, held, ref, failed, probed, published, listening, binds>>

WorkRuns ==
  /\ broken = "no" /\ rst_queued /\ rst_queued' = FALSE
  /\ broken' = IF {"fm", "rst_wk"} \subseteq live THEN broken ELSE "work"
  /\ UNCHANGED <<build, phase, todo, live, held, ref, failed, probed, published, listening, binds>>

Next == Step \/ Binds \/ Probed \/ Unbinds \/ Ends \/ Exits \/ ResetEnds \/ WorkRuns

Spec == Init /\ [][Next]_setup_vars

---------------------------------------------------------------------------------
Any(os) == failed \intersect os # {}

\* What the code is known to leave when the device is unbound: the two works of the
\* transmitter, which fm_dev_destroy does not know, and the event, which ERR_EXIT does not.
DeviceLeftover ==
  {"tx_power_wk", "tx_desense_wk"} \union (IF Any(Fm \ {"rds_event"}) THEN {"rds_event"} ELSE {})

\* And when the module is gone: all of the environment where there is no
\* low_ops_unregister or the platform device fails, the locks that were made before one of
\* them failed, and the pin that a second probe finds busy.
EnvLeftover ==
  (IF build[1] = "conninfra" THEN (Env \ Link) \union {"irq"} ELSE {})
    \union (IF Any({"pdev", "added", "driver"}) THEN Env ELSE {})
    \union (IF Any(Locks \ {"fm_rtc_mutex"}) THEN Locks ELSE {})
    \union (IF binds > 1 THEN {"lna"} ELSE {})

UndoneOnce == broken = "misuse" => Any((Link \ {"link_event"}) \union {"class"})

DeviceIsUndone == AtRest("loaded") /\ ~probed => live \intersect Device \subseteq DeviceLeftover

EnvIsUndone == AtRest("gone") => live \subseteq DeviceLeftover \union EnvLeftover

BoundIsComplete ==
  AtRest("loaded") /\ probed =>
    (Env \union Device) \ live \subseteq {"regs"} \union (failed \intersect {"fm_rtc_mutex", "device"})

ResetFindsAll ==
  /\ broken = "reset" => phase \in {"probing", "unbinding", "leaving"}
  /\ broken # "work"

\* Whatever fails, and whenever the driver is bound, unbound or unloaded, nothing is
\* used after it was freed (except where the link or the class fails), nothing stays
\* but what is named above, a bound driver lacks nothing that is looked at, and a reset
\* finds its thread, except while a probe or a removal is under way; the work that it
\* queues always runs on what still exists.
SetupIsUndone == UndoneOnce /\ DeviceIsUndone /\ EnvIsUndone /\ BoundIsComplete /\ ResetFindsAll
---------------------------------------------------------------------------------
(* The inductive invariant of SetupIsUndone.                                      *)

Is(y, op, o)  == y[1] = op /\ y[2] = o
Ahead(op, o)  == \E y \in SetOf(todo) : Is(y, op, o)
Undoes(y, o)  == y[1] \in {"put", "free", "drop"} /\ y[2] = o
UndoneAhead(o) == \E y \in SetOf(todo) : Undoes(y, o)

Platform == {"pdev", "added", "driver"}
Ways     == {"env", "no_event", "no_fifo", "left", "no_add", "no_driver", "no_fm", "dev", "mod"}

\* What a way has to undo.
Scope(way) ==
  CASE way \in {"env", "no_event", "no_fifo"}  -> (Env \union Platform) \ {"regs"}
    [] way \in {"left", "no_add", "no_driver"} -> Platform
    [] way = "no_fm" -> Device
    [] way = "dev"   -> Device \ {"rds_event"}
    [] way = "mod"   -> Device \ {"tx_power_wk", "tx_desense_wk"}
    [] OTHER         -> {}

\* Step y may come once o is there.
OkAfter(o, y) ==
  y[1] = "new" =>
    /\ y[2] # o
    /\ o \in Scope(y[3]) => \E z \in SetOf(Way[y[3]]) : Undoes(z, o)
    /\ y[2] = "cmd_buf" => o \notin Locks

\* Step y may come after step x.
Follows(x, y) ==
  /\ Is(x, "drop", "fm") => y[2] \notin Fm
  /\ Is(x, "put", "rst_wk") => ~Is(y, "put", "timer_wkthd")
  /\ x[1] = "orstop" =>
       /\ y[1] \in {"orstop", "put", "drop"}
       /\ y[2] \in Locks \union {"cmd_buf_lock", "cmd_buf", "fm_timer_sys", "library", "low_ops_unregister"}
  /\ Is(x, "orstop", "cmd_buf_lock") => y[2] # "cmd_buf"
  /\ Is(x, "put", "cmd_buf_lock") => ~Is(y, "orstop", "cmd_buf_lock")
  /\ x[1] = "new" => OkAfter(x[2], y)
  /\ x[1] \in {"get", "request"} => ~Is(y, x[1], x[2])
  /\ x[1] = "get" => ~Is(y, "new", x[2])
  /\ x[1] = "publish" => ~Is(y, "new", "fm")
  /\ x[1] # "bind"
  /\ Is(y, "need", "library") => x[1] # "new" \/ x[2] = "regs"
  /\ Is(y, "need", "cmd_buf_lock") => x[1] # "new" \/ x[2] \in {"regs", "cmd_buf_lock", "cmd_buf"}
  /\ y[1] = "get" /\ y[2] \in Locks =>
       x[1] # "new" \/ x[2] \in Locks \union {"regs", "cmd_buf_lock", "cmd_buf"}

InOrder(t) == \A i, j \in DOMAIN t : i < j => Follows(t[i], t[j])

\* What was freed with its pointer left is not touched.
Untouched(p, y) == y[1] \in {"put", "free", "drop"} => p \notin {y[2], Holder(y[2])}

FreedOnce(t) == \A i, j \in DOMAIN t : i < j /\ t[i][1] = "free" => Untouched(t[i][2], t[j])

\* A reference is taken at once, but for the locks'.
TakenAtOnce(t) ==
  \A i \in DOMAIN t : t[i][1] = "new" /\ t[i][2] \in Counted \ (Locks \union {"rds_data"}) =>
    i + 1 \in DOMAIN t /\ Is(t[i + 1], "get", t[i][2])

Making  == Ahead("bind", "g_fm")
Excuse  == Any((Link \ {"link_event"}) \union {"class"})

Makers  == {"new", "get", "need", "request", "publish", "listen", "bind"}
Undoers == {"put", "free", "drop", "orstop", "unpublish", "unbind"}

Fine(y) ==
  /\ y[1] = "new" =>
       /\ y[3] \in Ways \union {"go"}
       /\ y[3] = "go" <=> y[2] \in {"regs", "cmd_buf_lock", "fm_rtc_mutex", "device"}
       /\ y[3] = "dev" => y[2] \in Fm
       /\ y[3] = "no_fm" <=> y[2] = "fm"
       /\ y[3] \in {"left", "no_add", "no_driver"} <=> y[2] \in Platform
       /\ y[3] \in {"no_event", "no_fifo"} => y[2] \in Link \ {"link_event"}
       /\ y[3] \in {"dev", "mod", "no_fm"} => y[2] \in Device
       /\ y[2] \in Device => y[3] \in {"dev", "mod", "no_fm", "go"}
       /\ y[2] \in Env \union Device \union Platform
       /\ y[2] = "regs" => build[1] = "conninfra"
  /\ y[1] = "need" => y[3] = "env" /\ y[2] \in {"library", "cmd_buf_lock"}
  /\ y[1] = "get" => y[2] \in Counted \ {"rds_data"}
  /\ y[1] = "orstop" => y[2] \in {"library", "low_ops_unregister", "cmd_buf_lock"}
  /\ y[1] = "put" => y[2] \in Counted \ {"rds_data"}
  /\ y[1] = "free" => y[2] \in Link \ {"ln_event"}
  /\ y[1] = "drop" => y[2] \in (Device \ (Fm \ {"rds_data"})) \union Platform \union {"lna", "cmd_buf"}
  /\ y[1] = "request" => y[2] = "lna"
  /\ y[1] \in {"publish", "unpublish"} => y[2] = "fm"
  /\ y[1] \in {"bind", "unbind"} => y[2] = "g_fm"
  /\ y[1] = "listen" => y[2] = "callback"

IsAbout(t, ops, os) == \A y \in SetOf(t) : Fine(y) /\ y[1] \in ops /\ y[2] \in os

SetupObjects  == Env \union Platform \union {"library", "callback"}
DeviceObjects == Device \union {"lna", "g_fm"}

\* What every variable may be.
Types ==
  /\ build \in Builds
  /\ phase \in {"setup", "probing", "loaded", "unbinding", "leaving", "gone"}
  /\ todo \in Seq(SetOf(todo))
  /\ ref \in [Counted -> Int] /\ binds \in Nat
  /\ broken \in {"no", "misuse", "reset", "work"}
  /\ probed \in BOOLEAN /\ published \in BOOLEAN /\ rst_queued \in BOOLEAN

\* The steps ahead are those of the phase, in an order that may be walked.
Routine ==
  /\ \A y \in SetOf(todo) : Fine(y)
  /\ InOrder(todo) /\ TakenAtOnce(todo)
  /\ \A y \in SetOf(todo) : y[1] = "new" /\ y[2] \in Counted \ {"rds_data"} => Ahead("get", y[2])
  /\ phase = "setup" => IsAbout(todo, Makers, SetupObjects)
  /\ phase = "probing" => IsAbout(todo, IF Making THEN Makers ELSE Undoers, DeviceObjects)
  /\ phase = "unbinding" => IsAbout(todo, Undoers, DeviceObjects)
  /\ phase = "leaving" => \A y \in SetOf(todo) : y[1] \in Undoers
  /\ phase \in {"loaded", "gone"} => todo = <<>>

\* Nothing that is there is made again, and what fails from here on undoes it.
Made ==
  \A o \in (live \ DeviceLeftover) \union (held \intersect Fm) :
    \A y \in SetOf(todo) : OkAfter(o, y)

\* What is there has its pointer; what lost its memory has none but in what is excused.
Pointers ==
  /\ live \intersect (Env \union Platform) \subseteq held
  /\ live \intersect Device \subseteq held \union DeviceLeftover
  /\ held \intersect (Fm \union {"fm"}) \subseteq live
  /\ held \intersect Fm # {} => "fm" \in held
  /\ phase \notin {"leaving", "gone"} => held \intersect Env \subseteq live

\* Only the link and the class excuse a use of what was freed.
Misuse ==
  /\ broken = "misuse" => Excuse
  /\ ~Excuse =>
       /\ FreedOnce(todo)
       /\ \A p \in held \ live :
            \/ p \in {"library", "low_ops_unregister"}
            \/ /\ p \in {"evt_fifo", "cmd_fifo", "link_event"} /\ phase \in {"leaving", "gone"}
               /\ \A y \in SetOf(todo) : Untouched(p, y)

\* A reference is one from when it is taken.
References ==
  /\ \A o \in held \intersect (Counted \ {"rds_data"}) :
       \/ o \in Locks /\ Any(Locks \ {"fm_rtc_mutex"})
       \/ ref[o] = IF Ahead("get", o) THEN 0 ELSE 1
  /\ \A y \in SetOf(todo) : y[1] = "get" => y[2] \in Locks \/ Ahead("new", y[2]) \/ y = todo[1]

\* The device is there, or on its way without a step having failed.
Complete == Making \/ (probed /\ todo = <<>>)

\* What is there of the device is to be undone, unless it is complete.
DeviceInv ==
  /\ \A o \in (live \intersect Device) \ DeviceLeftover : Complete \/ UndoneAhead(o)
  /\ Complete => \A o \in Device : o \in live \/ Ahead("new", o) \/ (o = "device" /\ o \in failed)
  /\ probed => phase = "loaded" \/ (phase = "probing" /\ todo = <<>>) \/ Ahead("unbind", "g_fm")
  /\ published => \/ Complete /\ ~Ahead("new", "fm")
                  \/ Ahead("unpublish", "fm")

\* The same for what outlives a binding; and what the library and the command buffer's lock carry.
EnvInv ==
  /\ phase \notin {"leaving", "gone"} =>
       /\ \A o \in Env : o \in live \/ Ahead("new", o) \/ o \in {"regs", "cmd_buf_lock"}
                        \/ (o = "fm_rtc_mutex" /\ o \in failed)
       /\ "cmd_buf_lock" \in live \/ Ahead("need", "cmd_buf_lock")
  /\ phase \in {"leaving", "gone"} =>
       \A o \in live \intersect (Env \union Platform) : o \in EnvLeftover \/ UndoneAhead(o)
  /\ "library" \notin held =>
       /\ live \intersect (Env \union Platform) \subseteq {"regs"}
       /\ phase \in {"leaving", "gone"} \/ (phase = "setup" /\ Ahead("need", "library"))
  /\ "cmd_buf_lock" \notin held =>
       \/ /\ live \intersect (Env \union Platform) \subseteq {"regs", "cmd_buf"}
          /\ phase = "setup" /\ Ahead("need", "cmd_buf_lock")
       \/ /\ phase \in {"leaving", "gone"}
          /\ Ahead("orstop", "cmd_buf_lock") => live \intersect (Env \union Platform) \subseteq {"regs", "cmd_buf"}
  /\ "low_ops_unregister" \in held <=> build[1] = "wmt"
  /\ live \intersect {"regs", "irq"} # {} => build[1] = "conninfra"

\* The first binding has the LNA to itself.
LnaInv ==
  /\ binds = 0 => "lna" \notin live
  /\ phase = "probing" => binds # 0
  /\ binds <= 1 /\ Ahead("request", "lna") => "lna" \notin live
  /\ binds <= 1 /\ "lna" \in live =>
       "lna" \in held /\ (phase \in {"probing", "loaded", "unbinding"} \/ UndoneAhead("lna"))

\* Nothing else is ever made.
Known == live \subseteq Env \union Device \union Platform \union {"lna", "irq"}

\* A reset is queued to a thread that is there.
ResetInv ==
  /\ rst_queued => {"fm", "timer_wkthd", "rst_wk"} \subseteq live
  /\ ResetFindsAll

IInv ==
  /\ Types /\ Routine /\ Made /\ Pointers /\ Misuse /\ References
  /\ DeviceInv /\ EnvInv /\ LnaInv /\ Known /\ ResetInv
===============================================================================
