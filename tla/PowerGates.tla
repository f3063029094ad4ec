----------------------------- MODULE PowerGates -----------------------------
(***************************************************************************)
(* The MT6768 power gates of ports/TODO/clk-mt6768/clk-mt6768-pg.c: thirteen *)
(* power domains, the register sequences that turn each of them on and off, *)
(* and the clk_ops that run them for the clock framework.                  *)
(*                                                                         *)
(* A sequence is a list of steps, one for each register write and each busy *)
(* wait; a step is <<what, bits>>.  The clock framework (external) keeps a  *)
(* prepare count per gate, prepares a parent before its child and holds one *)
(* lock over the whole call, so one call runs at a time; the busy waits run *)
(* under a spinlock, and a wait the hardware never answers is a hang.       *)
(***************************************************************************)
EXTENDS Naturals, Sequences, FiniteSets

CONSTANTS Teams,     \* bound: the sets of gates that have users in one behaviour
          MaxFails   \* bound: pre-clocks that fail to enable

STA_POWER_DOWN == 0
STA_POWER_ON   == 1

Domains == {"md1", "conn", "dpy", "dis", "mfg", "isp", "ifr", "core0",
            "core1", "async", "cam", "ven", "vde"}

-----------------------------------------------------------------------------
(* The steps.                                                              *)

Set(b)   == << <<"set", {b}>> >>
Clr(b)   == << <<"clr", {b}>> >>
Open(p)  == << <<"open", p>> >>
Wait(s)  == << <<"wait", {s}>> >>
Fence(p) == << <<"fence", p>>, <<"acked", p>> >>

\* Bits of PROTECTEN, of PROTECTEN_1 and of the SMI clamp.
En(S)  == {"en"} \X S
En1(S) == {"en1"} \X S
Smi(S) == {"smi"} \X S

\* All SRAM banks off at once and one wait; on one bank at a time.
Bank == <<"sram0", "sram1", "sram2", "sram3">>
Banks(n) == {Bank[i] : i \in 1..n}
SramDown(n) == << <<"set", Banks(n)>>, <<"asleep", Banks(n)>> >>
SramUp(n) ==
  [i \in 1..(2 * n) |-> IF i % 2 = 1 THEN <<"clr", {Bank[(i + 1) \div 2]}>>
                                     ELSE <<"awake", {Bank[i \div 2]}>>]

PwrDown == Set("iso") \o Set("clkdis") \o Clr("rstb")
             \o Clr("on") \o Clr("on2nd") \o Wait("off")
PwrUp   == Set("on") \o Set("on2nd") \o Wait("on")
             \o Clr("clkdis") \o Clr("iso") \o Set("rstb")

-----------------------------------------------------------------------------
(* The sequences, one operator per function of the source.                 *)

md1_bus_prot(state) ==
  IF state = STA_POWER_DOWN
  THEN Fence(En({7})) \o Fence(En({3, 4})) \o Fence(En1({6}))
  ELSE Open(En({3, 4})) \o Open(En1({6})) \o Open(En({7}))

md1_pwr(state) ==
  IF state = STA_POWER_DOWN
  THEN Set("extra") \o Set("clkdis") \o Set("iso") \o Clr("sramiso")
         \o Set("sram0") \o Clr("on") \o Clr("on2nd") \o Wait("off")
  ELSE Clr("rstb") \o Set("on") \o Set("on2nd") \o Wait("on") \o Clr("sram0")
         \o Set("sramiso") \o Clr("iso") \o Clr("clkdis") \o Set("rstb") \o Clr("extra")

conn_bus_prot(state) ==
  IF state = STA_POWER_DOWN
  THEN Fence(En({13})) \o Fence(En1({18})) \o Fence(En({14, 16}))
  ELSE Open(En({14, 16})) \o Open(En({13})) \o Open(En1({18}))

conn_pwr(state) == IF state = STA_POWER_DOWN THEN PwrDown ELSE PwrUp

dpy_bus_prot(state) ==
  IF state = STA_POWER_DOWN
  THEN Fence(En({0, 5, 23, 26})) \o Fence(En1(10..17))
         \o Fence(En({1, 2, 3, 4, 10, 11, 21, 22}))
  ELSE Open(En({1, 2, 3, 4, 10, 11, 21, 22})) \o Open(En({0, 5, 23, 26}))
         \o Open(En1(10..17))

dpy_pwr(state) ==
  IF state = STA_POWER_DOWN THEN SramDown(4) \o PwrDown ELSE PwrUp \o SramUp(4)

dis_bus_prot(state) ==
  IF state = STA_POWER_DOWN
  THEN Fence(En1({19, 20, 30, 31})) \o Fence(En1({16, 17})) \o Fence(En({10, 11}))
         \o Fence(En({1, 2})) \o SramDown(1)
  ELSE SramUp(1) \o Open(En({1, 2})) \o Open(En({10, 11})) \o Open(En1({16, 17}))
         \o Open(En1({19, 20, 30, 31}))

dis_pwr(state) == IF state = STA_POWER_DOWN THEN PwrDown ELSE PwrUp

\* Plausible bug: the second release on the way up is forgotten.
MfgOpensOne(state) ==
  IF state = STA_POWER_DOWN
  THEN Fence(En({25})) \o Fence(En({21, 22})) \o SramDown(1)
  ELSE SramUp(1) \o Open(En({21, 22}))

mfg_bus_prot(state) ==
  IF state = STA_POWER_DOWN
  THEN Fence(En({25})) \o Fence(En({21, 22})) \o SramDown(1)
  ELSE SramUp(1) \o Open(En({21, 22})) \o Open(En({25}))

mfg_pwr(state) == IF state = STA_POWER_DOWN THEN PwrDown ELSE PwrUp

isp_bus_prot(state) ==
  IF state = STA_POWER_DOWN
  THEN Fence(En1({20})) \o Fence(Smi({2})) \o SramDown(1)
  ELSE SramUp(1) \o Open(Smi({2})) \o Open(En1({20}))

isp_pwr(state) == IF state = STA_POWER_DOWN THEN PwrDown ELSE PwrUp

ifr_pwr(state) ==
  IF state = STA_POWER_DOWN THEN SramDown(1) \o PwrDown ELSE PwrUp \o SramUp(1)

mfg_core0_pwr(state) ==
  IF state = STA_POWER_DOWN THEN SramDown(1) \o PwrDown ELSE PwrUp \o SramUp(1)

mfg_core1_pwr(state) ==
  IF state = STA_POWER_DOWN THEN SramDown(1) \o PwrDown ELSE PwrUp \o SramUp(1)

mfg_async_pwr(state) == IF state = STA_POWER_DOWN THEN PwrDown ELSE PwrUp

cam_bus_prot(state) ==
  IF state = STA_POWER_DOWN
  THEN Fence(En1({19, 21})) \o Fence(En({20})) \o Fence(Smi({3})) \o SramDown(2)
  ELSE SramUp(2) \o Open(En({20})) \o Open(Smi({3})) \o Open(En1({19, 21}))

cam_pwr(state) == IF state = STA_POWER_DOWN THEN PwrDown ELSE PwrUp

ven_bus_prot(state) ==
  IF state = STA_POWER_DOWN
  THEN Fence(En1({31})) \o Fence(Smi({4})) \o SramDown(1)
  ELSE SramUp(1) \o Open(Smi({4})) \o Open(En1({31}))

ven_pwr(state) == IF state = STA_POWER_DOWN THEN PwrDown ELSE PwrUp

vde_bus_prot(state) ==
  IF state = STA_POWER_DOWN
  THEN Fence(En1({30})) \o Fence(Smi({1})) \o SramDown(1)
  ELSE SramUp(1) \o Open(Smi({1})) \o Open(En1({30}))

vde_pwr(state) == IF state = STA_POWER_DOWN THEN PwrDown ELSE PwrUp

-----------------------------------------------------------------------------
(* The operations of each domain, and the tables of the gates.             *)

\* .enable and .disable of the subsys_ops
ctrl_pwr(d, state) ==
  CASE d = "md1" -> md1_pwr(state)  [] d = "conn" -> conn_pwr(state)
    [] d = "dpy" -> dpy_pwr(state)  [] d = "dis" -> dis_pwr(state)
    [] d = "mfg" -> mfg_pwr(state)  [] d = "isp" -> isp_pwr(state)
    [] d = "ifr" -> ifr_pwr(state)  [] d = "core0" -> mfg_core0_pwr(state)
    [] d = "core1" -> mfg_core1_pwr(state) [] d = "async" -> mfg_async_pwr(state)
    [] d = "cam" -> cam_pwr(state)  [] d = "ven" -> ven_pwr(state)
    [] d = "vde" -> vde_pwr(state)

\* .prepare and .unprepare; the domains without them have no fence
ctrl_bus_prot(d, state) ==
  CASE d = "md1" -> md1_bus_prot(state) [] d = "conn" -> conn_bus_prot(state)
    [] d = "dpy" -> dpy_bus_prot(state) [] d = "dis" -> dis_bus_prot(state)
    [] d = "mfg" -> mfg_bus_prot(state) [] d = "isp" -> isp_bus_prot(state)
    [] d = "cam" -> cam_bus_prot(state) [] d = "ven" -> ven_bus_prot(state)
    [] d = "vde" -> vde_bus_prot(state)
    [] OTHER -> << >>

HasBus(d) == d \notin {"ifr", "core0", "core1", "async"}

\* scp_clks: the parent gate of each gate
Parent(d) ==
  CASE d = "mfg" -> "async"
    [] d \in {"core0", "core1"} -> "mfg"
    [] d \in {"isp", "cam", "ven", "vde"} -> "dis"
    [] OTHER -> "none"

\* Plausible bug: the clocks of the display and of the GPU are exchanged.
WrongSel(d) ==
  CASE d = "dis" -> <<"mfg_sel">> [] d = "async" -> <<"mm_sel">> [] OTHER -> << >>

\* pre_clk1 is enabled before the power, pre_clk2 between power and bus
pre_clk1(d) ==
  CASE d = "dis" -> <<"mm_sel">> [] d = "async" -> <<"mfg_sel">> [] OTHER -> << >>

pre_clk2(d) ==
  CASE d = "dis" -> <<"mm_smi_common", "mm_smi_comm0", "mm_smi_comm1",
                      "mm_smi_larb0", "mm_cam_mdp_ck">>
    [] d = "isp" -> <<"img_larb2", "mm_smi_img_ck", "img_dip", "img_fdvt", "img_dpe">>
    [] d = "cam" -> <<"cam_larb3", "cam_dfp_vad", "cam", "cam_ccu", "mm_smi_cam_ck">>
    [] d = "ven" -> <<"venc_set1_venc">>
    [] d = "vde" -> <<"vdec_cken", "vdec_active", "vdec_cken_eng", "vdec_larb1_cken">>
    [] OTHER -> << >>

Named(s) == {s[i] : i \in 1..Len(s)}
Clocks == UNION {Named(pre_clk1(d)) \cup Named(pre_clk2(d)) : d \in Domains}

\* What the steps of one kind in a sequence name; the fence bits a domain sets.
Done(s, what) == UNION {s[i][2] : i \in {j \in DOMAIN s : s[j][1] = what}}
Bits(d) == Done(ctrl_bus_prot(d, STA_POWER_DOWN), "fence")

-----------------------------------------------------------------------------
VARIABLES
  con,     \* the bits that are 1 in each domain's control register
  prot,    \* the fence bits that are set
  clks,    \* enable count of each pre-clock
  count,   \* the framework's prepare count of each gate
  team,    \* the gates that have users
  held,    \* the gates users have prepared
  told,    \* domains between after_on and before_off
  job,     \* the call in progress
  bare,    \* md1 was powered down by the initialisation alone
  fails

vars == <<con, prot, clks, count, team, held, told, job, bare, fails>>

Idle == [kind |-> "none"]
Gate == Head(job.gates)

\* sys_get_state_op
Powered(d) == {"on", "on2nd"} \subseteq con[d]

Working == {"on", "on2nd", "rstb"}
Rams(d)   == CASE d = "dpy" -> 4 [] d = "cam" -> 2 [] d \in {"conn", "async"} -> 0 [] OTHER -> 1
Asleep(d) == {"iso", "clkdis"} \cup Banks(Rams(d))

\* The bootloader leaves the always-on domains up, the panel's and the modem's
\* as it used them, and the rest down behind their fences.
Init ==
  /\ \E up \in {{"dpy", "ifr"} \cup x : x \in SUBSET {"dis", "md1"}} :
       /\ con = [d \in Domains |->
                   IF d \in up THEN IF d = "md1" THEN Working \cup {"sramiso"} ELSE Working
                   ELSE IF d = "md1" THEN {"extra", "clkdis", "iso", "sram0", "rstb"}
                   ELSE Asleep(d)]
       /\ prot = (UNION {Bits(d) : d \in Domains \ up})
                   \ (IF "dis" \in up THEN Bits("dis") ELSE {})
  /\ clks = [c \in Clocks |-> 0]
  /\ count = [d \in Domains |-> 0]
  /\ team \in Teams
  /\ held = {}
  /\ told = {}
  /\ bare = TRUE
  /\ fails = 0
  /\ job = [kind |-> "init", steps |-> md1_pwr(STA_POWER_DOWN), gates |-> <<"md1">>]

-----------------------------------------------------------------------------
(* Running a sequence.                                                     *)

Step1 == Head(job.steps)

\* The SRAM delay cells of these domains need a running clock.
Clocked(d) ==
  /\ d \in {"dis", "isp", "ven"} => clks["mm_sel"] > 0
  /\ d = "mfg" => clks["mfg_sel"] > 0

\* What the hardware has answered, or will answer by itself.
Answered(d, s) ==
  CASE s[1] = "acked"  -> s[2] \subseteq prot
    [] s[1] = "asleep" -> s[2] \subseteq con[d] /\ Clocked(d)
    [] s[1] = "awake"  -> s[2] \cap con[d] = {} /\ Clocked(d)
    [] s[1] = "wait"   -> IF s[2] = {"on"} THEN Powered(d)
                                           ELSE {"on", "on2nd"} \cap con[d] = {}
    [] OTHER -> TRUE

RunStep ==
  /\ job.kind # "none" /\ job.steps # << >>
  /\ Answered(Gate, Step1)
  /\ con' = CASE Step1[1] = "set" -> [con EXCEPT ![Gate] = @ \cup Step1[2]]
              [] Step1[1] = "clr" -> [con EXCEPT ![Gate] = @ \ Step1[2]]
              [] OTHER -> con
  /\ prot' = CASE Step1[1] = "fence" -> prot \cup Step1[2]
               [] Step1[1] = "open" -> prot \ Step1[2]
               [] OTHER -> prot
  /\ job' = [job EXCEPT !.steps = Tail(@)]
  /\ UNCHANGED <<team, clks, count, held, told, bare, fails>>

InitDone ==
  /\ job.kind = "init" /\ job.steps = << >>
  /\ job' = Idle
  /\ UNCHANGED <<team, con, prot, clks, count, held, told, bare, fails>>

-----------------------------------------------------------------------------
(* clk_prepare of a gate: its unprepared ancestors first, then pg_prepare.  *)

Call(kind, gates, user) ==
  [kind |-> kind, gates |-> gates, stage |-> "enter", steps |-> << >>,
   skip |-> FALSE, err1 |-> FALSE, err3 |-> FALSE, user |-> user]

GatesToPrepare(d) ==
  LET p == Parent(d)
      pp == Parent(p)
  IN CASE count[d] > 0 -> << >>
       [] count[d] = 0 /\ (p = "none" \/ count[p] > 0) -> <<d>>
       [] count[d] = 0 /\ p # "none" /\ count[p] = 0 /\ (pp = "none" \/ count[pp] > 0) -> <<p, d>>
       [] OTHER -> <<pp, p, d>>

Prepare(d) ==
  /\ job = Idle /\ d \in team \ held
  /\ LET todo == GatesToPrepare(d)
     IN IF todo = << >>
        THEN /\ count' = [count EXCEPT ![d] = @ + 1]
             /\ held' = held \cup {d}
             /\ job' = Idle
        ELSE /\ count' = [g \in Domains |->
                            IF g = Parent(Head(todo)) THEN count[g] + 1 ELSE count[g]]
             /\ job' = Call("prepare", todo, d)
             /\ UNCHANGED held
  /\ UNCHANGED <<team, con, prot, clks, told, bare, fails>>

\* One of the do/while loops: the clocks of a list in turn, until one fails.
EnableList(list, ok) ==
  \E k \in (IF ok THEN {Len(list)} ELSE 0..(Len(list) - 1)) :
    clks' = [c \in Clocks |-> IF \E i \in 1..k : list[i] = c THEN clks[c] + 1 ELSE clks[c]]

MayFail(ok) == IF ok THEN fails' = fails ELSE fails < MaxFails /\ fails' = fails + 1

PreparePower ==
  /\ job.kind = "prepare" /\ job.stage = "enter"
  /\ \E ok \in BOOLEAN :
       /\ EnableList(pre_clk1(Gate), ok) /\ MayFail(ok)
       /\ job' = [job EXCEPT !.stage = "power", !.skip = Powered(Gate), !.err1 = ~ok,
                    !.steps = IF Powered(Gate) THEN << >>
                              ELSE ctrl_pwr(Gate, STA_POWER_ON)]
  /\ UNCHANGED <<team, con, prot, count, held, told, bare>>

PrepareBus ==
  /\ job.kind = "prepare" /\ job.stage = "power" /\ job.steps = << >>
  /\ \E ok \in BOOLEAN :
       /\ EnableList(pre_clk2(Gate), ok) /\ MayFail(ok)
       /\ job' = [job EXCEPT !.stage = "bus", !.err3 = ~ok,
                    !.steps = IF job.skip THEN << >>
                              ELSE ctrl_bus_prot(Gate, STA_POWER_ON)]
  /\ bare' = (bare /\ Gate # "md1")
  /\ UNCHANGED <<team, con, prot, count, held, told>>

AfterOn ==
  /\ job.kind = "prepare" /\ job.stage = "bus" /\ job.steps = << >>
  /\ told' = IF HasBus(Gate) /\ ~job.skip THEN told \cup {Gate} ELSE told
  /\ UNCHANGED <<team, con, prot, clks, bare, fails>>
  /\ IF job.err1 \/ job.err3
     THEN LET p == Parent(Gate)
          IN \* the framework gives the parent back
             IF p # "none" /\ count[p] = 1
             THEN /\ count' = [count EXCEPT ![p] = 0]
                  /\ job' = Call("unprepare", <<p>>, p)
                  /\ UNCHANGED held
             ELSE /\ count' = [g \in Domains |-> IF g = p THEN count[g] - 1 ELSE count[g]]
                  /\ job' = Idle
                  /\ UNCHANGED held
     ELSE /\ count' = [count EXCEPT ![Gate] = 1]
          /\ held' = IF Gate = job.user THEN held \cup {Gate} ELSE held
          /\ job' = IF Gate = job.user THEN Idle
                    ELSE Call("prepare", Tail(job.gates), job.user)

-----------------------------------------------------------------------------
(* clk_unprepare: pg_unprepare at the last reference, then the parent.      *)

Drop(d) ==
  IF count[d] = 1 THEN job' = Call("unprepare", <<d>>, d) ELSE job' = Idle

Unprepare(d) ==
  /\ job = Idle /\ d \in held
  /\ held' = held \ {d}
  /\ count' = [count EXCEPT ![d] = @ - 1]
  /\ Drop(d)
  /\ UNCHANGED <<team, con, prot, clks, told, bare, fails>>

\* Plausible bug: the fence goes up only where a client was told of the power.
FenceIfTold ==
  /\ job.kind = "unprepare" /\ job.stage = "enter"
  /\ told' = told \ {Gate}
  /\ job' = [job EXCEPT !.stage = "bus", !.skip = ~Powered(Gate),
               !.steps = IF Gate \in told THEN ctrl_bus_prot(Gate, STA_POWER_DOWN)
                         ELSE << >>]
  /\ UNCHANGED <<team, con, prot, clks, count, held, bare, fails>>

BeforeOff ==
  /\ job.kind = "unprepare" /\ job.stage = "enter"
  /\ told' = IF HasBus(Gate) /\ Powered(Gate) THEN told \ {Gate} ELSE told
  /\ job' = [job EXCEPT !.stage = "bus", !.skip = ~Powered(Gate),
               !.steps = IF Powered(Gate) THEN ctrl_bus_prot(Gate, STA_POWER_DOWN)
                         ELSE << >>]
  /\ UNCHANGED <<team, con, prot, clks, count, held, bare, fails>>

DisableList(list) ==
  clks' = [c \in Clocks |-> IF c \in Named(list) /\ clks[c] > 0 THEN clks[c] - 1 ELSE clks[c]]

UnpreparePower ==
  /\ job.kind = "unprepare" /\ job.stage = "bus" /\ job.steps = << >>
  /\ DisableList(pre_clk2(Gate))
  /\ job' = [job EXCEPT !.stage = "power",
               !.steps = IF job.skip THEN << >> ELSE ctrl_pwr(Gate, STA_POWER_DOWN)]
  /\ UNCHANGED <<team, con, prot, count, held, told, bare, fails>>

Unprepared ==
  /\ job.kind = "unprepare" /\ job.stage = "power" /\ job.steps = << >>
  /\ DisableList(pre_clk1(Gate))
  /\ LET p == Parent(Gate)
     IN IF p = "none" THEN count' = count /\ job' = Idle
        ELSE count' = [count EXCEPT ![p] = @ - 1] /\ Drop(p)
  /\ UNCHANGED <<team, con, prot, held, told, bare, fails>>

Next ==
  \/ RunStep \/ InitDone
  \/ PreparePower \/ PrepareBus \/ AfterOn
  \/ BeforeOff \/ UnpreparePower \/ Unprepared
  \/ \E d \in Domains : Prepare(d) \/ Unprepare(d)

Spec == Init /\ [][Next]_vars

-----------------------------------------------------------------------------
(* Properties.                                                             *)

Up(d) == Powered(d) /\ con[d] \cap {"iso", "clkdis", "rstb"} = {"rstb"}

\* A domain without power is behind its fence.  Whatever was turned on, off or
\* left half-way, every fence bit of a domain that is not powered is set,
\* except the bits it shares with a domain that is (dis opens bits of its
\* children, dpy those of dis, mfg and md1) and md1 before its first prepare,
\* which the initialisation powers down without a fence.
OffIsFenced ==
  \A d \in Domains : (~Powered(d) /\ ~(d = "md1" /\ bare)) =>
    \A b \in Bits(d) : b \in prot \/ \E e \in Domains \ {d} : Powered(e) /\ b \in Bits(e)

\* A gate users hold, and a domain whose clients were told that it is on, works
\* and can be reached: power, clock, reset and SRAM are in their working state
\* and every fence bit that is set belongs to some domain that is down or on its
\* way up or down.
InUseIsReachable ==
  \A d \in held \cup told :
    /\ Up(d) /\ con[d] \cap Banks(4) = {}
    /\ \A b \in Bits(d) \cap prot : \E e \in Domains \ {d} :
         b \in Bits(e) /\ (~Up(e) \/ (job # Idle /\ e = Gate))

\* No busy wait under the spinlock is for something the hardware will not
\* answer: a power state the control bits do not ask for, a fence that is not
\* set, or an SRAM whose delay cells have no clock ("Need hf_fmm_ck", "Need
\* f_fmfg_core_ck").  A pre_clk1 clock that failed to enable is excepted:
\* pg_prepare goes on without it.
WaitsCanEnd ==
  (job.kind # "none" /\ job.steps # << >>) =>
     Answered(Gate, Step1) \/ (job.kind = "prepare" /\ job.err1)

-----------------------------------------------------------------------------
(* Why they hold: what a sequence leaves standing after any part of it.     *)

\* What a step does to a bit, what undoes it, and what a wait asks to be done.
Is(what, b) ==
  CASE what = "set" -> b \in con[Gate]  [] what = "clr" -> b \notin con[Gate]
    [] what = "fence" -> b \in prot     [] OTHER -> b \notin prot
Undoes(what) ==
  CASE what = "set" -> "clr" [] what = "clr" -> "set" [] what = "fence" -> "open" [] OTHER -> "fence"
Waits == {"wait", "acked", "asleep", "awake"}
Asked(s) == IF s[1] = "wait" THEN {"on", "on2nd"} ELSE s[2]
AskedTo(s) ==
  CASE s[1] = "acked" -> "fence" [] s[1] = "asleep" -> "set" [] s[1] = "awake" -> "clr"
    [] OTHER -> IF s[2] = {"on"} THEN "set" ELSE "clr"

\* What a wait asks for has been done, or will be by a step before it, and not undone.
WaitsAreLed ==
  job.kind # "none" => \A i \in DOMAIN job.steps :
    LET s == job.steps[i] IN s[1] \in Waits =>
      \A b \in Asked(s) :
        /\ b \notin Done(job.steps, Undoes(AskedTo(s)))
        /\ \/ Is(AskedTo(s), b)
           \/ \E j \in 1..(i - 1) : job.steps[j][1] = AskedTo(s) /\ b \in job.steps[j][2]

\* The rest of the sequence ends with this done.
Comes(what, b) == b \notin Done(job.steps, Undoes(what)) /\ (Is(what, b) \/ b \in Done(job.steps, what))
Never(kinds) == \A k \in kinds : Done(job.steps, k) = {}

\* A gate is at work from the first step of its sequence to the last.  One that is
\* powered and at rest works, and what is fenced of it belongs to another.
Busy(d)  == job # Idle /\ d = Gate /\ (job.kind = "init" \/ (job.stage # "enter" /\ ~job.skip))
Clean(d) == Up(d) /\ con[d] \cap Banks(4) = {}
Reached(d) ==
  \A b \in Bits(d) \cap prot : \E e \in Domains \ {d} : b \in Bits(e) /\ (~Up(e) \/ Busy(e))
RestIsClean == \A d \in Domains : Powered(d) /\ ~Busy(d) => Clean(d) /\ Reached(d)

\* A prepare count is at least the users and the gates below that hold the gate, and
\* what is counted, or was told, has power.
One(p) == IF p THEN 1 ELSE 0
Holds(d) == count[d] > 0 \/ (job.kind \in {"prepare", "unprepare"} /\ d = Gate)
Load(d) ==
  One(d \in held) +
    CASE d = "async" -> One(Holds("mfg"))
      [] d = "mfg" -> One(Holds("core0")) + One(Holds("core1"))
      [] d = "dis" -> One(Holds("isp")) + One(Holds("cam")) + One(Holds("ven")) + One(Holds("vde"))
      [] OTHER -> 0
Counted == \A d \in Domains : Load(d) <= count[d]
CountedIsOn == \A d \in Domains : count[d] > 0 \/ d \in told => Powered(d) /\ ~Busy(d)

\* The SRAM clock of the display and of the GPU runs while anything below asks for it.
Needs(d) ==
  \/ count[d] > 0
  \/ job.kind = "unprepare" /\ d = Gate
  \/ job.kind = "prepare" /\ d = Gate /\ job.stage # "enter" /\ ~job.err1
ClocksRun ==
  /\ Needs("dis") => clks["mm_sel"] > 0
  /\ Needs("async") => clks["mfg_sel"] > 0

\* The domains whose SRAM is switched with the power, not with the fence.
RamWithPower == {"md1", "dpy", "ifr", "core0", "core1"}

\* What each kind of call finds and has still to do.
InitGoesOn ==
  job.kind = "init" =>
    /\ held = {} /\ told = {} /\ bare /\ \A d \in Domains : count[d] = 0
    /\ Never({"fence", "open"}) /\ Comes("clr", "on")
    /\ Done(job.steps, "set") \cap Banks(4) \subseteq Banks(1)
    /\ \A d \in Domains \ {"md1"} : ~Powered(d) => \A b \in Bits(d) :
         b \in prot \/ \E e \in Domains \ {d, "md1"} : Powered(e) /\ b \in Bits(e)

PathTo(d) == {<<d>>, <<Parent(d), d>>, <<Parent(Parent(d)), Parent(d), d>>}

PowerComes ==
  /\ Never({"fence", "open"}) /\ Done(job.steps, "set") \cap Banks(4) = {}
  /\ Comes("set", "on") /\ Comes("set", "on2nd") /\ Comes("clr", "iso") /\ Comes("clr", "clkdis")
  /\ \/ Comes("set", "rstb")
     \/ /\ job.steps # << >> /\ Step1 = <<"clr", {"rstb"}>> /\ "rstb" \in Done(job.steps, "set")
        /\ "rstb" \notin Done(Tail(job.steps), "clr")
  /\ Gate \in RamWithPower => \A b \in Banks(Rams(Gate)) : Comes("clr", b)

BusComes ==
  /\ Up(Gate) /\ Never({"set", "fence"})
  /\ Done(job.steps, "clr") \subseteq Banks(4) /\ Done(job.steps, "open") \subseteq Bits(Gate)
  /\ \A b \in Banks(Rams(Gate)) : Comes("clr", b)
  /\ \A b \in Bits(Gate) : Comes("open", b)

PrepareGoesOn ==
  job.kind = "prepare" =>
    /\ job.user \in Domains /\ job.gates \in PathTo(job.user)
    /\ \A i \in DOMAIN job.gates : job.gates[i] \in Domains /\ count[job.gates[i]] = 0
    /\ job.stage = "enter" => job.steps = << >>
    /\ job.stage # "enter" /\ job.skip => job.steps = << >> /\ Powered(Gate)
    /\ job.stage = "power" /\ ~job.skip => PowerComes
    /\ job.stage = "bus" /\ ~job.skip => BusComes

FenceComes ==
  /\ Powered(Gate) /\ Never({"clr", "open"})
  /\ Done(job.steps, "set") \subseteq Banks(Rams(Gate)) /\ Done(job.steps, "fence") \subseteq Bits(Gate)
  /\ \A b \in Bits(Gate) : Comes("fence", b)

PowerGoes ==
  /\ Bits(Gate) \subseteq prot /\ Never({"fence", "open"})
  /\ Comes("clr", "on") /\ Comes("set", "iso")
  /\ Done(job.steps, "set") \cap Banks(4) \subseteq Banks(Rams(Gate))

UnprepareGoesOn ==
  job.kind = "unprepare" =>
    /\ Gate \in Domains /\ job.gates = <<Gate>> /\ count[Gate] = 0 /\ ~job.skip
    /\ job.stage = "enter" => job.steps = << >> /\ Powered(Gate)
    /\ job.stage = "bus" => FenceComes
    /\ job.stage = "power" => PowerGoes

\* What every step keeps.
Bit   == {"on", "on2nd", "off", "iso", "clkdis", "rstb", "extra", "sramiso"} \cup Banks(4)
           \cup ({"en", "en1", "smi"} \X Nat)
Steps == (Waits \cup {"set", "clr", "fence", "open"}) \X SUBSET Bit
Jobs  == {Idle} \cup [kind : {"init"}, steps : Seq(Steps), gates : {<<"md1">>}]
  \cup [kind : {"prepare", "unprepare"}, gates : Seq(Domains), stage : {"enter", "power", "bus"},
        steps : Seq(Steps), skip : BOOLEAN, err1 : BOOLEAN, err3 : BOOLEAN, user : Domains]
Types ==
  /\ con \in [Domains -> SUBSET Bit] /\ prot \subseteq Bit
  /\ \A d \in Domains : con[d] \cap Banks(4) \subseteq Banks(Rams(d))
  /\ clks \in [Clocks -> Nat] /\ count \in [Domains -> Nat]
  /\ held \subseteq Domains /\ told \subseteq {d \in Domains : HasBus(d)}
  /\ job \in Jobs

IInv ==
  /\ Types /\ WaitsAreLed /\ RestIsClean /\ Counted /\ CountedIsOn /\ ClocksRun
  /\ InitGoesOn /\ PrepareGoesOn /\ UnprepareGoesOn /\ OffIsFenced
=============================================================================
