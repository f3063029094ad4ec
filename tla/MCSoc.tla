--------------------------------- MODULE MCSoc ---------------------------------
(* The vendor drivers of the SoC's power gates (PowerGates) and of the SIA81xx     *)
(* amplifiers: their power (SiaAmp), their timer task (SiaTimer), and the two     *)
(* links to the calibration (SiaMailbox, SiaAfe).  A behaviour follows one of     *)
(* them, its subject.                                                            *)
(*                                                                             *)
(* The users of the gates are the camera pipeline and the codecs on top of the    *)
(* display, the GPU, the modem side, and the domains that share fences.  The      *)
(* amplifiers have every chip with pins, and the 8109 also without.               *)
EXTENDS PowerGates, TLC

CONSTANTS Callers, Clients, Threads, Units, Files, Scenes, Users, Params, Daemons, MaxCmds, Normal

ASSUME NormalIsPositive == Normal \in Nat \ {0}

VARIABLES subject,
  kind, rst, conf, chipon, removed, todo, goal, mixed, late,
  task_state, switch_flag, proc, thread, info, since, crowded, sent, hdl, backup,
  unit, handle, req, picked, misled,
  apr, block, mmap, busy, call, stage, waits, afe_sent, pending, heard, trusted

MCTeams == { {"isp", "cam"}, {"ven", "vde"}, {"core0", "core1"}, {"mfg", "dpy"},
             {"md1", "conn", "ifr"}, {"dpy", "dis", "md1"} }

AllKinds == {[chip |-> c, pins |-> TRUE] : c \in {"sia8101", "sia8108", "sia8109"}}
            \union {[chip |-> "sia8109", pins |-> FALSE]}

Amp     == INSTANCE SiaAmp WITH Kinds <- AllKinds
Timer   == INSTANCE SiaTimer
Mailbox == INSTANCE SiaMailbox
Afe     == INSTANCE SiaAfe WITH sent <- afe_sent

amp_vars   == <<kind, rst, conf, chipon, removed, todo, goal, mixed, late>>
timer_vars == <<task_state, switch_flag, proc, thread, info, since, crowded, sent, hdl, backup>>
mail_vars  == <<unit, handle, req, picked, misled>>
afe_vars   == <<apr, block, mmap, busy, call, stage, waits, afe_sent, pending, heard, trusted>>

MCInit ==
  /\ subject \in {"gates", "amp", "timer", "mailbox", "afe"}
  /\ Init /\ Amp!Init /\ Timer!Init /\ Mailbox!Init /\ Afe!Init
  /\ subject # "gates" => team = {"isp", "cam"} /\ Powered("dis") /\ Powered("md1")
  /\ subject # "amp" => kind = CHOOSE k \in AllKinds : TRUE

GatesNext   == subject = "gates" /\ Next /\ UNCHANGED <<amp_vars, timer_vars, mail_vars, afe_vars>>
AmpNext     == subject = "amp" /\ Amp!Next /\ UNCHANGED <<vars, timer_vars, mail_vars, afe_vars>>
TimerNext   == subject = "timer" /\ Timer!Next /\ UNCHANGED <<vars, amp_vars, mail_vars, afe_vars>>
MailboxNext == subject = "mailbox" /\ Mailbox!Next /\ UNCHANGED <<vars, amp_vars, timer_vars, afe_vars>>
AfeNext     == subject = "afe" /\ Afe!Next /\ UNCHANGED <<vars, amp_vars, timer_vars, mail_vars>>

MCNext == (GatesNext \/ AmpNext \/ TimerNext \/ MailboxNext \/ AfeNext) /\ UNCHANGED subject

mc_vars == <<subject, vars, amp_vars, timer_vars, mail_vars, afe_vars>>

MCSpec ==
  /\ MCInit /\ [][MCNext]_mc_vars
  /\ \A t \in Threads : WF_timer_vars(subject = "timer" /\ Timer!Step(t))

\* Stated and explained in the modules they come from.
AmpsAreTwo        == Amp!AmpsAreTwo
VoltageIsFresh    == Timer!VoltageIsFresh
CommandsMeet      == Mailbox!CommandsMeet
NoCrossedAnswers  == Afe!NoCrossedAnswers
=============================================================================
