------------------------------- MODULE SiaTimer -------------------------------
(* One timer task of the SIA81xx driver (sia81xx_timer_task.c) and the battery  *)
(* voltage that is sampled on it (sia81xx_set_vdd.c).  Starting the task makes a *)
(* kernel thread; stopping it only clears the state that the thread polls, so a  *)
(* restart can leave the old thread running beside the new one.                  *)
(*                                                                             *)
(* A sample is its age: taken before or after the last start.  Normal stands     *)
(* for AUTO_SET_NORMAL_SET_SAMPLES; Threads bounds the threads alive at once,    *)
(* and kthread_create fails when there is none left.                             *)
EXTENDS Naturals, FiniteSets

CONSTANTS Clients,  \* the channels that may be sampled
          Threads,
          Normal

VARIABLES
  task_state,   \* the task is enabled
  switch_flag,  \* it was just switched
  proc,         \* the channels registered on it
  thread,       \* what each thread does: [at, first, left, client]
  info,         \* per channel: [open, is_enable, sample_cnt, sample_send]
  since,        \* samples recorded since the last start, per channel
  crowded,      \* two threads have been alive at the same time
  sent,         \* the last voltage sent: "none", "fresh" or "stale"
  hdl, backup   \* the task the amplifier knows, and the one its commands keep

timer_vars == <<task_state, switch_flag, proc, thread, info, since, crowded, sent, hdl, backup>>
handles == <<hdl, backup>>

FirstSamples == 3
Gone    == [at |-> "gone", first |-> FALSE, left |-> {}, client |-> "none"]
Resting == [at |-> "while", first |-> FALSE, left |-> {}, client |-> "none"]

Alive == {t \in Threads : thread[t].at # "gone"}

Doings   == [at : {"gone", "while", "scan", "process"}, first : BOOLEAN, left : SUBSET Clients,
             client : Clients \union {"none"}]
Counters == [open : BOOLEAN, is_enable : BOOLEAN, sample_cnt : Nat, sample_send : {FirstSamples, Normal}]

TypeOK ==
  /\ task_state \in BOOLEAN /\ switch_flag \in BOOLEAN /\ crowded \in BOOLEAN
  /\ proc \subseteq Clients
  /\ thread \in [Threads -> Doings]
  /\ \A t \in Threads : thread[t].at = "process" => thread[t].client \in Clients
  /\ info \in [Clients -> Counters]
  /\ \A c \in Clients : info[c].sample_cnt < info[c].sample_send
  /\ since \in [Clients -> 0 .. FirstSamples]
  /\ sent \in [Clients -> {"none", "fresh", "stale"}]
  /\ hdl \in {"task", "invalid"} /\ backup \in {"task", "invalid"}

Init ==
  /\ task_state = FALSE /\ switch_flag = FALSE /\ crowded = FALSE
  /\ proc = {}
  /\ thread = [t \in Threads |-> Gone]
  /\ info = [c \in Clients |-> [open |-> FALSE, is_enable |-> FALSE,
                                sample_cnt |-> 0, sample_send |-> FirstSamples]]
  /\ since = [c \in Clients |-> 0]
  /\ sent = [c \in Clients |-> "none"]
  /\ hdl = "task" /\ backup = "invalid"

-----------------------------------------------------------------------------
(* sia81xx_timer_task_start and _stop, under task_mutex. *)

Created(t) ==
  /\ thread' = [thread EXCEPT ![t] = Resting]
  /\ crowded' = (crowded \/ Alive # {})

Start ==
  /\ hdl = "task" /\ ~task_state
  /\ switch_flag' = TRUE
  /\ \/ /\ task_state' = TRUE
        /\ \E t \in Threads \ Alive : Created(t)
        /\ since' = [c \in Clients |-> 0]
     \/ /\ Alive = Threads
        /\ UNCHANGED <<task_state, thread, crowded, since>>
  /\ UNCHANGED <<proc, info, sent, handles>>

Stopped ==
  /\ switch_flag' = (switch_flag \/ task_state)
  /\ task_state' = FALSE

Stop == hdl = "task" /\ Stopped
        /\ UNCHANGED <<proc, thread, info, since, crowded, sent, handles>>

\* The commands that take the task away from the amplifier and give it back.
TimerTaskClose ==
  /\ IF hdl = "task" THEN Stopped ELSE UNCHANGED <<task_state, switch_flag>>
  /\ backup' = hdl /\ hdl' = "invalid"
  /\ UNCHANGED <<proc, thread, info, since, crowded, sent>>

TimerTaskOpen ==
  /\ hdl' = backup
  /\ UNCHANGED <<task_state, switch_flag, proc, thread, info, since, crowded, sent, backup>>

-----------------------------------------------------------------------------
(* Registering and unregistering, which take no lock. *)

Opened(c, state) == [open |-> TRUE, is_enable |-> state, sample_cnt |-> 0,
                     sample_send |-> FirstSamples]

\* The pool is refilled with VDD_DEFAULT_VAL, so no sample of this run is left.
AutoSetVddProbe(c, state) ==
  /\ hdl = "task"
  /\ info' = [info EXCEPT ![c] = Opened(c, state)]
  /\ proc' = proc \union {c}
  /\ since' = [since EXCEPT ![c] = 0]
  /\ UNCHANGED <<task_state, switch_flag, thread, crowded, sent, handles>>

SetWorkState(c, state) ==
  /\ hdl = "task" /\ info[c].open
  /\ info' = [info EXCEPT ![c].is_enable = state]
  /\ UNCHANGED <<task_state, switch_flag, proc, thread, since, crowded, sent, handles>>

AutoSetVddRemove(c) ==
  /\ hdl = "task"
  /\ proc' = proc \ {c}
  /\ UNCHANGED <<task_state, switch_flag, thread, info, since, crowded, sent, handles>>

\* sia81xx_remove forgets the task before it suspends the amplifier, so the task
\* is left as it is.
RemoveDev ==
  /\ hdl' = "invalid" /\ backup' = "invalid"
  /\ proc' = IF hdl = "task" THEN {} ELSE proc
  /\ UNCHANGED <<task_state, switch_flag, thread, info, since, crowded, sent>>

-----------------------------------------------------------------------------
(* sia81xx_timer_task_processor: a cycle, entry by entry, then a sleep. *)

KeepsRunning == task_state

While(t) ==
  /\ thread[t].at = "while"
  /\ \/ /\ ~KeepsRunning
        /\ thread' = [thread EXCEPT ![t] = Gone]
        /\ UNCHANGED switch_flag
     \/ /\ KeepsRunning
        /\ thread' = [thread EXCEPT ![t] = [at |-> "scan", first |-> switch_flag,
                                            left |-> Clients, client |-> "none"]]
        /\ switch_flag' = FALSE
  /\ UNCHANGED <<task_state, proc, info, since, crowded, sent, handles>>

Asleep(t) == thread' = [thread EXCEPT ![t] = Resting]

Scan(t) ==
  /\ thread[t].at = "scan"
  /\ \/ /\ switch_flag \/ thread[t].left = {} \/ ~task_state
        /\ Asleep(t)
     \/ /\ ~switch_flag
        /\ \E c \in thread[t].left :
             thread' = [thread EXCEPT ![t] = [at |-> IF c \in proc THEN "process" ELSE "scan",
                                              first |-> @.first, left |-> @.left \ {c}, client |-> c]]
  /\ UNCHANGED <<task_state, switch_flag, proc, info, since, crowded, sent, handles>>

Counting(i, count, send) ==
  [open |-> i.open, is_enable |-> i.is_enable, sample_cnt |-> count, sample_send |-> send]

\* Plausible bug: a first call counts on from where the last run ended.
CountsOn(c, first) == Counting(info[c], info[c].sample_cnt + 1, info[c].sample_send)

\* The counters as a first call resets them.
Counted(c, first) ==
  IF first THEN Counting(info[c], 1, FirstSamples)
           ELSE Counting(info[c], info[c].sample_cnt + 1, info[c].sample_send)

AfterSend(i, first) == Counting(i, 0, IF first THEN i.sample_send ELSE Normal)

\* The average is over the last FirstSamples entries of the pool.
Process(t) ==
  LET c == thread[t].client
      i == Counted(c, thread[t].first)
      taken == IF since[c] < FirstSamples THEN since[c] + 1 ELSE since[c]
  IN
  /\ thread[t].at = "process"
  /\ thread' = [thread EXCEPT ![t].at = "scan"]
  /\ since' = [since EXCEPT ![c] = taken]
  /\ \/ /\ i.sample_cnt < i.sample_send
        /\ info' = [info EXCEPT ![c] = i]
        /\ UNCHANGED sent
     \/ /\ i.sample_cnt >= i.sample_send
        /\ info' = [info EXCEPT ![c] = AfterSend(i, thread[t].first)]
        /\ sent' = IF ~i.is_enable THEN sent
                   ELSE [sent EXCEPT ![c] = IF taken = FirstSamples THEN "fresh" ELSE "stale"]
  /\ UNCHANGED <<task_state, switch_flag, proc, crowded, handles>>

Step(t) == While(t) \/ Scan(t) \/ Process(t)

Next ==
  \/ Start \/ Stop
  \/ \E c \in Clients : \/ \E state \in BOOLEAN : AutoSetVddProbe(c, state) \/ SetWorkState(c, state)
                        \/ AutoSetVddRemove(c)
  \/ TimerTaskClose \/ TimerTaskOpen \/ RemoveDev
  \/ \E t \in Threads : Step(t)

Spec == Init /\ [][Next]_timer_vars /\ \A t \in Threads : WF_timer_vars(Step(t))

-----------------------------------------------------------------------------
\* A voltage that is sent averages samples taken since the amplifier was started
\* (AUTO_SET_FIRST_SET_SAMPLES of them), as long as no restart ever left two
\* threads running on the task.
VoltageIsFresh == \A c \in Clients : sent[c] = "stale" => crowded

\* Why it holds, while there was never a second thread.  A channel's counters agree
\* with its samples: it is beyond the first ones, or has counted none that is not of
\* this run.  A start puts that out of order; the switch flag is then up, the next
\* cycle is a first one, and every channel agrees again once that has come to it.
Agrees(c) ==
  \/ since[c] = FirstSamples
  \/ info[c].sample_send = FirstSamples /\ info[c].sample_cnt <= since[c]

OneThread == \A s, t \in Alive : s = t

AsleepAgrees ==
  \A t \in Threads : thread[t].at = "while" /\ task_state /\ ~switch_flag => \A c \in proc : Agrees(c)

StillToCome(t, c) ==
  /\ thread[t].first
  /\ c \in thread[t].left \/ (thread[t].at = "process" /\ thread[t].client = c)

CycleAgrees ==
  \A t \in Threads :
    /\ thread[t].at \in {"scan", "process"} => \A c \in proc : Agrees(c) \/ StillToCome(t, c)
    /\ thread[t].at = "process" => Agrees(thread[t].client) \/ thread[t].first

IInv == TypeOK /\ VoltageIsFresh /\ (~crowded => OneThread /\ AsleepAgrees /\ CycleAgrees)
=============================================================================
