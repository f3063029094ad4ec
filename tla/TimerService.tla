---------------------------- MODULE TimerService ----------------------------
(***************************************************************************)
(* The vendor gauge's timer service, mtk_gauge_time_service.c: one hrtimer   *)
(* and one thread serve a sorted list of timers whose end is in boot time,   *)
(* which goes on while the system is suspended; the hrtimer's clock does not. *)
(* The list is the set of timers with an end.  gtimer_lock is held between   *)
(* two callbacks of the handler, so what lies between them is one step; the  *)
(* suspend and resume notifiers do not take it.                             *)
(***************************************************************************)
EXTENDS Integers, FiniteSets

CONSTANTS Timers,
          Intervals,   \* the seconds the callers ask for
          MaxTime      \* bound: seconds in one behaviour

VARIABLES now,         \* get_monotonic_boottime
          endtime,     \* timer->endtime, Idle when on no list
          left,        \* seconds left on gtimer_kthread_timer, Idle when not started
          awake,       \* gtimer_thread_timeout
          wlock,       \* the wakeup source is held
          thread,      \* where gtimer_thread is
          pm,          \* the cycle of the power management
          hibernating, \* it is a hibernation, not a suspend or the restoring of an image
          arm,         \* what gtimer_resume has worked out and not yet started
          overwritten, \* history: gtimer_resume has put off an earlier hrtimer
          unresumed    \* history: a hibernation is over and the list not looked at since

tvars == <<now, endtime, left, awake, wlock, thread, pm, hibernating, arm, overwritten, unresumed>>

Idle == -1
Listed == {t \in Timers : endtime[t] # Idle}
First(e) == {t \in Timers : e[t] # Idle /\ \A u \in Timers : e[u] # Idle => e[t] <= e[u]}
AtLeastOne(n) == IF n < 1 THEN 1 ELSE n
Running == pm # "frozen"
Unlocked == thread \in {"wait", "woken", "callback"}

Init ==
  /\ now = 0 /\ endtime = [t \in Timers |-> Idle] /\ left = Idle
  /\ awake = FALSE /\ wlock = FALSE /\ thread = "wait" /\ pm = "on" /\ arm = Idle
  /\ hibernating = FALSE /\ overwritten = FALSE /\ unresumed = FALSE

wake_up_gtimer == wlock' = TRUE /\ awake' = TRUE

\* The hrtimer for the head of a list, or none for an empty list.
StartFirst(e, time) ==
  IF First(e) = {} THEN Idle
  ELSE AtLeastOne(e[CHOOSE t \in First(e) : TRUE] - time)

\* Plausible bug: the new timer is armed instead of the first of the list.
ArmsItself(t, sec) ==
  /\ Running /\ Unlocked
  /\ LET e == [endtime EXCEPT ![t] = now + sec]
     IN  /\ endtime' = e
         /\ left' = IF \E u \in First(e) : e[u] < now THEN Idle ELSE AtLeastOne(sec)
         /\ UNCHANGED <<wlock, awake>>
  /\ overwritten' = FALSE /\ unresumed' = FALSE
  /\ UNCHANGED <<now, thread, pm, hibernating, arm>>

gtimer_start(t, sec) ==
  /\ Running /\ Unlocked
  /\ LET e == [endtime EXCEPT ![t] = now + sec]
     IN  /\ endtime' = e
         /\ IF \E u \in First(e) : e[u] < now
            THEN left' = Idle /\ wake_up_gtimer
            ELSE left' = StartFirst(e, now) /\ UNCHANGED <<wlock, awake>>
  /\ overwritten' = FALSE /\ unresumed' = FALSE
  /\ UNCHANGED <<now, thread, pm, hibernating, arm>>

gtimer_stop(t) ==
  /\ Running /\ Unlocked /\ t \in Listed
  /\ endtime' = [endtime EXCEPT ![t] = Idle]
  /\ UNCHANGED <<now, left, awake, wlock, thread, pm, hibernating, arm, overwritten, unresumed>>

\* gtimer_kthread_hrtimer_func
HrtimerFires ==
  /\ Running /\ left = 0
  /\ left' = Idle
  /\ wake_up_gtimer
  /\ UNCHANGED <<now, endtime, thread, pm, hibernating, arm, overwritten, unresumed>>

-----------------------------------------------------------------------------
(* gtimer_thread and gtimer_handler.                                       *)

ThreadWakes ==
  /\ Running /\ thread = "wait" /\ awake
  /\ awake' = FALSE /\ thread' = "woken"
  /\ UNCHANGED <<now, endtime, left, wlock, pm, hibernating, arm, overwritten, unresumed>>

ThreadEnters ==
  /\ Running /\ thread = "woken"
  /\ left' = Idle /\ thread' = "scan"
  /\ UNCHANGED <<now, endtime, awake, wlock, pm, hibernating, arm, overwritten, unresumed>>

Expire(t) ==
  /\ Running /\ thread = "scan"
  /\ t \in First(endtime) /\ endtime[t] <= now
  /\ endtime' = [endtime EXCEPT ![t] = Idle]
  /\ thread' = "callback"
  /\ UNCHANGED <<now, left, awake, wlock, pm, hibernating, arm, overwritten, unresumed>>

\* A callback may have started timers again (gtimer_start above).
CallbackReturns ==
  /\ Running /\ thread = "callback"
  /\ thread' = "scan"
  /\ UNCHANGED <<now, endtime, left, awake, wlock, pm, hibernating, arm, overwritten, unresumed>>

\* Nothing more is due: the hrtimer is started for the head, and the wakeup
\* source is let go even if the thread has been woken meanwhile.
ScanEnds ==
  /\ Running /\ thread = "scan"
  /\ \A t \in First(endtime) : endtime[t] > now
  /\ left' = IF Listed = {} THEN left ELSE StartFirst(endtime, now)
  /\ wlock' = FALSE /\ thread' = "wait"
  /\ overwritten' = FALSE /\ unresumed' = FALSE
  /\ UNCHANGED <<now, endtime, awake, pm, hibernating, arm>>

-----------------------------------------------------------------------------
(* The power management's notifier, gtimer_pm_event.                        *)

\* PM_SUSPEND_PREPARE, PM_RESTORE_PREPARE (going to restore a saved image, which returns
\* only when it fails) and PM_HIBERNATION_PREPARE.
gtimer_suspend ==
  /\ pm = "on"
  /\ pm' = "prepared" /\ left' = Idle
  /\ hibernating' \in BOOLEAN
  /\ UNCHANGED <<now, endtime, awake, wlock, thread, arm, overwritten, unresumed>>

\* The system sleeps unless a wakeup source is held.
Freeze ==
  /\ pm = "prepared" /\ ~wlock
  /\ pm' = "frozen"
  /\ UNCHANGED <<now, endtime, left, awake, wlock, thread, hibernating, arm, overwritten, unresumed>>

Thaw ==
  /\ pm = "frozen"
  /\ pm' = "thawed"
  /\ UNCHANGED <<now, endtime, left, awake, wlock, thread, hibernating, arm, overwritten, unresumed>>

\* PM_POST_SUSPEND and PM_POST_RESTORE, without the lock: look at the head ...
gtimer_resume ==
  /\ pm \in {"prepared", "thawed"} /\ ~hibernating
  /\ IF \E t \in First(endtime) : endtime[t] <= now
     THEN wake_up_gtimer /\ arm' = Idle
     ELSE arm' = StartFirst(endtime, now) /\ UNCHANGED <<wlock, awake>>
  /\ pm' = "resuming"
  /\ unresumed' = FALSE
  /\ UNCHANGED <<now, endtime, left, thread, hibernating, overwritten>>

\* ... and start the hrtimer with what was seen.
ResumeArms ==
  /\ pm = "resuming"
  /\ left' = IF arm = Idle THEN left ELSE arm
  /\ pm' = "on" /\ arm' = Idle
  /\ overwritten' = (overwritten \/ (left # Idle /\ arm > left))
  /\ UNCHANGED <<now, endtime, awake, wlock, thread, hibernating, unresumed>>

\* PM_POST_HIBERNATION: nothing is started again.
HibernationEnds ==
  /\ pm \in {"prepared", "thawed"} /\ hibernating
  /\ pm' = "on" /\ hibernating' = FALSE
  /\ unresumed' = TRUE
  /\ UNCHANGED <<now, endtime, left, awake, wlock, thread, arm, overwritten>>

\* gtimer_resume itself takes less than a second.
Second ==
  /\ now < MaxTime /\ (Running => left # 0) /\ pm # "resuming"
  /\ now' = now + 1
  /\ left' = IF Running /\ left > 0 THEN left - 1 ELSE left
  /\ UNCHANGED <<endtime, awake, wlock, thread, pm, hibernating, arm, overwritten, unresumed>>

Next ==
  \/ \E t \in Timers : (\E s \in Intervals : gtimer_start(t, s)) \/ gtimer_stop(t) \/ Expire(t)
  \/ HrtimerFires \/ ThreadWakes \/ ThreadEnters \/ CallbackReturns \/ ScanEnds
  \/ gtimer_suspend \/ Freeze \/ Thaw \/ gtimer_resume \/ ResumeArms \/ HibernationEnds \/ Second

Spec == Init /\ [][Next]_tvars

-----------------------------------------------------------------------------
(* Properties.                                                             *)

\* Whenever timers are running, the thread sleeps, nothing has woken it and no
\* suspend cycle is under way, the hrtimer is started, and for the first timer
\* of the list, whatever starts, stops, callbacks, suspend cycles and failed restores
\* did before.  Two exceptions are counted: after a hibernation the hrtimer its
\* preparation cancelled stays so (PM_POST_HIBERNATION starts nothing) until a timer
\* is started, the thread looks at the list or another cycle ends; and gtimer_resume
\* looks at the list without the lock, so that what it starts can put off the hrtimer
\* of a timer started since.
FirstIsArmed ==
  (Listed # {} /\ thread = "wait" /\ ~awake /\ pm = "on" /\ ~unresumed) =>
     /\ left # Idle
     /\ overwritten \/ \A t \in First(endtime) : left <= AtLeastOne(endtime[t] - now)

\* An hrtimer that runs out no later than any timer of the list.
Covers(sec, t) == sec # Idle /\ sec <= AtLeastOne(endtime[t] - now)
Quiet == Listed # {} /\ thread = "wait" /\ ~awake
AllAreArmed ==
  Quiet /\ pm = "on" /\ ~unresumed =>
    left # Idle /\ (overwritten \/ \A t \in Listed : Covers(left, t))

\* Between its two steps gtimer_resume has the list covered, by what it will start or
\* by what a gtimer_start in between has started.
ResumeCovers ==
  Quiet /\ pm = "resuming" =>
    /\ arm = Idle => left # Idle
    /\ overwritten \/ \A t \in Listed : Covers(arm, t) \/ Covers(left, t)

\* What every step keeps.
Types ==
  /\ now \in Nat /\ endtime \in [Timers -> Nat \cup {Idle}]
  /\ left \in Nat \cup {Idle} /\ arm \in Nat \cup {Idle}
  /\ awake \in BOOLEAN /\ overwritten \in BOOLEAN
  /\ hibernating \in BOOLEAN /\ unresumed \in BOOLEAN
  /\ thread \in {"wait", "woken", "scan", "callback"}
  /\ pm \in {"on", "prepared", "frozen", "thawed", "resuming"}
IInv == Types /\ AllAreArmed /\ ResumeCovers
=============================================================================
