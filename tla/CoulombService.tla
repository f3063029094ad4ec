--------------------------- MODULE CoulombService ---------------------------
(***************************************************************************)
(* The vendor gauge's coulomb service, mtk_gauge_coulomb_service.c: users ask *)
(* to be called when the charge counter has moved by some amount; the service *)
(* keeps them in two sorted lists, programs the distance to the first of each *)
(* into the gauge chip and runs the callbacks on a thread of its own.        *)
(*                                                                         *)
(* A list is the set of its users with the counter value each waits for, the *)
(* first one is any that is nearest.  coulomb_lock is held from one lock to  *)
(* its unlock; a section that sleeps nowhere inside is one step.  The chip   *)
(* (external) compares the counter with the value it had when a distance was *)
(* written plus that distance, and interrupts.                              *)
(***************************************************************************)
EXTENDS Integers, FiniteSets

CONSTANTS Users,       \* gauge_consumer: the four of the battery core
          Gap,         \* the amount each user asks for, negative for the minus list
          Restarts,    \* what a user's callback starts again
          Off,         \* the end of a user on no list
          NoTh,        \* a threshold of the chip that is switched off
          Far,         \* the 300 that keeps the chip quiet while the thread is woken
          CarLimit,    \* bound: the counter stays in -CarLimit..CarLimit
          MaxDrift,    \* bound: how far the counter moves during one run of the thread
          MaxCalls     \* bound: calls of the battery core outside callbacks

VARIABLES car,         \* the chip's counter
          ht, lt,      \* the chip's two thresholds, NoTh when off
          end,         \* ptr->end of the users on a list, Off for the others
          timeout,     \* coulomb_thread_timeout
          pc,          \* where gauge_coulomb_thread is
          seen,        \* the counter as the running handler read it
          drift,       \* how often the counter has moved in this run
          todo,        \* what the running callback still has to start
          reset,       \* where gauge_reset_hw is
          reset_coulomb,
          is_fg_disabled,
          calls

cvars == <<car, ht, lt, end, timeout, pc, seen, drift, todo, reset, reset_coulomb,
           is_fg_disabled, calls>>

Plus  == {u \in Users : Gap[u] > 0 /\ end[u] # Off}
Minus == {u \in Users : Gap[u] < 0 /\ end[u] # Off}
Nearest(list, e) == \* the head of a sorted list
  {u \in list : \A v \in list : IF Gap[u] > 0 THEN e[u] <= e[v] ELSE e[u] >= e[v]}
Due(u, at) == IF Gap[u] > 0 THEN end[u] <= at ELSE end[u] >= at

\* coulomb_lock is the handler's, except around a callback.
Unlocked == pc \in {"wait", "woken", "callback+", "callback-"}

Init ==
  /\ car = 0 /\ ht = NoTh /\ lt = NoTh
  /\ end = [u \in Users |-> Off]
  /\ timeout = FALSE /\ pc = "wait" /\ seen = 0 /\ drift = 0 /\ todo = {}
  /\ reset = "no" /\ reset_coulomb = 0
  /\ is_fg_disabled = FALSE /\ calls = 0

\* gauge_set_coulomb_interrupt1_ht and _lt: the chip adds the counter of now.
Ht(distance) == IF distance = 0 THEN NoTh ELSE car + distance
Lt(distance) == IF distance = 0 THEN NoTh ELSE car - distance

wake_up_gauge_coulomb ==
  IF is_fg_disabled
  THEN /\ ht' = NoTh /\ lt' = NoTh
       /\ UNCHANGED timeout
  ELSE /\ ht' = Ht(Far) /\ lt' = Lt(Far)
       /\ timeout' = TRUE

-----------------------------------------------------------------------------
(* The battery core's side.                                                *)

\* The distance start() writes: to the first entry that is not due yet, or to
\* the last one when all of them are; a due entry wakes the thread at once.
FirstAhead(list, e) ==
  LET ahead == {u \in list : IF Gap[u] > 0 THEN e[u] > car ELSE e[u] < car}
  IN  IF ahead # {} THEN Nearest(ahead, e)
      ELSE {u \in list : \A v \in list : IF Gap[u] > 0 THEN e[u] >= e[v] ELSE e[u] <= e[v]}

gauge_coulomb_start(u) ==
  /\ Unlocked
  /\ IF is_fg_disabled
     THEN /\ ht' = NoTh /\ lt' = NoTh
          /\ UNCHANGED <<end, timeout>>
     ELSE LET e    == [end EXCEPT ![u] = car + Gap[u]]
              list == {v \in Users : (Gap[v] > 0) = (Gap[u] > 0) /\ e[v] # Off}
              near == CHOOSE v \in FirstAhead(list, e) : TRUE
              late == \E v \in list : IF Gap[v] > 0 THEN e[v] <= car ELSE e[v] >= car
          IN  /\ end' = e
              /\ IF late THEN /\ timeout' = TRUE /\ ht' = Ht(Far) /\ lt' = Lt(Far)
                 ELSE IF Gap[u] > 0
                 THEN ht' = Ht(e[near] - car) /\ UNCHANGED <<lt, timeout>>
                 ELSE lt' = Lt(car - e[near]) /\ UNCHANGED <<ht, timeout>>

gauge_coulomb_stop(u) ==
  /\ Unlocked
  /\ IF is_fg_disabled
     THEN ht' = NoTh /\ lt' = NoTh /\ UNCHANGED end
     ELSE end' = [end EXCEPT ![u] = Off] /\ UNCHANGED <<ht, lt>>
  /\ UNCHANGED timeout

CoreStarts(u) ==
  /\ calls < MaxCalls
  /\ calls' = calls + 1
  /\ gauge_coulomb_start(u)
  /\ UNCHANGED <<car, pc, seen, drift, todo, reset, reset_coulomb, is_fg_disabled>>

CoreStops(u) ==
  /\ calls < MaxCalls
  /\ calls' = calls + 1
  /\ gauge_coulomb_stop(u)
  /\ UNCHANGED <<car, pc, seen, drift, todo, reset, reset_coulomb, is_fg_disabled>>

gauge_coulomb_before_reset ==
  /\ reset = "no" /\ Unlocked /\ ~is_fg_disabled
  /\ calls < MaxCalls
  /\ calls' = calls + 1
  /\ ht' = NoTh /\ lt' = NoTh
  /\ reset' = "quiet"
  /\ UNCHANGED <<car, end, timeout, pc, seen, drift, todo, reset_coulomb, is_fg_disabled>>

\* The counter is read after coulomb_lock is let go, then the chip is reset.
ReadResetCoulomb ==
  /\ reset = "quiet"
  /\ reset_coulomb' = car /\ reset' = "read"
  /\ UNCHANGED <<car, ht, lt, end, timeout, pc, seen, drift, todo, is_fg_disabled, calls>>

\* gauge_dev_reset_hw
ResetHw ==
  /\ reset = "read"
  /\ car' = 0 /\ reset' = "done"
  /\ UNCHANGED <<ht, lt, end, timeout, pc, seen, drift, todo, reset_coulomb, is_fg_disabled, calls>>

gauge_coulomb_after_reset ==
  /\ reset = "done" /\ Unlocked
  /\ end' = [u \in Users |-> IF end[u] = Off THEN Off ELSE end[u] - reset_coulomb]
  /\ reset' = "no"
  /\ wake_up_gauge_coulomb
  /\ UNCHANGED <<car, pc, seen, drift, todo, reset_coulomb, is_fg_disabled, calls>>

-----------------------------------------------------------------------------
(* The thread.                                                             *)

\* wait_event returns
Wake ==
  /\ pc = "wait" /\ timeout
  /\ timeout' = FALSE /\ pc' = "woken"
  /\ UNCHANGED <<car, ht, lt, end, seen, drift, todo, reset, reset_coulomb, is_fg_disabled, calls>>

EnterHandler ==
  /\ pc = "woken"
  /\ seen' = car /\ drift' = 0 /\ pc' = "plus"
  /\ UNCHANGED <<car, ht, lt, end, timeout, todo, reset, reset_coulomb, is_fg_disabled, calls>>

\* The head of the list is due: taken off, and called with the lock let go.
Expire(u, list, at, cb) ==
  /\ pc = at
  /\ u \in Nearest(list, end) /\ Due(u, seen)
  /\ end' = [end EXCEPT ![u] = Off]
  /\ todo' = Restarts[u] /\ pc' = cb
  /\ UNCHANGED <<car, ht, lt, timeout, seen, drift, reset, reset_coulomb, is_fg_disabled, calls>>

\* fg_bat_int1_h_handler and its like start users again.
CallbackStarts(u) ==
  /\ u \in todo
  /\ gauge_coulomb_start(u)
  /\ todo' = todo \ {u}
  /\ UNCHANGED <<car, pc, seen, drift, reset, reset_coulomb, is_fg_disabled, calls>>

\* The lock is taken back and the same list is looked at from its head.
CallbackReturns ==
  /\ pc \in {"callback+", "callback-"} /\ todo = {}
  /\ pc' = IF pc = "callback+" THEN "plus" ELSE "minus"
  /\ UNCHANGED <<car, ht, lt, end, timeout, seen, drift, todo, reset, reset_coulomb,
                 is_fg_disabled, calls>>

\* Plausible bug: an empty plus list ends the run.
PlusDoneStops ==
  /\ pc = "plus" /\ \A u \in Plus : ~Due(u, seen)
  /\ IF Plus = {} THEN ht' = ht /\ pc' = "wait"
     ELSE /\ \E u \in Nearest(Plus, end) : ht' = Ht(end[u] - seen)
          /\ pc' = "minus"
  /\ UNCHANGED <<car, lt, end, timeout, seen, drift, todo, reset, reset_coulomb,
                 is_fg_disabled, calls>>

\* No more of the plus list is due: the distance is from the counter read at the
\* start of the run, the chip adds it to the counter of now.
PlusDone ==
  /\ pc = "plus" /\ \A u \in Plus : ~Due(u, seen)
  /\ IF Plus = {} THEN ht' = ht
     ELSE \E u \in Nearest(Plus, end) : ht' = Ht(end[u] - seen)
  /\ pc' = "minus"
  /\ UNCHANGED <<car, lt, end, timeout, seen, drift, todo, reset, reset_coulomb,
                 is_fg_disabled, calls>>

MinusDone ==
  /\ pc = "minus" /\ \A u \in Minus : ~Due(u, seen)
  /\ IF Minus = {} THEN lt' = lt
     ELSE \E u \in Nearest(Minus, end) : lt' = Lt(seen - end[u])
  /\ pc' = "wait"
  /\ UNCHANGED <<car, ht, end, timeout, seen, drift, todo, reset, reset_coulomb,
                 is_fg_disabled, calls>>

gauge_coulomb_int_handler ==
  \/ \E u \in Plus : Expire(u, Plus, "plus", "callback+")
  \/ \E u \in Minus : Expire(u, Minus, "minus", "callback-")
  \/ PlusDone \/ MinusDone

-----------------------------------------------------------------------------
(* The chip and the kill switch.                                           *)

Crossed == (ht # NoTh /\ car >= ht) \/ (lt # NoTh /\ car <= lt)

\* FG_BAT1_INT_L_NO and FG_BAT1_INT_H_NO
Interrupt ==
  /\ Crossed
  /\ wake_up_gauge_coulomb
  /\ UNCHANGED <<car, end, pc, seen, drift, todo, reset, reset_coulomb, is_fg_disabled, calls>>

\* One unit in or out of the battery.
Count(d) ==
  /\ car + d \in -CarLimit..CarLimit
  /\ pc # "wait" => drift < MaxDrift
  /\ car' = car + d
  /\ drift' = IF pc = "wait" THEN 0 ELSE drift + 1
  /\ UNCHANGED <<ht, lt, end, timeout, pc, seen, todo, reset, reset_coulomb,
                 is_fg_disabled, calls>>

\* disable_fg, once and for all: too cold, or an interrupt after it
DisableFg ==
  /\ ~is_fg_disabled
  /\ is_fg_disabled' = TRUE
  /\ UNCHANGED <<car, ht, lt, end, timeout, pc, seen, drift, todo, reset, reset_coulomb, calls>>

Next ==
  \/ \E u \in Users : CoreStarts(u) \/ CoreStops(u) \/ CallbackStarts(u)
  \/ gauge_coulomb_before_reset \/ ReadResetCoulomb \/ ResetHw \/ gauge_coulomb_after_reset
  \/ Wake \/ EnterHandler \/ gauge_coulomb_int_handler \/ CallbackReturns
  \/ Interrupt \/ DisableFg
  \/ \E d \in {-1, 1} : Count(d)

Spec == Init /\ [][Next]_cvars

-----------------------------------------------------------------------------
(* Properties.                                                             *)

\* While the thread sleeps and nothing has woken it, the chip watches for the
\* head of both lists: it will interrupt no later than the head's value, plus
\* what the counter moved while the handler ran (it writes distances it worked
\* out from the counter it read first).  However callbacks, starts, stops and
\* resets of the counter interleave, no user is left waiting on a chip that
\* looks elsewhere.
HeadsAreWatched ==
  (pc = "wait" /\ ~timeout /\ reset = "no" /\ ~is_fg_disabled) =>
     /\ \A u \in Plus : ht # NoTh /\ ht <= end[u] + MaxDrift
     /\ \A u \in Minus : lt # NoTh /\ lt >= end[u] - MaxDrift

\* From the moment the handler has left a list, the chip watches for its head.
Excused == timeout \/ reset # "no" \/ is_fg_disabled
PlusIsWatched ==
  ~Excused /\ pc \in {"minus", "callback-", "wait"} =>
     \A u \in Plus : ht # NoTh /\ ht <= end[u] + MaxDrift
MinusIsWatched ==
  ~Excused /\ pc = "wait" => \A u \in Minus : lt # NoTh /\ lt >= end[u] - MaxDrift

\* The counter is no further from what the handler read than it moved since; a reset
\* of it in between has the thread run again.
SeenIsClose ==
  ~Excused /\ pc \in {"plus", "minus", "callback+", "callback-"} =>
     car <= seen + drift /\ seen <= car + drift

\* What every step keeps.
Types ==
  /\ car \in Int /\ seen \in Int /\ reset_coulomb \in Int
  /\ drift \in 0..MaxDrift
  /\ ht \in Int \cup {NoTh} /\ lt \in Int \cup {NoTh}
  /\ end \in [Users -> Int \cup {Off}]
  /\ timeout \in BOOLEAN /\ is_fg_disabled \in BOOLEAN
IInv == Types /\ SeenIsClose /\ PlusIsWatched /\ MinusIsWatched
=============================================================================
