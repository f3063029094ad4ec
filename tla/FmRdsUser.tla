------------------------------- MODULE FmRdsUser -------------------------------
(* How RDS data gets from the FM driver's parser to the user (fm_main.c), and how  *)
(* RDS is switched in each chip library (mt66xx_fm_rds.c, soc_fm_rds.c).  The      *)
(* parser adds to fm->pstRDSData and to its event_status under fm_read_lock, then  *)
(* raises rds_event without it; a reader that finds rds_event raised takes the     *)
(* lock, copies the data, clears event_status and rds_event; a timer of 500 ms     *)
(* looks at event_status too; and switching RDS and tuning clear the data, with    *)
(* fm_ops_lock held and not fm_read_lock.                                        *)
(*                                                                             *)
(* The data is its event_status: "PS" stands for every change that a user is told  *)
(* of, "AF_LIST" for the one that he is not, "AF" is the timer's.  FmRds has the   *)
(* parser, FmMain the other locks, FmLink the flag words.  A call may find any of   *)
(* the libraries: more calls than one may mix them, which no build does and which  *)
(* only adds behaviours.                                                         *)
EXTENDS Naturals, Sequences

CONSTANTS
  Chips,          \* the chip libraries
  Readers,        \* threads that read the device
  MaxCalls,       \* bound: ioctls that switch or tune
  MaxMishaps      \* bound: register accesses and copies that fail

VARIABLES
  rx_on, receiving, \* the receiver is on; RDS_MASK is set in it
  pending,        \* a group on its way to the parser
  listed,         \* Addr_Cnt is 0xFF: the list of frequencies is complete
  event_status,
  rds_event,      \* FM_RDS_DATA_READY is raised
  parser, reader, tick,  \* where each is
  ticking,        \* the timer is started
  ctl,            \* under fm_ops_lock: the steps to do, and those that follow in any case
  spoiled,        \* a copy to the user failed and nothing was raised since
  calls, mishaps

rds_user_vars ==
  <<rx_on, receiving, pending, listed, event_status, rds_event, parser, reader, tick,
    ticking, ctl, spoiled, calls, mishaps>>

\* RDS_enable and RDS_disable of each library: register accesses, any of which may fail.
mt6631_RDS_switch == [on |-> <<"get", "put", "get", "mask">>, off |-> <<"get", "unmask">>]
mt6635_RDS_switch == [on |-> <<"get", "put", "get", "mask">>, off |-> <<"get", "unmask">>]
mt6627_RDS_switch == [on |-> <<"get", "put", "get", "mask">>, off |-> <<"get", "unmask">>]
mt6580_RDS_switch == [on |-> <<"get", "put", "get", "mask">>, off |-> <<"get", "unmask">>]
mt6630_RDS_switch == [on |-> <<"put", "get", "mask">>, off |-> <<"get", "unmask">>]
mt6632_RDS_switch == [on |-> <<"put", "get", "mask">>, off |-> <<"get", "unmask">>]

\* RDS_OnOff: all clear the data when RDS comes on, four of them when it goes off.
mt6631_RDS_OnOff(way) == <<"init">> \o mt6631_RDS_switch[way]
mt6635_RDS_OnOff(way) == <<"init">> \o mt6635_RDS_switch[way]
mt6627_RDS_OnOff(way) == <<"init">> \o mt6627_RDS_switch[way]
mt6580_RDS_OnOff(way) == <<"init">> \o mt6580_RDS_switch[way]
mt6630_RDS_OnOff(way) == (IF way = "on" THEN <<"init">> ELSE <<>>) \o mt6630_RDS_switch[way]
mt6632_RDS_OnOff(way) == (IF way = "on" THEN <<"init">> ELSE <<>>) \o mt6632_RDS_switch[way]

OnOff(chip, way) ==
  CASE chip = "mt6631" -> mt6631_RDS_OnOff(way) [] chip = "mt6635" -> mt6635_RDS_OnOff(way)
    [] chip = "mt6627" -> mt6627_RDS_OnOff(way) [] chip = "mt6580" -> mt6580_RDS_OnOff(way)
    [] chip = "mt6630" -> mt6630_RDS_OnOff(way) [] chip = "mt6632" -> mt6632_RDS_OnOff(way)

Switch(chip) ==
  CASE chip = "mt6631" -> mt6631_RDS_switch [] chip = "mt6635" -> mt6635_RDS_switch
    [] chip = "mt6627" -> mt6627_RDS_switch [] chip = "mt6580" -> mt6580_RDS_switch
    [] chip = "mt6630" -> mt6630_RDS_switch [] chip = "mt6632" -> mt6632_RDS_switch

Idle == [todo |-> <<>>, then |-> <<>>, rxtx |-> FALSE]

\* RDS was switched on, or it was not.
Init ==
  /\ rx_on = TRUE /\ receiving \in BOOLEAN /\ pending = FALSE /\ listed = FALSE
  /\ event_status = {} /\ rds_event = FALSE
  /\ parser = "idle" /\ reader = [r \in Readers |-> "idle"] /\ tick = "idle" /\ ticking = receiving
  /\ ctl = Idle /\ spoiled = FALSE /\ calls = 0 /\ mishaps = 0

Raise == rds_event' = TRUE /\ spoiled' = FALSE

---------------------------------------------------------------------------------
\* The calls under fm_ops_lock, step by step.

Call(todo, then, rxtx) ==
  /\ ctl = Idle /\ calls < MaxCalls /\ calls' = calls + 1
  /\ ctl' = [todo |-> todo, then |-> then, rxtx |-> rxtx]
  /\ UNCHANGED <<rx_on, receiving, pending, listed, event_status, rds_event, parser, reader,
                 tick, ticking, spoiled, mishaps>>

fm_rds_onoff(chip, way) ==
  /\ rx_on
  /\ Call(IF way = "on" THEN OnOff(chip, "on") \o <<"start timer">>
          ELSE <<"stop timer">> \o OnOff(chip, "off"), <<>>, FALSE)

\* It goes on to enable whether RDS was on or not, and when disable has failed.
BlockCounter_Reset(chip) == Call(Switch(chip).off, Switch(chip).on, FALSE)

fm_tune == Call(<<"init">>, <<>>, FALSE)

fm_powerdown(chip) ==
  /\ rx_on /\ tick # "send"
  /\ Call(<<"stop timer">> \o OnOff(chip, "off"), <<"off">>, TRUE)

Follow(todo) ==
  IF todo # <<>> THEN [ctl EXCEPT !.todo = todo]
  ELSE IF ctl.then # <<>> THEN [ctl EXCEPT !.todo = ctl.then, !.then = <<>>] ELSE Idle

CtlStep ==
  /\ ctl.todo # <<>>
  /\ LET step == Head(ctl.todo) IN
       /\ receiving' = (rx_on /\ step # "off" /\ (step = "mask" \/ (receiving /\ step # "unmask")))
       /\ rx_on' = (rx_on /\ step # "off")
       /\ event_status' = IF step = "init" THEN {} ELSE event_status
       /\ listed' = (listed /\ step # "init")
       /\ ticking' = (step = "start timer" \/ (ticking /\ step # "stop timer"))
  /\ ctl' = Follow(Tail(ctl.todo))
  /\ UNCHANGED <<pending, rds_event, parser, reader, tick, spoiled, calls, mishaps>>

CtlFails ==
  /\ ctl.todo # <<>> /\ Head(ctl.todo) \in {"get", "put", "mask", "unmask"}
  /\ mishaps < MaxMishaps /\ mishaps' = mishaps + 1
  /\ ctl' = Follow(<<>>)
  /\ UNCHANGED <<rx_on, receiving, pending, listed, event_status, rds_event, parser, reader,
                 tick, ticking, spoiled, calls>>

---------------------------------------------------------------------------------
\* The worker that parses, and the timer's.

GroupComes ==
  /\ receiving /\ ~pending /\ pending' = TRUE
  /\ UNCHANGED <<rx_on, receiving, listed, event_status, rds_event, parser, reader, tick,
                 ticking, ctl, spoiled, calls, mishaps>>

\* Plausible bug: fm_rds_read gives the lock back before it resets the event.
UnlocksFirst == \A r \in Readers : reader[r] # "copied"

\* fm_read_lock is free.
Unlocked == \A r \in Readers : reader[r] \in {"idle", "ready"}

\* fm_rds_parser: with the lock, then without it
fm_rds_parser(found) ==
  /\ parser = "idle" /\ pending /\ Unlocked
  /\ pending' = FALSE /\ parser' = "parsed"
  /\ event_status' = event_status \union found
  /\ listed' = (listed \/ "AF_LIST" \in found)
  /\ UNCHANGED <<rx_on, receiving, rds_event, reader, tick, ticking, ctl, spoiled, calls,
                 mishaps>>

Notices ==
  /\ parser = "parsed"
  /\ parser' = IF event_status \subseteq {"AF_LIST"} THEN "idle" ELSE "send"
  /\ UNCHANGED <<rx_on, receiving, pending, listed, event_status, rds_event, reader, tick,
                 ticking, ctl, spoiled, calls, mishaps>>

Notifies ==
  /\ parser = "send" /\ parser' = "idle" /\ Raise
  /\ UNCHANGED <<rx_on, receiving, pending, listed, event_status, reader, tick, ticking, ctl,
                 calls, mishaps>>

\* What the timer queued still runs when the timer was stopped.
TimerFires ==
  /\ ticking /\ tick = "idle" /\ tick' = "queued"
  /\ UNCHANGED <<rx_on, receiving, pending, listed, event_status, rds_event, parser, reader,
                 ticking, ctl, spoiled, calls, mishaps>>

fm_rds_reset_work_func ==
  /\ tick = "queued" /\ ~ctl.rxtx
  /\ event_status' = event_status \union (IF listed THEN {"AF"} ELSE {})
  /\ tick' = IF event_status' = {} THEN "idle" ELSE "send"
  /\ UNCHANGED <<rx_on, receiving, pending, listed, rds_event, parser, reader, ticking, ctl,
                 spoiled, calls, mishaps>>

TickSends ==
  /\ tick = "send" /\ tick' = "idle" /\ Raise
  /\ UNCHANGED <<rx_on, receiving, pending, listed, event_status, parser, reader, ticking,
                 ctl, calls, mishaps>>

---------------------------------------------------------------------------------
\* fm_rds_read.  rds_event is looked at without the lock.

Reads(r) == UNCHANGED <<rx_on, receiving, pending, listed, parser, tick, ticking, ctl, calls>>

SeesReady(r) ==
  /\ reader[r] = "idle" /\ rds_event
  /\ reader' = [reader EXCEPT ![r] = "ready"]
  /\ Reads(r) /\ UNCHANGED <<event_status, rds_event, spoiled, mishaps>>

Copies(r) ==
  /\ reader[r] = "ready" /\ Unlocked
  /\ \/ reader' = [reader EXCEPT ![r] = "copied"] /\ UNCHANGED mishaps
     \/ /\ mishaps < MaxMishaps /\ mishaps' = mishaps + 1
        /\ reader' = [reader EXCEPT ![r] = "failed"]
  /\ Reads(r) /\ UNCHANGED <<event_status, rds_event, spoiled>>

Clears(r) ==
  /\ reader[r] = "copied"
  /\ event_status' = {}
  /\ reader' = [reader EXCEPT ![r] = "cleared"]
  /\ Reads(r) /\ UNCHANGED <<rds_event, spoiled, mishaps>>

\* The event is reset even when the copy failed.
Resets(r) ==
  /\ reader[r] \in {"cleared", "failed"}
  /\ rds_event' = FALSE
  /\ spoiled' = (spoiled \/ reader[r] = "failed")
  /\ reader' = [reader EXCEPT ![r] = "idle"]
  /\ Reads(r) /\ UNCHANGED <<event_status, mishaps>>

\* lseek to the start raises the event.
fm_ops_lseek ==
  /\ ~rds_event /\ Raise
  /\ UNCHANGED <<rx_on, receiving, pending, listed, event_status, parser, reader, tick,
                 ticking, ctl, calls, mishaps>>

Next ==
  \/ \E chip \in Chips, way \in {"on", "off"} : fm_rds_onoff(chip, way)
  \/ \E chip \in Chips : BlockCounter_Reset(chip) \/ fm_powerdown(chip)
  \/ fm_tune \/ CtlStep \/ CtlFails
  \/ GroupComes \/ Notices \/ Notifies \/ TimerFires \/ fm_rds_reset_work_func \/ TickSends
  \/ \E found \in {{}, {"PS"}, {"AF_LIST"}} : fm_rds_parser(found)
  \/ \E r \in Readers : SeesReady(r) \/ Copies(r) \/ Clears(r) \/ Resets(r)
  \/ fm_ops_lseek

Spec == Init /\ [][Next]_rds_user_vars

---------------------------------------------------------------------------------
\* A change that the parser has found and nobody has read is announced, or is about to
\* be: whatever readers, the timer and the switching of RDS do in between, the event is
\* not taken away from under it.  After a copy to the user that failed it is announced
\* again at the next change or tick.
NoUpdateIsMissed ==
  "PS" \in event_status /\ ~spoiled => rds_event \/ parser \in {"parsed", "send"}

\* Why it holds.  A reader that has cleared event_status and not yet lowered rds_event
\* holds fm_read_lock, so the parser cannot have added a change in between.  The timer
\* can add its own, and the calls that switch RDS can only take changes away.
ClearedHasNoPs == \A r \in Readers : reader[r] = "cleared" => "PS" \notin event_status

IInv ==
  /\ reader \in [Readers -> {"idle", "ready", "copied", "failed", "cleared"}]
  /\ ClearedHasNoPs
  /\ NoUpdateIsMissed
================================================================================
