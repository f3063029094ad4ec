-------------------------------- MODULE SiaAfe --------------------------------
(* The amplifier's link to the signal processor on Qualcomm boards                *)
(* (sia81xx_afe.c): commands go out one at a time behind a busy flag, and the     *)
(* answer clears the flag.  The processor may be slow, dead or restart; a late    *)
(* answer then meets whatever command is waiting.                                *)
(*                                                                             *)
(* A command is a number; MaxCmds bounds how many are sent.                      *)
EXTENDS Naturals

CONSTANTS MaxCmds

VARIABLES
  apr,      \* registered with the processor's service
  block,    \* the calibration block is allocated
  mmap,     \* ... and mapped by the processor
  busy,     \* afe->state
  call,     \* the call that holds afe_lock: "none", "send" or "read"
  stage,    \* where it is: "idle", "check", "map", "param", "wait", "unmap"
  waits,    \* the command it waits for, and what it is
  sent,     \* commands sent so far
  pending,  \* commands the processor has not answered
  heard,    \* commands answered, or lost to a restart of the processor
  trusted   \* commands the driver takes for answered

afe_vars == <<apr, block, mmap, busy, call, stage, waits, sent, pending, heard, trusted>>

NoWait == [cmd |-> 0, kind |-> "none"]
Commands == 1 .. MaxCmds

TypeOK ==
  /\ apr \in BOOLEAN /\ block \in BOOLEAN /\ mmap \in BOOLEAN /\ busy \in BOOLEAN
  /\ call \in {"none", "send", "read", "close"}
  /\ stage \in {"idle", "check", "map", "param", "wait", "unmap"}
  /\ sent \in 0 .. MaxCmds
  /\ pending \subseteq [cmd : Commands, kind : {"map", "param", "unmap"}]
  /\ heard \subseteq Commands /\ trusted \subseteq Commands

\* sia81xx_afe_open
Init ==
  /\ apr = FALSE /\ block = FALSE /\ mmap = FALSE /\ busy = FALSE
  /\ call = "none" /\ stage = "idle" /\ waits = NoWait
  /\ sent = 0 /\ pending = {} /\ heard = {} /\ trusted = {}

\* Everything let go: the next device starts as sia81xx_afe_open makes it, and an
\* answer to the old one is dropped with its registration.
Freed ==
  /\ apr' = FALSE /\ block' = FALSE /\ mmap' = FALSE /\ busy' = FALSE
  /\ heard' = heard \union {m.cmd : m \in pending} /\ pending' = {}

Return == call' = "none" /\ stage' = "idle" /\ waits' = NoWait

-----------------------------------------------------------------------------
(* sia81xx_afe_send and sia81xx_afe_read, under afe_lock. *)

Call(c) ==
  /\ call = "none"
  /\ call' = c /\ stage' = "check"
  /\ UNCHANGED <<apr, block, mmap, busy, waits, sent, pending, heard, trusted>>

\* chack_afe_validity: each of its steps may fail, and keeps what it got so far.
CheckApr ==
  /\ stage = "check" /\ ~apr
  /\ \/ apr' = TRUE /\ UNCHANGED <<call, stage, waits>>
     \/ UNCHANGED apr /\ Return
  /\ UNCHANGED <<block, mmap, busy, sent, pending, heard, trusted>>

CheckCalBlock ==
  /\ stage = "check" /\ apr
  /\ \/ /\ block' = TRUE
        /\ stage' = IF mmap THEN "param" ELSE "map"
        /\ UNCHANGED <<call, waits>>
     \/ ~block /\ UNCHANGED block /\ Return
  /\ UNCHANGED <<apr, mmap, busy, sent, pending, heard, trusted>>

Refused == busy

\* A mapping that fails is not reported, so the parameter is tried without one.
Failed(kind) ==
  CASE kind = "map" -> stage' = "param" /\ UNCHANGED <<call, waits>>
    [] OTHER -> Return

\* sia81xx_apr_send up to its wait.  A packet that cannot be sent, or has no
\* service to go to, leaves the flag set.  Unmapping registers again if it must.
AprSend(kind) ==
  /\ stage = kind
  /\ \/ /\ Failed(kind)
        /\ IF kind = "unmap" THEN Freed
           ELSE /\ busy' = TRUE /\ mmap' = (mmap /\ kind # "map")
                /\ UNCHANGED <<apr, block, pending, heard>>
        /\ UNCHANGED sent
     \/ /\ ~Refused /\ (apr \/ kind = "unmap") /\ sent < MaxCmds
        /\ busy' = TRUE /\ mmap' = (mmap /\ kind # "map")
        /\ sent' = sent + 1
        /\ pending' = pending \union {[cmd |-> sent + 1, kind |-> kind]}
        /\ waits' = [cmd |-> sent + 1, kind |-> kind]
        /\ stage' = "wait" /\ UNCHANGED <<call, apr, block, heard>>
     \/ /\ kind = "unmap" /\ ~apr /\ Return
        /\ UNCHANGED <<apr, block, mmap, busy, sent, pending, heard>>
  /\ UNCHANGED trusted

\* What a call does once its wait is over, answered or not.
Continue ==
  CASE waits.kind = "map" ->
         stage' = "param" /\ waits' = NoWait /\ UNCHANGED <<call, apr, block, mmap, pending, heard>>
    [] waits.kind = "param" -> Return /\ UNCHANGED <<apr, block, mmap, pending, heard>>
    [] OTHER -> Return /\ Freed

\* What wait_event_timeout does when the flag is clear, whoever cleared it.
Answered ==
  /\ stage = "wait" /\ ~busy
  /\ trusted' = trusted \union {waits.cmd}
  /\ Continue /\ busy' = FALSE
  /\ UNCHANGED sent

\* Plausible bug: a timeout clears the flag, so that the next command can go out.
ClearedByTimeout == FALSE

FlagAfterTimeout == busy

TimesOut ==
  /\ stage = "wait" /\ busy
  /\ Continue /\ (waits.kind # "unmap" => busy' = FlagAfterTimeout)
  /\ UNCHANGED <<sent, trusted>>

\* sia81xx_afe_close, which takes no lock; it is called once nobody sends any more.
\* It unmaps, which is not reported either, and lets everything go.
Close ==
  /\ call = "none"
  /\ \/ mmap /\ call' = "close" /\ stage' = "unmap"
        /\ UNCHANGED <<apr, block, mmap, busy, pending, heard>>
     \/ ~mmap /\ Freed /\ UNCHANGED <<call, stage>>
  /\ UNCHANGED <<waits, sent, trusted>>

-----------------------------------------------------------------------------
(* sia81xx_afe_callback *)

Answer(m) ==
  /\ m \in pending
  /\ pending' = pending \ {m}
  /\ heard' = heard \union {m.cmd}
  /\ busy' = FALSE
  /\ mmap' = IF m.kind = "param" THEN mmap ELSE m.kind = "map"
  /\ UNCHANGED <<apr, block, call, stage, waits, sent, trusted>>

\* RESET_EVENTS: the processor restarted and knows none of the commands.
Reset ==
  /\ mmap' = FALSE
  /\ IF apr THEN apr' = FALSE /\ busy' = FALSE ELSE UNCHANGED <<apr, busy>>
  /\ heard' = heard \union {m.cmd : m \in pending}
  /\ pending' = {}
  /\ UNCHANGED <<block, call, stage, waits, sent, trusted>>

Next ==
  \/ \E c \in {"send", "read"} : Call(c)
  \/ CheckApr \/ CheckCalBlock
  \/ \E kind \in {"map", "param", "unmap"} : AprSend(kind)
  \/ Answered \/ TimesOut \/ Close
  \/ \E m \in pending : Answer(m)
  \/ Reset

Spec == Init /\ [][Next]_afe_vars

-----------------------------------------------------------------------------
\* A command that the driver takes for answered was answered, or lost with a
\* restart: the late answer to a command that timed out never passes for the
\* answer to the next one, because the flag stays set until it comes.
NoCrossedAnswers == trusted \subseteq heard

\* It says nothing of the command that is waited for.  What keeps it is that the flag
\* stays set as long as a command is unanswered: so there is at most one, and the one
\* waited for is either that one or has been heard of.
FlagCoversPending == pending # {} => busy
OnePending        == \A m, n \in pending : m = n
WaitedIsKnown     == stage = "wait" => waits.cmd \in heard \/ \E m \in pending : m.cmd = waits.cmd

IInv == FlagCoversPending /\ OnePending /\ WaitedIsKnown /\ NoCrossedAnswers
=============================================================================
