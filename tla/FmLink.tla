-------------------------------- MODULE FmLink --------------------------------
(* The message link between the FM driver and the radio's firmware (fm_link.c,    *)
(* with the flag word of fm_utils.c and the register calls of fm_cmd.c).  A       *)
(* caller holds cmd_buf_lock, clears the flags it will wait for, sends a command  *)
(* and waits for the flags with a time limit; the transport's worker parses what  *)
(* comes back, stores the value in the shared link_event->result and raises the   *)
(* flag.  Nothing in a packet says which command it answers.                      *)
(*                                                                             *)
(* A value is the number of the command it answers, 0 is the value at start and  *)
(* Torn a value of which a part is missing.  The firmware answers in order, at    *)
(* any time, possibly after the caller gave up; a buffer of the transport may     *)
(* end inside a packet.  flag is a plain word: `|=' in the worker and `&= ~' in   *)
(* the caller are each a load and a store, so one may undo the other.  The bytes  *)
(* that follow a cut packet's header are taken not to look like a packet type,    *)
(* and the trace fifos, which nothing but the log reads, are left out.            *)
EXTENDS Naturals, Sequences

CONSTANTS
  Commands,     \* the commands sent, a subset of DOMAIN Mask
  MaxCommands,  \* bound: commands sent
  MaxCuts,      \* bound: packets that a buffer's end cuts
  MaxRds        \* bound: packets of RDS data, which come unasked

VARIABLES
  flag,     \* the flags raised in link_event->ln_event
  result,   \* link_event->result: the value of each of its fields
  state,    \* the parser's static state when a buffer starts
  wire,     \* the packets still to come, in order
  raising,  \* the worker's `|=' between its load and its store
  cmd,      \* the command under cmd_buf_lock, and where its caller is
  last,     \* the command that ended last, and what its caller was told
  sent, cuts, rds

vars == <<flag, result, state, wire, raising, cmd, last, sent, cuts, rds>>

Torn == MaxCommands + 1
Idle == [pc |-> "idle"]
None == [kind |-> "none"]

Mask ==
  [fspi_read |-> {"fspi_rd"}, top_read |-> {"cspi_read"}, host_read |-> {"host_read"},
   top_write |-> {"cspi_write"}, tune |-> {"tune", "tune_done"},
   seek |-> {"seek", "seek_done"}]

\* The packets that answer a command: what each raises, and the field of result
\* that its payload fills, if it has one.  A tune that failed says so with a
\* payload the parser ignores.
Packet(kind, field, n) == [kind |-> kind, field |-> field, cmd |-> n]
Answers(op, n) ==
  CASE op = "fspi_read" -> {<<Packet("fspi_rd", "fspi_rd", n)>>}
    [] op = "top_read"  -> {<<Packet("cspi_read", "cspi_rd", n)>>}
    [] op = "host_read" -> {<<Packet("host_read", "cspi_rd", n)>>}
    [] op = "top_write" -> {<<Packet("cspi_write", "empty", n)>>}
    [] op = "tune" -> {<<Packet("tune", "empty", n), Packet(done, "byte", n)>> :
                         done \in {"tune_done", "none"}}
    [] op = "seek" -> {<<Packet("seek", "empty", n), Packet("seek_done", "seek_result", n)>>}

Field(op) == CASE op = "fspi_read" -> "fspi_rd"
               [] op \in {"top_read", "host_read"} -> "cspi_rd"
               [] op = "seek" -> "seek_result"
               [] OTHER -> "empty"

Kinds   == {"fspi_rd", "cspi_read", "host_read", "cspi_write", "tune", "tune_done", "seek",
            "seek_done", "rds_data", "test", "none"}
Fields  == {"fspi_rd", "cspi_rd", "seek_result"}
Packets == [kind : Kinds, field : Fields \union {"empty", "byte", "rds"}, cmd : Nat]
Raises  == [kind : Kinds, seen : SUBSET Kinds]
Steps   == [pc : {"clearing", "sending", "waiting", "answered"}, op : Commands,
            n : 1 .. MaxCommands, seen : SUBSET Kinds, excuse : SUBSET {"late", "raced", "dropped"}]

TypeOK ==
  /\ flag \subseteq Kinds
  /\ result \in [Fields -> Nat]
  /\ state \in {"type", "opcode", "len_1", "len_2", "payload"}
  /\ wire \in Seq(Packets)
  /\ raising \in {None} \union Raises
  /\ cmd \in {Idle} \union Steps
  /\ sent \in 0 .. MaxCommands

Init ==
  /\ flag = {} /\ state = "type" /\ wire = <<>> /\ raising = None /\ cmd = Idle
  /\ result = [f \in Fields |-> 0]
  /\ last = [op |-> "none", ok |-> FALSE, n |-> 0, value |-> 0, excuse |-> {}]
  /\ sent = 0 /\ cuts = 0 /\ rds = 0

---------------------------------------------------------------------------------
\* The caller, in fm_cmd_tx.

\* The lock is taken and `flag &= ~mask' has loaded the word.  A packet of the same
\* kind that is still to come will be taken for this command's answer.
Begin(op) ==
  /\ cmd = Idle /\ sent < MaxCommands
  /\ sent' = sent + 1
  /\ cmd' = [pc |-> "clearing", op |-> op, n |-> sent + 1, seen |-> flag,
             excuse |-> IF \E i \in DOMAIN wire : wire[i].kind \in Mask[op]
                          THEN {"late"} ELSE {}]
  /\ UNCHANGED <<flag, result, state, wire, raising, last, cuts, rds>>

\* Plausible bug: the flags are not cleared before the command is sent.
KeepsFlags(seen, mask) == seen

FM_EVENT_CLR(seen, mask) == seen \ mask

Cleared ==
  /\ cmd.pc = "clearing"
  /\ flag' = FM_EVENT_CLR(cmd.seen, Mask[cmd.op])
  /\ cmd' = [cmd EXCEPT !.pc = "sending", !.seen = {},
                        !.excuse = IF raising # None THEN @ \union {"raced"} ELSE @]
  /\ UNCHANGED <<result, state, wire, raising, last, sent, cuts, rds>>

Ends(ok, value) ==
  /\ last' = [op |-> cmd.op, ok |-> ok, n |-> cmd.n, value |-> value, excuse |-> cmd.excuse]
  /\ cmd' = Idle

Send ==
  /\ cmd.pc = "sending"
  /\ cmd' = [cmd EXCEPT !.pc = "waiting"]
  /\ \E answer \in Answers(cmd.op, cmd.n) : wire' = wire \o answer
  /\ UNCHANGED <<flag, result, state, raising, last, sent, cuts, rds>>

SendFails ==
  /\ cmd.pc = "sending" /\ Ends(FALSE, 0)
  /\ UNCHANGED <<flag, result, state, wire, raising, sent, cuts, rds>>

\* The wait ends with every flag raised, and the second `flag &= ~mask' starts; or
\* it ends with the time.
Wakes ==
  /\ cmd.pc = "waiting" /\ Mask[cmd.op] \subseteq flag
  /\ cmd' = [cmd EXCEPT !.pc = "answered", !.seen = flag]
  /\ UNCHANGED <<flag, result, state, wire, raising, last, sent, cuts, rds>>

TimesOut ==
  /\ cmd.pc = "waiting" /\ ~(Mask[cmd.op] \subseteq flag)
  /\ Ends(FALSE, 0)
  /\ UNCHANGED <<flag, result, state, wire, raising, sent, cuts, rds>>

\* The flags are cleared, the register call reads the field and drops the lock.
Takes ==
  /\ cmd.pc = "answered"
  /\ flag' = FM_EVENT_CLR(cmd.seen, Mask[cmd.op])
  /\ Ends(TRUE, IF Field(cmd.op) = "empty" THEN 0 ELSE result[Field(cmd.op)])
  /\ UNCHANGED <<result, state, wire, raising, sent, cuts, rds>>

---------------------------------------------------------------------------------
\* The worker, in fm_event_parser.

Stores(f, n) == result' = IF f \in DOMAIN result THEN [result EXCEPT ![f] = n] ELSE result

\* One packet, to its end.  The opcode and the length live on the worker's stack:
\* when the buffer before ended behind the opcode they are 0, the packet raises the
\* flag of opcode 0 and its payload is skipped.
Parse ==
  /\ wire # <<>> /\ raising = None
  /\ LET packet == Head(wire) IN
       IF state \in {"type", "opcode"}
         THEN /\ Stores(packet.field, packet.cmd)
              /\ raising' = IF packet.kind = "none" THEN None
                              ELSE [kind |-> packet.kind, seen |-> flag]
         ELSE /\ raising' = [kind |-> "test", seen |-> flag]
              /\ UNCHANGED result
  /\ state' = "type" /\ wire' = Tail(wire)
  /\ UNCHANGED <<flag, cmd, last, sent, cuts, rds>>

\* The buffer ends in the header, or just behind it.
CutHeader(s) ==
  /\ wire # <<>> /\ raising = None /\ state = "type" /\ cuts < MaxCuts
  /\ s = "payload" => Head(wire).field # "empty"
  /\ state' = s /\ cuts' = cuts + 1
  /\ UNCHANGED <<flag, result, wire, raising, cmd, last, sent, rds>>

\* The buffer ends in the payload: the flag is raised all the same, and what follows
\* is not a packet type and is skipped.
Cuts ==
  /\ wire # <<>> /\ raising = None /\ state = "type" /\ cuts < MaxCuts
  /\ Head(wire).field \in DOMAIN result
  /\ raising' = [kind |-> Head(wire).kind, seen |-> flag]
  /\ wire' = Tail(wire) /\ cuts' = cuts + 1
  /\ UNCHANGED <<flag, state, last, sent, rds>>

\* The payload is used as far as it came.
CutPayload ==
  /\ Cuts /\ Stores(Head(wire).field, Torn)
  /\ UNCHANGED cmd

\* (i + 1) < RX_BUF_SIZE: of a payload that begins in the last byte of a full buffer
\* nothing is stored, and the field keeps the value of an earlier call.
DropPayload ==
  /\ Cuts
  /\ cmd' = IF cmd # Idle /\ Head(wire).cmd = cmd.n
              THEN [cmd EXCEPT !.excuse = @ \union {"dropped"}] ELSE cmd
  /\ UNCHANGED result

Raised ==
  /\ raising # None
  /\ flag' = raising.seen \union {raising.kind}
  /\ raising' = None
  /\ UNCHANGED <<result, state, wire, cmd, last, sent, cuts, rds>>

RdsArrives ==
  /\ rds < MaxRds /\ rds' = rds + 1
  /\ wire' = Append(wire, Packet("rds_data", "rds", 0))
  /\ UNCHANGED <<flag, result, state, raising, cmd, last, sent, cuts>>

Next ==
  \/ \E op \in Commands : Begin(op)
  \/ Cleared \/ Send \/ SendFails \/ Wakes \/ TimesOut \/ Takes
  \/ Parse \/ CutPayload \/ DropPayload \/ Raised \/ RdsArrives
  \/ \E s \in {"opcode", "len_1", "len_2", "payload"} : CutHeader(s)

Spec == Init /\ [][Next]_vars

---------------------------------------------------------------------------------
\* A register call that says it worked returns what the firmware answered to that
\* very call.  There are four ways to get another value, and no fifth: an answer of
\* the same kind to a call that timed out was still to come; the end of a buffer cut
\* the payload, and a part of the value is missing; the payload began in the last
\* byte of a full buffer, and the value is that of an earlier call; or the worker was
\* raising a flag while this call cleared its own (a flag may come back).  In
\* particular an answer that came too late, but before this call, and the answer to a
\* call of another kind that fills the same field, are never taken for its own.
OwnAnswer ==
  last.ok /\ Field(last.op) # "empty" =>
    \/ last.value \in {last.n, Torn}
    \/ last.excuse # {}

\* Why it holds.  Of the flags that a register call waits for, one comes with the packet
\* that fills its field.  Without an excuse, none of that kind is on its way, nor raised,
\* when the command goes out, so there is only the one that answers it; and the packets
\* of other kinds that fill the same field come before it.
DataFlag(op) == CASE op = "fspi_read" -> "fspi_rd"   [] op = "top_read" -> "cspi_read"
                  [] op = "host_read" -> "host_read" [] OTHER -> "seek_done"

IsUp(f)  == f \in flag \/ (raising # None /\ (f \in raising.seen \/ f = raising.kind))
OnWay(f) == {i \in DOMAIN wire : wire[i].kind = f}

Unexcused(pcs) == cmd # Idle /\ cmd.pc \in pcs /\ cmd.excuse = {} /\ Field(cmd.op) # "empty"

NoneBefore ==
  /\ Unexcused({"clearing", "sending"}) => OnWay(DataFlag(cmd.op)) = {}
  /\ Unexcused({"sending"}) => ~IsUp(DataFlag(cmd.op))

OneAnswers ==
  Unexcused({"waiting"}) =>
    LET answers == OnWay(DataFlag(cmd.op)) IN
    /\ \A i \in answers : wire[i].cmd = cmd.n /\ wire[i].field = Field(cmd.op)
    /\ \A i, j \in answers : i = j
    /\ \A i \in DOMAIN wire : wire[i].field = Field(cmd.op) => \E j \in answers : i <= j
    /\ IsUp(DataFlag(cmd.op)) => answers = {} /\ result[Field(cmd.op)] \in {cmd.n, Torn}

TakesOwn ==
  Unexcused({"answered"}) =>
    /\ result[Field(cmd.op)] \in {cmd.n, Torn}
    /\ \A i \in DOMAIN wire : wire[i].field # Field(cmd.op)

IInv == TypeOK /\ NoneBefore /\ OneAnswers /\ TakesOwn /\ OwnAnswer
===============================================================================
