------------------------------ MODULE SiaMailbox ------------------------------
(* The amplifier's tuning mailbox on MediaTek boards (sia81xx_tuning_if_dev.c):    *)
(* a daemon opens the device file and takes a unit of the table for a calibration *)
(* id; the kernel leaves a command in the unit and polls its state until the      *)
(* daemon has picked it up, or has answered it, or a time is over.  The kernel's  *)
(* users are the voltage sampler (sia81xx_set_vdd.c) and the tuning socket        *)
(* (sia81xx_socket.c); each keeps the handle of the unit that it opened.          *)
(*                                                                             *)
(* The unit's lock covers only what the kernel's users store and copy.  The calls *)
(* of the daemon's threads look, copy and store the state one after the other,    *)
(* and so does a read between its test and its copy.  A copy itself is one step:  *)
(* commands and answers that are torn by another copy of the same unit are left   *)
(* out.  Params are the parameters that can be read; what is set is not told      *)
(* apart.  A daemon's answer may come after the kernel has given up, and then     *)
(* meets the next command.  No daemon takes its unit away from a call of its own  *)
(* (the driver would free the buffer under it).                                  *)
EXTENDS Naturals, FiniteSets

CONSTANTS Units, Files, Scenes, Users, Params,
          Daemons   \* threads of the daemons

VARIABLES
  unit,    \* per unit: [fp, cal, cmd, writen]; cmd is [opt, param, from]
  handle,  \* per user: the unit of its cal_handle
  req,     \* per user: its request, [at, param, fate]
  picked,  \* per daemon thread: the call it is in, its unit, and the command it copied
  misled   \* the users whom a call told that it worked when it had not

mail_vars == <<unit, handle, req, picked, misled>>

NoFile   == "closed"
Nothing  == [opt |-> "invalid", param |-> "none", from |-> "none"]
FreeUnit == [fp |-> NoFile, cal |-> "none", cmd |-> Nothing, writen |-> FALSE]
NoHandle == "none"
Idle     == [at |-> "idle", param |-> "none", fate |-> "taken"]
Free     == [at |-> "idle", unit |-> NoHandle, cmd |-> Nothing]

Cmds == [opt : {"invalid", "set", "get", "reply"}, param : Params \union {"none"},
         from : Users \union {"none"}]

\* What became of a request: the daemon has copied it; or its unit changed hands or
\* got another user's command; or the daemon's answer took its place; or the unit
\* was set idle by a call that had begun before the request came.
Fates == {"waiting", "taken", "changed", "answered", "swept"}

Contents == [fp : Files \union {NoFile}, cal : Scenes \union {"none"}, cmd : Cmds, writen : BOOLEAN]
Requests == [at : {"idle", "set", "get", "answer", "posted", "tested"},
             param : Params \union {"none"}, fate : Fates]
Calls    == [at : {"idle", "looked", "checked", "copied", "has", "wrote"},
             unit : Units \union {NoHandle}, cmd : Cmds]

TypeOK ==
  /\ unit \in [Units -> Contents]
  /\ handle \in [Users -> Units \union {NoHandle}]
  /\ req \in [Users -> Requests]
  /\ picked \in [Daemons -> Calls]
  /\ misled \subseteq Users \X {"write", "read"}

Init ==
  /\ unit = [u \in Units |-> FreeUnit]
  /\ handle = [k \in Users |-> NoHandle]
  /\ req = [k \in Users |-> Idle]
  /\ picked = [d \in Daemons |-> Free]
  /\ misled = {}

UnitOfCal(cal) == {u \in Units : unit[u].cal = cal /\ unit[u].fp # NoFile}
UnitOfFile(f)  == {u \in Units : unit[u].fp = f}

\* What happens in unit u befalls every request there, or those still waiting, or the
\* one whose command is there.
Lost(u, fate) ==
  [k \in Users |-> IF handle[k] = u /\ req[k].at # "idle"
                   THEN [req[k] EXCEPT !.fate = fate] ELSE req[k]]

Waits(u, k) == handle[k] = u /\ req[k].fate = "waiting"

Swept(u) ==
  [k \in Users |-> IF Waits(u, k) THEN [req[k] EXCEPT !.fate = "swept"] ELSE req[k]]

Copied(u) ==
  [k \in Users |-> IF Waits(u, k) /\ unit[u].cmd.from = k
                   THEN [req[k] EXCEPT !.fate = "taken"] ELSE req[k]]

-----------------------------------------------------------------------------
(* The daemons: ioctl, write and release of the device file. *)

GetOneCanUse(cal) ==
  IF UnitOfCal(cal) # {} THEN UnitOfCal(cal) ELSE {u \in Units : unit[u].fp = NoFile}

\* CMD_SIA81XX_TUNING_IF_ADD_CAL_ID
AddCalId(f, cal) ==
  \E u \in GetOneCanUse(cal) :
    /\ unit' = [unit EXCEPT ![u] = [fp |-> f, cal |-> cal, cmd |-> @.cmd, writen |-> FALSE]]
    /\ req' = Lost(u, "changed")
    /\ UNCHANGED <<handle, picked, misled>>

\* CMD_SIA81XX_TUNING_IF_RM_CAL_ID, and release: the first unit of the file.
RmCalId(f) ==
  /\ \E u \in UnitOfFile(f) :
       /\ \A d \in Daemons : picked[d].unit # u
       /\ unit' = [unit EXCEPT ![u] = FreeUnit]
       /\ req' = Lost(u, "changed")
  /\ UNCHANGED <<handle, picked, misled>>

\* CMD_SIA81XX_TUNING_IF_PICK_CMD: the state is looked at, then the kind of command;
\* the command is copied; the unit is set idle, whatever it holds by then.
PickLooks(d) ==
  /\ picked[d].at \in {"idle", "has"}
  /\ \E f \in Files : \E u \in UnitOfFile(f) :
       /\ unit[u].writen
       /\ picked' = [picked EXCEPT ![d] = [at |-> "looked", unit |-> u, cmd |-> Nothing]]
  /\ UNCHANGED <<unit, handle, req, misled>>

PickChecks(d) ==
  /\ picked[d].at = "looked"
  /\ picked' = [picked EXCEPT ![d] = IF unit[@.unit].cmd.opt = "reply" THEN Free
                                     ELSE [at |-> "checked", unit |-> @.unit, cmd |-> Nothing]]
  /\ UNCHANGED <<unit, handle, req, misled>>

PickCopies(d) ==
  LET u == picked[d].unit IN
  /\ picked[d].at = "checked"
  /\ picked' = [picked EXCEPT ![d] = [at |-> "copied", unit |-> u, cmd |-> unit[u].cmd]]
  /\ req' = Copied(u)
  /\ UNCHANGED <<unit, handle, misled>>

PickEnds(d) ==
  LET u == picked[d].unit IN
  /\ picked[d].at = "copied"
  /\ unit' = [unit EXCEPT ![u].writen = FALSE]
  /\ req' = Swept(u)
  /\ picked' = [picked EXCEPT ![d] = IF @.cmd.opt = "get"
                                     THEN [at |-> "has", unit |-> NoHandle, cmd |-> @.cmd]
                                     ELSE Free]
  /\ UNCHANGED <<handle, misled>>

\* sia81xx_tuning_if_dev_write: the answer replaces what the unit holds, and only
\* then is the state stored.
DevWrite(d) ==
  /\ picked[d].at = "has"
  /\ \E f \in Files : \E u \in UnitOfFile(f) :
       /\ unit' = [unit EXCEPT ![u].cmd =
                      [opt |-> "reply", param |-> picked[d].cmd.param, from |-> "none"]]
       /\ req' = Lost(u, "answered")
       /\ picked' = [picked EXCEPT ![d] = [at |-> "wrote", unit |-> u, cmd |-> Nothing]]
  /\ UNCHANGED <<handle, misled>>

DevWritten(d) ==
  /\ picked[d].at = "wrote"
  /\ unit' = [unit EXCEPT ![picked[d].unit].writen = TRUE]
  /\ picked' = [picked EXCEPT ![d] = Free]
  /\ UNCHANGED <<handle, req, misled>>

-----------------------------------------------------------------------------
(* The kernel's users: open, write and read of tuning_if_opt. *)

Open(k, cal) ==
  /\ req[k].at = "idle"
  /\ \E u \in UnitOfCal(cal) : handle' = [handle EXCEPT ![k] = u]
  /\ UNCHANGED <<unit, req, picked, misled>>

Close(k) ==
  /\ req[k].at = "idle" /\ handle[k] # NoHandle
  /\ handle' = [handle EXCEPT ![k] = NoHandle]
  /\ UNCHANGED <<unit, req, picked, misled>>

\* write_payload_to_cal_module; a unit without a file has no cmd buffer.
Ask(k, opt, p) ==
  LET u == handle[k] IN
  /\ req[k].at = "idle" /\ handle[k] # NoHandle
  /\ unit[u].fp # NoFile
  /\ unit' = [unit EXCEPT ![u] =
                 [fp |-> @.fp, cal |-> @.cal, cmd |-> [opt |-> opt, param |-> p, from |-> k],
                  writen |-> TRUE]]
  /\ req' = [Lost(u, "changed") EXCEPT ![k] = [at |-> opt, param |-> p, fate |-> "waiting"]]
  /\ UNCHANGED <<handle, picked, misled>>

Goes(k, at) == req' = [req EXCEPT ![k].at = at]
Done(k)     == req' = [req EXCEPT ![k] = Idle]

\* Plausible bug: the write does not wait for the unit to be idle.
WaitsForNothing(u) == TRUE

SetIsOver(u) == ~unit[u].writen

\* The wait of a write: it reports success as soon as the unit is idle.
WriteReturns(k) ==
  /\ req[k].at = "set" /\ SetIsOver(handle[k])
  /\ Done(k)
  /\ misled' = IF req[k].fate = "waiting" THEN misled \union {<<k, "write">>} ELSE misled
  /\ UNCHANGED <<unit, handle, picked>>

GivesUp(k) ==
  /\ req[k].at \in {"set", "get", "answer"} /\ Done(k)
  /\ UNCHANGED <<unit, handle, picked, misled>>

\* The two waits of a read, the test of what it finds, and the copy.
ReadIsPicked(k) ==
  LET u == handle[k] IN
  /\ req[k].at = "get"
  /\ ~unit[u].writen \/ unit[u].cmd.opt = "reply"
  /\ Goes(k, "answer")
  /\ UNCHANGED <<unit, handle, picked, misled>>

ReadIsAnswered(k) ==
  /\ req[k].at = "answer" /\ unit[handle[k]].writen
  /\ Goes(k, "posted")
  /\ UNCHANGED <<unit, handle, picked, misled>>

ReadTests(k) ==
  /\ req[k].at = "posted"
  /\ IF unit[handle[k]].cmd.opt = "reply" THEN Goes(k, "tested") ELSE Done(k)
  /\ UNCHANGED <<unit, handle, picked, misled>>

Accepted(k, cmd) == cmd.param = req[k].param

\* read_payload_from_cal_module sets the unit idle, too, and then the parameter is
\* compared.  It fails without a buffer, or when the payload is too long.
ReadReturns(k) ==
  LET u == handle[k]
      c == unit[u].cmd
  IN
  /\ req[k].at = "tested"
  /\ \/ Done(k) /\ UNCHANGED <<unit, misled>>
     \/ /\ unit[u].fp # NoFile
        /\ unit' = [unit EXCEPT ![u].writen = FALSE]
        /\ req' = [Swept(u) EXCEPT ![k] = Idle]
        /\ misled' = IF Accepted(k, c) /\ c.opt # "reply" /\ req[k].fate # "changed"
                     THEN misled \union {<<k, "read">>} ELSE misled
  /\ UNCHANGED <<handle, picked>>

Next ==
  \/ \E f \in Files : (\E cal \in Scenes : AddCalId(f, cal)) \/ RmCalId(f)
  \/ \E d \in Daemons :
       PickLooks(d) \/ PickChecks(d) \/ PickCopies(d) \/ PickEnds(d) \/ DevWrite(d) \/ DevWritten(d)
  \/ \E k \in Users :
       \/ \E cal \in Scenes : Open(k, cal)
       \/ Ask(k, "set", "none") \/ \E p \in Params : Ask(k, "get", p)
       \/ Close(k) \/ WriteReturns(k) \/ GivesUp(k)
       \/ ReadIsPicked(k) \/ ReadIsAnswered(k) \/ ReadTests(k) \/ ReadReturns(k)

Spec == Init /\ [][Next]_mail_vars

-----------------------------------------------------------------------------
\* A write that reports success was copied by a daemon: "wait for cal module read
\* payload".  There are two ways for it to be lost instead, and no third: while it
\* waited, its unit changed hands or something else was put there (another user's
\* command, an answer); or the unit was set idle by a PICK_CMD that had copied what
\* was there before, or by a read of another user that was past its test.  The
\* second is what the driver's comments mean by "it is not safe".
WriteWasTaken == \A k \in Users : <<k, "write">> \notin misled

\* What a read accepts is an answer of the daemon's to a read of that parameter, and
\* never a late one to another.  Only another user's command, put into the unit
\* between the read's test and its copy, may be taken for an answer.
ReplyIsForParam == \A k \in Users : <<k, "read">> \notin misled

\* What a unit holds meets the command it was meant for.
CommandsMeet == WriteWasTaken /\ ReplyIsForParam

\* A user with a request has a unit.
HasHandle == \A k \in Users : req[k].at # "idle" => handle[k] \in Units

\* Why: a write that waits is in the unit of the user's handle, and the unit is not
\* idle; and what a read has tested is still there, unless its fate says otherwise.
CommandStays ==
  \A k \in Users : req[k].at = "set" /\ req[k].fate = "waiting" =>
    unit[handle[k]].writen /\ unit[handle[k]].cmd.from = k

AnswerStays ==
  \A k \in Users : req[k].at = "tested" /\ req[k].fate # "changed" =>
    unit[handle[k]].cmd.opt = "reply"

\* A daemon's thread inside a call has a unit.
CallsHaveUnits ==
  \A d \in Daemons :
    picked[d].at \in {"looked", "checked", "copied", "wrote"} => picked[d].unit \in Units

IInv == TypeOK /\ CommandsMeet /\ HasHandle /\ CommandStays /\ AnswerStays /\ CallsHaveUnits
=============================================================================
