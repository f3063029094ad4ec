------------------------------- MODULE GoodixFp -------------------------------
(***************************************************************************)
(* The Goodix GF3208 driver, ports/misc/goodix-fp-rmx3171.c: a character   *)
(* device whose ioctls run under p->lock, an interrupt whose thread sends  *)
(* a netlink event to the registered process, and probe and remove.        *)
(*                                                                         *)
(* External: the fingerprint HAL, one process of two threads that init     *)
(* restarts under a new pid when it dies and whose netlink socket is bound  *)
(* to its process id, which is its first thread's; the netlink core, in     *)
(* which port 0 is the driver's own socket; the interrupt core (edges that  *)
(* arrive while the line is disabled are kept); and the module loader,      *)
(* which unloads the driver only while nobody holds the device open.       *)
(***************************************************************************)
EXTENDS Integers

CONSTANT MaxPid  \* bound: how many HAL processes there may be, one at a time

Threads == {"main", "worker"}
Ioctls  == {"INIT", "EXIT", "RESET", "ENABLE_IRQ", "DISABLE_IRQ", "other"}
Pids    == (1 .. MaxPid) \X Threads   \* current->pid is the thread's
NoPid   == <<0, "main">>
Port(h) == <<h, "main">>              \* of the socket of a HAL process

VARIABLES
  driver,        \* how far probe and remove have got
  g_priv,        \* has the global been set?
  nl_sk,         \* "none", "open", or released with the pointer kept
  nl_pid,        \* struct gf_priv; its irq_enabled is next
  irq_enabled,
  depth,         \* the interrupt core's disable depth, 1 without an interrupt
  reset_line,    \* the level of the reset GPIO
  pc, op,        \* where each thread is in gf_ioctl, and with which command
  edge, handler, \* a pending edge, and where the interrupt thread is
  hal,           \* the living HAL process, 0 if none
  file,          \* private_data of its open file
  said,          \* history: its last word, by which thread it registered or that it left
  undone,        \* history: and an event that came back to the driver has undone it
  born           \* how many HAL processes there have been

gf_priv == <<nl_sk, nl_pid, irq_enabled>>
calls   == <<pc, op>>
irq     == <<edge, handler>>
process == <<hal, file, said, undone, born>>
vars == <<driver, g_priv, gf_priv, depth, reset_line, calls, irq, process>>

TypeOK ==
  /\ driver \in {"unbound", "node", "socket", "irq", "bound", "releasing", "gone"}
  /\ g_priv \in BOOLEAN
  /\ nl_sk \in {"none", "open", "released"}
  /\ nl_pid \in Pids \union {NoPid}
  /\ irq_enabled \in BOOLEAN /\ depth \in 0 .. 1
  /\ reset_line \in {"low", "high"}
  /\ pc \in [Threads -> {"idle", "body", "store", "low", "high"}]
  /\ op \in [Threads -> Ioctls]
  /\ edge \in BOOLEAN /\ handler \in {"idle", "check", "send", "echo"}
  /\ hal \in 0 .. MaxPid /\ born \in 0 .. MaxPid
  /\ file \in {"closed", "NULL", "priv"}
  /\ said \in {"nothing", "main", "worker", "exit"} /\ undone \in BOOLEAN

Init ==
  /\ driver = "unbound" /\ g_priv = FALSE
  /\ nl_sk = "none" /\ nl_pid = NoPid /\ irq_enabled = FALSE /\ depth = 1
  /\ reset_line = "low"
  /\ pc = [t \in Threads |-> "idle"] /\ op = [t \in Threads |-> "other"]
  /\ edge = FALSE /\ handler = "idle"
  /\ hal = 0 /\ file = "closed" /\ born = 0
  /\ said = "nothing" /\ undone = FALSE

-----------------------------------------------------------------------------
(* gf_probe, whose device node is visible before g_priv is set *)

ProbeCreatesNode ==
  /\ driver = "unbound"
  /\ driver' = "node" /\ reset_line' = "low"
  /\ UNCHANGED <<g_priv, gf_priv, depth, calls, irq, process>>

ProbeCreatesSocket ==
  /\ driver = "node"
  /\ driver' = "socket" /\ nl_sk' = "open"
  /\ UNCHANGED <<g_priv, nl_pid, irq_enabled, depth, reset_line, calls, irq, process>>

ProbeRequestsIrq ==
  /\ driver = "socket"
  /\ driver' = "irq" /\ irq_enabled' = TRUE /\ depth' = 0
  /\ UNCHANGED <<g_priv, nl_sk, nl_pid, reset_line, calls, irq, process>>

\* err_nl, err_dev and everything before: the structure goes.
ProbeFails ==
  /\ driver \in {"node", "socket"}
  /\ driver' = "unbound" /\ nl_sk' = "none"
  /\ UNCHANGED <<g_priv, nl_pid, irq_enabled, depth, reset_line, calls, irq, process>>

ProbeEnds ==
  /\ driver = "irq"
  /\ driver' = "bound" /\ g_priv' = TRUE
  /\ UNCHANGED <<gf_priv, depth, reset_line, calls, irq, process>>

(* gf_remove *)

\* The loader has seen that nobody holds the device; nl_sk is left dangling.
RemoveReleasesSocket ==
  /\ driver = "bound" /\ file = "closed"
  /\ driver' = "releasing" /\ nl_sk' = "released"
  /\ UNCHANGED <<g_priv, nl_pid, irq_enabled, depth, reset_line, calls, irq, process>>

RemoveDestroysNode ==
  /\ driver = "releasing"
  /\ driver' = "gone" /\ g_priv' = FALSE
  /\ UNCHANGED <<gf_priv, depth, reset_line, calls, irq, process>>

\* The managed interrupt is freed, which waits for its thread, then gf_priv.
DevresFrees ==
  /\ driver = "gone" /\ handler = "idle"
  /\ driver' = "unbound"
  /\ nl_sk' = "none" /\ nl_pid' = NoPid /\ irq_enabled' = FALSE /\ depth' = 1
  /\ edge' = FALSE /\ said' = "nothing" /\ undone' = FALSE
  /\ UNCHANGED <<g_priv, reset_line, calls, handler, hal, file, born>>

-----------------------------------------------------------------------------
(* gf_irq_handler and gf_send_netlink, which reads nl_pid twice *)

HandlerStarts ==
  /\ edge /\ depth = 0 /\ handler = "idle"
  /\ edge' = FALSE /\ handler' = "check"
  /\ UNCHANGED <<driver, g_priv, gf_priv, depth, reset_line, calls, process>>

\* Plausible bug: the interrupt thread takes the mutex.
HandlerChecksLocked ==
  /\ handler = "check" /\ \A t \in Threads : pc[t] = "idle"
  /\ handler' = IF nl_sk = "none" \/ nl_pid = NoPid THEN "idle" ELSE "send"
  /\ UNCHANGED <<driver, g_priv, gf_priv, depth, reset_line, calls, edge, process>>

HandlerChecks ==
  /\ handler = "check"
  /\ handler' = IF nl_sk = "none" \/ nl_pid = NoPid THEN "idle" ELSE "send"
  /\ UNCHANGED <<driver, g_priv, gf_priv, depth, reset_line, calls, edge, process>>

\* Out of memory, or nobody at that port: the event is lost.  After an EXIT since the
\* check it goes to port 0, and that is the driver's own socket.
HandlerSends ==
  /\ handler = "send"
  /\ handler' \in {"idle"} \union IF nl_sk = "open" /\ nl_pid = NoPid THEN {"echo"} ELSE {}
  /\ UNCHANGED <<driver, g_priv, gf_priv, depth, reset_line, calls, edge, process>>

\* gf_netlink_recv, with the event itself: its header names no sender.
HandlerHearsItself ==
  /\ handler = "echo"
  /\ handler' = "idle"
  /\ IF g_priv THEN nl_pid' = NoPid /\ undone' = (undone \/ nl_pid # NoPid)
               ELSE UNCHANGED <<nl_pid, undone>>
  /\ UNCHANGED <<driver, g_priv, nl_sk, irq_enabled, depth, reset_line, calls, edge,
                 hal, file, said, born>>

-----------------------------------------------------------------------------
(* gf_ioctl.  A command that needs no sleep and no interrupt core is one step. *)

Finish(t) == pc' = [pc EXCEPT ![t] = "idle"]

Enter(t, cmd) ==
  /\ hal # 0 /\ file = "priv"
  /\ \A u \in Threads : pc[u] = "idle"
  /\ pc' = [pc EXCEPT ![t] = "body"] /\ op' = [op EXCEPT ![t] = cmd]
  /\ UNCHANGED <<driver, g_priv, gf_priv, depth, reset_line, irq, process>>

\* A file opened before probe set g_priv carries NULL: the oops kills the HAL.
EnterNull ==
  /\ hal # 0 /\ file = "NULL"
  /\ hal' = 0 /\ file' = "closed" /\ said' = "nothing" /\ undone' = FALSE
  /\ UNCHANGED <<driver, g_priv, gf_priv, depth, reset_line, calls, irq, born>>

\* Plausible bug: a second registration does not replace the first.
InitKeepsFirst(t) ==
  /\ pc[t] = "body" /\ op[t] = "INIT"
  /\ nl_pid' = IF nl_pid = NoPid THEN <<hal, t>> ELSE nl_pid
  /\ said' = t /\ undone' = FALSE
  /\ Finish(t)
  /\ UNCHANGED <<driver, g_priv, nl_sk, irq_enabled, depth, reset_line, op, irq, hal, file, born>>

GfInit(t) ==
  /\ pc[t] = "body" /\ op[t] = "INIT"
  /\ nl_pid' = <<hal, t>> /\ said' = t /\ undone' = FALSE
  /\ Finish(t)
  /\ UNCHANGED <<driver, g_priv, nl_sk, irq_enabled, depth, reset_line, op, irq, hal, file, born>>

GfExit(t) ==
  /\ pc[t] = "body" /\ op[t] = "EXIT"
  /\ nl_pid' = NoPid /\ said' = "exit" /\ undone' = FALSE
  /\ Finish(t)
  /\ UNCHANGED <<driver, g_priv, nl_sk, irq_enabled, depth, reset_line, op, irq, hal, file, born>>

\* The two halves of a reset, with the driver asleep after each.
GfResetLow(t) ==
  /\ pc[t] = "body" /\ op[t] = "RESET"
  /\ reset_line' = "low"
  /\ pc' = [pc EXCEPT ![t] = "low"]
  /\ UNCHANGED <<driver, g_priv, gf_priv, depth, op, irq, process>>

GfResetHigh(t) ==
  /\ pc[t] = "low"
  /\ reset_line' = "high"
  /\ pc' = [pc EXCEPT ![t] = "high"]
  /\ UNCHANGED <<driver, g_priv, gf_priv, depth, op, irq, process>>

\* enable_irq or disable_irq ...
GfEnableIrq(t) ==
  /\ pc[t] = "body" /\ op[t] = "ENABLE_IRQ" /\ ~irq_enabled
  /\ depth' = depth - 1
  /\ pc' = [pc EXCEPT ![t] = "store"]
  /\ UNCHANGED <<driver, g_priv, gf_priv, reset_line, op, irq, process>>

GfDisableIrq(t) ==
  /\ pc[t] = "body" /\ op[t] = "DISABLE_IRQ" /\ irq_enabled
  /\ depth' = depth + 1
  /\ pc' = [pc EXCEPT ![t] = "store"]
  /\ UNCHANGED <<driver, g_priv, gf_priv, reset_line, op, irq, process>>

\* Plausible bug: the flag is not stored.
GfForgetsIrqFlag(t) ==
  /\ pc[t] = "store"
  /\ Finish(t)
  /\ UNCHANGED <<driver, g_priv, gf_priv, depth, reset_line, op, irq, process>>

\* ... which waits for the interrupt thread after disabling; then the flag.
GfStoresIrqFlag(t) ==
  /\ pc[t] = "store"
  /\ op[t] = "DISABLE_IRQ" => handler = "idle"
  /\ irq_enabled' = (op[t] = "ENABLE_IRQ")
  /\ Finish(t)
  /\ UNCHANGED <<driver, g_priv, nl_sk, nl_pid, depth, reset_line, op, irq, process>>

NothingToDo(t) ==
  \/ op[t] = "other"
  \/ op[t] = "ENABLE_IRQ" /\ irq_enabled
  \/ op[t] = "DISABLE_IRQ" /\ ~irq_enabled

GfReturns(t) ==
  /\ pc[t] = "high" \/ (pc[t] = "body" /\ NothingToDo(t))
  /\ Finish(t)
  /\ UNCHANGED <<driver, g_priv, gf_priv, depth, reset_line, op, irq, process>>

-----------------------------------------------------------------------------
(* gf_open, gf_release and gf_netlink_recv, without the lock *)

GfOpen ==
  /\ hal # 0 /\ file = "closed" /\ driver \in {"node", "socket", "irq", "bound"}
  /\ file' = IF g_priv THEN "priv" ELSE "NULL"
  /\ UNCHANGED <<driver, g_priv, gf_priv, depth, reset_line, calls, irq, hal, said, undone, born>>

\* The last reference goes when no thread is in the driver; nl_pid stays.
GfRelease ==
  /\ file # "closed" /\ \A t \in Threads : pc[t] = "idle"
  /\ file' = "closed"
  /\ UNCHANGED <<driver, g_priv, gf_priv, depth, reset_line, calls, irq, hal, said, undone, born>>

\* The HAL writes its process id into the header.
NetlinkRecv ==
  /\ hal # 0 /\ nl_sk = "open" /\ g_priv
  /\ nl_pid' = Port(hal) /\ said' = "main" /\ undone' = FALSE
  /\ UNCHANGED <<driver, g_priv, nl_sk, irq_enabled, depth, reset_line, calls, irq, hal, file, born>>

-----------------------------------------------------------------------------
HalStarts ==
  /\ hal = 0 /\ born < MaxPid
  /\ hal' = born + 1 /\ born' = born + 1
  /\ UNCHANGED <<driver, g_priv, gf_priv, depth, reset_line, calls, irq, file, said, undone>>

\* A killed thread finishes its system call first; the kernel closes the file.
HalDies ==
  /\ hal # 0 /\ \A t \in Threads : pc[t] = "idle"
  /\ hal' = 0 /\ file' = "closed" /\ said' = "nothing" /\ undone' = FALSE
  /\ UNCHANGED <<driver, g_priv, gf_priv, depth, reset_line, calls, irq, born>>

FingerTouches ==
  /\ ~edge /\ driver \in {"irq", "bound", "releasing"}
  /\ edge' = TRUE
  /\ UNCHANGED <<driver, g_priv, gf_priv, depth, reset_line, calls, handler, process>>

Probe   == ProbeCreatesNode \/ ProbeCreatesSocket \/ ProbeRequestsIrq \/ ProbeFails \/ ProbeEnds
Remove  == RemoveReleasesSocket \/ RemoveDestroysNode \/ DevresFrees
Handler == HandlerStarts \/ HandlerChecks \/ HandlerSends \/ HandlerHearsItself
Call(t) == \/ GfInit(t) \/ GfExit(t) \/ GfResetLow(t) \/ GfResetHigh(t) \/ GfEnableIrq(t)
           \/ GfDisableIrq(t) \/ GfStoresIrqFlag(t) \/ GfReturns(t)
Hal     == \/ \E t \in Threads, cmd \in Ioctls : Enter(t, cmd)
           \/ EnterNull \/ GfOpen \/ GfRelease \/ NetlinkRecv \/ HalStarts \/ HalDies

Next == Probe \/ Remove \/ Handler \/ (\E t \in Threads : Call(t)) \/ Hal \/ FingerTouches

\* The interrupt thread and a thread inside the driver are scheduled.
Spec ==
  /\ Init /\ [][Next]_vars
  /\ WF_vars(Handler) /\ \A t \in Threads : WF_vars(Call(t))

-----------------------------------------------------------------------------
\* The driver's flag and the interrupt core never disagree, except inside the
\* call that is changing both: two threads switching the interrupt at once
\* must not enable it twice or leave it disabled with the flag set.
IrqBalanced ==
  (\A t \in Threads : pc[t] # "store") => depth = IF irq_enabled THEN 0 ELSE 1

\* A reset pulse has its full length: while one caller sleeps in it, no other
\* call moves the reset line.
ResetPulseIntact ==
  \A t \in Threads : pc[t] \in {"low", "high"} => reset_line = pc[t]

\* Events reach the living HAL exactly as it has asked: from its registration by
\* netlink or by an INIT of its first thread until it leaves, and neither in the
\* predecessor's name, whose port closing the device leaves behind, nor after an
\* EXIT.  An INIT of another thread addresses a port nobody listens at, also when the
\* first thread had registered before.  The exception: an event that met an EXIT
\* comes back to the driver, and takes away a registration made meanwhile.
ReportsToCurrentHal ==
  driver = "bound" /\ hal # 0 => (nl_pid = Port(hal) <=> said = "main" /\ ~undone)

\* disable_irq is called with the mutex held and waits for the interrupt
\* thread, and the thread ends by itself: every ioctl returns.
CallsReturn == \A t \in Threads : pc[t] = "body" ~> pc[t] = "idle"

\* Why they hold: the mutex, and which stages of probe and remove an open file and a
\* running handler can meet.
\*
\* p->lock: at most one thread is inside gf_ioctl, on a live file.
Exclusive ==
  /\ \A t, u \in Threads : pc[t] # "idle" /\ pc[u] # "idle" => t = u
  /\ \A t \in Threads : pc[t] # "idle" => file = "priv" /\ hal # 0

Stages ==
  /\ g_priv => driver \in {"bound", "releasing"}
  /\ file = "priv" => driver = "bound"
  /\ driver \in {"unbound", "node", "socket"} => ~irq_enabled /\ depth = 1 /\ handler = "idle"
  /\ driver \in {"socket", "irq", "bound"} => nl_sk = "open"

\* Inside the call that switches the interrupt, the depth is ahead of the flag.
Switching ==
  \A t \in Threads : pc[t] = "store" =>
    \/ op[t] = "ENABLE_IRQ"  /\ ~irq_enabled /\ depth = 0
    \/ op[t] = "DISABLE_IRQ" /\ irq_enabled  /\ depth = 1

\* Of the types, those that matter here.
Types ==
  /\ irq_enabled \in BOOLEAN /\ depth \in 0 .. 1
  /\ pc \in [Threads -> {"idle", "body", "store", "low", "high"}]
  /\ op \in [Threads -> Ioctls]
  /\ driver \in {"unbound", "node", "socket", "irq", "bound", "releasing", "gone"}

\* A process that is started finds its number nowhere.
PidsAreNew ==
  /\ born \in Nat /\ hal \in {0, born}
  /\ nl_pid = NoPid \/ \E h \in 1 .. born, t \in Threads : nl_pid = <<h, t>>
  /\ IF hal = 0 THEN said = "nothing" ELSE nl_pid = Port(hal) <=> said = "main" /\ ~undone

IInv == Types /\ Exclusive /\ Stages /\ Switching /\ IrqBalanced /\ ResetPulseIntact
          /\ PidsAreNew
===============================================================================
