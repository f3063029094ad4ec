------------------------------- MODULE FmProofs -------------------------------
(* The skeleton radio for any number of users, any bands and any width of the      *)
(* frequency, 2^32 included; the chip libraries for every chip and any number of   *)
(* failing steps; the RDS parser for any lists that fit into its two places and any *)
(* number of groups lost; the firmware link for any of the commands that the driver *)
(* knows and any number of them, of cuts and of RDS packets; and the way of RDS data *)
(* to the user for any number of readers, calls and failures.                      *)
EXTENDS MCFm, Sequences, TLAPS

-----------------------------------------------------------------------------
(* FmRadio. *)

\* fm_chip_seek never computes a frequency outside the band, whatever the
\* caller passed.
LEMMA StepInBand ==
  ASSUME NEW start \in Freqs, NEW band \in Bands, NEW space \in Spaces, NEW up \in BOOLEAN
  PROVE  StepFrom(start, band, space, up) \in Low[band] .. High[band]
<1> USE WrapAssumption, BandAssumption, SpaceAssumption
<1> DEFINE next == (IF up THEN start + space ELSE start - space) % Wrap
<1>1. start \in Int /\ space \in Int
  BY DEF Freqs
<1>2. next \in 0 .. Wrap - 1
  BY <1>1
<1>3. Low[band] \in Int /\ High[band] \in Int /\ Low[band] <= High[band]
  OBVIOUS
<1> HIDE DEF next
<1>4. StepFrom(start, band, space, up) =
        LET cur == IF next > High[band] THEN Low[band] ELSE next
        IN  IF cur < Low[band] THEN High[band] ELSE cur
  BY DEF StepFrom, next
<1> QED BY <1>2, <1>3, <1>4

LEMMA StepIsFreq ==
  ASSUME NEW start \in Freqs, NEW band \in Bands, NEW space \in Spaces, NEW up \in BOOLEAN
  PROVE  StepFrom(start, band, space, up) \in Freqs
BY StepInBand, WrapAssumption, BandAssumption DEF Freqs, Bands

LEMMA FreshIsTyped == Low[0] \in Freqs /\ DefaultVol \in Volumes
<1>1. Low[0] \in Nat /\ Low[0] < Wrap
  BY WrapAssumption, BandAssumption DEF Bands
<1>2. DefaultVol \in Volumes
  BY VolumesAssumption DEF DefaultVol
<1> QED BY <1>1, <1>2, WrapAssumption DEF Freqs

LEMMA RadioInit == Init => TypeOK /\ PoweredHasUser
  BY FreshIsTyped DEF Init, TypeOK, PoweredHasUser

\* The arithmetic of a seek is what keeps a frequency in a u32.
LEMMA RadioStepTyped == TypeOK /\ [Next]_vars => TypeOK'
<1> SUFFICES ASSUME TypeOK, [Next]_vars PROVE TypeOK'
  OBVIOUS
<1>1. CASE FmProbe
  BY <1>1, FreshIsTyped DEF TypeOK, FmProbe, Fresh
<1>2. CASE FmRemove
  BY <1>2 DEF TypeOK, FmRemove
<1>3. ASSUME NEW u \in Users, Seek(u) PROVE TypeOK'
  <2>1. cur_freq' \in Freqs
    BY <1>3, StepIsFreq DEF Seek, TypeOK
  <2> QED BY <1>3, <2>1 DEF Seek, TypeOK
<1>4. ASSUME NEW u \in Users,
             PowerUp(u) \/ PowerDown(u) \/ Tune(u) \/ SetVol(u) \/ Mute(u) \/ FmOpen(u) \/ FmRelease(u)
      PROVE  TypeOK'
  BY <1>4 DEF TypeOK, PowerUp, PowerDown, Tune, SetVol, Mute, FmOpen, FmRelease
<1>5. CASE UNCHANGED vars
  BY <1>5 DEF TypeOK, vars
<1> QED BY <1>1, <1>2, <1>3, <1>4, <1>5 DEF Next, Ioctl

LEMMA RadioKeepsUser == PoweredHasUser /\ [Next]_vars => PoweredHasUser'
  BY DEF PoweredHasUser, Next, FmProbe, FmRemove, Ioctl, Seek, PowerUp, PowerDown, Tune, SetVol,
     Mute, FmOpen, FmRelease, Fresh, vars

LEMMA SeekMovesIntoBand ==
  [Next]_vars =>
    [\A u \in Users : Seek(u) /\ cur_freq' # cur_freq
       => \E b \in Bands : Low[b] <= cur_freq' /\ cur_freq' <= High[b]]_vars
<1>1. ASSUME NEW u \in Users, Seek(u), cur_freq' # cur_freq
      PROVE  \E b \in Bands : Low[b] <= cur_freq' /\ cur_freq' <= High[b]
  <2>1. PICK start \in Freqs, band \in Bands, space \in Spaces, up \in BOOLEAN :
          cur_freq' = StepFrom(start, band, space, up)
    BY <1>1 DEF Seek
  <2>2. cur_freq' \in Low[band] .. High[band]
    BY <2>1, StepInBand
  <2> QED BY <2>2
<1> QED BY <1>1

-----------------------------------------------------------------------------
(* FmRdsUser. *)

USE DEF RdsUser!ClearedHasNoPs, RdsUser!NoUpdateIsMissed

\* At the start nothing has been parsed.
LEMMA UserInit == RdsUser!Init => RdsUser!IInv
  BY DEF RdsUser!Init, RdsUser!IInv

\* The calls that switch RDS, tune and power down leave the event and the readers
\* alone, and what they do to event_status is to empty it.
LEMMA UserCallsKeep ==
  ASSUME RdsUser!IInv,
         \/ \E c \in RdsChips, way \in {"on", "off"} : RdsUser!fm_rds_onoff(c, way)
         \/ \E c \in RdsChips : RdsUser!BlockCounter_Reset(c) \/ RdsUser!fm_powerdown(c)
         \/ RdsUser!fm_tune \/ RdsUser!CtlStep \/ RdsUser!CtlFails
  PROVE  RdsUser!IInv'
<1>1. UNCHANGED <<reader, rds_event, parser, spoiled>>
  BY DEF RdsUser!fm_rds_onoff, RdsUser!BlockCounter_Reset, RdsUser!fm_powerdown,
         RdsUser!fm_tune, RdsUser!Call, RdsUser!CtlStep, RdsUser!CtlFails
<1>2. "PS" \in event_status' => "PS" \in event_status
  BY DEF RdsUser!fm_rds_onoff, RdsUser!BlockCounter_Reset, RdsUser!fm_powerdown,
         RdsUser!fm_tune, RdsUser!Call, RdsUser!CtlStep, RdsUser!CtlFails
<1> QED BY <1>1, <1>2 DEF RdsUser!IInv

\* The worker and the timer: only the parser adds a change that a user is told of, and
\* it does so while no reader has the lock.
LEMMA UserWorkersKeep ==
  ASSUME RdsUser!IInv,
         \/ RdsUser!GroupComes \/ RdsUser!Notices \/ RdsUser!Notifies
         \/ RdsUser!TimerFires \/ RdsUser!fm_rds_reset_work_func \/ RdsUser!TickSends
         \/ RdsUser!fm_ops_lseek
         \/ \E found \in {{}, {"PS"}, {"AF_LIST"}} : RdsUser!fm_rds_parser(found)
  PROVE  RdsUser!IInv'
<1>1. CASE RdsUser!GroupComes \/ RdsUser!TimerFires
  BY <1>1 DEF RdsUser!GroupComes, RdsUser!TimerFires, RdsUser!IInv
<1>2. CASE RdsUser!Notices
  \* It lets the change go only when there is none.
  BY <1>2 DEF RdsUser!Notices, RdsUser!IInv
<1>3. CASE RdsUser!Notifies \/ RdsUser!TickSends \/ RdsUser!fm_ops_lseek
  BY <1>3 DEF RdsUser!Notifies, RdsUser!TickSends, RdsUser!fm_ops_lseek, RdsUser!Raise,
              RdsUser!IInv
<1>4. CASE RdsUser!fm_rds_reset_work_func
  <2>1. UNCHANGED <<reader, rds_event, parser, spoiled>>
    BY <1>4 DEF RdsUser!fm_rds_reset_work_func
  <2>2. "PS" \in event_status' => "PS" \in event_status
    BY <1>4 DEF RdsUser!fm_rds_reset_work_func
  <2> QED BY <2>1, <2>2 DEF RdsUser!IInv
<1>5. ASSUME NEW found \in {{}, {"PS"}, {"AF_LIST"}}, RdsUser!fm_rds_parser(found)
      PROVE  RdsUser!IInv'
  <2>1. parser' = "parsed" /\ reader' = reader
    BY <1>5 DEF RdsUser!fm_rds_parser
  <2>2. \A r \in Readers : reader'[r] # "cleared"
    BY <1>5 DEF RdsUser!fm_rds_parser, RdsUser!Unlocked
  <2> QED BY <2>1, <2>2 DEF RdsUser!IInv
<1> QED BY <1>1, <1>2, <1>3, <1>4, <1>5

\* A reader lowers the event only after it emptied event_status, or after its copy failed.
LEMMA UserReadersKeep ==
  ASSUME RdsUser!IInv, NEW r \in Readers,
         RdsUser!SeesReady(r) \/ RdsUser!Copies(r) \/ RdsUser!Clears(r) \/ RdsUser!Resets(r)
  PROVE  RdsUser!IInv'
<1>1. CASE RdsUser!SeesReady(r) \/ RdsUser!Copies(r)
  BY <1>1 DEF RdsUser!SeesReady, RdsUser!Copies, RdsUser!Reads, RdsUser!IInv
<1>2. CASE RdsUser!Clears(r)
  BY <1>2 DEF RdsUser!Clears, RdsUser!Reads, RdsUser!IInv
<1>3. CASE RdsUser!Resets(r)
  <2>1. /\ reader' = [reader EXCEPT ![r] = "idle"]
        /\ spoiled' = (spoiled \/ reader[r] = "failed")
        /\ event_status' = event_status
        /\ reader[r] \in {"cleared", "failed"}
    BY <1>3 DEF RdsUser!Resets, RdsUser!Reads
  <2>2. "PS" \in event_status' => spoiled'
    BY <2>1 DEF RdsUser!IInv
  <2> QED BY <2>1, <2>2 DEF RdsUser!IInv
<1> QED BY <1>1, <1>2, <1>3

LEMMA UserStep == RdsUser!IInv /\ [RdsUser!Next]_user_vars => RdsUser!IInv'
<1> SUFFICES ASSUME RdsUser!IInv, [RdsUser!Next]_user_vars PROVE RdsUser!IInv'
  OBVIOUS
<1>1. CASE UNCHANGED user_vars
  BY <1>1 DEF user_vars, RdsUser!IInv
<1>2. CASE RdsUser!Next
  BY <1>2, UserCallsKeep, UserWorkersKeep, UserReadersKeep DEF RdsUser!Next
<1> QED BY <1>1, <1>2
-----------------------------------------------------------------------------
(* FmLink: the types first, each variable in a lemma that has few facts. *)

USE DEF Link!Torn

\* An answer is one packet or two.
LEMMA AnswerTyped ==
  ASSUME NEW op \in Commands, NEW n \in Nat, NEW answer \in Link!Answers(op, n)
  PROVE  answer \in Seq(Link!Packets)
<1>1. op \in {"fspi_read", "top_read", "host_read", "top_write", "tune", "seek"}
  BY CommandsAreKnown DEF Link!Mask
<1>2. ASSUME NEW kind \in Link!Kinds, NEW field \in Link!Fields \union {"empty", "byte", "rds"}
      PROVE  Link!Packet(kind, field, n) \in Link!Packets
  BY DEF Link!Packet, Link!Packets
<1>3. PICK first, second \in Link!Packets : answer \in {<<first>>, <<first, second>>}
  <2> HIDE DEF Link!Packet
  <2> USE <1>2 DEF Link!Answers, Link!Kinds, Link!Fields
  <2>1. CASE op \in {"fspi_read", "top_read", "host_read", "top_write"}
    BY <2>1
  <2>2. CASE op \in {"tune", "seek"}
    BY <2>2
  <2> QED BY <1>1, <2>1, <2>2
<1>4. <<first>> \in Seq(Link!Packets) /\ <<first, second>> \in Seq(Link!Packets)
  OBVIOUS
<1> QED BY <1>3, <1>4

\* What is left of a packet's wire.
LEMMA WireShrinks ==
  ASSUME NEW w \in Seq(Link!Packets), w # <<>>
  PROVE  /\ Head(w) = w[1] /\ 1 \in DOMAIN w /\ w[1] \in Link!Packets
         /\ Tail(w) \in Seq(Link!Packets)
         /\ \A i \in DOMAIN Tail(w) : i \in Nat \ {0} /\ i + 1 \in DOMAIN w /\ Tail(w)[i] = w[i + 1]
  OBVIOUS

LEMMA LinkInit == Link!Init => Link!IInv
  BY CommandsAreKnown DEF Link!Init, Link!IInv, Link!TypeOK, Link!NoneBefore, Link!OneAnswers,
     Link!TakesOwn, Link!OwnAnswer, Link!Unexcused, Link!Fields, Link!Idle, Link!None

LEMMA CmdTyped ==
  ASSUME cmd \in {Link!Idle} \union Link!Steps, sent \in 0 .. MaxCommands,
         flag \subseteq Link!Kinds, Link!Next
  PROVE  /\ cmd' \in {Link!Idle} \union Link!Steps
         /\ sent' \in 0 .. MaxCommands
<1> USE CommandsAreKnown
<1>1. ASSUME NEW op \in Commands, Link!Begin(op)
      PROVE  cmd' \in Link!Steps /\ sent' \in 0 .. MaxCommands
  BY <1>1 DEF Link!Begin, Link!Steps
<1>2. CASE Link!Cleared \/ Link!Send \/ Link!Wakes
  <2>1. cmd \in Link!Steps /\ sent' = sent
    BY <1>2 DEF Link!Cleared, Link!Send, Link!Wakes, Link!Idle
  <2> QED BY <1>2, <2>1 DEF Link!Cleared, Link!Send, Link!Wakes, Link!Steps
<1>3. CASE Link!SendFails \/ Link!TimesOut \/ Link!Takes
  BY <1>3 DEF Link!SendFails, Link!TimesOut, Link!Takes, Link!Ends
<1>4. CASE \/ Link!Parse \/ Link!CutPayload \/ Link!Raised \/ Link!RdsArrives
           \/ \E s \in {"opcode", "len_1", "len_2", "payload"} : Link!CutHeader(s)
  BY <1>4 DEF Link!Parse, Link!CutPayload, Link!Cuts, Link!Raised, Link!RdsArrives, Link!CutHeader
<1>5. CASE Link!DropPayload
  <2>1. sent' = sent
    BY <1>5 DEF Link!DropPayload, Link!Cuts
  <2>2. CASE cmd' = cmd
    BY <2>1, <2>2
  <2>3. CASE cmd' # cmd
    <3>1. cmd \in Link!Steps /\ cmd' = [cmd EXCEPT !.excuse = @ \union {"dropped"}]
      BY <1>5, <2>3 DEF Link!DropPayload
    <3> QED BY <2>1, <3>1 DEF Link!Steps
  <2> QED BY <2>2, <2>3
<1> QED BY <1>1, <1>2, <1>3, <1>4, <1>5 DEF Link!Next

LEMMA WireTyped ==
  ASSUME Link!TypeOK, Link!Next
  PROVE  wire' \in Seq(Link!Packets)
<1>1. CASE Link!Send
  <2>1. cmd \in Link!Steps
    BY <1>1 DEF Link!TypeOK, Link!Send, Link!Idle
  <2>2. cmd.op \in Commands /\ cmd.n \in Nat
    BY <2>1, CommandsAreKnown DEF Link!Steps
  <2> QED BY <1>1, <2>2, AnswerTyped DEF Link!TypeOK, Link!Send
<1>2. CASE Link!Parse \/ Link!CutPayload \/ Link!DropPayload
  BY <1>2, WireShrinks DEF Link!TypeOK, Link!Parse, Link!CutPayload, Link!DropPayload, Link!Cuts
<1>3. CASE Link!RdsArrives
  <2>1. Link!Packet("rds_data", "rds", 0) \in Link!Packets
    BY DEF Link!Packet, Link!Packets, Link!Kinds
  <2> QED BY <1>3, <2>1 DEF Link!TypeOK, Link!RdsArrives
<1>4. CASE \/ \E op \in Commands : Link!Begin(op)
           \/ Link!Cleared \/ Link!SendFails \/ Link!Wakes \/ Link!TimesOut \/ Link!Takes \/ Link!Raised
           \/ \E s \in {"opcode", "len_1", "len_2", "payload"} : Link!CutHeader(s)
  BY <1>4 DEF Link!TypeOK, Link!Begin, Link!Cleared, Link!SendFails, Link!Wakes, Link!TimesOut,
     Link!Takes, Link!Raised, Link!CutHeader
<1> QED BY <1>1, <1>2, <1>3, <1>4 DEF Link!Next

LEMMA WorkerTyped ==
  ASSUME Link!TypeOK, Link!Next
  PROVE  /\ flag' \subseteq Link!Kinds
         /\ result' \in [Link!Fields -> Nat]
         /\ state' \in {"type", "opcode", "len_1", "len_2", "payload"}
         /\ raising' \in {Link!None} \union Link!Raises
<1> DEFINE Working == /\ flag' \subseteq Link!Kinds
                      /\ result' \in [Link!Fields -> Nat]
                      /\ state' \in {"type", "opcode", "len_1", "len_2", "payload"}
                      /\ raising' \in {Link!None} \union Link!Raises
<1>1. CASE Link!Cleared \/ Link!Takes
  <2>0. cmd.pc \in {"clearing", "answered"}
    BY <1>1 DEF Link!Cleared, Link!Takes
  <2>1. cmd # Link!Idle
    BY <2>0 DEF Link!Idle
  <2>2. cmd.seen \subseteq Link!Kinds
    BY <2>1 DEF Link!TypeOK, Link!Steps
  <2> QED BY <1>1, <2>2 DEF Link!TypeOK, Link!Cleared, Link!Takes, Link!FM_EVENT_CLR
<1>2. CASE Link!Parse \/ Link!CutPayload \/ Link!DropPayload
  <2> USE DEF Link!Cuts, Link!DropPayload
  <2>1. Head(wire) \in Link!Packets
    BY <1>2, WireShrinks DEF Link!TypeOK, Link!Parse, Link!CutPayload
  <2>2. Head(wire).kind \in Link!Kinds /\ Head(wire).cmd \in Nat /\ "test" \in Link!Kinds
    BY <2>1 DEF Link!Packets, Link!Kinds
  <2>3. \A k \in Link!Kinds : [kind |-> k, seen |-> flag] \in Link!Raises
    BY DEF Link!Raises, Link!TypeOK
  <2>4. UNCHANGED flag /\ state' \in {"type", state}
    BY <1>2 DEF Link!Parse, Link!CutPayload
  <2>5. raising' \in {Link!None} \union Link!Raises
    BY <1>2, <2>2, <2>3 DEF Link!Parse, Link!CutPayload
  <2>6. result' \in [Link!Fields -> Nat]
    BY <1>2, <2>2, CommandsAreKnown DEF Link!TypeOK, Link!Parse, Link!CutPayload, Link!Stores
  <2> QED BY <2>4, <2>5, <2>6 DEF Link!TypeOK
<1>3. CASE Link!Raised
  <2>1. raising.kind \in Link!Kinds /\ raising.seen \subseteq Link!Kinds
    BY <1>3 DEF Link!Raised, Link!TypeOK, Link!Raises
  <2> QED BY <1>3, <2>1 DEF Link!Raised, Link!TypeOK
<1>4. ASSUME NEW s \in {"opcode", "len_1", "len_2", "payload"}, Link!CutHeader(s)
      PROVE  Working
  BY <1>4 DEF Link!TypeOK, Link!CutHeader
<1>5. CASE \/ \E op \in Commands : Link!Begin(op)
           \/ Link!SendFails \/ Link!Send \/ Link!Wakes \/ Link!TimesOut \/ Link!RdsArrives
  BY <1>5 DEF Link!TypeOK, Link!Begin, Link!SendFails, Link!Send, Link!Wakes, Link!TimesOut,
     Link!RdsArrives
<1> QED BY <1>1, <1>2, <1>3, <1>4, <1>5 DEF Link!Next

LEMMA LinkTyped ==
  ASSUME Link!TypeOK, Link!Next
  PROVE  Link!TypeOK'
BY CmdTyped, WireTyped, WorkerTyped DEF Link!TypeOK

-----------------------------------------------------------------------------
(* FmLink: whose answer is taken. *)

\* The flag that comes with the value is one of those that the call waits for.
LEMMA DataIsAwaited ==
  ASSUME NEW op \in Commands, Link!Field(op) # "empty"
  PROVE  /\ Link!DataFlag(op) \in Link!Mask[op]
         /\ Link!DataFlag(op) \notin {"test", "rds_data", "none", "seek"}
         /\ Link!Field(op) \in Link!Fields
<1>1. op \in {"fspi_read", "top_read", "host_read", "seek"}
  BY CommandsAreKnown DEF Link!Mask, Link!Field
<1> QED BY <1>1 DEF Link!DataFlag, Link!Mask, Link!Field, Link!Fields

\* The packet with the value comes last, and it alone raises that flag.
LEMMA ValueComesLast ==
  ASSUME NEW op \in Commands, Link!Field(op) # "empty", NEW n \in Nat,
         NEW answer \in Link!Answers(op, n)
  PROVE  /\ Len(answer) \in {1, 2}
         /\ answer[Len(answer)].kind = Link!DataFlag(op)
         /\ answer[Len(answer)].field = Link!Field(op)
         /\ answer[Len(answer)].cmd = n
         /\ Len(answer) = 2 => answer[1].kind = "seek"
<1>1. CASE op \in {"fspi_read", "top_read", "host_read"}
  BY <1>1 DEF Link!Answers, Link!Field, Link!DataFlag, Link!Packet
<1>2. CASE op = "seek"
  <2>1. PICK first, second : /\ answer = <<first, second>>
                             /\ first = Link!Packet("seek", "empty", n)
                             /\ second = Link!Packet("seek_done", "seek_result", n)
    BY <1>2 DEF Link!Answers
  <2>2. Len(answer) = 2 /\ answer[1] = first /\ answer[2] = second
    BY <2>1
  <2>3. first.kind = "seek" /\ second.kind = "seek_done" /\ second.field = "seek_result"
        /\ second.cmd = n
    BY <2>1 DEF Link!Packet
  <2> QED BY <1>2, <2>2, <2>3 DEF Link!Field, Link!DataFlag
<1>3. op \in {"fspi_read", "top_read", "host_read", "seek"}
  BY CommandsAreKnown DEF Link!Mask, Link!Field
<1> QED BY <1>1, <1>2, <1>3

\* A command that is not idle is one that the driver knows.
LEMMA CmdIsKnown ==
  ASSUME Link!TypeOK, cmd # Link!Idle
  PROVE  cmd \in Link!Steps /\ cmd.op \in Commands /\ cmd.n \in Nat /\ cmd.n <= MaxCommands
BY CommandsAreKnown DEF Link!TypeOK, Link!Steps

\* The worker takes the first packet off the wire.
LEMMA TakenOff ==
  ASSUME Link!TypeOK, Link!Parse \/ Link!CutPayload
  PROVE  /\ wire[1] = Head(wire) /\ 1 \in DOMAIN wire
         /\ \A i \in DOMAIN wire' : i \in Nat \ {0} /\ i + 1 \in DOMAIN wire /\ wire'[i] = wire[i + 1]
         /\ UNCHANGED <<cmd, flag>>
BY WireShrinks DEF Link!TypeOK, Link!Parse, Link!CutPayload, Link!Cuts

\* What a parsed packet raises, and where its value goes.
LEMMA Parsed ==
  ASSUME Link!TypeOK, Link!Parse \/ Link!CutPayload, NEW f, f \notin {"test", "none"}
  PROVE  /\ Link!IsUp(f)' => Link!IsUp(f) \/ wire[1].kind = f
         /\ Link!IsUp(f)' /\ ~Link!IsUp(f) /\ wire[1].field \in Link!Fields =>
              result'[wire[1].field] \in {wire[1].cmd, Link!Torn}
         /\ \A field \in Link!Fields :
              result'[field] # result[field] =>
                wire[1].field = field /\ result'[field] \in {wire[1].cmd, Link!Torn}
BY TakenOff DEF Link!TypeOK, Link!Parse, Link!CutPayload, Link!Cuts, Link!Stores, Link!IsUp, Link!None

\* A payload of which nothing is stored: the call that it answers has an excuse.
LEMMA Dropped ==
  ASSUME Link!TypeOK, Link!DropPayload, NEW pcs, Link!Unexcused(pcs)'
  PROVE  /\ wire[1] = Head(wire) /\ 1 \in DOMAIN wire
         /\ \A i \in DOMAIN wire' : i \in Nat \ {0} /\ i + 1 \in DOMAIN wire /\ wire'[i] = wire[i + 1]
         /\ UNCHANGED <<flag, result, cmd>> /\ wire[1].cmd # cmd.n
         /\ \A f : Link!IsUp(f)' => Link!IsUp(f) \/ wire[1].kind = f
<1>1. Link!Cuts
  BY DEF Link!DropPayload
<1>2. /\ wire[1] = Head(wire) /\ 1 \in DOMAIN wire
      /\ \A i \in DOMAIN wire' : i \in Nat \ {0} /\ i + 1 \in DOMAIN wire /\ wire'[i] = wire[i + 1]
  BY <1>1, WireShrinks DEF Link!TypeOK, Link!Cuts
<1>3. ~(cmd # Link!Idle /\ Head(wire).cmd = cmd.n)
  <2> SUFFICES ASSUME cmd # Link!Idle, Head(wire).cmd = cmd.n PROVE FALSE
    OBVIOUS
  <2>1. cmd' = [cmd EXCEPT !.excuse = @ \union {"dropped"}]
    BY DEF Link!DropPayload
  <2>2. "dropped" \in cmd'.excuse
    BY <2>1, CmdIsKnown DEF Link!Steps
  <2> QED BY <2>2 DEF Link!Unexcused
<1>4. UNCHANGED <<flag, result, cmd>> /\ cmd # Link!Idle
  <2>1. cmd' = cmd
    BY <1>3 DEF Link!DropPayload
  <2> QED BY <1>1, <2>1 DEF Link!DropPayload, Link!Cuts, Link!Unexcused
<1>5. ASSUME NEW f, Link!IsUp(f)' PROVE Link!IsUp(f) \/ wire[1].kind = f
  <2>1. raising' = [kind |-> Head(wire).kind, seen |-> flag] /\ flag' = flag
    BY <1>1 DEF Link!Cuts
  <2> QED BY <1>2, <1>5, <2>1 DEF Link!IsUp
<1> QED BY <1>2, <1>3, <1>4, <1>5

\* A packet of RDS data is put behind the others.
LEMMA RdsIsBehind ==
  ASSUME Link!TypeOK, Link!RdsArrives
  PROVE  \A i \in DOMAIN wire' :
           \/ i \in DOMAIN wire /\ wire'[i] = wire[i]
           \/ i = Len(wire) + 1 /\ wire'[i].kind = "rds_data" /\ wire'[i].field = "rds"
BY DEF Link!TypeOK, Link!RdsArrives, Link!Packet

\* The command that is sent, or that finds its flags, is the same one.
LEMMA CmdSent ==
  ASSUME Link!TypeOK, Link!Send
  PROVE  /\ cmd # Link!Idle /\ cmd.pc = "sending" /\ cmd'.pc = "waiting"
         /\ cmd'.op = cmd.op /\ cmd'.n = cmd.n /\ cmd'.excuse = cmd.excuse
<1>1. cmd.pc = "sending" /\ cmd' = [cmd EXCEPT !.pc = "waiting"]
  BY DEF Link!Send
<1>2. cmd # Link!Idle
  BY <1>1 DEF Link!Idle
<1> QED BY <1>1, <1>2, CmdIsKnown DEF Link!Steps

LEMMA CmdWoken ==
  ASSUME Link!TypeOK, Link!Wakes
  PROVE  /\ cmd # Link!Idle /\ cmd.pc = "waiting" /\ cmd'.pc = "answered"
         /\ cmd'.op = cmd.op /\ cmd'.n = cmd.n /\ cmd'.excuse = cmd.excuse
<1>1. cmd.pc = "waiting" /\ cmd' = [[cmd EXCEPT !.pc = "answered"] EXCEPT !.seen = flag]
  BY DEF Link!Wakes
<1>2. cmd # Link!Idle
  BY <1>1 DEF Link!Idle
<1> QED BY <1>1, <1>2, CmdIsKnown DEF Link!Steps

LEMMA CmdEnds ==
  ASSUME Link!SendFails \/ Link!TimesOut \/ Link!Takes
  PROVE  cmd' = Link!Idle
BY DEF Link!SendFails, Link!TimesOut, Link!Takes, Link!Ends

\* Nothing of the flag's kind is on its way when the command goes out, and the flag is
\* down.
LEMMA NoneBeforeKeeps ==
  ASSUME Link!IInv, Link!Next
  PROVE  Link!NoneBefore'
<1> USE DEF Link!IInv, Link!NoneBefore
<1> SUFFICES ASSUME Link!Unexcused({"clearing", "sending"})'
             PROVE  /\ Link!OnWay(Link!DataFlag(cmd.op))' = {}
                    /\ cmd'.pc = "sending" => ~Link!IsUp(Link!DataFlag(cmd.op))'
  BY DEF Link!Unexcused
<1> USE DEF Link!Unexcused
<1>1. PICK op : op = cmd'.op
  OBVIOUS
<1>2. op \in Commands /\ Link!Field(op) # "empty"
  BY <1>1, LinkTyped, CmdTyped, CommandsAreKnown DEF Link!TypeOK, Link!Steps
<1>3. Link!DataFlag(op) \in Link!Mask[op] /\ Link!DataFlag(op) \notin {"test", "none", "rds_data"}
  BY <1>2, DataIsAwaited
<1>4. CASE \E o \in Commands : Link!Begin(o)
  BY <1>1, <1>3, <1>4 DEF Link!Begin, Link!OnWay
<1>5. CASE Link!Cleared
  BY <1>1, <1>3, <1>5 DEF Link!Cleared, Link!OnWay, Link!IsUp, Link!FM_EVENT_CLR, Link!Idle
<1>6. CASE Link!Send \/ Link!Wakes \/ Link!SendFails \/ Link!TimesOut \/ Link!Takes
  BY <1>6, CmdSent, CmdWoken, CmdEnds
<1>7. CASE Link!Parse \/ Link!CutPayload
  BY <1>1, <1>3, <1>7, TakenOff, Parsed DEF Link!OnWay
<1>8. CASE Link!Raised \/ \E s \in {"opcode", "len_1", "len_2", "payload"} : Link!CutHeader(s)
  BY <1>1, <1>3, <1>8 DEF Link!Raised, Link!CutHeader, Link!OnWay, Link!IsUp
<1>9. CASE Link!RdsArrives
  BY <1>1, <1>3, <1>9, RdsIsBehind DEF Link!RdsArrives, Link!OnWay, Link!IsUp
<1>10. CASE Link!DropPayload
  <2>1. /\ \A i \in DOMAIN wire' : i + 1 \in DOMAIN wire /\ wire'[i] = wire[i + 1]
        /\ cmd' = cmd /\ 1 \in DOMAIN wire
        /\ \A g : Link!IsUp(g)' => Link!IsUp(g) \/ wire[1].kind = g
    BY <1>10, Dropped
  <2> QED BY <1>1, <2>1 DEF Link!OnWay
<1> QED BY <1>4, <1>5, <1>6, <1>7, <1>8, <1>9, <1>10 DEF Link!Next

\* Where two packets end.
LEMMA Between ==
  ASSUME NEW l \in Nat, NEW k \in {1, 2}
  PROVE  /\ k \in 1 .. k /\ l + k \in 1 .. l + k
         /\ \A j \in 1 .. l + k : j # l + k /\ j \notin 1 .. l => j = l + 1 /\ k = 2
  OBVIOUS

\* From then on the only such packet is the answer, and the packets of other kinds that
\* fill the same field come before it.
LEMMA OneAnswersKeeps ==
  ASSUME Link!IInv, Link!Next
  PROVE  Link!OneAnswers'
<1> USE DEF Link!IInv
<1> SUFFICES ASSUME Link!Unexcused({"waiting"})' PROVE Link!OneAnswers'
  BY DEF Link!OneAnswers
<1> USE DEF Link!Unexcused
<1>1. PICK op, n, f, field :
        op = cmd'.op /\ n = cmd'.n /\ f = Link!DataFlag(op) /\ field = Link!Field(op)
  OBVIOUS
<1>2. op \in Commands /\ field # "empty" /\ n \in Nat
  BY <1>1, LinkTyped, CmdTyped, CommandsAreKnown DEF Link!TypeOK, Link!Steps
<1>3. f \in Link!Mask[op] /\ f \notin {"test", "none", "rds_data", "seek"} /\ field \in Link!Fields
  BY <1>1, <1>2, DataIsAwaited
<1> DEFINE Good(w, up, value) ==
      LET answers == {i \in DOMAIN w : w[i].kind = f} IN
      /\ \A i \in answers : w[i].cmd = n /\ w[i].field = field
      /\ \A i, j \in answers : i = j
      /\ \A i \in DOMAIN w : w[i].field = field => \E j \in answers : i <= j
      /\ up => answers = {} /\ value \in {n, Link!Torn}
<1>4. SUFFICES Good(wire', Link!IsUp(f)', result'[field])
  BY <1>1 DEF Link!OneAnswers, Link!OnWay
<1>5. CASE Link!Send
  <2>1. Link!OnWay(f) = {} /\ ~Link!IsUp(f) /\ cmd.op = op /\ cmd.n = n
    BY <1>1, <1>5, CmdSent DEF Link!NoneBefore
  <2>2. PICK answer \in Link!Answers(op, n) : wire' = wire \o answer
    BY <1>5, <2>1 DEF Link!Send
  <2>3. /\ answer \in Seq(Link!Packets) /\ Len(answer) \in {1, 2}
        /\ answer[Len(answer)].kind = f /\ answer[Len(answer)].field = field
        /\ answer[Len(answer)].cmd = n
        /\ Len(answer) = 2 => answer[1].kind # f
    BY <1>1, <1>2, <1>3, AnswerTyped, ValueComesLast
  <2> DEFINE at == Len(wire) + Len(answer)
  <2>0. Len(wire) \in Nat /\ DOMAIN wire = 1 .. Len(wire)
    BY DEF Link!TypeOK
  <2>4. /\ DOMAIN wire' = 1 .. at /\ Len(wire) \in Nat
        /\ \A i \in 1 .. Len(wire) : wire'[i] = wire[i]
        /\ \A i \in 1 .. Len(answer) : wire'[Len(wire) + i] = answer[i]
    BY <2>2, <2>3 DEF Link!TypeOK
  <2>5. /\ at \in DOMAIN wire' /\ wire'[at].kind = f /\ wire'[at].field = field /\ wire'[at].cmd = n
        /\ \A i \in DOMAIN wire' : i <= at /\ (wire'[i].kind = f => i = at)
    <3>1. at \in DOMAIN wire' /\ wire'[at] = answer[Len(answer)]
      <4>1. Len(answer) \in 1 .. Len(answer) /\ at \in 1 .. at
        BY <2>0, <2>3, Between
      <4> QED BY <2>4, <4>1
    <3>2. ASSUME NEW i \in DOMAIN wire', i # at PROVE i <= at /\ wire'[i].kind # f
      <4>1. i <= at
        BY <2>4
      <4>2. CASE i \in 1 .. Len(wire)
        BY <2>1, <2>4, <4>2 DEF Link!OnWay, Link!TypeOK
      <4>3. CASE i \notin 1 .. Len(wire)
        <5>1. i = Len(wire) + 1 /\ Len(answer) = 2
          <6>1. i \in 1 .. Len(wire) + Len(answer) /\ i # Len(wire) + Len(answer)
            BY <2>4, <3>2
          <6>2. Len(wire) \in Nat /\ Len(answer) \in {1, 2}
            BY <2>3, <2>4
          <6> QED BY <4>3, <6>1, <6>2, Between
        <5>2. wire'[i] = answer[1]
          BY <2>4, <5>1
        <5> QED BY <2>3, <4>1, <5>1, <5>2
      <4> QED BY <4>1, <4>2, <4>3
    <3> QED BY <2>3, <2>4, <3>1, <3>2
  <2>6. ~Link!IsUp(f)'
    BY <1>5, <2>1 DEF Link!Send, Link!IsUp
  <2> HIDE DEF at
  <2> QED BY <2>5, <2>6
<1>6. CASE cmd.pc = "waiting" /\ cmd' = cmd
  <2>1. Good(wire, Link!IsUp(f), result[field])
    BY <1>1, <1>6 DEF Link!OneAnswers, Link!OnWay
  <2>2. CASE Link!Parse \/ Link!CutPayload
    <3>1. /\ 1 \in DOMAIN wire
          /\ \A i \in DOMAIN wire' : i \in Nat \ {0} /\ i + 1 \in DOMAIN wire /\ wire'[i] = wire[i + 1]
      BY <2>2, TakenOff
    <3>2. \A i \in DOMAIN wire : i \in Nat /\ (i # 1 => i - 1 \in DOMAIN wire')
      BY <2>2, <3>1, WireShrinks DEF Link!Parse, Link!CutPayload, Link!Cuts, Link!TypeOK
    <3>3. /\ Link!IsUp(f)' => Link!IsUp(f) \/ wire[1].kind = f
          /\ Link!IsUp(f)' /\ ~Link!IsUp(f) /\ wire[1].field = field =>
               result'[field] \in {wire[1].cmd, Link!Torn}
          /\ result'[field] # result[field] =>
               wire[1].field = field /\ result'[field] \in {wire[1].cmd, Link!Torn}
      BY <1>3, <2>2, Parsed
    <3>4. CASE wire[1].kind = f
      \* It was the answer: none is left, nor a packet that fills the field.
      <4>1. ~Link!IsUp(f) /\ \A i \in DOMAIN wire : i # 1 => wire[i].kind # f /\ wire[i].field # field
        BY <2>1, <3>1, <3>2, <3>4
      <4>2. \A i \in DOMAIN wire' : wire'[i].kind # f /\ wire'[i].field # field
        BY <3>1, <4>1
      <4>3. Link!IsUp(f)' => result'[field] \in {n, Link!Torn}
        BY <2>1, <3>1, <3>3, <3>4, <4>1
      <4> QED BY <4>2, <4>3
    <3>5. CASE wire[1].kind # f
      <4> QED BY <2>1, <3>1, <3>2, <3>3, <3>5
    <3> QED BY <3>4, <3>5
  <2>3. CASE Link!RdsArrives
    <3>1. \A i \in DOMAIN wire' : \/ i \in DOMAIN wire /\ wire'[i] = wire[i]
                                  \/ wire'[i].kind # f /\ wire'[i].field # field
      BY <1>3, <2>3, RdsIsBehind DEF Link!Fields
    <3>2. \A i \in DOMAIN wire : i \in DOMAIN wire' /\ wire'[i] = wire[i]
      BY <2>3 DEF Link!RdsArrives, Link!TypeOK
    <3>3. result' = result /\ Link!IsUp(f)' = Link!IsUp(f)
      BY <2>3 DEF Link!RdsArrives, Link!IsUp
    <3> QED BY <2>1, <3>1, <3>2, <3>3
  <2>4. CASE Link!Raised \/ \E s \in {"opcode", "len_1", "len_2", "payload"} : Link!CutHeader(s)
    <3>1. wire' = wire /\ result' = result /\ (Link!IsUp(f)' => Link!IsUp(f))
      BY <2>4 DEF Link!Raised, Link!CutHeader, Link!IsUp
    <3> QED BY <2>1, <3>1
  <2>5. CASE Link!DropPayload
    <3>1. /\ \A i \in DOMAIN wire' : i \in Nat \ {0} /\ i + 1 \in DOMAIN wire /\ wire'[i] = wire[i + 1]
          /\ 1 \in DOMAIN wire /\ wire[1].cmd # n /\ result' = result
          /\ Link!IsUp(f)' => Link!IsUp(f) \/ wire[1].kind = f
      BY <1>1, <1>6, <2>5, Dropped
    <3>2. \A i \in DOMAIN wire : i \in Nat /\ (i # 1 => i - 1 \in DOMAIN wire')
      BY <2>5, <3>1, WireShrinks DEF Link!DropPayload, Link!Cuts, Link!TypeOK
    <3>3. wire[1].kind # f
      BY <2>1, <3>1
    <3> QED BY <2>1, <3>1, <3>2, <3>3
  <2>6. ~ \/ \E o \in Commands : Link!Begin(o)
          \/ Link!Cleared \/ Link!Send \/ Link!SendFails \/ Link!Wakes \/ Link!TimesOut \/ Link!Takes
    <3>1. cmd # Link!Idle
      BY <1>6 DEF Link!Idle
    <3>2. ~(Link!Send \/ Link!Wakes)
      BY <1>6, CmdSent, CmdWoken
    <3>3. ~(Link!SendFails \/ Link!TimesOut \/ Link!Takes)
      BY <1>6, <3>1, CmdEnds
    <3> QED BY <1>6, <3>1, <3>2, <3>3 DEF Link!Begin, Link!Cleared
  <2> QED BY <2>2, <2>3, <2>4, <2>5, <2>6 DEF Link!Next
<1>7. Link!Send \/ (cmd.pc = "waiting" /\ cmd' = cmd)
  <2>1. ~\E o \in Commands : Link!Begin(o)
    BY DEF Link!Begin
  <2>2. ~Link!Cleared
    <3>1. ASSUME Link!Cleared PROVE cmd' \in Link!Steps /\ cmd'.pc = "sending"
      <4>1. cmd # Link!Idle
        BY <3>1 DEF Link!Cleared, Link!Idle
      <4> QED BY <3>1, <4>1, CmdIsKnown DEF Link!Cleared, Link!Steps
    <3> QED BY <3>1
  <2>3. ~Link!Wakes
    BY CmdWoken
  <2>4. ~(Link!SendFails \/ Link!TimesOut \/ Link!Takes)
    BY CmdEnds
  <2>5. CASE cmd' = cmd \/ Link!DropPayload
    BY <2>5, Dropped
  <2> QED BY <2>1, <2>2, <2>3, <2>4, <2>5 DEF Link!Next, Link!Parse, Link!CutPayload, Link!Cuts, Link!Raised,
             Link!RdsArrives, Link!CutHeader
<1> QED BY <1>5, <1>6, <1>7

\* The flag that ends the wait finds the value in its field, and nothing that is still to
\* come overwrites it.
LEMMA TakesOwnKeeps ==
  ASSUME Link!IInv, Link!Next
  PROVE  Link!TakesOwn'
<1> USE DEF Link!IInv
<1> SUFFICES ASSUME Link!Unexcused({"answered"})' PROVE Link!TakesOwn'
  BY DEF Link!TakesOwn
<1> USE DEF Link!Unexcused
<1>1. PICK op, n, f, field :
        op = cmd'.op /\ n = cmd'.n /\ f = Link!DataFlag(op) /\ field = Link!Field(op)
  OBVIOUS
<1>2. op \in Commands /\ field # "empty"
  BY <1>1, LinkTyped DEF Link!TypeOK, Link!Steps
<1>3. f \in Link!Mask[op] /\ f \notin {"test", "none"} /\ field \in Link!Fields
  BY <1>1, <1>2, DataIsAwaited
<1> DEFINE Good(w, value) == value \in {n, Link!Torn} /\ \A i \in DOMAIN w : w[i].field # field
<1>4. SUFFICES Good(wire', result'[field])
  BY <1>1 DEF Link!TakesOwn
<1>5. CASE Link!Wakes
  <2>1. cmd.op = op /\ cmd.n = n /\ Link!Unexcused({"waiting"})
    BY <1>1, <1>5, CmdWoken
  <2>2. f \in flag /\ wire' = wire /\ result' = result
    BY <1>3, <1>5, <2>1 DEF Link!Wakes
  <2> QED BY <1>1, <2>1, <2>2 DEF Link!OneAnswers, Link!IsUp
<1>6. CASE cmd.pc = "answered" /\ cmd' = cmd
  <2>1. Good(wire, result[field])
    BY <1>1, <1>6 DEF Link!TakesOwn
  <2>2. CASE Link!Parse \/ Link!CutPayload
    BY <1>3, <2>1, <2>2, TakenOff, Parsed
  <2>3. CASE Link!RdsArrives
    <3>1. result' = result
      BY <2>3 DEF Link!RdsArrives
    <3> QED BY <1>3, <2>1, <2>3, <3>1, RdsIsBehind DEF Link!Fields
  <2>4. CASE Link!DropPayload
    <3>1. /\ \A i \in DOMAIN wire' : i + 1 \in DOMAIN wire /\ wire'[i] = wire[i + 1]
          /\ result' = result
      BY <2>4, Dropped
    <3> QED BY <2>1, <3>1
  <2>5. CASE ~(Link!Parse \/ Link!CutPayload \/ Link!DropPayload \/ Link!RdsArrives)
    <3>1. cmd # Link!Idle /\ cmd.pc \notin {"clearing", "sending", "waiting"}
      BY <1>6 DEF Link!Idle
    <3> QED BY <1>6, <2>1, <2>5, <3>1, CmdEnds DEF Link!Next, Link!Begin, Link!Cleared, Link!Send,
              Link!Wakes, Link!Raised, Link!CutHeader
  <2> QED BY <2>2, <2>3, <2>4, <2>5
<1>7. Link!Wakes \/ (cmd.pc = "answered" /\ cmd' = cmd)
  <2>1. ~\E o \in Commands : Link!Begin(o)
    BY DEF Link!Begin
  <2>2. ~Link!Cleared
    <3>1. ASSUME Link!Cleared PROVE cmd' \in Link!Steps /\ cmd'.pc = "sending"
      <4>1. cmd # Link!Idle
        BY <3>1 DEF Link!Cleared, Link!Idle
      <4> QED BY <3>1, <4>1, CmdIsKnown DEF Link!Cleared, Link!Steps
    <3> QED BY <3>1
  <2>3. ~Link!Send
    BY CmdSent
  <2>4. ~(Link!SendFails \/ Link!TimesOut \/ Link!Takes)
    BY CmdEnds
  <2>5. Link!DropPayload => cmd' = cmd
    BY Dropped
  <2> QED BY <2>1, <2>2, <2>3, <2>4, <2>5 DEF Link!Next, Link!Parse, Link!CutPayload, Link!Cuts, Link!Raised,
             Link!RdsArrives, Link!CutHeader
<1> QED BY <1>5, <1>6, <1>7

\* Only a call that takes its answer says that it worked.
LEMMA OwnAnswerKeeps ==
  ASSUME Link!IInv, Link!Next
  PROVE  Link!OwnAnswer'
<1> USE DEF Link!IInv, Link!OwnAnswer
<1>1. CASE Link!Takes
  <2>1. cmd.pc = "answered" /\ cmd # Link!Idle
    BY <1>1 DEF Link!Takes, Link!Idle
  <2>2. CASE Link!Field(cmd.op) # "empty" /\ cmd.excuse = {}
    <3>1. result[Link!Field(cmd.op)] \in {cmd.n, Link!Torn}
      BY <2>1, <2>2 DEF Link!TakesOwn, Link!Unexcused
    <3> QED BY <1>1, <2>2, <3>1 DEF Link!Takes, Link!Ends
  <2>3. CASE Link!Field(cmd.op) = "empty" \/ cmd.excuse # {}
    BY <1>1, <2>3 DEF Link!Takes, Link!Ends
  <2> QED BY <2>2, <2>3
<1>2. CASE Link!SendFails \/ Link!TimesOut
  BY <1>2 DEF Link!SendFails, Link!TimesOut, Link!Ends
<1>3. CASE ~(Link!Takes \/ Link!SendFails \/ Link!TimesOut)
  <2>1. last' = last
    BY <1>3 DEF Link!Next, Link!Begin, Link!Cleared, Link!Send, Link!Wakes, Link!Parse,
       Link!CutPayload, Link!DropPayload, Link!Cuts, Link!Raised, Link!RdsArrives,
       Link!CutHeader
  <2> QED BY <2>1
<1> QED BY <1>1, <1>2, <1>3

LEMMA LinkStep == Link!IInv /\ [Link!Next]_link_vars => Link!IInv'
<1> SUFFICES ASSUME Link!IInv, [Link!Next]_link_vars PROVE Link!IInv'
  OBVIOUS
<1>1. CASE Link!Next
  BY <1>1, LinkTyped, NoneBeforeKeeps, OneAnswersKeeps, TakesOwnKeeps, OwnAnswerKeeps
  DEF Link!IInv
<1>2. CASE UNCHANGED link_vars
  <2>1. Link!TypeOK' /\ Link!OwnAnswer'
    BY <1>2 DEF link_vars, Link!IInv, Link!TypeOK, Link!OwnAnswer
  <2>2. Link!NoneBefore' /\ Link!TakesOwn' /\ Link!OneAnswers'
    BY <1>2 DEF link_vars, Link!IInv, Link!NoneBefore, Link!TakesOwn, Link!OneAnswers,
       Link!Unexcused, Link!OnWay, Link!IsUp
  <2> QED BY <2>1, <2>2 DEF Link!IInv
<1> QED BY <1>1, <1>2

-----------------------------------------------------------------------------
(* FmChip: the steps of a sequence, and the sequences that are made of shorter ones. *)

Values  == {"on", "off", "any", "host", "dsp", "none", "up", "down", "26", "64", "hop", "half",
            "host_mono"}
Reasons == {"own", "patch", "coefficient", "rom", "chip", "awake", "lock"}
Usual   == {0, Library!End, Library!Quiet}

\* The steps that touch no register outside R, and skip a number of steps in K.
StepsOn(R, K) ==
  [op : {"set"}, skip : K, reg : R, val : Values]
  \cup [op : {"wait"}, skip : K, reg : R \cap Library!BusClock, val : Values]
  \cup [op : {"batch"}, skip : K, batch : Seq((R \ Library!BusClock) \X Values)]
  \cup [op : {"save", "back"}, skip : K]
  \cup [op : {"check"}, skip : K, what : Reasons]

LEMMA SetsFit ==
  ASSUME NEW R, "rf" \in R, "data" \in R, NEW K, 0 \in K, Library!End \in K
  PROVE  /\ \A r \in R, v \in Values : Library!Do(r, v) \in StepsOn(R, K)
         /\ \A r \in R, v \in Values : Library!Try(r, v) \in StepsOn(R, K)
         /\ \A k \in K, r \in R, v \in Values : Library!Set(k, r, v) \in StepsOn(R, K)
         /\ \A k \in K, r \in R \cap Library!BusClock, v \in Values :
              Library!Wait(k, r, v) \in StepsOn(R, K)
         /\ \A k \in K : Library!ToHost(k) \in StepsOn(R, K)
         /\ \A k \in K : Library!ToDsp(k) \in StepsOn(R, K)
         /\ Library!Write \in StepsOn(R, K)
  BY DEF StepsOn, Values, Library!Set, Library!Wait, Library!Do, Library!Try, Library!ToHost,
     Library!ToDsp, Library!Write

LEMMA ChecksFit ==
  ASSUME NEW R, NEW K, 0 \in K, Library!End \in K
  PROVE  /\ \A k \in K : Library!Lock(k) \in StepsOn(R, K)
         /\ \A what \in Reasons : Library!Check(what) \in StepsOn(R, K)
         /\ Library!Save(0) \in StepsOn(R, K) /\ Library!Back \in StepsOn(R, K)
  BY DEF StepsOn, Reasons, Library!Lock, Library!Check, Library!Save, Library!Back

LEMMA BatchesFit ==
  ASSUME NEW R, NEW b \in Seq((R \ Library!BusClock) \X Values)
  PROVE  /\ Library!Send(b) \in StepsOn(R, Usual)
         /\ Library!Post(b) \in StepsOn(R, Usual)
         /\ Library!Claim(b) \in StepsOn(R, Usual)
  BY DEF StepsOn, Usual, Library!Send, Library!Post, Library!Claim, Library!Batch

LEMMA FitsMore ==
  ASSUME NEW R, NEW Q, R \subseteq Q, NEW K, NEW L, K \subseteq L
  PROVE  StepsOn(R, K) \subseteq StepsOn(Q, L) /\ Seq(StepsOn(R, K)) \subseteq Seq(StepsOn(Q, L))
<1>1. Seq((R \ Library!BusClock) \X Values) \subseteq Seq((Q \ Library!BusClock) \X Values)
  OBVIOUS
<1>2. StepsOn(R, K) \subseteq StepsOn(Q, L)
  BY <1>1, Zenon DEF StepsOn
<1> QED BY <1>2

LEMMA UsualFits ==
  ASSUME NEW R
  PROVE  StepsOn(R, Usual) \subseteq StepsOn(R, Nat) /\ Seq(StepsOn(R, Usual)) \subseteq Seq(StepsOn(R, Nat))
<1>1. Usual \subseteq Nat
  BY DEF Usual, Library!End, Library!Quiet
<1> QED BY <1>1, FitsMore

\* The sequence x is y, and then z.
Joins(x, y, z) ==
  /\ Len(x) = Len(y) + Len(z) /\ DOMAIN x = 1..(Len(y) + Len(z))
  /\ Len(y) \in Nat /\ Len(z) \in Nat /\ DOMAIN y = 1..Len(y) /\ DOMAIN z = 1..Len(z)
  /\ \A i \in 1..Len(y) : x[i] = y[i]
  /\ \A i \in 1..Len(z) : x[Len(y) + i] = z[i]

LEMMA CatJoins ==
  ASSUME NEW T, NEW s \in Seq(T), NEW t \in Seq(T)
  PROVE  s \o t \in Seq(T) /\ Joins(s \o t, s, t)
  BY DEF Joins

\* A part of a sequence, by where it lies.
LEMMA JoinedAt ==
  ASSUME NEW x, NEW y, NEW z, Joins(x, y, z), NEW i \in DOMAIN x
  PROVE  \/ i \in DOMAIN y /\ x[i] = y[i]
         \/ i \notin DOMAIN y /\ i - Len(y) \in DOMAIN z /\ x[i] = z[i - Len(y)]
<1>1. CASE i \in 1..Len(y)
  BY <1>1 DEF Joins
<1>2. CASE i \notin 1..Len(y)
  <2> DEFINE k == i - Len(y)
  <2>1. k \in 1..Len(z) /\ i = Len(y) + k
    BY <1>2 DEF Joins
  <2>2. x[Len(y) + k] = z[k]
    BY <2>1 DEF Joins
  <2> QED BY <1>2, <2>1, <2>2 DEF Joins
<1> QED BY <1>1, <1>2

\* What the bus clock must be for a step, and what it is once the step is done.
Sets(x, r, v)  == x.op = "set" /\ x.reg = r /\ x.val = v
Polls(x, r, v) == x.op = "wait" /\ x.reg = r /\ x.val = v

WantsPll(x)  == \/ Sets(x, "spi", "64") \/ Sets(x, "mux", "on")
                \/ Polls(x, "mux", "on") \/ Polls(x, "pll", "on")
WantsMux(x)  == Sets(x, "spi", "64")
WantsSlow(x) == \/ x.op = "set" /\ x.reg \in {"mux", "pll"} /\ x.val # "on"
                \/ x.op = "wait" /\ x.val # "on"
GivesPll(x)  == \E r \in {"mux", "pll"} : Sets(x, r, "on") \/ Polls(x, r, "on")
GivesMux(x)  == Sets(x, "mux", "on") \/ Polls(x, "mux", "on")
GivesSlow(x) == Sets(x, "spi", "26") \/ WantsSlow(x)
WantsNone(x) == ~WantsPll(x) /\ ~WantsMux(x) /\ ~WantsSlow(x)

\* Step y may follow step x, done or failed.  m: a multiplexer lets the clock through.
Leads(x, y, m) ==
  /\ WantsPll(y) => GivesPll(x)
  /\ m /\ WantsMux(y) => GivesMux(x)
  /\ WantsSlow(y) => GivesSlow(x)
LeadsOn(x, y, m) ==
  \/ x.op = "set" /\ x.reg \in Library!BusClock
  \/ /\ WantsPll(y) => WantsPll(x)
     /\ m /\ WantsMux(y) => WantsMux(x)
     /\ WantsSlow(y) => WantsSlow(x)

\* Each step finds the clock it wants, on every way through the sequence.
InOrder(s, m) ==
  /\ 1 \in DOMAIN s => WantsNone(s[1])
  /\ \A i \in DOMAIN s : i + 1 \in DOMAIN s => Leads(s[i], s[i + 1], m)
  /\ \A i \in DOMAIN s : s[i].skip < Library!End =>
       /\ s[i].skip \in Nat /\ i + s[i].skip <= Len(s)
       /\ i + 1 + s[i].skip \in DOMAIN s => LeadsOn(s[i], s[i + 1 + s[i].skip], m)

LEMMA NoneLeads ==
  ASSUME NEW x, NEW y, NEW m, WantsNone(y)
  PROVE  Leads(x, y, m) /\ LeadsOn(x, y, m)
  BY DEF WantsNone, Leads, LeadsOn

LEMMA CatInOrder ==
  ASSUME NEW x, NEW y, NEW z, NEW m, Joins(x, y, z), InOrder(y, m), InOrder(z, m)
  PROVE  InOrder(x, m)
<1>1. ASSUME 1 \in DOMAIN x
      PROVE  WantsNone(x[1])
  <2>1. CASE 1 \in DOMAIN y
    BY <2>1 DEF Joins, InOrder
  <2>2. CASE 1 \notin DOMAIN y
    <3>1. Len(y) = 0 /\ 1 \in DOMAIN z
      BY <1>1, <2>2 DEF Joins
    <3>2. x[1] = z[1]
      BY <3>1 DEF Joins
    <3> QED BY <3>1, <3>2 DEF InOrder
  <2> QED BY <2>1, <2>2
<1>2. ASSUME NEW i \in DOMAIN x, NEW j \in DOMAIN x, i < j,
             j \notin DOMAIN y \/ i \in DOMAIN y, i \in DOMAIN y => j = Len(y) + 1 \/ j \in DOMAIN y
      PROVE  \/ WantsNone(x[j])
             \/ i \in DOMAIN y /\ j \in DOMAIN y /\ x[i] = y[i] /\ x[j] = y[j]
             \/ /\ i - Len(y) \in DOMAIN z /\ j - Len(y) \in DOMAIN z
                /\ x[i] = z[i - Len(y)] /\ x[j] = z[j - Len(y)]
  <2>1. CASE i \in DOMAIN y /\ j \in DOMAIN y
    BY <2>1 DEF Joins
  <2>2. CASE i \in DOMAIN y /\ j \notin DOMAIN y
    <3>1. j = Len(y) + 1 /\ 1 \in DOMAIN z
      BY <1>2, <2>2 DEF Joins
    <3>2. x[j] = z[1]
      BY <3>1 DEF Joins
    <3> QED BY <3>1, <3>2 DEF InOrder
  <2>3. CASE i \notin DOMAIN y
    <3>1. j \notin DOMAIN y
      BY <1>2, <2>3 DEF Joins
    <3> QED BY <2>3, <3>1, JoinedAt
  <2> QED BY <2>1, <2>2, <2>3
<1>3. ASSUME NEW i \in DOMAIN x, i + 1 \in DOMAIN x
      PROVE  Leads(x[i], x[i + 1], m)
  <2>1. \/ WantsNone(x[i + 1])
        \/ i \in DOMAIN y /\ i + 1 \in DOMAIN y /\ x[i] = y[i] /\ x[i + 1] = y[i + 1]
        \/ /\ i - Len(y) \in DOMAIN z /\ i + 1 - Len(y) \in DOMAIN z
           /\ x[i] = z[i - Len(y)] /\ x[i + 1] = z[i + 1 - Len(y)]
    <3>1. i \in Nat /\ Len(y) \in Nat /\ DOMAIN y = 1..Len(y) /\ i >= 1
      BY DEF Joins
    <3> QED BY <1>2, <1>3, <3>1
  <2>2. CASE i - Len(y) \in DOMAIN z /\ i + 1 - Len(y) \in DOMAIN z
              /\ x[i] = z[i - Len(y)] /\ x[i + 1] = z[i + 1 - Len(y)]
    <3>1. i + 1 - Len(y) = (i - Len(y)) + 1
      BY DEF Joins
    <3> QED BY <2>2, <3>1 DEF InOrder
  <2>3. CASE i \in DOMAIN y /\ i + 1 \in DOMAIN y /\ x[i] = y[i] /\ x[i + 1] = y[i + 1]
    BY <2>3 DEF InOrder
  <2> QED BY <2>1, <2>2, <2>3, NoneLeads
<1>4. ASSUME NEW i \in DOMAIN x, x[i].skip < Library!End
      PROVE  /\ x[i].skip \in Nat /\ i + x[i].skip <= Len(x)
             /\ i + 1 + x[i].skip \in DOMAIN x => LeadsOn(x[i], x[i + 1 + x[i].skip], m)
  <2>1. CASE i \in DOMAIN y
    <3>1. x[i] = y[i]
      BY <2>1 DEF Joins
    <3> PICK k : k = y[i].skip
      OBVIOUS
    <3>2. /\ k \in Nat /\ i + k <= Len(y)
          /\ i + 1 + k \in DOMAIN y => LeadsOn(y[i], y[i + 1 + k], m)
      BY <1>4, <2>1, <3>1 DEF InOrder
    <3>3. i \in Nat /\ i >= 1 /\ Len(y) \in Nat /\ Len(z) \in Nat /\ Len(x) = Len(y) + Len(z) /\ DOMAIN y = 1..Len(y)
      BY <2>1 DEF Joins
    <3>4. ASSUME i + 1 + k \in DOMAIN x PROVE LeadsOn(x[i], x[i + 1 + k], m)
      <4>1. CASE i + 1 + k \in DOMAIN y
        <5>1. x[i + 1 + k] = y[i + 1 + k]
          BY <4>1 DEF Joins
        <5> QED BY <3>1, <3>2, <4>1, <5>1
      <4>2. CASE i + 1 + k \notin DOMAIN y
        <5> PICK n : n = Len(y)
          OBVIOUS
        <5>1. i + 1 + k = Len(y) + 1
          <6>1. k \in Nat /\ i + k <= n /\ i \in Nat /\ n \in Nat /\ ~(i + 1 + k \in 1..n)
            BY <3>2, <3>3, <4>2
          <6> QED BY <6>1
        <5>2. WantsNone(x[i + 1 + k])
          BY <1>2, <2>1, <3>2, <3>3, <3>4, <4>2, <5>1
        <5> QED BY <5>2, NoneLeads
      <4> QED BY <4>1, <4>2
    <3> QED BY <3>1, <3>2, <3>3, <3>4
  <2>2. CASE i \notin DOMAIN y
    <3>1. PICK h \in DOMAIN z : x[i] = z[h] /\ h \in Nat /\ i = Len(y) + h /\ Len(y) \in Nat
      <4>1. i - Len(y) \in DOMAIN z /\ x[i] = z[i - Len(y)]
        BY <2>2, JoinedAt
      <4>2. i - Len(y) \in Nat /\ i = Len(y) + (i - Len(y)) /\ Len(y) \in Nat
        BY <4>1 DEF Joins
      <4> QED BY <4>1, <4>2
    <3> PICK k : k = z[h].skip
      OBVIOUS
    <3>2. /\ k \in Nat /\ h + k <= Len(z)
          /\ h + 1 + k \in DOMAIN z => LeadsOn(z[h], z[h + 1 + k], m)
      BY <1>4, <3>1 DEF InOrder
    <3>3. ASSUME i + 1 + k \in DOMAIN x PROVE LeadsOn(x[i], x[i + 1 + k], m)
      <4> PICK j : j = i + 1 + k
        OBVIOUS
      <4>1. j \notin DOMAIN y /\ j - Len(y) = h + 1 + k
        <5>1. k \in Nat /\ h \in Nat /\ Len(y) \in Nat /\ i = Len(y) + h
          BY <3>1, <3>2
        <5>2. i \in Nat
          BY <5>1
        <5>3. j = Len(y) + h + 1 + k
          BY <5>1, <5>2
        <5>4. j - Len(y) = h + 1 + k /\ j > Len(y)
          BY <5>1, <5>3
        <5>5. DOMAIN y = 1..Len(y)
          BY DEF Joins
        <5> QED BY <5>1, <5>4, <5>5
      <4>2. x[j] = z[h + 1 + k] /\ h + 1 + k \in DOMAIN z
        BY <3>3, <4>1, JoinedAt
      <4> QED BY <3>1, <3>2, <4>2
    <3>4. i + k <= Len(x)
      BY <3>1, <3>2 DEF Joins
    <3> QED BY <3>1, <3>2, <3>3, <3>4
  <2> QED BY <2>1, <2>2
<1> QED BY <1>1, <1>3, <1>4 DEF InOrder

\* A sequence that leaves the bus clock alone, and in which a failure skips nothing or all.
LEMMA CalmInOrder ==
  ASSUME NEW R, R \cap Library!BusClock = {}, NEW s \in Seq(StepsOn(R, Usual)), NEW m
  PROVE  InOrder(s, m)
<1>1. ASSUME NEW x \in StepsOn(R, Usual) PROVE WantsNone(x) /\ (x.skip < Library!End => x.skip = 0)
  <2>1. x.op = "wait" => FALSE
    BY DEF StepsOn
  <2>2. x.op = "set" => x.reg \in R
    BY DEF StepsOn
  <2>3. x.skip \in Usual
    BY DEF StepsOn
  <2>4. "spi" \notin R /\ "mux" \notin R /\ "pll" \notin R
    BY DEF Library!BusClock
  <2> QED BY <2>1, <2>2, <2>3, <2>4 DEF WantsNone, WantsPll, WantsMux, WantsSlow, Sets, Polls, Usual,
       Library!End, Library!Quiet
<1>2. \A i \in DOMAIN s : WantsNone(s[i]) /\ (s[i].skip < Library!End => s[i].skip = 0) /\ i \in 1..Len(s)
  BY <1>1
<1>3. \A i \in DOMAIN s : \A x : Leads(x, s[i], m) /\ LeadsOn(x, s[i], m)
  BY <1>2, NoneLeads
<1> QED BY <1>2, <1>3 DEF InOrder

\* Two steps that differ in what a failure skips.
Alike(x, y) ==
  /\ x.op = y.op
  /\ x.op \in {"set", "wait"} => x.reg = y.reg /\ x.val = y.val
  /\ x.op = "batch" => x.batch = y.batch

LEMMA SkipsAlike ==
  ASSUME NEW R, NEW K, K \subseteq Nat, NEW x \in StepsOn(R, K), NEW n \in Nat
  PROVE  LET y == [x EXCEPT !.skip = n] IN y \in StepsOn(R, Nat) /\ y.skip = n /\ Alike(y, x)
<1>1. CASE x \in [op : {"set"}, skip : K, reg : R, val : Values]
  BY <1>1 DEF StepsOn, Alike
<1>2. CASE x \in [op : {"wait"}, skip : K, reg : R \cap Library!BusClock, val : Values]
  BY <1>2 DEF StepsOn, Alike
<1>3. CASE x \in [op : {"batch"}, skip : K, batch : Seq((R \ Library!BusClock) \X Values)]
  BY <1>3 DEF StepsOn, Alike
<1>4. CASE x \in [op : {"save", "back"}, skip : K] \/ x \in [op : {"check"}, skip : K, what : Reasons]
  BY <1>4 DEF StepsOn, Alike
<1> QED BY <1>1, <1>2, <1>3, <1>4 DEF StepsOn

\* Sequence t is sequence s, but where a failure ends s, it only ends t.
Ignored(t, s) ==
  /\ Len(t) = Len(s) /\ DOMAIN t = DOMAIN s
  /\ \A i \in DOMAIN s :
       /\ Alike(t[i], s[i])
       /\ t[i].skip = IF s[i].skip >= Library!End THEN Len(s) - i ELSE s[i].skip

LEMMA IgnoringIs ==
  ASSUME NEW R, NEW K, K \subseteq Nat, NEW s \in Seq(StepsOn(R, K))
  PROVE  Library!Ignoring(s) \in Seq(StepsOn(R, Nat)) /\ Ignored(Library!Ignoring(s), s)
<1> PICK t : t = Library!Ignoring(s)
  OBVIOUS
<1>1. DOMAIN t = DOMAIN s /\ DOMAIN s = 1..Len(s) /\ Len(s) \in Nat
  BY DEF Library!Ignoring
<1>2. ASSUME NEW i \in DOMAIN s
      PROVE  /\ t[i] \in StepsOn(R, Nat) /\ Alike(t[i], s[i])
             /\ t[i].skip = IF s[i].skip >= Library!End THEN Len(s) - i ELSE s[i].skip
  <2>1. s[i] \in StepsOn(R, K) /\ Len(s) - i \in Nat
    BY <1>1, <1>2
  <2>2. CASE s[i].skip >= Library!End
    <3>1. t[i] = [s[i] EXCEPT !.skip = Len(s) - i]
      BY <2>2 DEF Library!Ignoring
    <3> QED BY <2>1, <2>2, <3>1, SkipsAlike
  <2>3. CASE ~(s[i].skip >= Library!End)
    <3>1. t[i] = s[i]
      BY <2>3 DEF Library!Ignoring
    <3>2. s[i] \in StepsOn(R, Nat)
      BY <2>1, FitsMore
    <3> QED BY <2>3, <3>1, <3>2 DEF Alike
  <2> QED BY <2>2, <2>3
<1>3. t \in Seq(StepsOn(R, Nat)) /\ Len(t) = Len(s)
  <2>1. \A i \in 1..Len(s) : t[i] \in StepsOn(R, Nat)
    BY <1>1, <1>2
  <2>2. t = [i \in 1..Len(s) |-> t[i]]
    BY <1>1 DEF Library!Ignoring
  <2> QED BY <1>1, <2>1, <2>2
<1> QED BY <1>1, <1>2, <1>3 DEF Ignored

LEMMA AlikeWants ==
  ASSUME NEW x, NEW y, Alike(x, y)
  PROVE  /\ WantsPll(x) <=> WantsPll(y)
         /\ WantsMux(x) <=> WantsMux(y)
         /\ WantsSlow(x) <=> WantsSlow(y)
         /\ \A r, v : Sets(x, r, v) <=> Sets(y, r, v)
         /\ \A r, v : Polls(x, r, v) <=> Polls(y, r, v)
<1>1. \A r, v : (Sets(x, r, v) <=> Sets(y, r, v)) /\ (Polls(x, r, v) <=> Polls(y, r, v))
  BY DEF Alike, Sets, Polls
<1>2. WantsSlow(x) <=> WantsSlow(y)
  BY DEF Alike, WantsSlow
<1> QED BY <1>1, <1>2 DEF WantsPll, WantsMux

LEMMA AlikeLeads ==
  ASSUME NEW x, NEW y, Alike(x, y), NEW z, NEW w, Alike(z, w), NEW m
  PROVE  /\ Leads(y, w, m) => Leads(x, z, m)
         /\ LeadsOn(y, w, m) => LeadsOn(x, z, m)
<1>1. /\ GivesPll(x) <=> GivesPll(y)
      /\ GivesMux(x) <=> GivesMux(y)
      /\ GivesSlow(x) <=> GivesSlow(y)
  BY AlikeWants DEF GivesPll, GivesMux, GivesSlow
<1>2. Leads(y, w, m) => Leads(x, z, m)
  BY <1>1, AlikeWants DEF Leads
<1>3. x.op = "set" /\ x.reg \in Library!BusClock <=> y.op = "set" /\ y.reg \in Library!BusClock
  BY DEF Alike
<1>4. LeadsOn(y, w, m) => LeadsOn(x, z, m)
  BY <1>3, AlikeWants DEF LeadsOn
<1> QED BY <1>2, <1>4

LEMMA IgnoredInOrder ==
  ASSUME NEW s, NEW t, Ignored(t, s), NEW R, s \in Seq(R), NEW m, InOrder(s, m)
  PROVE  InOrder(t, m)
<1>1. /\ Len(t) = Len(s) /\ DOMAIN t = DOMAIN s
      /\ \A i \in DOMAIN s : Alike(t[i], s[i])
      /\ \A i \in DOMAIN s : t[i].skip = IF s[i].skip >= Library!End THEN Len(s) - i ELSE s[i].skip
  BY DEF Ignored
<1>2. DOMAIN s = 1..Len(s) /\ Len(s) \in Nat
  OBVIOUS
<1>3. 1 \in DOMAIN t => WantsNone(t[1])
  BY <1>1, AlikeWants DEF InOrder, WantsNone
<1>4. \A i \in DOMAIN t : i + 1 \in DOMAIN t => Leads(t[i], t[i + 1], m)
  BY <1>1, AlikeLeads DEF InOrder
<1>5. ASSUME NEW i \in DOMAIN t, t[i].skip < Library!End
      PROVE  /\ t[i].skip \in Nat /\ i + t[i].skip <= Len(t)
             /\ i + 1 + t[i].skip \in DOMAIN t => LeadsOn(t[i], t[i + 1 + t[i].skip], m)
  <2>1. CASE s[i].skip >= Library!End
    <3>1. t[i].skip = Len(s) - i
      BY <1>1, <2>1
    <3>2. t[i].skip \in Nat /\ i + t[i].skip = Len(t) /\ i + 1 + t[i].skip \notin DOMAIN t
      BY <1>1, <1>2, <3>1
    <3> QED BY <1>2, <3>2
  <2>2. CASE ~(s[i].skip >= Library!End)
    <3> PICK k : k = s[i].skip
      OBVIOUS
    <3>1. t[i].skip = k /\ k < Library!End
      BY <1>1, <1>5, <2>2
    <3>2. k \in Nat /\ i + k <= Len(s) /\ (i + 1 + k \in DOMAIN s => LeadsOn(s[i], s[i + 1 + k], m))
      BY <1>1, <3>1 DEF InOrder
    <3>3. i + 1 + k \in DOMAIN s => LeadsOn(t[i], t[i + 1 + k], m)
      BY <1>1, <3>2, AlikeLeads
    <3> QED BY <1>1, <3>1, <3>2, <3>3
  <2> QED BY <2>1, <2>2
<1> QED BY <1>3, <1>4, <1>5 DEF InOrder

\* What the registers hold once a sequence, or its first n steps, went through: what the
\* last step that writes a register put there.
Writes(x, r) ==
  \/ x.op = "set" /\ x.reg = r
  \/ x.op = "batch" /\ \E k \in DOMAIN x.batch : x.batch[k][1] = r
  \/ x.op \in {"save", "back"} /\ r = "rf"
Puts(x, r, v) ==
  \/ Sets(x, r, v)
  \/ x.op = "batch" /\ \E k \in DOMAIN x.batch :
       /\ x.batch[k][1] = r /\ x.batch[k][2] = v
       /\ \A l \in DOMAIN x.batch : l > k => x.batch[l][1] # r
Leaves(s, n, r, v) ==
  \E i \in 1..n : Puts(s[i], r, v) /\ \A j \in (i + 1)..n : ~Writes(s[j], r)
Ends(s, r, v) == Leaves(s, Len(s), r, v)

LEMMA EndsAt ==
  ASSUME NEW T, NEW s \in Seq(T), NEW r, NEW v
  PROVE  Ends(s, r, v) <=>
           \E i \in DOMAIN s : Puts(s[i], r, v) /\ \A j \in DOMAIN s : j > i => ~Writes(s[j], r)
<1> PICK n : n = Len(s)
  OBVIOUS
<1>1. DOMAIN s = 1..n /\ n \in Nat
  OBVIOUS
<1>2. \A i \in 1..n : \A j : j \in (i + 1)..n <=> j \in 1..n /\ j > i
  BY <1>1
<1> QED BY <1>1, <1>2 DEF Ends, Leaves

LEMMA WritesInside ==
  ASSUME NEW R, NEW K, NEW s \in Seq(StepsOn(R, K)), NEW r, r \notin R, r # "rf"
  PROVE  \A i \in DOMAIN s : ~Writes(s[i], r)
<1> SUFFICES ASSUME NEW x \in StepsOn(R, K) PROVE ~Writes(x, r)
  OBVIOUS
<1>1. ASSUME x.op = "batch", NEW k \in DOMAIN x.batch
      PROVE  x.batch[k][1] # r
  <2>1. x.batch \in Seq((R \ Library!BusClock) \X Values)
    BY <1>1 DEF StepsOn
  <2>2. x.batch[k] \in (R \ Library!BusClock) \X Values
    BY <1>1, <2>1
  <2> QED BY <2>2
<1>2. x.op = "set" => x.reg \in R
  BY DEF StepsOn
<1> QED BY <1>1, <1>2 DEF Writes

LEMMA CatEnds ==
  ASSUME NEW T, NEW s \in Seq(T), NEW t \in Seq(T), NEW r, NEW v
  PROVE  /\ Ends(t, r, v) => Ends(s \o t, r, v)
         /\ Ends(s, r, v) /\ (\A i \in DOMAIN t : ~Writes(t[i], r)) => Ends(s \o t, r, v)
<1> PICK x : x = s \o t
  OBVIOUS
<1>1. x \in Seq(T) /\ Joins(x, s, t)
  BY CatJoins
<1>2. ASSUME Ends(t, r, v) PROVE Ends(x, r, v)
  <2>1. PICK i \in DOMAIN t : Puts(t[i], r, v) /\ \A j \in DOMAIN t : j > i => ~Writes(t[j], r)
    BY <1>2, EndsAt
  <2>2. PICK h : h = Len(s) + i
    OBVIOUS
  <2>3. h \in DOMAIN x /\ x[h] = t[i] /\ h > Len(s) /\ i = h - Len(s)
    BY <1>1, <2>2 DEF Joins
  <2>4. ASSUME NEW j \in DOMAIN x, j > h PROVE ~Writes(x[j], r)
    <3>1. j \notin DOMAIN s
      BY <1>1, <2>3, <2>4 DEF Joins
    <3>2. j - Len(s) \in DOMAIN t /\ x[j] = t[j - Len(s)]
      BY <1>1, <3>1, JoinedAt
    <3>3. j - Len(s) > i
      BY <1>1, <2>2, <2>4 DEF Joins
    <3> QED BY <2>1, <3>2, <3>3
  <2> QED BY <1>1, <2>1, <2>3, <2>4, EndsAt
<1>3. ASSUME Ends(s, r, v), \A i \in DOMAIN t : ~Writes(t[i], r) PROVE Ends(x, r, v)
  <2>1. PICK i \in DOMAIN s : Puts(s[i], r, v) /\ \A j \in DOMAIN s : j > i => ~Writes(s[j], r)
    BY <1>3, EndsAt
  <2>2. i \in DOMAIN x /\ x[i] = s[i]
    BY <1>1 DEF Joins
  <2>3. ASSUME NEW j \in DOMAIN x, j > i PROVE ~Writes(x[j], r)
    BY <1>1, <1>3, <2>1, <2>3, JoinedAt
  <2> QED BY <1>1, <2>1, <2>2, <2>3, EndsAt
<1> QED BY <1>2, <1>3

LEMMA IgnoredEnds ==
  ASSUME NEW T, NEW s \in Seq(T), NEW U, NEW t \in Seq(U), Ignored(t, s), NEW r, NEW v, Ends(s, r, v)
  PROVE  Ends(t, r, v)
<1>1. PICK i \in DOMAIN s : Puts(s[i], r, v) /\ \A j \in DOMAIN s : j > i => ~Writes(s[j], r)
  BY EndsAt
<1>2. \A j \in DOMAIN s : j \in DOMAIN t /\ Alike(t[j], s[j])
  BY DEF Ignored
<1>3. Puts(t[i], r, v)
  BY <1>1, <1>2 DEF Puts, Sets, Alike
<1>4. \A j \in DOMAIN s : Writes(t[j], r) => Writes(s[j], r)
  BY <1>2 DEF Writes, Alike
<1>5. DOMAIN t = DOMAIN s
  BY DEF Ignored
<1> QED BY <1>1, <1>2, <1>3, <1>4, <1>5, EndsAt

\* Somewhere in the sequence the bus goes back to the slow clock.
Slows(s) == \E i \in DOMAIN s : Sets(s[i], "spi", "26")

LEMMA CatSlows ==
  ASSUME NEW x, NEW y, NEW z, Joins(x, y, z), Slows(y) \/ Slows(z)
  PROVE  Slows(x)
<1>1. CASE Slows(y)
  <2>1. PICK i \in DOMAIN y : Sets(y[i], "spi", "26")
    BY <1>1 DEF Slows
  <2>2. i \in DOMAIN x /\ x[i] = y[i]
    BY DEF Joins
  <2> QED BY <2>1, <2>2 DEF Slows
<1>2. CASE Slows(z)
  <2>1. PICK i \in DOMAIN z : Sets(z[i], "spi", "26")
    BY <1>2 DEF Slows
  <2>2. Len(y) + i \in DOMAIN x /\ x[Len(y) + i] = z[i]
    BY DEF Joins
  <2> QED BY <2>1, <2>2 DEF Slows
<1> QED BY <1>1, <1>2

LEMMA IgnoredSlows ==
  ASSUME NEW s, NEW t, Ignored(t, s), Slows(s)
  PROVE  Slows(t)
  BY AlikeWants DEF Ignored, Slows

LEMMA CatAssoc ==
  ASSUME NEW T, NEW s \in Seq(T), NEW t \in Seq(T), NEW u \in Seq(T)
  PROVE  (s \o t) \o u = s \o (t \o u)
  OBVIOUS

\* A sequence of steps on R that keeps the order of the bus clock.
Flows(s, R, m) == s \in Seq(StepsOn(R, Nat)) /\ InOrder(s, m)

LEMMA CatFlows ==
  ASSUME NEW R, NEW m, NEW s, Flows(s, R, m), NEW t, Flows(t, R, m)
  PROVE  Flows(s \o t, R, m)
  BY CatJoins, CatInOrder DEF Flows

LEMMA IgnoringFlows ==
  ASSUME NEW R, NEW m, NEW s, Flows(s, R, m)
  PROVE  Flows(Library!Ignoring(s), R, m)
<1>1. s \in Seq(StepsOn(R, Nat)) /\ InOrder(s, m)
  BY DEF Flows
<1>2. Library!Ignoring(s) \in Seq(StepsOn(R, Nat)) /\ Ignored(Library!Ignoring(s), s)
  BY <1>1, IgnoringIs
<1>3. InOrder(Library!Ignoring(s), m)
  BY <1>1, <1>2, IgnoredInOrder
<1> QED BY <1>2, <1>3 DEF Flows

LEMMA CalmFlows ==
  ASSUME NEW R, NEW s \in Seq(StepsOn(R \ Library!BusClock, Usual)), NEW m
  PROVE  Flows(s, R, m)
<1>1. InOrder(s, m)
  BY CalmInOrder
<1>2. R \ Library!BusClock \subseteq R /\ Usual \subseteq Nat
  BY DEF Usual, Library!End, Library!Quiet
<1>3. s \in Seq(StepsOn(R, Nat))
  BY <1>2, FitsMore
<1> QED BY <1>1, <1>3 DEF Flows

\* fm_drv_switch_clk_26m with the PLL behind it, and fm_drv_switch_clk_64m with it before.
LEMMA SlowFlows ==
  ASSUME NEW R, Library!BusClock \subseteq R, "rf" \in R, "data" \in R, NEW m
  PROVE  LET s == Library!fm_drv_switch_clk_26m \o <<Library!Do("pll", "off")>> IN
         Flows(s, R, m) /\ Slows(s) /\ Ends(s, "spi", "26") /\ Ends(s, "mux", "off") /\ Ends(s, "pll", "off")
<1> PICK s : s = Library!fm_drv_switch_clk_26m \o <<Library!Do("pll", "off")>>
  OBVIOUS
<1>1. /\ Len(s) = 3 /\ DOMAIN s = 1..3
      /\ s[1] = Library!Set(1, "spi", "26") /\ s[2] = Library!Do("mux", "off")
      /\ s[3] = Library!Do("pll", "off")
  BY DEF Library!fm_drv_switch_clk_26m
<1>2. s \in Seq(StepsOn(R, Nat))
  <2>1. /\ s[1] \in StepsOn(R, Nat) /\ s[2] \in StepsOn(R, Nat) /\ s[3] \in StepsOn(R, Nat)
    <3>1. "spi" \in R /\ "mux" \in R /\ "pll" \in R /\ 0 \in Nat /\ 1 \in Nat /\ Library!End \in Nat
          /\ "26" \in Values /\ "off" \in Values
      BY DEF Library!BusClock, Values, Library!End
    <3> QED BY Zenon, <1>1, <3>1, SetsFit
  <2> QED BY <1>1, <2>1 DEF Library!fm_drv_switch_clk_26m
<1>3. InOrder(s, m)
  <2>1. WantsNone(s[1]) /\ Leads(s[1], s[2], m) /\ Leads(s[2], s[3], m)
    BY <1>1 DEF WantsNone, WantsPll, WantsMux, WantsSlow, GivesPll, GivesMux, GivesSlow, Leads,
       Sets, Polls, Library!Set, Library!Do
  <2>2. LeadsOn(s[1], s[3], m) /\ LeadsOn(s[2], s[3], m)
    BY <1>1 DEF LeadsOn, Library!Set, Library!Do, Library!BusClock
  <2>3. s[1].skip = 1 /\ s[2].skip = 0 /\ s[3].skip = 0
    BY <1>1 DEF Library!Set, Library!Do
  <2> QED BY <1>1, <2>1, <2>2, <2>3 DEF InOrder
<1>4. Slows(s)
  BY <1>1 DEF Slows, Sets, Library!Set
<1>5. /\ Puts(s[1], "spi", "26") /\ Puts(s[2], "mux", "off") /\ Puts(s[3], "pll", "off")
      /\ ~Writes(s[2], "spi") /\ ~Writes(s[3], "spi") /\ ~Writes(s[3], "mux")
  BY <1>1 DEF Puts, Writes, Sets, Library!Set, Library!Do
<1>6. Ends(s, "spi", "26") /\ Ends(s, "mux", "off") /\ Ends(s, "pll", "off")
  BY <1>1, <1>5 DEF Ends, Leaves
<1> QED BY <1>2, <1>3, <1>4, <1>6 DEF Flows

LEMMA FastFlows ==
  ASSUME NEW R, Library!BusClock \subseteq R, "rf" \in R, "data" \in R, NEW m
  PROVE  LET s == <<Library!Do("pll", "on"), Library!Wait(3, "pll", "on")>> \o Library!fm_drv_switch_clk_64m IN
         Flows(s, R, m) /\ Ends(s, "spi", "64")
<1> PICK s : s = <<Library!Do("pll", "on"), Library!Wait(3, "pll", "on")>> \o Library!fm_drv_switch_clk_64m
  OBVIOUS
<1>1. /\ Len(s) = 5 /\ DOMAIN s = 1..5
      /\ s[1] = Library!Do("pll", "on") /\ s[2] = Library!Wait(3, "pll", "on")
      /\ s[3] = Library!Set(2, "mux", "on") /\ s[4] = Library!Wait(1, "mux", "on")
      /\ s[5] = Library!Do("spi", "64")
  BY DEF Library!fm_drv_switch_clk_64m
<1>2. s \in Seq(StepsOn(R, Nat))
  <2>1. \A i \in 1..5 : s[i] \in StepsOn(R, Nat)
    <3>1. /\ "spi" \in R /\ "mux" \in R \cap Library!BusClock /\ "pll" \in R \cap Library!BusClock
          /\ 0 \in Nat /\ 1 \in Nat /\ 2 \in Nat /\ 3 \in Nat /\ Library!End \in Nat
          /\ "64" \in Values /\ "on" \in Values
      BY DEF Library!BusClock, Values, Library!End
    <3>2. s[1] \in StepsOn(R, Nat) /\ s[2] \in StepsOn(R, Nat) /\ s[3] \in StepsOn(R, Nat)
          /\ s[4] \in StepsOn(R, Nat) /\ s[5] \in StepsOn(R, Nat)
      BY Zenon, <1>1, <3>1, SetsFit
    <3> QED BY <3>2, <1>1
  <2>2. s \in Seq({s[i] : i \in 1..5})
    BY <1>1 DEF Library!fm_drv_switch_clk_64m
  <2> QED BY <1>1, <2>1, <2>2
<1>3. InOrder(s, m)
  <2>1. /\ WantsNone(s[1]) /\ Leads(s[1], s[2], m) /\ Leads(s[2], s[3], m)
        /\ Leads(s[3], s[4], m) /\ Leads(s[4], s[5], m)
    BY <1>1 DEF WantsNone, WantsPll, WantsMux, WantsSlow, GivesPll, GivesMux, GivesSlow, Leads,
       Sets, Polls, Library!Set, Library!Do, Library!Wait
  <2>2. LeadsOn(s[1], s[2], m) /\ LeadsOn(s[3], s[4], m)
    BY <1>1 DEF LeadsOn, Library!Set, Library!Do, Library!BusClock
  <2>3. s[1].skip = 0 /\ s[2].skip = 3 /\ s[3].skip = 2 /\ s[4].skip = 1 /\ s[5].skip = 0
    BY <1>1 DEF Library!Set, Library!Do, Library!Wait
  <2> QED BY <1>1, <2>1, <2>2, <2>3 DEF InOrder
<1>4. Ends(s, "spi", "64")
  <2>1. Puts(s[5], "spi", "64")
    BY <1>1 DEF Puts, Sets, Library!Set, Library!Do
  <2> QED BY <1>1, <2>1 DEF Ends, Leaves
<1> QED BY <1>2, <1>3, <1>4 DEF Flows

\* The clock switch of projectid 0x8168.
LEMMA OwnSlowFlows ==
  ASSUME NEW R, Library!BusClock \subseteq R, "rf" \in R, "data" \in R, "top2" \in R, NEW m
  PROVE  LET s == Library!mt8168_spi_hopping_clock_switch(FALSE) IN
         Flows(s, R, m) /\ Slows(s) /\ Ends(s, "spi", "26")
<1>0. PICK s : s = Library!mt8168_spi_hopping_clock_switch(FALSE)
  OBVIOUS
<1>1. /\ Len(s) = 5 /\ DOMAIN s = 1..5
      /\ s[1] = Library!Do("spi", "26") /\ s[2] = Library!Do("mux", "off")
      /\ s[3] = Library!Wait(1, "mux", "off") /\ s[4] = Library!Do("pll", "off")
      /\ s[5] = Library!Do("top2", "off")
  BY <1>0 DEF Library!mt8168_spi_hopping_clock_switch
<1>2. s \in Seq(StepsOn(R, Nat))
  <2>1. \A i \in 1..5 : s[i] \in StepsOn(R, Nat)
    <3>1. /\ "spi" \in R /\ "mux" \in R \cap Library!BusClock /\ "pll" \in R
          /\ 0 \in Nat /\ 1 \in Nat /\ Library!End \in Nat /\ "26" \in Values /\ "off" \in Values
      BY DEF Library!BusClock, Values, Library!End
    <3>2. s[1] \in StepsOn(R, Nat) /\ s[2] \in StepsOn(R, Nat) /\ s[3] \in StepsOn(R, Nat)
          /\ s[4] \in StepsOn(R, Nat) /\ s[5] \in StepsOn(R, Nat)
      BY Zenon, <1>1, <3>1, SetsFit
    <3> QED BY <3>2, <1>1
  <2>2. s \in Seq({s[i] : i \in 1..5})
    BY <1>0, <1>1 DEF Library!mt8168_spi_hopping_clock_switch
  <2> QED BY <1>1, <2>1, <2>2
<1>3. InOrder(s, m)
  <2>1. /\ WantsNone(s[1]) /\ WantsNone(s[5]) /\ Leads(s[1], s[2], m) /\ Leads(s[2], s[3], m)
        /\ Leads(s[3], s[4], m)
    BY <1>1 DEF WantsNone, WantsPll, WantsMux, WantsSlow, GivesPll, GivesMux, GivesSlow, Leads,
       Sets, Polls, Library!Set, Library!Do, Library!Wait
  <2>2. LeadsOn(s[1], s[2], m) /\ LeadsOn(s[2], s[3], m)
    BY <1>1 DEF LeadsOn, Library!Set, Library!Do, Library!BusClock
  <2>3. s[1].skip = 0 /\ s[2].skip = 0 /\ s[3].skip = 1 /\ s[4].skip = 0 /\ s[5].skip = 0
    BY <1>1 DEF Library!Set, Library!Do, Library!Wait
  <2>4. Leads(s[4], s[5], m) /\ LeadsOn(s[3], s[5], m) /\ LeadsOn(s[4], s[5], m)
    BY <2>1, NoneLeads
  <2> QED BY <1>1, <2>1, <2>2, <2>3, <2>4 DEF InOrder
<1>4. Slows(s)
  BY <1>1 DEF Slows, Sets, Library!Set, Library!Do
<1>5. /\ Puts(s[1], "spi", "26")
      /\ ~Writes(s[2], "spi") /\ ~Writes(s[3], "spi") /\ ~Writes(s[4], "spi") /\ ~Writes(s[5], "spi")
  BY <1>1 DEF Puts, Writes, Sets, Library!Set, Library!Do, Library!Wait
<1>6. Ends(s, "spi", "26")
  BY <1>1, <1>5 DEF Ends, Leaves
<1> QED BY Zenon, <1>0, <1>2, <1>3, <1>4, <1>6 DEF Flows

LEMMA OwnFastFlows ==
  ASSUME NEW R, Library!BusClock \subseteq R, "rf" \in R, "data" \in R, "top2" \in R, NEW m
  PROVE  LET s == Library!mt8168_spi_hopping_clock_switch(TRUE) IN
         Flows(s, R, m) /\ Ends(s, "spi", "64")
<1>0. PICK s : s = Library!mt8168_spi_hopping_clock_switch(TRUE)
  OBVIOUS
<1>1. /\ Len(s) = 6 /\ DOMAIN s = 1..6
      /\ s[1] = Library!Do("top2", "on") /\ s[2] = Library!Do("pll", "on")
      /\ s[3] = Library!Wait(1, "pll", "on") /\ s[4] = Library!Do("mux", "on")
      /\ s[5] = Library!Wait(1, "mux", "on") /\ s[6] = Library!Do("spi", "64")
  BY <1>0 DEF Library!mt8168_spi_hopping_clock_switch
<1>2. s \in Seq(StepsOn(R, Nat))
  <2>1. \A i \in 1..6 : s[i] \in StepsOn(R, Nat)
    <3>1. /\ "spi" \in R /\ "mux" \in R \cap Library!BusClock /\ "pll" \in R \cap Library!BusClock
          /\ 0 \in Nat /\ 1 \in Nat /\ Library!End \in Nat /\ "64" \in Values /\ "on" \in Values
      BY DEF Library!BusClock, Values, Library!End
    <3>2. s[1] \in StepsOn(R, Nat) /\ s[2] \in StepsOn(R, Nat) /\ s[3] \in StepsOn(R, Nat)
          /\ s[4] \in StepsOn(R, Nat) /\ s[5] \in StepsOn(R, Nat) /\ s[6] \in StepsOn(R, Nat)
      BY Zenon, <1>1, <3>1, SetsFit
    <3> QED BY <3>2, <1>1
  <2>2. s \in Seq({s[i] : i \in 1..6})
    BY <1>0, <1>1 DEF Library!mt8168_spi_hopping_clock_switch
  <2> QED BY <1>1, <2>1, <2>2
<1>3. InOrder(s, m)
  <2>1. /\ WantsNone(s[1]) /\ WantsNone(s[2]) /\ Leads(s[2], s[3], m) /\ Leads(s[3], s[4], m)
        /\ Leads(s[4], s[5], m) /\ Leads(s[5], s[6], m)
    BY <1>1 DEF WantsNone, WantsPll, WantsMux, WantsSlow, GivesPll, GivesMux, GivesSlow, Leads,
       Sets, Polls, Library!Set, Library!Do, Library!Wait
  <2>2. LeadsOn(s[2], s[3], m) /\ LeadsOn(s[3], s[5], m) /\ LeadsOn(s[4], s[5], m)
    BY <1>1 DEF LeadsOn, WantsPll, WantsMux, WantsSlow, Sets, Polls, Library!Set, Library!Do,
       Library!Wait, Library!BusClock
  <2>3. /\ s[1].skip = 0 /\ s[2].skip = 0 /\ s[3].skip = 1 /\ s[4].skip = 0 /\ s[5].skip = 1
        /\ s[6].skip = 0
    BY <1>1 DEF Library!Set, Library!Do, Library!Wait
  <2>4. Leads(s[1], s[2], m) /\ LeadsOn(s[1], s[2], m)
    BY <2>1, NoneLeads
  <2> QED BY <1>1, <2>1, <2>2, <2>3, <2>4 DEF InOrder
<1>4. Ends(s, "spi", "64")
  <2>1. Puts(s[6], "spi", "64")
    BY <1>1 DEF Puts, Sets, Library!Set, Library!Do
  <2> QED BY <1>1, <2>1 DEF Ends, Leaves
<1> QED BY Zenon, <1>0, <1>2, <1>3, <1>4 DEF Flows

\* The bus of the CONNAC 2 generation, which has no multiplexer.
LEMMA C2SlowFlows ==
  ASSUME NEW R, "spi" \in R, "pll" \in R, "rf" \in R, "data" \in R, "osc_en" \in R, NEW m
  PROVE  LET s == Library!c2_SlowBus IN
         Flows(s, R, m) /\ Slows(s) /\ Ends(s, "spi", "26") /\ Ends(s, "pll", "off")
<1> PICK s : s = Library!c2_SlowBus
  OBVIOUS
<1>1. /\ Len(s) = 3 /\ DOMAIN s = 1..3
      /\ s[1] = Library!Do("spi", "26") /\ s[2] = Library!Do("pll", "off")
      /\ s[3] = Library!Do("osc_en", "on")
  BY DEF Library!c2_SlowBus, Library!drv_spi_clock_switch
<1>2. s \in Seq(StepsOn(R, Nat))
  <2>1. /\ s[1] \in StepsOn(R, Nat) /\ s[2] \in StepsOn(R, Nat) /\ s[3] \in StepsOn(R, Nat)
    <3>1. "spi" \in R /\ "pll" \in R /\ 0 \in Nat /\ Library!End \in Nat
          /\ "26" \in Values /\ "off" \in Values /\ "on" \in Values
      BY DEF Library!BusClock, Values, Library!End
    <3> QED BY Zenon, <1>1, <3>1, SetsFit
  <2> QED BY <1>1, <2>1 DEF Library!c2_SlowBus, Library!drv_spi_clock_switch
<1>3. InOrder(s, m)
  <2>1. WantsNone(s[1]) /\ Leads(s[1], s[2], m) /\ WantsNone(s[3])
    BY <1>1 DEF WantsNone, WantsPll, WantsMux, WantsSlow, GivesPll, GivesMux, GivesSlow, Leads,
       Sets, Polls, Library!Set, Library!Do
  <2>2. LeadsOn(s[1], s[2], m)
    BY <1>1 DEF LeadsOn, Library!Set, Library!Do, Library!BusClock
  <2>3. s[1].skip = 0 /\ s[2].skip = 0 /\ s[3].skip = 0
    BY <1>1 DEF Library!Set, Library!Do
  <2>4. \A x : Leads(x, s[3], m) /\ LeadsOn(x, s[3], m)
    BY <2>1, NoneLeads
  <2> QED BY <1>1, <2>1, <2>2, <2>3, <2>4 DEF InOrder
<1>4. Slows(s)
  BY <1>1 DEF Slows, Sets, Library!Set, Library!Do
<1>5. /\ Puts(s[1], "spi", "26") /\ Puts(s[2], "pll", "off")
      /\ ~Writes(s[2], "spi") /\ ~Writes(s[3], "spi") /\ ~Writes(s[3], "pll")
  BY <1>1 DEF Puts, Writes, Sets, Library!Set, Library!Do
<1>6. Ends(s, "spi", "26") /\ Ends(s, "pll", "off")
  BY <1>1, <1>5 DEF Ends, Leaves
<1> QED BY <1>2, <1>3, <1>4, <1>6 DEF Flows

LEMMA C2FastFlows ==
  ASSUME NEW R, "spi" \in R, "pll" \in R, "rf" \in R, "data" \in R, "osc_en" \in R, NEW m, ~m
  PROVE  LET s == Library!c2_do_SPI_hopping IN
         Flows(s, R, m) /\ Ends(s, "spi", "64")
<1> PICK s : s = Library!drv_spi_hopping
  OBVIOUS
<1>1. /\ Len(s) = 5 /\ DOMAIN s = 1..5
      /\ s[1] = Library!Check("own") /\ s[2] = Library!Do("osc_en", "on")
      /\ s[3] = Library!Do("pll", "on") /\ s[4] = Library!Wait(1, "pll", "on")
      /\ s[5] = Library!Do("spi", "64")
  BY DEF Library!drv_spi_hopping
<1>2. s \in Seq(StepsOn(R, Nat))
  <2>1. \A i \in 1..5 : s[i] \in StepsOn(R, Nat)
    <3>1. /\ "spi" \in R /\ "pll" \in R \cap Library!BusClock
          /\ 0 \in Nat /\ 1 \in Nat /\ Library!End \in Nat /\ "64" \in Values /\ "on" \in Values
          /\ "own" \in Reasons /\ "pll" \in R
      BY DEF Library!BusClock, Values, Library!End, Reasons
    <3>2. s[2] \in StepsOn(R, Nat) /\ s[3] \in StepsOn(R, Nat)
          /\ s[4] \in StepsOn(R, Nat) /\ s[5] \in StepsOn(R, Nat)
      BY Zenon, <1>1, <3>1, SetsFit
    <3>3. s[1] \in StepsOn(R, Nat)
      BY Zenon, <1>1, <3>1, ChecksFit
    <3> QED BY <3>2, <3>3, <1>1
  <2>2. s \in Seq({s[i] : i \in 1..5})
    BY <1>1 DEF Library!drv_spi_hopping
  <2> QED BY <1>1, <2>1, <2>2
<1>3. InOrder(s, m)
  <2>1. /\ WantsNone(s[1]) /\ WantsNone(s[2]) /\ WantsNone(s[3])
        /\ Leads(s[3], s[4], m) /\ Leads(s[4], s[5], m)
    BY <1>1 DEF WantsNone, WantsPll, WantsMux, WantsSlow, GivesPll, GivesMux, GivesSlow, Leads,
       Sets, Polls, Library!Set, Library!Do, Library!Wait, Library!Check
  <2>2. LeadsOn(s[3], s[4], m)
    BY <1>1 DEF LeadsOn, Library!Set, Library!Do, Library!BusClock
  <2>3. /\ ~(s[1].skip < Library!End) /\ s[2].skip = 0 /\ s[3].skip = 0 /\ s[4].skip = 1
        /\ s[5].skip = 0
    BY <1>1 DEF Library!Set, Library!Do, Library!Wait, Library!Check, Library!End
  <2>4. /\ Leads(s[1], s[2], m) /\ Leads(s[2], s[3], m) /\ LeadsOn(s[2], s[3], m)
    BY <2>1, NoneLeads
  <2> QED BY <1>1, <2>1, <2>2, <2>3, <2>4 DEF InOrder
<1>4. Ends(s, "spi", "64")
  <2>1. Puts(s[5], "spi", "64")
    BY <1>1 DEF Puts, Sets, Library!Set, Library!Do
  <2> QED BY <1>1, <2>1 DEF Ends, Leaves
<1>5. Flows(s, R, m)
  BY <1>2, <1>3 DEF Flows
<1>6. Flows(Library!Ignoring(s), R, m)
  BY <1>5, IgnoringFlows
<1>7. Ends(Library!Ignoring(s), "spi", "64")
  <2>1. Library!Ignoring(s) \in Seq(StepsOn(R, Nat)) /\ Ignored(Library!Ignoring(s), s)
    BY <1>2, IgnoringIs
  <2> QED BY <1>2, <1>4, <2>1, IgnoredEnds
<1> QED BY <1>6, <1>7 DEF Library!c2_do_SPI_hopping

\* The registers every library writes, and the sequences several of them share.
Common == {"rf", "data", "audio", "int_main", "int_ext", "i2s", "clock"}

LEMMA CalmFit ==
  ASSUME NEW R, Common \subseteq R
  PROVE  LET Q == R \ Library!BusClock
             X == StepsOn(Q, Usual) IN
         /\ "rf" \in Q /\ "data" \in Q
         /\ \A r \in Q, v \in Values : Library!Do(r, v) \in X
         /\ \A r \in Q, v \in Values : Library!Try(r, v) \in X
         /\ \A k \in Usual : Library!ToHost(k) \in X /\ Library!ToDsp(k) \in X
         /\ \A k \in Usual : Library!Lock(k) \in X
         /\ \A what \in Reasons : Library!Check(what) \in X
         /\ Library!Write \in X /\ Library!Save(0) \in X /\ Library!Back \in X
         /\ \A b \in Seq(Q \X Values) : Library!Send(b) \in X
         /\ \A b \in Seq(Q \X Values) : Library!Post(b) \in X
         /\ \A b \in Seq(Q \X Values) : Library!Claim(b) \in X
<1> PICK Q : Q = R \ Library!BusClock
  OBVIOUS
<1>1. "rf" \in Q /\ "data" \in Q /\ Q \ Library!BusClock = Q
  BY DEF Common, Library!BusClock
<1>2. 0 \in Usual /\ Library!End \in Usual
  BY DEF Usual
<1> QED BY Zenon, <1>1, <1>2, SetsFit, ChecksFit, BatchesFit

LEMMA BatchesAre ==
  ASSUME NEW R, Common \subseteq R
  PROVE  LET B == Seq((R \ Library!BusClock) \X Values) IN
         /\ << >> \in B
         /\ <<<<"audio", "down">>>> \in B /\ <<<<"audio", "up">>>> \in B
         /\ <<<<"clock", "on">>, Library!Host>> \in B
         /\ Library!Ints("on") \o <<Library!Dsp>> \in B
         /\ <<Library!Host, Library!Dsp>> \in B
         /\ <<<<"i2s", "off">>, <<"rf", "none">>, <<"clock", "off">>>> \in B
<1> PICK Q : Q = R \ Library!BusClock
  OBVIOUS
<1>1. Common \subseteq Q
  BY DEF Common, Library!BusClock
<1> QED BY <1>1 DEF Common, Values, Library!Host, Library!Dsp, Library!Ints

LEMMA DownloadFits ==
  ASSUME NEW R, Common \subseteq R
  PROVE  Library!DspDownload(Library!RomVersion) \in Seq(StepsOn(R \ Library!BusClock, Usual))
<1> PICK X : X = StepsOn(R \ Library!BusClock, Usual)
  OBVIOUS
<1>1. \A what \in Reasons : Library!Check(what) \in X
  BY CalmFit
<1> QED BY <1>1 DEF Library!DspDownload, Library!RomVersion, Library!fm_download_patch, Reasons

LEMMA MeasureFits ==
  ASSUME NEW R, Common \subseteq R
  PROVE  Library!Measure \in Seq(StepsOn(R \ Library!BusClock, Usual))
<1> PICK X : X = StepsOn(R \ Library!BusClock, Usual)
  OBVIOUS
<1>1. \A k \in Usual : Library!Lock(k) \in X
  BY CalmFit
<1>2. Library!Send(<< >>) \in X
  BY Zenon, CalmFit, BatchesAre
<1> QED BY <1>1, <1>2 DEF Library!Measure, Usual

\* mt6631_Ramp, mt6631_Start and mt6631_TuneTail, which the MT6635 libraries share.
LEMMA RampFits ==
  ASSUME NEW R, Common \subseteq R
  PROVE  LET s == Library!mt6631_Ramp(Library!mt6631_rampdown_reg_op) IN
         /\ s \in Seq(StepsOn(Common, Usual))
         /\ Ends(s, "int_ext", "on") /\ Ends(s, "int_main", "on")
<1>0. PICK s : s = Library!mt6631_Ramp(Library!mt6631_rampdown_reg_op)
  OBVIOUS
<1> PICK X : X = StepsOn(Common, Usual)
  OBVIOUS
<1>1. Common \ Library!BusClock = Common
  BY DEF Common, Library!BusClock
<1>2. Library!Send(Library!mt6631_rampdown_reg_op) \in X
  BY Zenon, <1>1, CalmFit, BatchesAre DEF Library!mt6631_rampdown_reg_op
<1>3. /\ \A r \in Common, v \in Values : Library!Do(r, v) \in X
      /\ \A r \in Common, v \in Values : Library!Try(r, v) \in X
      /\ \A k \in Usual : Library!ToHost(k) \in X /\ Library!ToDsp(k) \in X
      /\ Library!Write \in X
  BY Zenon, <1>1, CalmFit
<1>4. s \in Seq(X)
  BY <1>0, <1>2, <1>3 DEF Common, Values, Usual, Library!mt6631_Ramp
<1>5. /\ Len(s) = 10 /\ s[9] = Library!Try("int_ext", "on") /\ s[10] = Library!Try("int_main", "on")
  BY <1>0 DEF Library!mt6631_Ramp
<1>6. Puts(s[9], "int_ext", "on") /\ ~Writes(s[10], "int_ext") /\ Puts(s[10], "int_main", "on")
  BY <1>5 DEF Puts, Writes, Sets, Library!Try, Library!Set
<1>7. Ends(s, "int_ext", "on") /\ Ends(s, "int_main", "on")
  BY <1>5, <1>6 DEF Ends, Leaves
<1> QED BY Zenon, <1>0, <1>4, <1>7

LEMMA StartFits ==
  ASSUME NEW R, Common \subseteq R
  PROVE  Library!mt6631_Start(<<<<"clock", "on">>, Library!Host>>, Library!DspDownload(Library!RomVersion),
           Library!Ints("on") \o <<Library!Dsp>>, <<Library!Host, Library!Dsp>>)
         \in Seq(StepsOn(R \ Library!BusClock, Usual))
<1> PICK X : X = StepsOn(R \ Library!BusClock, Usual)
  OBVIOUS
<1> PICK x, y, z : /\ x = Library!Send(<<<<"clock", "on">>, Library!Host>>)
                   /\ y = Library!Send(Library!Ints("on") \o <<Library!Dsp>>)
                   /\ z = Library!Send(<<Library!Host, Library!Dsp>>)
  OBVIOUS
<1>1. x \in X /\ y \in X /\ z \in X
  BY Zenon, CalmFit, BatchesAre
<1>2. Library!Check("chip") \in X
  BY Zenon, CalmFit DEF Reasons
<1>3. PICK d : d = Library!DspDownload(Library!RomVersion) /\ d \in Seq(X)
  BY DownloadFits
<1> QED BY <1>1, <1>2, <1>3 DEF Library!mt6631_Start

\* What tuning writes, the interrupts and the bus clock apart.
Tuned == {"rf", "data", "audio"}

LEMMA TailFits ==
  LET s == Library!mt6631_TuneTail(Library!mt6631_tune_reg_op) IN
  s \in Seq(StepsOn(Tuned, Usual)) /\ Ends(s, "rf", "dsp") /\ Ends(s, "audio", "up")
<1> PICK s : s = Library!mt6631_TuneTail(Library!mt6631_tune_reg_op)
  OBVIOUS
<1> PICK X : X = StepsOn(Tuned, Usual)
  OBVIOUS
<1>1. Tuned \ Library!BusClock = Tuned /\ "rf" \in Tuned /\ "data" \in Tuned
      /\ 0 \in Usual /\ Library!End \in Usual
  BY DEF Tuned, Library!BusClock, Usual
<1>2. Library!Post(Library!mt6631_tune_reg_op) \in X
  <2>1. Library!mt6631_tune_reg_op \in Seq((Tuned \ Library!BusClock) \X Values)
    BY <1>1 DEF Library!mt6631_tune_reg_op, Tuned, Values
  <2> QED BY <2>1, BatchesFit
<1>3. /\ \A k \in Usual : Library!ToHost(k) \in X /\ Library!ToDsp(k) \in X
      /\ \A k \in Usual : Library!Lock(k) \in X
  BY Zenon, <1>1, SetsFit, ChecksFit
<1>4. s \in Seq(X)
  BY <1>1, <1>2, <1>3 DEF Library!mt6631_TuneTail
<1>5. /\ Len(s) = 6 /\ s[4] = Library!Post(<<<<"audio", "up">>>>)
      /\ s[5] = Library!ToHost(0) /\ s[6] = Library!ToDsp(Library!End)
  BY DEF Library!mt6631_TuneTail, Library!mt6631_tune_reg_op
<1>6. Puts(s[4], "audio", "up") /\ ~Writes(s[5], "audio") /\ ~Writes(s[6], "audio")
      /\ Puts(s[6], "rf", "dsp")
  BY <1>5 DEF Puts, Writes, Sets, Library!Post, Library!Batch, Library!ToHost, Library!ToDsp, Library!Set
<1>7. Ends(s, "rf", "dsp") /\ Ends(s, "audio", "up")
  BY <1>5, <1>6 DEF Ends, Leaves
<1> QED BY <1>4, <1>7

LEMMA CatCalm ==
  ASSUME NEW R, NEW s, s \in Seq(StepsOn(R, Usual)), NEW Q, R \subseteq Q \ Library!BusClock, NEW m
  PROVE  Flows(s, Q, m)
<1>1. s \in Seq(StepsOn(Q \ Library!BusClock, Usual))
  BY FitsMore
<1> QED BY <1>1, CalmFlows

\* A part that writes none of these registers, behind what does.
LEMMA CatEndsOn ==
  ASSUME NEW R, NEW s, s \in Seq(StepsOn(R, Nat)), NEW Q, NEW t, t \in Seq(StepsOn(Q, Nat)), Q \subseteq R,
         NEW r, r \notin Q, r # "rf", NEW v, Ends(s, r, v)
  PROVE  Ends(s \o t, r, v)
<1>1. t \in Seq(StepsOn(R, Nat))
  BY FitsMore
<1>2. \A i \in DOMAIN t : ~Writes(t[i], r)
  BY WritesInside
<1> QED BY <1>1, <1>2, CatEnds

LEMMA CatEndsLast ==
  ASSUME NEW R, NEW s, s \in Seq(StepsOn(R, Nat)), NEW t, t \in Seq(StepsOn(R, Nat)),
         NEW r, NEW v, Ends(t, r, v)
  PROVE  Ends(s \o t, r, v)
  BY CatEnds

LEMMA FlowsOn ==
  ASSUME NEW R, NEW m, NEW s, Flows(s, R, m), NEW Q, R \subseteq Q
  PROVE  Flows(s, Q, m)
<1>1. StepsOn(R, Nat) \subseteq StepsOn(Q, Nat) /\ Seq(StepsOn(R, Nat)) \subseteq Seq(StepsOn(Q, Nat))
  BY FitsMore
<1> QED BY <1>1 DEF Flows

\* The ramp behind a switch to the slow clock: mt6631_RampDown and its successors.
Ramped(s, R, m) ==
  /\ Flows(s, R, m) /\ Slows(s)
  /\ Ends(s, "spi", "26") /\ Ends(s, "int_ext", "on") /\ Ends(s, "int_main", "on")

LEMMA RampIs ==
  ASSUME NEW R, Common \subseteq R, NEW m, NEW s, Flows(s, R, m), Slows(s), Ends(s, "spi", "26")
  PROVE  Ramped(s \o Library!mt6631_Ramp(Library!mt6631_rampdown_reg_op), R, m)
<1> PICK t : t = Library!mt6631_Ramp(Library!mt6631_rampdown_reg_op)
  OBVIOUS
<1>1. Common \subseteq R \ Library!BusClock
  BY DEF Common, Library!BusClock
<1>2. t \in Seq(StepsOn(Common, Usual)) /\ Ends(t, "int_ext", "on") /\ Ends(t, "int_main", "on")
  BY Zenon, RampFits
<1>3. Flows(t, R, m)
  BY Zenon, <1>1, <1>2, CatCalm
<1>4. s \in Seq(StepsOn(R, Nat)) /\ t \in Seq(StepsOn(R, Nat))
  BY <1>3 DEF Flows
<1>5. t \in Seq(StepsOn(Common, Nat))
  BY <1>2, FitsMore DEF Usual, Library!End, Library!Quiet
<1>6. Joins(s \o t, s, t)
  BY Zenon, <1>4, CatJoins
<1>7. "spi" \notin Common /\ "spi" # "rf"
  BY DEF Common
<1>8. Ends(s \o t, "spi", "26")
  BY Zenon, <1>4, <1>5, <1>7, CatEndsOn
<1>9. Flows(s \o t, R, m) /\ Slows(s \o t)
  BY Zenon, <1>3, <1>6, CatFlows, CatSlows
<1>10. Ends(s \o t, "int_ext", "on") /\ Ends(s \o t, "int_main", "on")
  BY Zenon, <1>2, <1>4, CatEndsLast
<1> QED BY Zenon, <1>8, <1>9, <1>10 DEF Ramped

\* A tune behind the ramp.
Retuned(s, R, m, h) ==
  /\ Flows(s, R, m) /\ Slows(s)
  /\ Ends(s, "rf", "dsp") /\ Ends(s, "audio", "up")
  /\ Ends(s, "int_ext", "on") /\ Ends(s, "int_main", "on")
  /\ h => Ends(s, "spi", "64")
  /\ ~h => Ends(s, "spi", "26")

LEMMA TuneIs ==
  ASSUME NEW R, NEW Q, Tuned \subseteq Q, Q \subseteq R, "int_ext" \notin Q, "int_main" \notin Q,
         NEW m, NEW ramp, Ramped(ramp, R, m), NEW fast, Flows(fast, Q, m), Ends(fast, "spi", "64"),
         NEW start, start \in Seq(StepsOn(Tuned, Usual)), NEW h \in BOOLEAN
  PROVE  Retuned(ramp \o (start \o Library!When(h, fast)
                         \o Library!mt6631_TuneTail(Library!mt6631_tune_reg_op)), R, m, h)
<1> PICK X : X = StepsOn(Q, Nat)
  OBVIOUS
<1>1. PICK t : /\ t = Library!mt6631_TuneTail(Library!mt6631_tune_reg_op)
               /\ t \in Seq(StepsOn(Tuned, Usual)) /\ Ends(t, "rf", "dsp") /\ Ends(t, "audio", "up")
  BY TailFits
<1>2. Tuned \subseteq Q \ Library!BusClock /\ "spi" \notin Tuned /\ Usual \subseteq Nat
      /\ "spi" # "rf" /\ "int_ext" # "rf" /\ "int_main" # "rf" /\ Tuned \subseteq R
  BY DEF Tuned, Library!BusClock, Usual, Library!End, Library!Quiet
<1>3. Flows(start, Q, m) /\ Flows(t, Q, m)
  BY Zenon, <1>1, <1>2, CatCalm
<1>4. PICK w : w = Library!When(h, fast)
  OBVIOUS
<1>5. (h => w = fast) /\ (~h => w = << >>)
  BY Zenon, <1>4 DEF Library!When
<1>6. << >> \in Seq(StepsOn(Tuned, Usual))
  OBVIOUS
<1>7. Flows(w, Q, m)
  BY Zenon, <1>2, <1>5, <1>6, CatCalm
<1>8. Flows(start \o w, Q, m) /\ Flows(start \o w \o t, Q, m)
  BY Zenon, <1>3, <1>7, CatFlows
<1>9. Flows(ramp, R, m) /\ Slows(ramp) /\ Ends(ramp, "spi", "26")
      /\ Ends(ramp, "int_ext", "on") /\ Ends(ramp, "int_main", "on")
  BY Zenon DEF Ramped
<1> PICK s : s = start \o w \o t
  OBVIOUS
<1>10. Flows(s, R, m)
  BY Zenon, <1>8, FlowsOn
<1>11. /\ ramp \in Seq(StepsOn(R, Nat)) /\ s \in Seq(StepsOn(R, Nat)) /\ s \in Seq(X)
       /\ start \in Seq(X) /\ w \in Seq(X) /\ t \in Seq(X) /\ start \o w \in Seq(X)
  BY <1>3, <1>7, <1>8, <1>9, <1>10 DEF Flows
<1>12. Flows(ramp \o s, R, m) /\ Slows(ramp \o s)
  <2>1. Joins(ramp \o s, ramp, s)
    BY Zenon, <1>11, CatJoins
  <2> QED BY Zenon, <1>9, <1>10, <2>1, CatFlows, CatSlows
<1>13. Ends(ramp \o s, "rf", "dsp") /\ Ends(ramp \o s, "audio", "up")
  <2>1. Ends(s, "rf", "dsp") /\ Ends(s, "audio", "up")
    BY Zenon, <1>1, <1>11, CatEndsLast
  <2> QED BY Zenon, <1>11, <2>1, CatEndsLast
<1>14. Ends(ramp \o s, "int_ext", "on") /\ Ends(ramp \o s, "int_main", "on")
  BY Zenon, <1>2, <1>9, <1>11, CatEndsOn
<1>15. ASSUME h PROVE Ends(ramp \o s, "spi", "64")
  <2>1. Ends(start \o w, "spi", "64")
    BY Zenon, <1>5, <1>11, <1>15, CatEndsLast
  <2>2. t \in Seq(StepsOn(Tuned, Nat))
    BY <1>1, <1>2, FitsMore
  <2>3. Ends(s, "spi", "64")
    BY Zenon, <1>2, <1>11, <2>1, <2>2, CatEndsOn
  <2> QED BY Zenon, <1>11, <2>3, CatEndsLast
<1>16. ASSUME ~h PROVE Ends(ramp \o s, "spi", "26")
  <2>1. /\ start \in Seq(StepsOn(Tuned, Nat)) /\ w \in Seq(StepsOn(Tuned, Nat))
        /\ t \in Seq(StepsOn(Tuned, Nat))
    <3>1. Seq(StepsOn(Tuned, Usual)) \subseteq Seq(StepsOn(Tuned, Nat))
      BY <1>2, FitsMore
    <3> QED BY Zenon, <1>1, <1>5, <1>6, <1>16, <3>1
  <2>2. s \in Seq(StepsOn(Tuned, Nat))
    BY <2>1
  <2> QED BY Zenon, <1>2, <1>9, <1>11, <2>2, CatEndsOn
<1> QED BY Zenon, <1>1, <1>4, <1>12, <1>13, <1>14, <1>15, <1>16 DEF Retuned

\* A scan's preparation and its end, and one of its frequencies.
LEMMA ScanIs ==
  ASSUME NEW R, NEW m, NEW ramp, Ramped(ramp, R, m),
         NEW t, t \in Seq(StepsOn(R \ Library!BusClock, Usual))
  PROVE  LET s == Library!Ignoring(ramp) \o t IN Flows(s, R, m) /\ Slows(s)
<1>1. Flows(ramp, R, m) /\ Slows(ramp) /\ ramp \in Seq(StepsOn(R, Nat))
  BY DEF Ramped, Flows
<1> PICK s : s = Library!Ignoring(ramp)
  OBVIOUS
<1>2. Ignored(s, ramp)
  BY <1>1, IgnoringIs
<1>3. Flows(s, R, m) /\ Slows(s) /\ Flows(t, R, m)
  BY Zenon, <1>1, <1>2, IgnoringFlows, IgnoredSlows, CalmFlows
<1>4. s \in Seq(StepsOn(R, Nat)) /\ t \in Seq(StepsOn(R, Nat))
  BY <1>3 DEF Flows
<1>5. Joins(s \o t, s, t)
  BY Zenon, <1>4, CatJoins
<1> QED BY Zenon, <1>3, <1>5, CatFlows, CatSlows

LEMMA SoftIs ==
  ASSUME NEW R, Common \subseteq R, NEW m, NEW fast, Flows(fast, R, m), NEW h \in BOOLEAN
  PROVE  Flows(Library!When(h, fast) \o Library!Measure, R, m)
<1>1. Flows(Library!Measure, R, m)
  BY Zenon, MeasureFits, CalmFlows
<1>2. << >> \in Seq(StepsOn(R \ Library!BusClock, Usual))
  OBVIOUS
<1>3. Flows(<< >>, R, m)
  BY Zenon, <1>2, CalmFlows
<1>4. Flows(Library!When(h, fast), R, m)
  BY Zenon, <1>3 DEF Library!When
<1> QED BY Zenon, <1>1, <1>4, CatFlows

-----------------------------------------------------------------------------
(* The MT6631. *)

\* Every register that an MT6631 library writes.
Own31(c) ==
  Common \cup Library!BusClock \cup {"cspi", "adie", "bgldo", "pad", "osc", "trigger", "memory"}
  \cup (IF c.hwid = Library!Connac_1_5 THEN {} ELSE {"top2"})
  \cup (IF c.hwid = Library!Legacy THEN {} ELSE {"crystal"})
  \cup (IF c.hwid = Library!Connac_1_0 THEN {} ELSE {"crystal_old"})

IsMt6631(c) ==
  /\ c.hwid \in {Library!Legacy, Library!Connac_1_0, Library!Connac_1_5} /\ c.own \in BOOLEAN
  /\ c.own => c.hwid = Library!Legacy

LEMMA Mt6631Regs ==
  ASSUME NEW c, IsMt6631(c)
  PROVE  /\ Common \subseteq Own31(c) /\ Library!BusClock \subseteq Own31(c) /\ Tuned \subseteq Own31(c)
         /\ "rf" \in Own31(c) /\ "data" \in Own31(c) /\ (c.hwid # Library!Connac_1_5 => "top2" \in Own31(c))
         /\ Common \subseteq Own31(c) \ Library!BusClock
         /\ Tuned \subseteq Own31(c) \ Library!BusClock
         /\ {"cspi", "adie", "bgldo", "pad", "osc", "trigger", "memory"} \subseteq Own31(c) \ Library!BusClock
         /\ Own31(c) \ Library!BusClock \subseteq Own31(c)
  BY DEF Own31, Common, Tuned, Library!BusClock

\* What a tune of the MT6631 writes behind the ramp.
Tuned31(c) ==
  Tuned \cup Library!BusClock \cup (IF c.hwid = Library!Connac_1_5 THEN {} ELSE {"top2"})

LEMMA Mt6631Tuned ==
  ASSUME NEW c, IsMt6631(c)
  PROVE  /\ Library!BusClock \subseteq Tuned31(c) /\ Tuned \subseteq Tuned31(c) /\ Tuned31(c) \subseteq Own31(c)
         /\ "rf" \in Tuned31(c) /\ "data" \in Tuned31(c)
         /\ c.hwid # Library!Connac_1_5 => "top2" \in Tuned31(c)
         /\ \A r \in {"int_ext", "int_main", "osc", "trigger", "memory", "crystal", "crystal_old"} :
              r \notin Tuned31(c)
  BY DEF Tuned31, Own31, Tuned, Common, Library!BusClock

LEMMA Mt6631Slow ==
  ASSUME NEW c, IsMt6631(c), NEW m
  PROVE  /\ LET s == Library!mt6631_do_SPI_hopping_26M(c) IN
            /\ Flows(s, Tuned31(c), m) /\ Slows(s)
            /\ Ends(s, "spi", "26") /\ Ends(s, "mux", "off") /\ Ends(s, "pll", "off")
            /\ c.hwid # Library!Connac_1_5 => Ends(s, "top2", "off")
         /\ LET s == Library!SlowBus(c) IN
            Flows(s, Tuned31(c), m) /\ Slows(s) /\ Ends(s, "spi", "26")
<1> PICK R : R = Tuned31(c)
  OBVIOUS
<1>1. /\ Library!BusClock \subseteq R /\ "rf" \in R /\ "data" \in R
      /\ (c.hwid # Library!Connac_1_5 => "top2" \in R)
  BY Mt6631Tuned
<1> PICK s, t, u : /\ s = Library!fm_drv_switch_clk_26m \o <<Library!Do("pll", "off")>>
                   /\ t = Library!When(c.hwid <= Library!Connac_1_2, <<Library!Do("top2", "off")>>)
                   /\ u = Library!mt6631_do_SPI_hopping_26M(c)
  OBVIOUS
<1>2. /\ Flows(s, R, m) /\ Slows(s)
      /\ Ends(s, "spi", "26") /\ Ends(s, "mux", "off") /\ Ends(s, "pll", "off")
  BY <1>1, SlowFlows
<1>3. u = s \o t
  BY DEF Library!mt6631_do_SPI_hopping_26M
<1>4. /\ c.hwid = Library!Connac_1_5 => t = << >>
      /\ c.hwid # Library!Connac_1_5 => t = <<Library!Do("top2", "off")>>
  BY DEF IsMt6631, Library!When, Library!Legacy, Library!Connac_1_0, Library!Connac_1_2, Library!Connac_1_5
<1>5. t \in Seq(StepsOn({"top2"}, Usual))
  <2>1. Library!Do("top2", "off") \in StepsOn({"top2"}, Usual)
    BY DEF Library!Do, Library!Set, StepsOn, Usual, Values
  <2>2. << >> \in Seq(StepsOn({"top2"}, Usual))
        /\ <<Library!Do("top2", "off")>> \in Seq(StepsOn({"top2"}, Usual))
    BY <2>1
  <2> QED BY Zenon, <1>4, <2>2
<1>6. t \in Seq(StepsOn({"top2"}, Nat))
  BY <1>5, FitsMore DEF Usual, Library!End, Library!Quiet
<1>7. t \in Seq(StepsOn(R \ Library!BusClock, Usual))
  <2>1. CASE c.hwid = Library!Connac_1_5
    <3>1. << >> \in Seq(StepsOn(R \ Library!BusClock, Usual))
      OBVIOUS
    <3> QED BY Zenon, <1>4, <2>1, <3>1
  <2>2. CASE c.hwid # Library!Connac_1_5
    <3>1. {"top2"} \subseteq R \ Library!BusClock
      BY <1>1, <2>2 DEF Library!BusClock
    <3> QED BY <1>5, <3>1, FitsMore
  <2> QED BY <2>1, <2>2
<1>8. Flows(t, R, m)
  BY <1>7, CalmFlows
<1>9. s \in Seq(StepsOn(R, Nat)) /\ t \in Seq(StepsOn(R, Nat))
  BY <1>2, <1>8 DEF Flows
<1>10. Flows(u, R, m) /\ Slows(u)
  <2>1. Joins(s \o t, s, t)
    BY Zenon, <1>9, CatJoins
  <2> QED BY Zenon, <1>2, <1>3, <1>8, <2>1, CatFlows, CatSlows
<1>11. Ends(u, "spi", "26") /\ Ends(u, "mux", "off") /\ Ends(u, "pll", "off")
  <2>1. \A r \in Library!BusClock : \A i \in DOMAIN t : ~Writes(t[i], r)
    <3>1. \A r \in Library!BusClock : r \notin {"top2"} /\ r # "rf"
      BY DEF Library!BusClock
    <3> QED BY Zenon, <1>6, <3>1, WritesInside
  <2>2. "spi" \in Library!BusClock /\ "mux" \in Library!BusClock /\ "pll" \in Library!BusClock
    BY DEF Library!BusClock
  <2> QED BY Zenon, <1>2, <1>3, <1>9, <2>1, <2>2, CatEnds
<1>12. ASSUME c.hwid # Library!Connac_1_5 PROVE Ends(u, "top2", "off")
  <2>1. Len(t) = 1 /\ t[1] = Library!Do("top2", "off")
    BY <1>4, <1>12
  <2>2. Puts(t[1], "top2", "off")
    BY <2>1 DEF Puts, Sets, Library!Do, Library!Set
  <2>3. Ends(t, "top2", "off")
    BY <2>1, <2>2 DEF Ends, Leaves
  <2> QED BY Zenon, <1>3, <1>9, <2>3, CatEnds
<1>13. c.own => Flows(Library!SlowBus(c), R, m) /\ Slows(Library!SlowBus(c)) /\ Ends(Library!SlowBus(c), "spi", "26")
  <2>1. SUFFICES ASSUME c.own
                 PROVE  LET w == Library!mt8168_spi_hopping_clock_switch(FALSE) IN
                        Flows(w, R, m) /\ Slows(w) /\ Ends(w, "spi", "26")
    BY Zenon DEF Library!SlowBus
  <2>2. "top2" \in R
    BY <1>1, <2>1 DEF IsMt6631, Library!Legacy, Library!Connac_1_5
  <2> QED BY Zenon, <1>1, <2>2, OwnSlowFlows
<1>14. ~c.own => Library!SlowBus(c) = u
  BY Zenon DEF Library!SlowBus
<1> QED BY Zenon, <1>10, <1>11, <1>12, <1>13, <1>14 DEF IsMt6631

LEMMA Mt6631Fast ==
  ASSUME NEW c, IsMt6631(c), NEW m
  PROVE  Flows(Library!FastBus(c), Tuned31(c), m) /\ Ends(Library!FastBus(c), "spi", "64")
<1> PICK R : R = Tuned31(c)
  OBVIOUS
<1>1. /\ Library!BusClock \subseteq R /\ "rf" \in R /\ "data" \in R
      /\ (c.hwid # Library!Connac_1_5 => "top2" \in R)
  BY Mt6631Tuned
<1> PICK a, b, t : /\ a = <<Library!Do("pll", "on"), Library!Wait(3, "pll", "on")>>
                   /\ b = Library!fm_drv_switch_clk_64m
                   /\ t = Library!When(c.hwid <= Library!Connac_1_2, <<Library!Do("top2", "on")>>)
  OBVIOUS
<1>2. Flows(a \o b, R, m) /\ Ends(a \o b, "spi", "64")
  BY Zenon, <1>1, FastFlows
<1>3. /\ c.hwid = Library!Connac_1_5 => t = << >>
      /\ c.hwid # Library!Connac_1_5 => t = <<Library!Do("top2", "on")>>
  BY DEF IsMt6631, Library!When, Library!Legacy, Library!Connac_1_0, Library!Connac_1_2, Library!Connac_1_5
<1>4. t \in Seq(StepsOn(R \ Library!BusClock, Usual))
  <2>1. CASE c.hwid = Library!Connac_1_5
    <3>1. << >> \in Seq(StepsOn(R \ Library!BusClock, Usual))
      OBVIOUS
    <3> QED BY Zenon, <1>3, <2>1, <3>1
  <2>2. CASE c.hwid # Library!Connac_1_5
    <3>1. Library!Do("top2", "on") \in StepsOn(R \ Library!BusClock, Usual)
      <4>1. "top2" \in R \ Library!BusClock
        BY <1>1, <2>2 DEF Library!BusClock
      <4> QED BY <4>1 DEF Library!Do, Library!Set, StepsOn, Usual, Values
    <3>2. <<Library!Do("top2", "on")>> \in Seq(StepsOn(R \ Library!BusClock, Usual))
      BY <3>1
    <3> QED BY Zenon, <1>3, <2>2, <3>2
  <2> QED BY <2>1, <2>2
<1>5. Flows(t, R, m)
  BY <1>4, CalmFlows
<1>6. Library!mt6631_do_SPI_hopping_64M(c) = t \o (a \o b)
  <2> PICK T : T = {Library!Do("pll", "on"), Library!Wait(3, "pll", "on"), Library!Set(2, "mux", "on"),
                    Library!Wait(1, "mux", "on"), Library!Do("spi", "64"), Library!Do("top2", "on")}
    OBVIOUS
  <2>1. a \in Seq(T) /\ b \in Seq(T)
    BY DEF Library!fm_drv_switch_clk_64m
  <2>2. << >> \in Seq(T) /\ <<Library!Do("top2", "on")>> \in Seq(T)
    OBVIOUS
  <2>3. t \in Seq(T)
    BY Zenon, <1>3, <2>2
  <2>4. (t \o a) \o b = t \o (a \o b)
    BY <2>1, <2>3
  <2> QED BY Zenon, <2>4 DEF Library!mt6631_do_SPI_hopping_64M
<1>7. Flows(t \o (a \o b), R, m)
  BY Zenon, <1>2, <1>5, CatFlows
<1>8. Ends(t \o (a \o b), "spi", "64")
  BY Zenon, <1>2, <1>5, CatEnds DEF Flows
<1>9. CASE c.own
  <2>1. "top2" \in R
    BY <1>1, <1>9 DEF IsMt6631, Library!Legacy, Library!Connac_1_5
  <2>2. Library!FastBus(c) = Library!mt8168_spi_hopping_clock_switch(TRUE)
    BY Zenon, <1>9 DEF Library!FastBus
  <2> QED BY Zenon, <1>1, <2>1, <2>2, OwnFastFlows
<1>10. CASE ~c.own
  <2>1. Library!FastBus(c) = t \o (a \o b)
    BY Zenon, <1>6, <1>10 DEF Library!FastBus
  <2> QED BY Zenon, <1>7, <1>8, <2>1
<1> QED BY Zenon, <1>9, <1>10 DEF IsMt6631

LEMMA Mt6631Ramp ==
  ASSUME NEW c, IsMt6631(c), NEW m
  PROVE  Ramped(Library!mt6631_RampDown(c), Own31(c), m)
<1>1. Flows(Library!SlowBus(c), Own31(c), m)
  BY Zenon, Mt6631Slow, Mt6631Tuned, FlowsOn
<1>2. Slows(Library!SlowBus(c)) /\ Ends(Library!SlowBus(c), "spi", "26")
  BY Zenon, Mt6631Slow
<1> QED BY Zenon, <1>1, <1>2, Mt6631Regs, RampIs DEF Library!mt6631_RampDown

\* The steps before a tune: two hand-overs of the RF registers.
LEMMA TuneStart ==
  LET X == StepsOn(Tuned, Usual) IN
  /\ \A k \in Usual : Library!ToHost(k) \in X /\ Library!ToDsp(k) \in X
  /\ Library!Write \in X /\ Library!Claim(<<Library!Host, Library!Dsp>>) \in X
<1>1. Tuned \ Library!BusClock = Tuned /\ "rf" \in Tuned /\ "data" \in Tuned
      /\ 0 \in Usual /\ Library!End \in Usual
  BY DEF Tuned, Library!BusClock, Usual
<1>2. <<Library!Host, Library!Dsp>> \in Seq((Tuned \ Library!BusClock) \X Values)
  BY <1>1 DEF Library!Host, Library!Dsp, Values
<1> QED BY Zenon, <1>1, <1>2, SetsFit, BatchesFit

LEMMA Mt6631Tune ==
  ASSUME NEW c, IsMt6631(c), NEW m, NEW h \in BOOLEAN
  PROVE  Retuned(Library!mt6631_RampDown(c) \o Library!mt6631_SetFreq(c, h), Own31(c), m, h)
<1> PICK start : start = <<Library!ToHost(0), Library!ToDsp(0), Library!Write, Library!Write>>
  OBVIOUS
<1>1. start \in Seq(StepsOn(Tuned, Usual))
  <2> PICK X : X = StepsOn(Tuned, Usual)
    OBVIOUS
  <2>1. Library!ToHost(0) \in X /\ Library!ToDsp(0) \in X /\ Library!Write \in X
    BY TuneStart DEF Usual
  <2> QED BY <2>1
<1>2. "int_ext" \notin Tuned31(c) /\ "int_main" \notin Tuned31(c)
  BY Mt6631Tuned
<1>3. Library!mt6631_SetFreq(c, h) =
        start \o Library!When(h, Library!FastBus(c)) \o Library!mt6631_TuneTail(Library!mt6631_tune_reg_op)
  BY Zenon DEF Library!mt6631_SetFreq
<1> QED BY Zenon, <1>1, <1>2, <1>3, Mt6631Ramp, Mt6631Fast, Mt6631Tuned, TuneIs

LEMMA Mt6631Scan ==
  ASSUME NEW c, IsMt6631(c), NEW m
  PROVE  /\ Flows(Library!mt6631_pre_search(c), Own31(c), m) /\ Slows(Library!mt6631_pre_search(c))
         /\ Flows(Library!mt6631_restore_search(c), Own31(c), m) /\ Slows(Library!mt6631_restore_search(c))
         /\ \A h \in BOOLEAN : Flows(Library!mt6631_soft_mute_tune(c, h), Own31(c), m)
<1> PICK R : R = Own31(c)
  OBVIOUS
<1>1. PICK X : X = StepsOn(R \ Library!BusClock, Usual) /\ \A r \in R \ Library!BusClock, v \in Values : Library!Do(r, v) \in X
  BY CalmFit, Mt6631Regs
<1>2. "pad" \in R \ Library!BusClock /\ "i2s" \in R \ Library!BusClock /\ "on" \in Values /\ "off" \in Values
  BY Mt6631Regs DEF Common, Values
<1>3. /\ <<Library!Do("pad", "off"), Library!Do("i2s", "off")>> \in Seq(X)
      /\ <<Library!Do("i2s", "on"), Library!Do("pad", "on")>> \in Seq(X)
  BY <1>1, <1>2
<1>4. Ramped(Library!mt6631_RampDown(c), R, m)
  BY Mt6631Ramp
<1>5. /\ Flows(Library!mt6631_pre_search(c), R, m) /\ Slows(Library!mt6631_pre_search(c))
      /\ Flows(Library!mt6631_restore_search(c), R, m) /\ Slows(Library!mt6631_restore_search(c))
  BY Zenon, <1>1, <1>3, <1>4, ScanIs DEF Library!mt6631_pre_search, Library!mt6631_restore_search
<1>6. Flows(Library!FastBus(c), R, m)
  BY Zenon, Mt6631Fast, Mt6631Tuned, FlowsOn
<1>7. ASSUME NEW h \in BOOLEAN PROVE Flows(Library!mt6631_soft_mute_tune(c, h), R, m)
  BY Zenon, <1>6, Mt6631Regs, SoftIs DEF Library!mt6631_soft_mute_tune
<1> QED BY Zenon, <1>5, <1>7

LEMMA HandOversFit ==
  ASSUME NEW R, Common \subseteq R
  PROVE  LET X == StepsOn(R \ Library!BusClock, Usual) IN
         /\ <<Library!ToHost(0), Library!ToDsp(0)>> \in Seq(X)
         /\ <<Library!Save(0), Library!Back>> \in Seq(X)
<1> PICK X : X = StepsOn(R \ Library!BusClock, Usual)
  OBVIOUS
<1>1. Library!ToHost(0) \in X /\ Library!ToDsp(0) \in X /\ Library!Save(0) \in X /\ Library!Back \in X
  BY Zenon, CalmFit DEF Usual
<1> QED BY <1>1

LEMMA Mt6631Up ==
  ASSUME NEW c, IsMt6631(c)
  PROVE  LET X == StepsOn(Own31(c) \ Library!BusClock, Usual) IN
         /\ Library!mt6631_PowerUp(c) \in Seq(X)
         /\ Library!mt6631_SetMonoStereo(c) \in Seq(X)
         /\ Library!mt6631_GetCapArray(c) \in Seq(X)
<1> PICK R : R = Own31(c) \ Library!BusClock
  OBVIOUS
<1> PICK X : X = StepsOn(R, Usual)
  OBVIOUS
<1>1. Library!mt6631_SetMonoStereo(c) \in Seq(X) /\ Library!mt6631_GetCapArray(c) \in Seq(X)
  BY Zenon, Mt6631Regs, HandOversFit DEF Library!mt6631_SetMonoStereo, Library!mt6631_GetCapArray
<1>2. /\ \A r \in R, v \in Values : Library!Do(r, v) \in X
      /\ \A r \in R, v \in Values : Library!Try(r, v) \in X
  BY CalmFit, Mt6631Regs
<1>3. /\ "cspi" \in R /\ "adie" \in R /\ "bgldo" \in R /\ "osc" \in R /\ "trigger" \in R /\ "memory" \in R
      /\ "i2s" \in R /\ "on" \in Values
      /\ c.hwid # Library!Legacy => "crystal" \in R
      /\ c.hwid = Library!Legacy => "crystal_old" \in R
  BY Mt6631Regs DEF Own31, Common, Library!BusClock, Values, Library!Legacy, Library!Connac_1_0,
     Library!Connac_1_5
<1>4. PICK b :
        b = (CASE c.hwid = Library!Connac_1_5 -> <<Library!Try("adie", "on"), Library!Do("crystal", "on")>>
               [] c.hwid \in {Library!Connac_1_0, Library!Connac_1_2}
                    -> <<Library!Do("adie", "on"), Library!Do("crystal", "on")>>
               [] c.hwid = Library!Legacy -> <<Library!Do("adie", "on"), Library!Do("crystal_old", "on")>>)
  OBVIOUS
<1> DEFINE T(r) == Library!Try(r, "on")
           D(r) == Library!Do(r, "on")
<1>10. /\ T("cspi") \in X /\ T("bgldo") \in X /\ D("adie") \in X
       /\ D("i2s") \in X /\ D("osc") \in X /\ D("trigger") \in X /\ D("memory") \in X
       /\ c.hwid = Library!Legacy => D("crystal_old") \in X
  BY <1>2, <1>3
<1>5. PICK a, d, f :
        /\ a = <<Library!Try("cspi", "on")>> /\ d = <<Library!Try("bgldo", "on")>>
        /\ f = <<Library!Do("i2s", "on"), Library!Do("osc", "on"), Library!Do("trigger", "on"),
                 Library!Do("memory", "on")>>
  OBVIOUS
<1>11. a \in Seq(X) /\ d \in Seq(X) /\ f \in Seq(X)
  BY <1>5, <1>10
<1>6. b \in Seq(X)
  <2>1. CASE c.hwid = Library!Legacy
    <3>1. b = <<Library!Do("adie", "on"), Library!Do("crystal_old", "on")>>
      BY <1>4, <2>1 DEF Library!Legacy, Library!Connac_1_0, Library!Connac_1_2, Library!Connac_1_5
    <3> QED BY <1>10, <2>1, <3>1
  <2>2. CASE c.hwid = Library!Connac_1_0
    <3>1. b = <<Library!Do("adie", "on"), Library!Do("crystal", "on")>>
      BY <1>4, <2>2 DEF Library!Legacy, Library!Connac_1_0, Library!Connac_1_2, Library!Connac_1_5
    <3>2. c.hwid # Library!Legacy
      BY <2>2 DEF Library!Legacy, Library!Connac_1_0
    <3> QED BY <1>2, <1>3, <3>1, <3>2
  <2>3. CASE c.hwid = Library!Connac_1_5
    <3>1. b = <<Library!Try("adie", "on"), Library!Do("crystal", "on")>>
      BY <1>4, <2>3 DEF Library!Legacy, Library!Connac_1_0, Library!Connac_1_2, Library!Connac_1_5
    <3>2. c.hwid # Library!Legacy
      BY <2>3 DEF Library!Legacy, Library!Connac_1_5
    <3> QED BY <1>2, <1>3, <3>1, <3>2
  <2> QED BY <2>1, <2>2, <2>3 DEF IsMt6631
<1>7. PICK e :
        /\ e = Library!mt6631_Start(Library!mt6631_pwrup_clock_on_reg_op, Library!mt6631_pwrup_DSP_download,
                 Library!mt6631_pwrup_digital_init_reg_op, Library!mt6631_pwrup_fine_tune_reg_op)
        /\ e \in Seq(X)
  BY Zenon, Mt6631Regs, StartFits DEF Library!mt6631_pwrup_clock_on_reg_op,
     Library!mt6631_pwrup_DSP_download, Library!mt6631_pwrup_digital_init_reg_op,
     Library!mt6631_pwrup_fine_tune_reg_op
<1>8. Library!mt6631_PowerUp(c) = a \o b \o d \o e \o f
  BY Zenon, <1>4, <1>5, <1>7 DEF Library!mt6631_PowerUp
<1>9. a \o b \o d \o e \o f \in Seq(X)
  BY <1>11, <1>6, <1>7
<1> QED BY Zenon, <1>1, <1>8, <1>9

\* A power-down: it gives back the registers in Z.
Home(r) == IF r = "spi" THEN "26" ELSE "off"
Returned(s, R, m, Z) == Flows(s, R, m) /\ Slows(s) /\ \A r \in Z : Ends(s, r, Home(r))

LEMMA CatReturned ==
  ASSUME NEW R, NEW m, NEW s, Flows(s, R, m), NEW t, Flows(t, R, m), Slows(s) \/ Slows(t),
         NEW P, t \in Seq(StepsOn(P, Nat)), P \subseteq R,
         NEW Z, \A r \in Z : Ends(t, r, Home(r)) \/ (Ends(s, r, Home(r)) /\ r \notin P /\ r # "rf")
  PROVE  Returned(s \o t, R, m, Z)
<1>1. s \in Seq(StepsOn(R, Nat)) /\ t \in Seq(StepsOn(R, Nat))
  BY DEF Flows
<1>2. Joins(s \o t, s, t)
  BY Zenon, <1>1, CatJoins
<1>3. Flows(s \o t, R, m) /\ Slows(s \o t)
  BY Zenon, <1>2, CatFlows, CatSlows
<1>4. ASSUME NEW r \in Z PROVE Ends(s \o t, r, Home(r))
  BY Zenon, <1>1, CatEndsLast, CatEndsOn
<1> QED BY Zenon, <1>3, <1>4 DEF Returned

\* The oscillator, the trigger and the memory of the radio's subsystem.
Stages == {"osc", "trigger", "memory"}

LEMMA StagesOff ==
  LET s == <<Library!Try("osc", "off"), Library!Try("trigger", "off"), Library!Try("memory", "off")>> IN
  s \in Seq(StepsOn(Stages, Usual)) /\ \A r \in Stages : Ends(s, r, Home(r))
<1> PICK s : s = <<Library!Try("osc", "off"), Library!Try("trigger", "off"), Library!Try("memory", "off")>>
  OBVIOUS
<1>1. \A r \in Stages : Library!Try(r, "off") \in StepsOn(Stages, Usual)
  BY DEF Library!Try, Library!Set, StepsOn, Usual, Values
<1>2. s \in Seq(StepsOn(Stages, Usual))
  BY <1>1 DEF Stages
<1>3. /\ Len(s) = 3 /\ s[1] = Library!Try("osc", "off") /\ s[2] = Library!Try("trigger", "off")
      /\ s[3] = Library!Try("memory", "off")
  OBVIOUS
<1>4. /\ Puts(s[1], "osc", "off") /\ Puts(s[2], "trigger", "off") /\ Puts(s[3], "memory", "off")
      /\ ~Writes(s[2], "osc") /\ ~Writes(s[3], "osc") /\ ~Writes(s[3], "trigger")
  BY <1>3 DEF Puts, Writes, Sets, Library!Try, Library!Set
<1>5. Ends(s, "osc", "off") /\ Ends(s, "trigger", "off") /\ Ends(s, "memory", "off")
  BY <1>3, <1>4 DEF Ends, Leaves
<1> QED BY <1>2, <1>5 DEF Stages, Home

\* A sequence of one step that sets a register, for good.
LEMMA OneEnds ==
  ASSUME NEW R, NEW r \in R, NEW v \in Values
  PROVE  /\ <<Library!Do(r, v)>> \in Seq(StepsOn(R, Usual)) /\ Ends(<<Library!Do(r, v)>>, r, v)
         /\ <<Library!Try(r, v)>> \in Seq(StepsOn(R, Usual)) /\ Ends(<<Library!Try(r, v)>>, r, v)
<1> PICK x, y : x = Library!Do(r, v) /\ y = Library!Try(r, v)
  OBVIOUS
<1>1. x \in StepsOn(R, Usual) /\ y \in StepsOn(R, Usual)
  BY DEF Library!Do, Library!Try, Library!Set, StepsOn, Usual
<1>2. Puts(x, r, v) /\ Puts(y, r, v)
  BY DEF Puts, Sets, Library!Do, Library!Try, Library!Set
<1>3. Ends(<<x>>, r, v) /\ Ends(<<y>>, r, v)
  BY <1>2 DEF Ends, Leaves
<1> QED BY <1>1, <1>3

\* The batch that stops the receiver.
LEMMA StopFits ==
  <<Library!Send(<<<<"i2s", "off">>, <<"rf", "none">>, <<"clock", "off">>>>)>> \in Seq(StepsOn(Common, Usual))
<1>1. Common \ Library!BusClock = Common
  BY DEF Common, Library!BusClock
<1>2. Library!Send(<<<<"i2s", "off">>, <<"rf", "none">>, <<"clock", "off">>>>) \in StepsOn(Common, Usual)
  BY Zenon, <1>1, CalmFit, BatchesAre
<1> QED BY <1>2

\* What a power-down of the MT6631 gives back.
Given31(c) ==
  Stages \cup Library!BusClock
  \cup (IF c.hwid = Library!Connac_1_5 THEN {} ELSE {"top2"})
  \cup (IF c.hwid = Library!Connac_1_0 THEN {"crystal"} ELSE {"crystal_old"})

LEMMA Mt6631Down ==
  ASSUME NEW c, IsMt6631(c), NEW m
  PROVE  Returned(Library!mt6631_PowerDown(c), Own31(c), m, Given31(c))
<1> PICK R, Q, x, Z : /\ R = Own31(c) /\ Q = Tuned31(c)
                      /\ x = IF c.hwid = Library!Connac_1_0 THEN "crystal" ELSE "crystal_old"
                      /\ Z = Given31(c)
  OBVIOUS
<1>1. PICK a : /\ a = <<Library!Try("osc", "off"), Library!Try("trigger", "off"), Library!Try("memory", "off")>>
               /\ a \in Seq(StepsOn(Stages, Usual)) /\ \A r \in Stages : Ends(a, r, Home(r))
  BY StagesOff
<1>2. PICK b : /\ b = Library!mt6631_do_SPI_hopping_26M(c)
               /\ Flows(b, Q, m) /\ Slows(b)
               /\ Ends(b, "spi", "26") /\ Ends(b, "mux", "off") /\ Ends(b, "pll", "off")
               /\ c.hwid # Library!Connac_1_5 => Ends(b, "top2", "off")
  BY Mt6631Slow
<1>3. PICK d : d = <<Library!Do(x, "off")>> /\ d \in Seq(StepsOn({x}, Usual)) /\ Ends(d, x, "off")
  BY OneEnds DEF Values
<1>4. PICK e : /\ e = <<Library!Send(<<<<"i2s", "off">>, <<"rf", "none">>, <<"clock", "off">>>>)>>
               /\ e \in Seq(StepsOn(Common, Usual))
  BY StopFits
<1>5. /\ Stages \subseteq R \ Library!BusClock /\ Common \subseteq R \ Library!BusClock /\ {x} \subseteq R \ Library!BusClock
      /\ Q \subseteq R /\ {x} \subseteq R /\ Common \subseteq R /\ Usual \subseteq Nat
      /\ Stages \cap Q = {} /\ Z = Stages \cup (Z \cap Q) \cup {x} /\ x \notin Q
  BY Mt6631Regs, Mt6631Tuned DEF Stages, Given31, Own31, Tuned31, IsMt6631, Usual, Library!End, Library!Quiet,
     Library!BusClock, Tuned, Library!Legacy, Library!Connac_1_0, Library!Connac_1_5
<1>6. x \notin Stages /\ x \notin Common /\ "rf" \notin Z /\ Z \cap Common = {}
  BY DEF Stages, Common, Given31, Library!BusClock
<1>7. Flows(a, R, m) /\ Flows(b, R, m) /\ Flows(d, R, m) /\ Flows(e, R, m)
  <2>1. Flows(a, R, m)
    BY Zenon, <1>1, <1>5, CatCalm
  <2>2. Flows(b, R, m)
    BY Zenon, <1>2, <1>5, FlowsOn
  <2>3. Flows(d, R, m)
    <3>1. PICK P : P = {x}
      OBVIOUS
    <3>2. d \in Seq(StepsOn(P, Usual)) /\ P \subseteq R \ Library!BusClock
      BY Zenon, <1>3, <1>5, <3>1
    <3> QED BY Zenon, <3>2, CatCalm
  <2>4. Flows(e, R, m)
    BY Zenon, <1>4, <1>5, CatCalm
  <2> QED BY Zenon, <2>1, <2>2, <2>3, <2>4
<1>8. /\ b \in Seq(StepsOn(Q, Nat)) /\ d \in Seq(StepsOn({x}, Nat)) /\ e \in Seq(StepsOn(Common, Nat))
  <2>1. Seq(StepsOn({x}, Usual)) \subseteq Seq(StepsOn({x}, Nat))
    BY <1>5, FitsMore
  <2>2. Seq(StepsOn(Common, Usual)) \subseteq Seq(StepsOn(Common, Nat))
    BY <1>5, FitsMore
  <2>3. b \in Seq(StepsOn(Q, Nat))
    BY Zenon, <1>2 DEF Flows
  <2> QED BY Zenon, <1>3, <1>4, <2>1, <2>2, <2>3
<1>9. \A r \in Z \cap Q : Ends(b, r, Home(r))
  BY <1>2 DEF Given31, Tuned31, Tuned, Stages, Library!BusClock, Home
<1>10. Returned(a \o b, R, m, Stages \cup (Z \cap Q))
  <2>1. \A r \in Stages : r \notin Q /\ r # "rf"
    BY <1>5 DEF Stages
  <2>2. \A r \in Stages \cup (Z \cap Q) : Ends(b, r, Home(r)) \/ (Ends(a, r, Home(r)) /\ r \notin Q /\ r # "rf")
    BY Zenon, <1>1, <1>9, <2>1
  <2> QED BY Zenon, <1>2, <1>5, <1>7, <1>8, <2>2, CatReturned
<1>11. Returned(a \o b \o d, R, m, Z)
  <2>1. \A r \in Z : Ends(d, r, Home(r)) \/ (Ends(a \o b, r, Home(r)) /\ r \notin {x} /\ r # "rf")
    BY <1>3, <1>5, <1>6, <1>10 DEF Returned, Home
  <2>2. Flows(a \o b, R, m) /\ Slows(a \o b)
    BY Zenon, <1>10 DEF Returned
  <2> QED BY Zenon, <1>5, <1>7, <1>8, <2>1, <2>2, CatReturned
<1>12. Returned(a \o b \o d \o e, R, m, Z)
  <2>1. \A r \in Z : Ends(e, r, Home(r)) \/ (Ends(a \o b \o d, r, Home(r)) /\ r \notin Common /\ r # "rf")
    BY <1>6, <1>11 DEF Returned
  <2>2. Flows(a \o b \o d, R, m) /\ Slows(a \o b \o d)
    BY Zenon, <1>11 DEF Returned
  <2> QED BY Zenon, <1>5, <1>7, <1>8, <2>1, <2>2, CatReturned
<1>13. (IF c.hwid \in {Library!Connac_1_0, Library!Connac_1_2} THEN <<Library!Do("crystal", "off")>>
                                                             ELSE <<Library!Do("crystal_old", "off")>>) = d
  BY <1>3 DEF IsMt6631, Library!Legacy, Library!Connac_1_0, Library!Connac_1_2, Library!Connac_1_5
<1>14. Library!mt6631_PowerDown(c) = a \o b \o d \o e
  BY Zenon, <1>1, <1>2, <1>4, <1>13 DEF Library!mt6631_PowerDown, Library!mt6631_pwrdown_reg_op
<1> QED BY Zenon, <1>12, <1>14

-----------------------------------------------------------------------------
(* The MT6635. *)

Own35   == Common \cup Library!BusClock
           \cup {"cspi", "adie", "crystal", "bandgap", "bgldo", "pad", "osc", "trigger", "memory"}
Tuned35 == Tuned \cup Library!BusClock

LEMMA Mt6635Regs ==
  /\ Common \subseteq Own35 /\ Library!BusClock \subseteq Tuned35 /\ Tuned \subseteq Tuned35
  /\ Tuned35 \subseteq Own35 /\ "rf" \in Tuned35 /\ "data" \in Tuned35
  /\ "int_ext" \notin Tuned35 /\ "int_main" \notin Tuned35
  /\ {"cspi", "adie", "crystal", "bandgap", "bgldo", "pad", "osc", "trigger", "memory", "i2s"}
       \subseteq Own35 \ Library!BusClock
  BY DEF Own35, Tuned35, Common, Tuned, Library!BusClock

LEMMA Mt6635Slow ==
  ASSUME NEW m
  PROVE  LET s == Library!mt6635_do_SPI_hopping_26M IN
         Flows(s, Tuned35, m) /\ Slows(s) /\ Ends(s, "spi", "26") /\ Ends(s, "mux", "off") /\ Ends(s, "pll", "off")
  BY Zenon, Mt6635Regs, SlowFlows DEF Library!mt6635_do_SPI_hopping_26M

LEMMA Mt6635Fast ==
  ASSUME NEW m
  PROVE  LET s == Library!mt6635_do_SPI_hopping_64M IN Flows(s, Tuned35, m) /\ Ends(s, "spi", "64")
  BY Zenon, Mt6635Regs, FastFlows DEF Library!mt6635_do_SPI_hopping_64M

LEMMA Mt6635Ramp ==
  ASSUME NEW c, NEW m
  PROVE  Ramped(Library!mt6635_RampDown(c), Own35, m)
<1>1. Flows(Library!mt6635_do_SPI_hopping_26M, Own35, m)
  BY Zenon, Mt6635Slow, Mt6635Regs, FlowsOn
<1> QED BY Zenon, <1>1, Mt6635Slow, Mt6635Regs, RampIs DEF Library!mt6635_RampDown, Library!mt6635_rampdown_reg_op

\* The steps before a tune of either MT6635.
LEMMA RetuneStart ==
  LET s == <<Library!ToHost(0), Library!Claim(<<Library!Host, Library!Dsp>>), Library!ToHost(0),
             Library!ToDsp(0), Library!Write, Library!Write>> IN
  s \in Seq(StepsOn(Tuned, Usual))
<1> PICK X : X = StepsOn(Tuned, Usual)
  OBVIOUS
<1>1. /\ Library!ToHost(0) \in X /\ Library!ToDsp(0) \in X /\ Library!Write \in X
      /\ Library!Claim(<<Library!Host, Library!Dsp>>) \in X
  BY TuneStart DEF Usual
<1> QED BY <1>1

LEMMA Mt6635Tune ==
  ASSUME NEW c, NEW m, NEW h \in BOOLEAN
  PROVE  Retuned(Library!mt6635_RampDown(c) \o Library!mt6635_SetFreq(c, h), Own35, m, h)
<1> PICK start : start = <<Library!ToHost(0), Library!Claim(<<Library!Host, Library!Dsp>>),
                           Library!ToHost(0), Library!ToDsp(0), Library!Write, Library!Write>>
  OBVIOUS
<1>1. start \in Seq(StepsOn(Tuned, Usual))
  BY Zenon, RetuneStart
<1>2. Library!mt6635_SetFreq(c, h) =
        start \o Library!When(h, Library!mt6635_do_SPI_hopping_64M)
        \o Library!mt6631_TuneTail(Library!mt6631_tune_reg_op)
  BY Zenon DEF Library!mt6635_SetFreq, Library!mt6635_Retune, Library!mt6635_set_freq_fine_tune_reg_op,
     Library!mt6635_tune_reg_op
<1> QED BY Zenon, <1>1, <1>2, Mt6635Ramp, Mt6635Fast, Mt6635Regs, TuneIs

LEMMA Mt6635Scan ==
  ASSUME NEW c, NEW m
  PROVE  /\ Flows(Library!mt6635_pre_search(c), Own35, m) /\ Slows(Library!mt6635_pre_search(c))
         /\ Flows(Library!mt6635_restore_search(c), Own35, m) /\ Slows(Library!mt6635_restore_search(c))
         /\ \A h \in BOOLEAN : Flows(Library!mt6635_soft_mute_tune(c, h), Own35, m)
<1> PICK R : R = Own35
  OBVIOUS
<1>1. PICK X : X = StepsOn(R \ Library!BusClock, Usual) /\ \A r \in R \ Library!BusClock, v \in Values : Library!Do(r, v) \in X
  BY CalmFit, Mt6635Regs
<1>2. "pad" \in R \ Library!BusClock /\ "i2s" \in R \ Library!BusClock /\ "on" \in Values /\ "off" \in Values
  BY Mt6635Regs DEF Values
<1>3. /\ <<Library!Do("pad", "off"), Library!Do("i2s", "off")>> \in Seq(X)
      /\ <<Library!Do("i2s", "on"), Library!Do("pad", "on")>> \in Seq(X)
  BY <1>1, <1>2
<1>4. Ramped(Library!mt6635_RampDown(c), R, m)
  BY Mt6635Ramp
<1>5. /\ Flows(Library!mt6635_pre_search(c), R, m) /\ Slows(Library!mt6635_pre_search(c))
      /\ Flows(Library!mt6635_restore_search(c), R, m) /\ Slows(Library!mt6635_restore_search(c))
  BY Zenon, <1>1, <1>3, <1>4, ScanIs DEF Library!mt6635_pre_search, Library!mt6635_restore_search
<1>6. Flows(Library!mt6635_do_SPI_hopping_64M, R, m)
  BY Zenon, Mt6635Fast, Mt6635Regs, FlowsOn
<1>7. ASSUME NEW h \in BOOLEAN PROVE Flows(Library!mt6635_soft_mute_tune(c, h), R, m)
  BY Zenon, <1>6, Mt6635Regs, SoftIs DEF Library!mt6635_soft_mute_tune
<1> QED BY Zenon, <1>5, <1>7

LEMMA Mt6635Up ==
  ASSUME NEW c
  PROVE  LET X == StepsOn(Own35 \ Library!BusClock, Usual) IN
         /\ Library!mt6635_PowerUp(c) \in Seq(X)
         /\ Library!mt6635_SetMonoStereo(c) \in Seq(X)
         /\ Library!mt6635_GetCapArray(c) \in Seq(X)
<1> PICK R : R = Own35 \ Library!BusClock
  OBVIOUS
<1> PICK X : X = StepsOn(R, Usual)
  OBVIOUS
<1>1. Library!mt6635_SetMonoStereo(c) \in Seq(X) /\ Library!mt6635_GetCapArray(c) \in Seq(X)
  BY Zenon, Mt6635Regs, HandOversFit DEF Library!mt6635_SetMonoStereo, Library!mt6635_GetCapArray,
     Library!mt6631_SetMonoStereo, Library!mt6631_GetCapArray
<1>2. /\ \A r \in R, v \in Values : Library!Do(r, v) \in X
      /\ \A r \in R, v \in Values : Library!Try(r, v) \in X
  BY CalmFit, Mt6635Regs
<1>3. /\ "cspi" \in R /\ "adie" \in R /\ "bgldo" \in R /\ "osc" \in R /\ "trigger" \in R /\ "memory" \in R
      /\ "i2s" \in R /\ "on" \in Values /\ "crystal" \in R /\ "bandgap" \in R
  BY Mt6635Regs DEF Values
<1>4. /\ Library!Try("cspi", "on") \in X /\ Library!Try("adie", "on") \in X
      /\ Library!Do("crystal", "on") \in X /\ Library!Try("bandgap", "on") \in X
      /\ Library!Try("bgldo", "on") \in X /\ Library!Do("i2s", "on") \in X
      /\ Library!Do("osc", "on") \in X /\ Library!Do("trigger", "on") \in X
      /\ Library!Do("memory", "on") \in X
  BY Zenon, <1>2, <1>3
<1>5. PICK a, f :
        /\ a = <<Library!Try("cspi", "on"), Library!Try("adie", "on"), Library!Do("crystal", "on"),
                 Library!Try("bandgap", "on"), Library!Try("bandgap", "on"), Library!Try("bgldo", "on")>>
        /\ f = <<Library!Do("i2s", "on"), Library!Do("osc", "on"), Library!Do("trigger", "on"),
                 Library!Do("memory", "on")>>
  OBVIOUS
<1>6. a \in Seq(X) /\ f \in Seq(X)
  BY <1>4, <1>5
<1>7. PICK e :
        /\ e = Library!mt6631_Start(Library!mt6635_pwrup_clock_on_reg_op, Library!mt6635_pwrup_DSP_download,
                 Library!mt6635_pwrup_digital_init_reg_op, Library!mt6635_pwrup_fine_tune_reg_op)
        /\ e \in Seq(X)
  BY Zenon, Mt6635Regs, StartFits DEF Library!mt6635_pwrup_clock_on_reg_op,
     Library!mt6635_pwrup_DSP_download, Library!mt6635_pwrup_digital_init_reg_op,
     Library!mt6635_pwrup_fine_tune_reg_op, Library!mt6631_pwrup_digital_init_reg_op,
     Library!mt6631_pwrup_fine_tune_reg_op
<1>8. Library!mt6635_PowerUp(c) = a \o e \o f
  BY Zenon, <1>5, <1>7 DEF Library!mt6635_PowerUp
<1>9. a \o e \o f \in Seq(X)
  BY <1>6, <1>7
<1> QED BY Zenon, <1>1, <1>8, <1>9

\* What a power-down of the MT6635 gives back.
Given35 == Stages \cup Library!BusClock \cup {"crystal", "bgldo"}

LEMMA Mt6635Down ==
  ASSUME NEW c, NEW m
  PROVE  Returned(Library!mt6635_PowerDown(c), Own35, m, Given35)
<1> PICK R, Q, P : R = Own35 /\ Q = Tuned35 /\ P = Common \cup {"crystal", "bgldo"}
  OBVIOUS
<1>1. PICK a : /\ a = <<Library!Try("osc", "off"), Library!Try("trigger", "off"), Library!Try("memory", "off")>>
               /\ a \in Seq(StepsOn(Stages, Usual)) /\ \A r \in Stages : Ends(a, r, Home(r))
  BY StagesOff
<1>2. PICK b : /\ b = Library!mt6635_do_SPI_hopping_26M
               /\ Flows(b, Q, m) /\ Slows(b)
               /\ Ends(b, "spi", "26") /\ Ends(b, "mux", "off") /\ Ends(b, "pll", "off")
  BY Mt6635Slow
<1>3. PICK x, y, z : /\ x = Library!Do("crystal", "off")
                     /\ y = Library!Send(<<<<"i2s", "off">>, <<"rf", "none">>, <<"clock", "off">>>>)
                     /\ z = Library!Try("bgldo", "off")
  OBVIOUS
<1>4. x \in StepsOn(P, Usual) /\ y \in StepsOn(P, Usual) /\ z \in StepsOn(P, Usual)
  <2>1. Common \subseteq P /\ P \ Library!BusClock = P /\ "crystal" \in P /\ "bgldo" \in P /\ "off" \in Values
    BY DEF Common, Library!BusClock, Values
  <2>2. y \in StepsOn(P, Usual)
    BY Zenon, <1>3, <2>1, CalmFit, BatchesAre
  <2>3. x \in StepsOn(P, Usual) /\ z \in StepsOn(P, Usual)
    BY Zenon, <1>3, <2>1, CalmFit
  <2> QED BY <2>2, <2>3
<1>5. PICK d : d = <<x, y, z>>
  OBVIOUS
<1>6. d \in Seq(StepsOn(P, Usual))
  BY <1>4, <1>5
<1>7. Ends(d, "crystal", "off") /\ Ends(d, "bgldo", "off")
  <2>1. Len(d) = 3 /\ d[1] = x /\ d[2] = y /\ d[3] = z
    BY <1>5
  <2>2. /\ Puts(d[1], "crystal", "off") /\ ~Writes(d[2], "crystal") /\ ~Writes(d[3], "crystal")
        /\ Puts(d[3], "bgldo", "off")
    BY <1>3, <2>1 DEF Puts, Writes, Sets, Library!Do, Library!Try, Library!Set, Library!Send, Library!Batch
  <2> QED BY <2>1, <2>2 DEF Ends, Leaves
<1>8. /\ Stages \subseteq R \ Library!BusClock /\ P \subseteq R \ Library!BusClock /\ P \subseteq R
      /\ Q \subseteq R /\ Usual \subseteq Nat
  BY DEF Stages, Common, Own35, Tuned35, Tuned, Library!BusClock, Usual, Library!End, Library!Quiet
<1>9. Flows(a, R, m) /\ Flows(b, R, m) /\ Flows(d, R, m)
  <2>1. Flows(a, R, m)
    BY Zenon, <1>1, <1>8, CatCalm
  <2>2. Flows(b, R, m)
    BY Zenon, <1>2, <1>8, FlowsOn
  <2>3. Flows(d, R, m)
    BY Zenon, <1>6, <1>8, CatCalm
  <2> QED BY Zenon, <2>1, <2>2, <2>3
<1>10. b \in Seq(StepsOn(Q, Nat)) /\ d \in Seq(StepsOn(P, Nat))
  <2>1. Seq(StepsOn(P, Usual)) \subseteq Seq(StepsOn(P, Nat))
    BY UsualFits
  <2>2. b \in Seq(StepsOn(Q, Nat))
    BY Zenon, <1>2 DEF Flows
  <2> QED BY Zenon, <1>6, <2>1, <2>2
<1>11. Returned(a \o b, R, m, Stages \cup Library!BusClock)
  <2>1. \A r \in Stages : r \notin Q /\ r # "rf"
    BY DEF Stages, Tuned35, Tuned, Library!BusClock
  <2>2. \A r \in Library!BusClock : Ends(b, r, Home(r))
    BY <1>2 DEF Library!BusClock, Home
  <2>3. \A r \in Stages \cup Library!BusClock :
          Ends(b, r, Home(r)) \/ (Ends(a, r, Home(r)) /\ r \notin Q /\ r # "rf")
    BY Zenon, <1>1, <2>1, <2>2
  <2> QED BY Zenon, <1>2, <1>8, <1>9, <1>10, <2>3, CatReturned
<1>12. Returned(a \o b \o d, R, m, Given35)
  <2>1. \A r \in Stages \cup Library!BusClock : r \notin P /\ r # "rf"
    BY DEF Stages, Common, Library!BusClock
  <2>2. \A r \in Given35 : Ends(d, r, Home(r)) \/ (Ends(a \o b, r, Home(r)) /\ r \notin P /\ r # "rf")
    <3>1. \A r \in Stages \cup Library!BusClock : Ends(a \o b, r, Home(r))
      BY Zenon, <1>11 DEF Returned
    <3>2. Ends(d, "crystal", Home("crystal")) /\ Ends(d, "bgldo", Home("bgldo"))
      BY <1>7 DEF Home
    <3> QED BY Zenon, <2>1, <3>1, <3>2 DEF Given35
  <2>3. Flows(a \o b, R, m) /\ Slows(a \o b)
    BY Zenon, <1>11 DEF Returned
  <2> QED BY Zenon, <1>8, <1>9, <1>10, <2>2, <2>3, CatReturned
<1>13. Library!mt6635_PowerDown(c) = a \o b \o d
  BY Zenon, <1>1, <1>2, <1>3, <1>5 DEF Library!mt6635_PowerDown, Library!mt6635_pwrdown_reg_op,
     Library!mt6631_pwrdown_reg_op
<1> QED BY Zenon, <1>12, <1>13

-----------------------------------------------------------------------------
(* The MT6635 of the CONNAC 2 generation: its bus has no multiplexer. *)

OwnC2   == Common \cup {"spi", "pll", "osc_en", "topawake", "cspi", "osc", "trigger", "memory"}
TunedC2 == Tuned \cup {"spi", "pll", "osc_en"}

LEMMA C2Regs ==
  /\ Common \subseteq OwnC2 /\ Tuned \subseteq TunedC2 /\ TunedC2 \subseteq OwnC2
  /\ "rf" \in TunedC2 /\ "data" \in TunedC2 /\ "spi" \in TunedC2 /\ "pll" \in TunedC2 /\ "osc_en" \in TunedC2
  /\ "int_ext" \notin TunedC2 /\ "int_main" \notin TunedC2
  /\ {"topawake", "cspi", "osc", "trigger", "memory", "i2s"} \subseteq OwnC2 \ Library!BusClock
  BY DEF OwnC2, TunedC2, Common, Tuned, Library!BusClock

LEMMA C2Slow ==
  ASSUME NEW m
  PROVE  LET s == Library!c2_SlowBus IN
         Flows(s, TunedC2, m) /\ Slows(s) /\ Ends(s, "spi", "26") /\ Ends(s, "pll", "off")
  BY Zenon, C2Regs, C2SlowFlows

LEMMA C2Fast ==
  ASSUME NEW m, ~m
  PROVE  LET s == Library!c2_do_SPI_hopping IN Flows(s, TunedC2, m) /\ Ends(s, "spi", "64")
  BY Zenon, C2Regs, C2FastFlows

LEMMA C2Ramp ==
  ASSUME NEW c, NEW m
  PROVE  Ramped(Library!c2_RampDown(c), OwnC2, m)
<1>1. Flows(Library!c2_SlowBus, OwnC2, m)
  BY Zenon, C2Slow, C2Regs, FlowsOn
<1> QED BY Zenon, <1>1, C2Slow, C2Regs, RampIs DEF Library!c2_RampDown, Library!c2_rampdown_reg_op

LEMMA C2Tune ==
  ASSUME NEW c, NEW m, ~m, NEW h \in BOOLEAN
  PROVE  Retuned(Library!c2_RampDown(c) \o Library!c2_SetFreq(c, h), OwnC2, m, h)
<1> PICK start : start = <<Library!ToHost(0), Library!Claim(<<Library!Host, Library!Dsp>>),
                           Library!ToHost(0), Library!ToDsp(0), Library!Write, Library!Write>>
  OBVIOUS
<1>1. start \in Seq(StepsOn(Tuned, Usual))
  BY Zenon, RetuneStart
<1>2. Library!c2_SetFreq(c, h) =
        start \o Library!When(h, Library!c2_do_SPI_hopping)
        \o Library!mt6631_TuneTail(Library!mt6631_tune_reg_op)
  BY Zenon DEF Library!c2_SetFreq, Library!mt6635_Retune, Library!c2_set_freq_fine_tune_reg_op,
     Library!mt6635_set_freq_fine_tune_reg_op, Library!c2_tune_reg_op
<1> QED BY Zenon, <1>1, <1>2, C2Ramp, C2Fast, C2Regs, TuneIs

LEMMA C2Scan ==
  ASSUME NEW c, NEW m, ~m
  PROVE  /\ Flows(Library!c2_pre_search(c), OwnC2, m) /\ Slows(Library!c2_pre_search(c))
         /\ Flows(Library!c2_restore_search(c), OwnC2, m) /\ Slows(Library!c2_restore_search(c))
         /\ \A h \in BOOLEAN : Flows(Library!c2_soft_mute_tune(c, h), OwnC2, m)
<1> PICK R : R = OwnC2
  OBVIOUS
<1>1. PICK X : X = StepsOn(R \ Library!BusClock, Usual) /\ \A r \in R \ Library!BusClock, v \in Values : Library!Do(r, v) \in X
  BY CalmFit, C2Regs
<1>2. "i2s" \in R \ Library!BusClock /\ "on" \in Values /\ "off" \in Values
  BY C2Regs DEF Values
<1>3. <<Library!Do("i2s", "off")>> \in Seq(X) /\ <<Library!Do("i2s", "on")>> \in Seq(X)
  BY <1>1, <1>2
<1>4. Ramped(Library!c2_RampDown(c), R, m)
  BY C2Ramp
<1>5. /\ Flows(Library!c2_pre_search(c), R, m) /\ Slows(Library!c2_pre_search(c))
      /\ Flows(Library!c2_restore_search(c), R, m) /\ Slows(Library!c2_restore_search(c))
  BY Zenon, <1>1, <1>3, <1>4, ScanIs DEF Library!c2_pre_search, Library!c2_restore_search
<1>6. Flows(Library!c2_do_SPI_hopping, R, m)
  BY Zenon, C2Fast, C2Regs, FlowsOn
<1>7. ASSUME NEW h \in BOOLEAN PROVE Flows(Library!c2_soft_mute_tune(c, h), R, m)
  BY Zenon, <1>6, C2Regs, SoftIs DEF Library!c2_soft_mute_tune
<1> QED BY Zenon, <1>5, <1>7

LEMMA C2Up ==
  ASSUME NEW c
  PROVE  LET X == StepsOn(OwnC2 \ Library!BusClock, Usual) IN
         /\ Library!c2_PowerUp(c) \in Seq(X)
         /\ Library!c2_SetMonoStereo(c) \in Seq(X)
         /\ Library!c2_GetCapArray(c) \in Seq(X)
<1> PICK R : R = OwnC2 \ Library!BusClock
  OBVIOUS
<1> PICK X : X = StepsOn(R, Usual)
  OBVIOUS
<1>1. Library!c2_SetMonoStereo(c) \in Seq(X) /\ Library!c2_GetCapArray(c) \in Seq(X)
  BY Zenon, C2Regs, HandOversFit DEF Library!c2_SetMonoStereo, Library!c2_GetCapArray,
     Library!mt6631_SetMonoStereo, Library!mt6631_GetCapArray
<1>2. /\ \A r \in R, v \in Values : Library!Do(r, v) \in X
      /\ \A r \in R, v \in Values : Library!Try(r, v) \in X
      /\ \A what \in Reasons : Library!Check(what) \in X
  BY CalmFit, C2Regs
<1>3. /\ "cspi" \in R /\ "topawake" \in R /\ "osc" \in R /\ "trigger" \in R /\ "memory" \in R
      /\ "i2s" \in R /\ "on" \in Values /\ "awake" \in Reasons
  BY C2Regs DEF Values, Reasons
<1>4. /\ Library!Try("cspi", "on") \in X /\ Library!Try("topawake", "on") \in X
      /\ Library!Check("awake") \in X /\ Library!Do("i2s", "on") \in X
      /\ Library!Do("osc", "on") \in X /\ Library!Do("trigger", "on") \in X
      /\ Library!Do("memory", "on") \in X
  BY Zenon, <1>2, <1>3
<1>5. PICK a, f :
        /\ a = <<Library!Try("topawake", "on"), Library!Check("awake"), Library!Try("cspi", "on")>>
        /\ f = <<Library!Do("i2s", "on"), Library!Do("osc", "on"), Library!Do("trigger", "on"),
                 Library!Do("memory", "on")>>
  OBVIOUS
<1>6. a \in Seq(X) /\ f \in Seq(X)
  BY <1>4, <1>5
<1>7. PICK e :
        /\ e = Library!mt6631_Start(Library!c2_pwrup_clock_on_reg_op, Library!c2_pwrup_DSP_download,
                 Library!c2_pwrup_digital_init_reg_op, Library!c2_pwrup_fine_tune_reg_op)
        /\ e \in Seq(X)
  BY Zenon, C2Regs, StartFits DEF Library!c2_pwrup_clock_on_reg_op, Library!c2_pwrup_DSP_download,
     Library!c2_pwrup_digital_init_reg_op, Library!c2_pwrup_fine_tune_reg_op,
     Library!mt6635_pwrup_clock_on_reg_op, Library!mt6631_pwrup_digital_init_reg_op,
     Library!mt6631_pwrup_fine_tune_reg_op
<1>8. Library!c2_PowerUp(c) = a \o e \o f
  BY Zenon, <1>5, <1>7 DEF Library!c2_PowerUp
<1>9. a \o e \o f \in Seq(X)
  BY <1>6, <1>7
<1> QED BY Zenon, <1>1, <1>8, <1>9

\* What a power-down of this MT6635 gives back.
GivenC2 == Stages \cup {"spi", "pll", "cspi", "topawake"}

LEMMA C2Down ==
  ASSUME NEW c, NEW m
  PROVE  Returned(Library!c2_PowerDown(c), OwnC2, m, GivenC2)
<1> PICK R, Q, P : R = OwnC2 /\ Q = TunedC2 /\ P = Common \cup {"cspi", "topawake"}
  OBVIOUS
<1>1. PICK a : /\ a = <<Library!Try("osc", "off"), Library!Try("trigger", "off"), Library!Try("memory", "off")>>
               /\ a \in Seq(StepsOn(Stages, Usual)) /\ \A r \in Stages : Ends(a, r, Home(r))
  BY StagesOff
<1>2. PICK b : /\ b = Library!c2_SlowBus
               /\ Flows(b, Q, m) /\ Slows(b) /\ Ends(b, "spi", "26") /\ Ends(b, "pll", "off")
  BY C2Slow
<1>3. PICK x, y, z : /\ x = Library!Send(<<<<"i2s", "off">>, <<"rf", "none">>, <<"clock", "off">>>>)
                     /\ y = Library!Do("cspi", "off") /\ z = Library!Do("topawake", "off")
  OBVIOUS
<1>4. x \in StepsOn(P, Usual) /\ y \in StepsOn(P, Usual) /\ z \in StepsOn(P, Usual)
  <2>1. Common \subseteq P /\ P \ Library!BusClock = P /\ "cspi" \in P /\ "topawake" \in P /\ "off" \in Values
    BY DEF Common, Library!BusClock, Values
  <2>2. x \in StepsOn(P, Usual)
    BY Zenon, <1>3, <2>1, CalmFit, BatchesAre
  <2>3. y \in StepsOn(P, Usual) /\ z \in StepsOn(P, Usual)
    BY Zenon, <1>3, <2>1, CalmFit
  <2> QED BY <2>2, <2>3
<1>5. PICK d : d = <<x, y, z>>
  OBVIOUS
<1>6. d \in Seq(StepsOn(P, Usual))
  BY <1>4, <1>5
<1>7. Ends(d, "cspi", "off") /\ Ends(d, "topawake", "off")
  <2>1. Len(d) = 3 /\ d[1] = x /\ d[2] = y /\ d[3] = z
    BY <1>5
  <2>2. /\ Puts(d[2], "cspi", "off") /\ ~Writes(d[3], "cspi") /\ Puts(d[3], "topawake", "off")
    BY <1>3, <2>1 DEF Puts, Writes, Sets, Library!Do, Library!Set
  <2> QED BY <2>1, <2>2 DEF Ends, Leaves
<1>8. /\ Stages \subseteq R \ Library!BusClock /\ P \subseteq R \ Library!BusClock /\ P \subseteq R
      /\ Q \subseteq R
  BY DEF Stages, Common, OwnC2, TunedC2, Tuned, Library!BusClock
<1>9. Flows(a, R, m) /\ Flows(b, R, m) /\ Flows(d, R, m)
  <2>1. Flows(a, R, m)
    BY Zenon, <1>1, <1>8, CatCalm
  <2>2. Flows(b, R, m)
    BY Zenon, <1>2, <1>8, FlowsOn
  <2>3. Flows(d, R, m)
    BY Zenon, <1>6, <1>8, CatCalm
  <2> QED BY Zenon, <2>1, <2>2, <2>3
<1>10. b \in Seq(StepsOn(Q, Nat)) /\ d \in Seq(StepsOn(P, Nat))
  <2>1. Seq(StepsOn(P, Usual)) \subseteq Seq(StepsOn(P, Nat))
    BY UsualFits
  <2>2. b \in Seq(StepsOn(Q, Nat))
    BY Zenon, <1>2 DEF Flows
  <2> QED BY Zenon, <1>6, <2>1, <2>2
<1>11. Returned(a \o b, R, m, Stages \cup {"spi", "pll"})
  <2>1. \A r \in Stages : r \notin Q /\ r # "rf"
    BY DEF Stages, TunedC2, Tuned
  <2>2. \A r \in {"spi", "pll"} : Ends(b, r, Home(r))
    BY <1>2 DEF Home
  <2>3. \A r \in Stages \cup {"spi", "pll"} :
          Ends(b, r, Home(r)) \/ (Ends(a, r, Home(r)) /\ r \notin Q /\ r # "rf")
    BY Zenon, <1>1, <2>1, <2>2
  <2> QED BY Zenon, <1>2, <1>8, <1>9, <1>10, <2>3, CatReturned
<1>12. Returned(a \o b \o d, R, m, GivenC2)
  <2>1. \A r \in Stages \cup {"spi", "pll"} : r \notin P /\ r # "rf"
    BY DEF Stages, Common
  <2>2. \A r \in GivenC2 : Ends(d, r, Home(r)) \/ (Ends(a \o b, r, Home(r)) /\ r \notin P /\ r # "rf")
    <3>1. \A r \in Stages \cup {"spi", "pll"} : Ends(a \o b, r, Home(r))
      BY Zenon, <1>11 DEF Returned
    <3>2. Ends(d, "cspi", Home("cspi")) /\ Ends(d, "topawake", Home("topawake"))
      BY <1>7 DEF Home
    <3> QED BY Zenon, <2>1, <3>1, <3>2 DEF GivenC2
  <2>3. Flows(a \o b, R, m) /\ Slows(a \o b)
    BY Zenon, <1>11 DEF Returned
  <2> QED BY Zenon, <1>8, <1>9, <1>10, <2>2, <2>3, CatReturned
<1>13. Library!c2_PowerDown(c) = a \o b \o d
  BY Zenon, <1>1, <1>2, <1>3, <1>5 DEF Library!c2_PowerDown, Library!c2_pwrdown_reg_op,
     Library!mt6631_pwrdown_reg_op
<1> QED BY Zenon, <1>12, <1>13

-----------------------------------------------------------------------------
(* The chips whose bus has one clock only: the MT6627, the MT6580, the MT6630 and the MT6632. *)

LEMMA PlainCat ==
  ASSUME NEW R, NEW s, s \in Seq(StepsOn(R, Nat)), NEW t, t \in Seq(StepsOn(R, Nat))
  PROVE  s \o t \in Seq(StepsOn(R, Nat))
  OBVIOUS

LEMMA PlainIgnoring ==
  ASSUME NEW R, NEW s, s \in Seq(StepsOn(R, Usual))
  PROVE  Library!Ignoring(s) \in Seq(StepsOn(R, Nat)) /\ Ignored(Library!Ignoring(s), s)
<1>1. Usual \subseteq Nat
  BY DEF Usual, Library!End, Library!Quiet
<1> QED BY <1>1, IgnoringIs

\* A scan's preparation and its end, where the bus clock stays as it is.
LEMMA PlainScan ==
  ASSUME NEW R, NEW s, s \in Seq(StepsOn(R, Usual)), NEW t, t \in Seq(StepsOn(R, Usual))
  PROVE  Library!Ignoring(s) \o t \in Seq(StepsOn(R, Nat))
<1>1. Library!Ignoring(s) \in Seq(StepsOn(R, Nat)) /\ t \in Seq(StepsOn(R, Nat))
  BY PlainIgnoring, UsualFits
<1> QED BY Zenon, <1>1, PlainCat

LEMMA PlainFit ==
  ASSUME NEW R, Common \subseteq R, R \cap Library!BusClock = {}
  PROVE  LET X == StepsOn(R, Usual)
             B == Seq(R \X Values) IN
         /\ R \ Library!BusClock = R
         /\ "rf" \in R /\ "data" \in R /\ "i2s" \in R /\ "int_ext" \in R /\ "int_main" \in R
         /\ "on" \in Values /\ "off" \in Values
         /\ \A r \in R, v \in Values : Library!Do(r, v) \in X
         /\ \A r \in R, v \in Values : Library!Try(r, v) \in X
         /\ Library!ToHost(0) \in X /\ Library!ToDsp(0) \in X
         /\ Library!ToHost(Library!End) \in X /\ Library!ToDsp(Library!End) \in X
         /\ Library!Check("chip") \in X /\ Library!Lock(Library!End) \in X
         /\ Library!Write \in X /\ Library!Save(0) \in X /\ Library!Back \in X
         /\ \A b \in B : Library!Send(b) \in X
<1>1. R \ Library!BusClock = R
  OBVIOUS
<1>2. "rf" \in R /\ "data" \in R /\ "i2s" \in R /\ "int_ext" \in R /\ "int_main" \in R
      /\ "on" \in Values /\ "off" \in Values /\ 0 \in Usual /\ Library!End \in Usual /\ "chip" \in Reasons
  BY DEF Common, Values, Usual, Reasons
<1> QED BY Zenon, <1>1, <1>2, CalmFit

LEMMA PlainBatches ==
  ASSUME NEW R, Common \subseteq R
  PROVE  LET B == Seq(R \X Values) IN
         /\ << >> \in B
         /\ <<<<"audio", "down">>>> \in B /\ <<<<"audio", "up">>>> \in B
         /\ <<<<"clock", "on">>, Library!Host>> \in B
         /\ Library!Ints("on") \o <<Library!Dsp>> \in B
         /\ Library!Ints("on") \o <<Library!Dsp, Library!Host, Library!Dsp>> \in B
         /\ <<Library!Host, Library!Dsp>> \in B
         /\ <<<<"int_ext", "on">>, Library!Dsp>> \in B
         /\ <<<<"i2s", "off">>, <<"rf", "none">>, <<"clock", "off">>>> \in B
         /\ <<<<"rf", "none">>, <<"clock", "off">>>> \in B
  BY DEF Common, Values, Library!Host, Library!Dsp, Library!Ints

\* What power-up, scan and tune have in common on these chips.
LEMMA PlainParts ==
  ASSUME NEW R, Common \subseteq R, R \cap Library!BusClock = {}
  PROVE  /\ Library!DspDownload(Library!RomVersion) \in Seq(StepsOn(R, Usual))
         /\ Library!Measure \in Seq(StepsOn(R, Usual))
         /\ <<Library!ToHost(0), Library!ToDsp(0)>> \in Seq(StepsOn(R, Usual))
         /\ <<Library!Save(0), Library!Back>> \in Seq(StepsOn(R, Usual))
<1>1. R \ Library!BusClock = R
  OBVIOUS
<1> QED BY Zenon, <1>1, DownloadFits, MeasureFits, HandOversFit

-----------------------------------------------------------------------------
(* The MT6627 and the MT6625. *)

Own27(c) ==
  Common \cup {"cspi", "pad"}
  \cup (IF c.mt6625 THEN {"adie", "xtal", "pad_sel", "bgldo", "i2s_hop"} ELSE {})

LEMMA Mt6627Regs ==
  ASSUME NEW c
  PROVE  /\ Common \subseteq Own27(c) /\ Own27(c) \cap Library!BusClock = {}
         /\ "cspi" \in Own27(c) /\ "pad" \in Own27(c)
         /\ c.mt6625 => /\ "adie" \in Own27(c) /\ "xtal" \in Own27(c) /\ "pad_sel" \in Own27(c)
                        /\ "bgldo" \in Own27(c) /\ "i2s_hop" \in Own27(c)
  BY DEF Own27, Common, Library!BusClock

LEMMA Mt6627Ramp ==
  ASSUME NEW c
  PROVE  /\ Library!mt6627_RampDown(c) \in Seq(StepsOn(Common, Usual))
         /\ Ends(Library!mt6627_RampDown(c), "int_ext", "on")
         /\ Ends(Library!mt6627_RampDown(c), "int_main", "on")
<1> PICK s : s = Library!mt6627_RampDown(c)
  OBVIOUS
<1> PICK X : X = StepsOn(Common, Usual)
  OBVIOUS
<1>0. Common \cap Library!BusClock = {}
  BY DEF Common, Library!BusClock
<1>1. /\ Library!ToHost(Library!End) \in X /\ Library!ToDsp(Library!End) \in X /\ Library!Write \in X
      /\ Library!Try("int_main", "off") \in X /\ Library!Try("int_ext", "off") \in X
      /\ Library!Try("int_main", "on") \in X /\ Library!Try("int_ext", "on") \in X
  BY Zenon, <1>0, PlainFit
<1>2. Library!Send(Library!mt6627_rampdown_reg_op) \in X
  BY Zenon, <1>0, PlainFit, PlainBatches DEF Library!mt6627_rampdown_reg_op
<1>3. s \in Seq(X)
  BY <1>1, <1>2 DEF Library!mt6627_RampDown
<1>4. Len(s) = 8 /\ s[7] = Library!Try("int_ext", "on") /\ s[8] = Library!Try("int_main", "on")
  BY DEF Library!mt6627_RampDown
<1>5. Puts(s[7], "int_ext", "on") /\ ~Writes(s[8], "int_ext") /\ Puts(s[8], "int_main", "on")
  BY <1>4 DEF Puts, Writes, Sets, Library!Try, Library!Set
<1>6. Ends(s, "int_ext", "on") /\ Ends(s, "int_main", "on")
  BY <1>4, <1>5 DEF Ends, Leaves
<1> QED BY <1>3, <1>6

\* A tune that brings the radio back: the DSP has its registers, the audio is up and the
\* interrupts in I are unmasked.
Tunes(s, R, I) ==
  /\ s \in Seq(StepsOn(R, Nat))
  /\ Ends(s, "rf", "dsp") /\ Ends(s, "audio", "up") /\ \A r \in I : Ends(s, r, "on")

LEMMA AudioUp ==
  LET x == Library!Send(<<<<"audio", "up">>>>) IN
  Puts(x, "audio", "up") /\ \A r : r # "audio" => ~Writes(x, r)
<1> PICK x : x = Library!Send(<<<<"audio", "up">>>>)
  OBVIOUS
<1>1. x.op = "batch" /\ x.batch = <<<<"audio", "up">>>>
  BY DEF Library!Send, Library!Batch
<1>2. DOMAIN x.batch = {1} /\ x.batch[1][1] = "audio" /\ x.batch[1][2] = "up"
  BY <1>1
<1> QED BY <1>1, <1>2 DEF Puts, Writes

LEMMA Mt6627Tune ==
  ASSUME NEW c, NEW h \in BOOLEAN
  PROVE  LET s == Library!mt6627_RampDown(c) \o Library!mt6627_SetFreq(c, h) IN
         /\ Tunes(s, Own27(c), {"int_main", "int_ext"})
         /\ c.mt6625 /\ h => Ends(s, "i2s_hop", "on")
         /\ c.mt6625 /\ ~h => Ends(s, "i2s_hop", "off")
<1> PICK R, Q : R = Own27(c) /\ Q = Own27(c) \ {"int_main", "int_ext"}
  OBVIOUS
<1>1. /\ Common \subseteq R /\ R \cap Library!BusClock = {} /\ Q \subseteq R /\ Q \ Library!BusClock = Q
      /\ "rf" \in Q /\ "data" \in Q /\ "i2s" \in Q /\ "pad" \in Q /\ "audio" \in Q
      /\ (c.mt6625 => "i2s_hop" \in Q) /\ "int_ext" \notin Q /\ "int_main" \notin Q
  BY Mt6627Regs DEF Common
<1> PICK X : X = StepsOn(Q, Usual)
  OBVIOUS
<1>2. "on" \in Values /\ "off" \in Values /\ "hop" \in Values /\ 0 \in Usual /\ Library!End \in Usual
  BY DEF Values, Usual
<1>3. PICK r : r = Library!mt6627_RampDown(c) /\ r \in Seq(StepsOn(Common, Usual))
               /\ Ends(r, "int_ext", "on") /\ Ends(r, "int_main", "on")
  BY Mt6627Ramp
<1>4. r \in Seq(StepsOn(R, Nat))
  <2>1. Seq(StepsOn(Common, Nat)) \subseteq Seq(StepsOn(R, Nat))
    BY <1>1, FitsMore
  <2> QED BY <1>3, <2>1, UsualFits
<1> PICK a, w, t :
      /\ a = <<Library!ToHost(0), Library!ToDsp(0), Library!Write, Library!Write,
               Library!Do("i2s", "on"), Library!Do("pad", "on")>>
      /\ w = Library!When(c.mt6625, Library!I2sHopping(h))
      /\ t = <<Library!Send(<<<<"audio", "up">>>>)>>
  OBVIOUS
<1>5. a \in Seq(X)
  <2>1. /\ Library!ToHost(0) \in X /\ Library!ToDsp(0) \in X /\ Library!Write \in X
        /\ Library!Do("i2s", "on") \in X /\ Library!Do("pad", "on") \in X
    BY Zenon, <1>1, <1>2, SetsFit
  <2> QED BY <2>1
<1>6. /\ ~c.mt6625 => w = << >>
      /\ c.mt6625 /\ h => w = <<Library!Do("i2s_hop", "on"), Library!Do("pad", "hop")>>
      /\ c.mt6625 /\ ~h => w = <<Library!Do("i2s_hop", "off"), Library!Do("pad", "on")>>
  BY Zenon DEF Library!When, Library!I2sHopping
<1>7. w \in Seq(X)
  <2>1. CASE c.mt6625
    <3>1. /\ Library!Do("i2s_hop", "on") \in X /\ Library!Do("pad", "hop") \in X
          /\ Library!Do("i2s_hop", "off") \in X /\ Library!Do("pad", "on") \in X
      BY Zenon, <1>1, <1>2, <2>1, SetsFit
    <3>2. /\ <<Library!Do("i2s_hop", "on"), Library!Do("pad", "hop")>> \in Seq(X)
          /\ <<Library!Do("i2s_hop", "off"), Library!Do("pad", "on")>> \in Seq(X)
      BY <3>1
    <3> QED BY Zenon, <1>6, <2>1, <3>2
  <2>2. CASE ~c.mt6625
    <3>1. << >> \in Seq(X)
      OBVIOUS
    <3> QED BY Zenon, <1>6, <2>2, <3>1
  <2> QED BY Zenon, <2>1, <2>2
<1>8. t \in Seq(X)
  <2>1. <<<<"audio", "up">>>> \in Seq((Q \ Library!BusClock) \X Values)
    BY <1>1 DEF Values
  <2>2. Library!Send(<<<<"audio", "up">>>>) \in X
    BY <2>1, BatchesFit
  <2> QED BY <2>2
<1>9. Library!mt6627_SetFreq(c, h) = a \o w \o t
  BY Zenon DEF Library!mt6627_SetFreq, Library!mt6627_tune_reg_op
<1> PICK s : s = a \o w \o t
  OBVIOUS
<1>10. a \o w \in Seq(X) /\ s \in Seq(X)
  BY <1>5, <1>7, <1>8
<1>11. s \in Seq(StepsOn(Q, Nat)) /\ s \in Seq(StepsOn(R, Nat)) /\ r \o s \in Seq(StepsOn(R, Nat))
  <2>1. s \in Seq(StepsOn(Q, Nat))
    BY <1>10, UsualFits
  <2>2. Seq(StepsOn(Q, Nat)) \subseteq Seq(StepsOn(R, Nat))
    BY <1>1, FitsMore
  <2>3. s \in Seq(StepsOn(R, Nat))
    BY Zenon, <2>1, <2>2
  <2> QED BY Zenon, <1>4, <2>1, <2>3, PlainCat
<1>12. Ends(r \o s, "int_ext", "on") /\ Ends(r \o s, "int_main", "on")
  BY Zenon, <1>1, <1>3, <1>4, <1>11, CatEndsOn
<1>13. Ends(s, "rf", "dsp") /\ Ends(s, "audio", "up")
  <2>1. /\ Len(a) = 6 /\ a[2] = Library!ToDsp(0) /\ a[3] = Library!Write /\ a[4] = Library!Write
        /\ a[5] = Library!Do("i2s", "on") /\ a[6] = Library!Do("pad", "on")
        /\ Len(t) = 1 /\ t[1] = Library!Send(<<<<"audio", "up">>>>) /\ DOMAIN t = {1}
    OBVIOUS
  <2>2. /\ Puts(a[2], "rf", "dsp") /\ ~Writes(a[3], "rf") /\ ~Writes(a[4], "rf") /\ ~Writes(a[5], "rf")
        /\ ~Writes(a[6], "rf") /\ Puts(t[1], "audio", "up") /\ ~Writes(t[1], "rf")
    <3>1. Puts(a[2], "rf", "dsp")
      BY <2>1 DEF Puts, Sets, Library!ToDsp, Library!Set
    <3>2. ~Writes(a[3], "rf") /\ ~Writes(a[4], "rf")
      BY <2>1 DEF Writes, Library!Write, Library!Try, Library!Set
    <3>3. ~Writes(a[5], "rf") /\ ~Writes(a[6], "rf")
      BY <2>1 DEF Writes, Library!Do, Library!Set
    <3>4. Puts(t[1], "audio", "up") /\ ~Writes(t[1], "rf")
      BY <2>1, AudioUp
    <3> QED BY <3>1, <3>2, <3>3, <3>4
  <2>3. Ends(a, "rf", "dsp") /\ Ends(t, "audio", "up")
    BY <2>1, <2>2 DEF Ends, Leaves
  <2>4. \A i \in DOMAIN w : ~Writes(w[i], "rf")
    <3>1. \A v : ~Writes(Library!Do("i2s_hop", v), "rf") /\ ~Writes(Library!Do("pad", v), "rf")
      BY DEF Writes, Library!Do, Library!Set
    <3>2. ASSUME NEW x, NEW y, w = <<x, y>>, ~Writes(x, "rf"), ~Writes(y, "rf")
          PROVE  \A i \in DOMAIN w : ~Writes(w[i], "rf")
      BY <3>2
    <3>3. ASSUME w = << >>
          PROVE  \A i \in DOMAIN w : ~Writes(w[i], "rf")
      BY <3>3
    <3> QED BY Zenon, <1>6, <3>1, <3>2, <3>3
  <2>5. Ends(a \o w, "rf", "dsp")
    BY Zenon, <1>5, <1>7, <2>3, <2>4, CatEnds
  <2>6. \A i \in DOMAIN t : ~Writes(t[i], "rf")
    BY <2>1, <2>2
  <2> QED BY Zenon, <1>8, <1>10, <2>3, <2>5, <2>6, CatEnds
<1>14. Ends(r \o s, "rf", "dsp") /\ Ends(r \o s, "audio", "up")
  BY Zenon, <1>4, <1>11, <1>13, CatEnds
<1>15. ASSUME NEW v, NEW u, w = <<Library!Do("i2s_hop", v), Library!Do("pad", u)>>
       PROVE  Ends(r \o s, "i2s_hop", v)
  <2>0. Len(w) = 2 /\ w[1] = Library!Do("i2s_hop", v) /\ w[2] = Library!Do("pad", u)
    BY <1>15
  <2>1. Puts(w[1], "i2s_hop", v) /\ ~Writes(w[2], "i2s_hop")
    BY <2>0 DEF Puts, Writes, Sets, Library!Do, Library!Set
  <2>2. Ends(w, "i2s_hop", v)
    BY <2>0, <2>1 DEF Ends, Leaves
  <2>3. Ends(a \o w, "i2s_hop", v)
    BY Zenon, <1>5, <1>7, <2>2, CatEnds
  <2>4. \A i \in DOMAIN t : ~Writes(t[i], "i2s_hop")
    <3>1. DOMAIN t = {1} /\ t[1] = Library!Send(<<<<"audio", "up">>>>)
      OBVIOUS
    <3> QED BY <3>1, AudioUp
  <2>5. Ends(s, "i2s_hop", v)
    BY Zenon, <1>8, <1>10, <2>3, <2>4, CatEnds
  <2> QED BY Zenon, <1>4, <1>11, <2>5, CatEnds
<1>16. c.mt6625 /\ h => Ends(r \o s, "i2s_hop", "on")
  BY Zenon, <1>6, <1>15
<1>17. c.mt6625 /\ ~h => Ends(r \o s, "i2s_hop", "off")
  BY Zenon, <1>6, <1>15
<1>18. Tunes(r \o s, R, {"int_main", "int_ext"})
  BY <1>11, <1>12, <1>14 DEF Tunes
<1> QED BY Zenon, <1>3, <1>9, <1>16, <1>17, <1>18

LEMMA Mt6627Fits ==
  ASSUME NEW c
  PROVE  LET S == Seq(StepsOn(Own27(c), Nat)) IN
         /\ Library!mt6627_PowerUp(c) \in S
         /\ \A h : Library!mt6627_soft_mute_tune(c, h) \in S
         /\ Library!mt6627_pre_search(c) \in S /\ Library!mt6627_restore_search(c) \in S
         /\ Library!mt6627_SetMonoStereo(c) \in S
<1> PICK R : R = Own27(c)
  OBVIOUS
<1>1. PICK X : X = StepsOn(R, Usual)
  OBVIOUS
<1>2. Common \subseteq R /\ R \cap Library!BusClock = {}
  BY Mt6627Regs
<1>3. /\ \A r \in R, v \in Values : Library!Do(r, v) \in X
      /\ \A r \in R, v \in Values : Library!Try(r, v) \in X
      /\ Library!Check("chip") \in X /\ "i2s" \in R /\ "on" \in Values /\ "off" \in Values
  BY Zenon, <1>1, <1>2, PlainFit
<1>4. /\ Library!DspDownload(Library!RomVersion) \in Seq(X) /\ Library!Measure \in Seq(X)
      /\ <<Library!ToHost(0), Library!ToDsp(0)>> \in Seq(X)
  BY Zenon, <1>1, <1>2, PlainParts
<1>5. /\ Library!Send(Library!mt6627_pwrup_clock_on_reg_op) \in X
      /\ Library!Send(Library!mt6627_pwrup_digital_init_reg_op) \in X
      /\ Library!Send(Library!mt6627_pwrup_fine_tune_reg_op) \in X
  BY Zenon, <1>1, <1>2, PlainFit, PlainBatches DEF Library!mt6627_pwrup_clock_on_reg_op,
     Library!mt6627_pwrup_digital_init_reg_op, Library!mt6627_pwrup_fine_tune_reg_op
<1>6. Library!mt6627_PowerUp(c) \in Seq(X)
  <2>1. PICK a, w, b, e :
          /\ a = <<Library!Try("cspi", "on")>>
          /\ w = Library!When(c.mt6625, <<Library!Try("adie", "on"), Library!Try("xtal", "on"),
                                          Library!Try("pad_sel", "on"), Library!Try("bgldo", "on")>>)
          /\ b = <<Library!Send(Library!mt6627_pwrup_clock_on_reg_op), Library!Check("chip")>>
          /\ e = <<Library!Send(Library!mt6627_pwrup_digital_init_reg_op),
                   Library!Send(Library!mt6627_pwrup_fine_tune_reg_op),
                   Library!Do("i2s", "on"), Library!Do("pad", "on")>>
    OBVIOUS
  <2>2. PICK d : d = Library!DspDownload(Library!RomVersion) /\ d \in Seq(X)
    BY <1>4
  <2>3. Library!mt6627_PowerUp(c) = a \o w \o b \o d \o e
    BY Zenon, <2>1, <2>2 DEF Library!mt6627_PowerUp, Library!mt6627_pwrup_DSP_download
  <2>4. "cspi" \in R /\ "pad" \in R
    BY Mt6627Regs
  <2>5. Library!Try("cspi", "on") \in X /\ Library!Do("i2s", "on") \in X /\ Library!Do("pad", "on") \in X
    BY Zenon, <1>3, <2>4
  <2>6. a \in Seq(X) /\ b \in Seq(X) /\ e \in Seq(X)
    BY <1>3, <1>5, <2>1, <2>5
  <2>7. w \in Seq(X)
    <3>1. CASE c.mt6625
      <4>1. /\ Library!Try("adie", "on") \in X /\ Library!Try("xtal", "on") \in X
            /\ Library!Try("pad_sel", "on") \in X /\ Library!Try("bgldo", "on") \in X
        BY Zenon, <1>3, <3>1, Mt6627Regs
      <4>2. <<Library!Try("adie", "on"), Library!Try("xtal", "on"), Library!Try("pad_sel", "on"),
              Library!Try("bgldo", "on")>> \in Seq(X)
        BY <4>1
      <4> QED BY Zenon, <2>1, <3>1, <4>2 DEF Library!When
    <3>2. CASE ~c.mt6625
      <4>1. << >> \in Seq(X)
        OBVIOUS
      <4> QED BY Zenon, <2>1, <3>2, <4>1 DEF Library!When
    <3> QED BY Zenon, <3>1, <3>2
  <2>8. a \o w \o b \o d \o e \in Seq(X)
    BY <2>2, <2>6, <2>7
  <2> QED BY Zenon, <2>3, <2>8
<1>7. /\ <<Library!Do("pad", "off"), Library!Do("i2s", "off")>> \in Seq(X)
      /\ <<Library!Do("i2s", "on"), Library!Do("pad", "on")>> \in Seq(X)
  <2>1. "pad" \in R
    BY Mt6627Regs
  <2> QED BY <1>3, <2>1
<1>8. Library!mt6627_RampDown(c) \in Seq(X)
  <2>1. Seq(StepsOn(Common, Usual)) \subseteq Seq(StepsOn(R, Usual))
    BY <1>2, FitsMore
  <2> QED BY <1>1, <2>1, Mt6627Ramp
<1>9. Library!mt6627_pre_search(c) \in Seq(StepsOn(R, Nat)) /\ Library!mt6627_restore_search(c) \in Seq(StepsOn(R, Nat))
  BY Zenon, <1>1, <1>7, <1>8, PlainScan DEF Library!mt6627_pre_search, Library!mt6627_restore_search
<1>10. Seq(X) \subseteq Seq(StepsOn(R, Nat))
  BY Zenon, <1>1, UsualFits
<1> QED BY Zenon, <1>4, <1>6, <1>9, <1>10 DEF Library!mt6627_soft_mute_tune, Library!mt6627_SetMonoStereo

\* A power-down that gives back the registers in Z.
Gives(s, R, Z) == s \in Seq(StepsOn(R, Nat)) /\ \A r \in Z : Ends(s, r, "off")

\* The batches that stop the receiver.
LEMMA StopWrites ==
  /\ LET x == Library!Send(<<<<"i2s", "off">>, <<"rf", "none">>, <<"clock", "off">>>>) IN
     \A r : r \notin {"i2s", "rf", "clock"} => ~Writes(x, r)
  /\ LET x == Library!Send(<<<<"rf", "none">>, <<"clock", "off">>>>) IN
     \A r : r \notin {"rf", "clock"} => ~Writes(x, r)
<1> PICK x, y : /\ x = Library!Send(<<<<"i2s", "off">>, <<"rf", "none">>, <<"clock", "off">>>>)
                /\ y = Library!Send(<<<<"rf", "none">>, <<"clock", "off">>>>)
  OBVIOUS
<1>1. /\ x.op = "batch" /\ x.batch = <<<<"i2s", "off">>, <<"rf", "none">>, <<"clock", "off">>>>
      /\ y.op = "batch" /\ y.batch = <<<<"rf", "none">>, <<"clock", "off">>>>
  BY DEF Library!Send, Library!Batch
<1>2. \A k \in DOMAIN x.batch : x.batch[k][1] \in {"i2s", "rf", "clock"}
  <2>1. DOMAIN x.batch = 1..3 /\ x.batch[1][1] = "i2s" /\ x.batch[2][1] = "rf" /\ x.batch[3][1] = "clock"
    BY <1>1
  <2> QED BY <2>1
<1>3. \A k \in DOMAIN y.batch : y.batch[k][1] \in {"rf", "clock"}
  <2>1. DOMAIN y.batch = 1..2 /\ y.batch[1][1] = "rf" /\ y.batch[2][1] = "clock"
    BY <1>1
  <2> QED BY <2>1
<1> QED BY <1>1, <1>2, <1>3 DEF Writes

LEMMA DoPuts ==
  ASSUME NEW r, NEW v
  PROVE  /\ Puts(Library!Do(r, v), r, v) /\ Puts(Library!Try(r, v), r, v)
         /\ \A q : q # r => ~Writes(Library!Do(r, v), q) /\ ~Writes(Library!Try(r, v), q)
  BY DEF Puts, Sets, Writes, Library!Do, Library!Try, Library!Set

LEMMA Mt6627Down ==
  ASSUME NEW c
  PROVE  Gives(Library!mt6627_PowerDown(c), Own27(c), {"pad"} \cup (IF c.mt6625 THEN {"xtal"} ELSE {}))
<1> PICK R : R = Own27(c)
  OBVIOUS
<1> PICK X : X = StepsOn(R, Usual)
  OBVIOUS
<1>2. Common \subseteq R /\ R \cap Library!BusClock = {} /\ "pad" \in R /\ (c.mt6625 => "xtal" \in R)
  BY Mt6627Regs
<1>3. PICK x, y, z : /\ x = Library!Do("pad", "off")
                     /\ y = Library!Send(<<<<"i2s", "off">>, <<"rf", "none">>, <<"clock", "off">>>>)
                     /\ z = Library!Do("int_ext", "off")
  OBVIOUS
<1>4. x \in X /\ y \in X /\ z \in X /\ (c.mt6625 => Library!Try("xtal", "off") \in X)
  BY Zenon, <1>2, <1>3, PlainFit, PlainBatches
<1>5. Puts(x, "pad", "off") /\ ~Writes(y, "pad") /\ ~Writes(z, "pad") /\ ~Writes(Library!Try("xtal", "off"), "pad")
      /\ Puts(Library!Try("xtal", "off"), "xtal", "off")
  BY <1>3, StopWrites, DoPuts
<1>6. PICK a : a = <<x, y, z>>
  OBVIOUS
<1>7. PICK b : b = <<Library!Try("xtal", "off")>>
  OBVIOUS
<1>8. a \in Seq(X) /\ (c.mt6625 => b \in Seq(X))
  BY <1>4, <1>6, <1>7
<1>9. Ends(a, "pad", "off") /\ Ends(b, "xtal", "off") /\ \A i \in DOMAIN b : ~Writes(b[i], "pad")
  <2>1. Len(a) = 3 /\ a[1] = x /\ a[2] = y /\ a[3] = z
    BY <1>6
  <2>2. Len(b) = 1 /\ b[1] = Library!Try("xtal", "off") /\ DOMAIN b = {1}
    BY <1>7
  <2> QED BY <1>5, <2>1, <2>2 DEF Ends, Leaves
<1>10. Library!mt6627_PowerDown(c) = a \o Library!When(c.mt6625, b)
  BY Zenon, <1>3, <1>6, <1>7 DEF Library!mt6627_PowerDown, Library!mt6627_pwrdown_reg_op
<1>11. CASE c.mt6625
  <2>1. Library!mt6627_PowerDown(c) = a \o b
    BY Zenon, <1>10, <1>11 DEF Library!When
  <2>2. a \in Seq(StepsOn(R, Nat)) /\ b \in Seq(StepsOn(R, Nat))
    BY <1>8, <1>11, UsualFits
  <2>3. a \o b \in Seq(StepsOn(R, Nat)) /\ Ends(a \o b, "pad", "off") /\ Ends(a \o b, "xtal", "off")
    BY Zenon, <1>9, <2>2, PlainCat, CatEnds
  <2> QED BY <1>11, <2>1, <2>3 DEF Gives
<1>12. CASE ~c.mt6625
  <2>1. Library!mt6627_PowerDown(c) = a \o << >>
    BY Zenon, <1>10, <1>12 DEF Library!When
  <2>2. a \o << >> = a
    BY <1>8
  <2>3. a \in Seq(StepsOn(R, Nat))
    BY <1>8, UsualFits
  <2> QED BY <1>9, <1>12, <2>1, <2>2, <2>3 DEF Gives
<1> QED BY Zenon, <1>11, <1>12

-----------------------------------------------------------------------------
(* The MT6580. *)

Supplies == {"mcupll_0", "mcupll_6", "mcupll_16", "mcupll_22",
             "rf_cg_16", "rf_cg_15", "rf_cg_14", "rf_cg_7", "rf_cg_6"}
Own80    == Common \cup {"pad"} \cup Supplies

LEMMA Mt6580Regs ==
  /\ Common \subseteq Own80 /\ Own80 \cap Library!BusClock = {} /\ "pad" \in Own80 /\ Supplies \subseteq Own80
  BY DEF Own80, Common, Supplies, Library!BusClock

LEMMA Mt6580Supplies ==
  LET X == StepsOn(Supplies, Usual) IN
  /\ Library!mt6580_enable_pmic_tldo \in Seq(X) /\ Library!mt6580_disable_pmic_tldo \in Seq(X)
  /\ \A r \in Supplies : Ends(Library!mt6580_disable_pmic_tldo, r, "off")
<1> PICK X : X = StepsOn(Supplies, Usual)
  OBVIOUS
<1>1. \A r \in Supplies : Library!Try(r, "on") \in X /\ Library!Try(r, "off") \in X
  BY DEF StepsOn, Usual, Values, Library!Try, Library!Set
<1>2. PICK T : T = Library!Tldo
  OBVIOUS
<1>3. PICK D : D = Library!TldoDown
  OBVIOUS
<1>4. /\ T[1] = "mcupll_0" /\ T[2] = "mcupll_6" /\ T[3] = "mcupll_16" /\ T[4] = "mcupll_22"
      /\ T[5] = "rf_cg_16" /\ T[6] = "rf_cg_15" /\ T[7] = "rf_cg_14" /\ T[8] = "rf_cg_7" /\ T[9] = "rf_cg_6"
  BY <1>2 DEF Library!Tldo
<1>5. /\ D[1] = 4 /\ D[2] = 3 /\ D[3] = 2 /\ D[4] = 1 /\ D[5] = 5 /\ D[6] = 6 /\ D[7] = 7 /\ D[8] = 8
      /\ D[9] = 9
  BY <1>3 DEF Library!TldoDown
<1>6. \A i \in 1..9 : T[i] \in Supplies /\ D[i] \in 1..9
  BY <1>4, <1>5 DEF Supplies
<1>7. Library!mt6580_enable_pmic_tldo \in Seq(X)
  <2>1. PICK s : s = [i \in 1..9 |-> Library!Try(T[i], "on")]
    OBVIOUS
  <2>2. \A i \in 1..9 : s[i] \in X
    BY <1>1, <1>6, <2>1
  <2>3. s \in Seq(X)
    BY <2>1, <2>2
  <2> QED BY Zenon, <1>2, <2>1, <2>3 DEF Library!mt6580_enable_pmic_tldo
<1>8. PICK s : s = [i \in 1..9 |-> Library!Try(T[D[i]], "off")]
  OBVIOUS
<1>9. s = Library!mt6580_disable_pmic_tldo
  BY Zenon, <1>2, <1>3, <1>8 DEF Library!mt6580_disable_pmic_tldo
<1>10. \A i \in 1..9 : s[i] = Library!Try(T[D[i]], "off") /\ s[i] \in X
  BY <1>1, <1>6, <1>8
<1>11. s \in Seq(X) /\ Len(s) = 9 /\ DOMAIN s = 1..9
  BY <1>8, <1>10
<1>12. \A r \in Supplies : \E i \in 1..9 : r = T[D[i]]
  BY <1>4, <1>5 DEF Supplies
<1>13. \A i, j \in 1..9 : i # j => T[D[i]] # T[D[j]]
  <2>1. \A i, j \in 1..9 : i # j => D[i] # D[j]
    BY <1>5
  <2>2. \A i, j \in 1..9 : i # j => T[i] # T[j]
    BY <1>4
  <2> QED BY <1>6, <2>1, <2>2
<1>14. ASSUME NEW r \in Supplies PROVE Ends(s, r, "off")
  <2>1. PICK i \in 1..9 : r = T[D[i]]
    BY <1>12
  <2>2. Puts(s[i], r, "off")
    BY <1>10, <2>1, DoPuts
  <2>3. \A j \in 1..9 : j > i => ~Writes(s[j], r)
    BY <1>10, <1>13, <2>1, DoPuts
  <2> QED BY <1>11, <2>2, <2>3, EndsAt
<1> QED BY <1>7, <1>9, <1>11, <1>14

LEMMA Mt6580Down ==
  ASSUME NEW c
  PROVE  Gives(Library!mt6580_PowerDown(c), Own80, Supplies)
<1>1. PICK a : /\ a = <<Library!Send(<<<<"i2s", "off">>, <<"rf", "none">>, <<"clock", "off">>>>)>>
               /\ a \in Seq(StepsOn(Common, Usual))
  BY StopFits
<1>2. PICK u : u = Library!mt6580_disable_pmic_tldo
  OBVIOUS
<1>3. u \in Seq(StepsOn(Supplies, Usual)) /\ \A r \in Supplies : Ends(u, r, "off")
  BY <1>2, Mt6580Supplies
<1>4. PICK t : t = Library!Ignoring(u)
  OBVIOUS
<1>5. t \in Seq(StepsOn(Supplies, Nat)) /\ Ignored(t, u)
  BY Zenon, <1>3, <1>4, PlainIgnoring
<1>6. \A r \in Supplies : Ends(t, r, "off")
  BY Zenon, <1>3, <1>5, IgnoredEnds
<1>7. a \in Seq(StepsOn(Own80, Nat)) /\ t \in Seq(StepsOn(Own80, Nat))
  <2>1. Seq(StepsOn(Common, Nat)) \subseteq Seq(StepsOn(Own80, Nat))
    BY Mt6580Regs, FitsMore
  <2>2. Seq(StepsOn(Supplies, Nat)) \subseteq Seq(StepsOn(Own80, Nat))
    BY Mt6580Regs, FitsMore
  <2> QED BY <1>1, <1>5, <2>1, <2>2, UsualFits
<1>8. a \o t \in Seq(StepsOn(Own80, Nat)) /\ \A r \in Supplies : Ends(a \o t, r, "off")
  BY Zenon, <1>6, <1>7, PlainCat, CatEndsLast
<1>9. Library!mt6580_PowerDown(c) = a \o t
  BY Zenon, <1>1, <1>2, <1>4 DEF Library!mt6580_PowerDown, Library!mt6580_pwrdown_reg_op
<1> QED BY Zenon, <1>8, <1>9 DEF Gives

LEMMA Mt6580Ramp ==
  ASSUME NEW c
  PROVE  Library!mt6580_RampDown(c) \in Seq(StepsOn(Common, Usual))
<1> PICK X : X = StepsOn(Common, Usual)
  OBVIOUS
<1>1. Common \cap Library!BusClock = {}
  BY DEF Common, Library!BusClock
<1>2. Library!ToHost(Library!End) \in X /\ Library!ToDsp(Library!End) \in X
  BY Zenon, <1>1, PlainFit
<1>3. Library!Send(Library!mt6580_rampdown_reg_op) \in X
  BY Zenon, <1>1, PlainFit, PlainBatches DEF Library!mt6580_rampdown_reg_op
<1> QED BY <1>2, <1>3 DEF Library!mt6580_RampDown

LEMMA Mt6580Tune ==
  ASSUME NEW c, NEW h
  PROVE  Tunes(Library!mt6580_RampDown(c) \o Library!mt6580_SetFreq(c, h), Own80, {"int_main", "int_ext"})
<1> PICK X : X = StepsOn(Common, Usual)
  OBVIOUS
<1>1. PICK x1, x2, x3, x4, x5, x6 :
        /\ x1 = Library!ToHost(0) /\ x2 = Library!Do("int_main", "on") /\ x3 = Library!Do("int_ext", "on")
        /\ x4 = Library!ToDsp(0) /\ x5 = Library!Write /\ x6 = Library!Send(<<<<"audio", "up">>>>)
  OBVIOUS
<1>2. Common \cap Library!BusClock = {}
  BY DEF Common, Library!BusClock
<1>3. x1 \in X /\ x2 \in X /\ x3 \in X /\ x4 \in X /\ x5 \in X /\ x6 \in X
  BY Zenon, <1>1, <1>2, PlainFit, PlainBatches
<1>4. PICK s : s = <<x1, x2, x3, x4, x5, x5, x6>>
  OBVIOUS
<1>5. Library!mt6580_SetFreq(c, h) = s
  BY Zenon, <1>1, <1>4 DEF Library!mt6580_SetFreq, Library!mt6580_tune_reg_op
<1>6. s \in Seq(X)
  BY <1>3, <1>4
<1>7. /\ Len(s) = 7 /\ s[1] = x1 /\ s[2] = x2 /\ s[3] = x3 /\ s[4] = x4 /\ s[5] = x5 /\ s[6] = x5
      /\ s[7] = x6
  BY <1>4
<1>8. /\ Puts(x2, "int_main", "on") /\ Puts(x3, "int_ext", "on") /\ ~Writes(x3, "int_main")
      /\ \A r \in {"int_main", "int_ext", "rf"} : ~Writes(x5, r) /\ ~Writes(x6, r)
      /\ Puts(x6, "audio", "up")
  BY Zenon, <1>1, DoPuts, AudioUp DEF Library!Write
<1>9. Puts(x4, "rf", "dsp") /\ ~Writes(x4, "int_main") /\ ~Writes(x4, "int_ext")
  BY <1>1 DEF Puts, Sets, Writes, Library!ToDsp, Library!Set
<1>10. /\ Ends(s, "rf", "dsp") /\ Ends(s, "audio", "up")
       /\ Ends(s, "int_main", "on") /\ Ends(s, "int_ext", "on")
  BY <1>7, <1>8, <1>9 DEF Ends, Leaves
<1> PICK t : t = Library!mt6580_RampDown(c)
  OBVIOUS
<1>11. t \in Seq(StepsOn(Own80, Nat)) /\ s \in Seq(StepsOn(Own80, Nat))
  <2>1. Seq(StepsOn(Common, Nat)) \subseteq Seq(StepsOn(Own80, Nat))
    BY Mt6580Regs, FitsMore
  <2> QED BY <1>6, <2>1, Mt6580Ramp, UsualFits
<1>12. /\ t \o s \in Seq(StepsOn(Own80, Nat))
       /\ Ends(t \o s, "rf", "dsp") /\ Ends(t \o s, "audio", "up")
       /\ Ends(t \o s, "int_main", "on") /\ Ends(t \o s, "int_ext", "on")
  BY Zenon, <1>10, <1>11, PlainCat, CatEndsLast
<1> QED BY <1>5, <1>12 DEF Tunes

LEMMA Mt6580Fits ==
  ASSUME NEW c
  PROVE  LET S == Seq(StepsOn(Own80, Nat)) IN
         /\ Library!mt6580_PowerUp(c) \in S
         /\ \A h : Library!mt6580_soft_mute_tune(c, h) \in S
         /\ Library!mt6580_pre_search(c) \in S /\ Library!mt6580_restore_search(c) \in S
         /\ Library!mt6580_GetCapArray(c) \in S
<1> PICK R : R = Own80
  OBVIOUS
<1>1. PICK X : X = StepsOn(R, Usual)
  OBVIOUS
<1>2. Common \subseteq R /\ R \cap Library!BusClock = {} /\ "pad" \in R
  BY Mt6580Regs
<1>3. /\ \A r \in R, v \in Values : Library!Do(r, v) \in X
      /\ Library!Check("chip") \in X /\ "i2s" \in R /\ "on" \in Values /\ "off" \in Values
  BY Zenon, <1>1, <1>2, PlainFit
<1>4. /\ Library!DspDownload(Library!RomVersion) \in Seq(X) /\ Library!Measure \in Seq(X)
      /\ <<Library!ToHost(0), Library!ToDsp(0)>> \in Seq(X)
      /\ <<Library!Save(0), Library!Back>> \in Seq(X)
  BY Zenon, <1>1, <1>2, PlainParts
<1>5. /\ Library!Send(Library!mt6580_pwrup_clock_on_reg_op) \in X
      /\ Library!Send(Library!mt6580_pwrup_digital_init_reg_op) \in X
  BY Zenon, <1>1, <1>2, PlainFit, PlainBatches DEF Library!mt6580_pwrup_clock_on_reg_op,
     Library!mt6580_pwrup_digital_init_reg_op
<1>6. Seq(X) \subseteq Seq(StepsOn(R, Nat))
  BY Zenon, <1>1, UsualFits
<1>7. Library!mt6580_PowerUp(c) \in Seq(StepsOn(R, Nat))
  <2>1. PICK u : u = Library!Ignoring(Library!mt6580_enable_pmic_tldo) /\ u \in Seq(StepsOn(Supplies, Nat))
    BY Zenon, Mt6580Supplies, PlainIgnoring
  <2>2. u \in Seq(StepsOn(R, Nat))
    <3>1. Seq(StepsOn(Supplies, Nat)) \subseteq Seq(StepsOn(R, Nat))
      BY Mt6580Regs, FitsMore
    <3> QED BY <2>1, <3>1
  <2>3. PICK b, e :
          /\ b = <<Library!Send(Library!mt6580_pwrup_clock_on_reg_op), Library!Check("chip")>>
          /\ e = <<Library!Send(Library!mt6580_pwrup_digital_init_reg_op), Library!Do("i2s", "on")>>
    OBVIOUS
  <2>4. PICK d : d = Library!DspDownload(Library!RomVersion) /\ d \in Seq(X)
    BY <1>4
  <2>5. Library!mt6580_PowerUp(c) = u \o b \o d \o e
    BY Zenon, <2>1, <2>3, <2>4 DEF Library!mt6580_PowerUp, Library!mt6580_pwrup_DSP_download
  <2>6. b \in Seq(X) /\ e \in Seq(X)
    BY <1>3, <1>5, <2>3
  <2>7. u \o b \o d \o e \in Seq(StepsOn(R, Nat))
    BY Zenon, <1>6, <2>2, <2>4, <2>6, PlainCat
  <2> QED BY Zenon, <2>5, <2>7
<1>8. /\ <<Library!Do("pad", "off"), Library!Do("i2s", "off")>> \in Seq(X)
      /\ <<Library!Do("i2s", "on"), Library!Do("pad", "on")>> \in Seq(X)
  BY <1>2, <1>3
<1>9. Library!mt6580_RampDown(c) \in Seq(X)
  <2>1. Seq(StepsOn(Common, Usual)) \subseteq Seq(StepsOn(R, Usual))
    BY <1>2, FitsMore
  <2> QED BY <1>1, <2>1, Mt6580Ramp
<1>10. Library!mt6580_pre_search(c) \in Seq(StepsOn(R, Nat)) /\ Library!mt6580_restore_search(c) \in Seq(StepsOn(R, Nat))
  BY Zenon, <1>1, <1>8, <1>9, PlainScan DEF Library!mt6580_pre_search, Library!mt6580_restore_search
<1>11. \A h : Library!mt6580_soft_mute_tune(c, h) \in Seq(StepsOn(R, Nat))
  BY Zenon, <1>4, <1>6, PlainCat DEF Library!mt6580_soft_mute_tune
<1> QED BY Zenon, <1>4, <1>6, <1>7, <1>10, <1>11 DEF Library!mt6580_GetCapArray

-----------------------------------------------------------------------------
(* The MT6630 and the MT6632. *)

Own30 == Common \cup {"fmbuf", "xtal", "topoff", "paldo", "bandgap", "ldo", "topclock"}
Own32 == Common \cup {"pmic", "bandgap", "ldo", "topclock"}

LEMMA Mt6630Regs ==
  /\ Common \subseteq Own30 /\ Own30 \cap Library!BusClock = {}
  /\ "fmbuf" \in Own30 /\ "xtal" \in Own30 /\ "topoff" \in Own30 /\ "paldo" \in Own30
  /\ "bandgap" \in Own30 /\ "ldo" \in Own30 /\ "topclock" \in Own30
  /\ Common \subseteq Own32 /\ Own32 \cap Library!BusClock = {}
  /\ "pmic" \in Own32 /\ "bandgap" \in Own32 /\ "ldo" \in Own32 /\ "topclock" \in Own32
  BY DEF Own30, Own32, Common, Library!BusClock

LEMMA ClaimedFits ==
  ASSUME NEW R, NEW s, s \in Seq(StepsOn(R, Usual))
  PROVE  Library!Claimed(s) \in Seq(StepsOn(R, Nat))
<1>1. PICK t : t = Library!Claimed(s)
  OBVIOUS
<1>2. DOMAIN t = DOMAIN s /\ DOMAIN s = 1..Len(s) /\ Len(s) \in Nat
  BY <1>1 DEF Library!Claimed
<1>3. Usual \subseteq Nat /\ Library!Quiet \in Nat
  BY DEF Usual, Library!End, Library!Quiet
<1>4. ASSUME NEW i \in DOMAIN s
      PROVE  t[i] \in StepsOn(R, Nat)
  <2>1. s[i] \in StepsOn(R, Usual) /\ StepsOn(R, Usual) \subseteq StepsOn(R, Nat)
    BY UsualFits
  <2>2. CASE s[i].skip = Library!End
    <3>1. t[i] = [s[i] EXCEPT !.skip = Library!Quiet]
      BY <1>1, <2>2 DEF Library!Claimed
    <3> QED BY <1>3, <2>1, <3>1, SkipsAlike
  <2>3. CASE s[i].skip # Library!End
    <3>1. t[i] = s[i]
      BY <1>1, <2>3 DEF Library!Claimed
    <3> QED BY <2>1, <3>1
  <2> QED BY <2>2, <2>3
<1>5. t = [i \in 1..Len(s) |-> t[i]]
  BY <1>1, <1>2 DEF Library!Claimed
<1>6. t \in Seq(StepsOn(R, Nat))
  BY <1>2, <1>4, <1>5
<1> QED BY <1>1, <1>6

\* What the two have in common: ramp, scan, tune and the I2S port.
LEMMA Mt6630Parts ==
  ASSUME NEW R, Common \subseteq R, R \cap Library!BusClock = {}, NEW c
  PROVE  LET X == StepsOn(R, Usual) IN
         /\ Library!mt6630_RampDown(c) \in Seq(X) /\ Library!mt6632_RampDown(c) \in Seq(X)
         /\ Library!mt6630_I2s_Setting \in Seq(X) /\ Library!mt6632_I2s_Setting \in Seq(X)
         /\ <<Library!Do("rf", "host_mono")>> \in Seq(X)
         /\ <<Library!ToHost(0), Library!ToDsp(0)>> \o Library!Measure \in Seq(X)
<1> PICK X : X = StepsOn(R, Usual)
  OBVIOUS
<1>1. /\ \A r \in R, v \in Values : Library!Try(r, v) \in X
      /\ \A r \in R, v \in Values : Library!Do(r, v) \in X
      /\ Library!ToHost(Library!End) \in X /\ Library!ToDsp(Library!End) \in X /\ Library!Write \in X
      /\ "int_ext" \in R /\ "i2s" \in R /\ "rf" \in R
  BY Zenon, PlainFit
<1>2. Library!Send(<<<<"audio", "down">>>>) \in X
  BY Zenon, PlainFit, PlainBatches
<1>3. "on" \in Values /\ "off" \in Values /\ "host_mono" \in Values
  BY DEF Values
<1>4. /\ Library!Try("int_ext", "on") \in X /\ Library!Try("int_ext", "off") \in X
      /\ Library!Try("i2s", "on") \in X /\ Library!Do("rf", "host_mono") \in X
  BY Zenon, <1>1, <1>3
<1>5. <<Library!Try("int_ext", "off"), Library!Send(<<<<"audio", "down">>>>), Library!Try("int_ext", "on")>> \in Seq(X)
  BY <1>2, <1>4
<1>6. Library!mt6630_RampDown(c) \in Seq(X) /\ Library!mt6632_RampDown(c) \in Seq(X)
  BY Zenon, <1>5 DEF Library!mt6630_RampDown, Library!mt6632_RampDown, Library!mt6630_rampdown_reg_op,
     Library!mt6632_rampdown_reg_op
<1>7. Library!mt6630_I2s_Setting \in Seq(X) /\ Library!mt6632_I2s_Setting \in Seq(X)
  BY <1>1, <1>4 DEF Library!mt6630_I2s_Setting, Library!mt6632_I2s_Setting
<1>8. <<Library!Do("rf", "host_mono")>> \in Seq(X)
  BY <1>4
<1>9. PICK a, b : /\ a = <<Library!ToHost(0), Library!ToDsp(0)>> /\ b = Library!Measure
                  /\ a \in Seq(X) /\ b \in Seq(X)
  BY Zenon, PlainParts
<1>10. a \o b \in Seq(X)
  BY <1>9
<1> QED BY Zenon, <1>6, <1>7, <1>8, <1>9, <1>10

LEMMA Mt6630Tune ==
  ASSUME NEW R, Common \subseteq R, R \cap Library!BusClock = {}, NEW c, NEW h
  PROVE  /\ Tunes(Library!mt6630_RampDown(c) \o Library!mt6630_SetFreq(c, h), R, {"int_ext"})
         /\ Tunes(Library!mt6632_RampDown(c) \o Library!mt6632_SetFreq(c, h), R, {"int_ext"})
<1> PICK X : X = StepsOn(R, Usual)
  OBVIOUS
<1>1. PICK a, b : /\ a = <<Library!Try("int_ext", "off"), Library!Send(<<<<"audio", "down">>>>), Library!Try("int_ext", "on")>>
                  /\ b = <<Library!ToHost(0), Library!ToDsp(0), Library!Send(<<<<"audio", "up">>>>)>>
  OBVIOUS
<1>2. /\ Library!mt6630_RampDown(c) = a /\ Library!mt6632_RampDown(c) = a
      /\ Library!mt6630_SetFreq(c, h) = b /\ Library!mt6632_SetFreq(c, h) = b
  BY Zenon, <1>1 DEF Library!mt6630_RampDown, Library!mt6632_RampDown, Library!mt6630_rampdown_reg_op,
     Library!mt6632_rampdown_reg_op, Library!mt6630_SetFreq, Library!mt6632_SetFreq,
     Library!mt6630_tune_reg_op, Library!mt6632_tune_reg_op
<1>3. a \in Seq(X)
  BY Zenon, <1>2, Mt6630Parts
<1>4. b \in Seq(X)
  <2>1. Library!ToHost(0) \in X /\ Library!ToDsp(0) \in X /\ Library!Send(<<<<"audio", "up">>>>) \in X
    BY Zenon, PlainFit, PlainBatches
  <2> QED BY <1>1, <2>1
<1>5. a \in Seq(StepsOn(R, Nat)) /\ b \in Seq(StepsOn(R, Nat))
  BY <1>3, <1>4, UsualFits
<1>6. Ends(a, "int_ext", "on")
  <2>1. Len(a) = 3 /\ a[3] = Library!Try("int_ext", "on")
    BY <1>1
  <2> QED BY <2>1, DoPuts DEF Ends, Leaves
<1>7. /\ Ends(b, "rf", "dsp") /\ Ends(b, "audio", "up")
      /\ \A i \in DOMAIN b : ~Writes(b[i], "int_ext")
  <2>1. /\ Len(b) = 3 /\ DOMAIN b = 1..3 /\ b[1] = Library!ToHost(0) /\ b[2] = Library!ToDsp(0)
        /\ b[3] = Library!Send(<<<<"audio", "up">>>>)
    BY <1>1
  <2>2. Puts(b[2], "rf", "dsp") /\ ~Writes(b[1], "int_ext") /\ ~Writes(b[2], "int_ext")
    BY <2>1 DEF Puts, Sets, Writes, Library!ToDsp, Library!ToHost, Library!Set
  <2>3. Puts(b[3], "audio", "up") /\ ~Writes(b[3], "rf") /\ ~Writes(b[3], "int_ext")
    BY <2>1, AudioUp
  <2>4. \A i \in DOMAIN b : ~Writes(b[i], "int_ext")
    BY <2>1, <2>2, <2>3
  <2> QED BY <2>1, <2>2, <2>3, <2>4 DEF Ends, Leaves
<1>8. /\ a \o b \in Seq(StepsOn(R, Nat)) /\ Ends(a \o b, "rf", "dsp") /\ Ends(a \o b, "audio", "up")
      /\ Ends(a \o b, "int_ext", "on")
  BY Zenon, <1>5, <1>6, <1>7, PlainCat, CatEnds
<1>9. Tunes(a \o b, R, {"int_ext"})
  BY <1>8 DEF Tunes
<1> QED BY Zenon, <1>2, <1>9

LEMMA Mt6630Settings ==
  LET X == StepsOn(Own30, Usual)
      Y == StepsOn(Own32, Usual) IN
  /\ Library!mt6630_pwrup_top_setting \in Seq(X) /\ Library!mt6630_pwrdown_top_setting \in Seq(X)
  /\ \A r \in {"topclock", "ldo", "fmbuf", "xtal", "topoff", "paldo"} :
       Ends(Library!mt6630_pwrdown_top_setting, r, "off")
  /\ Library!mt6632_pmic_ctrl \in Seq(Y)
  /\ Library!mt6632_pwrup_top_setting \in Seq(Y) /\ Library!mt6632_pwrdown_top_setting \in Seq(Y)
  /\ \A r \in {"topclock", "ldo"} : Ends(Library!mt6632_pwrdown_top_setting, r, "off")
<1> PICK X, Y : X = StepsOn(Own30, Usual) /\ Y = StepsOn(Own32, Usual)
  OBVIOUS
<1>1. "on" \in Values /\ "off" \in Values /\ "half" \in Values
  BY DEF Values
<1>2. \A r \in Own30, v \in Values : Library!Try(r, v) \in X
  BY Zenon, Mt6630Regs, PlainFit
<1>3. \A r \in Own32, v \in Values : Library!Try(r, v) \in Y
  BY Zenon, Mt6630Regs, PlainFit
<1>4. Library!mt6630_pwrup_top_setting \in Seq(X)
  BY <1>1, <1>2, Mt6630Regs DEF Library!mt6630_pwrup_top_setting
<1>5. PICK s : s = Library!mt6630_pwrdown_top_setting
  OBVIOUS
<1>6. s \in Seq(X)
  BY <1>1, <1>2, <1>5, Mt6630Regs DEF Library!mt6630_pwrdown_top_setting
<1>7. /\ Len(s) = 7
      /\ s[1] = Library!Try("topclock", "off") /\ s[2] = Library!Try("ldo", "off")
      /\ s[3] = Library!Try("bandgap", "half") /\ s[4] = Library!Try("fmbuf", "off")
      /\ s[5] = Library!Try("xtal", "off") /\ s[6] = Library!Try("topoff", "off")
      /\ s[7] = Library!Try("paldo", "off")
  BY <1>5 DEF Library!mt6630_pwrdown_top_setting
<1>8. /\ Ends(s, "topclock", "off") /\ Ends(s, "ldo", "off") /\ Ends(s, "fmbuf", "off")
      /\ Ends(s, "xtal", "off") /\ Ends(s, "topoff", "off") /\ Ends(s, "paldo", "off")
  <2>1. /\ Puts(s[1], "topclock", "off") /\ Puts(s[2], "ldo", "off") /\ Puts(s[4], "fmbuf", "off")
        /\ Puts(s[5], "xtal", "off") /\ Puts(s[6], "topoff", "off") /\ Puts(s[7], "paldo", "off")
    BY <1>7, DoPuts
  <2>2. \A j \in 2..7 : ~Writes(s[j], "topclock")
    BY <1>7, DoPuts
  <2>3. \A j \in 3..7 : ~Writes(s[j], "ldo")
    BY <1>7, DoPuts
  <2>4. \A j \in 5..7 : ~Writes(s[j], "fmbuf")
    BY <1>7, DoPuts
  <2>5. (\A j \in 6..7 : ~Writes(s[j], "xtal")) /\ ~Writes(s[7], "topoff")
    BY <1>7, DoPuts
  <2>6. Ends(s, "topclock", "off") /\ Ends(s, "ldo", "off")
    BY <1>7, <2>1, <2>2, <2>3 DEF Ends, Leaves
  <2>7. Ends(s, "fmbuf", "off") /\ Ends(s, "xtal", "off")
    BY <1>7, <2>1, <2>4, <2>5 DEF Ends, Leaves
  <2>8. Ends(s, "topoff", "off") /\ Ends(s, "paldo", "off")
    BY <1>7, <2>1, <2>5 DEF Ends, Leaves
  <2> QED BY <2>6, <2>7, <2>8
<1>9. Library!mt6632_pmic_ctrl \in Seq(Y) /\ Library!mt6632_pwrup_top_setting \in Seq(Y)
  BY <1>1, <1>3, Mt6630Regs DEF Library!mt6632_pmic_ctrl, Library!mt6632_pwrup_top_setting
<1>10. PICK t : t = Library!mt6632_pwrdown_top_setting
  OBVIOUS
<1>11. t \in Seq(Y)
  BY <1>1, <1>3, <1>10, Mt6630Regs DEF Library!mt6632_pwrdown_top_setting
<1>12. /\ Len(t) = 3 /\ t[1] = Library!Try("topclock", "off") /\ t[2] = Library!Try("ldo", "off")
       /\ t[3] = Library!Try("bandgap", "half")
  BY <1>10 DEF Library!mt6632_pwrdown_top_setting
<1>13. Ends(t, "topclock", "off") /\ Ends(t, "ldo", "off")
  <2>1. /\ Puts(t[1], "topclock", "off") /\ Puts(t[2], "ldo", "off") /\ ~Writes(t[2], "topclock")
        /\ ~Writes(t[3], "topclock") /\ ~Writes(t[3], "ldo")
    BY <1>12, DoPuts
  <2> QED BY <1>12, <2>1 DEF Ends, Leaves
<1> QED BY <1>4, <1>5, <1>6, <1>8, <1>9, <1>10, <1>11, <1>13

LEMMA Mt6630Fits ==
  ASSUME NEW c
  PROVE  LET S == Seq(StepsOn(Own30, Nat)) IN
         /\ Library!mt6630_PowerUp(c) \in S /\ Library!mt6630_PowerUpTx(c) \in S
         /\ Library!mt6630_pre_search(c) \in S /\ Library!mt6630_restore_search(c) \in S
         /\ Library!mt6630_SetMonoStereo(c) \in S /\ Library!mt6630_GetCapArray(c) \in S
         /\ \A h : Library!mt6630_soft_mute_tune(c, h) \in S
         /\ Library!MT6630_FMOverBT(c) \in S /\ Library!MT6630_SetFreq_Tx(c) \in S
         /\ Library!mt6630_soft_mute_tune_Tx(c) \in S /\ Library!MT6630_lib_Rds_Tx_adapter \in S
<1> PICK R : R = Own30
  OBVIOUS
<1>1. PICK X : X = StepsOn(R, Usual)
  OBVIOUS
<1>2. Common \subseteq R /\ R \cap Library!BusClock = {}
  BY Mt6630Regs
<1>3. Seq(X) \subseteq Seq(StepsOn(R, Nat))
  BY Zenon, <1>1, UsualFits
<1>4. PICK d : d = Library!DspDownload(Library!RomVersion) /\ d \in Seq(X)
  BY Zenon, <1>1, <1>2, PlainParts
<1>5. /\ Library!mt6630_RampDown(c) \in Seq(X) /\ Library!mt6630_I2s_Setting \in Seq(X)
      /\ Library!mt6630_SetMonoStereo(c) \in Seq(X) /\ Library!mt6630_soft_mute_tune_Tx(c) \in Seq(X)
      /\ Library!Measure \in Seq(X) /\ Library!mt6630_GetCapArray(c) \in Seq(X)
  BY Zenon, <1>1, <1>2, PlainParts, Mt6630Parts DEF Library!mt6630_SetMonoStereo,
     Library!mt6630_soft_mute_tune_Tx, Library!mt6630_GetCapArray
<1>6. PICK u, w : /\ u = Library!Ignoring(Library!mt6630_I2s_Setting) /\ w = Library!When(c.i2s, u)
  OBVIOUS
<1>7. u \in Seq(StepsOn(R, Nat)) /\ w \in Seq(StepsOn(R, Nat))
  <2>1. u \in Seq(StepsOn(R, Nat))
    BY Zenon, <1>1, <1>5, <1>6, PlainIgnoring
  <2>2. << >> \in Seq(StepsOn(R, Nat))
    OBVIOUS
  <2> QED BY Zenon, <1>6, <2>1, <2>2 DEF Library!When
<1>8. /\ Library!Send(<<<<"clock", "on">>, Library!Host>>) \in X
      /\ Library!Send(<<<<"int_ext", "on">>, Library!Dsp>>) \in X
      /\ Library!Send(<<Library!Host, Library!Dsp>>) \in X
      /\ Library!Send(<<<<"audio", "up">>>>) \in X /\ Library!Send(<< >>) \in X
      /\ Library!Check("chip") \in X /\ Library!Lock(Library!End) \in X /\ Library!Write \in X
  BY Zenon, <1>1, <1>2, PlainFit, PlainBatches
<1>9. PICK t : t = Library!mt6630_pwrup_top_setting /\ t \in Seq(X)
  BY <1>1, Mt6630Settings
<1>10. Library!mt6630_PowerUp(c) \in Seq(StepsOn(R, Nat))
  <2>1. PICK a, b : /\ a = <<Library!Send(<<<<"clock", "on">>, Library!Host>>), Library!Check("chip")>>
                    /\ b = <<Library!Send(<<<<"int_ext", "on">>, Library!Dsp>>)>>
    OBVIOUS
  <2>2. a \in Seq(X) /\ b \in Seq(X)
    BY <1>8, <2>1
  <2>3. Library!mt6630_PowerUp(c) = t \o a \o d \o w \o b
    BY Zenon, <1>4, <1>6, <1>9, <2>1 DEF Library!mt6630_PowerUp, Library!mt6630_pwrup_clock_on_reg_op,
       Library!mt6630_pwrup_digital_init_reg_op, Library!mt6630_pwrup_DSP_download, Library!mt6630_get_rom_version
  <2>4. t \o a \o d \o w \o b \in Seq(StepsOn(R, Nat))
    BY Zenon, <1>3, <1>4, <1>7, <1>9, <2>2, PlainCat
  <2> QED BY Zenon, <2>3, <2>4
<1>11. Library!mt6630_PowerUpTx(c) \in Seq(StepsOn(R, Nat))
  <2>1. PICK a, b : /\ a = <<Library!Send(<<<<"clock", "on">>, Library!Host>>)>>
                    /\ b = <<Library!Send(<<<<"int_ext", "on">>, Library!Dsp>>),
                             Library!Send(<<Library!Host, Library!Dsp>>)>>
    OBVIOUS
  <2>2. a \in Seq(X) /\ b \in Seq(X)
    BY <1>8, <2>1
  <2>3. Library!mt6630_PowerUpTx(c) = t \o a \o d \o w \o b
    BY Zenon, <1>4, <1>6, <1>9, <2>1 DEF Library!mt6630_PowerUpTx, Library!mt6630_pwrup_clock_on_tx_reg_op,
       Library!mt6630_pwrup_digital_init_reg_op, Library!mt6630_tx_rdson_deviation_reg_op,
       Library!mt6630_pwrup_DSP_download, Library!mt6630_get_rom_version
  <2>4. t \o a \o d \o w \o b \in Seq(StepsOn(R, Nat))
    BY Zenon, <1>3, <1>4, <1>7, <1>9, <2>2, PlainCat
  <2> QED BY Zenon, <2>3, <2>4
<1>12. Library!MT6630_SetFreq_Tx(c) \in Seq(StepsOn(R, Nat))
  <2>1. PICK a, r, b : /\ a = <<Library!Send(<<Library!Host, Library!Dsp>>)>>
                       /\ r = Library!mt6630_RampDown(c) /\ r \in Seq(X)
                       /\ b = <<Library!Write, Library!Send(<<<<"audio", "up">>>>)>>
    BY <1>5
  <2>2. a \in Seq(X) /\ b \in Seq(X)
    BY <1>8, <2>1
  <2>3. a \o r \o b \in Seq(X)
    BY <2>1, <2>2
  <2>4. Library!MT6630_SetFreq_Tx(c) = Library!Claimed(a \o r \o b)
    BY Zenon, <2>1 DEF Library!MT6630_SetFreq_Tx, Library!mt6630_tx_rdson_deviation_reg_op,
       Library!mt6630_tune_tx_reg_op
  <2> QED BY Zenon, <1>1, <2>3, <2>4, ClaimedFits
<1>13. Library!mt6630_pre_search(c) \in Seq(StepsOn(R, Nat)) /\ Library!mt6630_restore_search(c) \in Seq(StepsOn(R, Nat))
  BY Zenon, <1>1, <1>5, PlainIgnoring DEF Library!mt6630_pre_search, Library!mt6630_restore_search
<1>14. Library!MT6630_lib_Rds_Tx_adapter \in Seq(X)
  BY <1>8 DEF Library!MT6630_lib_Rds_Tx_adapter
<1>15. /\ Library!mt6630_SetMonoStereo(c) \in Seq(StepsOn(R, Nat)) /\ Library!mt6630_GetCapArray(c) \in Seq(StepsOn(R, Nat))
       /\ Library!mt6630_soft_mute_tune_Tx(c) \in Seq(StepsOn(R, Nat))
       /\ Library!MT6630_lib_Rds_Tx_adapter \in Seq(StepsOn(R, Nat))
       /\ \A h : Library!mt6630_soft_mute_tune(c, h) \in Seq(StepsOn(R, Nat))
  BY Zenon, <1>3, <1>5, <1>14 DEF Library!mt6630_soft_mute_tune
<1>16. Library!MT6630_FMOverBT(c) \in Seq(StepsOn(R, Nat))
  BY Zenon, <1>6, <1>7 DEF Library!MT6630_FMOverBT
<1> QED BY Zenon, <1>10, <1>11, <1>12, <1>13, <1>15, <1>16

LEMMA Mt6632Fits ==
  ASSUME NEW c
  PROVE  LET S == Seq(StepsOn(Own32, Nat)) IN
         /\ Library!mt6632_PowerUp(c) \in S
         /\ Library!mt6632_pre_search(c) \in S /\ Library!mt6632_restore_search(c) \in S
         /\ Library!mt6632_SetMonoStereo(c) \in S /\ Library!mt6632_GetCapArray(c) \in S
         /\ \A h : Library!mt6632_soft_mute_tune(c, h) \in S
         /\ Library!MT6632_FMOverBT(c) \in S
<1> PICK R : R = Own32
  OBVIOUS
<1>1. PICK X : X = StepsOn(R, Usual)
  OBVIOUS
<1>2. Common \subseteq R /\ R \cap Library!BusClock = {}
  BY Mt6630Regs
<1>3. Seq(X) \subseteq Seq(StepsOn(R, Nat))
  BY Zenon, <1>1, UsualFits
<1>4. PICK d : d = Library!DspDownload(Library!RomVersion) /\ d \in Seq(X)
  BY Zenon, <1>1, <1>2, PlainParts
<1>5. /\ Library!mt6632_RampDown(c) \in Seq(X) /\ Library!mt6632_I2s_Setting \in Seq(X)
      /\ Library!mt6632_SetMonoStereo(c) \in Seq(X)
      /\ Library!Measure \in Seq(X) /\ Library!mt6632_GetCapArray(c) \in Seq(X)
  BY Zenon, <1>1, <1>2, PlainParts, Mt6630Parts DEF Library!mt6632_SetMonoStereo, Library!mt6632_GetCapArray
<1>6. PICK u, w : /\ u = Library!Ignoring(Library!mt6632_I2s_Setting) /\ w = Library!When(c.i2s, u)
  OBVIOUS
<1>7. u \in Seq(StepsOn(R, Nat)) /\ w \in Seq(StepsOn(R, Nat))
  <2>1. u \in Seq(StepsOn(R, Nat))
    BY Zenon, <1>1, <1>5, <1>6, PlainIgnoring
  <2>2. << >> \in Seq(StepsOn(R, Nat))
    OBVIOUS
  <2> QED BY Zenon, <1>6, <2>1, <2>2 DEF Library!When
<1>8. /\ Library!Send(<<<<"clock", "on">>, Library!Host>>) \in X
      /\ Library!Send(<<<<"int_ext", "on">>, Library!Dsp>>) \in X
      /\ Library!Check("chip") \in X /\ Library!ToHost(0) \in X /\ Library!ToDsp(0) \in X
  BY Zenon, <1>1, <1>2, PlainFit, PlainBatches
<1>9. PICK p, t : /\ p = Library!mt6632_pmic_ctrl /\ p \in Seq(X)
                  /\ t = Library!mt6632_pwrup_top_setting /\ t \in Seq(X)
  BY <1>1, Mt6630Settings
<1>10. Library!mt6632_PowerUp(c) \in Seq(StepsOn(R, Nat))
  <2>1. PICK a, b : /\ a = <<Library!Send(<<<<"clock", "on">>, Library!Host>>), Library!Check("chip")>>
                    /\ b = <<Library!Send(<<<<"int_ext", "on">>, Library!Dsp>>),
                             Library!ToHost(0), Library!ToDsp(0)>>
    OBVIOUS
  <2>2. a \in Seq(X) /\ b \in Seq(X)
    BY <1>8, <2>1
  <2>3. Library!mt6632_PowerUp(c) = p \o t \o a \o d \o w \o b
    BY Zenon, <1>4, <1>6, <1>9, <2>1 DEF Library!mt6632_PowerUp, Library!mt6632_pwrup_clock_on_reg_op,
       Library!mt6632_pwrup_digital_init_reg_op, Library!mt6632_pwrup_DSP_download, Library!mt6632_get_rom_version
  <2>4. p \o t \o a \o d \o w \o b \in Seq(StepsOn(R, Nat))
    BY Zenon, <1>3, <1>4, <1>7, <1>9, <2>2, PlainCat
  <2> QED BY Zenon, <2>3, <2>4
<1>11. Library!mt6632_pre_search(c) \in Seq(StepsOn(R, Nat)) /\ Library!mt6632_restore_search(c) \in Seq(StepsOn(R, Nat))
  BY Zenon, <1>1, <1>5, PlainIgnoring DEF Library!mt6632_pre_search, Library!mt6632_restore_search
<1>12. /\ Library!mt6632_SetMonoStereo(c) \in Seq(StepsOn(R, Nat)) /\ Library!mt6632_GetCapArray(c) \in Seq(StepsOn(R, Nat))
       /\ \A h : Library!mt6632_soft_mute_tune(c, h) \in Seq(StepsOn(R, Nat))
  BY Zenon, <1>3, <1>5 DEF Library!mt6632_soft_mute_tune
<1>13. Library!MT6632_FMOverBT(c) \in Seq(StepsOn(R, Nat))
  BY Zenon, <1>6, <1>7 DEF Library!MT6632_FMOverBT
<1> QED BY Zenon, <1>10, <1>11, <1>12, <1>13

LEMMA Mt6630Down ==
  ASSUME NEW c
  PROVE  /\ Gives(Library!mt6630_PowerDown(c), Own30, {"topclock", "ldo", "fmbuf", "xtal", "topoff", "paldo"})
         /\ Gives(Library!mt6632_PowerDown(c), Own32, {"topclock", "ldo"})
<1>1. ASSUME NEW R, Common \subseteq R, R \cap Library!BusClock = {}, NEW s, s \in Seq(StepsOn(R, Usual)),
             NEW Z, \A r \in Z : Ends(s, r, "off")
      PROVE  Gives(<<Library!Send(<<<<"rf", "none">>, <<"clock", "off">>>>)>> \o s, R, Z)
  <2>1. PICK a : a = <<Library!Send(<<<<"rf", "none">>, <<"clock", "off">>>>)>>
    OBVIOUS
  <2>2. Library!Send(<<<<"rf", "none">>, <<"clock", "off">>>>) \in StepsOn(R, Usual)
    BY Zenon, <1>1, PlainFit, PlainBatches
  <2>3. a \in Seq(StepsOn(R, Usual))
    BY <2>1, <2>2
  <2>4. a \in Seq(StepsOn(R, Nat)) /\ s \in Seq(StepsOn(R, Nat))
    BY <1>1, <2>3, UsualFits
  <2>5. a \o s \in Seq(StepsOn(R, Nat)) /\ \A r \in Z : Ends(a \o s, r, "off")
    BY Zenon, <1>1, <2>4, PlainCat, CatEndsLast
  <2> QED BY Zenon, <2>1, <2>5 DEF Gives
<1> QED BY Zenon, <1>1, Mt6630Regs, Mt6630Settings DEF Library!mt6630_PowerDown, Library!mt6632_PowerDown,
      Library!mt6630_pwrdown_reg_op, Library!mt6632_pwrdown_reg_op

-----------------------------------------------------------------------------
(* Every function of every chip. *)

Own(c) ==
  CASE c.name = "mt6631"   -> Own31(c) [] c.name = "mt6635" -> Own35
    [] c.name = "mt6635_2" -> OwnC2    [] c.name = "mt6627" -> Own27(c)
    [] c.name = "mt6580"   -> Own80    [] c.name = "mt6630" -> Own30
    [] c.name = "mt6632"   -> Own32

Receiving    == {"PowerUp", "PowerDown", "tune", "soft_mute_tune", "pre_search", "restore_search",
                 "SetMonoStereo", "GetCapArray"}
Transmitting == {"PowerUpTx", "PowerDownTx", "SetFreq_Tx", "soft_mute_tune_Tx", "Rds_Tx"}
Known(c) ==
  Receiving \cup (IF c.name \in {"mt6630", "mt6632"} THEN {"FMOverBT"} ELSE {})
            \cup (IF c.name = "mt6630" THEN Transmitting ELSE {})

\* The functions that set the bus clock anew.
Repairing == {"tune", "PowerDown", "pre_search", "restore_search"}

Muxed == ~Library!Is({"mt6635_2"})

\* What is known of each function's steps.
Fits(h) == \A f \in Known(chip) : Library!Steps(f, h) \in Seq(StepsOn(Own(chip), Nat))
Orders(h) ==
  Library!Hopping => /\ \A f \in Known(chip) : InOrder(Library!Steps(f, h), Muxed)
                     /\ \A f \in Repairing : Slows(Library!Steps(f, h))
TuneEnds(h) ==
  LET s == Library!Steps("tune", h) IN
  /\ Ends(s, "rf", "dsp") /\ Ends(s, "audio", "up")
  /\ \A r \in Library!Used : Ends(s, r, "on")
  /\ Library!Hopping => (h => Ends(s, "spi", "64")) /\ (~h => Ends(s, "spi", "26"))
  /\ chip.mt6625 => (h => Ends(s, "i2s_hop", "on")) /\ (~h => Ends(s, "i2s_hop", "off"))
DownEnds(h) ==
  \A r \in (Library!Outside \cap Own(chip)) \ Library!Leftover :
    Ends(Library!Steps("PowerDown", h), r, Home(r))
Serves(h) == Fits(h) /\ Orders(h) /\ TuneEnds(h) /\ DownEnds(h)

LEMMA ChipsAre ==
  ASSUME NEW c \in AllChips
  PROVE  /\ c.name \in {"mt6631", "mt6635", "mt6635_2", "mt6627", "mt6580", "mt6630", "mt6632"}
         /\ c.name = "mt6631" => IsMt6631(c)
         /\ c.mt6625 \in BOOLEAN /\ (c.mt6625 => c.name = "mt6627")
<1>1. ASSUME NEW n, NEW w, NEW o, NEW k, NEW i, c = Variant(n, w, o, k, i)
      PROVE  c.name = n /\ c.hwid = w /\ c.own = o /\ c.mt6625 = k
  BY <1>1 DEF Variant
<1>2. \/ c.name = "mt6631" /\ c.hwid \in {0, 1, 3} /\ c.own = FALSE /\ c.mt6625 = FALSE
      \/ c.name = "mt6631" /\ c.hwid = 0 /\ c.own = TRUE /\ c.mt6625 = FALSE
      \/ c.name = "mt6627" /\ c.mt6625 = TRUE
      \/ c.name \in {"mt6635", "mt6635_2", "mt6627", "mt6580", "mt6630", "mt6632"} /\ c.mt6625 = FALSE
  BY Zenon, <1>1 DEF AllChips
<1> QED BY Zenon, <1>2 DEF IsMt6631, Library!Legacy, Library!Connac_1_0, Library!Connac_1_5

LEMMA StepsAre ==
  ASSUME NEW h
  PROVE  /\ Library!Steps("PowerUp", h) = Library!PowerUp
         /\ Library!Steps("PowerDown", h) = Library!PowerDown
         /\ Library!Steps("tune", h) = Library!RampDown \o Library!SetFreq(h)
         /\ Library!Steps("soft_mute_tune", h) = Library!soft_mute_tune(h)
         /\ Library!Steps("pre_search", h) = Library!pre_search
         /\ Library!Steps("restore_search", h) = Library!restore_search
         /\ Library!Steps("SetMonoStereo", h) = Library!SetMonoStereo
         /\ Library!Steps("GetCapArray", h) = Library!GetCapArray
  BY Zenon DEF Library!Steps, Library!fm_tune

LEMMA TxStepsAre ==
  ASSUME NEW h
  PROVE  /\ chip.name = "mt6630" => Library!Steps("FMOverBT", h) = Library!MT6630_FMOverBT(chip)
         /\ chip.name = "mt6632" => Library!Steps("FMOverBT", h) = Library!MT6632_FMOverBT(chip)
         /\ Library!Steps("PowerUpTx", h) = Library!mt6630_PowerUpTx(chip)
         /\ Library!Steps("PowerDownTx", h) = Library!mt6630_PowerDownTx(chip)
         /\ Library!Steps("SetFreq_Tx", h) = Library!MT6630_SetFreq_Tx(chip)
         /\ Library!Steps("soft_mute_tune_Tx", h) = Library!mt6630_soft_mute_tune_Tx(chip)
         /\ Library!Steps("Rds_Tx", h) = Library!MT6630_lib_Rds_Tx_adapter
  BY Zenon DEF Library!Steps, Library!Is

LEMMA Mt6631Serves ==
  ASSUME chip \in AllChips, chip.name = "mt6631", NEW h \in BOOLEAN
  PROVE  Serves(h)
<1> PICK R : R = Own31(chip)
  OBVIOUS
<1> PICK m : m = Muxed
  OBVIOUS
<1>1. IsMt6631(chip) /\ ~chip.mt6625 /\ Own(chip) = R /\ Known(chip) = Receiving
  BY ChipsAre DEF Own, Known
<1>2. /\ Library!Steps("PowerUp", h) = Library!mt6631_PowerUp(chip)
      /\ Library!Steps("PowerDown", h) = Library!mt6631_PowerDown(chip)
      /\ Library!Steps("tune", h) = Library!mt6631_RampDown(chip) \o Library!mt6631_SetFreq(chip, h)
      /\ Library!Steps("soft_mute_tune", h) = Library!mt6631_soft_mute_tune(chip, h)
      /\ Library!Steps("pre_search", h) = Library!mt6631_pre_search(chip)
      /\ Library!Steps("restore_search", h) = Library!mt6631_restore_search(chip)
      /\ Library!Steps("SetMonoStereo", h) = Library!mt6631_SetMonoStereo(chip)
      /\ Library!Steps("GetCapArray", h) = Library!mt6631_GetCapArray(chip)
  BY Zenon, StepsAre DEF Library!PowerUp, Library!PowerDown, Library!RampDown, Library!SetFreq,
     Library!soft_mute_tune, Library!pre_search, Library!restore_search, Library!SetMonoStereo,
     Library!GetCapArray, Library!Is
<1>3. /\ Flows(Library!mt6631_PowerUp(chip), R, m)
      /\ Flows(Library!mt6631_SetMonoStereo(chip), R, m) /\ Flows(Library!mt6631_GetCapArray(chip), R, m)
  BY Zenon, <1>1, Mt6631Up, CalmFlows
<1>4. /\ Retuned(Library!Steps("tune", h), R, m, h)
      /\ Returned(Library!Steps("PowerDown", h), R, m, Given31(chip))
  BY Zenon, <1>1, <1>2, Mt6631Tune, Mt6631Down
<1>5. \A f \in Receiving : Flows(Library!Steps(f, h), R, m)
  BY Zenon, <1>1, <1>2, <1>3, <1>4, Mt6631Scan DEF Receiving, Retuned, Returned
<1>6. Fits(h)
  BY Zenon, <1>1, <1>5 DEF Fits, Flows
<1>7. Orders(h)
  <2>1. \A f \in Repairing : Slows(Library!Steps(f, h))
    BY Zenon, <1>1, <1>2, <1>4, Mt6631Scan DEF Repairing, Retuned, Returned
  <2> QED BY Zenon, <1>1, <1>5, <2>1 DEF Orders, Flows
<1>8. TuneEnds(h)
  <2>1. \A r \in Library!Used : r \in {"int_main", "int_ext"}
    BY Zenon DEF Library!Used, Library!Is
  <2> QED BY Zenon, <1>1, <1>4, <2>1 DEF TuneEnds, Retuned
<1>9. DownEnds(h)
  <2>1. (Library!Outside \cap R) \ Library!Leftover \subseteq Given31(chip)
    BY <1>1 DEF Own31, Given31, Stages, Common, IsMt6631, Library!Outside, Library!Leftover, Library!Is, Library!Tldo,
       Library!BusClock, Library!Legacy, Library!Connac_1_0, Library!Connac_1_5
  <2> QED BY Zenon, <1>1, <1>4, <2>1 DEF DownEnds, Returned
<1> QED BY Zenon, <1>6, <1>7, <1>8, <1>9 DEF Serves

LEMMA Mt6635Serves ==
  ASSUME chip \in AllChips, chip.name = "mt6635", NEW h \in BOOLEAN
  PROVE  Serves(h)
<1>0. PICK m : m = Muxed
  OBVIOUS
<1>1. ~chip.mt6625 /\ Own(chip) = Own35 /\ Known(chip) = Receiving
  BY ChipsAre DEF Own, Known
<1>2. /\ Library!Steps("PowerUp", h) = Library!mt6635_PowerUp(chip)
      /\ Library!Steps("PowerDown", h) = Library!mt6635_PowerDown(chip)
      /\ Library!Steps("tune", h) = Library!mt6635_RampDown(chip) \o Library!mt6635_SetFreq(chip, h)
      /\ Library!Steps("soft_mute_tune", h) = Library!mt6635_soft_mute_tune(chip, h)
      /\ Library!Steps("pre_search", h) = Library!mt6635_pre_search(chip)
      /\ Library!Steps("restore_search", h) = Library!mt6635_restore_search(chip)
      /\ Library!Steps("SetMonoStereo", h) = Library!mt6635_SetMonoStereo(chip)
      /\ Library!Steps("GetCapArray", h) = Library!mt6635_GetCapArray(chip)
  BY Zenon, StepsAre DEF Library!PowerUp, Library!PowerDown, Library!RampDown, Library!SetFreq,
     Library!soft_mute_tune, Library!pre_search, Library!restore_search, Library!SetMonoStereo,
     Library!GetCapArray, Library!Is
<1>3. /\ Flows(Library!mt6635_PowerUp(chip), Own35, m)
      /\ Flows(Library!mt6635_SetMonoStereo(chip), Own35, m) /\ Flows(Library!mt6635_GetCapArray(chip), Own35, m)
  BY Zenon, <1>1, Mt6635Up, CalmFlows
<1>4. /\ Retuned(Library!Steps("tune", h), Own35, m, h)
      /\ Returned(Library!Steps("PowerDown", h), Own35, m, Given35)
  BY Zenon, <1>1, <1>2, Mt6635Tune, Mt6635Down
<1>5. \A f \in Receiving : Flows(Library!Steps(f, h), Own35, m)
  BY Zenon, <1>1, <1>2, <1>3, <1>4, Mt6635Scan DEF Receiving, Retuned, Returned
<1>6. Fits(h)
  BY Zenon, <1>1, <1>5 DEF Fits, Flows
<1>7. Orders(h)
  <2>1. \A f \in Repairing : Slows(Library!Steps(f, h))
    BY Zenon, <1>1, <1>2, <1>4, Mt6635Scan DEF Repairing, Retuned, Returned
  <2> QED BY Zenon, <1>0, <1>1, <1>5, <2>1 DEF Orders, Flows
<1>8. TuneEnds(h)
  <2>1. \A r \in Library!Used : r \in {"int_main", "int_ext"}
    BY Zenon DEF Library!Used, Library!Is
  <2> QED BY Zenon, <1>1, <1>4, <2>1 DEF TuneEnds, Retuned
<1>9. DownEnds(h)
  <2>1. (Library!Outside \cap Own35) \ Library!Leftover \subseteq Given35
    BY DEF Own35, Given35, Stages, Common, Library!Outside, Library!Leftover, Library!Is, Library!Tldo,
       Library!BusClock
  <2> QED BY Zenon, <1>1, <1>4, <2>1 DEF DownEnds, Returned
<1> QED BY Zenon, <1>6, <1>7, <1>8, <1>9 DEF Serves

LEMMA C2Serves ==
  ASSUME chip \in AllChips, chip.name = "mt6635_2", NEW h \in BOOLEAN
  PROVE  Serves(h)
<1>0. PICK m : m = Muxed
  OBVIOUS
<1>1. ~m /\ ~chip.mt6625 /\ Own(chip) = OwnC2 /\ Known(chip) = Receiving
  <2>1. ~m
    BY Zenon, <1>0 DEF Muxed, Library!Is
  <2> QED BY <2>1, ChipsAre DEF Own, Known
<1>2. /\ Library!Steps("PowerUp", h) = Library!c2_PowerUp(chip)
      /\ Library!Steps("PowerDown", h) = Library!c2_PowerDown(chip)
      /\ Library!Steps("tune", h) = Library!c2_RampDown(chip) \o Library!c2_SetFreq(chip, h)
      /\ Library!Steps("soft_mute_tune", h) = Library!c2_soft_mute_tune(chip, h)
      /\ Library!Steps("pre_search", h) = Library!c2_pre_search(chip)
      /\ Library!Steps("restore_search", h) = Library!c2_restore_search(chip)
      /\ Library!Steps("SetMonoStereo", h) = Library!c2_SetMonoStereo(chip)
      /\ Library!Steps("GetCapArray", h) = Library!c2_GetCapArray(chip)
  BY Zenon, StepsAre DEF Library!PowerUp, Library!PowerDown, Library!RampDown, Library!SetFreq,
     Library!soft_mute_tune, Library!pre_search, Library!restore_search, Library!SetMonoStereo,
     Library!GetCapArray, Library!Is
<1>3. /\ Flows(Library!c2_PowerUp(chip), OwnC2, m)
      /\ Flows(Library!c2_SetMonoStereo(chip), OwnC2, m) /\ Flows(Library!c2_GetCapArray(chip), OwnC2, m)
  BY Zenon, <1>1, C2Up, CalmFlows
<1>4. /\ Retuned(Library!Steps("tune", h), OwnC2, m, h)
      /\ Returned(Library!Steps("PowerDown", h), OwnC2, m, GivenC2)
  BY Zenon, <1>1, <1>2, C2Tune, C2Down
<1>5. \A f \in Receiving : Flows(Library!Steps(f, h), OwnC2, m)
  BY Zenon, <1>1, <1>2, <1>3, <1>4, C2Scan DEF Receiving, Retuned, Returned
<1>6. Fits(h)
  BY Zenon, <1>1, <1>5 DEF Fits, Flows
<1>7. Orders(h)
  <2>1. \A f \in Repairing : Slows(Library!Steps(f, h))
    BY Zenon, <1>1, <1>2, <1>4, C2Scan DEF Repairing, Retuned, Returned
  <2> QED BY Zenon, <1>0, <1>1, <1>5, <2>1 DEF Orders, Flows
<1>8. TuneEnds(h)
  <2>1. \A r \in Library!Used : r \in {"int_main", "int_ext"}
    BY Zenon DEF Library!Used, Library!Is
  <2> QED BY Zenon, <1>1, <1>4, <2>1 DEF TuneEnds, Retuned
<1>9. DownEnds(h)
  <2>1. (Library!Outside \cap OwnC2) \ Library!Leftover \subseteq GivenC2
    BY DEF OwnC2, GivenC2, Stages, Common, Library!Outside, Library!Leftover, Library!Is, Library!Tldo,
       Library!BusClock
  <2> QED BY Zenon, <1>1, <1>4, <2>1 DEF DownEnds, Returned
<1> QED BY Zenon, <1>6, <1>7, <1>8, <1>9 DEF Serves

LEMMA Mt6627Serves ==
  ASSUME chip \in AllChips, chip.name = "mt6627", NEW h \in BOOLEAN
  PROVE  Serves(h)
<1>1. Own(chip) = Own27(chip) /\ Known(chip) = Receiving /\ ~Library!Hopping
  BY DEF Own, Known, Library!Hopping, Library!Is
<1>2. /\ Library!Steps("PowerUp", h) = Library!mt6627_PowerUp(chip)
      /\ Library!Steps("PowerDown", h) = Library!mt6627_PowerDown(chip)
      /\ Library!Steps("tune", h) = Library!mt6627_RampDown(chip) \o Library!mt6627_SetFreq(chip, h)
      /\ Library!Steps("soft_mute_tune", h) = Library!mt6627_soft_mute_tune(chip, h)
      /\ Library!Steps("pre_search", h) = Library!mt6627_pre_search(chip)
      /\ Library!Steps("restore_search", h) = Library!mt6627_restore_search(chip)
      /\ Library!Steps("SetMonoStereo", h) = Library!mt6627_SetMonoStereo(chip)
      /\ Library!Steps("GetCapArray", h) = << >>
  BY Zenon, StepsAre DEF Library!PowerUp, Library!PowerDown, Library!RampDown, Library!SetFreq,
     Library!soft_mute_tune, Library!pre_search, Library!restore_search, Library!SetMonoStereo,
     Library!GetCapArray, Library!Is
<1>3. << >> \in Seq(StepsOn(Own27(chip), Nat))
  OBVIOUS
<1>4. /\ Tunes(Library!Steps("tune", h), Own27(chip), {"int_main", "int_ext"})
      /\ Gives(Library!Steps("PowerDown", h), Own27(chip), {"pad"} \cup (IF chip.mt6625 THEN {"xtal"} ELSE {}))
      /\ chip.mt6625 => (h => Ends(Library!Steps("tune", h), "i2s_hop", "on"))
                       /\ (~h => Ends(Library!Steps("tune", h), "i2s_hop", "off"))
  BY Zenon, <1>2, Mt6627Tune, Mt6627Down
<1>5. \A f \in Receiving : Library!Steps(f, h) \in Seq(StepsOn(Own27(chip), Nat))
  BY Zenon, <1>2, <1>3, <1>4, Mt6627Fits DEF Receiving, Tunes, Gives
<1>6. \A f \in Known(chip) \ Receiving : Library!Steps(f, h) \in Seq(StepsOn(Own27(chip), Nat))
  BY Zenon, <1>1
<1>7. Fits(h)
  BY Zenon, <1>1, <1>5, <1>6 DEF Fits
<1>8. Orders(h)
  BY <1>1 DEF Orders
<1>9. TuneEnds(h)
  <2>1. \A r \in Library!Used : r \in {"int_main", "int_ext"}
    BY Zenon DEF Library!Used, Library!Is
  <2> QED BY Zenon, <1>1, <1>4, <2>1 DEF TuneEnds, Tunes
<1>10. DownEnds(h)
  <2>1. (Library!Outside \cap Own27(chip)) \ Library!Leftover \subseteq {"pad"} \cup (IF chip.mt6625 THEN {"xtal"} ELSE {})
    BY DEF Own27, Common, Library!Outside, Library!Leftover, Library!Is, Library!Tldo, Library!BusClock
  <2>2. "spi" \notin Own27(chip)
    BY Mt6627Regs DEF Library!BusClock
  <2> QED BY Zenon, <1>1, <1>4, <2>1, <2>2 DEF DownEnds, Gives, Home
<1> QED BY Zenon, <1>7, <1>8, <1>9, <1>10 DEF Serves

LEMMA Mt6580Serves ==
  ASSUME chip \in AllChips, chip.name = "mt6580", NEW h \in BOOLEAN
  PROVE  Serves(h)
<1>1. ~chip.mt6625 /\ Own(chip) = Own80 /\ Known(chip) = Receiving /\ ~Library!Hopping
  BY ChipsAre DEF Own, Known, Library!Hopping, Library!Is
<1>2. /\ Library!Steps("PowerUp", h) = Library!mt6580_PowerUp(chip)
      /\ Library!Steps("PowerDown", h) = Library!mt6580_PowerDown(chip)
      /\ Library!Steps("tune", h) = Library!mt6580_RampDown(chip) \o Library!mt6580_SetFreq(chip, h)
      /\ Library!Steps("soft_mute_tune", h) = Library!mt6580_soft_mute_tune(chip, h)
      /\ Library!Steps("pre_search", h) = Library!mt6580_pre_search(chip)
      /\ Library!Steps("restore_search", h) = Library!mt6580_restore_search(chip)
      /\ Library!Steps("SetMonoStereo", h) = << >>
      /\ Library!Steps("GetCapArray", h) = Library!mt6580_GetCapArray(chip)
  BY Zenon, StepsAre DEF Library!PowerUp, Library!PowerDown, Library!RampDown, Library!SetFreq,
     Library!soft_mute_tune, Library!pre_search, Library!restore_search, Library!SetMonoStereo,
     Library!GetCapArray, Library!Is
<1>3. << >> \in Seq(StepsOn(Own80, Nat))
  OBVIOUS
<1>4. /\ Tunes(Library!Steps("tune", h), Own80, {"int_main", "int_ext"})
      /\ Gives(Library!Steps("PowerDown", h), Own80, Supplies)
  BY Zenon, <1>2, Mt6580Tune, Mt6580Down
<1>5. \A f \in Receiving : Library!Steps(f, h) \in Seq(StepsOn(Own80, Nat))
  BY Zenon, <1>2, <1>3, <1>4, Mt6580Fits DEF Receiving, Tunes, Gives
<1>6. \A f \in Known(chip) \ Receiving : Library!Steps(f, h) \in Seq(StepsOn(Own80, Nat))
  BY Zenon, <1>1
<1>7. Fits(h)
  BY Zenon, <1>1, <1>5, <1>6 DEF Fits
<1>8. Orders(h)
  BY <1>1 DEF Orders
<1>9. TuneEnds(h)
  <2>1. \A r \in Library!Used : r \in {"int_main", "int_ext"}
    BY Zenon DEF Library!Used, Library!Is
  <2> QED BY Zenon, <1>1, <1>4, <2>1 DEF TuneEnds, Tunes
<1>10. DownEnds(h)
  <2>1. (Library!Outside \cap Own80) \ Library!Leftover \subseteq Supplies
    BY DEF Own80, Supplies, Common, Library!Outside, Library!Leftover, Library!Is, Library!Tldo,
       Library!BusClock
  <2>2. "spi" \notin Own80
    BY Mt6580Regs DEF Library!BusClock
  <2> QED BY Zenon, <1>1, <1>4, <2>1, <2>2 DEF DownEnds, Gives, Home
<1> QED BY Zenon, <1>7, <1>8, <1>9, <1>10 DEF Serves

LEMMA Mt6630Serves ==
  ASSUME chip \in AllChips, chip.name = "mt6630", NEW h \in BOOLEAN
  PROVE  Serves(h)
<1>1. ~chip.mt6625 /\ Own(chip) = Own30 /\ Known(chip) = Receiving \cup {"FMOverBT"} \cup Transmitting /\ ~Library!Hopping
  BY ChipsAre DEF Own, Known, Library!Hopping, Library!Is
<1>2. /\ Library!Steps("PowerUp", h) = Library!mt6630_PowerUp(chip)
      /\ Library!Steps("PowerDown", h) = Library!mt6630_PowerDown(chip)
      /\ Library!Steps("tune", h) = Library!mt6630_RampDown(chip) \o Library!mt6630_SetFreq(chip, h)
      /\ Library!Steps("soft_mute_tune", h) = Library!mt6630_soft_mute_tune(chip, h)
      /\ Library!Steps("pre_search", h) = Library!mt6630_pre_search(chip)
      /\ Library!Steps("restore_search", h) = Library!mt6630_restore_search(chip)
      /\ Library!Steps("SetMonoStereo", h) = Library!mt6630_SetMonoStereo(chip)
      /\ Library!Steps("GetCapArray", h) = Library!mt6630_GetCapArray(chip)
  BY Zenon, StepsAre DEF Library!PowerUp, Library!PowerDown, Library!RampDown, Library!SetFreq,
     Library!soft_mute_tune, Library!pre_search, Library!restore_search, Library!SetMonoStereo,
     Library!GetCapArray, Library!Is
<1>4. /\ Tunes(Library!Steps("tune", h), Own30, {"int_ext"})
      /\ Gives(Library!Steps("PowerDown", h), Own30, {"topclock", "ldo", "fmbuf", "xtal", "topoff", "paldo"})
  BY Zenon, <1>2, Mt6630Regs, Mt6630Tune, Mt6630Down
<1>5. \A f \in Receiving : Library!Steps(f, h) \in Seq(StepsOn(Own30, Nat))
  BY Zenon, <1>2, <1>4, Mt6630Fits DEF Receiving, Tunes, Gives
<1>6. \A f \in Known(chip) \ Receiving : Library!Steps(f, h) \in Seq(StepsOn(Own30, Nat))
  <2>1. /\ Library!Steps("FMOverBT", h) \in Seq(StepsOn(Own30, Nat))
        /\ Library!Steps("PowerUpTx", h) \in Seq(StepsOn(Own30, Nat))
        /\ Library!Steps("SetFreq_Tx", h) \in Seq(StepsOn(Own30, Nat))
        /\ Library!Steps("soft_mute_tune_Tx", h) \in Seq(StepsOn(Own30, Nat))
        /\ Library!Steps("Rds_Tx", h) \in Seq(StepsOn(Own30, Nat))
    BY Zenon, Mt6630Fits, TxStepsAre
  <2>2. Library!Steps("PowerDownTx", h) \in Seq(StepsOn(Own30, Nat))
    BY Zenon, Mt6630Down, TxStepsAre DEF Gives, Library!mt6630_PowerDownTx
  <2>3. Known(chip) \ Receiving \subseteq {"FMOverBT", "PowerUpTx", "PowerDownTx", "SetFreq_Tx", "soft_mute_tune_Tx", "Rds_Tx"}
    BY <1>1 DEF Transmitting
  <2> QED BY Zenon, <2>1, <2>2, <2>3
<1>7. Fits(h)
  BY Zenon, <1>1, <1>5, <1>6 DEF Fits
<1>8. Orders(h)
  BY <1>1 DEF Orders
<1>9. TuneEnds(h)
  <2>1. \A r \in Library!Used : r \in {"int_ext"}
    BY Zenon DEF Library!Used, Library!Is
  <2> QED BY Zenon, <1>1, <1>4, <2>1 DEF TuneEnds, Tunes
<1>10. DownEnds(h)
  <2>1. (Library!Outside \cap Own30) \ Library!Leftover \subseteq {"topclock", "ldo", "fmbuf", "xtal", "topoff", "paldo"}
    BY DEF Own30, Common, Library!Outside, Library!Leftover, Library!Is, Library!Tldo, Library!BusClock
  <2>2. "spi" \notin Own30
    BY Mt6630Regs DEF Library!BusClock
  <2> QED BY Zenon, <1>1, <1>4, <2>1, <2>2 DEF DownEnds, Gives, Home
<1> QED BY Zenon, <1>7, <1>8, <1>9, <1>10 DEF Serves

LEMMA Mt6632Serves ==
  ASSUME chip \in AllChips, chip.name = "mt6632", NEW h \in BOOLEAN
  PROVE  Serves(h)
<1>1. ~chip.mt6625 /\ Own(chip) = Own32 /\ Known(chip) = Receiving \cup {"FMOverBT"} /\ ~Library!Hopping
  BY ChipsAre DEF Own, Known, Library!Hopping, Library!Is
<1>2. /\ Library!Steps("PowerUp", h) = Library!mt6632_PowerUp(chip)
      /\ Library!Steps("PowerDown", h) = Library!mt6632_PowerDown(chip)
      /\ Library!Steps("tune", h) = Library!mt6632_RampDown(chip) \o Library!mt6632_SetFreq(chip, h)
      /\ Library!Steps("soft_mute_tune", h) = Library!mt6632_soft_mute_tune(chip, h)
      /\ Library!Steps("pre_search", h) = Library!mt6632_pre_search(chip)
      /\ Library!Steps("restore_search", h) = Library!mt6632_restore_search(chip)
      /\ Library!Steps("SetMonoStereo", h) = Library!mt6632_SetMonoStereo(chip)
      /\ Library!Steps("GetCapArray", h) = Library!mt6632_GetCapArray(chip)
  BY Zenon, StepsAre DEF Library!PowerUp, Library!PowerDown, Library!RampDown, Library!SetFreq,
     Library!soft_mute_tune, Library!pre_search, Library!restore_search, Library!SetMonoStereo,
     Library!GetCapArray, Library!Is
<1>4. /\ Tunes(Library!Steps("tune", h), Own32, {"int_ext"})
      /\ Gives(Library!Steps("PowerDown", h), Own32, {"topclock", "ldo"})
  BY Zenon, <1>2, Mt6630Regs, Mt6630Tune, Mt6630Down
<1>5. \A f \in Receiving : Library!Steps(f, h) \in Seq(StepsOn(Own32, Nat))
  BY Zenon, <1>2, <1>4, Mt6632Fits DEF Receiving, Tunes, Gives
<1>6. \A f \in Known(chip) \ Receiving : Library!Steps(f, h) \in Seq(StepsOn(Own32, Nat))
  BY Zenon, <1>1, <1>4, Mt6632Fits, TxStepsAre DEF Receiving
<1>7. Fits(h)
  BY Zenon, <1>1, <1>5, <1>6 DEF Fits
<1>8. Orders(h)
  BY <1>1 DEF Orders
<1>9. TuneEnds(h)
  <2>1. \A r \in Library!Used : r \in {"int_ext"}
    BY Zenon DEF Library!Used, Library!Is
  <2> QED BY Zenon, <1>1, <1>4, <2>1 DEF TuneEnds, Tunes
<1>10. DownEnds(h)
  <2>1. (Library!Outside \cap Own32) \ Library!Leftover \subseteq {"topclock", "ldo"}
    BY DEF Own32, Common, Library!Outside, Library!Leftover, Library!Is, Library!Tldo, Library!BusClock
  <2>2. "spi" \notin Own32
    BY Mt6630Regs DEF Library!BusClock
  <2> QED BY Zenon, <1>1, <1>4, <2>1, <2>2 DEF DownEnds, Gives, Home
<1> QED BY Zenon, <1>7, <1>8, <1>9, <1>10 DEF Serves

LEMMA AllServe ==
  ASSUME chip \in AllChips, NEW h \in BOOLEAN
  PROVE  Serves(h)
  BY Zenon, ChipsAre, Mt6631Serves, Mt6635Serves, C2Serves, Mt6627Serves, Mt6580Serves, Mt6630Serves, Mt6632Serves

-----------------------------------------------------------------------------
(* The call that runs: what it wrote so far, and the clock that its next step finds. *)

Now == Library!Steps(call, hop)

\* A sound call has put the bus back on its slow clock.
Restored == clean /\ pc > 0 /\ \E i \in 1..(pc - 1) : Sets(Now[i], "spi", "26")
FedBus(R, m) == R["spi"] = "64" => R["pll"] = "on" /\ (m => R["mux"] = "on")
FedStep(R, x, m) ==
  /\ WantsPll(x) => R["pll"] = "on"
  /\ m /\ WantsMux(x) => R["mux"] = "on"
  /\ WantsSlow(x) => R["spi"] # "64"
BusIsFed  == FedBus(regs, Muxed)
StepIsFed == pc > 0 => FedStep(regs, Now[pc], Muxed)
BusInv == Library!Hopping /\ (~lost \/ Restored) => BusIsFed /\ StepIsFed

SoFar == clean /\ pc > 0 => \A r \in DOMAIN regs : \A v : Leaves(Now, pc - 1, r, v) => regs[r] = v

\* The registers that a finished call leaves: those of the core are gone with the power.
Usable   == IF power = "off" THEN Library!Outside ELSE Library!Inside \cup Library!Outside
InTheEnd == clean /\ pc = 0 /\ call # "none" => \A r \in Usable : \A v : Ends(Now, r, v) => regs[r] = v

Untouched == \A r \in DOMAIN regs : r \notin Own(chip) => regs[r] = Library!Reset[r]

ChipTypes ==
  /\ chip \in AllChips
  /\ DOMAIN regs = Library!Inside \cup Library!Outside
  /\ power \in {"off", "rx", "tx"} /\ (power = "tx" => chip.name = "mt6630")
  /\ call \in Known(chip) \cup {"none"} /\ (call = "tune" => power = "rx")
  /\ hop \in BOOLEAN /\ clean \in BOOLEAN /\ lost \in BOOLEAN
  /\ pc \in Nat /\ (pc > 0 => call \in Known(chip) /\ pc <= Len(Now))

ChipInv == ChipTypes /\ Untouched /\ BusInv /\ SoFar /\ InTheEnd

LEMMA NowMoves ==
  ASSUME chip' = chip
  PROVE  Now' = Library!Steps(call', hop')
<1>1. /\ Library!PowerUp' = Library!PowerUp /\ Library!PowerDown' = Library!PowerDown
      /\ Library!RampDown' = Library!RampDown /\ Library!pre_search' = Library!pre_search
      /\ Library!restore_search' = Library!restore_search
      /\ Library!SetMonoStereo' = Library!SetMonoStereo /\ Library!GetCapArray' = Library!GetCapArray
  BY Zenon DEF Library!PowerUp, Library!PowerDown, Library!RampDown, Library!pre_search,
     Library!restore_search, Library!SetMonoStereo, Library!GetCapArray, Library!Is
<1>2. /\ Library!SetFreq(hop)' = Library!SetFreq(hop')
      /\ Library!soft_mute_tune(hop)' = Library!soft_mute_tune(hop')
  BY Zenon DEF Library!SetFreq, Library!soft_mute_tune, Library!Is
<1>3. Library!fm_tune(hop)' = Library!fm_tune(hop')
  BY Zenon, <1>1, <1>2 DEF Library!fm_tune
<1>4. Library!Is({"mt6630"})' = Library!Is({"mt6630"})
  BY Zenon DEF Library!Is
<1> QED BY Zenon, <1>1, <1>2, <1>3, <1>4 DEF Now, Library!Steps

LEMMA ChipStays ==
  ASSUME chip' = chip
  PROVE  /\ Own(chip)' = Own(chip) /\ Known(chip)' = Known(chip) /\ Muxed' = Muxed
         /\ Library!Hopping' = Library!Hopping
  BY Zenon DEF Muxed, Library!Hopping, Library!Is

LEMMA RfIsOwn ==
  ASSUME NEW c \in AllChips
  PROVE  "rf" \in Own(c)
  BY ChipsAre DEF Own, Own31, Own35, OwnC2, Own27, Own80, Own30, Own32, Common

LEMMA BusIsOutside ==
  /\ Library!BusClock \subseteq Library!Outside /\ Library!BusClock \cap Library!Inside = {}
  /\ "spi" \in Library!BusClock /\ "mux" \in Library!BusClock /\ "pll" \in Library!BusClock
  /\ "rf" \notin Library!BusClock
  /\ Library!BusClock \subseteq Library!Inside \cup Library!Outside
  BY DEF Library!BusClock, Library!Inside, Library!Outside

\* The step that a call is at.
LEMMA AtStep ==
  ASSUME ChipTypes, pc > 0
  PROVE  /\ Now \in Seq(StepsOn(Own(chip), Nat)) /\ Now = Library!Steps(call, hop)
         /\ pc \in DOMAIN Now /\ DOMAIN Now = 1..Len(Now) /\ Len(Now) \in Nat
         /\ Now[pc] \in StepsOn(Own(chip), Nat)
         /\ Library!Step = Now[pc] /\ Library!Last = Len(Now)
<1>1. chip \in AllChips /\ hop \in BOOLEAN /\ call \in Known(chip) /\ pc \in Nat /\ pc <= Len(Now)
  BY DEF ChipTypes
<1>2. Now \in Seq(StepsOn(Own(chip), Nat)) /\ Now = Library!Steps(call, hop)
  BY Zenon, <1>1, AllServe DEF Serves, Fits, Now
<1>3. pc \in DOMAIN Now /\ DOMAIN Now = 1..Len(Now) /\ Len(Now) \in Nat /\ Now[pc] \in StepsOn(Own(chip), Nat)
  BY <1>1, <1>2
<1>4. Library!Step = Now[pc] /\ Library!Last = Len(Now)
  BY Zenon DEF Library!Step, Library!Last, Now
<1> QED BY <1>2, <1>3, <1>4

LEMMA BatchApplied ==
  ASSUME NEW b, NEW n \in Nat, DOMAIN b = 1..n, NEW k \in 0..n
  PROVE  /\ DOMAIN Library!Applied(b, k) = DOMAIN regs
         /\ \A r \in DOMAIN regs : (\A i \in DOMAIN b : b[i][1] # r) => Library!Applied(b, k)[r] = regs[r]
         /\ \A r \in DOMAIN regs : \A i \in DOMAIN b :
              k = n /\ b[i][1] = r /\ (\A l \in DOMAIN b : l > i => b[l][1] # r)
                => Library!Applied(b, k)[r] = b[i][2]
<1>1. DOMAIN Library!Applied(b, k) = DOMAIN regs
  BY DEF Library!Applied
<1>2. ASSUME NEW r \in DOMAIN regs, \A i \in DOMAIN b : b[i][1] # r
      PROVE  Library!Applied(b, k)[r] = regs[r]
  <2>1. {i \in 1..k : b[i][1] = r} = {}
    BY <1>2
  <2> QED BY <2>1 DEF Library!Applied
<1>3. ASSUME NEW r \in DOMAIN regs, NEW i \in DOMAIN b, k = n, b[i][1] = r,
             \A l \in DOMAIN b : l > i => b[l][1] # r
      PROVE  Library!Applied(b, k)[r] = b[i][2]
  <2> PICK is : is = {j \in 1..k : b[j][1] = r}
    OBVIOUS
  <2>1. i \in is /\ \A j \in is : j <= i /\ j \in 1..k
    BY <1>3
  <2>2. \A j \in is : (\A l \in is : l <= j) => j = i
    BY <2>1
  <2>3. (CHOOSE j \in is : \A l \in is : l <= j) = i
    BY <2>1, <2>2
  <2> QED BY <2>1, <2>3 DEF Library!Applied
<1> QED BY <1>1, <1>2, <1>3

LEMMA DoneWrites ==
  ASSUME ChipTypes, pc > 0, Library!Done
  PROVE  /\ DOMAIN regs' = DOMAIN regs
         /\ \A r \in DOMAIN regs : ~Writes(Now[pc], r) => regs'[r] = regs[r]
         /\ \A r \in DOMAIN regs : \A v : Puts(Now[pc], r, v) => regs'[r] = v
         /\ Now[pc].op = "wait" => regs[Now[pc].reg] = Now[pc].val
<1>1. PICK x : x = Now[pc]
  OBVIOUS
<1>2. x \in StepsOn(Own(chip), Nat) /\ Library!Step = x
  BY <1>1, AtStep
<1>3. x.op \in {"set", "wait", "batch", "save", "back", "check"}
  BY <1>2 DEF StepsOn
<1>4. /\ x.op = "set" => regs' = IF x.reg \in DOMAIN regs THEN [regs EXCEPT ![x.reg] = x.val] ELSE regs
      /\ x.op = "batch" => regs' = Library!Applied(x.batch, Len(x.batch))
      /\ x.op = "save" => regs' = [regs EXCEPT !["rf"] = Library!Taken(regs.rf)]
      /\ x.op = "back" => regs' = [regs EXCEPT !["rf"] = kept]
      /\ x.op = "wait" => regs[x.reg] = x.val /\ regs' = regs
      /\ x.op = "check" => regs' = regs
  BY <1>2, <1>3 DEF Library!Done
<1>5. CASE x.op = "set"
  <2>1. regs' = IF x.reg \in DOMAIN regs THEN [regs EXCEPT ![x.reg] = x.val] ELSE regs
    BY <1>4, <1>5
  <2> QED BY <1>1, <1>5, <2>1 DEF Writes, Puts, Sets
<1>6. CASE x.op = "batch"
  <2> PICK n : n = Len(x.batch)
    OBVIOUS
  <2>1. x.batch \in Seq((Own(chip) \ Library!BusClock) \X Values)
    BY <1>2, <1>6 DEF StepsOn
  <2>2. DOMAIN x.batch = 1..n /\ n \in Nat /\ n \in 0..n
    BY <2>1
  <2>3. regs' = Library!Applied(x.batch, n)
    BY <1>4, <1>6
  <2>4. \A r \in DOMAIN regs : ~Writes(x, r) => \A i \in DOMAIN x.batch : x.batch[i][1] # r
    BY <1>6 DEF Writes
  <2>5. \A r, v : Puts(x, r, v) => \E i \in DOMAIN x.batch :
           x.batch[i][1] = r /\ x.batch[i][2] = v /\ \A l \in DOMAIN x.batch : l > i => x.batch[l][1] # r
    BY <1>6 DEF Puts, Sets
  <2>6. DOMAIN regs' = DOMAIN regs
    BY <2>2, <2>3, BatchApplied
  <2>7. \A r \in DOMAIN regs : ~Writes(x, r) => regs'[r] = regs[r]
    BY <2>2, <2>3, <2>4, BatchApplied
  <2>8. \A r \in DOMAIN regs : \A v : Puts(x, r, v) => regs'[r] = v
    BY <2>2, <2>3, <2>5, BatchApplied
  <2> QED BY <1>1, <1>6, <2>6, <2>7, <2>8
<1>7. CASE x.op \in {"save", "back"}
  <2>1. PICK w : regs' = [regs EXCEPT !["rf"] = w]
    BY <1>4, <1>7
  <2> QED BY <1>1, <1>7, <2>1 DEF Writes, Puts, Sets
<1>8. CASE x.op \in {"wait", "check"}
  BY <1>1, <1>4, <1>8 DEF Writes, Puts, Sets
<1> QED BY <1>3, <1>5, <1>6, <1>7, <1>8

LEMMA FailWrites ==
  ASSUME ChipTypes, pc > 0, Library!Fail
  PROVE  /\ DOMAIN regs' = DOMAIN regs
         /\ \A r \in DOMAIN regs : ~Writes(Now[pc], r) \/ Now[pc].op = "set" => regs'[r] = regs[r]
<1>1. PICK x : x = Now[pc]
  OBVIOUS
<1>2. x \in StepsOn(Own(chip), Nat) /\ Library!Step = x
  BY <1>1, AtStep
<1>3. \/ x.op = "batch" /\ \E n \in 0 .. Len(x.batch) : regs' = Library!Applied(x.batch, n)
      \/ x.op = "save" /\ regs' = [regs EXCEPT !["rf"] = "none"]
      \/ x.op \in {"set", "back", "wait", "check"} /\ regs' = regs
  BY <1>2 DEF Library!Fail
<1>4. CASE x.op = "batch" /\ \E n \in 0 .. Len(x.batch) : regs' = Library!Applied(x.batch, n)
  <2> PICK n : n = Len(x.batch)
    OBVIOUS
  <2>1. x.batch \in Seq((Own(chip) \ Library!BusClock) \X Values)
    BY <1>2, <1>4 DEF StepsOn
  <2>2. DOMAIN x.batch = 1..n /\ n \in Nat
    BY <2>1
  <2>3. PICK k \in 0..n : regs' = Library!Applied(x.batch, k)
    BY <1>4
  <2>4. \A r \in DOMAIN regs : ~Writes(x, r) => \A i \in DOMAIN x.batch : x.batch[i][1] # r
    BY <1>4 DEF Writes
  <2> QED BY <1>1, <1>4, <2>2, <2>3, <2>4, BatchApplied
<1>5. CASE x.op = "save" /\ regs' = [regs EXCEPT !["rf"] = "none"]
  BY <1>1, <1>5 DEF Writes
<1>6. CASE x.op \in {"set", "back", "wait", "check"} /\ regs' = regs
  BY <1>1, <1>6
<1> QED BY <1>3, <1>4, <1>5, <1>6

LEMMA RunStays ==
  ASSUME UNCHANGED <<chip, call, hop>>
  PROVE  /\ Now' = Now /\ Own(chip)' = Own(chip) /\ Known(chip)' = Known(chip) /\ Muxed' = Muxed
         /\ Library!Hopping' = Library!Hopping
<1>1. chip' = chip /\ call' = call /\ hop' = hop
  OBVIOUS
<1>2. Now' = Library!Steps(call, hop)
  BY Zenon, <1>1, NowMoves
<1> QED BY Zenon, <1>1, <1>2, ChipStays DEF Now

\* Where a step leads, and what power the radio has then.
LEMMA Goes ==
  ASSUME ChipTypes, pc > 0, NEW n \in Nat, NEW ok, Library!Goto(n, ok)
  PROVE  /\ pc' = IF n > Len(Now) THEN 0 ELSE n
         /\ power' \in {"off", "rx", "tx"}
         /\ power' = "tx" => chip.name = "mt6630"
         /\ call = "tune" => power' = "rx"
<1>1. Library!Last = Len(Now) /\ Len(Now) \in Nat
  BY AtStep
<1>2. pc' = IF n > Len(Now) THEN 0 ELSE n
  BY <1>1 DEF Library!Goto
<1>3. power' = power \/ power' = Library!PowerAfter(ok)
  BY <1>1 DEF Library!Goto
<1>4. /\ power \in {"off", "rx", "tx"} /\ (power = "tx" => chip.name = "mt6630")
      /\ (call = "tune" => power = "rx") /\ call \in Known(chip)
  BY DEF ChipTypes
<1>5. call = "PowerUpTx" => chip.name = "mt6630"
  BY <1>4 DEF Known, Receiving, Transmitting
<1>6. \/ Library!PowerAfter(ok) = power
      \/ call # "tune" /\ Library!PowerAfter(ok) \in {"off", "rx"}
      \/ call = "PowerUpTx" /\ Library!PowerAfter(ok) = "tx"
  BY DEF Library!PowerAfter
<1> QED BY <1>2, <1>3, <1>4, <1>5, <1>6

LEMMA LeavesOn ==
  ASSUME NEW s, NEW n \in Nat, n > 0, NEW r, NEW v, Leaves(s, n, r, v)
  PROVE  Puts(s[n], r, v) \/ (Leaves(s, n - 1, r, v) /\ ~Writes(s[n], r))
<1>1. PICK i \in 1..n : Puts(s[i], r, v) /\ \A j \in (i + 1)..n : ~Writes(s[j], r)
  BY DEF Leaves
<1>2. CASE i = n
  BY <1>1, <1>2
<1>3. CASE i # n
  <2>1. i \in 1..(n - 1) /\ n \in (i + 1)..n
    BY <1>1, <1>3
  <2>2. \A j \in (i + 1)..(n - 1) : j \in (i + 1)..n
    BY <1>1
  <2> QED BY <1>1, <2>1, <2>2 DEF Leaves
<1> QED BY <1>2, <1>3

\* Only a step of its own kind writes to the bus clock.
LEMMA BusKept ==
  ASSUME NEW R, NEW K, NEW x \in StepsOn(R, K), NEW r \in Library!BusClock, Writes(x, r)
  PROVE  x.op = "set" /\ x.reg = r
<1>1. r # "rf"
  BY BusIsOutside
<1>2. ASSUME x.op = "batch", NEW k \in DOMAIN x.batch
      PROVE  x.batch[k][1] # r
  <2>1. x.batch \in Seq((R \ Library!BusClock) \X Values)
    BY <1>2 DEF StepsOn
  <2>2. x.batch[k] \in (R \ Library!BusClock) \X Values
    BY <1>2, <2>1
  <2> QED BY <2>2
<1> QED BY <1>1, <1>2 DEF Writes

LEMMA ChipBegins == MCInit => ChipInv
<1> SUFFICES ASSUME MCInit PROVE ChipInv
  OBVIOUS
<1>1. /\ chip \in AllChips /\ regs = Library!Reset /\ power = "off" /\ call = "none"
      /\ hop = FALSE /\ pc = 0 /\ clean = TRUE /\ lost = FALSE
  BY Zenon DEF MCInit, Library!Init
<1>2. DOMAIN Library!Reset = Library!Inside \cup Library!Outside /\ Library!Reset["spi"] = "26"
  BY DEF Library!Reset, Library!Inside, Library!Outside
<1>3. ChipTypes
  <2>1. hop \in BOOLEAN /\ clean \in BOOLEAN /\ lost \in BOOLEAN
    BY Zenon, <1>1
  <2>2. pc \in Nat /\ ~(pc > 0)
    BY <1>1
  <2>3. call # "tune" /\ power \in {"off", "rx", "tx"} /\ power # "tx"
    BY <1>1
  <2> QED BY Zenon, <1>1, <1>2, <2>1, <2>2, <2>3 DEF ChipTypes
<1>4. Untouched
  BY <1>1 DEF Untouched
<1>5. BusInv
  <2>1. BusIsFed /\ StepIsFed
    BY <1>1, <1>2 DEF BusIsFed, StepIsFed, FedBus
  <2> QED BY <2>1 DEF BusInv
<1>6. SoFar /\ InTheEnd
  BY <1>1 DEF SoFar, InTheEnd
<1> QED BY <1>3, <1>4, <1>5, <1>6 DEF ChipInv

\* A call begins: it is one of the chip's functions, and its first step wants nothing.
LEMMA Begins ==
  ASSUME ChipTypes, Library!Call
  PROVE  /\ ChipTypes' /\ pc' = 1
         /\ Library!Hopping => 1 \in DOMAIN Now' /\ InOrder(Now', Muxed)
         /\ chip' = chip /\ regs' = regs /\ power' = power /\ lost' = lost
<1>1. /\ chip' = chip /\ regs' = regs /\ power' = power /\ lost' = lost /\ pc' = 1 /\ clean' = TRUE
      /\ call' \in Library!Callable /\ hop' \in BOOLEAN /\ Library!Steps(call', hop') # <<>>
  BY DEF Library!Call
<1>2. /\ chip \in AllChips /\ power \in {"off", "rx", "tx"} /\ (power = "tx" => chip.name = "mt6630")
  BY DEF ChipTypes
<1>3. call' \in Known(chip) /\ (call' = "tune" => power = "rx")
  BY <1>1, <1>2 DEF Library!Callable, Library!Is, Known, Receiving, Transmitting
<1>4. Now' = Library!Steps(call', hop')
  BY Zenon, <1>1, NowMoves
<1>5. Serves(hop')
  BY Zenon, <1>1, <1>2, AllServe
<1>6. Now' \in Seq(StepsOn(Own(chip), Nat))
  BY Zenon, <1>3, <1>4, <1>5 DEF Serves, Fits
<1>7. Library!Hopping => InOrder(Now', Muxed)
  BY Zenon, <1>3, <1>4, <1>5 DEF Serves, Orders
<1>8. 1 <= Len(Now)' /\ 1 \in DOMAIN Now'
  <2>1. Now' # <<>>
    BY <1>1, <1>4
  <2> QED BY <1>6, <2>1
<1>9. ChipTypes'
  <2>1. call' \in Known(chip)' /\ (call' = "tune" => power' = "rx")
    BY Zenon, <1>1, <1>3, ChipStays
  <2> QED BY <1>1, <1>8, <2>1 DEF ChipTypes
<1> QED BY <1>1, <1>7, <1>8, <1>9

LEMMA CallKeeps ==
  ASSUME ChipInv, Library!Call
  PROVE  ChipInv'
<1>1. ChipTypes /\ Untouched /\ BusInv
  BY DEF ChipInv
<1>2. /\ ChipTypes' /\ pc' = 1
      /\ Library!Hopping => 1 \in DOMAIN Now' /\ InOrder(Now', Muxed)
      /\ chip' = chip /\ regs' = regs /\ power' = power /\ lost' = lost
  BY Zenon, <1>1, Begins
<1>3. Own(chip)' = Own(chip) /\ Muxed' = Muxed /\ Library!Hopping' = Library!Hopping
  BY Zenon, <1>2, ChipStays
<1>4. Untouched'
  BY Zenon, <1>1, <1>2, <1>3 DEF Untouched
<1>5. BusInv'
  <2>1. ~Restored'
    BY <1>2 DEF Restored
  <2>2. SUFFICES ASSUME Library!Hopping, ~lost PROVE BusIsFed' /\ StepIsFed'
    BY Zenon, <1>2, <1>3, <2>1 DEF BusInv
  <2>3. BusIsFed'
    BY Zenon, <1>1, <1>2, <1>3, <2>2 DEF BusInv, BusIsFed
  <2>4. WantsNone(Now'[1])
    BY Zenon, <1>2, <2>2 DEF InOrder
  <2>5. FedStep(regs', Now'[1], Muxed)
    BY Zenon, <2>4 DEF WantsNone, FedStep
  <2> QED BY Zenon, <1>2, <1>3, <2>3, <2>5 DEF StepIsFed
<1>6. SoFar'
  <2>1. \A r, v : ~Leaves(Now, pc - 1, r, v)'
    BY <1>2 DEF Leaves
  <2> QED BY <2>1 DEF SoFar
<1>7. InTheEnd'
  BY <1>2 DEF InTheEnd
<1> QED BY <1>2, <1>4, <1>5, <1>6, <1>7 DEF ChipInv

\* A step that goes through.
LEMMA DoneMoves ==
  ASSUME ChipTypes, pc > 0, Library!Done
  PROVE  /\ chip' = chip /\ call' = call /\ hop' = hop /\ clean' = clean
         /\ \/ pc < Len(Now) /\ pc' = pc + 1
            \/ pc = Len(Now) /\ pc' = 0
         /\ lost' <=> lost /\ ~(pc = Len(Now) /\ clean /\ Library!Repairs)
         /\ ChipTypes'
<1>1. /\ chip' = chip /\ call' = call /\ hop' = hop /\ clean' = clean
      /\ lost' = (lost /\ ~(pc = Library!Last /\ clean /\ Library!Repairs))
  BY Zenon DEF Library!Done
<1>2. PICK ok : Library!Goto(pc + 1, ok)
  BY Zenon DEF Library!Done
<1>3. /\ pc \in Nat /\ pc <= Len(Now) /\ Len(Now) \in Nat /\ Library!Last = Len(Now)
      /\ chip \in AllChips /\ call \in Known(chip)
      /\ DOMAIN regs = Library!Inside \cup Library!Outside
      /\ hop \in BOOLEAN /\ clean \in BOOLEAN
  BY AtStep DEF ChipTypes
<1>4. /\ pc' = IF pc + 1 > Len(Now) THEN 0 ELSE pc + 1
      /\ power' \in {"off", "rx", "tx"} /\ (power' = "tx" => chip.name = "mt6630")
      /\ call = "tune" => power' = "rx"
  <2>1. pc + 1 \in Nat
    BY <1>3
  <2> QED BY <1>2, <2>1, Goes
<1>5. \/ pc < Len(Now) /\ pc' = pc + 1
      \/ pc = Len(Now) /\ pc' = 0
  BY <1>3, <1>4
<1>6. lost' <=> lost /\ ~(pc = Len(Now) /\ clean /\ Library!Repairs)
  BY Zenon, <1>1, <1>3
<1>7. lost' \in BOOLEAN
  BY Zenon, <1>1
<1>8. Now' = Now /\ Known(chip)' = Known(chip)
  BY Zenon, <1>1, RunStays
<1>9. pc' \in Nat /\ pc' <= Len(Now)
  BY <1>3, <1>5
<1>10. DOMAIN regs' = DOMAIN regs
  BY DoneWrites
<1>11. ChipTypes'
  <2>1. chip' \in AllChips /\ hop' \in BOOLEAN /\ clean' \in BOOLEAN
        /\ (power' = "tx" => chip'.name = "mt6630") /\ (call' = "tune" => power' = "rx")
    BY Zenon, <1>1, <1>3, <1>4
  <2>2. call' \in Known(chip)' /\ pc' <= Len(Now)'
    BY Zenon, <1>1, <1>3, <1>8, <1>9
  <2> QED BY Zenon, <1>3, <1>4, <1>7, <1>9, <1>10, <2>1, <2>2 DEF ChipTypes
<1> QED BY Zenon, <1>1, <1>5, <1>6, <1>11

LEMMA DoneKeepsRegs ==
  ASSUME ChipInv, pc > 0, Library!Done
  PROVE  Untouched' /\ SoFar' /\ InTheEnd'
<1>1. ChipTypes /\ Untouched /\ SoFar
  BY DEF ChipInv
<1>2. /\ chip' = chip /\ call' = call /\ hop' = hop /\ clean' = clean
      /\ \/ pc < Len(Now) /\ pc' = pc + 1
         \/ pc = Len(Now) /\ pc' = 0
      /\ ChipTypes'
  BY <1>1, DoneMoves
<1>3. /\ Now' = Now /\ Own(chip)' = Own(chip)
  BY Zenon, <1>2, RunStays
<1>4. /\ DOMAIN regs' = DOMAIN regs
      /\ \A r \in DOMAIN regs : ~Writes(Now[pc], r) => regs'[r] = regs[r]
      /\ \A r \in DOMAIN regs : \A v : Puts(Now[pc], r, v) => regs'[r] = v
  BY <1>1, DoneWrites
<1>5. Untouched'
  <2>1. /\ Now \in Seq(StepsOn(Own(chip), Nat)) /\ pc \in DOMAIN Now
        /\ "rf" \in Own(chip)
    BY <1>1, AtStep, RfIsOwn DEF ChipTypes
  <2>2. \A r : r \notin Own(chip) => ~Writes(Now[pc], r)
    BY <2>1, WritesInside
  <2>3. \A r \in DOMAIN regs' : r \notin Own(chip) => regs'[r] = Library!Reset[r]
    BY Zenon, <1>1, <1>4, <2>2 DEF Untouched
  <2> QED BY Zenon, <1>3, <2>3 DEF Untouched
<1>6. ASSUME clean, NEW r \in DOMAIN regs, NEW v, Leaves(Now, pc, r, v)
      PROVE  regs'[r] = v
  <2>1. pc \in Nat
    BY <1>1 DEF ChipTypes
  <2>2. Puts(Now[pc], r, v) \/ (Leaves(Now, pc - 1, r, v) /\ ~Writes(Now[pc], r))
    BY <1>6, <2>1, LeavesOn
  <2>3. CASE Leaves(Now, pc - 1, r, v) /\ ~Writes(Now[pc], r)
    BY <1>1, <1>4, <1>6, <2>3 DEF SoFar
  <2> QED BY <1>4, <2>2, <2>3
<1>7. SoFar'
  <2>1. pc \in Nat
    BY <1>1 DEF ChipTypes
  <2>2. pc' > 0 => pc' - 1 = pc
    BY <1>2, <2>1
  <2>3. SUFFICES ASSUME clean, pc' > 0, NEW r \in DOMAIN regs', NEW v, Leaves(Now', pc' - 1, r, v)
                 PROVE  regs'[r] = v
    BY Zenon, <1>2 DEF SoFar
  <2> QED BY Zenon, <1>3, <1>4, <1>6, <2>2, <2>3
<1>8. InTheEnd'
  <2>1. pc' = 0 => Len(Now) = pc
    <3>1. pc \in Nat
      BY <1>1 DEF ChipTypes
    <3> QED BY <1>2, <3>1
  <2>2. SUFFICES ASSUME clean, pc' = 0, NEW r \in Usable', NEW v, Ends(Now', r, v)
                 PROVE  regs'[r] = v
    BY Zenon, <1>2 DEF InTheEnd
  <2>3. r \in DOMAIN regs
    BY <1>1, <1>2, <1>4 DEF Usable, ChipTypes
  <2>4. Leaves(Now, pc, r, v)
    BY Zenon, <1>3, <2>1, <2>2 DEF Ends
  <2> QED BY Zenon, <1>6, <2>2, <2>3, <2>4
<1> QED BY <1>5, <1>7, <1>8

\* What a step x that goes through does to the bus clock: registers R become Q.
Turns(R, Q, x) ==
  /\ \A r \in Library!BusClock : Q[r] = IF x.op = "set" /\ x.reg = r THEN x.val ELSE R[r]
  /\ \A r, v : Polls(x, r, v) => R[r] = v

LEMMA DoneOnBus ==
  ASSUME ChipTypes, pc > 0, Library!Done, NEW x, x = Now[pc]
  PROVE  Turns(regs, regs', x)
<1>1. x \in StepsOn(Own(chip), Nat)
  BY AtStep
<1>2. DOMAIN regs = Library!Inside \cup Library!Outside
  BY DEF ChipTypes
<1>3. ASSUME NEW r \in Library!BusClock
      PROVE  regs'[r] = IF x.op = "set" /\ x.reg = r THEN x.val ELSE regs[r]
  <2>1. r \in DOMAIN regs
    BY <1>2, BusIsOutside
  <2>2. CASE x.op = "set" /\ x.reg = r
    <3>1. Puts(x, r, x.val)
      BY <2>2 DEF Puts, Sets
    <3> QED BY <2>1, <2>2, <3>1, DoneWrites
  <2>3. CASE ~(x.op = "set" /\ x.reg = r)
    <3>1. ~Writes(x, r)
      BY <1>1, <2>3, BusKept
    <3> QED BY <2>1, <2>3, <3>1, DoneWrites
  <2> QED BY <2>2, <2>3
<1>4. \A r, v : Polls(x, r, v) => regs[r] = v
  BY DoneWrites DEF Polls
<1> QED BY Zenon, <1>3, <1>4 DEF Turns

\* A step that finds the clock it wants keeps the bus fed, and feeds the one it leads to.
LEMMA Feeds ==
  ASSUME NEW R, NEW Q, NEW x, NEW m \in BOOLEAN, Turns(R, Q, x), FedBus(R, m), FedStep(R, x, m)
  PROVE  FedBus(Q, m) /\ \A y : Leads(x, y, m) => FedStep(Q, y, m)
<1>1. /\ Q["spi"] = IF x.op = "set" /\ x.reg = "spi" THEN x.val ELSE R["spi"]
      /\ Q["mux"] = IF x.op = "set" /\ x.reg = "mux" THEN x.val ELSE R["mux"]
      /\ Q["pll"] = IF x.op = "set" /\ x.reg = "pll" THEN x.val ELSE R["pll"]
  BY BusIsOutside DEF Turns
<1>2. /\ \A r, v : Polls(x, r, v) => R[r] = v
      /\ R["spi"] = "64" => R["pll"] = "on" /\ (m => R["mux"] = "on")
      /\ WantsPll(x) => R["pll"] = "on"
      /\ m /\ WantsMux(x) => R["mux"] = "on"
      /\ WantsSlow(x) => R["spi"] # "64"
  BY Zenon DEF Turns, FedBus, FedStep
<1>3. x.op = "set" /\ x.reg = "spi" /\ x.val = "64" => WantsPll(x) /\ WantsMux(x)
  BY DEF WantsPll, WantsMux, Sets
<1>4. x.op = "set" /\ x.reg \in {"mux", "pll"} /\ x.val # "on" => WantsSlow(x)
  BY DEF WantsSlow
<1>5. FedBus(Q, m)
  <2>1. SUFFICES ASSUME Q["spi"] = "64" PROVE Q["pll"] = "on" /\ (m => Q["mux"] = "on")
    BY Zenon DEF FedBus
  <2>2. CASE x.op = "set" /\ x.reg = "spi"
    BY <1>1, <1>2, <1>3, <2>1, <2>2
  <2>3. CASE x.op = "set" /\ x.reg \in {"mux", "pll"}
    BY <1>1, <1>2, <1>4, <2>1, <2>3
  <2>4. CASE ~(x.op = "set" /\ x.reg \in {"spi", "mux", "pll"})
    BY <1>1, <1>2, <2>1, <2>4
  <2> QED BY <2>2, <2>3, <2>4
<1>6. GivesPll(x) => Q["pll"] = "on"
  <2>1. Sets(x, "mux", "on") \/ Polls(x, "mux", "on") => WantsPll(x)
    BY DEF WantsPll
  <2>2. GivesPll(x) => \/ WantsPll(x) /\ (Sets(x, "mux", "on") \/ Polls(x, "mux", "on"))
                       \/ Sets(x, "pll", "on") \/ Polls(x, "pll", "on")
    BY <2>1 DEF GivesPll
  <2> QED BY <1>1, <1>2, <2>2 DEF Sets, Polls
<1>7. GivesMux(x) => Q["mux"] = "on"
  BY <1>1, <1>2 DEF GivesMux, Sets, Polls
<1>8. GivesSlow(x) => Q["spi"] # "64"
  BY <1>1, <1>2 DEF GivesSlow, Sets, WantsSlow
<1>9. \A y : Leads(x, y, m) => FedStep(Q, y, m)
  BY Zenon, <1>6, <1>7, <1>8 DEF Leads, FedStep
<1> QED BY <1>5, <1>9

LEMMA DoneKeepsBus ==
  ASSUME ChipInv, pc > 0, Library!Done
  PROVE  BusInv'
<1>1. ChipTypes /\ BusInv
  BY DEF ChipInv
<1>2. /\ chip' = chip /\ call' = call /\ hop' = hop /\ clean' = clean
      /\ \/ pc < Len(Now) /\ pc' = pc + 1
         \/ pc = Len(Now) /\ pc' = 0
      /\ lost' <=> lost /\ ~(pc = Len(Now) /\ clean /\ Library!Repairs)
  BY <1>1, DoneMoves
<1>3. /\ Now' = Now /\ Own(chip)' = Own(chip) /\ Muxed' = Muxed /\ Library!Hopping' = Library!Hopping
  BY Zenon, <1>2, RunStays
<1>4. /\ Now \in Seq(StepsOn(Own(chip), Nat)) /\ DOMAIN Now = 1..Len(Now) /\ pc \in DOMAIN Now
      /\ pc \in Nat /\ Len(Now) \in Nat /\ Now = Library!Steps(call, hop)
      /\ call \in Known(chip) /\ hop \in BOOLEAN /\ chip \in AllChips
  BY <1>1, AtStep DEF ChipTypes
<1> PICK x : x = Now[pc]
  OBVIOUS
<1>5. Turns(regs, regs', x)
  BY Zenon, <1>1, DoneOnBus
<1> SUFFICES ASSUME Library!Hopping, ~lost' \/ Restored' PROVE BusIsFed' /\ StepIsFed'
  BY Zenon, <1>3 DEF BusInv
<1>6. Serves(hop)
  BY Zenon, <1>4, AllServe
<1>7. InOrder(Now, Muxed) /\ (Library!Repairs => Slows(Now))
  <2>1. Library!Repairs => call \in Repairing
    BY Zenon DEF Library!Repairs, Repairing
  <2> QED BY Zenon, <1>4, <1>6, <2>1 DEF Serves, Orders
<1>8. pc' > 0 => pc' = pc + 1 /\ pc + 1 \in DOMAIN Now /\ Leads(x, Now[pc + 1], Muxed)
  <2>1. pc' > 0 => pc' = pc + 1 /\ pc + 1 \in DOMAIN Now
    BY <1>2, <1>4
  <2> QED BY <1>4, <1>7, <2>1 DEF InOrder
<1>9. CASE ~lost \/ Restored
  <2>1. FedBus(regs, Muxed) /\ FedStep(regs, x, Muxed)
    BY Zenon, <1>1, <1>9 DEF BusInv, BusIsFed, StepIsFed
  <2>2. PICK m : m = Muxed
    OBVIOUS
  <2>3. m \in BOOLEAN /\ FedBus(regs, m) /\ FedStep(regs, x, m)
    BY Zenon, <2>1, <2>2 DEF Muxed
  <2>4. FedBus(regs', m)
    BY <1>5, <2>3, Feeds
  <2>5. \A y : Leads(x, y, m) => FedStep(regs', y, m)
    BY <1>5, <2>3, Feeds
  <2>6. BusIsFed'
    BY Zenon, <1>3, <2>2, <2>4 DEF BusIsFed
  <2>7. StepIsFed'
    BY Zenon, <1>3, <1>8, <2>2, <2>5 DEF StepIsFed
  <2> QED BY <2>6, <2>7
<1>10. CASE lost /\ ~Restored
  <2>1. Sets(x, "spi", "26")
    <3>1. CASE ~lost'
      <4>1. pc = Len(Now) /\ clean /\ Slows(Now)
        BY Zenon, <1>2, <1>7, <1>10, <3>1
      <4>2. PICK i \in DOMAIN Now : Sets(Now[i], "spi", "26")
        BY <4>1 DEF Slows
      <4>3. i = pc
        BY <1>4, <1>10, <4>1, <4>2 DEF Restored
      <4> QED BY <4>2, <4>3
    <3>2. CASE Restored'
      <4>1. PICK i \in 1..(pc' - 1) : Sets(Now'[i], "spi", "26")
        BY <3>2 DEF Restored
      <4>2. clean /\ pc' > 0
        BY Zenon, <1>2, <3>2 DEF Restored
      <4>3. i \in 1..pc /\ Sets(Now[i], "spi", "26")
        BY <1>3, <1>4, <1>8, <4>1, <4>2
      <4>4. i = pc
        BY <1>4, <1>10, <4>2, <4>3 DEF Restored
      <4> QED BY <4>3, <4>4
    <3> QED BY <3>1, <3>2
  <2>2. regs'["spi"] = "26"
    BY <1>5, <2>1, BusIsOutside DEF Sets, Turns
  <2>3. BusIsFed'
    BY <2>2 DEF BusIsFed, FedBus
  <2>4. ~GivesPll(x) /\ ~GivesMux(x)
    BY <2>1 DEF GivesPll, GivesMux, Sets, Polls
  <2>5. pc' > 0 => ~WantsPll(Now[pc + 1]) /\ ~(Muxed /\ WantsMux(Now[pc + 1]))
    BY Zenon, <1>8, <2>4 DEF Leads
  <2>6. StepIsFed'
    <3>1. regs'["spi"] # "64"
      BY <2>2
    <3> QED BY Zenon, <1>3, <1>8, <2>5, <3>1 DEF StepIsFed, FedStep
  <2> QED BY <2>3, <2>6
<1> QED BY <1>9, <1>10

\* A step that fails goes on behind what it skips, or ends the call.
LEMMA FailMoves ==
  ASSUME ChipTypes, pc > 0, Library!Fail, NEW x, x = Now[pc]
  PROVE  /\ chip' = chip /\ call' = call /\ hop' = hop /\ clean' = FALSE
         /\ \/ pc' = 0
            \/ x.skip < Library!End /\ pc' = pc + 1 + x.skip /\ pc' <= Len(Now) /\ x.skip \in Nat
         /\ lost' <=> lost \/ (x.op = "set" /\ x.reg \in Library!BusClock)
         /\ ChipTypes'
<1>1. /\ chip' = chip /\ call' = call /\ hop' = hop /\ clean' = FALSE /\ Library!Skip
      /\ lost' = (lost \/ (Library!Step.op = "set" /\ Library!Step.reg \in Library!BusClock))
  BY Zenon DEF Library!Fail
<1>2. /\ pc \in Nat /\ pc <= Len(Now) /\ Len(Now) \in Nat /\ Library!Last = Len(Now)
      /\ Library!Step = x /\ x \in StepsOn(Own(chip), Nat)
      /\ chip \in AllChips /\ call \in Known(chip)
      /\ DOMAIN regs = Library!Inside \cup Library!Outside
      /\ hop \in BOOLEAN
  BY AtStep DEF ChipTypes
<1>3. x.skip \in Nat
  BY <1>2 DEF StepsOn
<1> PICK n : n = IF x.skip >= Library!End THEN Len(Now) + 1 ELSE pc + 1 + x.skip
  OBVIOUS
<1>4. n \in Nat
  BY <1>2, <1>3
<1>5. PICK ok : Library!Goto(n, ok)
  BY Zenon, <1>1, <1>2 DEF Library!Skip
<1>6. /\ pc' = IF n > Len(Now) THEN 0 ELSE n
      /\ power' \in {"off", "rx", "tx"} /\ (power' = "tx" => chip.name = "mt6630")
      /\ call = "tune" => power' = "rx"
  BY <1>4, <1>5, Goes
<1>7. /\ \/ pc' = 0
         \/ x.skip < Library!End /\ pc' = pc + 1 + x.skip /\ pc' <= Len(Now) /\ x.skip \in Nat
      /\ pc' \in Nat /\ pc' <= Len(Now)
  <2>1. n > Len(Now) => pc' = 0
    BY <1>6
  <2>2. ~(n > Len(Now)) => ~(x.skip >= Library!End)
    BY <1>2
  <2>3. ~(n > Len(Now)) => pc' = n /\ n <= Len(Now)
    BY <1>2, <1>4, <1>6
  <2>4. ~(x.skip >= Library!End) => x.skip < Library!End /\ n = pc + 1 + x.skip
    BY <1>3 DEF Library!End
  <2> QED BY <1>2, <1>3, <1>4, <2>1, <2>2, <2>3, <2>4
<1>8. lost' <=> lost \/ (x.op = "set" /\ x.reg \in Library!BusClock)
  BY Zenon, <1>1, <1>2
<1>9. lost' \in BOOLEAN /\ clean' \in BOOLEAN
  BY Zenon, <1>1
<1>10. Now' = Now /\ Known(chip)' = Known(chip)
  BY Zenon, <1>1, RunStays
<1>11. DOMAIN regs' = DOMAIN regs
  BY FailWrites
<1>12. ChipTypes'
  <2>1. chip' \in AllChips /\ hop' \in BOOLEAN
        /\ (power' = "tx" => chip'.name = "mt6630") /\ (call' = "tune" => power' = "rx")
    BY Zenon, <1>1, <1>2, <1>6
  <2>2. call' \in Known(chip)' /\ pc' <= Len(Now)'
    BY Zenon, <1>1, <1>2, <1>7, <1>10
  <2> QED BY Zenon, <1>2, <1>6, <1>7, <1>9, <1>11, <2>1, <2>2 DEF ChipTypes
<1> QED BY Zenon, <1>1, <1>7, <1>8, <1>12

LEMMA FailKeeps ==
  ASSUME ChipInv, pc > 0, Library!Fail
  PROVE  ChipInv'
<1>1. ChipTypes /\ Untouched /\ BusInv
  BY DEF ChipInv
<1>2. PICK x : x = Now[pc]
  OBVIOUS
<1>3. /\ chip' = chip /\ call' = call /\ hop' = hop /\ clean' = FALSE
      /\ \/ pc' = 0
         \/ x.skip < Library!End /\ pc' = pc + 1 + x.skip /\ pc' <= Len(Now) /\ x.skip \in Nat
      /\ lost' <=> lost \/ (x.op = "set" /\ x.reg \in Library!BusClock)
      /\ ChipTypes'
  BY Zenon, <1>1, <1>2, FailMoves
<1>4. /\ Now' = Now /\ Own(chip)' = Own(chip) /\ Muxed' = Muxed /\ Library!Hopping' = Library!Hopping
  BY Zenon, <1>3, RunStays
<1>5. /\ Now \in Seq(StepsOn(Own(chip), Nat)) /\ DOMAIN Now = 1..Len(Now) /\ pc \in DOMAIN Now
      /\ pc \in Nat /\ Len(Now) \in Nat /\ Now = Library!Steps(call, hop)
      /\ call \in Known(chip) /\ hop \in BOOLEAN /\ chip \in AllChips
      /\ x \in StepsOn(Own(chip), Nat)
      /\ DOMAIN regs = Library!Inside \cup Library!Outside
  BY <1>1, <1>2, AtStep DEF ChipTypes
<1>6. /\ DOMAIN regs' = DOMAIN regs
      /\ \A r \in DOMAIN regs : ~Writes(x, r) \/ x.op = "set" => regs'[r] = regs[r]
  BY Zenon, <1>1, <1>2, FailWrites
<1>7. Untouched'
  <2>1. "rf" \in Own(chip)
    BY <1>5, RfIsOwn
  <2>2. \A r : r \notin Own(chip) => ~Writes(x, r)
    BY <1>2, <1>5, <2>1, WritesInside
  <2>3. \A r \in DOMAIN regs' : r \notin Own(chip) => regs'[r] = Library!Reset[r]
    BY Zenon, <1>1, <1>6, <2>2 DEF Untouched
  <2> QED BY Zenon, <1>4, <2>3 DEF Untouched
<1>8. SoFar' /\ InTheEnd'
  BY Zenon, <1>3 DEF SoFar, InTheEnd
<1>9. BusInv'
  <2>1. ~Restored'
    BY Zenon, <1>3 DEF Restored
  <2>2. SUFFICES ASSUME Library!Hopping, ~lost' PROVE BusIsFed' /\ StepIsFed'
    BY Zenon, <1>4, <2>1 DEF BusInv
  <2>3. ~lost /\ ~(x.op = "set" /\ x.reg \in Library!BusClock)
    BY Zenon, <1>3, <2>2
  <2>4. FedBus(regs, Muxed) /\ FedStep(regs, x, Muxed)
    BY Zenon, <1>1, <1>2, <2>2, <2>3 DEF BusInv, BusIsFed, StepIsFed
  <2>5. regs'["spi"] = regs["spi"] /\ regs'["mux"] = regs["mux"] /\ regs'["pll"] = regs["pll"]
    <3>1. \A r \in Library!BusClock : r \in DOMAIN regs /\ (~Writes(x, r) \/ x.op = "set")
      BY <1>5, BusKept, BusIsOutside
    <3> QED BY <1>6, <3>1, BusIsOutside
  <2>6. BusIsFed'
    BY Zenon, <1>4, <2>4, <2>5 DEF BusIsFed, FedBus
  <2>7. ASSUME pc' > 0 PROVE FedStep(regs', Now[pc'], Muxed)
    <3>1. /\ x.skip < Library!End /\ pc' = pc + 1 + x.skip /\ x.skip \in Nat
          /\ pc + 1 + x.skip \in DOMAIN Now
      <4>1. x.skip < Library!End /\ pc' = pc + 1 + x.skip /\ pc' <= Len(Now) /\ x.skip \in Nat
        BY <1>3, <2>7
      <4>2. pc' \in 1..Len(Now)
        BY <1>5, <4>1
      <4> QED BY <1>5, <4>1, <4>2
    <3>2. InOrder(Now, Muxed)
      <4>1. Serves(hop)
        BY Zenon, <1>5, AllServe
      <4> QED BY Zenon, <1>5, <2>2, <4>1 DEF Serves, Orders
    <3>3. LeadsOn(x, Now[pc + 1 + x.skip], Muxed)
      BY Zenon, <1>2, <1>5, <3>1, <3>2 DEF InOrder
    <3>4. LeadsOn(x, Now[pc'], Muxed)
      BY Zenon, <3>1, <3>3
    <3> QED BY Zenon, <2>3, <2>4, <2>5, <3>4 DEF LeadsOn, FedStep
  <2>8. StepIsFed'
    BY Zenon, <1>4, <2>7 DEF StepIsFed
  <2> QED BY <2>6, <2>8
<1> QED BY Zenon, <1>3, <1>7, <1>8, <1>9 DEF ChipInv

\* The subsystem loses its power, and the core its registers.
LEMMA InsideIsNotOutside == Library!Inside \cap Library!Outside = {}
<1>1. DOMAIN Library!Tldo = 1..9
  BY DEF Library!Tldo
<1>2. \A i \in 1..9 : i = 1 \/ i = 2 \/ i = 3 \/ i = 4 \/ i = 5 \/ i = 6 \/ i = 7 \/ i = 8 \/ i = 9
  OBVIOUS
<1>3. \A i \in 1..9 : Library!Tldo[i] \notin Library!Inside
  BY <1>2 DEF Library!Tldo, Library!Inside
<1> QED BY <1>1, <1>3 DEF Library!Inside, Library!Outside

LEMMA PwrOffKeeps ==
  ASSUME ChipInv, Library!PwrOff
  PROVE  ChipInv'
<1>1. ChipTypes /\ Untouched /\ BusInv /\ SoFar /\ InTheEnd
  BY DEF ChipInv
<1>2. /\ pc = 0 /\ power = "off"
      /\ regs' = [r \in DOMAIN regs |-> IF r \in Library!Inside THEN Library!Reset[r] ELSE regs[r]]
      /\ chip' = chip /\ power' = power /\ call' = call /\ hop' = hop /\ pc' = pc
      /\ clean' = clean /\ lost' = lost
  BY DEF Library!PwrOff
<1>3. /\ Now' = Now /\ Own(chip)' = Own(chip) /\ Known(chip)' = Known(chip) /\ Muxed' = Muxed
      /\ Library!Hopping' = Library!Hopping
  BY Zenon, <1>2, RunStays
<1>4. /\ DOMAIN regs' = DOMAIN regs
      /\ \A r \in DOMAIN regs : regs'[r] = regs[r] \/ regs'[r] = Library!Reset[r]
      /\ \A r \in Library!Outside : regs'[r] = regs[r]
  <2>1. DOMAIN regs = Library!Inside \cup Library!Outside
    BY <1>1 DEF ChipTypes
  <2> QED BY <1>2, <2>1, InsideIsNotOutside
<1>5. ChipTypes'
  BY Zenon, <1>1, <1>2, <1>3, <1>4 DEF ChipTypes
<1>6. Untouched'
  BY Zenon, <1>1, <1>3, <1>4 DEF Untouched
<1>7. BusInv'
  <2>1. ~(pc > 0)
    BY <1>2
  <2>2. ~Restored' /\ StepIsFed'
    BY Zenon, <1>2, <2>1 DEF Restored, StepIsFed
  <2>3. regs'["spi"] = regs["spi"] /\ regs'["mux"] = regs["mux"] /\ regs'["pll"] = regs["pll"]
    BY <1>4, BusIsOutside
  <2>4. BusIsFed => BusIsFed'
    BY Zenon, <1>3, <2>3 DEF BusIsFed, FedBus
  <2> QED BY Zenon, <1>1, <1>2, <1>3, <2>2, <2>4 DEF BusInv
<1>8. SoFar'
  <2>1. ~(pc' > 0)
    BY <1>2
  <2> QED BY Zenon, <2>1 DEF SoFar
<1>9. InTheEnd'
  <2>1. Usable = Library!Outside /\ Usable' = Library!Outside
    BY Zenon, <1>2 DEF Usable
  <2> QED BY Zenon, <1>1, <1>2, <1>3, <1>4, <2>1 DEF InTheEnd
<1> QED BY <1>5, <1>6, <1>7, <1>8, <1>9 DEF ChipInv

LEMMA ChipStep ==
  ASSUME ChipInv, [Library!Next]_library_vars
  PROVE  ChipInv'
<1>1. CASE Library!Done
  <2>1. pc > 0 /\ ChipTypes
    BY Zenon, <1>1 DEF Library!Done, ChipInv
  <2>2. ChipTypes'
    BY Zenon, <1>1, <2>1, DoneMoves
  <2> QED BY Zenon, <1>1, <2>1, <2>2, DoneKeepsRegs, DoneKeepsBus DEF ChipInv
<1>2. CASE Library!Fail
  <2>1. pc > 0
    BY Zenon, <1>2 DEF Library!Fail
  <2> QED BY Zenon, <1>2, <2>1, FailKeeps
<1>3. CASE UNCHANGED library_vars
  <2>1. /\ chip' = chip /\ regs' = regs /\ power' = power /\ call' = call /\ hop' = hop /\ pc' = pc
        /\ clean' = clean /\ lost' = lost
    BY <1>3 DEF library_vars
  <2>2. /\ Now' = Now /\ Own(chip)' = Own(chip) /\ Known(chip)' = Known(chip) /\ Muxed' = Muxed
        /\ Library!Hopping' = Library!Hopping
    BY Zenon, <2>1, RunStays
  <2>3. ChipTypes' /\ Untouched'
    BY Zenon, <2>1, <2>2 DEF ChipInv, ChipTypes, Untouched
  <2>4. (BusIsFed => BusIsFed') /\ (StepIsFed => StepIsFed') /\ (Restored' => Restored)
    BY Zenon, <2>1, <2>2 DEF BusIsFed, StepIsFed, Restored
  <2>5. BusInv'
    BY Zenon, <2>1, <2>2, <2>4 DEF ChipInv, BusInv
  <2>6. Usable' = Usable
    BY Zenon, <2>1 DEF Usable
  <2>7. SoFar' /\ InTheEnd'
    BY Zenon, <2>1, <2>2, <2>6 DEF ChipInv, SoFar, InTheEnd
  <2> QED BY <2>3, <2>5, <2>7 DEF ChipInv
<1> QED BY Zenon, <1>1, <1>2, <1>3, CallKeeps, PwrOffKeeps DEF Library!Next

\* What the invariant says of the bus and of finished calls.
LEMMA FedIsFast == ChipInv => Library!FastBusOnPll
<1> SUFFICES ASSUME ChipInv, regs.spi = "64", ~lost
             PROVE  regs.pll = "on" /\ (Library!Is({"mt6635_2"}) \/ regs.mux = "on")
  BY Zenon DEF Library!FastBusOnPll
<1>1. ChipTypes /\ Untouched /\ BusInv
  BY DEF ChipInv
<1>2. CASE Library!Hopping
  <2>1. FedBus(regs, Muxed)
    BY Zenon, <1>1, <1>2 DEF BusInv, BusIsFed
  <2> QED BY Zenon, <2>1 DEF FedBus, Muxed
<1>3. CASE ~Library!Hopping
  <2>1. chip \in AllChips /\ DOMAIN regs = Library!Inside \cup Library!Outside
    BY <1>1 DEF ChipTypes
  <2>2. chip.name \in {"mt6627", "mt6580", "mt6630", "mt6632"}
    BY <1>3, <2>1, ChipsAre DEF Library!Hopping, Library!Is
  <2>3. "spi" \notin Own(chip)
    BY <2>2 DEF Own, Own27, Own80, Own30, Own32, Common, Supplies
  <2>4. regs["spi"] = Library!Reset["spi"]
    BY Zenon, <1>1, <2>1, <2>3, BusIsOutside DEF Untouched
  <2> QED BY <2>4 DEF Library!Reset, Library!Inside, Library!Outside
<1> QED BY <1>2, <1>3

LEMMA TunedIsBack == ChipInv => Library!TuneRecovers
<1> SUFFICES ASSUME ChipInv, pc = 0, call = "tune", clean
             PROVE  /\ regs.rf = "dsp" /\ regs.audio = "up"
                    /\ \A r \in Library!Used : regs[r] = "on"
                    /\ regs.spi = (IF Library!Hopping /\ hop THEN "64" ELSE "26")
                    /\ regs.i2s_hop = (IF chip.mt6625 /\ hop THEN "on" ELSE "off")
  BY Zenon DEF Library!TuneRecovers, Library!Over
<1>1. ChipTypes /\ Untouched /\ InTheEnd
  BY DEF ChipInv
<1>2. /\ chip \in AllChips /\ hop \in BOOLEAN /\ power = "rx"
      /\ DOMAIN regs = Library!Inside \cup Library!Outside
  BY <1>1 DEF ChipTypes
<1>3. \A r \in Library!Inside \cup Library!Outside : \A v : Ends(Now, r, v) => regs[r] = v
  <2>1. Usable = Library!Inside \cup Library!Outside
    BY <1>2 DEF Usable
  <2>2. call # "none"
    OBVIOUS
  <2> QED BY Zenon, <1>1, <2>1, <2>2 DEF InTheEnd
<1>4. /\ "rf" \in Library!Inside /\ "audio" \in Library!Inside /\ "i2s_hop" \in Library!Inside
      /\ "spi" \in Library!Outside /\ Library!Used \subseteq Library!Inside
  BY DEF Library!Inside, Library!Outside, Library!Used
<1>5. Serves(hop) /\ Now = Library!Steps("tune", hop)
  BY Zenon, <1>2, AllServe DEF Now
<1>6. /\ Ends(Now, "rf", "dsp") /\ Ends(Now, "audio", "up")
      /\ \A r \in Library!Used : Ends(Now, r, "on")
      /\ Library!Hopping => (hop => Ends(Now, "spi", "64")) /\ (~hop => Ends(Now, "spi", "26"))
      /\ chip.mt6625 => (hop => Ends(Now, "i2s_hop", "on")) /\ (~hop => Ends(Now, "i2s_hop", "off"))
  BY Zenon, <1>5 DEF Serves, TuneEnds
<1>7. regs["rf"] = "dsp" /\ regs["audio"] = "up" /\ \A r \in Library!Used : regs[r] = "on"
  BY Zenon, <1>3, <1>4, <1>6
<1>8. Library!Reset["spi"] = "26" /\ Library!Reset["i2s_hop"] = "off"
  BY <1>4 DEF Library!Reset
<1>9. regs["spi"] = (IF Library!Hopping /\ hop THEN "64" ELSE "26")
  <2>1. CASE Library!Hopping
    BY Zenon, <1>3, <1>4, <1>6, <2>1
  <2>2. CASE ~Library!Hopping
    <3>1. chip.name \in {"mt6627", "mt6580", "mt6630", "mt6632"}
      BY <1>2, <2>2, ChipsAre DEF Library!Hopping, Library!Is
    <3>2. "spi" \notin Own(chip)
      BY <3>1 DEF Own, Own27, Own80, Own30, Own32, Common, Supplies
    <3> QED BY Zenon, <1>1, <1>2, <1>4, <1>8, <2>2, <3>2 DEF Untouched
  <2> QED BY <2>1, <2>2
<1>10. regs["i2s_hop"] = (IF chip.mt6625 /\ hop THEN "on" ELSE "off")
  <2>1. CASE chip.mt6625
    BY Zenon, <1>3, <1>4, <1>6, <2>1
  <2>2. CASE ~chip.mt6625
    <3>1. "i2s_hop" \notin Own(chip)
      BY <1>2, <2>2, ChipsAre DEF Own, Own31, Own35, OwnC2, Own27, Own80, Own30, Own32, Common,
         Supplies, Library!BusClock
    <3> QED BY Zenon, <1>1, <1>2, <1>4, <1>8, <2>2, <3>1 DEF Untouched
  <2> QED BY <2>1, <2>2
<1> QED BY <1>7, <1>9, <1>10

LEMMA HomeIsReset ==
  ASSUME NEW r \in Library!Outside
  PROVE  Home(r) = Library!Reset[r]
<1>1. r # "rf"
  BY InsideIsNotOutside DEF Library!Inside
<1> QED BY <1>1 DEF Home, Library!Reset

LEMMA DownGivesBack == ChipInv => Library!PowerDownReleases
<1> SUFFICES ASSUME ChipInv, pc = 0, call = "PowerDown", clean,
                    NEW r \in Library!Outside \ Library!Leftover
             PROVE  regs[r] = Library!Reset[r]
  BY Zenon DEF Library!PowerDownReleases, Library!Over
<1>1. ChipTypes /\ Untouched /\ InTheEnd
  BY DEF ChipInv
<1>2. chip \in AllChips /\ hop \in BOOLEAN /\ DOMAIN regs = Library!Inside \cup Library!Outside
  BY <1>1 DEF ChipTypes
<1>3. r \in Usable /\ r \in DOMAIN regs /\ r \in Library!Outside
  BY <1>2 DEF Usable
<1>4. CASE r \in Own(chip)
  <2>1. Serves(hop) /\ Now = Library!Steps("PowerDown", hop)
    BY Zenon, <1>2, AllServe DEF Now
  <2>2. Ends(Now, r, Home(r))
    <3>1. r \in (Library!Outside \cap Own(chip)) \ Library!Leftover
      BY <1>4
    <3> QED BY Zenon, <2>1, <3>1 DEF Serves, DownEnds
  <2>3. call # "none"
    OBVIOUS
  <2>4. regs[r] = Home(r)
    BY Zenon, <1>1, <1>3, <2>2, <2>3 DEF InTheEnd
  <2> QED BY Zenon, <1>3, <2>4, HomeIsReset
<1>5. CASE r \notin Own(chip)
  BY Zenon, <1>1, <1>3, <1>5 DEF Untouched
<1> QED BY <1>4, <1>5

-----------------------------------------------------------------------------
(* FmRds: the data of a list stays the station's, group after group.  Two places hold  *)
(* the pairs, so that each operator on them is taken apart place by place.             *)

\* What a group with a count leaves of the data.
Counted(f, n, h) ==
  /\ h \in Rds!AfData /\ h.num = n /\ (h.got => n = f.num)
  /\ \A s \in Rds!Slots \ {0} : h.first[s] = f.first[s] /\ h.second[s] = f.second[s]
  /\ h.ready => f.ready \/ (n = f.num /\ n = 1)

LEMMA HeaderIs ==
  ASSUME NEW f \in Rds!AfData, NEW n \in Nat, NEW freq \in Nat
  PROVE  Counted(f, n, Rds!Header(f, n, freq))
<1>1. PICK b \in BOOLEAN : b = (n = f.num)
  OBVIOUS
<1>2. PICK c \in BOOLEAN : c = (f.ready \/ (program = "list" /\ n = f.num /\ n = 1))
  OBVIOUS
<1>3. Rds!Header(f, n, freq) = [f EXCEPT !.num = n, !.got = b, !.first[0] = freq, !.second[0] = freq, !.ready = c]
  BY <1>1, <1>2, Zenon DEF Rds!Header
<1>4. PICK fi \in [Rds!Slots -> Nat] : fi = [f.first EXCEPT ![0] = freq]
  BY DEF Rds!AfData
<1>5. PICK se \in [Rds!Slots -> Nat] : se = [f.second EXCEPT ![0] = freq]
  BY DEF Rds!AfData
<1>6. Rds!Header(f, n, freq) = [num |-> n, got |-> b, first |-> fi, second |-> se, ready |-> c]
  BY <1>3, <1>4, <1>5 DEF Rds!AfData
<1>7. \A s \in Rds!Slots \ {0} : fi[s] = f.first[s] /\ se[s] = f.second[s]
  BY <1>4, <1>5 DEF Rds!AfData
<1>8. PICK g : g = [num |-> n, got |-> b, first |-> fi, second |-> se, ready |-> c]
  OBVIOUS
<1>9. g \in Rds!AfData /\ g.num = n /\ g.first = fi /\ g.second = se /\ g.got = b /\ g.ready = c
  BY <1>8 DEF Rds!AfData
<1>10. Rds!Header(f, n, freq) = g
  BY <1>6, <1>8
<1>11. (g.got => n = f.num) /\ (g.ready => f.ready \/ (n = f.num /\ n = 1))
  BY <1>1, <1>2, <1>9
<1> QED BY <1>7, <1>9, <1>10, <1>11 DEF Counted

\* A new count is the list's, or the group is from it.
LEMMA HeaderKeeps ==
  ASSUME NEW l, Rds!IsList(l), NEW f, Rds!FromList(f, l)
  PROVE  Rds!FromList(Rds!Header(f, l[1][1], l[1][2]), l)
<1>1. l[1][1] \in 0 .. 5 /\ l[1][2] \in Nat /\ Len(l) = 1 + l[1][1] \div 2
  BY DEF Rds!IsList
<1>2. f \in Rds!AfData /\ Rds!Holds(f.first, l)
  BY DEF Rds!FromList
<1>3. PICK g : g = Rds!Header(f, l[1][1], l[1][2])
  OBVIOUS
<1>4. /\ g \in Rds!AfData /\ g.num = l[1][1] /\ (g.got => g.num = f.num)
      /\ \A s \in Rds!Slots \ {0} : g.first[s] = f.first[s] /\ g.second[s] = f.second[s]
      /\ g.ready => f.ready \/ (f.num = l[1][1] /\ l[1][1] = 1)
  <2>1. PICK n, freq : n = l[1][1] /\ freq = l[1][2]
    OBVIOUS
  <2>2. n \in Nat /\ freq \in Nat /\ g = Rds!Header(f, n, freq)
    BY <1>1, <1>3, <2>1
  <2>3. Counted(f, n, g)
    BY <1>2, <2>2, HeaderIs
  <2> QED BY <2>1, <2>3 DEF Counted
<1>5. \A i \in 1 .. 2 : Rds!PairAt(g.first, i) = Rds!PairAt(f.first, i)
  BY <1>4 DEF Rds!PairAt, Rds!Slots
<1>6. Rds!Holds(g.first, l)
  BY <1>2, <1>4, <1>5 DEF Rds!Holds, Rds!Slots
<1>7. ASSUME g.ready
      PROVE  \A k \in 2 .. Len(l) : Rds!Reports(g, l[k])
  <2>1. CASE f.ready
    <3>1. f.num = g.num
      BY <1>4, <2>1 DEF Rds!FromList
    <3>2. Rds!Pairs(g) = Rds!Pairs(f) /\ Rds!Pairs(g) \subseteq 1 .. 2
      BY <1>1, <1>4, <3>1 DEF Rds!Pairs
    <3>3. \A i \in 1 .. 2 : /\ g.second[2 * i - 1] = f.second[2 * i - 1]
                            /\ g.second[2 * i] = f.second[2 * i]
      BY <1>4 DEF Rds!Slots
    <3>4. \A k \in 2 .. Len(l) : Rds!Reports(f, l[k])
      BY <2>1 DEF Rds!FromList
    <3> QED BY <3>1, <3>2, <3>3, <3>4 DEF Rds!Reports
  <2>2. CASE l[1][1] = 1
    BY <1>1, <2>2
  <2> QED BY <1>4, <1>7, <2>1, <2>2
<1> QED BY <1>3, <1>4, <1>6, <1>7 DEF Rds!FromList

LEMMA ListPair ==
  ASSUME NEW l, Rds!IsList(l), NEW k \in 2 .. Len(l)
  PROVE  l[k] \in Nat \X Nat /\ l[k][1] \in Nat \ {0} /\ l[k][2] \in Nat /\ l[k] = <<l[k][1], l[k][2]>>
<1>1. l \in Seq(Nat \X Nat) /\ l[k][1] # 0
  BY DEF Rds!IsList
<1>2. k \in 1 .. Len(l)
  BY <1>1
<1>3. l[k] \in Nat \X Nat
  BY <1>1, <1>2
<1> QED BY <1>1, <1>3

\* h is f with at most its places changed.
Refilled(f, h, l) ==
  /\ h \in Rds!AfData /\ Rds!Holds(h.first, l)
  /\ h.num = f.num /\ h.got = f.got /\ h.second = f.second /\ h.ready = f.ready

\* g is e with a pair put to places a and c.
HasPair(e, g, a, c, p, q) ==
  /\ g \in [Rds!Slots -> Nat] /\ g[a] = p /\ g[c] = q
  /\ \A s \in Rds!Slots \ {a, c} : g[s] = e[s]

LEMMA PutsPair ==
  ASSUME NEW e \in [Rds!Slots -> Nat], NEW p \in Nat, NEW q \in Nat, NEW a \in Rds!Slots, NEW c \in Rds!Slots, a # c
  PROVE  HasPair(e, [[e EXCEPT ![a] = p] EXCEPT ![c] = q], a, c, p, q)
<1>1. PICK h : h = [e EXCEPT ![a] = p]
  OBVIOUS
<1>2. h \in [Rds!Slots -> Nat] /\ h[a] = p /\ \A s \in Rds!Slots \ {a} : h[s] = e[s]
  BY <1>1 DEF Rds!Slots
<1>3. PICK g : g = [h EXCEPT ![c] = q]
  OBVIOUS
<1>4. g \in [Rds!Slots -> Nat] /\ g[c] = q /\ \A s \in Rds!Slots \ {c} : g[s] = h[s]
  BY <1>2, <1>3 DEF Rds!Slots
<1>5. g[a] = p /\ \A s \in Rds!Slots \ {a, c} : g[s] = e[s]
  BY <1>2, <1>4 DEF Rds!Slots
<1> QED BY <1>1, <1>3, <1>4, <1>5 DEF HasPair

LEMMA PlacedKeeps ==
  ASSUME program = "list", NEW l, Rds!IsList(l), NEW f, Rds!FromList(f, l), NEW k \in 2 .. Len(l)
  PROVE  Refilled(f, Rds!Placed(f, l[k]), l)
<1> DEFINE stop == {j \in Rds!Pairs(f) : Rds!SamePair(f, l[k], j) \/ f.first[2 * j - 1] = 0}
           i == CHOOSE j \in stop : \A m \in stop : j <= m
           h == [f EXCEPT !.first[2 * i - 1] = l[k][1], !.first[2 * i] = l[k][2]]
<1>1. Rds!Placed(f, l[k]) = IF stop = {} \/ f.first[2 * i - 1] # 0 THEN f ELSE h
  BY DEF Rds!Placed
<1>2. /\ f \in Rds!AfData /\ Rds!Holds(f.first, l) /\ f.num \in 0 .. 5
  BY DEF Rds!FromList, Rds!IsList
<1>3. stop \subseteq 1 .. 2 /\ \A j \in 1 .. 2 : j \in stop /\ j > 1 => 1 \in Rds!Pairs(f)
  BY <1>2 DEF Rds!Pairs
<1>4. CASE stop = {} \/ f.first[2 * i - 1] # 0
  BY <1>1, <1>2, <1>4 DEF Refilled
<1>5. CASE stop # {} /\ f.first[2 * i - 1] = 0
  <2>1. \E j \in stop : \A m \in stop : j <= m
    BY <1>3, <1>5
  <2>2. i \in stop /\ \A m \in stop : i <= m
    <3> HIDE DEF stop
    <3> QED BY <2>1
  <2>3. i = 1 \/ i = 2
    BY <1>3, <2>2
  <2>4. i = 2 => 1 \notin stop /\ 1 \in Rds!Pairs(f)
    <3> HIDE DEF stop, i
    <3> QED BY <1>3, <2>2
  <2>5. i = 2 => f.first[1] # 0 /\ Rds!PairAt(f.first, 1) # l[k]
    BY <2>4 DEF Rds!SamePair, Rds!InPlace
  <2>6. PICK j : j = i
    OBVIOUS
  <2>7. PICK p, q : p = l[k][1] /\ q = l[k][2]
    OBVIOUS
  <2>8. p \in Nat \ {0} /\ q \in Nat /\ l[k] = <<p, q>>
    BY <2>7, ListPair
  <2>9. h = [f EXCEPT !.first[2 * j - 1] = p, !.first[2 * j] = q]
    BY <2>6, <2>7
  <2>10. Rds!Placed(f, l[k]) = h
    BY <1>1, <1>5
  <2> HIDE DEF stop, i, h
  <2>11. PICK fi \in [Rds!Slots -> Nat] : fi = [[f.first EXCEPT ![2 * j - 1] = p] EXCEPT ![2 * j] = q]
    BY <1>2, <2>3, <2>6, <2>8 DEF Rds!AfData, Rds!Slots
  <2>12. h = [f EXCEPT !.first = fi]
    BY <1>2, <2>9, <2>11 DEF Rds!AfData
  <2>13. h \in Rds!AfData /\ h.first = fi /\ h.num = f.num /\ h.got = f.got /\ h.second = f.second /\ h.ready = f.ready
    BY <1>2, <2>12 DEF Rds!AfData
  <2>14. CASE j = 1
    <3>1. fi[1] = p /\ fi[2] = q /\ fi[3] = f.first[3] /\ fi[4] = f.first[4]
      <4>1. fi = [[f.first EXCEPT ![1] = p] EXCEPT ![2] = q]
        BY <2>11, <2>14
      <4>2. f.first \in [Rds!Slots -> Nat]
        BY <1>2 DEF Rds!AfData
      <4>3. HasPair(f.first, fi, 1, 2, p, q)
        <5>1. 1 \in Rds!Slots /\ 2 \in Rds!Slots /\ 1 # 2
          BY DEF Rds!Slots
        <5> QED BY <2>8, <4>1, <4>2, <5>1, PutsPair, Zenon
      <4> QED BY <4>3 DEF HasPair, Rds!Slots
    <3>2. f.first[1] = 0 /\ f.first[3] = 0
      BY <1>2, <1>5, <2>6, <2>14 DEF Rds!Holds
    <3>3. Rds!PairAt(fi, 1) = l[k] /\ Rds!PairAt(fi, 2) = Rds!PairAt(f.first, 2)
      BY <2>8, <3>1 DEF Rds!PairAt
    <3>4. Rds!PairAt(fi, 1) # Rds!PairAt(fi, 2)
      BY <2>8, <3>1, <3>2 DEF Rds!PairAt
    <3>5. Rds!Holds(fi, l)
      BY <1>2, <3>1, <3>2, <3>3, <3>4 DEF Rds!Holds
    <3> QED BY <2>10, <2>13, <3>5 DEF Refilled
  <2>15. CASE j = 2
    <3>1. fi[1] = f.first[1] /\ fi[2] = f.first[2] /\ fi[3] = p /\ fi[4] = q
      <4>1. fi = [[f.first EXCEPT ![3] = p] EXCEPT ![4] = q]
        BY <2>11, <2>15
      <4>2. f.first \in [Rds!Slots -> Nat]
        BY <1>2 DEF Rds!AfData
      <4>3. HasPair(f.first, fi, 3, 4, p, q)
        <5>1. 3 \in Rds!Slots /\ 4 \in Rds!Slots /\ 3 # 4
          BY DEF Rds!Slots
        <5> QED BY <2>8, <4>1, <4>2, <5>1, PutsPair, Zenon
      <4> QED BY <4>3 DEF HasPair, Rds!Slots
    <3>2. f.first[1] # 0 /\ Rds!PairAt(f.first, 1) # l[k]
      BY <2>5, <2>6, <2>15
    <3>3. Rds!PairAt(fi, 1) = Rds!PairAt(f.first, 1) /\ Rds!PairAt(fi, 2) = l[k]
      BY <2>8, <3>1 DEF Rds!PairAt
    <3>5. Rds!Holds(fi, l)
      BY <1>2, <3>1, <3>2, <3>3 DEF Rds!Holds
    <3> QED BY <2>10, <2>13, <3>5 DEF Refilled
  <2> QED BY <2>3, <2>6, <2>10, <2>14, <2>15
<1> QED BY <1>4, <1>5

\* Every place of the list has its pair.
IsFull(f) == \A i \in Rds!Pairs(f) : f.first[2 * i - 1] # 0

\* Two places can be sorted.
LEMMA OrderExists ==
  ASSUME NEW e \in [Rds!Slots -> Nat], NEW places \in {{}, {1}, {1, 2}}
  PROVE  \E o \in Rds!Orders(places) : Rds!Ascends(e, o, places)
<1>1. CASE places # {1, 2}
  <2>1. [i \in places |-> i] \in Rds!Orders(places)
    BY DEF Rds!Orders
  <2>2. Rds!Ascends(e, [i \in places |-> i], places)
    BY <1>1 DEF Rds!Ascends
  <2> QED BY <2>1, <2>2
<1>2. CASE places = {1, 2}
  <2> DEFINE keep == [i \in places |-> i]
             swap == [i \in places |-> 3 - i]
  <2>1. keep \in Rds!Orders(places) /\ keep[1] = 1 /\ keep[2] = 2
    BY <1>2 DEF Rds!Orders
  <2>2. swap \in Rds!Orders(places) /\ swap[1] = 2 /\ swap[2] = 1
    BY <1>2 DEF Rds!Orders
  <2>3. PICK p, q, r, s \in Nat : Rds!PairAt(e, 1) = <<p, q>> /\ Rds!PairAt(e, 2) = <<r, s>>
    BY DEF Rds!PairAt, Rds!Slots
  <2>4. ~Rds!Less(<<r, s>>, <<p, q>>) \/ ~Rds!Less(<<p, q>>, <<r, s>>)
    BY DEF Rds!Less
  <2> HIDE DEF keep, swap
  <2>5. ~Rds!Less(<<r, s>>, <<p, q>>) => Rds!Ascends(e, keep, places)
    BY <1>2, <2>1, <2>3 DEF Rds!Ascends
  <2>6. ~Rds!Less(<<p, q>>, <<r, s>>) => Rds!Ascends(e, swap, places)
    BY <1>2, <2>2, <2>3 DEF Rds!Ascends
  <2> QED BY <2>1, <2>2, <2>4, <2>5, <2>6
<1> QED BY <1>1, <1>2

LEMMA SortedIs ==
  ASSUME program = "list", NEW f \in Rds!AfData, f.num \in 0 .. 5
  PROVE  \E o \in Rds!Orders(Rds!Pairs(f)) :
           Rds!Sorted(f) = [f EXCEPT !.first = [s \in Rds!Slots |->
             IF s = 0 \/ (s + 1) \div 2 \notin Rds!Pairs(f) THEN f.first[s]
             ELSE Rds!PairAt(f.first, o[(s + 1) \div 2])[IF s % 2 = 1 THEN 1 ELSE 2]]]
<1>1. Rds!Pairs(f) \in {{}, {1}, {1, 2}}
  <2>1. f.num \div 2 \in {0, 1, 2}
    BY SMT
  <2>2. 1 .. 0 = {} /\ 1 .. 1 = {1} /\ 1 .. 2 = {1, 2}
    BY SMT
  <2> QED BY <2>1, <2>2 DEF Rds!Pairs
<1>2. f.first \in [Rds!Slots -> Nat]
  BY DEF Rds!AfData
<1>3. \E o \in Rds!Orders(Rds!Pairs(f)) : Rds!Ascends(f.first, o, Rds!Pairs(f))
  BY <1>1, <1>2, OrderExists
<1> DEFINE order == CHOOSE o \in Rds!Orders(Rds!Pairs(f)) : Rds!Ascends(f.first, o, Rds!Pairs(f))
<1>4. order \in Rds!Orders(Rds!Pairs(f))
  BY <1>3
<1>5. Rds!Sorted(f) = [f EXCEPT !.first = [s \in Rds!Slots |->
             IF s = 0 \/ (s + 1) \div 2 \notin Rds!Pairs(f) THEN f.first[s]
             ELSE Rds!PairAt(f.first, order[(s + 1) \div 2])[IF s % 2 = 1 THEN 1 ELSE 2]]]
  BY Zenon DEF Rds!Sorted
<1> HIDE DEF order
<1> QED BY <1>4, <1>5

LEMMA SortedKeeps ==
  ASSUME program = "list", NEW l, Rds!IsList(l), NEW f \in Rds!AfData, Rds!Holds(f.first, l),
         f.num \in 0 .. 5, IsFull(f)
  PROVE  Refilled(f, Rds!Sorted(f), l) /\ IsFull(Rds!Sorted(f))
<1>1. PICK o \in Rds!Orders(Rds!Pairs(f)) :
           Rds!Sorted(f) = [f EXCEPT !.first = [s \in Rds!Slots |->
             IF s = 0 \/ (s + 1) \div 2 \notin Rds!Pairs(f) THEN f.first[s]
             ELSE Rds!PairAt(f.first, o[(s + 1) \div 2])[IF s % 2 = 1 THEN 1 ELSE 2]]]
  BY SortedIs
<1>2. Rds!Pairs(f) \in {{}, {1}, {1, 2}}
  <2>1. f.num \div 2 \in {0, 1, 2}
    BY SMT
  <2>2. 1 .. 0 = {} /\ 1 .. 1 = {1} /\ 1 .. 2 = {1, 2}
    BY SMT
  <2> QED BY <2>1, <2>2 DEF Rds!Pairs
<1>3. f.first \in [Rds!Slots -> Nat]
  BY DEF Rds!AfData
<1>4. PICK fi : fi = [s \in Rds!Slots |->
             IF s = 0 \/ (s + 1) \div 2 \notin Rds!Pairs(f) THEN f.first[s]
             ELSE Rds!PairAt(f.first, o[(s + 1) \div 2])[IF s % 2 = 1 THEN 1 ELSE 2]]
  OBVIOUS
<1>5. \A i \in Rds!Pairs(f) : o[i] \in Rds!Pairs(f) /\ \A j \in Rds!Pairs(f) : i # j => o[i] # o[j]
  BY DEF Rds!Orders
<1>6. \A i \in 1 .. 2 : /\ 2 * i - 1 \in Rds!Slots /\ 2 * i \in Rds!Slots
                        /\ (2 * i - 1 + 1) \div 2 = i /\ (2 * i + 1) \div 2 = i
                        /\ (2 * i - 1) % 2 = 1 /\ (2 * i) % 2 # 1 /\ 2 * i - 1 # 0 /\ 2 * i # 0
  BY DEF Rds!Slots
<1>7. \A i \in 1 .. 2 \ Rds!Pairs(f) : fi[2 * i - 1] = f.first[2 * i - 1] /\ fi[2 * i] = f.first[2 * i]
  BY <1>4, <1>6
<1>8. \A i \in Rds!Pairs(f) : /\ fi[2 * i - 1] = f.first[2 * o[i] - 1]
                              /\ fi[2 * i] = f.first[2 * o[i]]
  <2>1. SUFFICES ASSUME NEW i \in Rds!Pairs(f)
        PROVE fi[2 * i - 1] = f.first[2 * o[i] - 1] /\ fi[2 * i] = f.first[2 * o[i]]
    OBVIOUS
  <2>2. i \in 1 .. 2
    BY <1>2
  <2>3. fi[2 * i - 1] = Rds!PairAt(f.first, o[i])[1] /\ fi[2 * i] = Rds!PairAt(f.first, o[i])[2]
    BY <1>4, <1>6, <2>2
  <2> QED BY <2>3 DEF Rds!PairAt
<1>9. fi \in [Rds!Slots -> Nat]
  <2>1. SUFFICES ASSUME NEW s \in Rds!Slots PROVE fi[s] \in Nat
    BY <1>4
  <2>2. s = 0 \/ s = 1 \/ s = 2 \/ s = 3 \/ s = 4
    BY DEF Rds!Slots
  <2>3. fi[0] = f.first[0]
    BY <1>4 DEF Rds!Slots
  <2>4. \A j \in {1, 2} : f.first[2 * j - 1] \in Nat /\ f.first[2 * j] \in Nat
    BY <1>3 DEF Rds!Slots
  <2>5. fi[1] \in Nat /\ fi[2] \in Nat
    <3>1. CASE 1 \in Rds!Pairs(f)
      BY <1>2, <1>5, <1>8, <2>4, <3>1
    <3>2. CASE 1 \notin Rds!Pairs(f)
      BY <1>7, <2>4, <3>2
    <3> QED BY <3>1, <3>2
  <2>6. fi[3] \in Nat /\ fi[4] \in Nat
    <3>1. CASE 2 \in Rds!Pairs(f)
      BY <1>2, <1>5, <1>8, <2>4, <3>1
    <3>2. CASE 2 \notin Rds!Pairs(f)
      BY <1>7, <2>4, <3>2
    <3> QED BY <3>1, <3>2
  <2>7. f.first[0] \in Nat
    BY <1>3 DEF Rds!Slots
  <2> QED BY <2>2, <2>3, <2>5, <2>6, <2>7
<1>10. PICK g : g = Rds!Sorted(f)
  OBVIOUS
<1>11. g = [f EXCEPT !.first = fi]
  BY <1>1, <1>4, <1>10
<1>12. g \in Rds!AfData /\ g.first = fi /\ g.num = f.num /\ g.got = f.got /\ g.second = f.second /\ g.ready = f.ready
  BY <1>9, <1>11 DEF Rds!AfData
<1>13. /\ \A i \in Rds!Pairs(f) : Rds!PairAt(fi, i) = Rds!PairAt(f.first, o[i])
       /\ \A i \in 1 .. 2 \ Rds!Pairs(f) : Rds!PairAt(fi, i) = Rds!PairAt(f.first, i)
  BY <1>7, <1>8 DEF Rds!PairAt
<1>14. IsFull(g)
  <2>1. Rds!Pairs(g) = Rds!Pairs(f)
    BY <1>12 DEF Rds!Pairs
  <2> QED BY <1>5, <1>8, <1>12, <2>1 DEF IsFull
<1>15. Rds!Holds(fi, l)
  <2>1. \A i \in 1 .. 2 : \E j \in 1 .. 2 : Rds!PairAt(fi, i) = Rds!PairAt(f.first, j)
    BY <1>2, <1>5, <1>13
  <2>2. \A i \in 1 .. 2 : Rds!PairAt(fi, i) = <<0, 0>> \/ \E k \in 2 .. Len(l) : Rds!PairAt(fi, i) = l[k]
    BY <2>1 DEF Rds!Holds
  <2>3. CASE Rds!Pairs(f) = {}
    <3>1. fi[1] = f.first[1] /\ fi[3] = f.first[3] /\ \A i \in 1 .. 2 : Rds!PairAt(fi, i) = Rds!PairAt(f.first, i)
      BY <1>7, <1>13, <2>3
    <3> QED BY <2>2, <3>1 DEF Rds!Holds
  <2>4. CASE Rds!Pairs(f) = {1}
    <3>1. fi[1] = f.first[1] /\ fi[3] = f.first[3] /\ \A i \in 1 .. 2 : Rds!PairAt(fi, i) = Rds!PairAt(f.first, i)
      BY <1>5, <1>7, <1>8, <1>13, <2>4
    <3> QED BY <2>2, <3>1 DEF Rds!Holds
  <2>5. CASE Rds!Pairs(f) = {1, 2}
    <3>1. f.first[1] # 0 /\ f.first[3] # 0 /\ Rds!PairAt(f.first, 1) # Rds!PairAt(f.first, 2)
      BY <2>5 DEF IsFull, Rds!Holds
    <3>2. fi[1] # 0 /\ fi[3] # 0
      BY <1>5, <1>8, <2>5, <3>1
    <3>3. (o[1] = 1 /\ o[2] = 2) \/ (o[1] = 2 /\ o[2] = 1)
      BY <1>5, <2>5
    <3>4. Rds!PairAt(fi, 1) # Rds!PairAt(fi, 2)
      BY <1>13, <2>5, <3>1, <3>3
    <3> QED BY <2>2, <3>2, <3>4 DEF Rds!Holds
  <2> QED BY <1>2, <2>3, <2>4, <2>5
<1> QED BY <1>10, <1>12, <1>14, <1>15 DEF Refilled

\* A full list has the list's pairs, in whatever order.
IsCopyOf(se, first, n) ==
  /\ \A i \in 1 .. n \div 2 : first[2 * i - 1] # 0
  /\ \A s \in 1 .. 4 : s < n => se[s] = first[s]

HasAll(se, n, l) ==
  \A k \in 2 .. Len(l) : \E i \in 1 .. n \div 2 :
    se[2 * i - 1] = l[k][1] /\ (2 * i < n => se[2 * i] = l[k][2])

LEMMA FullHasAll ==
  ASSUME NEW l, Rds!IsList(l), NEW first \in [Rds!Slots -> Nat], Rds!Holds(first, l),
         NEW se, NEW n, n = l[1][1], IsCopyOf(se, first, n)
  PROVE  HasAll(se, n, l)
<1> USE DEF IsCopyOf, HasAll
<1>1. n \in 1 .. 5 /\ Len(l) = 1 + n \div 2
  BY DEF Rds!IsList
<1>2. \A k \in 2 .. Len(l) : l[k] = <<l[k][1], l[k][2]>>
  BY ListPair
<1>3. \A i \in 1 .. n \div 2 : \E k \in 2 .. Len(l) : first[2 * i - 1] = l[k][1] /\ first[2 * i] = l[k][2]
  <2>1. SUFFICES ASSUME NEW i \in 1 .. n \div 2
        PROVE  \E k \in 2 .. Len(l) : first[2 * i - 1] = l[k][1] /\ first[2 * i] = l[k][2]
    OBVIOUS
  <2>2. i \in 1 .. 2 /\ first[2 * i - 1] # 0
    <3>1. n \div 2 \in {0, 1, 2}
      BY <1>1, SMT
    <3> QED BY <3>1
  <2>3. Rds!PairAt(first, i) = <<0, 0>> \/ \E k \in 2 .. Len(l) : Rds!PairAt(first, i) = l[k]
    BY <2>2 DEF Rds!Holds
  <2>4. Rds!PairAt(first, i) = <<first[2 * i - 1], first[2 * i]>>
    BY DEF Rds!PairAt
  <2> QED BY <2>2, <2>3, <2>4
<1>4. CASE n = 1
  BY <1>1, <1>4
<1>5. CASE n \in {2, 3}
  <2>1. n \div 2 = 1 /\ Len(l) = 2
    BY <1>1, <1>5
  <2>2. first[1] = l[2][1] /\ first[2] = l[2][2]
    BY <1>3, <2>1
  <2> QED BY <1>5, <2>1, <2>2
<1>6. CASE n \in {4, 5}
  <2>1. n \div 2 = 2 /\ Len(l) = 3
    BY <1>1, <1>6
  <2>2. /\ \E k \in 2 .. 3 : first[1] = l[k][1] /\ first[2] = l[k][2]
        /\ \E k \in 2 .. 3 : first[3] = l[k][1] /\ first[4] = l[k][2]
    BY <1>3, <2>1
  <2>3. first[1] # first[3] \/ first[2] # first[4]
    BY <2>1 DEF Rds!Holds, Rds!PairAt
  <2>4. \/ first[1] = l[2][1] /\ first[2] = l[2][2] /\ first[3] = l[3][1] /\ first[4] = l[3][2]
        \/ first[1] = l[3][1] /\ first[2] = l[3][2] /\ first[3] = l[2][1] /\ first[4] = l[2][2]
    BY <2>2, <2>3
  <2>5. se[1] = first[1] /\ se[2] = first[2] /\ se[3] = first[3] /\ (4 < n => se[4] = first[4])
    BY <1>6
  <2> QED BY <2>1, <2>4, <2>5
<1> QED BY <1>1, <1>4, <1>5, <1>6

LEMMA CopiedKeeps ==
  ASSUME NEW l, Rds!IsList(l), NEW f \in Rds!AfData, Rds!Holds(f.first, l),
         f.num = l[1][1], IsFull(f)
  PROVE  Rds!FromList(Rds!Copied(f), l)
<1>1. f.num \in 0 .. 5
  BY DEF Rds!IsList
<1>2. f.first \in [Rds!Slots -> Nat] /\ f.second \in [Rds!Slots -> Nat]
  BY DEF Rds!AfData
<1>3. PICK c \in BOOLEAN : c = \A s \in 0 .. f.num - 1 : f.first[s] = f.second[s] /\ f.first[s] # 0
  OBVIOUS
<1>4. PICK se : se = [s \in Rds!Slots |-> IF s < f.num THEN f.first[s] ELSE f.second[s]]
  OBVIOUS
<1>5. se \in [Rds!Slots -> Nat]
  BY <1>2, <1>4
<1>6. PICK g : g = Rds!Copied(f)
  OBVIOUS
<1>7. g = [f EXCEPT !.second = se, !.ready = c]
  BY <1>3, <1>4, <1>6, Zenon DEF Rds!Copied
<1>8. g \in Rds!AfData /\ g.num = f.num /\ g.first = f.first /\ g.second = se /\ g.ready = c
  BY <1>3, <1>5, <1>7 DEF Rds!AfData
<1>9. \A s \in 1 .. 4 : s < f.num => se[s] = f.first[s]
  BY <1>4 DEF Rds!Slots
<1>10. \A k \in 2 .. Len(l) : Rds!Reports(g, l[k])
  <2>1. PICK n, first : n = f.num /\ first = f.first
    OBVIOUS
  <2>2. n = l[1][1] /\ first \in [Rds!Slots -> Nat] /\ Rds!Holds(first, l)
    BY <1>2, <2>1
  <2>3. IsCopyOf(se, first, n)
    BY <1>9, <2>1 DEF IsCopyOf, IsFull, Rds!Pairs
  <2>4. HasAll(se, n, l)
    BY <2>2, <2>3, FullHasAll
  <2> QED BY <1>8, <2>1, <2>4 DEF HasAll, Rds!Reports, Rds!Pairs
<1> QED BY <1>6, <1>8, <1>10 DEF Rds!FromList

LEMMA LastIsFull ==
  ASSUME NEW l, Rds!IsList(l), NEW f \in Rds!AfData, Rds!Holds(f.first, l),
         f.num \in 1 .. 5, f.first[f.num - 1] # 0
  PROVE  IsFull(f)
<1>1. f.first \in [Rds!Slots -> Nat]
  BY DEF Rds!AfData
<1>2. \A i \in 1 .. 2 : f.first[2 * i - 1] = 0 => f.first[2 * i] = 0
  <2>1. SUFFICES ASSUME NEW i \in 1 .. 2, f.first[2 * i - 1] = 0 PROVE f.first[2 * i] = 0
    OBVIOUS
  <2>2. Rds!PairAt(f.first, i) = <<f.first[2 * i - 1], f.first[2 * i]>>
    BY DEF Rds!PairAt
  <2>3. CASE Rds!PairAt(f.first, i) = <<0, 0>>
    BY <2>2, <2>3
  <2>4. ASSUME NEW k \in 2 .. Len(l), Rds!PairAt(f.first, i) = l[k] PROVE FALSE
    BY <2>1, <2>2, <2>4, ListPair
  <2> QED BY <2>3, <2>4 DEF Rds!Holds
<1>3. f.first[1] = 0 => f.first[2] = 0 /\ f.first[3] = 0
  BY <1>2 DEF Rds!Holds
<1>4. f.first[3] = 0 => f.first[4] = 0
  BY <1>2
<1>5. CASE f.num = 1
  BY <1>5 DEF IsFull, Rds!Pairs
<1>6. CASE f.num \in {2, 3}
  <2>1. f.first[1] # 0
    BY <1>3, <1>6
  <2> QED BY <1>6, <2>1 DEF IsFull, Rds!Pairs
<1>7. CASE f.num \in {4, 5}
  <2>1. f.first[1] # 0 /\ f.first[3] # 0
    BY <1>3, <1>4, <1>7
  <2>2. Rds!Pairs(f) = 1 .. 2
    BY <1>7 DEF Rds!Pairs
  <2> QED BY <2>1, <2>2 DEF IsFull
<1> QED BY <1>5, <1>6, <1>7

\* The same pair twice, two pairs out of order, a list that is full: the data stays
\* the list's.
LEMMA WithPairKeeps ==
  ASSUME program = "list", NEW l, Rds!IsList(l), NEW f, Rds!FromList(f, l), NEW k \in 2 .. Len(l)
  PROVE  Rds!FromList(Rds!WithPair(f, l[k]), l)
<1>1. PICK p : p = Rds!Placed(f, l[k])
  OBVIOUS
<1>2. Refilled(f, p, l)
  BY <1>1, PlacedKeeps
<1>3. /\ p \in Rds!AfData /\ Rds!Holds(p.first, l) /\ p.num = f.num /\ p.got = f.got
      /\ p.second = f.second /\ p.ready = f.ready
  BY <1>2 DEF Refilled
<1>4. f.num \in {0, l[1][1]} /\ (f.got => f.num = l[1][1])
  BY DEF Rds!FromList
<1>5. Rds!WithPair(f, l[k]) = IF ~f.got \/ f.ready THEN f
                              ELSE IF f.num = 0 \/ p.first[f.num - 1] = 0 THEN p
                              ELSE Rds!Copied(Rds!Sorted(p))
  BY <1>1 DEF Rds!WithPair
<1>6. CASE ~f.got \/ f.ready
  BY <1>5, <1>6
<1>7. CASE f.got /\ ~f.ready /\ (f.num = 0 \/ p.first[f.num - 1] = 0)
  <2>1. Rds!WithPair(f, l[k]) = p
    BY <1>5, <1>7
  <2>2. ~p.ready
    BY <1>3, <1>7
  <2>3. Rds!FromList(p, l)
    BY <1>3, <1>4, <2>2 DEF Rds!FromList
  <2> QED BY <2>1, <2>3
<1>8. CASE f.got /\ ~f.ready /\ f.num # 0 /\ p.first[f.num - 1] # 0
  <2>1. f.num = l[1][1] /\ f.num \in 1 .. 5
    BY <1>4, <1>8 DEF Rds!IsList
  <2>2. IsFull(p)
    BY <1>3, <1>8, <2>1, LastIsFull
  <2>3. PICK s : s = Rds!Sorted(p)
    OBVIOUS
  <2>4. Refilled(p, s, l) /\ IsFull(s)
    <3>1. p.num \in 0 .. 5
      BY <1>3, <2>1
    <3> QED BY <1>3, <2>2, <2>3, <3>1, SortedKeeps
  <2>5. /\ s \in Rds!AfData /\ Rds!Holds(s.first, l) /\ s.num = l[1][1]
    BY <1>3, <1>4, <2>1, <2>4 DEF Refilled
  <2>6. Rds!FromList(Rds!Copied(s), l)
    BY <2>4, <2>5, CopiedKeeps
  <2> QED BY <1>5, <1>8, <2>3, <2>6
<1> QED BY <1>6, <1>7, <1>8

LEMMA NothingIsFromAny ==
  ASSUME NEW l, Rds!IsList(l)
  PROVE  Rds!FromList(Rds!NoList, l) /\ 1 \in 1 .. Len(l)
<1>1. PICK z : z = [i \in Rds!Slots |-> 0]
  OBVIOUS
<1>2. z \in [Rds!Slots -> Nat] /\ \A i \in Rds!Slots : z[i] = 0
  BY <1>1
<1>3. Rds!NoList = [num |-> 0, got |-> FALSE, first |-> z, second |-> z, ready |-> FALSE]
  BY <1>1 DEF Rds!NoList
<1>4. Rds!Holds(z, l)
  BY <1>2 DEF Rds!Holds, Rds!PairAt, Rds!Slots
<1>5. Rds!NoList \in Rds!AfData
  BY <1>2, <1>3 DEF Rds!AfData
<1>6. Len(l) = 1 + l[1][1] \div 2 /\ l[1][1] \in 1 .. 5
  BY DEF Rds!IsList
<1> QED BY <1>3, <1>4, <1>5, <1>6 DEF Rds!FromList

LEMMA OthersLeave ==
  ASSUME NEW v, program # "list", Rds!Parse(v, TRUE) \/ Rds!Parse(v, FALSE)
  PROVE  af' = af
BY DEF Rds!Parse, Rds!Group0Ps, Rds!Group2, Rds!Group14

LEMMA FailLeaves ==
  ASSUME NEW v, program = "list", Rds!Parse(v, FALSE)
  PROVE  af' = af
BY DEF Rds!Parse

LEMMA ReceiveTakes ==
  ASSUME NEW v, program = "list", Rds!Parse(v, TRUE)
  PROVE  af' = IF station.next = 1 THEN Rds!Header(af, v[1], v[2]) ELSE Rds!WithPair(af, v)
<1>1. Rds!Group0Af(v, station.next = 1)
  BY DEF Rds!Parse
<1> QED BY <1>1 DEF Rds!Group0Af, Rds!rds_retrieve_af

LEMMA AdvanceKeeps ==
  ASSUME station \in Rds!Stations, station.next \in 1 .. Len(station.item), Rds!IsList(station.item),
         Rds!Advance
  PROVE  /\ station' \in Rds!Stations /\ station'.item = station.item
         /\ station'.next \in 1 .. Len(station.item)
         /\ ~station'.mixed => /\ ~station.mixed
                               /\ station.late = Rds!NotTuning /\ station'.late = Rds!NotTuning
<1>1. PICK end \in BOOLEAN : end = (station.next = Len(station.item))
  OBVIOUS
<1>2. PICK n, w, t, m : /\ n = IF end THEN 1 ELSE station.next + 1
                        /\ w = (station.whole \/ end)
                        /\ t = IF station.late > 0 THEN station.late - 1 ELSE station.late
                        /\ m = (station.mixed \/ station.late > 0)
  OBVIOUS
<1>3. station' = [station EXCEPT !.next = n, !.whole = w, !.late = t, !.mixed = m]
  BY <1>1, <1>2, Zenon DEF Rds!Advance
<1>4. station.late # 0
  BY DEF Rds!Advance
<1>5. Len(station.item) \in Nat
  BY DEF Rds!IsList
<1>6. n \in 1 .. Len(station.item)
  <2>1. CASE end
    BY <1>2, <1>5, <2>1
  <2>2. CASE ~end
    <3>1. station.next # Len(station.item) /\ n = station.next + 1
      BY <1>1, <1>2, <2>2
    <3> QED BY <1>5, <3>1
  <2> QED BY <2>1, <2>2
<1>7. w \in BOOLEAN
  BY <1>1, <1>2 DEF Rds!Stations
<1>8. m \in BOOLEAN /\ (~m => ~station.mixed /\ ~(station.late > 0))
  BY <1>2 DEF Rds!Stations
<1>9. t \in Nat \union {Rds!NotTuning} /\ (~(station.late > 0) => station.late = Rds!NotTuning /\ t = station.late)
  BY <1>2, <1>4 DEF Rds!Stations, Rds!NotTuning
<1>10. /\ station' \in Rds!Stations /\ station'.item = station.item
       /\ station'.next = n /\ station'.late = t /\ station'.mixed = m
  <2>1. PICK g : g = [item |-> station.item, next |-> n, ab |-> station.ab, whole |-> w,
                      late |-> t, mixed |-> m]
    OBVIOUS
  <2>2. g \in Rds!Stations /\ g.item = station.item /\ g.next = n /\ g.late = t /\ g.mixed = m
    BY <1>5, <1>6, <1>7, <1>8, <1>9, <2>1 DEF Rds!Stations
  <2>3. PICK old : old = station
    OBVIOUS
  <2>4. old \in Rds!Stations /\ station' = [old EXCEPT !.next = n, !.whole = w, !.late = t, !.mixed = m]
    BY <1>3, <2>3
  <2>5. station' = [item |-> old.item, next |-> n, ab |-> old.ab, whole |-> w, late |-> t, mixed |-> m]
    BY <2>4 DEF Rds!Stations
  <2>6. station' = g
    BY <2>1, <2>3, <2>5
  <2> QED BY <2>2, <2>6
<1> QED BY <1>6, <1>8, <1>9, <1>10

LEMMA ListStep ==
  ASSUME Rds!ListInv, [Rds!Next]_rds_vars
  PROVE  Rds!ListInv'
<1>1. program' = program
  BY DEF Rds!Next, Rds!Receive, Rds!Lose, Rds!Fail, Rds!ReceiveWrong, Rds!Change, Rds!FmTune,
         Rds!Tuned, rds_vars
<1>2. CASE program # "list"
  <2>1. ~af.ready
    BY <1>2 DEF Rds!ListInv
  <2>2. af' = af \/ af' = Rds!NoList
    <3>1. CASE Rds!Receive \/ Rds!Fail \/ Rds!ReceiveWrong
      BY <1>2, <3>1, OthersLeave DEF Rds!Receive, Rds!Fail, Rds!ReceiveWrong
    <3>2. CASE Rds!Lose \/ Rds!Change \/ Rds!Tuned \/ UNCHANGED rds_vars
      BY <3>2 DEF Rds!Lose, Rds!Change, Rds!Tuned, rds_vars
    <3>3. CASE Rds!GroupFlags
      BY <3>3 DEF Rds!GroupFlags
    <3>4. CASE Rds!FmTune
      BY <3>4 DEF Rds!FmTune
    <3> QED BY <3>1, <3>2, <3>3, <3>4 DEF Rds!Next
  <2>3. ~Rds!NoList.ready
    BY DEF Rds!NoList
  <2> QED BY <1>1, <1>2, <2>1, <2>2, <2>3 DEF Rds!ListInv
<1>3. CASE program = "list"
  <2> DEFINE l == station.item
  <2>1. /\ station \in Rds!Stations /\ station.next \in 1 .. Len(l)
        /\ ~station.mixed => Rds!FromList(af, l) /\ (station.late # Rds!NotTuning => af = Rds!NoList)
    BY <1>3 DEF Rds!ListInv, Rds!Stations
  <2>2. l \in Lists /\ Rds!IsList(l)
    BY <2>1, StationsSendLists DEF Rds!Stations
  <2>3. SUFFICES /\ station' \in Rds!Stations /\ station'.next \in 1 .. Len(station'.item)
                 /\ ~station'.mixed => /\ Rds!FromList(af', station'.item)
                                       /\ (station'.late # Rds!NotTuning => af' = Rds!NoList)
    <3> QED BY <1>1, <1>3 DEF Rds!ListInv, Rds!Stations, Rds!FromList, Rds!Holds, Rds!PairAt, Rds!Pairs, Rds!Reports
  <2>4. CASE Rds!Receive
    <3>1. Rds!Advance /\ Rds!Parse(l[station.next], TRUE)
      BY <2>4 DEF Rds!Receive
    <3>2. /\ station' \in Rds!Stations /\ station'.item = l
          /\ station'.next \in 1 .. Len(l)
          /\ ~station'.mixed => ~station.mixed /\ station'.late = Rds!NotTuning
      BY <2>1, <2>2, <3>1, AdvanceKeeps
    <3>3. ASSUME ~station'.mixed PROVE Rds!FromList(af', l)
      <4>1. Rds!FromList(af, l)
        BY <2>1, <3>2, <3>3
      <4>2. af' = IF station.next = 1 THEN Rds!Header(af, l[station.next][1], l[station.next][2])
                  ELSE Rds!WithPair(af, l[station.next])
        BY <1>3, <3>1, ReceiveTakes
      <4>3. CASE station.next = 1
        BY <2>2, <4>1, <4>2, <4>3, HeaderKeeps
      <4>4. CASE station.next # 1
        <5>1. station.next \in 2 .. Len(l)
          BY <2>1, <4>4
        <5> QED BY <1>3, <2>2, <4>1, <4>2, <4>4, <5>1, WithPairKeeps
      <4> QED BY <4>3, <4>4
    <3> QED BY <3>2, <3>3
  <2>5. CASE Rds!Lose \/ Rds!Fail
    <3>1. Rds!Advance /\ af' = af
      BY <1>3, <2>5, FailLeaves DEF Rds!Lose, Rds!Fail
    <3>2. /\ station' \in Rds!Stations /\ station'.item = l
          /\ station'.next \in 1 .. Len(l)
          /\ ~station'.mixed => ~station.mixed /\ station'.late = Rds!NotTuning
      BY <2>1, <2>2, <3>1, AdvanceKeeps
    <3> QED BY <2>1, <3>1, <3>2
  <2>6. CASE Rds!FmTune
    <3>1. MaxLate \in Nat
      BY StationsSendLists
    <3>2. station' = [station EXCEPT !.late = MaxLate, !.mixed = FALSE] /\ af' = Rds!NoList
      BY <2>6 DEF Rds!FmTune
    <3>3. station' \in Rds!Stations /\ station'.item = l /\ station'.next = station.next
      BY <2>1, <3>1, <3>2 DEF Rds!Stations
    <3> QED BY <2>1, <2>2, <3>2, <3>3, NothingIsFromAny
  <2>7. CASE Rds!Tuned
    <3>1. PICK i \in Rds!Items : \E k \in 1 .. Len(i) :
            station' = [item |-> i, next |-> k, ab |-> 0, whole |-> FALSE, late |-> Rds!NotTuning,
                        mixed |-> station.mixed]
      BY <2>7 DEF Rds!Tuned
    <3>2. PICK k \in 1 .. Len(i) :
            station' = [item |-> i, next |-> k, ab |-> 0, whole |-> FALSE, late |-> Rds!NotTuning,
                        mixed |-> station.mixed]
      BY <3>1
    <3>3. i \in Lists /\ Rds!IsList(i)
      BY <1>3, StationsSendLists DEF Rds!Items
    <3>4. Len(i) \in Nat /\ k \in Nat
      BY <3>3 DEF Rds!IsList
    <3>5. station.mixed \in BOOLEAN
      BY <2>1 DEF Rds!Stations
    <3>6. station' \in Rds!Stations /\ station'.item = i /\ station'.next = k
            /\ station'.late = Rds!NotTuning /\ station'.mixed = station.mixed
      BY <3>2, <3>3, <3>4, <3>5 DEF Rds!Stations
    <3>7. station.late # Rds!NotTuning /\ af' = af
      BY <2>7 DEF Rds!Tuned
    <3>8. ~station.mixed => af' = Rds!NoList
      BY <2>1, <3>7
    <3> QED BY <3>3, <3>6, <3>8, NothingIsFromAny
  <2>8. CASE UNCHANGED rds_vars
    BY <2>1, <2>8 DEF rds_vars
  <2>9. ~Rds!ReceiveWrong /\ ~Rds!GroupFlags /\ ~Rds!Change
    BY <1>3 DEF Rds!ReceiveWrong, Rds!GroupFlags, Rds!Change
  <2> QED BY <2>4, <2>5, <2>6, <2>7, <2>8, <2>9 DEF Rds!Next
<1> QED BY <1>2, <1>3

LEMMA ListBegins == Rds!Init => Rds!ListInv
<1> SUFFICES ASSUME Rds!Init PROVE Rds!ListInv
  OBVIOUS
<1>1. af = Rds!NoList /\ ~af.ready
  BY DEF Rds!Init, Rds!NoList
<1>2. ASSUME program = "list"
      PROVE  /\ station \in Rds!Stations /\ station.next \in 1 .. Len(station.item)
             /\ Rds!FromList(af, station.item)
  <2>1. PICK i \in Rds!Items :
          station = [item |-> i, next |-> 1, ab |-> 0, whole |-> FALSE, late |-> Rds!NotTuning, mixed |-> FALSE]
    BY DEF Rds!Init
  <2>2. i \in Lists /\ Rds!IsList(i)
    BY <1>2, StationsSendLists DEF Rds!Items
  <2>3. station \in Rds!Stations /\ station.item = i /\ station.next = 1
    BY <2>1, <2>2 DEF Rds!Stations
  <2> QED BY <1>1, <2>2, <2>3, NothingIsFromAny
<1> QED BY <1>1, <1>2 DEF Rds!ListInv, Rds!Stations

LEMMA ListIsFrom == Rds!ListInv => Rds!ListIsStations
<1> SUFFICES ASSUME Rds!ListInv, af.ready, ~station.mixed
    PROVE  /\ station.item[1][1] = af.num
           /\ \A k \in 2 .. Len(station.item) : Rds!Reports(af, station.item[k])
  BY DEF Rds!ListIsStations
<1>1. program = "list"
  BY DEF Rds!ListInv
<1>2. Rds!FromList(af, station.item)
  BY <1>1 DEF Rds!ListInv
<1> QED BY <1>2 DEF Rds!FromList

-----------------------------------------------------------------------------
(* The composition: a step of it is a step of a part or leaves the part alone. *)

LEMMA PartsStep ==
  [MCNext]_mc_vars =>
    /\ [Next]_vars /\ [Library!Next]_library_vars
    /\ [Rds!Next]_rds_vars /\ [Link!Next]_link_vars /\ [RdsUser!Next]_user_vars
  BY DEF MCNext, SkeletonNext, LibraryNext, DriverNext, RdsNext, LinkNext, UserNext, Still,
     mc_vars, vendor_vars

\* Everything the radio holds, and above all the frequency that a seek computes from
\* what the caller passed (fm_chip_seek), is of its type.
THEOREM RadioTyped == MCSpec => []TypeOK
<1>1. MCInit => TypeOK
  BY RadioInit DEF MCInit
<1> QED BY <1>1, RadioStepTyped, PartsStep, PTL DEF MCSpec

\* A seek that moves the chip (fm_chip_seek) moves it into a band.
THEOREM SeekInBand == MCSpec => SeekStaysInBand
  BY SeekMovesIntoBand, PartsStep, PTL DEF MCSpec, SeekStaysInBand

\* A radio that runs has an open file (fm_open and fm_release against fm_ioctl).
THEOREM RadioHasUser == MCSpec => []PoweredHasUser
<1>1. MCInit => PoweredHasUser
  BY RadioInit DEF MCInit
<1> QED BY <1>1, RadioKeepsUser, PartsStep, PTL DEF MCSpec

\* A change in the RDS data that nobody has read is announced, or about to be, whatever
\* readers, the timer and the switching of RDS do at the same time (fm_rds_read against
\* fm_rds_parser): the event is lowered under the lock that the parser needs to add one.
THEOREM NoUpdateIsEverMissed == MCSpec => []NoUpdateIsMissed
<1>1. MCInit => RdsUser!IInv
  BY UserInit DEF MCInit
<1>2. RdsUser!IInv => NoUpdateIsMissed
  BY DEF RdsUser!IInv, NoUpdateIsMissed
<1> QED BY <1>1, <1>2, UserStep, PartsStep, PTL DEF MCSpec

\* A list of frequencies that is reported ready has the station's count and each of its
\* pairs (rds_retrieve_g0_af), whatever groups are lost or fail their check and however
\* often the tuner moves: a pair is put to one place only, and the sort keeps them all.
THEOREM ReadyListsAreStations == MCSpec => []ListIsStations
<1>1. MCInit => Rds!ListInv
  BY ListBegins DEF MCInit
<1>2. Rds!ListInv => ListIsStations
  BY ListIsFrom DEF ListIsStations
<1> QED BY <1>1, <1>2, ListStep, PartsStep, PTL DEF MCSpec

\* A register call that says it worked returns what the firmware answered to that very
\* call (fm_cmd_tx against fm_event_parser), unless one of the three excuses holds:
\* there is no fourth way to a wrong value, however many commands, cuts and packets.
THEOREM AnswersAreOwn == MCSpec => []OwnAnswer
<1>1. MCInit => Link!IInv
  BY LinkInit DEF MCInit
<1>2. Link!IInv => OwnAnswer
  BY DEF Link!IInv, OwnAnswer
<1> QED BY <1>1, <1>2, LinkStep, PartsStep, PTL DEF MCSpec

\* The bus runs fast only on a clock that is there: on every chip, in every order of calls,
\* wherever a poll gives up, however many steps fail (the SPI hopping of the chip libraries).
THEOREM FastBusAlwaysFed == MCSpec => []FastBusOnPll
<1>1. ChipInv => FastBusOnPll
  BY FedIsFast DEF FastBusOnPll
<1>2. ChipInv /\ [MCNext]_mc_vars => ChipInv'
  BY ChipStep, PartsStep
<1> QED BY <1>1, <1>2, ChipBegins, PTL DEF MCSpec

\* A call in which nothing fails makes good what failed before it, however much that was:
\* a tune brings the radio back, a power-down returns what the chip's power-ups took.
THEOREM CallsAlwaysRecover == MCSpec => []CallsRecover
<1>1. ChipInv => CallsRecover
  BY Zenon, TunedIsBack, DownGivesBack DEF CallsRecover, Library!CallsRecover
<1>2. ChipInv /\ [MCNext]_mc_vars => ChipInv'
  BY ChipStep, PartsStep
<1> QED BY <1>1, <1>2, ChipBegins, PTL DEF MCSpec
===============================================================================
