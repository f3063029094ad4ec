-------------------------------- MODULE SiaAmp --------------------------------
(* The SIA81xx amplifier driver (sia81xx.c, with the chip tables it reads through *)
(* sia81xx_regmap.c): the left amplifier, which is the default device, and the    *)
(* right one.  A call is the list of hardware steps it still has to make; calls   *)
(* take no common lock, so the steps of two calls can mix.                        *)
(*                                                                             *)
(* An SIA8101 answers at the default device's address when it leaves reset, and   *)
(* at its own once it holds the right channel's settings: that is how the code    *)
(* uses the two register maps.  The timer task that resume starts and suspend     *)
(* stops is in SiaTimer.  MaxFails bounds the mode writes that are late ten times *)
(* over.                                                                        *)
EXTENDS Naturals, Sequences, SequencesExt

CONSTANTS Callers,
          Kinds,    \* [chip, pins]: pins is the disable_pin of the device tree being 0
          MaxFails

Amps == {"L", "R"}

VARIABLES
  kind,     \* the amplifiers' chip and wiring
  rst,      \* amplifiers out of reset
  conf,     \* per amplifier: the channel whose settings its registers hold
  chipon,   \* amplifiers whose output the registers enable
  removed,  \* amplifiers whose platform device is gone
  todo,     \* per caller: the steps left
  goal,     \* the power that the calls have asked for
  mixed,    \* amplifiers that overlapping calls left behind, until turned off
  late      \* mode writes given up

amp_vars == <<kind, rst, conf, chipon, removed, todo, goal, mixed, late>>

Do(step, a) == <<[do |-> step, amp |-> a]>>

Suspend(a) == Do("chip_off", a) \o Do("rst_low", a)
Resume(a)  == Do("resume", a) \o Do("return", a)
TurnOn(a)  == Do("rst_high", a) \o Do("reg_init", a) \o Do("chip_on", a)

\* The amplifier whose reset address is the default device's.
SharesAddress(a) == kind.chip = "sia8101" /\ a = "R"

TypeOK ==
  /\ kind \in Kinds
  /\ rst \subseteq Amps /\ chipon \subseteq Amps
  /\ removed \subseteq Amps /\ goal \subseteq Amps
  /\ conf \in [Amps -> Amps \union {"none"}]
  /\ mixed \subseteq Amps /\ late \in 0 .. MaxFails
  /\ \A c \in Callers : \A i \in 1 .. Len(todo[c]) : todo[c][i].amp \in Amps

\* After the probes: sia81xx_dev_init has suspended both.
Init ==
  /\ kind \in Kinds
  /\ rst = {} /\ chipon = {} /\ removed = {} /\ goal = {}
  /\ conf = [a \in Amps |-> "none"]
  /\ todo = [c \in Callers |-> <<>>]
  /\ mixed = {} /\ late = 0

-----------------------------------------------------------------------------
(* The calls: the power control, the DAPM event, the cmd file, sia81xx_start and *)
(* _stop all come down to these.                                                 *)

Begin(c, a, steps, wanted) ==
  /\ todo[c] = <<>>
  /\ todo' = [todo EXCEPT ![c] = steps]
  /\ goal' = wanted
  /\ mixed' = IF \E d \in Callers : todo[d] # <<>> THEN Amps
              ELSE IF steps = Suspend(a) THEN mixed \ {a} ELSE mixed
  /\ UNCHANGED <<kind, rst, conf, chipon, late>>

PowerOn(c, a)  == a \notin removed /\ Begin(c, a, Resume(a), goal \union {a})
                  /\ UNCHANGED removed
PowerOff(c, a) == a \notin removed /\ Begin(c, a, Suspend(a), goal \ {a})
                  /\ UNCHANGED removed

Reboot(a) == Suspend(a) \o Resume(a)

SetMode(c, a) == a \notin removed /\ Begin(c, a, Reboot(a), goal \union {a})
                 /\ UNCHANGED removed

\* Without pins the chip is asked, and no chip's table has get_chip_en.
IsChipEn(a) == kind.pins /\ a \in rst

AudioSceneSet(c, a) ==
  /\ a \notin removed /\ IsChipEn(a)
  /\ Begin(c, a, Resume(a), goal \union {a})
  /\ UNCHANGED removed

DevRemove(c, a) ==
  /\ a \notin removed
  /\ Begin(c, a, Suspend(a), goal \ {a})
  /\ removed' = removed \union {a}

-----------------------------------------------------------------------------
(* The steps. *)

AtStep(c, step) == todo[c] # <<>> /\ Head(todo[c]).do = step
Amp(c)         == Head(todo[c]).amp
Advance(c)     == todo' = [todo EXCEPT ![c] = Tail(@)]
StepOnly(c)    == /\ Advance(c)
                  /\ UNCHANGED <<kind, removed, goal, mixed>>

\* Who hears a write that is sent for amplifier a to the address of device d.
AddressOf(a) == IF kind.chip # "sia8101" THEN a
                ELSE IF conf[a] = "R" THEN "R" ELSE "L"
Hear(d) == {a \in Amps : AddressOf(a) = d /\ (kind.pins => a \in rst)}

\* The registers to write go through the default device's map when a shares it.
InitMap(a) == IF SharesAddress(a) THEN "L" ELSE a

DefaultStaysUp(a) == Do("owi_mode", a) \o TurnOn(a)

\* The default device makes room for the address it shares, and comes back after.
WithDefaultAside(a) ==
  IF SharesAddress(a) /\ "L" \in rst
  THEN Suspend("L") \o Do("owi_mode", a) \o TurnOn(a) \o Resume("L")
  ELSE Do("owi_mode", a) \o TurnOn(a)

ResumeStep(c) ==
  LET a == Amp(c) IN
  /\ AtStep(c, "resume")
  /\ todo' = [todo EXCEPT ![c] =
       (IF kind.pins THEN WithDefaultAside(a) ELSE Do("reg_init", a) \o Do("chip_on", a))
       \o Tail(@)]
  /\ UNCHANGED <<kind, rst, conf, chipon, removed, goal, mixed, late>>

\* The pulses that set the mode; the last retry can be late too, and then resume
\* returns at once: what is left is the caller's, after a's return.
Abandoned(c, a) ==
  LET last == SelectInSeq(todo[c], LAMBDA s : s.do = "return" /\ s.amp = a)
  IN  SubSeq(todo[c], last + 1, Len(todo[c]))

OwiWriteMode(c) ==
  /\ AtStep(c, "owi_mode")
  /\ \/ Advance(c) /\ UNCHANGED late
     \/ /\ late < MaxFails
        /\ late' = late + 1
        /\ todo' = [todo EXCEPT ![c] = Abandoned(c, Amp(c))]
  /\ UNCHANGED <<kind, rst, conf, chipon, removed, goal, mixed>>

RstHigh(c) ==
  /\ AtStep(c, "rst_high")
  /\ rst' = rst \union {Amp(c)}
  /\ UNCHANGED <<conf, chipon, late>> /\ StepOnly(c)

\* The defaults of an 8108 or 8109 enable the output, those of an 8101 only as
\* far as its test mode allows.
RegInit(c) ==
  LET a == Amp(c)
      heard == Hear(InitMap(a))
  IN
  /\ AtStep(c, "reg_init")
  /\ conf' = [x \in Amps |-> IF x \in heard THEN a ELSE conf[x]]
  /\ chipon' = IF kind.chip = "sia8101" THEN chipon ELSE chipon \union heard
  /\ UNCHANGED <<rst, late>> /\ StepOnly(c)

ChipOn(c) ==
  /\ AtStep(c, "chip_on")
  /\ chipon' = IF kind.chip = "sia8101" THEN chipon \union Hear(Amp(c)) ELSE chipon
  /\ UNCHANGED <<rst, conf, late>> /\ StepOnly(c)

ChipOff(c) ==
  /\ AtStep(c, "chip_off")
  /\ chipon' = IF kind.chip = "sia8108" THEN chipon ELSE chipon \ Hear(Amp(c))
  /\ UNCHANGED <<rst, conf, late>> /\ StepOnly(c)

\* A chip in reset loses its registers.
RstLow(c) ==
  /\ AtStep(c, "rst_low")
  /\ IF kind.pins
     THEN /\ rst' = rst \ {Amp(c)}
          /\ chipon' = chipon \ {Amp(c)}
          /\ conf' = [conf EXCEPT ![Amp(c)] = "none"]
     ELSE UNCHANGED <<rst, conf, chipon>>
  /\ UNCHANGED late /\ StepOnly(c)

Return(c) == AtStep(c, "return") /\ UNCHANGED <<rst, conf, chipon, late>> /\ StepOnly(c)

Step(c) == ResumeStep(c) \/ OwiWriteMode(c) \/ RstHigh(c) \/ RegInit(c) \/ ChipOn(c)
           \/ ChipOff(c) \/ RstLow(c) \/ Return(c)

Next ==
  \/ \E c \in Callers, a \in Amps :
       PowerOn(c, a) \/ PowerOff(c, a) \/ SetMode(c, a) \/ AudioSceneSet(c, a) \/ DevRemove(c, a)
  \/ \E c \in Callers : Step(c)

Spec == Init /\ [][Next]_amp_vars

-----------------------------------------------------------------------------
Quiet == (\A c \in Callers : todo[c] = <<>>) /\ late = 0

Sounding == {a \in chipon : kind.pins => a \in rst}

\* Between calls, and with no mode write given up, an amplifier sounds if and only
\* if that was asked for: bringing up the right one, which takes the left one down
\* for its address, brings the left one back.  Calls that overlap may leave both
\* amplifiers wrong, but only until a call of its own turns each off.
PowerFollows == Quiet => Sounding \ mixed = goal \ mixed

\* ... and it holds its own channel's settings: what is written for the one never
\* reaches the other through the address they share.
OwnSettings == Quiet => \A a \in rst \ mixed : conf[a] = a

\* The two amplifiers behave as two, although they share an address.
AmpsAreTwo == PowerFollows /\ OwnSettings

-----------------------------------------------------------------------------
(* The inductive invariant: while no call has overlapped with another since, and  *)
(* no mode write was given up, at most one call is under way, and what is left of  *)
(* it says where each amplifier is.  An amplifier in mixed may be anywhere.       *)

Steps == [do : {"resume", "return", "owi_mode", "rst_high", "reg_init", "chip_on", "chip_off", "rst_low"},
          amp : Amps]

Up(a)   == a \in chipon /\ (kind.pins => a \in rst /\ conf[a] = a)
Down(a) == a \notin chipon /\ (kind.pins => a \notin rst /\ conf[a] = "none")
AsAsked(a) == IF a \in goal THEN Up(a) ELSE Down(a)

\* The last n steps of turning a on, or of suspending it, and then the rest.
TurningOn(n, a, rest) ==
  IF n = 1 THEN Do("chip_on", a) \o rest
  ELSE IF n = 2 THEN Do("reg_init", a) \o (Do("chip_on", a) \o rest)
  ELSE IF n = 3 THEN Do("rst_high", a) \o (Do("reg_init", a) \o (Do("chip_on", a) \o rest))
  ELSE Do("owi_mode", a) \o (Do("rst_high", a) \o (Do("reg_init", a) \o (Do("chip_on", a) \o rest)))

Suspending(n, a, rest) ==
  IF n = 1 THEN Do("rst_low", a) \o rest ELSE Do("chip_off", a) \o (Do("rst_low", a) \o rest)

Resuming(a, rest) == Do("resume", a) \o (Do("return", a) \o rest)

Returning(s) == \A i \in DOMAIN s : s[i].do = "return"

\* Where a is before them.  An amplifier that is up already stays up.
BeforeOn(n, a) ==
  IF n = 1 THEN (kind.pins => a \in rst /\ conf[a] = a) /\ (kind.chip = "sia8101" \/ a \in chipon)
  ELSE \/ Up(a)
       \/ n = 2 /\ a \notin chipon /\ (kind.pins => a \in rst /\ conf[a] = "none")
       \/ n > 2 /\ Down(a)
BeforeOff(n, a) == n = 1 /\ ~kind.pins => a \notin chipon

Clean(a) == a \notin mixed

\* What can be left once a is up: the return of the right one that waited for it.
Ends(a) == IF a = "L" THEN {<<>>, Do("return", "R")} ELSE {<<>>}

\* The steps of one amplifier, while the other is as was asked.
OfOne(s, a, b) ==
  /\ Clean(b) => AsAsked(b)
  /\ \/ \E e \in Ends(a) :
          \/ s = Resuming(a, e) /\ (Clean(a) => a \in goal /\ BeforeOn(4, a))
          \/ /\ \E n \in 1 .. 4 : s = TurningOn(n, a, Do("return", a) \o e)
                                /\ (Clean(a) => a \in goal /\ BeforeOn(n, a))
             /\ SharesAddress(a) /\ Clean(b) => b \notin rst
     \/ \E n \in 1 .. 2 :
          /\ Clean(a) => BeforeOff(n, a)
          /\ \/ s = Suspending(n, a, <<>>) /\ (Clean(a) => a \notin goal)
             \/ s = Suspending(n, a, Resuming(a, <<>>)) /\ (Clean(a) => a \in goal)

\* The left one makes room for the right one, and is to come back.
LeftAside(s) ==
  LET back == Resuming("L", Do("return", "R")) IN
  /\ kind.chip = "sia8101"
  /\ \A a \in Amps : Clean(a) => a \in goal
  /\ \/ \E n \in 1 .. 2 : s = Suspending(n, "L", TurningOn(4, "R", back))
       /\ (Clean("R") => BeforeOn(4, "R"))
     \/ \E n \in 1 .. 4 : s = TurningOn(n, "R", back) /\ (Clean("R") => BeforeOn(n, "R"))
       /\ (Clean("L") => Down("L"))

InPlace(s) ==
  \/ Returning(s) /\ \A a \in Amps : Clean(a) => AsAsked(a)
  \/ OfOne(s, "L", "R") \/ OfOne(s, "R", "L")
  \/ LeftAside(s)

OneAtATime == \A c, d \in Callers : todo[c] # <<>> /\ todo[d] # <<>> => c = d

Places ==
  /\ \A c \in Callers : todo[c] # <<>> => InPlace(todo[c])
  /\ (\A c \in Callers : todo[c] = <<>>) => \A a \in Amps : Clean(a) => AsAsked(a)

\* Without pins nothing is ever in or out of reset, nor is a mode written.
NoPins ==
  ~kind.pins =>
    /\ rst = {}
    /\ \A c \in Callers : \A i \in DOMAIN todo[c] : todo[c][i].do \notin {"rst_high", "owi_mode"}

Types ==
  /\ kind \in Kinds /\ todo \in [Callers -> Seq(Steps)]
  /\ rst \subseteq Amps /\ chipon \subseteq Amps /\ goal \subseteq Amps /\ mixed \subseteq Amps
  /\ conf \in [Amps -> Amps \union {"none"}]

IInv ==
  /\ late \in Nat
  /\ late = 0 => Types /\ NoPins /\ (mixed # Amps => OneAtATime /\ Places)
=============================================================================
