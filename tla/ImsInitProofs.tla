---------------------------- MODULE ImsInitProofs ----------------------------
(***************************************************************************)
(* What the toggle does to the user's choice, as long as nothing interrupts *)
(* it, and how often a process toggles, whatever happens: for every number *)
(* of boots, callbacks and losses of service.                              *)
(***************************************************************************)
EXTENDS ImsInit, TLAPS

\* At most one thread sleeps, and exactly while the setting is off against the
\* user's choice; that VoLTE is off meanwhile is what keeps a second one away.
ToggleInv ==
  /\ Calm
  /\ volte \in BOOLEAN /\ wanted \in BOOLEAN
  /\ \/ threads = 0 /\ volte = wanted
     \/ threads = 1 /\ volte = FALSE /\ wanted = TRUE

LEMMA HandlerInv ==
  ASSUME ToggleInv, UNCHANGED <<wanted, world>>, NEW s, handleServiceStateChanged(s)
  PROVE  ToggleInv'
<1>1. CASE SkipFirstBoot(s) \/ JustRecord(s)
  BY <1>1 DEF SkipFirstBoot, JustRecord, ToggleInv, Calm
<1>2. CASE Toggle(s)
  <2>1. threads = 0 /\ wanted = TRUE /\ volte' = FALSE
    BY <1>2 DEF Toggle, ToggleInv
  <2>2. threads' = 1
    BY <1>2, <2>1 DEF Toggle
  <2> QED BY <2>1, <2>2 DEF ToggleInv, Calm
<1> QED BY <1>1, <1>2 DEF handleServiceStateChanged

LEMMA ToggleStep ==
  ASSUME ToggleInv, [Next]_vars
  PROVE  ToggleInv'
<1>1. CASE BootCompleted \/ StickyRestart
  BY <1>1, HandlerInv DEF BootCompleted, StickyRestart, onStartCommand, phone
<1>2. CASE onServiceStateChanged
  BY <1>2, HandlerInv DEF onServiceStateChanged, phone
<1>3. CASE ThreadSwitchesOn
  <2>1. threads = 1 /\ wanted = TRUE
    BY <1>3 DEF ThreadSwitchesOn, ToggleInv
  <2>2. threads' = 0 /\ volte' = TRUE /\ UNCHANGED <<wanted, world>>
    BY <1>3, <2>1 DEF ThreadSwitchesOn, phone
  <2> QED BY <2>1, <2>2 DEF ToggleInv, Calm
<1>4. CASE ProcessDies \/ Reboot
  <2>1. threads = 0
    BY <1>4 DEF ProcessDies, Reboot, Uninterruptible, ToggleInv, Calm
  <2>2. UNCHANGED <<volte, wanted, world>> /\ threads' = 0
    BY <1>4 DEF ProcessDies, Reboot, ProcessGone, phone
  <2> QED BY <2>1, <2>2 DEF ToggleInv, Calm
<1>5. CASE UserSets
  <2>1. threads = 0 /\ threads' = 0 /\ UNCHANGED world
    BY <1>5 DEF UserSets, ToggleInv, Calm, phone
  <2>2. volte' \in BOOLEAN /\ wanted' = volte'
    BY <1>5 DEF UserSets
  <2> QED BY <2>1, <2>2 DEF ToggleInv, Calm
<1>6. CASE RegistrationChanges \/ UNCHANGED vars
  BY <1>6 DEF RegistrationChanges, ToggleInv, Calm, phone, vars
<1> QED BY <1>1, <1>2, <1>3, <1>4, <1>5, <1>6 DEF Next, Service

\* A behaviour stays in its world.
LEMMA WorldStep == [Next]_vars => UNCHANGED world
BY DEF Next, Service, BootCompleted, StickyRestart, onServiceStateChanged, ThreadSwitchesOn,
   ProcessDies, Reboot, RegistrationChanges, UserSets, phone, vars

\* Unless it is interrupted or the user interferes, a toggle always restores
\* the user's choice.
THEOREM ToggleRestores == Spec => []ChoiceRestored
<1> DEFINE Inv == Calm => ToggleInv
<1>1. Init => Inv
  BY DEF Init, ToggleInv
<1>2. Inv /\ [Next]_vars => Inv'
  BY ToggleStep, WorldStep DEF Calm
<1>3. Inv => ChoiceRestored
  BY DEF ToggleInv, ChoiceRestored, OffAndBackOn
<1> QED BY <1>1, <1>2, <1>3, PTL DEF Spec
-----------------------------------------------------------------------------
(* How often a process toggles. *)

\* The callbacks still queued are the changes of the registration, which alternate
\* and end with what it is now: counted from the end, every second one equals it.
Alternates ==
  \A i \in 1 .. Len(inbox) : inbox[i] = reg <=> (Len(inbox) - i) % 2 = 0

\* How many losses of service are queued ...
QueuedLosses == IF reg = "OUT" THEN (Len(inbox) + 1) \div 2 ELSE Len(inbox) \div 2

\* ... and one more if the service may be seen to come before the first of them.
ComesFirst ==
  IF sLastState # "IN_SERVICE" /\ (inbox = <<>> \/ inbox[1] = "IN_SERVICE") THEN 1 ELSE 0

\* What is known of a process that has not started, and of the queue of one that has:
\* a toggle that happened or may still happen has a loss of service of its own, but one.
CountInv ==
  /\ inbox \in Seq(State) /\ reg \in State
  /\ losses \in Nat /\ toggles \in Nat
  /\ ~bootCompleted => ~running
  /\ ~running => inbox = <<>> /\ sLastState = "null" /\ toggles = 0
  /\ Alternates
  /\ toggles + QueuedLosses + ComesFirst <= losses + 1

\* What one handler, of whatever state, does to the count.
LEMMA HandlerCounts ==
  ASSUME CountInv, NEW s \in State, handleServiceStateChanged(s)
  PROVE  /\ losses' = losses
         /\ toggles' \in Nat
         /\ \/ s = "OUT" /\ toggles' = toggles /\ sLastState' = s
            \/ s = "IN_SERVICE" /\ sLastState = "IN_SERVICE" /\ toggles' = toggles /\ sLastState' = s
            \/ s = "IN_SERVICE" /\ sLastState # "IN_SERVICE" /\ toggles' = toggles + 1 /\ sLastState' = s
            \/ s = "IN_SERVICE" /\ sLastState # "IN_SERVICE" /\ toggles' = toggles
               /\ sLastState' \in {s, sLastState}
BY DEF CountInv, State, handleServiceStateChanged, SkipFirstBoot, Toggle, JustRecord,
   ComesIntoService, history

LEMMA StartCounts ==
  ASSUME CountInv, ~running, onStartCommand, reg' = reg, bootCompleted'
  PROVE  CountInv'
<1> USE DEF State
<1>1. inbox' = <<reg>> /\ running' /\ toggles = 0 /\ sLastState = "null" /\ reg \in State
      /\ handleServiceStateChanged(reg)
  BY DEF CountInv, onStartCommand
<1>2. inbox' \in Seq(State) /\ Len(inbox') = 1 /\ inbox'[1] = reg
  BY <1>1
<1>3. Alternates'
  <2>1. (1 - 1) % 2 = 0
    OBVIOUS
  <2> QED BY <1>2, <2>1 DEF Alternates
<1>4. QueuedLosses' = IF reg = "OUT" THEN 1 ELSE 0
  BY <1>2 DEF QueuedLosses
<1>5. losses' = losses /\ losses \in Nat
  BY <1>1, HandlerCounts DEF CountInv
<1>6. toggles' \in Nat /\ toggles' + QueuedLosses' + ComesFirst' <= 1
  BY <1>1, <1>2, <1>4, HandlerCounts DEF ComesFirst
<1>7. QueuedLosses' \in Nat /\ ComesFirst' \in Nat
  BY <1>4 DEF ComesFirst
<1>8. toggles' + QueuedLosses' + ComesFirst' <= losses' + 1
  <2>1. \A t, q, c, l \in Nat : t + q + c <= 1 => t + q + c <= l + 1
    OBVIOUS
  <2> QED BY <1>5, <1>6, <1>7, <2>1, Zenon
<1> QED BY <1>1, <1>2, <1>3, <1>5, <1>6, <1>8 DEF CountInv

LEMMA DeliveryCounts == ASSUME CountInv, onServiceStateChanged PROVE CountInv'
<1> USE DEF State
<1> DEFINE n == Len(inbox)
<1>1. /\ n \in Nat \ {0} /\ inbox[1] = Head(inbox) /\ Head(inbox) \in State
      /\ running /\ reg \in State /\ losses \in Nat /\ toggles \in Nat
  BY DEF CountInv, onServiceStateChanged
<1>2. /\ inbox' \in Seq(State) /\ Len(inbox') = n - 1
      /\ \A i \in 1 .. n - 1 : inbox'[i] = inbox[i + 1]
  BY <1>1 DEF CountInv, onServiceStateChanged
<1>3. UNCHANGED <<reg, running, bootCompleted>> /\ handleServiceStateChanged(Head(inbox))
  BY DEF onServiceStateChanged, phone
<1>4. Alternates'
  <2> SUFFICES ASSUME NEW i \in 1 .. n - 1
               PROVE  inbox'[i] = reg <=> (n - 1 - i) % 2 = 0
    BY <1>2, <1>3 DEF Alternates
  <2>1. i + 1 \in 1 .. n /\ n - (i + 1) = n - 1 - i
    BY <1>1
  <2>2. inbox[i + 1] = reg <=> (n - (i + 1)) % 2 = 0
    BY <2>1 DEF CountInv, Alternates
  <2> QED BY <1>2, <2>1, <2>2
<1>5. Head(inbox) = reg <=> (n - 1) % 2 = 0
  BY <1>1 DEF CountInv, Alternates
<1>6. /\ QueuedLosses \in Nat /\ QueuedLosses' \in Nat
      /\ Head(inbox) = "OUT" => QueuedLosses' = QueuedLosses - 1
      /\ Head(inbox) = "IN_SERVICE" => QueuedLosses' = QueuedLosses
  <2>1. CASE reg = "OUT"
    <3>1. QueuedLosses = (n + 1) \div 2 /\ QueuedLosses' = (n - 1 + 1) \div 2
      BY <1>2, <1>3, <2>1 DEF QueuedLosses
    <3>2. Head(inbox) = "OUT" <=> (n - 1) % 2 = 0
      BY <1>5, <2>1
    <3> QED BY <1>1, <3>1, <3>2
  <2>2. CASE reg = "IN_SERVICE"
    <3>1. QueuedLosses = n \div 2 /\ QueuedLosses' = (n - 1) \div 2
      BY <1>2, <1>3, <2>2 DEF QueuedLosses
    <3>2. Head(inbox) = "IN_SERVICE" <=> (n - 1) % 2 = 0
      BY <1>5, <2>2
    <3> QED BY <1>1, <3>1, <3>2
  <2> QED BY <1>1, <2>1, <2>2
<1>7. inbox' = <<>> \/ (inbox'[1] = "IN_SERVICE" <=> Head(inbox) = "OUT")
  <2>1. CASE n = 1
    BY <1>1, <1>2, <2>1
  <2>2. CASE n > 1
    <3>1. 2 \in 1 .. n /\ 1 \in 1 .. n - 1 /\ inbox'[1] = inbox[2] /\ inbox'[1] \in State
      BY <1>1, <1>2, <2>2
    <3>2. inbox[2] = reg <=> (n - 2) % 2 = 0
      BY <3>1 DEF CountInv, Alternates
    <3>3. (n - 1) % 2 = 0 <=> (n - 2) % 2 # 0
      BY <1>1
    <3>4. inbox'[1] = reg <=> Head(inbox) # reg
      BY <1>5, <3>1, <3>2, <3>3
    <3> QED BY <1>1, <3>1, <3>4
  <2>3. n = 1 \/ n > 1
    BY <1>1
  <2> QED BY <2>1, <2>2, <2>3, Zenon
<1>8. /\ losses' = losses /\ toggles' \in Nat
      /\ toggles' + QueuedLosses' + ComesFirst' <= toggles + QueuedLosses + ComesFirst
  <2>1. losses' = losses /\ toggles' \in Nat
    BY <1>1, <1>3, HandlerCounts
  <2>2. CASE Head(inbox) = "OUT"
    <3>1. toggles' = toggles /\ ComesFirst \in Nat /\ ComesFirst' \in {0, 1}
      BY <1>1, <1>3, <2>2, HandlerCounts DEF ComesFirst
    <3>2. \A t, q, c, r, d \in Nat : r = q - 1 /\ d <= 1 => t + r + d <= t + q + c
      OBVIOUS
    <3>3. ComesFirst' \in Nat /\ ComesFirst' <= 1
      BY <3>1
    <3> QED BY <1>1, <1>6, <2>1, <2>2, <3>1, <3>2, <3>3, Zenon
  <2>3. CASE Head(inbox) = "IN_SERVICE"
    <3>1. inbox # <<>> /\ inbox[1] = "IN_SERVICE"
      BY <1>1, <2>3
    <3>2. toggles' + ComesFirst' <= toggles + ComesFirst /\ ComesFirst \in Nat /\ ComesFirst' \in Nat
      BY <1>1, <1>3, <2>3, <3>1, HandlerCounts DEF ComesFirst
    <3>3. \A t, u, q, c, d \in Nat : u + d <= t + c => u + q + d <= t + q + c
      OBVIOUS
    <3>4. QueuedLosses' = QueuedLosses
      BY <1>6, <2>3
    <3> QED BY <1>1, <1>6, <2>1, <3>2, <3>3, <3>4, Zenon
  <2> QED BY <1>1, <2>1, <2>2, <2>3
<1>9. toggles' + QueuedLosses' + ComesFirst' <= losses' + 1
  <2>1. ComesFirst \in Nat /\ ComesFirst' \in Nat
    BY DEF ComesFirst
  <2>2. \A a, b, l \in Nat : a <= b /\ b <= l + 1 => a <= l + 1
    OBVIOUS
  <2>3. toggles + QueuedLosses + ComesFirst <= losses + 1
    BY DEF CountInv
  <2>4. toggles' + QueuedLosses' + ComesFirst' <= losses + 1
    <3>1. \A t, q, c \in Nat : t + q + c \in Nat
      OBVIOUS
    <3>2. toggles + QueuedLosses + ComesFirst \in Nat
      BY <1>1, <1>6, <2>1, <3>1, Zenon
    <3>3. toggles' + QueuedLosses' + ComesFirst' \in Nat
      BY <1>6, <1>8, <2>1, <3>1, Zenon
    <3> QED BY <1>1, <1>8, <2>2, <2>3, <3>2, <3>3, Zenon
  <2> QED BY <1>8, <2>4, Zenon
<1> QED BY <1>1, <1>2, <1>3, <1>4, <1>8, <1>9 DEF CountInv

LEMMA ChangeCounts == ASSUME CountInv, RegistrationChanges PROVE CountInv'
<1> USE DEF State
<1> DEFINE n == Len(inbox)
<1>1. n \in Nat /\ reg \in State /\ reg' \in State /\ reg' # reg
  BY DEF CountInv, RegistrationChanges
<1>2. UNCHANGED <<running, bootCompleted, sLastState, toggles>>
  BY DEF RegistrationChanges
<1>3. losses' = IF reg = "IN_SERVICE" THEN losses + 1 ELSE losses
  BY DEF RegistrationChanges
<1>4. CASE ~running
  <2>1. inbox' = <<>> /\ inbox = <<>>
    BY <1>4 DEF CountInv, RegistrationChanges
  <2>2. Alternates' /\ QueuedLosses' = 0 /\ ComesFirst' = 1
    BY <1>1, <1>2, <1>4, <2>1 DEF CountInv, Alternates, QueuedLosses, ComesFirst
  <2>3. losses' \in Nat /\ toggles' = 0
    BY <1>2, <1>3, <1>4 DEF CountInv
  <2>4. toggles' + QueuedLosses' + ComesFirst' <= losses' + 1
    <3>1. \A l \in Nat : 0 + 0 + 1 <= l + 1
      OBVIOUS
    <3> QED BY <2>2, <2>3, <3>1, Zenon
  <2>5. inbox' \in Seq(State)
    BY <2>1
  <2> QED BY <1>1, <1>2, <1>4, <2>1, <2>2, <2>3, <2>4, <2>5 DEF CountInv
<1>5. CASE running
  <2>1. /\ inbox' \in Seq(State) /\ Len(inbox') = n + 1 /\ inbox'[n + 1] = reg'
        /\ \A i \in 1 .. n : inbox'[i] = inbox[i]
    BY <1>1, <1>5 DEF CountInv, RegistrationChanges
  <2>2. Alternates'
    <3> SUFFICES ASSUME NEW i \in 1 .. n + 1
                 PROVE  inbox'[i] = reg' <=> (n + 1 - i) % 2 = 0
      BY <2>1 DEF Alternates
    <3>1. CASE i = n + 1
      BY <1>1, <2>1, <3>1
    <3>2. CASE i \in 1 .. n
      <4>1. inbox[i] \in State /\ (inbox[i] = reg <=> (n - i) % 2 = 0) /\ inbox'[i] = inbox[i]
        BY <2>1, <3>2 DEF CountInv, Alternates
      <4>2. (n - i) % 2 = 0 <=> (n + 1 - i) % 2 # 0
        BY <1>1, <3>2
      <4> QED BY <1>1, <4>1, <4>2
    <3> QED BY <1>1, <3>1, <3>2
  <2>3. /\ QueuedLosses \in Nat /\ QueuedLosses' \in Nat
        /\ reg = "IN_SERVICE" => QueuedLosses' = QueuedLosses + 1
        /\ reg = "OUT" => QueuedLosses' = QueuedLosses
    BY <1>1, <2>1 DEF QueuedLosses
  <2>4. ComesFirst' <= ComesFirst /\ ComesFirst \in Nat /\ ComesFirst' \in Nat
    <3>1. CASE n = 0
      BY <1>2, <3>1 DEF CountInv, ComesFirst
    <3>2. CASE n > 0
      <4>1. inbox'[1] = inbox[1] /\ inbox # <<>> /\ inbox' # <<>>
        BY <1>1, <2>1, <3>2
      <4> QED BY <1>2, <4>1 DEF ComesFirst
    <3> QED BY <1>1, <3>1, <3>2
  <2>5. losses \in Nat /\ toggles \in Nat /\ losses' \in Nat
        /\ toggles + QueuedLosses + ComesFirst <= losses + 1
    BY <1>3 DEF CountInv
  <2>6. toggles' + QueuedLosses' + ComesFirst' <= losses' + 1
    <3>1. \A t, q, c, d, l \in Nat :
            d <= c /\ t + q + c <= l + 1 => t + q + d <= l + 1 /\ t + (q + 1) + d <= (l + 1) + 1
      OBVIOUS
    <3>2. /\ toggles + QueuedLosses + ComesFirst' <= losses + 1
          /\ toggles + (QueuedLosses + 1) + ComesFirst' <= (losses + 1) + 1
      BY <2>3, <2>4, <2>5, <3>1, Zenon
    <3>3. CASE reg = "OUT"
      <4>1. QueuedLosses' = QueuedLosses /\ losses' = losses /\ toggles' = toggles
        BY <1>2, <1>3, <2>3, <3>3
      <4> QED BY <3>2, <4>1, Zenon
    <3>4. CASE reg = "IN_SERVICE"
      <4>1. QueuedLosses' = QueuedLosses + 1 /\ losses' = losses + 1 /\ toggles' = toggles
        BY <1>2, <1>3, <2>3, <3>4
      <4> QED BY <3>2, <4>1, Zenon
    <3> QED BY <1>1, <3>3, <3>4
  <2> QED BY <1>1, <1>2, <1>5, <2>1, <2>2, <2>5, <2>6 DEF CountInv
<1> QED BY <1>4, <1>5

\* A process that is gone has forgotten everything, and owes nothing.
LEMMA GoneCounts ==
  ASSUME CountInv, ProcessGone, reg' \in State
  PROVE  CountInv'
BY DEF CountInv, ProcessGone, State, Alternates, QueuedLosses, ComesFirst

LEMMA CountStep == ASSUME CountInv, [Next]_vars PROVE CountInv'
<1>1. CASE BootCompleted \/ StickyRestart
  BY <1>1, StartCounts DEF BootCompleted, StickyRestart, phone, CountInv
<1>2. CASE onServiceStateChanged
  BY <1>2, DeliveryCounts
<1>3. CASE ProcessDies \/ Reboot
  BY <1>3, GoneCounts DEF ProcessDies, Reboot, phone, CountInv, State
<1>4. CASE RegistrationChanges
  BY <1>4, ChangeCounts
<1>5. CASE ThreadSwitchesOn \/ UserSets \/ UNCHANGED vars
  <2>1. UNCHANGED <<inbox, reg, losses, toggles, bootCompleted, running, sLastState>>
    BY <1>5 DEF ThreadSwitchesOn, UserSets, vars, phone, history
  <2> QED BY <2>1 DEF CountInv, Alternates, QueuedLosses, ComesFirst
<1> QED BY <1>1, <1>2, <1>3, <1>4, <1>5 DEF Next, Service

LEMMA CountInit == Init => CountInv
BY DEF Init, CountInv, State, Alternates, QueuedLosses, ComesFirst

LEMMA CountBounds == CountInv => OneTogglePerService
<1> SUFFICES ASSUME CountInv PROVE toggles <= losses + 1
  BY DEF OneTogglePerService
<1>1. QueuedLosses \in Nat /\ ComesFirst \in Nat
  BY DEF CountInv, QueuedLosses, ComesFirst
<1> QED BY <1>1 DEF CountInv

\* However the registration flaps and callbacks pile up, a process toggles at most
\* once more often than it lost service.
THEOREM TogglesAreCounted == Spec => []OneTogglePerService
BY CountInit, CountStep, CountBounds, PTL DEF Spec
-----------------------------------------------------------------------------
(* The types: two threads are the most, because a second sleeps only while the    *)
(* setting is off, and nobody sets it while two sleep.                             *)

\* What a handler leaves of the types.
HandlerTypes ==
  /\ running \in BOOLEAN /\ sLastState \in State \union {"null"}
  /\ threads \in 0 .. 2 /\ (threads = 2 => volte = FALSE)
  /\ first_time \in BOOLEAN /\ volte \in BOOLEAN
  /\ spared \in BOOLEAN /\ skipped \in BOOLEAN

WorldTypes ==
  /\ boot \in 1 .. MaxBoots /\ bootCompleted \in BOOLEAN
  /\ wanted \in BOOLEAN /\ reg \in State /\ world \in Worlds
  /\ Len(inbox) <= MaxInbox /\ losses <= MaxLosses

LEMMA HandlerKeepsTypes ==
  ASSUME HandlerTypes, NEW s \in State, handleServiceStateChanged(s), running' \in BOOLEAN
  PROVE  HandlerTypes' /\ losses' = losses
<1>1. CASE SkipFirstBoot(s)
  BY <1>1 DEF SkipFirstBoot, HandlerTypes
<1>2. CASE Toggle(s)
  <2>1. threads' \in 0 .. 2 /\ volte' = FALSE /\ sLastState' = s
    BY <1>2 DEF Toggle, HandlerTypes
  <2>2. first_time' \in BOOLEAN /\ spared' \in BOOLEAN /\ skipped' \in BOOLEAN /\ losses' = losses
    BY <1>2, Zenon DEF Toggle, HandlerTypes
  <2> QED BY <2>1, <2>2 DEF HandlerTypes
<1>3. CASE JustRecord(s)
  BY <1>3 DEF JustRecord, HandlerTypes, history
<1> QED BY <1>1, <1>2, <1>3 DEF handleServiceStateChanged

LEMMA TypeStep ==
  ASSUME HandlerTypes, WorldTypes, CountInv, [Next]_vars
  PROVE  HandlerTypes' /\ WorldTypes'
<1> USE BoundAssumption
<1>1. CASE BootCompleted \/ StickyRestart
  <2>1. /\ reg \in State /\ handleServiceStateChanged(reg) /\ running' \in BOOLEAN
        /\ inbox' = <<reg>> /\ UNCHANGED <<boot, reg, world, wanted>> /\ bootCompleted' \in BOOLEAN
    BY <1>1 DEF BootCompleted, StickyRestart, onStartCommand, phone, WorldTypes
  <2>2. HandlerTypes' /\ losses' = losses
    BY <2>1, HandlerKeepsTypes
  <2>3. Len(inbox') <= MaxInbox
    BY <2>1
  <2> QED BY <2>1, <2>2, <2>3 DEF WorldTypes
<1>2. CASE onServiceStateChanged
  <2>1. /\ Head(inbox) \in State /\ handleServiceStateChanged(Head(inbox)) /\ running' \in BOOLEAN
        /\ UNCHANGED <<phone, wanted>>
    BY <1>2 DEF onServiceStateChanged, CountInv, HandlerTypes
  <2>2. HandlerTypes' /\ losses' = losses
    BY <2>1, HandlerKeepsTypes
  <2>3. Len(inbox') <= MaxInbox
    BY <1>2 DEF onServiceStateChanged, CountInv, WorldTypes
  <2> QED BY <2>1, <2>2, <2>3 DEF WorldTypes, phone
<1>3. CASE ThreadSwitchesOn
  BY <1>3 DEF ThreadSwitchesOn, HandlerTypes, WorldTypes, phone, history
<1>4. CASE ProcessDies \/ Reboot
  <2>1. /\ running' \in BOOLEAN /\ sLastState' = "null" /\ threads' = 0 /\ inbox' = <<>> /\ losses' = 0
        /\ UNCHANGED <<first_time, volte, wanted, world>>
    BY <1>4 DEF ProcessDies, Reboot, ProcessGone, phone
  <2>2. spared' \in BOOLEAN /\ skipped' \in BOOLEAN /\ bootCompleted' \in BOOLEAN
    BY <1>4 DEF ProcessDies, Reboot, phone, HandlerTypes, WorldTypes
  <2>3. boot' \in 1 .. MaxBoots /\ reg' \in State
    BY <1>4 DEF ProcessDies, Reboot, phone, WorldTypes, State
  <2> QED BY <2>1, <2>2, <2>3 DEF HandlerTypes, WorldTypes
<1>5. CASE RegistrationChanges
  <2>1. Len(inbox') <= MaxInbox
    <3>1. CASE running
      <4>1. Len(inbox') = Len(inbox) + 1 /\ Len(inbox) \in Nat
        BY <1>5, <3>1 DEF RegistrationChanges, CountInv
      <4> QED BY <1>5, <4>1 DEF RegistrationChanges
    <3>2. CASE ~running
      BY <1>5, <3>2 DEF RegistrationChanges, WorldTypes
    <3> QED BY <3>1, <3>2
  <2>2. reg' \in State /\ losses' <= MaxLosses
    BY <1>5 DEF RegistrationChanges
  <2>3. HandlerTypes' /\ UNCHANGED <<boot, bootCompleted, wanted, world>>
    BY <1>5 DEF RegistrationChanges, HandlerTypes
  <2> QED BY <2>1, <2>2, <2>3 DEF WorldTypes
<1>6. CASE UserSets
  <2>1. volte' \in BOOLEAN /\ wanted' \in BOOLEAN
    BY <1>6 DEF UserSets
  <2>2. threads < 2 /\ UNCHANGED <<threads, running, sLastState, first_time, spared, skipped>>
    BY <1>6 DEF UserSets, history, HandlerTypes
  <2>3. UNCHANGED <<boot, bootCompleted, reg, world, inbox, losses>>
    BY <1>6 DEF UserSets, phone, history
  <2> QED BY <2>1, <2>2, <2>3 DEF HandlerTypes, WorldTypes
<1>7. CASE UNCHANGED vars
  BY <1>7 DEF vars, phone, history, HandlerTypes, WorldTypes
<1> QED BY <1>1, <1>2, <1>3, <1>4, <1>5, <1>6, <1>7 DEF Next, Service

\* Every variable keeps its type: in particular no more than two toggle threads
\* ever sleep at once, and no process toggles more often than MaxLosses + 1 times.
THEOREM TypeCorrect == Spec => []TypeOK
<1> DEFINE Inv == HandlerTypes /\ WorldTypes /\ CountInv
<1>1. Init => Inv
  <2> SUFFICES ASSUME Init PROVE Inv
    OBVIOUS
  <2>1. /\ running \in BOOLEAN /\ first_time \in BOOLEAN /\ volte \in BOOLEAN /\ wanted \in BOOLEAN
        /\ spared \in BOOLEAN /\ skipped \in BOOLEAN /\ bootCompleted \in BOOLEAN
    BY Zenon DEF Init
  <2>2. boot \in 1 .. MaxBoots /\ losses <= MaxLosses /\ Len(inbox) <= MaxInbox
    BY BoundAssumption DEF Init
  <2> QED BY <2>1, <2>2, CountInit DEF Init, HandlerTypes, WorldTypes, State
<1>2. Inv /\ [Next]_vars => Inv'
  BY TypeStep, CountStep
<1>3. Inv => TypeOK
  <2> SUFFICES ASSUME Inv PROVE TypeOK
    OBVIOUS
  <2>1. toggles <= losses + 1
    BY CountBounds DEF OneTogglePerService
  <2>2. toggles \in 0 .. MaxLosses + 2 /\ losses \in 0 .. MaxLosses
    BY <2>1, BoundAssumption DEF CountInv, WorldTypes
  <2> QED BY <2>2 DEF TypeOK, HandlerTypes, WorldTypes, CountInv
<1> QED BY <1>1, <1>2, <1>3, PTL DEF Spec
==============================================================================
