------------------------------- MODULE SocProofs -------------------------------
(* The power gates, for every set of users, any number of refused calls and every *)
(* order of their calls; the power of the two amplifiers that share a bus         *)
(* address, for any set of callers; their timer task and their two links to the   *)
(* calibration, for any number of channels, threads, device files, users and      *)
(* commands.  A step of the composition is a step of each part or leaves it       *)
(* alone; what remains is each part's own induction, with the invariant its       *)
(* module states.                                                                 *)
EXTENDS MCSoc, TLAPS

-----------------------------------------------------------------------------
(* PowerGates: sequences of steps.                                             *)

\* Every wait of a sequence comes after the steps that it waits for.
Led(s) ==
  \A i \in DOMAIN s : s[i][1] \in Waits => \A b \in Asked(s[i]) :
    \E j \in 1..(i - 1) : s[j][1] = AskedTo(s[i]) /\ b \in s[j][2]
Sequence(s) == s \in Seq(Steps) /\ Led(s)

LEMMA InDone ==
  ASSUME NEW s, NEW what, NEW b
  PROVE  b \in Done(s, what) <=> \E i \in DOMAIN s : s[i][1] = what /\ b \in s[i][2]
  BY DEF Done

LEMMA CatAt ==
  ASSUME NEW s \in Seq(Steps), NEW t \in Seq(Steps)
  PROVE  /\ s \o t \in Seq(Steps)
         /\ DOMAIN (s \o t) = 1..(Len(s) + Len(t))
         /\ Len(s \o t) = Len(s) + Len(t)
         /\ \A i \in 1..Len(s) : (s \o t)[i] = s[i]
         /\ \A i \in 1..Len(t) : (s \o t)[Len(s) + i] = t[i]
  OBVIOUS

LEMMA CatDone ==
  ASSUME NEW s \in Seq(Steps), NEW t \in Seq(Steps), NEW what
  PROVE  Done(s \o t, what) = Done(s, what) \cup Done(t, what)
<1>1. \A b : b \in Done(s \o t, what) => b \in Done(s, what) \cup Done(t, what)
  <2> SUFFICES ASSUME NEW b, b \in Done(s \o t, what)
               PROVE  b \in Done(s, what) \cup Done(t, what)
    OBVIOUS
  <2> PICK i \in DOMAIN (s \o t) : (s \o t)[i][1] = what /\ b \in (s \o t)[i][2]
    BY DEF Done
  <2> i \in 1..(Len(s) + Len(t))
    BY CatAt
  <2>1. CASE i \in 1..Len(s)
    BY <2>1, InDone, CatAt
  <2>2. CASE i \notin 1..Len(s)
    <3>1. i - Len(s) \in 1..Len(t) /\ i = Len(s) + (i - Len(s))
      BY <2>2
    <3> QED BY <3>1, InDone, CatAt
  <2> QED BY <2>1, <2>2
<1>2. \A b : b \in Done(s, what) => b \in Done(s \o t, what)
  <2> SUFFICES ASSUME NEW b, NEW i \in 1..Len(s), s[i][1] = what, b \in s[i][2]
               PROVE  b \in Done(s \o t, what)
    BY InDone
  <2>1. i \in DOMAIN (s \o t) /\ (s \o t)[i] = s[i]
    BY CatAt
  <2> QED BY <2>1, InDone
<1>3. \A b : b \in Done(t, what) => b \in Done(s \o t, what)
  <2> SUFFICES ASSUME NEW b, NEW i \in 1..Len(t), t[i][1] = what, b \in t[i][2]
               PROVE  b \in Done(s \o t, what)
    BY InDone
  <2>1. Len(s) + i \in DOMAIN (s \o t) /\ (s \o t)[Len(s) + i] = t[i]
    BY CatAt
  <2> QED BY <2>1, InDone
<1> QED BY <1>1, <1>2, <1>3

LEMMA CatLed ==
  ASSUME NEW s, NEW t, Sequence(s), Sequence(t)
  PROVE  Sequence(s \o t)
<1> DEFINE st == s \o t
<1>1. s \in Seq(Steps) /\ t \in Seq(Steps) /\ Led(s) /\ Led(t)
  BY DEF Sequence
<1>2. st \in Seq(Steps) /\ DOMAIN st = 1..(Len(s) + Len(t))
  BY <1>1, CatAt
<1> SUFFICES ASSUME NEW i \in 1..(Len(s) + Len(t)), st[i][1] \in Waits, NEW b \in Asked(st[i])
             PROVE  \E j \in 1..(i - 1) : st[j][1] = AskedTo(st[i]) /\ b \in st[j][2]
  BY <1>1, <1>2 DEF Sequence, Led
<1>3. CASE i \in 1..Len(s)
  <2>1. st[i] = s[i] /\ i \in DOMAIN s
    BY <1>1, <1>3, CatAt
  <2>2. PICK j \in 1..(i - 1) : s[j][1] = AskedTo(s[i]) /\ b \in s[j][2]
    BY <1>1, <2>1 DEF Led
  <2>3. st[j] = s[j]
    BY <1>1, <1>3, CatAt
  <2> QED BY <2>1, <2>2, <2>3
<1>4. CASE i \notin 1..Len(s)
  <2> DEFINE k == i - Len(s)
  <2>1. k \in 1..Len(t) /\ i = Len(s) + k
    BY <1>1, <1>4
  <2>2. st[i] = t[k] /\ k \in DOMAIN t
    BY <1>1, <2>1, CatAt
  <2>3. PICK j \in 1..(k - 1) : t[j][1] = AskedTo(t[k]) /\ b \in t[j][2]
    BY <1>1, <2>2 DEF Led
  <2>4. st[Len(s) + j] = t[j] /\ Len(s) + j \in 1..(i - 1)
    BY <1>1, <2>1, CatAt
  <2> QED BY <2>2, <2>3, <2>4
<1> QED BY <1>3, <1>4

\* The rest of a sequence after its first step.
LEMMA TailAt ==
  ASSUME NEW s \in Seq(Steps), s # << >>
  PROVE  /\ Tail(s) \in Seq(Steps) /\ Len(Tail(s)) = Len(s) - 1
         /\ DOMAIN Tail(s) = 1..(Len(s) - 1)
         /\ \A i \in 1..(Len(s) - 1) : Tail(s)[i] = s[i + 1]
         /\ Head(s) = s[1] /\ 1 \in DOMAIN s /\ Len(s) \in Nat /\ s[1] \in Steps
  OBVIOUS

\* A step that is no wait, and the empty sequence.
LEMMA OneStep ==
  ASSUME NEW s \in Steps, s[1] \notin Waits
  PROVE  /\ Sequence(<<s>>)
         /\ \A what : Done(<<s>>, what) = IF s[1] = what THEN s[2] ELSE {}
<1>1. <<s>> \in Seq(Steps) /\ Led(<<s>>)
  BY DEF Led
<1>2. ASSUME NEW what
      PROVE  Done(<<s>>, what) = IF s[1] = what THEN s[2] ELSE {}
  <2>1. DOMAIN <<s>> = {1} /\ <<s>>[1] = s
    OBVIOUS
  <2>2. \A b : b \in Done(<<s>>, what) <=> s[1] = what /\ b \in s[2]
    BY <2>1, InDone
  <2> QED BY <2>2
<1> QED BY <1>1, <1>2 DEF Sequence

LEMMA NoStep == Sequence(<< >>) /\ \A what : Done(<< >>, what) = {}
<1>1. Sequence(<< >>)
  BY DEF Sequence, Led
<1>2. \A what : Done(<< >>, what) = {}
  BY InDone
<1> QED BY <1>1, <1>2

\* What a sequence sets, clears, fences and opens.
Effect(s, set, clr, fence, open) ==
  /\ Sequence(s)
  /\ Done(s, "set") = set /\ Done(s, "clr") = clr
  /\ Done(s, "fence") = fence /\ Done(s, "open") = open

LEMMA CatEffect ==
  ASSUME NEW s, NEW s1, NEW c1, NEW f1, NEW o1, Effect(s, s1, c1, f1, o1),
         NEW t, NEW s2, NEW c2, NEW f2, NEW o2, Effect(t, s2, c2, f2, o2)
  PROVE  Effect(s \o t, s1 \cup s2, c1 \cup c2, f1 \cup f2, o1 \cup o2)
<1>1. s \in Seq(Steps) /\ t \in Seq(Steps) /\ Sequence(s \o t)
  BY CatLed DEF Effect, Sequence
<1> QED BY <1>1, CatDone DEF Effect

LEMMA CatWait ==
  ASSUME NEW s, NEW s1, NEW c1, NEW f1, NEW o1, Effect(s, s1, c1, f1, o1),
         NEW w \in Steps, w[1] \in Waits, \A b \in Asked(w) : b \in Done(s, AskedTo(w))
  PROVE  Effect(s \o <<w>>, s1, c1, f1, o1)
<1> DEFINE sw == s \o <<w>>
<1>1. s \in Seq(Steps) /\ <<w>> \in Seq(Steps) /\ Led(s)
  BY DEF Effect, Sequence
<1>2. /\ sw \in Seq(Steps) /\ DOMAIN sw = 1..(Len(s) + 1)
      /\ \A i \in 1..Len(s) : sw[i] = s[i]
      /\ sw[Len(s) + 1] = w
  <2>1. Len(<<w>>) = 1 /\ 1 \in 1..Len(<<w>>) /\ <<w>>[1] = w
    OBVIOUS
  <2> QED BY <1>1, <2>1, CatAt
<1>3. Led(sw)
  <2> SUFFICES ASSUME NEW i \in 1..(Len(s) + 1), sw[i][1] \in Waits, NEW b \in Asked(sw[i])
               PROVE  \E j \in 1..(i - 1) : sw[j][1] = AskedTo(sw[i]) /\ b \in sw[j][2]
    BY <1>2 DEF Led
  <2>1. CASE i \in 1..Len(s)
    <3>1. PICK j \in 1..(i - 1) : s[j][1] = AskedTo(s[i]) /\ b \in s[j][2]
      BY <1>1, <1>2, <2>1 DEF Led
    <3>2. sw[j] = s[j] /\ sw[i] = s[i]
      BY <1>1, <1>2, <2>1
    <3> QED BY <3>1, <3>2
  <2>2. CASE i = Len(s) + 1
    <3>1. b \in Done(s, AskedTo(w)) /\ sw[i] = w
      BY <1>2, <2>2
    <3>2. PICK j \in DOMAIN s : s[j][1] = AskedTo(w) /\ b \in s[j][2]
      BY <3>1 DEF Done
    <3>3. j \in 1..(i - 1) /\ sw[j] = s[j]
      BY <1>1, <1>2, <2>2
    <3> QED BY <3>1, <3>2, <3>3
  <2> QED BY <1>1, <2>1, <2>2
<1>4. \A what \in {"set", "clr", "fence", "open"} : Done(sw, what) = Done(s, what)
  <2> TAKE what \in {"set", "clr", "fence", "open"}
  <2>1. DOMAIN <<w>> = {1} /\ <<w>>[1] = w /\ w[1] # what
    BY DEF Waits
  <2>2. Done(<<w>>, what) = {}
    BY <2>1, InDone
  <2>3. ASSUME NEW t \in Seq(Steps)
        PROVE  Done(s \o t, what) = Done(s, what) \cup Done(t, what)
    BY <1>1, CatDone
  <2> QED BY <1>1, <2>2, <2>3
<1> QED BY <1>2, <1>3, <1>4 DEF Effect, Sequence

-----------------------------------------------------------------------------
(* The pieces that the sequences are made of.                               *)

LEMMA SetEffect == ASSUME NEW b \in Bit PROVE Effect(Set(b), {b}, {}, {}, {})
<1>1. <<"set", {b}>> \in Steps /\ <<"set", {b}>>[1] \notin Waits
  BY DEF Steps, Waits
<1> QED BY <1>1, OneStep DEF Effect, Set

LEMMA ClrEffect == ASSUME NEW b \in Bit PROVE Effect(Clr(b), {}, {b}, {}, {})
<1>1. <<"clr", {b}>> \in Steps /\ <<"clr", {b}>>[1] \notin Waits
  BY DEF Steps, Waits
<1> QED BY <1>1, OneStep DEF Effect, Clr

LEMMA OpenEffect == ASSUME NEW p \in SUBSET Bit PROVE Effect(Open(p), {}, {}, {}, p)
<1>1. <<"open", p>> \in Steps /\ <<"open", p>>[1] \notin Waits
  BY DEF Steps, Waits
<1> QED BY <1>1, OneStep DEF Effect, Open

\* A write, and a wait for what it did.
LEMMA PairEffect ==
  ASSUME NEW what \in {"set", "clr", "fence"}, NEW wait \in Waits, NEW p \in SUBSET Bit,
         wait # "wait", AskedTo(<<wait, p>>) = what
  PROVE  Effect(<< <<what, p>>, <<wait, p>> >>, IF what = "set" THEN p ELSE {},
                IF what = "clr" THEN p ELSE {}, IF what = "fence" THEN p ELSE {}, {})
<1>1. <<what, p>> \in Steps /\ <<wait, p>> \in Steps /\ <<what, p>>[1] \notin Waits
  BY DEF Steps, Waits
<1>2. Effect(<< <<what, p>> >>, IF what = "set" THEN p ELSE {}, IF what = "clr" THEN p ELSE {},
             IF what = "fence" THEN p ELSE {}, {})
  BY <1>1, OneStep DEF Effect
<1>3. \A b \in Asked(<<wait, p>>) : b \in Done(<< <<what, p>> >>, AskedTo(<<wait, p>>))
  BY <1>1, OneStep DEF Asked
<1>4. << <<what, p>>, <<wait, p>> >> = << <<what, p>> >> \o << <<wait, p>> >>
  OBVIOUS
<1> QED BY <1>1, <1>2, <1>3, <1>4, CatWait

LEMMA FenceEffect == ASSUME NEW p \in SUBSET Bit PROVE Effect(Fence(p), {}, {}, p, {})
  BY PairEffect DEF Fence, AskedTo, Waits

LEMMA BanksAreBits == ASSUME NEW n \in 0..4 PROVE Banks(n) \subseteq Banks(4) /\ Banks(n) \subseteq Bit
  BY DEF Banks, Bit

LEMMA SramDownEffect == ASSUME NEW n \in 0..4 PROVE Effect(SramDown(n), Banks(n), {}, {}, {})
  BY PairEffect, BanksAreBits DEF SramDown, AskedTo, Waits

\* Bank by bank: the odd steps switch it on, the even ones wait for it.
LEMMA SramUpEffect == ASSUME NEW n \in 0..4 PROVE Effect(SramUp(n), {}, Banks(n), {}, {})
<1> DEFINE up == SramUp(n)
<1>1. DOMAIN up = 1..(2 * n)
  BY DEF SramUp
<1>2. \A i \in 1..(2 * n) : i % 2 = 1 => up[i] = <<"clr", {Bank[(i + 1) \div 2]}>> /\ (i + 1) \div 2 \in 1..n
  BY DEF SramUp
<1>3. \A i \in 1..(2 * n) : i % 2 # 1 => up[i] = <<"awake", {Bank[i \div 2]}>> /\ i \div 2 \in 1..n
  BY DEF SramUp
<1>4. \A k \in 1..n : Bank[k] \in Banks(n) /\ {Bank[k]} \in SUBSET Bit
  <2>1. \A k \in 1..n : Bank[k] \in Banks(n)
    BY DEF Banks
  <2> QED BY <2>1, BanksAreBits
<1>5. \A i \in 1..(2 * n) : up[i] \in Steps
  <2>1. ASSUME NEW i \in 1..(2 * n), i % 2 = 1
        PROVE  up[i] \in Steps
    <3>1. PICK k \in 1..n : up[i] = <<"clr", {Bank[k]}>>
      BY <1>2, <2>1
    <3> QED BY <1>4, <3>1 DEF Steps
  <2>2. ASSUME NEW i \in 1..(2 * n), i % 2 # 1
        PROVE  up[i] \in Steps
    <3>1. PICK k \in 1..n : up[i] = <<"awake", {Bank[k]}>>
      BY <1>3, <2>2
    <3> QED BY <1>4, <3>1 DEF Steps, Waits
  <2> QED BY <2>1, <2>2
<1>6. up \in Seq(Steps)
  <2>1. up \in [1..(2 * n) -> Steps] /\ 2 * n \in Nat
    BY <1>1, <1>5 DEF SramUp
  <2> QED BY <2>1
<1>7. Led(up)
  <2> SUFFICES ASSUME NEW i \in 1..(2 * n), up[i][1] \in Waits, NEW b \in Asked(up[i])
               PROVE  \E j \in 1..(i - 1) : up[j][1] = AskedTo(up[i]) /\ b \in up[j][2]
    BY <1>1 DEF Led
  <2>1. i % 2 # 1
    BY <1>2 DEF Waits
  <2>2. i - 1 \in 1..(2 * n) /\ (i - 1) % 2 = 1
    BY <2>1
  <2>3. up[i] = <<"awake", {Bank[i \div 2]}>> /\ up[i - 1] = <<"clr", {Bank[(i - 1 + 1) \div 2]}>>
    BY <1>2, <1>3, <2>1, <2>2
  <2>4. up[i - 1][1] = AskedTo(up[i]) /\ b \in up[i - 1][2]
    BY <2>3 DEF AskedTo, Asked
  <2> QED BY <2>2, <2>4
<1>8. Done(up, "clr") = Banks(n)
  <2>1. \A b : b \in Done(up, "clr") => b \in Banks(n)
    BY <1>1, <1>2, <1>3, <1>4, InDone
  <2>2. ASSUME NEW k \in 1..n
        PROVE  Bank[k] \in Done(up, "clr")
    <3>1. 2 * k - 1 \in 1..(2 * n) /\ (2 * k - 1) % 2 = 1 /\ (2 * k - 1 + 1) \div 2 = k
      OBVIOUS
    <3>2. up[2 * k - 1] = <<"clr", {Bank[k]}>>
      BY <1>2, <3>1
    <3>3. 2 * k - 1 \in DOMAIN up /\ up[2 * k - 1][1] = "clr" /\ Bank[k] \in up[2 * k - 1][2]
      BY <1>1, <3>1, <3>2
    <3> HIDE DEF up
    <3> QED BY <3>3, InDone
  <2> QED BY <2>1, <2>2 DEF Banks
<1>9. \A what \in {"set", "fence", "open"} : Done(up, what) = {}
  <2> SUFFICES ASSUME NEW what \in {"set", "fence", "open"}, NEW b, b \in Done(up, what)
               PROVE  FALSE
    OBVIOUS
  <2>1. PICK i \in 1..(2 * n) : up[i][1] = what
    BY <1>1, InDone
  <2> QED BY <1>2, <1>3, <2>1
<1> QED BY <1>6, <1>7, <1>8, <1>9 DEF Effect, Sequence

\* A sequence with one more step.
LEMMA ThenSet ==
  ASSUME NEW s, NEW s1, NEW c1, NEW f1, NEW o1, Effect(s, s1, c1, f1, o1), NEW b \in Bit
  PROVE  Effect(s \o Set(b), s1 \cup {b}, c1, f1, o1)
<1>1. Effect(s \o Set(b), s1 \cup {b}, c1 \cup {}, f1 \cup {}, o1 \cup {})
  BY SetEffect, CatEffect
<1> QED BY <1>1

LEMMA ThenClr ==
  ASSUME NEW s, NEW s1, NEW c1, NEW f1, NEW o1, Effect(s, s1, c1, f1, o1), NEW b \in Bit
  PROVE  Effect(s \o Clr(b), s1, c1 \cup {b}, f1, o1)
<1>1. Effect(s \o Clr(b), s1 \cup {}, c1 \cup {b}, f1 \cup {}, o1 \cup {})
  BY ClrEffect, CatEffect
<1> QED BY <1>1

LEMMA ThenFence ==
  ASSUME NEW s, NEW s1, NEW c1, NEW f1, NEW o1, Effect(s, s1, c1, f1, o1), NEW p \in SUBSET Bit
  PROVE  Effect(s \o Fence(p), s1, c1, f1 \cup p, o1)
<1>1. Effect(s \o Fence(p), s1 \cup {}, c1 \cup {}, f1 \cup p, o1 \cup {})
  BY FenceEffect, CatEffect
<1> QED BY <1>1

LEMMA ThenOpen ==
  ASSUME NEW s, NEW s1, NEW c1, NEW f1, NEW o1, Effect(s, s1, c1, f1, o1), NEW p \in SUBSET Bit
  PROVE  Effect(s \o Open(p), s1, c1, f1, o1 \cup p)
<1>1. Effect(s \o Open(p), s1 \cup {}, c1 \cup {}, f1 \cup {}, o1 \cup p)
  BY OpenEffect, CatEffect
<1> QED BY <1>1

LEMMA ThenWaitOn ==
  ASSUME NEW s, NEW s1, NEW c1, NEW f1, NEW o1, Effect(s, s1, c1, f1, o1), {"on", "on2nd"} \subseteq s1
  PROVE  Effect(s \o Wait("on"), s1, c1, f1, o1)
<1>1. <<"wait", {"on"}>> \in Steps /\ <<"wait", {"on"}>>[1] \in Waits
  BY DEF Steps, Waits, Bit
<1>2. \A b \in Asked(<<"wait", {"on"}>>) : b \in Done(s, AskedTo(<<"wait", {"on"}>>))
  BY DEF Effect, Asked, AskedTo
<1> QED BY <1>1, <1>2, CatWait DEF Wait

LEMMA ThenWaitOff ==
  ASSUME NEW s, NEW s1, NEW c1, NEW f1, NEW o1, Effect(s, s1, c1, f1, o1), {"on", "on2nd"} \subseteq c1
  PROVE  Effect(s \o Wait("off"), s1, c1, f1, o1)
<1>1. <<"wait", {"off"}>> \in Steps /\ <<"wait", {"off"}>>[1] \in Waits
  BY DEF Steps, Waits, Bit
<1>2. \A b \in Asked(<<"wait", {"off"}>>) : b \in Done(s, AskedTo(<<"wait", {"off"}>>))
  BY DEF Effect, Asked, AskedTo
<1> QED BY <1>1, <1>2, CatWait DEF Wait

\* The sequences that all but the modem's domain share.
LEMMA PwrUpEffect == Effect(PwrUp, {"on", "on2nd", "rstb"}, {"clkdis", "iso"}, {}, {})
<1> USE DEF Bit
<1>1. Effect(Set("on") \o Set("on2nd"), {"on", "on2nd"}, {}, {}, {})
  <2>1. Effect(Set("on") \o Set("on2nd"), {"on"} \cup {"on2nd"}, {}, {}, {})
    BY SetEffect, ThenSet
  <2> QED BY <2>1
<1>2. Effect(Set("on") \o Set("on2nd") \o Wait("on"), {"on", "on2nd"}, {}, {}, {})
  BY <1>1, ThenWaitOn
<1>3. Effect(Set("on") \o Set("on2nd") \o Wait("on") \o Clr("clkdis") \o Clr("iso") \o Set("rstb"),
             {"on", "on2nd"} \cup {"rstb"}, {} \cup {"clkdis"} \cup {"iso"}, {}, {})
  BY <1>2, ThenClr, ThenSet
<1> QED BY <1>3 DEF PwrUp

LEMMA PwrDownEffect == Effect(PwrDown, {"iso", "clkdis"}, {"rstb", "on", "on2nd"}, {}, {})
<1> USE DEF Bit
<1>1. Effect(Set("iso") \o Set("clkdis") \o Clr("rstb") \o Clr("on") \o Clr("on2nd"),
             {"iso"} \cup {"clkdis"}, {} \cup {"rstb"} \cup {"on"} \cup {"on2nd"}, {}, {})
  BY SetEffect, ThenSet, ThenClr
<1> QED BY <1>1, ThenWaitOff DEF PwrDown

LEMMA ThenSramUp ==
  ASSUME NEW s, NEW s1, NEW c1, NEW f1, NEW o1, Effect(s, s1, c1, f1, o1), NEW n \in 0..4
  PROVE  Effect(s \o SramUp(n), s1, c1 \cup Banks(n), f1, o1)
<1>1. Effect(s \o SramUp(n), s1 \cup {}, c1 \cup Banks(n), f1 \cup {}, o1 \cup {})
  BY SramUpEffect, CatEffect
<1> QED BY <1>1

LEMMA ThenSramDown ==
  ASSUME NEW s, NEW s1, NEW c1, NEW f1, NEW o1, Effect(s, s1, c1, f1, o1), NEW n \in 0..4
  PROVE  Effect(s \o SramDown(n), s1 \cup Banks(n), c1, f1, o1)
<1>1. Effect(s \o SramDown(n), s1 \cup Banks(n), c1 \cup {}, f1 \cup {}, o1 \cup {})
  BY SramDownEffect, CatEffect
<1> QED BY <1>1

LEMMA TheBanks ==
  /\ Banks(0) = {} /\ Banks(1) = {"sram0"} /\ Banks(2) = {"sram0", "sram1"}
  /\ Banks(4) = {"sram0", "sram1", "sram2", "sram3"}
  BY DEF Banks, Bank

LEMMA FencesAreBits ==
  ASSUME NEW S \in SUBSET Nat
  PROVE  En(S) \in SUBSET Bit /\ En1(S) \in SUBSET Bit /\ Smi(S) \in SUBSET Bit
  BY DEF En, En1, Smi, Bit

-----------------------------------------------------------------------------
(* The sequences of the domains.                                            *)

\* mtcmos_ctrl_*_pwr: on.
LEMMA PowerUpEffect ==
  ASSUME NEW d \in Domains \ {"md1"}
  PROVE  Effect(ctrl_pwr(d, STA_POWER_ON), {"on", "on2nd", "rstb"},
                {"clkdis", "iso"} \cup (IF d \in RamWithPower THEN Banks(Rams(d)) ELSE {}), {}, {})
<1> USE DEF STA_POWER_ON, STA_POWER_DOWN, ctrl_pwr, RamWithPower, Rams, Domains
<1>1. CASE d \notin RamWithPower
  <2>1. ctrl_pwr(d, STA_POWER_ON) = PwrUp
    BY <1>1 DEF conn_pwr, dis_pwr, mfg_pwr, isp_pwr, mfg_async_pwr, cam_pwr, ven_pwr, vde_pwr
  <2> HIDE DEF STA_POWER_ON, ctrl_pwr
  <2>2. {"clkdis", "iso"} = {"clkdis", "iso"} \cup (IF d \in RamWithPower THEN Banks(Rams(d)) ELSE {})
    BY <1>1
  <2> QED BY <2>1, <2>2, PwrUpEffect
<1>2. CASE d \in RamWithPower
  <2>1. ctrl_pwr(d, STA_POWER_ON) = PwrUp \o SramUp(Rams(d)) /\ Rams(d) \in 0..4
    BY <1>2 DEF dpy_pwr, ifr_pwr, mfg_core0_pwr, mfg_core1_pwr
  <2> HIDE DEF STA_POWER_ON, ctrl_pwr, Rams
  <2>2. Effect(ctrl_pwr(d, STA_POWER_ON), {"on", "on2nd", "rstb"}, {"clkdis", "iso"} \cup Banks(Rams(d)), {}, {})
    <3>1. ASSUME NEW n \in 0..4
          PROVE  Effect(PwrUp \o SramUp(n), {"on", "on2nd", "rstb"}, {"clkdis", "iso"} \cup Banks(n), {}, {})
      BY PwrUpEffect, ThenSramUp
    <3> QED BY <2>1, <3>1
  <2> QED BY <1>2, <2>2
<1> QED BY <1>1, <1>2

\* The modem's domain: it is held in reset while its power comes.
LEMMA ModemUpEffect ==
  LET s == ctrl_pwr("md1", STA_POWER_ON) IN
  /\ Effect(s, {"on", "on2nd", "sramiso", "rstb"}, {"rstb", "sram0", "iso", "clkdis", "extra"}, {}, {})
  /\ s # << >> /\ Head(s) = <<"clr", {"rstb"}>>
  /\ "rstb" \notin Done(Tail(s), "clr")
<1> USE DEF Bit
<1> DEFINE s == ctrl_pwr("md1", STA_POWER_ON)
<1>0. "sram0" \in Bit
  BY TheBanks
<1>1. s = Clr("rstb") \o Set("on") \o Set("on2nd") \o Wait("on") \o Clr("sram0")
            \o Set("sramiso") \o Clr("iso") \o Clr("clkdis") \o Set("rstb") \o Clr("extra")
  BY DEF ctrl_pwr, md1_pwr, STA_POWER_ON, STA_POWER_DOWN
<1>2. Effect(Clr("rstb") \o Set("on") \o Set("on2nd"), {} \cup {"on"} \cup {"on2nd"}, {"rstb"}, {}, {})
  BY ClrEffect, ThenSet
<1>3. Effect(Clr("rstb") \o Set("on") \o Set("on2nd") \o Wait("on"), {} \cup {"on"} \cup {"on2nd"}, {"rstb"}, {}, {})
  BY <1>2, ThenWaitOn
<1>4. Effect(Clr("rstb") \o Set("on") \o Set("on2nd") \o Wait("on") \o Clr("sram0")
            \o Set("sramiso") \o Clr("iso") \o Clr("clkdis") \o Set("rstb") \o Clr("extra"),
        {} \cup {"on"} \cup {"on2nd"} \cup {"sramiso"} \cup {"rstb"},
        {"rstb"} \cup {"sram0"} \cup {"iso"} \cup {"clkdis"} \cup {"extra"}, {}, {})
  BY <1>0, <1>3, ThenSet, ThenClr
<1>5. Effect(s, {"on", "on2nd", "sramiso", "rstb"}, {"rstb", "sram0", "iso", "clkdis", "extra"}, {}, {})
  BY <1>1, <1>4
<1>6. s # << >> /\ Head(s) = <<"clr", {"rstb"}>>
  BY <1>1 DEF Clr, Set, Wait
<1>7. "rstb" \notin Done(Tail(s), "clr")
  <2>1. /\ Len(s) = 10 /\ s[2] = <<"set", {"on"}>> /\ s[3] = <<"set", {"on2nd"}>>
        /\ s[4] = <<"wait", {"on"}>> /\ s[5] = <<"clr", {"sram0"}>> /\ s[6] = <<"set", {"sramiso"}>>
        /\ s[7] = <<"clr", {"iso"}>> /\ s[8] = <<"clr", {"clkdis"}>> /\ s[9] = <<"set", {"rstb"}>>
        /\ s[10] = <<"clr", {"extra"}>>
    BY <1>1 DEF Clr, Set, Wait
  <2>2. s \in Seq(Steps) /\ s # << >>
    BY <1>5, <1>6 DEF Effect, Sequence
  <2> HIDE DEF s
  <2>a. DOMAIN Tail(s) = 1..(Len(s) - 1) /\ \A i \in 1..(Len(s) - 1) : Tail(s)[i] = s[i + 1]
    BY <2>2, TailAt
  <2>b. Len(s) - 1 = 9
    BY <2>1
  <2>3. DOMAIN Tail(s) = 1..9 /\ \A i \in 1..9 : Tail(s)[i] = s[i + 1]
    BY <2>a, <2>b
  <2>4. \A i \in 2..10 : ~(s[i][1] = "clr" /\ "rstb" \in s[i][2])
    BY <2>1
  <2>5. \A i \in 1..9 : ~(Tail(s)[i][1] = "clr" /\ "rstb" \in Tail(s)[i][2])
    <3> TAKE i \in 1..9
    <3>1. i + 1 \in 2..10
      OBVIOUS
    <3>2. Tail(s)[i] = s[i + 1]
      BY <2>3
    <3> QED BY <3>1, <3>2, <2>4
  <2>6. "rstb" \in Done(Tail(s), "clr") <=> \E i \in DOMAIN Tail(s) : Tail(s)[i][1] = "clr" /\ "rstb" \in Tail(s)[i][2]
    BY DEF Done
  <2> QED BY <2>3, <2>5, <2>6
<1> QED BY <1>5, <1>6, <1>7

\* mtcmos_ctrl_*_pwr: off.
LEMMA ModemDownEffect ==
  Effect(ctrl_pwr("md1", STA_POWER_DOWN), {"extra", "clkdis", "iso", "sram0"}, {"sramiso", "on", "on2nd"}, {}, {})
<1> USE DEF Bit
<1>0. "sram0" \in Bit
  BY TheBanks
<1>1. ctrl_pwr("md1", STA_POWER_DOWN) = Set("extra") \o Set("clkdis") \o Set("iso") \o Clr("sramiso")
         \o Set("sram0") \o Clr("on") \o Clr("on2nd") \o Wait("off")
  BY DEF ctrl_pwr, md1_pwr, STA_POWER_DOWN
<1>2. Effect(Set("extra") \o Set("clkdis") \o Set("iso") \o Clr("sramiso")
         \o Set("sram0") \o Clr("on") \o Clr("on2nd"),
        {"extra"} \cup {"clkdis"} \cup {"iso"} \cup {"sram0"}, {} \cup {"sramiso"} \cup {"on"} \cup {"on2nd"}, {}, {})
  BY <1>0, SetEffect, ThenSet, ThenClr
<1>3. Effect(Set("extra") \o Set("clkdis") \o Set("iso") \o Clr("sramiso")
         \o Set("sram0") \o Clr("on") \o Clr("on2nd") \o Wait("off"),
        {"extra"} \cup {"clkdis"} \cup {"iso"} \cup {"sram0"}, {} \cup {"sramiso"} \cup {"on"} \cup {"on2nd"}, {}, {})
  BY <1>2, ThenWaitOff
<1> QED BY <1>1, <1>3

LEMMA PowerDownEffect ==
  ASSUME NEW d \in Domains \ {"md1"}
  PROVE  Effect(ctrl_pwr(d, STA_POWER_DOWN),
                (IF d \in RamWithPower THEN Banks(Rams(d)) ELSE {}) \cup {"iso", "clkdis"},
                {"rstb", "on", "on2nd"}, {}, {})
<1> USE DEF STA_POWER_ON, STA_POWER_DOWN, ctrl_pwr, RamWithPower, Rams, Domains
<1>1. CASE d \notin RamWithPower
  <2>1. ctrl_pwr(d, STA_POWER_DOWN) = PwrDown
    BY <1>1 DEF conn_pwr, dis_pwr, mfg_pwr, isp_pwr, mfg_async_pwr, cam_pwr, ven_pwr, vde_pwr
  <2> HIDE DEF STA_POWER_DOWN, ctrl_pwr
  <2>2. {"iso", "clkdis"} = (IF d \in RamWithPower THEN Banks(Rams(d)) ELSE {}) \cup {"iso", "clkdis"}
    BY <1>1
  <2> QED BY <2>1, <2>2, PwrDownEffect
<1>2. CASE d \in RamWithPower
  <2>1. ctrl_pwr(d, STA_POWER_DOWN) = SramDown(Rams(d)) \o PwrDown /\ Rams(d) \in 0..4
    BY <1>2 DEF dpy_pwr, ifr_pwr, mfg_core0_pwr, mfg_core1_pwr
  <2> HIDE DEF STA_POWER_DOWN, ctrl_pwr, Rams
  <2>2. Effect(ctrl_pwr(d, STA_POWER_DOWN), Banks(Rams(d)) \cup {"iso", "clkdis"}, {"rstb", "on", "on2nd"}, {}, {})
    <3>1. ASSUME NEW n \in 0..4
          PROVE  Effect(SramDown(n) \o PwrDown, Banks(n) \cup {"iso", "clkdis"}, {"rstb", "on", "on2nd"}, {}, {})
      <4>1. Effect(SramDown(n) \o PwrDown, Banks(n) \cup {"iso", "clkdis"}, {} \cup {"rstb", "on", "on2nd"},
                   {} \cup {}, {} \cup {})
        BY PwrDownEffect, SramDownEffect, CatEffect
      <4> QED BY <4>1
    <3> QED BY <2>1, <3>1
  <2> QED BY <1>2, <2>2
<1> QED BY <1>1, <1>2

\* What turning off leaves, in the terms of the invariant.
LEMMA PowerDownGoes ==
  ASSUME NEW d \in Domains
  PROVE  LET s == ctrl_pwr(d, STA_POWER_DOWN) IN
         /\ Sequence(s) /\ Done(s, "fence") = {} /\ Done(s, "open") = {}
         /\ "on" \in Done(s, "clr") /\ "on" \notin Done(s, "set")
         /\ "iso" \in Done(s, "set") /\ "iso" \notin Done(s, "clr")
         /\ Done(s, "set") \cap Banks(4) \subseteq Banks(Rams(d))
         /\ Done(s, "set") \cap Done(s, "clr") = {}
<1>1. CASE d = "md1"
  <2>1. Rams("md1") = 1
    BY DEF Rams
  <2> QED BY <1>1, <2>1, ModemDownEffect, TheBanks DEF Effect
<1>2. CASE d # "md1"
  <2> DEFINE s == ctrl_pwr(d, STA_POWER_DOWN)
  <2>1. Sequence(s) /\ Done(s, "fence") = {} /\ Done(s, "open") = {} /\ Done(s, "clr") = {"rstb", "on", "on2nd"}
        /\ Done(s, "set") = (IF d \in RamWithPower THEN Banks(Rams(d)) ELSE {}) \cup {"iso", "clkdis"}
    BY <1>2, PowerDownEffect DEF Effect
  <2>2. Rams(d) \in {0, 1, 2, 4}
    BY DEF Rams
  <2>3. Banks(Rams(d)) \subseteq Banks(4) /\ "on" \notin Banks(4) /\ "iso" \notin Banks(4) /\ "clkdis" \notin Banks(4)
        /\ Banks(4) \cap {"rstb", "on", "on2nd"} = {}
    BY <2>2, TheBanks
  <2> HIDE DEF s
  <2>4. Done(s, "set") \cap Banks(4) \subseteq Banks(Rams(d))
    BY <2>1, <2>3
  <2>5. "on" \in Done(s, "clr") /\ "on" \notin Done(s, "set") /\ "iso" \in Done(s, "set") /\ "iso" \notin Done(s, "clr")
    BY <2>1, <2>3
  <2>6. Done(s, "set") \cap Done(s, "clr") = {}
    BY <2>1, <2>3
  <2> QED BY <2>1, <2>4, <2>5, <2>6 DEF s
<1> QED BY <1>1, <1>2

\* mtcmos_ctrl_*_bus_prot: what one fences and puts to sleep, the other opens and wakes.
FenceAndOpen(down, up, ram, p) ==
  /\ p \in SUBSET Bit
  /\ Effect(down, ram, {}, p, {}) /\ Effect(up, {}, ram, {}, p)

LEMMA TwoFences ==
  ASSUME NEW p \in SUBSET Bit, NEW q \in SUBSET Bit, NEW n \in 0..4
  PROVE  FenceAndOpen(Fence(p) \o Fence(q) \o SramDown(n), SramUp(n) \o Open(q) \o Open(p), Banks(n), p \cup q)
<1>1. Effect(Fence(p) \o Fence(q) \o SramDown(n), {} \cup Banks(n), {}, p \cup q, {})
  BY FenceEffect, ThenFence, ThenSramDown
<1>2. Effect(SramUp(n) \o Open(q) \o Open(p), {}, Banks(n), {}, {} \cup q \cup p)
  BY SramUpEffect, ThenOpen
<1>3. {} \cup Banks(n) = Banks(n) /\ {} \cup q \cup p = p \cup q
  OBVIOUS
<1> QED BY <1>1, <1>2, <1>3 DEF FenceAndOpen

LEMMA ThreeFences ==
  ASSUME NEW p \in SUBSET Bit, NEW q \in SUBSET Bit, NEW r \in SUBSET Bit
  PROVE  /\ FenceAndOpen(Fence(p) \o Fence(q) \o Fence(r), Open(q) \o Open(r) \o Open(p), {}, p \cup q \cup r)
         /\ FenceAndOpen(Fence(p) \o Fence(q) \o Fence(r), Open(r) \o Open(p) \o Open(q), {}, p \cup q \cup r)
<1>1. Effect(Fence(p) \o Fence(q) \o Fence(r), {}, {}, p \cup q \cup r, {})
  BY FenceEffect, ThenFence
<1>2. Effect(Open(q) \o Open(r) \o Open(p), {}, {}, {}, q \cup r \cup p)
  BY OpenEffect, ThenOpen
<1>3. Effect(Open(r) \o Open(p) \o Open(q), {}, {}, {}, r \cup p \cup q)
  BY OpenEffect, ThenOpen
<1>4. q \cup r \cup p = p \cup q \cup r /\ r \cup p \cup q = p \cup q \cup r
  OBVIOUS
<1> QED BY <1>1, <1>2, <1>3, <1>4 DEF FenceAndOpen

LEMMA FencesAndRam ==
  ASSUME NEW a \in SUBSET Bit, NEW b \in SUBSET Bit, NEW c \in SUBSET Bit, NEW d \in SUBSET Bit, NEW n \in 0..4
  PROVE  /\ FenceAndOpen(Fence(a) \o Fence(b) \o Fence(c) \o SramDown(n),
                         SramUp(n) \o Open(b) \o Open(c) \o Open(a), Banks(n), a \cup b \cup c)
         /\ FenceAndOpen(Fence(a) \o Fence(b) \o Fence(c) \o Fence(d) \o SramDown(n),
                         SramUp(n) \o Open(d) \o Open(c) \o Open(b) \o Open(a), Banks(n), a \cup b \cup c \cup d)
<1>1. Effect(Fence(a) \o Fence(b) \o Fence(c), {}, {}, a \cup b \cup c, {})
  BY FenceEffect, ThenFence
<1>2. Effect(Fence(a) \o Fence(b) \o Fence(c) \o SramDown(n), {} \cup Banks(n), {}, a \cup b \cup c, {})
  BY <1>1, ThenSramDown
<1>3. Effect(Fence(a) \o Fence(b) \o Fence(c) \o Fence(d) \o SramDown(n), {} \cup Banks(n), {}, a \cup b \cup c \cup d, {})
  BY <1>1, ThenFence, ThenSramDown
<1>4. Effect(SramUp(n) \o Open(b) \o Open(c) \o Open(a), {}, Banks(n), {}, {} \cup b \cup c \cup a)
  BY SramUpEffect, ThenOpen
<1>5. Effect(SramUp(n) \o Open(d) \o Open(c) \o Open(b) \o Open(a), {}, Banks(n), {}, {} \cup d \cup c \cup b \cup a)
  BY SramUpEffect, ThenOpen
<1>6. /\ {} \cup Banks(n) = Banks(n) /\ {} \cup b \cup c \cup a = a \cup b \cup c
      /\ {} \cup d \cup c \cup b \cup a = a \cup b \cup c \cup d
  OBVIOUS
<1> QED BY <1>2, <1>3, <1>4, <1>5, <1>6 DEF FenceAndOpen

\* What the fences of a domain switch besides: its SRAM, where the power does not.
RamByBus(d) == IF d \in RamWithPower THEN {} ELSE Banks(Rams(d))
FencesOf(d, p) ==
  FenceAndOpen(ctrl_bus_prot(d, STA_POWER_DOWN), ctrl_bus_prot(d, STA_POWER_ON), RamByBus(d), p)

LEMMA ModemFences == \E p : FencesOf("md1", p)
<1> USE FencesAreBits
<1>1. FenceAndOpen(Fence(En({7})) \o Fence(En({3, 4})) \o Fence(En1({6})),
                   Open(En({3, 4})) \o Open(En1({6})) \o Open(En({7})), {}, En({7}) \cup En({3, 4}) \cup En1({6}))
  BY ThreeFences
<1>2. RamByBus("md1") = {}
  BY DEF RamByBus, RamWithPower
<1> QED BY <1>1, <1>2 DEF FencesOf, ctrl_bus_prot, md1_bus_prot, STA_POWER_DOWN, STA_POWER_ON

LEMMA ConnFences == \E p : FencesOf("conn", p)
<1> USE FencesAreBits
<1>1. FenceAndOpen(Fence(En({13})) \o Fence(En1({18})) \o Fence(En({14, 16})),
                   Open(En({14, 16})) \o Open(En({13})) \o Open(En1({18})), {}, En({13}) \cup En1({18}) \cup En({14, 16}))
  BY ThreeFences
<1>2. RamByBus("conn") = {}
  BY TheBanks DEF RamByBus, RamWithPower, Rams
<1> QED BY <1>1, <1>2 DEF FencesOf, ctrl_bus_prot, conn_bus_prot, STA_POWER_DOWN, STA_POWER_ON

LEMMA DpyFences == \E p : FencesOf("dpy", p)
<1> DEFINE a == En({0, 5, 23, 26})
           b == En1(10..17)
           c == En({1, 2, 3, 4, 10, 11, 21, 22})
<1>0. a \in SUBSET Bit /\ b \in SUBSET Bit /\ c \in SUBSET Bit
  BY FencesAreBits
<1>1. /\ ctrl_bus_prot("dpy", STA_POWER_DOWN) = Fence(a) \o Fence(b) \o Fence(c)
      /\ ctrl_bus_prot("dpy", STA_POWER_ON) = Open(c) \o Open(a) \o Open(b)
  BY DEF ctrl_bus_prot, dpy_bus_prot, STA_POWER_DOWN, STA_POWER_ON
<1>2. RamByBus("dpy") = {}
  BY DEF RamByBus, RamWithPower
<1> HIDE DEF a, b, c
<1>3. FenceAndOpen(Fence(a) \o Fence(b) \o Fence(c), Open(c) \o Open(a) \o Open(b), {}, a \cup b \cup c)
  BY <1>0, ThreeFences
<1> QED BY <1>1, <1>2, <1>3 DEF FencesOf

LEMMA DisFences == \E p : FencesOf("dis", p)
<1> DEFINE a == En1({19, 20, 30, 31})
           b == En1({16, 17})
           c == En({10, 11})
           d == En({1, 2})
<1>0. a \in SUBSET Bit /\ b \in SUBSET Bit /\ c \in SUBSET Bit /\ d \in SUBSET Bit
  BY FencesAreBits
<1>1. /\ ctrl_bus_prot("dis", STA_POWER_DOWN) = Fence(a) \o Fence(b) \o Fence(c) \o Fence(d) \o SramDown(1)
      /\ ctrl_bus_prot("dis", STA_POWER_ON) = SramUp(1) \o Open(d) \o Open(c) \o Open(b) \o Open(a)
  BY DEF ctrl_bus_prot, dis_bus_prot, STA_POWER_DOWN, STA_POWER_ON
<1>2. RamByBus("dis") = Banks(1)
  BY DEF RamByBus, RamWithPower, Rams
<1> HIDE DEF a, b, c, d
<1>3. FenceAndOpen(Fence(a) \o Fence(b) \o Fence(c) \o Fence(d) \o SramDown(1),
                   SramUp(1) \o Open(d) \o Open(c) \o Open(b) \o Open(a), Banks(1), a \cup b \cup c \cup d)
  <2>1. ASSUME NEW n \in 0..4
        PROVE  FenceAndOpen(Fence(a) \o Fence(b) \o Fence(c) \o Fence(d) \o SramDown(n),
                   SramUp(n) \o Open(d) \o Open(c) \o Open(b) \o Open(a), Banks(n), a \cup b \cup c \cup d)
    BY <1>0, FencesAndRam
  <2>2. 1 \in 0..4
    OBVIOUS
  <2> QED BY <2>1, <2>2
<1> QED BY <1>1, <1>2, <1>3 DEF FencesOf

LEMMA CamFences == \E p : FencesOf("cam", p)
<1> DEFINE a == En1({19, 21})
           b == En({20})
           c == Smi({3})
<1>0. a \in SUBSET Bit /\ b \in SUBSET Bit /\ c \in SUBSET Bit
  BY FencesAreBits
<1>1. /\ ctrl_bus_prot("cam", STA_POWER_DOWN) = Fence(a) \o Fence(b) \o Fence(c) \o SramDown(2)
      /\ ctrl_bus_prot("cam", STA_POWER_ON) = SramUp(2) \o Open(b) \o Open(c) \o Open(a)
  BY DEF ctrl_bus_prot, cam_bus_prot, STA_POWER_DOWN, STA_POWER_ON
<1>2. RamByBus("cam") = Banks(2)
  BY DEF RamByBus, RamWithPower, Rams
<1> HIDE DEF a, b, c
<1>3. FenceAndOpen(Fence(a) \o Fence(b) \o Fence(c) \o SramDown(2),
                   SramUp(2) \o Open(b) \o Open(c) \o Open(a), Banks(2), a \cup b \cup c)
  <2>1. ASSUME NEW n \in 0..4
        PROVE  FenceAndOpen(Fence(a) \o Fence(b) \o Fence(c) \o SramDown(n),
                   SramUp(n) \o Open(b) \o Open(c) \o Open(a), Banks(n), a \cup b \cup c)
    BY <1>0, FencesAndRam
  <2>2. 2 \in 0..4
    OBVIOUS
  <2> QED BY <2>1, <2>2
<1> QED BY <1>1, <1>2, <1>3 DEF FencesOf

LEMMA PairedFences == ASSUME NEW d \in {"mfg", "isp", "ven", "vde"} PROVE \E p : FencesOf(d, p)
<1> DEFINE Paired(p, q) ==
      /\ ctrl_bus_prot(d, STA_POWER_DOWN) = Fence(p) \o Fence(q) \o SramDown(1)
      /\ ctrl_bus_prot(d, STA_POWER_ON) = SramUp(1) \o Open(q) \o Open(p)
<1>1. RamByBus(d) = Banks(1)
  BY DEF RamByBus, RamWithPower, Rams
<1>2. \/ Paired(En({25}), En({21, 22})) \/ Paired(En1({20}), Smi({2}))
      \/ Paired(En1({31}), Smi({4})) \/ Paired(En1({30}), Smi({1}))
  <2> USE DEF ctrl_bus_prot, STA_POWER_DOWN, STA_POWER_ON
  <2>1. d = "mfg" => Paired(En({25}), En({21, 22}))
    BY DEF mfg_bus_prot
  <2>2. d = "isp" => Paired(En1({20}), Smi({2}))
    BY DEF isp_bus_prot
  <2>3. d = "ven" => Paired(En1({31}), Smi({4}))
    BY DEF ven_bus_prot
  <2>4. d = "vde" => Paired(En1({30}), Smi({1}))
    BY DEF vde_bus_prot
  <2> QED BY <2>1, <2>2, <2>3, <2>4
<1>3. \E p \in SUBSET Bit : \E q \in SUBSET Bit : Paired(p, q)
  <2> HIDE DEF Paired
  <2> QED BY <1>2, FencesAreBits
<1>4. PICK p \in SUBSET Bit : \E q \in SUBSET Bit : Paired(p, q)
  BY <1>3
<1>5. PICK q \in SUBSET Bit : Paired(p, q)
  BY <1>4
<1>6. FenceAndOpen(Fence(p) \o Fence(q) \o SramDown(1), SramUp(1) \o Open(q) \o Open(p), Banks(1), p \cup q)
  BY TwoFences
<1> QED BY <1>1, <1>5, <1>6 DEF FencesOf

LEMMA NoFences == ASSUME NEW d \in {"ifr", "core0", "core1", "async"} PROVE FencesOf(d, {})
<1>1. RamByBus(d) = {}
  BY TheBanks DEF RamByBus, RamWithPower, Rams
<1>2. ctrl_bus_prot(d, STA_POWER_DOWN) = << >> /\ ctrl_bus_prot(d, STA_POWER_ON) = << >>
  BY DEF ctrl_bus_prot
<1>3. Effect(<< >>, {}, {}, {}, {})
  BY NoStep DEF Effect
<1> QED BY <1>1, <1>2, <1>3 DEF FencesOf, FenceAndOpen

LEMMA BusEffect == ASSUME NEW d \in Domains PROVE FencesOf(d, Bits(d))
<1>1. \E p : FencesOf(d, p)
  BY ModemFences, ConnFences, DpyFences, DisFences, CamFences, PairedFences, NoFences DEF Domains
<1>2. PICK p : FencesOf(d, p)
  BY <1>1
<1>3. p = Bits(d)
  BY <1>2 DEF FencesOf, FenceAndOpen, Effect, Bits
<1> QED BY <1>2, <1>3
-----------------------------------------------------------------------------
(* What the invariant says of the call in progress.                         *)

LEMMA JobShape ==
  ASSUME IInv, job.kind # "none"
  PROVE  /\ job # Idle /\ job.kind \in {"init", "prepare", "unprepare"}
         /\ job.steps \in Seq(Steps) /\ Gate \in Domains
         /\ job.kind = "init" => /\ Gate = "md1" /\ job.gates = <<"md1">>
                                 /\ job \in [kind : {"init"}, steps : Seq(Steps), gates : {<<"md1">>}]
         /\ job.kind # "init" =>
              /\ job \in [kind : {"prepare", "unprepare"}, gates : Seq(Domains), stage : {"enter", "power", "bus"},
                           steps : Seq(Steps), skip : BOOLEAN, err1 : BOOLEAN, err3 : BOOLEAN, user : Domains]
              /\ job.gates # << >>
<1>1. job \in Jobs /\ job # Idle
  BY DEF IInv, Types, Idle
<1>2. CASE job \in [kind : {"init"}, steps : Seq(Steps), gates : {<<"md1">>}]
  BY <1>1, <1>2 DEF Gate, Domains
<1>3. CASE job \in [kind : {"prepare", "unprepare"}, gates : Seq(Domains), stage : {"enter", "power", "bus"},
                     steps : Seq(Steps), skip : BOOLEAN, err1 : BOOLEAN, err3 : BOOLEAN, user : Domains]
  <2>1. CASE job.kind = "prepare"
    <3>1. job.gates \in PathTo(job.user)
      BY <2>1 DEF IInv, PrepareGoesOn
    <3>2. job.gates # << >> /\ 1 \in DOMAIN job.gates /\ Head(job.gates) = job.gates[1]
      BY <3>1 DEF PathTo
    <3>3. Gate \in Domains
      BY <1>3, <3>2 DEF Gate
    <3> QED BY <1>1, <1>3, <2>1, <3>2, <3>3
  <2>2. CASE job.kind = "unprepare"
    <3>1. Gate \in Domains /\ job.gates = <<Gate>>
      BY <2>2 DEF IInv, UnprepareGoesOn
    <3>2. job.gates # << >>
      BY <3>1
    <3> QED BY <1>1, <1>3, <2>2, <3>1, <3>2
  <2> QED BY <1>3, <2>1, <2>2
<1> QED BY <1>1, <1>2, <1>3 DEF Jobs

-----------------------------------------------------------------------------
(* A step of a sequence.                                                    *)

LEMMA TailDone ==
  ASSUME NEW s \in Seq(Steps), s # << >>, NEW what
  PROVE  Done(s, what) = (IF s[1][1] = what THEN s[1][2] ELSE {}) \cup Done(Tail(s), what)
<1> DEFINE t == Tail(s)
<1>1. DOMAIN t = 1..(Len(s) - 1) /\ (\A i \in 1..(Len(s) - 1) : t[i] = s[i + 1]) /\ 1 \in DOMAIN s /\ Len(s) \in Nat
  BY TailAt
<1> HIDE DEF t
<1>2. ASSUME NEW b, b \in Done(s, what)
      PROVE  b \in (IF s[1][1] = what THEN s[1][2] ELSE {}) \cup Done(t, what)
  <2>1. PICK i \in DOMAIN s : s[i][1] = what /\ b \in s[i][2]
    BY <1>2, InDone
  <2>2. CASE i = 1
    BY <2>1, <2>2
  <2>3. CASE i # 1
    <3>1. i - 1 \in 1..(Len(s) - 1) /\ (i - 1) + 1 = i
      BY <2>1, <2>3
    <3>2. i - 1 \in DOMAIN t /\ t[i - 1] = s[i]
      BY <1>1, <3>1
    <3> QED BY <2>1, <3>2, InDone
  <2> QED BY <2>2, <2>3
<1>3. ASSUME NEW b, b \in Done(t, what)
      PROVE  b \in Done(s, what)
  <2>1. PICK i \in DOMAIN t : t[i][1] = what /\ b \in t[i][2]
    BY <1>3, InDone
  <2>2. i + 1 \in DOMAIN s /\ s[i + 1] = t[i]
    BY <1>1
  <2> QED BY <2>1, <2>2, InDone
<1>4. ASSUME NEW b, s[1][1] = what, b \in s[1][2]
      PROVE  b \in Done(s, what)
  BY <1>1, <1>4, InDone
<1> QED BY <1>2, <1>3, <1>4 DEF t

\* What one step changes.
LEMMA StepChanges ==
  ASSUME IInv, RunStep
  PROVE  /\ job.kind # "none" /\ job.steps # << >> /\ job.steps \in Seq(Steps) /\ Gate \in Domains
         /\ Step1 = job.steps[1] /\ Step1 \in Steps
         /\ job' # Idle /\ job.kind' = job.kind /\ job.gates' = job.gates /\ Gate' = Gate
         /\ job.steps' = Tail(job.steps) /\ job.steps' \in Seq(Steps)
         /\ job.kind # "init" => /\ job.stage' = job.stage /\ job.skip' = job.skip /\ job.user' = job.user
                                 /\ job.err1' = job.err1 /\ job.err3' = job.err3
         /\ job' \in Jobs
         /\ con' \in [Domains -> SUBSET Bit]
         /\ \A d \in Domains \ {Gate} : con'[d] = con[d]
         /\ con'[Gate] = (con[Gate] \cup (IF Step1[1] = "set" THEN Step1[2] ELSE {}))
                             \ (IF Step1[1] = "clr" THEN Step1[2] ELSE {})
         /\ prot' = (prot \cup (IF Step1[1] = "fence" THEN Step1[2] ELSE {}))
                       \ (IF Step1[1] = "open" THEN Step1[2] ELSE {})
<1>1. job.kind # "none" /\ job.steps # << >> /\ job' = [job EXCEPT !.steps = Tail(job.steps)]
  BY DEF RunStep
<1>2. job.steps \in Seq(Steps) /\ Gate \in Domains
  BY <1>1, JobShape
<1>3. Step1 = job.steps[1] /\ Step1 \in Steps /\ Tail(job.steps) \in Seq(Steps)
  BY <1>1, <1>2, TailAt DEF Step1
<1>4. /\ job' # Idle /\ job.kind' = job.kind /\ job.gates' = job.gates /\ job.steps' = Tail(job.steps) /\ job' \in Jobs
      /\ job.kind # "init" => /\ job.stage' = job.stage /\ job.skip' = job.skip /\ job.user' = job.user
                              /\ job.err1' = job.err1 /\ job.err3' = job.err3
  <2>1. CASE job.kind = "init"
    <3>1. job \in [kind : {"init"}, steps : Seq(Steps), gates : {<<"md1">>}]
      BY <1>1, <2>1, JobShape
    <3> QED BY <1>1, <1>3, <2>1, <3>1 DEF Jobs, Idle
  <2>2. CASE job.kind # "init"
    <3>1. job \in [kind : {"prepare", "unprepare"}, gates : Seq(Domains), stage : {"enter", "power", "bus"},
                   steps : Seq(Steps), skip : BOOLEAN, err1 : BOOLEAN, err3 : BOOLEAN, user : Domains]
      BY <1>1, <2>2, JobShape
    <3> QED BY <1>1, <1>3, <2>2, <3>1 DEF Jobs, Idle
  <2> QED BY <2>1, <2>2
<1>5. Gate' = Gate
  BY <1>4 DEF Gate
<1>6. con \in [Domains -> SUBSET Bit] /\ prot \subseteq Bit
  BY DEF IInv, Types
<1>7. Step1[2] \in SUBSET Bit
  BY <1>3 DEF Steps
<1>8. con' = CASE Step1[1] = "set" -> [con EXCEPT ![Gate] = con[Gate] \cup Step1[2]]
              [] Step1[1] = "clr" -> [con EXCEPT ![Gate] = con[Gate] \ Step1[2]]
              [] OTHER -> con
  BY DEF RunStep
<1>9. /\ con' \in [Domains -> SUBSET Bit]
      /\ \A d \in Domains \ {Gate} : con'[d] = con[d]
      /\ con'[Gate] = (con[Gate] \cup (IF Step1[1] = "set" THEN Step1[2] ELSE {}))
                             \ (IF Step1[1] = "clr" THEN Step1[2] ELSE {})
  <2>1. CASE Step1[1] = "set"
    <3>1. con' = [con EXCEPT ![Gate] = con[Gate] \cup Step1[2]]
      BY <1>8, <2>1
    <3> QED BY <1>2, <1>6, <1>7, <2>1, <3>1
  <2>2. CASE Step1[1] = "clr"
    <3>1. con' = [con EXCEPT ![Gate] = con[Gate] \ Step1[2]]
      BY <1>8, <2>2
    <3> QED BY <1>2, <1>6, <1>7, <2>2, <3>1
  <2>3. CASE Step1[1] # "set" /\ Step1[1] # "clr"
    <3>1. con' = con
      BY <1>8, <2>3
    <3> QED BY <1>2, <1>6, <1>7, <2>3, <3>1
  <2> QED BY <2>1, <2>2, <2>3
<1>10. prot' = (prot \cup (IF Step1[1] = "fence" THEN Step1[2] ELSE {}))
                       \ (IF Step1[1] = "open" THEN Step1[2] ELSE {})
  BY DEF RunStep
<1> QED BY <1>1, <1>2, <1>3, <1>4, <1>5, <1>9, <1>10

\* What is still to be done shrinks, and a step does what it is for.
LEMMA StepIs ==
  ASSUME IInv, RunStep, NEW what \in {"set", "clr", "fence", "open"}, NEW b
  PROVE  /\ Done(job.steps, what) = (IF Step1[1] = what THEN Step1[2] ELSE {}) \cup Done(job.steps', what)
         /\ Step1[1] = what /\ b \in Step1[2] => Is(what, b)'
         /\ Is(what, b) /\ ~(Step1[1] = Undoes(what) /\ b \in Step1[2]) => Is(what, b)'
<1>1. Done(job.steps, what) = (IF Step1[1] = what THEN Step1[2] ELSE {}) \cup Done(job.steps', what)
  BY StepChanges, TailDone
<1>2. /\ Gate' = Gate
      /\ con'[Gate] = (con[Gate] \cup (IF Step1[1] = "set" THEN Step1[2] ELSE {}))
                             \ (IF Step1[1] = "clr" THEN Step1[2] ELSE {})
      /\ prot' = (prot \cup (IF Step1[1] = "fence" THEN Step1[2] ELSE {}))
                       \ (IF Step1[1] = "open" THEN Step1[2] ELSE {})
  BY StepChanges
<1>3. /\ Step1[1] = what /\ b \in Step1[2] => Is(what, b)'
      /\ Is(what, b) /\ ~(Step1[1] = Undoes(what) /\ b \in Step1[2]) => Is(what, b)'
  <2>1. CASE what = "set"
    BY <1>2, <2>1 DEF Is, Undoes
  <2>2. CASE what = "clr"
    BY <1>2, <2>2 DEF Is, Undoes
  <2>3. CASE what = "fence"
    BY <1>2, <2>3 DEF Is, Undoes
  <2>4. CASE what = "open"
    BY <1>2, <2>4 DEF Is, Undoes
  <2> QED BY <2>1, <2>2, <2>3, <2>4
<1> QED BY <1>1, <1>3

LEMMA StepComes ==
  ASSUME IInv, RunStep, NEW what \in {"set", "clr", "fence", "open"}, NEW b, Comes(what, b)
  PROVE  Comes(what, b)'
<1>1. Undoes(what) \in {"set", "clr", "fence", "open"}
  BY DEF Undoes
<1>2. Done(job.steps, Undoes(what)) = (IF Step1[1] = Undoes(what) THEN Step1[2] ELSE {}) \cup Done(job.steps', Undoes(what))
  BY <1>1, StepIs
<1>3. Done(job.steps, what) = (IF Step1[1] = what THEN Step1[2] ELSE {}) \cup Done(job.steps', what)
  BY StepIs
<1>4. b \notin Done(job.steps', Undoes(what)) /\ ~(Step1[1] = Undoes(what) /\ b \in Step1[2])
  BY <1>2 DEF Comes
<1>5. Is(what, b)' \/ b \in Done(job.steps', what)
  <2>1. CASE Is(what, b)
    BY <1>4, <2>1, StepIs
  <2>2. CASE b \in Done(job.steps, what)
    BY <1>3, <2>2, StepIs
  <2> QED BY <2>1, <2>2 DEF Comes
<1> QED BY <1>4, <1>5 DEF Comes

LEMMA StepNever ==
  ASSUME IInv, RunStep, NEW kinds \in SUBSET {"set", "clr", "fence", "open"}, Never(kinds)
  PROVE  Never(kinds)'
<1>1. ASSUME NEW k \in kinds
      PROVE  Done(job.steps', k) = {}
  <2>1. Done(job.steps, k) = {} /\ k \in {"set", "clr", "fence", "open"}
    BY DEF Never
  <2>2. Done(job.steps, k) = (IF Step1[1] = k THEN Step1[2] ELSE {}) \cup Done(job.steps', k)
    BY <2>1, StepIs
  <2> QED BY <2>1, <2>2
<1> QED BY <1>1 DEF Never

LEMMA StepLed == ASSUME IInv, RunStep PROVE WaitsAreLed'
<1> DEFINE s == job.steps
           t == job.steps'
<1>1. /\ s \in Seq(Steps) /\ s # << >> /\ t = Tail(s) /\ s[1] = Step1 /\ job.kind # "none"
  BY StepChanges
<1>2. DOMAIN t = 1..(Len(s) - 1) /\ (\A i \in 1..(Len(s) - 1) : t[i] = s[i + 1]) /\ Len(s) \in Nat
  BY <1>1, TailAt
<1> SUFFICES ASSUME NEW i \in DOMAIN t, t[i][1] \in Waits, NEW b \in Asked(t[i]), NEW what, what = AskedTo(t[i])
             PROVE  /\ b \notin Done(t, Undoes(what))
                    /\ \/ Is(what, b)'
                       \/ \E j \in 1..(i - 1) : t[j][1] = what /\ b \in t[j][2]
  BY DEF WaitsAreLed, Is
<1>3. i \in 1..(Len(s) - 1) /\ i + 1 \in DOMAIN s /\ s[i + 1] = t[i]
  BY <1>1, <1>2
<1>4. what \in {"set", "clr", "fence", "open"} /\ Undoes(what) \in {"set", "clr", "fence", "open"}
  BY DEF AskedTo, Undoes
<1>5. /\ b \notin Done(s, Undoes(what))
      /\ \/ Is(what, b)
         \/ \E j \in 1..((i + 1) - 1) : s[j][1] = what /\ b \in s[j][2]
  BY <1>1, <1>3 DEF IInv, WaitsAreLed
<1> HIDE DEF s, t
<1>6. Done(s, Undoes(what)) = (IF Step1[1] = Undoes(what) THEN Step1[2] ELSE {}) \cup Done(t, Undoes(what))
  BY <1>4, StepIs DEF s, t
<1>7. b \notin Done(t, Undoes(what)) /\ ~(Step1[1] = Undoes(what) /\ b \in Step1[2])
  BY <1>5, <1>6
<1>8. CASE Is(what, b)
  <2>1. Is(what, b)'
    BY <1>4, <1>7, <1>8, StepIs
  <2> QED BY <1>7, <2>1
<1>9. CASE \E j \in 1..((i + 1) - 1) : s[j][1] = what /\ b \in s[j][2]
  <2>1. PICK j \in 1..((i + 1) - 1) : s[j][1] = what /\ b \in s[j][2]
    BY <1>9
  <2>2. CASE j = 1
    <3>1. Is(what, b)'
      BY <1>1, <1>4, <2>1, <2>2, StepIs DEF s
    <3> QED BY <1>7, <3>1
  <2>3. CASE j # 1
    <3>1. j - 1 \in 1..(i - 1) /\ j - 1 \in 1..(Len(s) - 1) /\ (j - 1) + 1 = j
      BY <1>2, <1>3, <2>3
    <3>2. t[j - 1] = s[j]
      BY <1>2, <3>1
    <3> QED BY <1>7, <2>1, <3>1, <3>2
  <2> QED BY <2>2, <2>3
<1> QED BY <1>5, <1>8, <1>9

\* The sequence under way is one of five, and its gate is at work.
LEMMA Phase ==
  ASSUME IInv, job.kind # "none", job.steps # << >>
  PROVE  /\ \A d : Busy(d) <=> d = Gate
         /\ job.kind # "init" => job.stage # "enter" /\ ~job.skip
         /\ \/ job.kind = "init"
            \/ job.kind = "prepare" /\ job.stage = "power" /\ PowerComes
            \/ job.kind = "prepare" /\ job.stage = "bus" /\ BusComes
            \/ job.kind = "unprepare" /\ job.stage = "bus" /\ FenceComes
            \/ job.kind = "unprepare" /\ job.stage = "power" /\ PowerGoes
<1>1. job # Idle /\ job.kind \in {"init", "prepare", "unprepare"}
      /\ (job.kind # "init" => job.stage \in {"enter", "power", "bus"})
  BY JobShape
<1>2. CASE job.kind = "init"
  BY <1>1, <1>2 DEF Busy
<1>3. CASE job.kind = "prepare"
  BY <1>1, <1>3 DEF IInv, PrepareGoesOn, Busy
<1>4. CASE job.kind = "unprepare"
  BY <1>1, <1>4 DEF IInv, UnprepareGoesOn, Busy
<1> QED BY <1>1, <1>2, <1>3, <1>4

\* What a step may set, fence, open and clear.
LEMMA StepLimits ==
  ASSUME IInv, RunStep
  PROVE  /\ Step1[1] = "set" => Step1[2] \cap Banks(4) \subseteq Banks(Rams(Gate))
         /\ Step1[1] = "fence" => Step1[2] \subseteq Bits(Gate)
         /\ Step1[1] = "open" => Step1[2] \subseteq Bits(Gate) /\ (Step1[2] = {} \/ Up(Gate))
         /\ Step1[1] = "clr" /\ Step1[2] \cap {"on", "on2nd"} # {} =>
              \/ job.kind = "init"
              \/ job.kind = "unprepare" /\ job.stage = "power"
<1> DEFINE s == job.steps
<1>1. \A what \in {"set", "clr", "fence", "open"} : Step1[1] = what => Step1[2] \subseteq Done(s, what)
  BY StepIs
<1>2. job.kind # "none" /\ job.steps # << >>
  BY StepChanges
<1> HIDE DEF s
<1>3. CASE job.kind = "init"
  <2>1. Done(s, "fence") = {} /\ Done(s, "open") = {} /\ Done(s, "set") \cap Banks(4) \subseteq Banks(1)
    BY <1>3 DEF IInv, InitGoesOn, Never, s
  <2>2. Rams(Gate) = 1
    BY <1>2, <1>3, JobShape DEF Rams
  <2>3. Step1[1] = "set" => Step1[2] \cap Banks(4) \subseteq Banks(Rams(Gate))
    <3>1. Step1[1] = "set" => Step1[2] \subseteq Done(s, "set")
      BY <1>1
    <3> QED BY <2>1, <2>2, <3>1
  <2> QED BY <1>1, <1>3, <2>1, <2>3 DEF s
<1>4. CASE job.kind = "prepare" /\ job.stage = "power" /\ PowerComes
  <2>1. Done(s, "fence") = {} /\ Done(s, "open") = {} /\ Done(s, "set") \cap Banks(4) = {}
        /\ "on" \notin Done(s, "clr") /\ "on2nd" \notin Done(s, "clr")
    BY <1>4 DEF PowerComes, Never, Comes, Undoes, s
  <2> QED BY <1>1, <2>1 DEF s
<1>5. CASE job.kind = "prepare" /\ job.stage = "bus" /\ BusComes
  <2>1. Done(s, "fence") = {} /\ Done(s, "set") = {} /\ Up(Gate) /\ Done(s, "clr") \subseteq Banks(4)
        /\ Done(s, "open") \subseteq Bits(Gate)
    BY <1>5 DEF BusComes, Never, s
  <2>2. "on" \notin Banks(4) /\ "on2nd" \notin Banks(4)
    BY TheBanks
  <2> QED BY <1>1, <2>1, <2>2 DEF s
<1>6. CASE job.kind = "unprepare" /\ job.stage = "bus" /\ FenceComes
  <2>1. Done(s, "clr") = {} /\ Done(s, "open") = {} /\ Done(s, "set") \subseteq Banks(Rams(Gate))
        /\ Done(s, "fence") \subseteq Bits(Gate)
    BY <1>6 DEF FenceComes, Never, s
  <2> QED BY <1>1, <2>1 DEF s
<1>7. CASE job.kind = "unprepare" /\ job.stage = "power" /\ PowerGoes
  <2>1. Done(s, "fence") = {} /\ Done(s, "open") = {} /\ Done(s, "set") \cap Banks(4) \subseteq Banks(Rams(Gate))
    BY <1>7 DEF PowerGoes, Never, s
  <2> QED BY <1>1, <1>7, <2>1 DEF s
<1> QED BY <1>2, <1>3, <1>4, <1>5, <1>6, <1>7, Phase

LEMMA StepTypes == ASSUME IInv, RunStep PROVE Types'
<1>1. /\ prot \subseteq Bit /\ clks \in [Clocks -> Nat] /\ count \in [Domains -> Nat]
      /\ held \subseteq Domains /\ told \subseteq {d \in Domains : HasBus(d)}
      /\ \A d \in Domains : con[d] \cap Banks(4) \subseteq Banks(Rams(d))
  BY DEF IInv, Types
<1>2. UNCHANGED <<clks, count, held, told>>
  BY DEF RunStep
<1>3. Step1 \in Steps /\ Gate \in Domains /\ con' \in [Domains -> SUBSET Bit] /\ job' \in Jobs
  BY StepChanges
<1>4. prot' \subseteq Bit
  <2>1. Step1[2] \subseteq Bit
    BY <1>3 DEF Steps
  <2>2. prot' = (prot \cup (IF Step1[1] = "fence" THEN Step1[2] ELSE {})) \ (IF Step1[1] = "open" THEN Step1[2] ELSE {})
    BY StepChanges
  <2> QED BY <1>1, <2>1, <2>2
<1>5. \A d \in Domains : con'[d] \cap Banks(4) \subseteq Banks(Rams(d))
  <2> TAKE d \in Domains
  <2>1. CASE d = Gate
    <3>1. con'[Gate] = (con[Gate] \cup (IF Step1[1] = "set" THEN Step1[2] ELSE {})) \ (IF Step1[1] = "clr" THEN Step1[2] ELSE {})
      BY StepChanges
    <3>2. Step1[1] = "set" => Step1[2] \cap Banks(4) \subseteq Banks(Rams(Gate))
      BY StepLimits
    <3> QED BY <1>1, <2>1, <3>1, <3>2
  <2>2. CASE d # Gate
    <3>1. con'[d] = con[d]
      BY <2>2, StepChanges
    <3> QED BY <1>1, <3>1
  <2> QED BY <2>1, <2>2
<1> QED BY <1>1, <1>2, <1>3, <1>4, <1>5 DEF Types

\* The other domains neither notice nor are fenced off by it.
LEMMA StepOthers ==
  ASSUME IInv, RunStep
  PROVE  /\ \A d : (Busy(d) <=> d = Gate) /\ (Busy(d)' <=> d = Gate)
         /\ \A d \in Domains \ {Gate} : (Powered(d)' <=> Powered(d)) /\ (Up(d)' <=> Up(d)) /\ (Clean(d)' <=> Clean(d))
<1>1. job.kind # "none" /\ job.steps # << >> /\ job' # Idle /\ job.kind' = job.kind /\ Gate' = Gate
      /\ (job.kind # "init" => job.stage' = job.stage /\ job.skip' = job.skip)
      /\ \A d \in Domains \ {Gate} : con'[d] = con[d]
  BY StepChanges
<1>2. (\A d : Busy(d) <=> d = Gate) /\ (job.kind # "init" => job.stage # "enter" /\ ~job.skip)
  BY <1>1, Phase
<1>3. \A d : Busy(d)' <=> d = Gate
  BY <1>1, <1>2 DEF Busy
<1>4. \A d \in Domains \ {Gate} : (Powered(d)' <=> Powered(d)) /\ (Up(d)' <=> Up(d)) /\ (Clean(d)' <=> Clean(d))
  BY <1>1 DEF Clean, Up, Powered
<1> QED BY <1>2, <1>3, <1>4

LEMMA StepRest == ASSUME IInv, RunStep PROVE RestIsClean'
<1> SUFFICES ASSUME NEW d \in Domains, Powered(d)', ~Busy(d)'
             PROVE  Clean(d)' /\ Reached(d)'
  BY DEF RestIsClean
<1>1. d # Gate /\ Powered(d) /\ ~Busy(d) /\ Gate \in Domains
  BY StepOthers, StepChanges
<1>2. Clean(d) /\ Reached(d)
  BY <1>1 DEF IInv, RestIsClean
<1>3. Reached(d)'
  <2> SUFFICES ASSUME NEW b \in Bits(d), b \in prot'
               PROVE  \E e \in Domains \ {d} : b \in Bits(e) /\ (~Up(e)' \/ Busy(e)')
    BY DEF Reached, Bits, Done
  <2>1. CASE b \in prot
    <3>1. PICK e \in Domains \ {d} : b \in Bits(e) /\ (~Up(e) \/ Busy(e))
      BY <1>2, <2>1 DEF Reached
    <3>2. ~Up(e)' \/ Busy(e)'
      BY <3>1, StepOthers
    <3> QED BY <3>1, <3>2
  <2>2. CASE b \notin prot
    <3>1. b \in Bits(Gate)
      BY <2>2, StepChanges, StepLimits
    <3>2. PICK g \in Domains : g = Gate
      BY <1>1
    <3>3. Busy(g)'
      BY <3>2, StepOthers
    <3> QED BY <1>1, <3>1, <3>2, <3>3
  <2> QED BY <2>1, <2>2
<1> QED BY <1>1, <1>2, <1>3, StepOthers

LEMMA StepCounts == ASSUME IInv, RunStep PROVE Counted' /\ CountedIsOn' /\ ClocksRun'
<1>1. /\ UNCHANGED <<clks, count, held, told>> /\ job.kind' = job.kind /\ Gate' = Gate /\ job.kind # "none"
      /\ job.kind # "init" => job.stage' = job.stage /\ job.err1' = job.err1
  BY StepChanges DEF RunStep
<1>2. \A d : Holds(d)' <=> Holds(d)
  BY <1>1 DEF Holds
<1>3. Counted'
  <2>1. \A d : Load(d)' = Load(d)
    BY <1>1, <1>2 DEF Load, One
  <2> QED BY <1>1, <2>1 DEF IInv, Counted
<1>4. CountedIsOn'
  <2> SUFFICES ASSUME NEW d \in Domains, count[d] > 0 \/ d \in told
               PROVE  Powered(d)' /\ ~Busy(d)'
    BY <1>1 DEF CountedIsOn
  <2>1. Powered(d) /\ ~Busy(d)
    BY DEF IInv, CountedIsOn
  <2> QED BY <2>1, StepOthers
<1>5. ClocksRun'
  <2>1. job.kind \in {"init", "prepare", "unprepare"}
    BY <1>1, JobShape
  <2>2. \A d : Needs(d)' <=> Needs(d)
    BY <1>1, <2>1 DEF Needs
  <2> QED BY <1>1, <2>2 DEF IInv, ClocksRun
<1> QED BY <1>3, <1>4, <1>5

LEMMA StepOff == ASSUME IInv, RunStep PROVE OffIsFenced'
<1> SUFFICES ASSUME NEW d \in Domains, ~Powered(d)', ~(d = "md1" /\ bare'), NEW b \in Bits(d), b \notin prot'
             PROVE  \E e \in Domains \ {d} : Powered(e)' /\ b \in Bits(e)
  BY DEF OffIsFenced, Bits, Done
<1>1. bare' = bare /\ Gate \in Domains /\ job.kind # "none" /\ job.steps # << >>
  BY StepChanges DEF RunStep
<1>2. /\ con'[Gate] = (con[Gate] \cup (IF Step1[1] = "set" THEN Step1[2] ELSE {})) \ (IF Step1[1] = "clr" THEN Step1[2] ELSE {})
      /\ prot' = (prot \cup (IF Step1[1] = "fence" THEN Step1[2] ELSE {})) \ (IF Step1[1] = "open" THEN Step1[2] ELSE {})
  BY StepChanges
<1>3. \A e \in Domains : Powered(e) /\ ~Powered(e)' =>
        e = Gate /\ (job.kind = "init" \/ (job.kind = "unprepare" /\ job.stage = "power"))
  <2> TAKE e \in Domains
  <2> HAVE Powered(e) /\ ~Powered(e)'
  <2>1. e = Gate
    BY StepOthers
  <2>2. Step1[1] = "clr" /\ Step1[2] \cap {"on", "on2nd"} # {}
    BY <1>2, <2>1 DEF Powered
  <2> QED BY <2>1, <2>2, StepLimits
\* what the domain whose power goes shares with the others is fenced
<1>4. CASE job.kind = "init"
  <2>1. Gate = "md1" /\ bare
    BY <1>1, <1>4, JobShape DEF IInv, InitGoesOn
  <2>2. d # "md1" /\ ~Powered(d)
    BY <1>1, <2>1, StepOthers
  <2>3. prot' = prot
    <3>2. Done(job.steps, "fence") = {} /\ Done(job.steps, "open") = {}
      BY <1>4 DEF IInv, InitGoesOn, Never
    <3>3. (Step1[1] = "fence" => Step1[2] = {}) /\ (Step1[1] = "open" => Step1[2] = {})
      BY <3>2, StepIs
    <3> QED BY <1>2, <3>3
  <2>4. b \in prot \/ \E e \in Domains \ {d, "md1"} : Powered(e) /\ b \in Bits(e)
    BY <1>4, <2>2 DEF IInv, InitGoesOn
  <2> QED BY <2>1, <2>3, <2>4, StepOthers
<1>5. CASE job.kind = "unprepare" /\ job.stage = "power"
  <2>1. Bits(Gate) \subseteq prot /\ Done(job.steps, "fence") = {} /\ Done(job.steps, "open") = {}
    BY <1>5 DEF IInv, UnprepareGoesOn, PowerGoes, Never
  <2>2. prot' = prot
    <3>1. (Step1[1] = "fence" => Step1[2] = {}) /\ (Step1[1] = "open" => Step1[2] = {})
      BY <2>1, StepIs
    <3> QED BY <1>2, <3>1
  <2>3. b \notin Bits(Gate) /\ b \notin prot /\ d # Gate
    BY <2>1, <2>2
  <2>4. ~Powered(d)
    BY <2>3, StepOthers
  <2>5. PICK e \in Domains \ {d} : Powered(e) /\ b \in Bits(e)
    BY <1>1, <2>3, <2>4 DEF IInv, OffIsFenced
  <2> QED BY <2>3, <2>5, StepOthers
<1>6. CASE job.kind # "init" /\ ~(job.kind = "unprepare" /\ job.stage = "power")
  <2>1. ~Powered(d)
    BY <1>3, <1>6
  <2>2. b \in prot \/ \E e \in Domains \ {d} : Powered(e) /\ b \in Bits(e)
    BY <1>1, <2>1 DEF IInv, OffIsFenced
  <2>3. CASE b \in prot
    <3>1. Step1[1] = "open" /\ b \in Step1[2]
      BY <1>2, <2>3
    <3>2. b \in Bits(Gate) /\ Up(Gate)
      BY <3>1, StepLimits
    <3>3. PICK g \in Domains : g = Gate
      BY <1>1
    <3>4. Powered(g)'
      BY <1>3, <1>6, <3>2, <3>3 DEF Up
    <3> QED BY <3>2, <3>3, <3>4
  <2>4. CASE \E e \in Domains \ {d} : Powered(e) /\ b \in Bits(e)
    BY <1>3, <1>6, <2>4
  <2> QED BY <2>2, <2>3, <2>4
<1> QED BY <1>4, <1>5, <1>6

LEMMA StepSubset ==
  ASSUME IInv, RunStep, NEW what \in {"set", "clr", "fence", "open"}
  PROVE  Done(job.steps', what) \subseteq Done(job.steps, what)
  BY StepIs

LEMMA StepInit == ASSUME IInv, RunStep PROVE InitGoesOn'
<1> SUFFICES ASSUME job.kind = "init"
             PROVE  InitGoesOn'
  BY StepChanges DEF InitGoesOn
<1>1. /\ held = {} /\ told = {} /\ bare /\ \A d \in Domains : count[d] = 0
      /\ Never({"fence", "open"}) /\ Comes("clr", "on")
      /\ Done(job.steps, "set") \cap Banks(4) \subseteq Banks(1)
  BY DEF IInv, InitGoesOn
<1>2. UNCHANGED <<held, told, bare, count>>
  BY DEF RunStep
<1>3. Never({"fence", "open"})' /\ Comes("clr", "on")'
  BY <1>1, StepNever, StepComes
<1>4. Done(job.steps', "set") \cap Banks(4) \subseteq Banks(1)
  BY <1>1, StepSubset
<1>5. ASSUME NEW d \in Domains \ {"md1"}, ~Powered(d)', NEW b \in Bits(d)
      PROVE  b \in prot' \/ \E e \in Domains \ {d, "md1"} : Powered(e)' /\ b \in Bits(e)
  <2>1. Gate = "md1" /\ job.kind # "none"
    BY JobShape
  <2>2. ~Powered(d)
    BY <1>5, <2>1, StepOthers
  <2>3. b \in prot \/ \E e \in Domains \ {d, "md1"} : Powered(e) /\ b \in Bits(e)
    BY <1>5, <2>2 DEF IInv, InitGoesOn
  <2>4. prot \subseteq prot'
    <3>1. Done(job.steps, "open") = {}
      BY <1>1 DEF Never
    <3>2. Step1[1] = "open" => Step1[2] = {}
      BY <3>1, StepIs
    <3> QED BY <3>2, StepChanges
  <2> QED BY <2>1, <2>3, <2>4, StepOthers
<1> QED BY <1>1, <1>2, <1>3, <1>4, <1>5 DEF InitGoesOn, Bits, Done

\* One step on the way up, at the fence, and on the way down.
LEMMA StepPowerComes == ASSUME IInv, RunStep, PowerComes PROVE PowerComes'
<1> PICK g \in Domains : g = Gate /\ Gate' = g
  BY StepChanges
<1>1. /\ Never({"fence", "open"}) /\ Done(job.steps, "set") \cap Banks(4) = {}
      /\ Comes("set", "on") /\ Comes("set", "on2nd") /\ Comes("clr", "iso") /\ Comes("clr", "clkdis")
      /\ g \in RamWithPower => \A b \in Banks(Rams(g)) : Comes("clr", b)
  BY DEF PowerComes
<1>2. Never({"fence", "open"})' /\ Done(job.steps', "set") \cap Banks(4) = {}
  BY <1>1, StepNever, StepSubset
<1>3. Comes("set", "on")' /\ Comes("set", "on2nd")' /\ Comes("clr", "iso")' /\ Comes("clr", "clkdis")'
  BY <1>1, StepComes
<1>4. g \in RamWithPower => \A b \in Banks(Rams(g)) : Comes("clr", b)'
  BY <1>1, StepComes
<1>5. Comes("set", "rstb")'
  <2>1. CASE Comes("set", "rstb")
    BY <2>1, StepComes
  <2>2. CASE /\ job.steps # << >> /\ Step1 = <<"clr", {"rstb"}>> /\ "rstb" \in Done(job.steps, "set")
             /\ "rstb" \notin Done(Tail(job.steps), "clr")
    <3>1. "rstb" \in Done(job.steps', "set")
      BY <2>2, StepIs
    <3>2. "rstb" \notin Done(job.steps', "clr")
      BY <2>2, StepChanges
    <3> QED BY <3>1, <3>2 DEF Comes, Undoes
  <2> QED BY <2>1, <2>2 DEF PowerComes
<1> QED BY <1>2, <1>3, <1>4, <1>5 DEF PowerComes, RamWithPower, Rams, Banks, Bank

LEMMA StepBusComes == ASSUME IInv, RunStep, BusComes PROVE BusComes'
<1> PICK g \in Domains : g = Gate /\ Gate' = g
  BY StepChanges
<1>1. /\ Up(g) /\ Never({"set", "fence"})
      /\ Done(job.steps, "clr") \subseteq Banks(4) /\ Done(job.steps, "open") \subseteq Bits(g)
      /\ \A b \in Banks(Rams(g)) : Comes("clr", b)
      /\ \A b \in Bits(g) : Comes("open", b)
  BY DEF BusComes
<1>2. /\ Never({"set", "fence"})'
      /\ Done(job.steps', "clr") \subseteq Banks(4) /\ Done(job.steps', "open") \subseteq Bits(g)
      /\ \A b \in Banks(Rams(g)) : Comes("clr", b)'
      /\ \A b \in Bits(g) : Comes("open", b)'
  BY <1>1, StepNever, StepSubset, StepComes
<1>3. Up(g)'
  <2>1. Done(job.steps, "set") = {}
    BY <1>1 DEF Never
  <2>2. (Step1[1] = "set" => Step1[2] = {}) /\ (Step1[1] = "clr" => Step1[2] \subseteq Banks(4))
    BY <1>1, <2>1, StepIs
  <2>3. con'[g] = (con[g] \cup (IF Step1[1] = "set" THEN Step1[2] ELSE {})) \ (IF Step1[1] = "clr" THEN Step1[2] ELSE {})
    BY StepChanges
  <2> QED BY <1>1, <2>2, <2>3, TheBanks DEF Up, Powered
<1> QED BY <1>2, <1>3 DEF BusComes, Bits, Done, Rams, Banks, Bank

LEMMA StepFenceComes == ASSUME IInv, RunStep, FenceComes PROVE FenceComes'
<1> PICK g \in Domains : g = Gate /\ Gate' = g
  BY StepChanges
<1>1. /\ Powered(g) /\ Never({"clr", "open"})
      /\ Done(job.steps, "set") \subseteq Banks(Rams(g)) /\ Done(job.steps, "fence") \subseteq Bits(g)
      /\ \A b \in Bits(g) : Comes("fence", b)
  BY DEF FenceComes
<1>2. /\ Never({"clr", "open"})'
      /\ Done(job.steps', "set") \subseteq Banks(Rams(g)) /\ Done(job.steps', "fence") \subseteq Bits(g)
      /\ \A b \in Bits(g) : Comes("fence", b)'
  BY <1>1, StepNever, StepSubset, StepComes
<1>3. Powered(g)'
  <2>1. Done(job.steps, "clr") = {}
    BY <1>1 DEF Never
  <2>2. Step1[1] = "clr" => Step1[2] = {}
    BY <2>1, StepIs
  <2>3. con'[g] = (con[g] \cup (IF Step1[1] = "set" THEN Step1[2] ELSE {})) \ (IF Step1[1] = "clr" THEN Step1[2] ELSE {})
    BY StepChanges
  <2> QED BY <1>1, <2>2, <2>3 DEF Powered
<1> QED BY <1>2, <1>3 DEF FenceComes, Bits, Done, Rams, Banks, Bank

LEMMA StepPowerGoes == ASSUME IInv, RunStep, PowerGoes PROVE PowerGoes'
<1> PICK g \in Domains : g = Gate /\ Gate' = g
  BY StepChanges
<1>1. /\ Bits(g) \subseteq prot /\ Never({"fence", "open"})
      /\ Comes("clr", "on") /\ Comes("set", "iso")
      /\ Done(job.steps, "set") \cap Banks(4) \subseteq Banks(Rams(g))
  BY DEF PowerGoes
<1>2. /\ Never({"fence", "open"})' /\ Comes("clr", "on")' /\ Comes("set", "iso")'
      /\ Done(job.steps', "set") \cap Banks(4) \subseteq Banks(Rams(g))
  BY <1>1, StepNever, StepSubset, StepComes
<1>3. Bits(g) \subseteq prot'
  <2>1. Done(job.steps, "open") = {}
    BY <1>1 DEF Never
  <2>2. Step1[1] = "open" => Step1[2] = {}
    BY <2>1, StepIs
  <2> QED BY <1>1, <2>2, StepChanges
<1> QED BY <1>2, <1>3 DEF PowerGoes, Bits, Done, Rams, Banks, Bank

LEMMA StepCalls == ASSUME IInv, RunStep PROVE PrepareGoesOn' /\ UnprepareGoesOn'
<1>1. /\ job.kind # "none" /\ job.steps # << >> /\ job.kind' = job.kind /\ job.gates' = job.gates /\ Gate' = Gate
      /\ job.kind # "init" => job.stage' = job.stage /\ job.skip' = job.skip /\ job.user' = job.user
      /\ count' = count
  BY StepChanges DEF RunStep
<1>2. job.kind # "init" => job.stage # "enter" /\ ~job.skip
  BY <1>1, Phase
<1>3. PrepareGoesOn'
  <2> SUFFICES ASSUME job.kind = "prepare"
               PROVE  PrepareGoesOn'
    BY <1>1 DEF PrepareGoesOn
  <2>1. /\ job.user \in Domains /\ job.gates \in PathTo(job.user)
        /\ \A i \in DOMAIN job.gates : job.gates[i] \in Domains /\ count[job.gates[i]] = 0
        /\ job.stage = "power" => PowerComes
        /\ job.stage = "bus" => BusComes
    BY <1>2 DEF IInv, PrepareGoesOn
  <2>2. (job.stage = "power" => PowerComes') /\ (job.stage = "bus" => BusComes')
    BY <2>1, StepPowerComes, StepBusComes
  <2> QED BY <1>1, <1>2, <2>1, <2>2 DEF PrepareGoesOn, PathTo, Parent
<1>4. UnprepareGoesOn'
  <2> SUFFICES ASSUME job.kind = "unprepare"
               PROVE  UnprepareGoesOn'
    BY <1>1 DEF UnprepareGoesOn
  <2>1. /\ Gate \in Domains /\ job.gates = <<Gate>> /\ count[Gate] = 0
        /\ job.stage = "bus" => FenceComes
        /\ job.stage = "power" => PowerGoes
    BY <1>2 DEF IInv, UnprepareGoesOn
  <2>2. (job.stage = "bus" => FenceComes') /\ (job.stage = "power" => PowerGoes')
    BY <2>1, StepFenceComes, StepPowerGoes
  <2> QED BY <1>1, <1>2, <2>1, <2>2 DEF UnprepareGoesOn
<1> QED BY <1>3, <1>4

LEMMA RunStepInv == ASSUME IInv, RunStep PROVE IInv'
  BY StepTypes, StepLed, StepRest, StepCounts, StepInit, StepCalls, StepOff DEF IInv

-----------------------------------------------------------------------------
(* The prepare counts: who holds a gate.                                    *)

LEMMA Parents ==
  /\ \A d \in Domains : Parent(d) \in Domains \cup {"none"} /\ Parent(d) # d
  /\ \A d \in Domains : Parent(d) # "none" => /\ Parent(Parent(d)) \in Domains \cup {"none"}
                                            /\ Parent(Parent(d)) # d
                                            /\ Parent(Parent(Parent(d))) = "none"
  /\ Parent("none") = "none" /\ "none" \notin Domains
  BY DEF Parent, Domains

LEMMA LoadIs ==
  ASSUME NEW d \in Domains
  PROVE  /\ d = "async" => Load(d) = One(d \in held) + One(Holds("mfg"))
         /\ d = "mfg" => Load(d) = One(d \in held) + (One(Holds("core0")) + One(Holds("core1")))
         /\ d = "dis" => Load(d) = One(d \in held) + (One(Holds("isp")) + One(Holds("cam")) + One(Holds("ven")) + One(Holds("vde")))
         /\ d \notin {"async", "mfg", "dis"} => Load(d) = One(d \in held) + 0
  BY DEF Load

LEMMA Children ==
  /\ \A x \in Domains : Parent(x) = "async" <=> x = "mfg"
  /\ \A x \in Domains : Parent(x) = "mfg" <=> x \in {"core0", "core1"}
  /\ \A x \in Domains : Parent(x) = "dis" <=> x \in {"isp", "cam", "ven", "vde"}
  /\ \A x \in Domains : Parent(x) \in {"async", "mfg", "dis", "none"}
  /\ {"mfg", "core0", "core1", "isp", "cam", "ven", "vde"} \subseteq Domains
  BY DEF Parent, Domains

LEMMA LoadNat == ASSUME NEW d \in Domains PROVE Load(d) \in Nat
  BY LoadIs DEF One

LEMMA LoadNatNext == ASSUME NEW d \in Domains PROVE Load(d)' \in Nat
  BY DEF Load, One

\* Without a new hold the load does not rise, and with one it rises by one; a hold
\* given up takes one off.
LEMMA LoadKeeps ==
  ASSUME NEW d \in Domains, d \in held' => d \in held,
         \A x \in Domains : Parent(x) = d => (Holds(x)' => Holds(x))
  PROVE  Load(d)' <= Load(d)
<1>1. CASE d = "async"
  BY <1>1, Children DEF Load, One
<1>2. CASE d = "mfg"
  BY <1>2, Children DEF Load, One
<1>3. CASE d = "dis"
  BY <1>3, Children DEF Load, One
<1>4. CASE d \notin {"async", "mfg", "dis"}
  BY <1>4 DEF Load, One
<1> QED BY <1>1, <1>2, <1>3, <1>4

LEMMA LoadRises ==
  ASSUME NEW d \in Domains, d \in held' => d \in held, NEW g \in Domains, Parent(g) = d,
         \A x \in Domains \ {g} : Parent(x) = d => (Holds(x)' => Holds(x))
  PROVE  Load(d)' <= Load(d) + 1
<1>1. CASE d = "async"
  BY <1>1, Children DEF Load, One
<1>2. CASE d = "mfg"
  <2>1. g = "core0" \/ g = "core1"
    BY <1>2, Children
  <2> QED BY <1>2, <2>1, Children DEF Load, One
<1>3. CASE d = "dis"
  <2>1. g \in {"isp", "cam", "ven", "vde"}
    BY <1>3, Children
  <2> QED BY <1>3, <2>1, Children DEF Load, One
<1>4. CASE d \notin {"async", "mfg", "dis"}
  BY <1>4 DEF Load, One
<1> QED BY <1>1, <1>2, <1>3, <1>4

LEMMA LoadOfUser ==
  ASSUME NEW d \in Domains, \A x \in Domains : Parent(x) = d => (Holds(x)' => Holds(x))
  PROVE  /\ Load(d)' <= Load(d) + 1
         /\ d \in held /\ d \notin held' => Load(d)' <= Load(d) - 1
<1>1. CASE d = "async"
  BY <1>1, Children DEF Load, One
<1>2. CASE d = "mfg"
  BY <1>2, Children DEF Load, One
<1>3. CASE d = "dis"
  BY <1>3, Children DEF Load, One
<1>4. CASE d \notin {"async", "mfg", "dis"}
  BY <1>4 DEF Load, One
<1> QED BY <1>1, <1>2, <1>3, <1>4

LEMMA LoadDrops ==
  ASSUME NEW d \in Domains, d \in held' => d \in held, NEW g \in Domains, Parent(g) = d, Holds(g), ~Holds(g)',
         \A x \in Domains \ {g} : Parent(x) = d => (Holds(x)' => Holds(x))
  PROVE  Load(d)' <= Load(d) - 1
<1>1. CASE d = "async"
  BY <1>1, Children DEF Load, One
<1>2. CASE d = "mfg"
  <2>1. g = "core0" \/ g = "core1"
    BY <1>2, Children
  <2> QED BY <1>2, <2>1, Children DEF Load, One
<1>3. CASE d = "dis"
  <2>1. g \in {"isp", "cam", "ven", "vde"}
    BY <1>3, Children
  <2> QED BY <1>3, <2>1, Children DEF Load, One
<1>4. CASE d \notin {"async", "mfg", "dis"}
  BY <1>4, Children, Parents
<1> QED BY <1>1, <1>2, <1>3, <1>4

\* A gate with users, or with a held gate below it, is counted.
LEMMA HeldIsCounted ==
  ASSUME IInv, NEW d \in Domains
  PROVE  /\ count[d] \in Nat
         /\ d \in held => count[d] > 0
         /\ Holds(d) /\ Parent(d) # "none" => count[Parent(d)] > 0 /\ Parent(d) \in Domains
<1>1. \A x \in Domains : Load(x) <= count[x] /\ count[x] \in Nat
  BY DEF IInv, Counted, Types
<1>2. d \in held => Load(d) > 0
  BY LoadIs DEF One
<1>3. Holds(d) /\ Parent(d) # "none" => Parent(d) \in Domains /\ Load(Parent(d)) > 0
  <2>1. CASE Parent(d) = "async"
    BY <2>1, LoadIs, Children DEF One, Domains
  <2>2. CASE Parent(d) = "mfg"
    BY <2>2, LoadIs, Children DEF One, Domains
  <2>3. CASE Parent(d) = "dis"
    BY <2>3, LoadIs, Children DEF One, Domains
  <2> QED BY <2>1, <2>2, <2>3, Children
<1> QED BY <1>1, <1>2, <1>3, LoadNat

-----------------------------------------------------------------------------
(* The calls.                                                               *)

\* Between calls, and at the entry of one, nothing is at work.
LEMMA IdleNext ==
  ASSUME job' = Idle
  PROVE  /\ WaitsAreLed' /\ InitGoesOn' /\ PrepareGoesOn' /\ UnprepareGoesOn' /\ job' \in Jobs
         /\ \A d : ~Busy(d)' /\ (Holds(d)' <=> count'[d] > 0) /\ (Needs(d)' <=> count'[d] > 0)
<1>1. job.kind' = "none"
  BY DEF Idle
<1> QED BY <1>1 DEF WaitsAreLed, InitGoesOn, PrepareGoesOn, UnprepareGoesOn, Jobs, Busy, Holds, Needs

LEMMA CallNext ==
  ASSUME NEW what \in {"prepare", "unprepare"}, NEW gates \in Seq(Domains), gates # << >>, NEW user \in Domains,
         job' = Call(what, gates, user)
  PROVE  /\ WaitsAreLed' /\ InitGoesOn' /\ job' \in Jobs /\ job' # Idle
         /\ what = "prepare" => UnprepareGoesOn'
         /\ what = "unprepare" => PrepareGoesOn'
         /\ job.kind' = what /\ job.gates' = gates /\ Gate' = Head(gates) /\ job.stage' = "enter"
         /\ job.steps' = << >> /\ job.user' = user /\ job.skip' = FALSE
         /\ \A d : /\ ~Busy(d)'
                   /\ Holds(d)' <=> count'[d] > 0 \/ d = Head(gates)
                   /\ Needs(d)' <=> count'[d] > 0 \/ (what = "unprepare" /\ d = Head(gates))
<1>1. /\ job.kind' = what /\ job.gates' = gates /\ job.stage' = "enter" /\ job' # Idle
      /\ job.steps' = << >> /\ job.user' = user /\ job.skip' = FALSE
  BY DEF Call, Idle
<1>2. Gate' = Head(gates)
  BY <1>1 DEF Gate
<1>3. job' \in Jobs
  <2>1. << >> \in Seq(Steps)
    OBVIOUS
  <2> QED BY <2>1 DEF Call, Jobs
<1>4. WaitsAreLed'
  <2>1. DOMAIN job.steps' = {}
    BY <1>1
  <2> QED BY <2>1 DEF WaitsAreLed
<1>5. /\ InitGoesOn' /\ (what = "prepare" => UnprepareGoesOn') /\ (what = "unprepare" => PrepareGoesOn')
  BY <1>1 DEF InitGoesOn, UnprepareGoesOn, PrepareGoesOn
<1>6. \A d : /\ ~Busy(d)'
             /\ Holds(d)' <=> count'[d] > 0 \/ d = Head(gates)
             /\ Needs(d)' <=> count'[d] > 0 \/ (what = "unprepare" /\ d = Head(gates))
  BY <1>1, <1>2 DEF Busy, Holds, Needs
<1> QED BY <1>1, <1>2, <1>3, <1>4, <1>5, <1>6

\* What the registers and the fences say does not change with the call alone.
LEMMA SameRegisters ==
  ASSUME con' = con, prot' = prot
  PROVE  /\ \A d : (Powered(d)' <=> Powered(d)) /\ (Up(d)' <=> Up(d)) /\ (Clean(d)' <=> Clean(d))
         /\ \A d : Reached(d) /\ (\A e \in Domains : Busy(e) => Busy(e)' \/ ~Up(e)) => Reached(d)'
         /\ (bare' <=> bare) /\ OffIsFenced => OffIsFenced'
<1>1. \A d : (Powered(d)' <=> Powered(d)) /\ (Up(d)' <=> Up(d)) /\ (Clean(d)' <=> Clean(d))
  BY DEF Clean, Up, Powered
<1>2. ASSUME NEW d, Reached(d), \A e \in Domains : Busy(e) => Busy(e)' \/ ~Up(e)
      PROVE  Reached(d)'
  <2>1. \A b \in Bits(d) \cap prot' : \E e \in Domains \ {d} : b \in Bits(e) /\ (~Up(e)' \/ Busy(e)')
    BY <1>1, <1>2 DEF Reached
  <2> QED BY <2>1 DEF Reached, Bits, Done
<1>3. ASSUME bare' <=> bare, OffIsFenced
      PROVE  OffIsFenced'
  <2>1. \A d \in Domains : (~Powered(d)' /\ ~(d = "md1" /\ bare')) =>
           \A b \in Bits(d) : b \in prot' \/ \E e \in Domains \ {d} : Powered(e)' /\ b \in Bits(e)
    BY <1>1, <1>3 DEF OffIsFenced
  <2> QED BY <2>1 DEF OffIsFenced, Bits, Done
<1> QED BY <1>1, <1>2, <1>3

LEMMA InitDoneInv == ASSUME IInv, InitDone PROVE IInv'
<1>1. /\ job.kind = "init" /\ job.steps = << >> /\ job' = Idle
      /\ con' = con /\ prot' = prot /\ clks' = clks /\ count' = count /\ held' = held /\ told' = told /\ bare' = bare
  BY DEF InitDone
<1>2. /\ held = {} /\ told = {} /\ \A d \in Domains : count[d] = 0
      /\ Comes("clr", "on")
  BY <1>1 DEF IInv, InitGoesOn
<1>3. Gate = "md1" /\ ~Powered("md1")
  <2>1. Gate = "md1"
    BY <1>1, JobShape
  <2>2. Done(job.steps, "clr") = {}
    BY <1>1, NoStep
  <2> QED BY <1>2, <2>1, <2>2 DEF Comes, Is, Powered
<1>4. /\ WaitsAreLed' /\ InitGoesOn' /\ PrepareGoesOn' /\ UnprepareGoesOn' /\ job' \in Jobs
      /\ \A d : ~Busy(d)' /\ (Holds(d)' <=> count'[d] > 0) /\ (Needs(d)' <=> count'[d] > 0)
  BY <1>1, IdleNext
<1>5. Types'
  BY <1>1, <1>4 DEF IInv, Types, Rams, Banks, Bank
<1>6. RestIsClean'
  <2>1. \A d : Busy(d) <=> d = "md1"
    BY <1>1, <1>3, JobShape DEF Busy
  <2>2. \A d \in Domains : Powered(d) => Clean(d) /\ Reached(d)
    BY <1>3, <2>1 DEF IInv, RestIsClean
  <2>3. ~Up("md1")
    BY <1>3 DEF Up
  <2> QED BY <1>1, <2>1, <2>2, <2>3, SameRegisters DEF RestIsClean
<1>7. Counted'
  <2>1. ASSUME NEW d \in Domains
        PROVE  Load(d)' <= count[d]
    <3>1. \A x \in Domains : ~Holds(x)'
      BY <1>1, <1>2, <1>4
    <3>2. Load(d)' <= Load(d) /\ Load(d) <= count[d]
      BY <1>1, <1>4, <3>1, LoadKeeps DEF IInv, Counted
    <3> QED BY <1>1, <3>2, LoadNat, LoadNatNext, HeldIsCounted
  <2> QED BY <1>1, <2>1 DEF Counted
<1>8. CountedIsOn' /\ ClocksRun'
  BY <1>1, <1>2, <1>4 DEF CountedIsOn, ClocksRun, Domains
<1>9. OffIsFenced'
  BY <1>1, SameRegisters DEF IInv
<1> QED BY <1>4, <1>5, <1>6, <1>7, <1>8, <1>9 DEF IInv

\* A call prepares the gate and the ancestors that nobody has prepared, from the top.
LEMMA GatesFound ==
  ASSUME IInv, NEW d \in Domains, NEW path, path = GatesToPrepare(d)
  PROVE  \/ count[d] > 0 /\ path = << >>
         \/ /\ count[d] = 0 /\ path \in PathTo(d) /\ path \in Seq(Domains) /\ path # << >> /\ Head(path) \in Domains
            /\ \A i \in DOMAIN path : path[i] \in Domains /\ count[path[i]] = 0 /\ path[i] # Parent(Head(path))
            /\ Parent(Head(path)) = "none" \/ (Parent(Head(path)) \in Domains /\ count[Parent(Head(path))] > 0)
<1> DEFINE p == Parent(d)
           pp == Parent(p)
<1>1. /\ p \in Domains \cup {"none"} /\ p # d /\ pp \in Domains \cup {"none"} /\ pp # d /\ "none" \notin Domains
      /\ p # "none" => pp # p /\ Parent(pp) = "none"
      /\ p = "none" => pp = "none"
  BY Parents
<1>2. \A x \in Domains : count[x] \in Nat
  BY DEF IInv, Types
<1>3. CASE count[d] > 0
  BY <1>3 DEF GatesToPrepare
<1>4. CASE count[d] = 0 /\ (p = "none" \/ count[p] > 0)
  <2>1. path = <<d>>
    BY <1>4 DEF GatesToPrepare
  <2> HIDE DEF p, pp
  <2>2. path \in Seq(Domains) /\ path # << >> /\ Head(path) = d /\ DOMAIN path = {1} /\ path[1] = d
    BY <2>1
  <2>3. path \in PathTo(d)
    BY <2>1 DEF PathTo
  <2> QED BY <1>1, <1>4, <2>2, <2>3 DEF p
<1>5. CASE count[d] = 0 /\ p # "none" /\ count[p] = 0 /\ (pp = "none" \/ count[pp] > 0)
  <2>1. path = <<p, d>>
    BY <1>5 DEF GatesToPrepare
  <2>3. path \in PathTo(d)
    BY <2>1 DEF PathTo
  <2>4. Parent(p) = pp
    OBVIOUS
  <2> HIDE DEF p, pp
  <2>2. path \in Seq(Domains) /\ path # << >> /\ Head(path) = p /\ DOMAIN path = {1, 2} /\ path[1] = p /\ path[2] = d
    BY <1>1, <1>5, <2>1
  <2> QED BY <1>1, <1>5, <2>2, <2>3, <2>4
<1>6. CASE count[d] = 0 /\ p # "none" /\ count[p] = 0 /\ pp # "none" /\ count[pp] = 0
  <2>1. path = <<pp, p, d>>
    BY <1>6 DEF GatesToPrepare
  <2>3. path \in PathTo(d)
    BY <2>1 DEF PathTo
  <2> HIDE DEF p, pp
  <2>2. /\ path \in Seq(Domains) /\ path # << >> /\ Head(path) = pp /\ DOMAIN path = {1, 2, 3}
        /\ path[1] = pp /\ path[2] = p /\ path[3] = d
    BY <1>1, <1>6, <2>1
  <2>4. \A i \in DOMAIN path : path[i] \in Domains /\ count[path[i]] = 0 /\ path[i] # "none"
    BY <1>1, <1>6, <2>2
  <2> QED BY <1>1, <1>6, <2>2, <2>3, <2>4
<1> QED BY <1>1, <1>2, <1>3, <1>4, <1>5, <1>6

\* The call is refused its first step while another one runs: what it finds is idle.
LEMMA IdleNow ==
  ASSUME job = Idle
  PROVE  \A d : ~Busy(d) /\ (Holds(d) <=> count[d] > 0) /\ (Needs(d) <=> count[d] > 0)
<1>1. job.kind = "none"
  BY DEF Idle
<1> QED BY <1>1 DEF Busy, Holds, Needs

LEMMA PrepareInv == ASSUME IInv, NEW d \in Domains, Prepare(d) PROVE IInv'
<1> DEFINE path == GatesToPrepare(d)
           g == Head(path)
           p == Parent(g)
<1>1. /\ job = Idle /\ d \notin held
      /\ con' = con /\ prot' = prot /\ clks' = clks /\ told' = told /\ bare' = bare
  BY DEF Prepare
<1>2. \A x : ~Busy(x) /\ (Holds(x) <=> count[x] > 0) /\ (Needs(x) <=> count[x] > 0)
  BY <1>1, IdleNow
<1>t. /\ con \in [Domains -> SUBSET Bit] /\ prot \subseteq Bit
      /\ \A x \in Domains : con[x] \cap Banks(4) \subseteq Banks(Rams(x))
      /\ clks \in [Clocks -> Nat] /\ count \in [Domains -> Nat]
      /\ held \subseteq Domains /\ told \subseteq {x \in Domains : HasBus(x)}
  BY DEF IInv, Types
<1>3. OffIsFenced'
  BY <1>1, SameRegisters DEF IInv
<1>4. ASSUME \A x : ~Busy(x)'
      PROVE  RestIsClean'
  <2>1. \A x \in Domains : Powered(x) => Clean(x) /\ Reached(x)
    BY <1>2 DEF IInv, RestIsClean
  <2> QED BY <1>1, <1>2, <2>1, SameRegisters DEF RestIsClean
<1>5. ASSUME \A x : ~Busy(x)', \A x \in Domains : count'[x] > 0 => count[x] > 0
      PROVE  CountedIsOn'
  <2>1. \A x \in Domains : count[x] > 0 \/ x \in told => Powered(x)
    BY DEF IInv, CountedIsOn
  <2> QED BY <1>1, <1>5, <2>1, SameRegisters DEF CountedIsOn
<1>6. CASE path = << >>
  <2>1. count[d] > 0
    BY <1>6, GatesFound
  <2>2. count' = [count EXCEPT ![d] = count[d] + 1] /\ held' = held \cup {d} /\ job' = Idle
    BY <1>6 DEF Prepare
  <2> HIDE DEF path
  <2>3. /\ WaitsAreLed' /\ InitGoesOn' /\ PrepareGoesOn' /\ UnprepareGoesOn' /\ job' \in Jobs
        /\ \A x : ~Busy(x)' /\ (Holds(x)' <=> count'[x] > 0) /\ (Needs(x)' <=> count'[x] > 0)
    BY <2>2, IdleNext
  <2>4. count' \in [Domains -> Nat] /\ \A x \in Domains : count'[x] = IF x = d THEN count[d] + 1 ELSE count[x]
    BY <1>t, <2>2
  <2>5. Types'
    BY <1>1, <1>t, <2>2, <2>3, <2>4 DEF Types, Rams, Banks, Bank
  <2>6. \A x \in Domains : count'[x] > 0 <=> count[x] > 0
    BY <1>t, <2>1, <2>4
  <2>7. Counted'
    <3>1. \A x \in Domains : Load(x) <= count[x] /\ Load(x) \in Nat /\ Load(x)' \in Nat
      BY LoadNat, LoadNatNext DEF IInv, Counted
    <3>2. \A x \in Domains : Holds(x)' => Holds(x)
      BY <1>2, <2>3, <2>6
    <3>3. ASSUME NEW x \in Domains
          PROVE  Load(x)' <= count'[x]
      <4>1. CASE x = d
        <5>1. Load(x)' <= Load(x) + 1
          BY <3>2, LoadOfUser
        <5> QED BY <1>t, <2>4, <3>1, <4>1, <5>1
      <4>2. CASE x # d
        <5>1. Load(x)' <= Load(x)
          BY <2>2, <3>2, <4>2, LoadKeeps
        <5> QED BY <1>t, <2>4, <3>1, <4>2, <5>1
      <4> QED BY <4>1, <4>2
    <3> QED BY <3>3 DEF Counted
  <2>8. ClocksRun'
    BY <1>1, <1>2, <2>3, <2>6 DEF IInv, ClocksRun, Domains
  <2> QED BY <1>3, <1>4, <1>5, <2>3, <2>5, <2>6, <2>7, <2>8 DEF IInv
<1>7. CASE path # << >>
  <2>1. /\ count[d] = 0 /\ path \in PathTo(d) /\ path \in Seq(Domains) /\ g \in Domains
        /\ \A i \in DOMAIN path : path[i] \in Domains /\ count[path[i]] = 0 /\ path[i] # p
        /\ p = "none" \/ (p \in Domains /\ count[p] > 0)
    BY <1>7, GatesFound
  <2>2. /\ count' = [x \in Domains |-> IF x = p THEN count[x] + 1 ELSE count[x]]
        /\ job' = Call("prepare", path, d) /\ held' = held
    BY <1>7 DEF Prepare
  <2> HIDE DEF path
  <2>3. /\ WaitsAreLed' /\ InitGoesOn' /\ UnprepareGoesOn' /\ job' \in Jobs
        /\ job.kind' = "prepare" /\ job.gates' = path /\ job.stage' = "enter"
        /\ job.steps' = << >> /\ job.user' = d
        /\ \A x : /\ ~Busy(x)'
                  /\ Holds(x)' <=> count'[x] > 0 \/ x = g
                  /\ Needs(x)' <=> count'[x] > 0
    BY <1>7, <2>1, <2>2, CallNext
  <2> HIDE DEF g, p
  <2>4. count' \in [Domains -> Nat] /\ \A x \in Domains : count'[x] = IF x = p THEN count[x] + 1 ELSE count[x]
    BY <1>t, <2>2
  <2>5. Types'
    BY <1>1, <1>t, <2>2, <2>3, <2>4 DEF Types, Rams, Banks, Bank
  <2>6. \A x \in Domains : count'[x] > 0 <=> count[x] > 0
    <3> TAKE x \in Domains
    <3>1. CASE x = p
      <4>1. count[x] \in Nat /\ count[x] > 0 /\ count'[x] = count[x] + 1
        BY <1>t, <2>1, <2>4, <3>1, Parents
      <4> QED BY <4>1
    <3>2. CASE x # p
      BY <2>4, <3>2
    <3> QED BY <3>1, <3>2
  <2>7. Counted'
    <3>1. \A x \in Domains : Load(x) <= count[x] /\ Load(x) \in Nat /\ Load(x)' \in Nat
      BY LoadNat, LoadNatNext DEF IInv, Counted
    <3>2. \A x \in Domains \ {g} : Holds(x)' => Holds(x)
      BY <1>2, <2>3, <2>6
    <3>3. ASSUME NEW x \in Domains
          PROVE  Load(x)' <= count'[x]
      <4>1. CASE x = p
        <5>1. Parent(g) = x
          BY <4>1 DEF p
        <5>2. Load(x)' <= Load(x) + 1
          BY <2>1, <2>2, <3>2, <5>1, LoadRises
        <5> QED BY <1>t, <2>4, <3>1, <4>1, <5>2
      <4>2. CASE x # p
        <5>1. Parent(g) # x
          BY <4>2 DEF p
        <5>2. Load(x)' <= Load(x)
          BY <2>2, <3>2, <5>1, LoadKeeps
        <5> QED BY <1>t, <2>4, <3>1, <4>2, <5>2
      <4> QED BY <4>1, <4>2
    <3> QED BY <3>3 DEF Counted
  <2>8. ClocksRun'
    BY <1>1, <1>2, <2>3, <2>6 DEF IInv, ClocksRun, Domains
  <2>9. PrepareGoesOn'
    <3>1. \A i \in DOMAIN path : path[i] \in Domains /\ count'[path[i]] = 0
      BY <2>1, <2>4
    <3> QED BY <2>1, <2>3, <3>1 DEF PrepareGoesOn, PathTo, Parent
  <2> QED BY <1>3, <1>4, <1>5, <2>3, <2>5, <2>6, <2>7, <2>8, <2>9 DEF IInv
<1> QED BY <1>6, <1>7

\* A sequence that undoes nothing its waits ask for may begin.
Lasting(s) ==
  \A i \in DOMAIN s : s[i][1] \in Waits => \A b \in Asked(s[i]) : b \notin Done(s, Undoes(AskedTo(s[i])))

LEMMA StartLed ==
  ASSUME NEW s, Sequence(s), Lasting(s), job.steps' = s
  PROVE  WaitsAreLed'
<1>1. ASSUME NEW i \in DOMAIN s, s[i][1] \in Waits, NEW b \in Asked(s[i])
      PROVE  /\ b \notin Done(s, Undoes(AskedTo(s[i])))
             /\ \E j \in 1..(i - 1) : s[j][1] = AskedTo(s[i]) /\ b \in s[j][2]
  BY <1>1 DEF Sequence, Led, Lasting
<1> QED BY <1>1 DEF WaitsAreLed, Asked

LEMMA OppositeLasts ==
  ASSUME NEW s, Sequence(s), Done(s, "set") \cap Done(s, "clr") = {}, Done(s, "fence") \cap Done(s, "open") = {}
  PROVE  Lasting(s)
<1> SUFFICES ASSUME NEW i \in DOMAIN s, s[i][1] \in Waits, NEW b \in Asked(s[i])
             PROVE  b \notin Done(s, Undoes(AskedTo(s[i])))
  BY DEF Lasting
<1>1. PICK j \in 1..(i - 1) : s[j][1] = AskedTo(s[i]) /\ b \in s[j][2]
  BY DEF Sequence, Led
<1>2. j \in DOMAIN s
  <2>1. DOMAIN s = 1..Len(s) /\ Len(s) \in Nat
    BY DEF Sequence
  <2> QED BY <2>1
<1>3. b \in Done(s, AskedTo(s[i]))
  BY <1>1, <1>2, InDone
<1>4. AskedTo(s[i]) \in {"set", "clr", "fence"}
  BY DEF AskedTo
<1> QED BY <1>3, <1>4 DEF Undoes

\* The modem's sequence only waits for its power.
LEMMA ModemUpLasts == Lasting(ctrl_pwr("md1", STA_POWER_ON))
<1> DEFINE s == ctrl_pwr("md1", STA_POWER_ON)
<1>1. s = Clr("rstb") \o Set("on") \o Set("on2nd") \o Wait("on") \o Clr("sram0")
            \o Set("sramiso") \o Clr("iso") \o Clr("clkdis") \o Set("rstb") \o Clr("extra")
  BY DEF ctrl_pwr, md1_pwr, STA_POWER_ON, STA_POWER_DOWN
<1>2. /\ DOMAIN s = 1..10 /\ s[1] = <<"clr", {"rstb"}>> /\ s[2] = <<"set", {"on"}>> /\ s[3] = <<"set", {"on2nd"}>>
      /\ s[4] = <<"wait", {"on"}>> /\ s[5] = <<"clr", {"sram0"}>> /\ s[6] = <<"set", {"sramiso"}>>
      /\ s[7] = <<"clr", {"iso"}>> /\ s[8] = <<"clr", {"clkdis"}>> /\ s[9] = <<"set", {"rstb"}>>
      /\ s[10] = <<"clr", {"extra"}>>
  BY <1>1 DEF Clr, Set, Wait
<1>3. Done(s, "clr") = {"rstb", "sram0", "iso", "clkdis", "extra"}
  BY ModemUpEffect DEF Effect
<1> HIDE DEF s
<1>4. \A i \in DOMAIN s : s[i][1] \in Waits => s[i] = <<"wait", {"on"}>>
  BY <1>2 DEF Waits
<1>5. ASSUME NEW i \in DOMAIN s, s[i][1] \in Waits, NEW b \in Asked(s[i])
      PROVE  b \notin Done(s, Undoes(AskedTo(s[i])))
  <2>1. s[i] = <<"wait", {"on"}>>
    BY <1>4, <1>5
  <2>2. b \in {"on", "on2nd"} /\ Undoes(AskedTo(s[i])) = "clr"
    BY <1>5, <2>1 DEF Asked, AskedTo, Undoes
  <2> QED BY <1>3, <2>2
<1> QED BY <1>5 DEF Lasting, s

\* Enabling a list of clocks.
LEMMA ClocksRise ==
  ASSUME clks \in [Clocks -> Nat], NEW list, Len(list) \in Nat, NEW ok, EnableList(list, ok)
  PROVE  /\ clks' \in [Clocks -> Nat] /\ \A c \in Clocks : clks[c] > 0 => clks'[c] > 0
         /\ \A c \in Clocks : ok /\ (\E i \in 1..Len(list) : list[i] = c) => clks'[c] > 0
<1>1. PICK k \in (IF ok THEN {Len(list)} ELSE 0..(Len(list) - 1)) :
        clks' = [c \in Clocks |-> IF \E i \in 1..k : list[i] = c THEN clks[c] + 1 ELSE clks[c]]
  BY DEF EnableList
<1>2. \A c \in Clocks : clks[c] \in Nat /\ clks'[c] = IF \E i \in 1..k : list[i] = c THEN clks[c] + 1 ELSE clks[c]
  BY <1>1
<1>3. clks' \in [Clocks -> Nat]
  BY <1>1, <1>2
<1>4. ASSUME NEW c \in Clocks, ok, \E i \in 1..Len(list) : list[i] = c
      PROVE  clks'[c] > 0
  BY <1>1, <1>2, <1>4
<1> QED BY <1>2, <1>3, <1>4

LEMMA SramClocks ==
  /\ "mm_sel" \in Clocks /\ "mfg_sel" \in Clocks
  /\ \A d : Len(pre_clk1(d)) \in Nat /\ Len(pre_clk2(d)) \in Nat
  /\ Len(pre_clk1("dis")) = 1 /\ pre_clk1("dis")[1] = "mm_sel"
  /\ Len(pre_clk1("async")) = 1 /\ pre_clk1("async")[1] = "mfg_sel"
<1>1. pre_clk1("dis") = <<"mm_sel">> /\ pre_clk1("async") = <<"mfg_sel">>
  BY DEF pre_clk1
<1>2. Named(pre_clk1("dis")) = {"mm_sel"} /\ Named(pre_clk1("async")) = {"mfg_sel"}
  BY <1>1 DEF Named
<1>3. "mm_sel" \in Clocks /\ "mfg_sel" \in Clocks
  BY <1>2 DEF Clocks, Domains
<1>4. \A d : Len(pre_clk1(d)) \in Nat
  BY DEF pre_clk1
<1>5. \A d : Len(pre_clk2(d)) \in Nat
  BY DEF pre_clk2
<1> QED BY <1>1, <1>3, <1>4, <1>5

\* The way up, from the terms of the invariant.
LEMMA PowerWillCome ==
  ASSUME NEW g \in Domains, Gate' = g, job.steps' = ctrl_pwr(g, STA_POWER_ON)
  PROVE  PowerComes' /\ Sequence(job.steps') /\ Lasting(job.steps')
<1> DEFINE s == job.steps'
<1>1. CASE g = "md1"
  <2>1. /\ Effect(s, {"on", "on2nd", "sramiso", "rstb"}, {"rstb", "sram0", "iso", "clkdis", "extra"}, {}, {})
        /\ s # << >> /\ Head(s) = <<"clr", {"rstb"}>> /\ "rstb" \notin Done(Tail(s), "clr") /\ Lasting(s)
    BY <1>1, ModemUpEffect, ModemUpLasts
  <2> HIDE DEF s
  <2>2. /\ Sequence(s) /\ Done(s, "fence") = {} /\ Done(s, "open") = {}
        /\ Done(s, "set") = {"on", "on2nd", "sramiso", "rstb"}
        /\ Done(s, "clr") = {"rstb", "sram0", "iso", "clkdis", "extra"}
    BY <2>1 DEF Effect
  <2>3. Rams(g) = 1
    BY <1>1 DEF Rams
  <2>4. Never({"fence", "open"})' /\ Done(s, "set") \cap Banks(4) = {}
    BY <2>2, TheBanks DEF Never, s
  <2>5. Comes("set", "on")' /\ Comes("set", "on2nd")' /\ Comes("clr", "iso")' /\ Comes("clr", "clkdis")'
    BY <2>2 DEF Comes, Undoes, s
  <2>6. \A b \in Banks(Rams(g)) : Comes("clr", b)'
    BY <2>2, <2>3, TheBanks DEF Comes, Undoes, s
  <2>7. /\ job.steps' # << >> /\ Step1' = <<"clr", {"rstb"}>> /\ "rstb" \in Done(job.steps', "set")
        /\ "rstb" \notin Done(Tail(job.steps'), "clr")
    BY <2>1, <2>2 DEF Step1, s
  <2> QED BY <2>1, <2>2, <2>4, <2>5, <2>6, <2>7 DEF PowerComes, s, Rams, Banks, Bank
<1>2. CASE g # "md1"
  <2>1. Effect(s, {"on", "on2nd", "rstb"},
               {"clkdis", "iso"} \cup (IF g \in RamWithPower THEN Banks(Rams(g)) ELSE {}), {}, {})
    BY <1>2, PowerUpEffect
  <2> HIDE DEF s
  <2>2. /\ Sequence(s) /\ Done(s, "fence") = {} /\ Done(s, "open") = {}
        /\ Done(s, "set") = {"on", "on2nd", "rstb"}
        /\ Done(s, "clr") = {"clkdis", "iso"} \cup (IF g \in RamWithPower THEN Banks(Rams(g)) ELSE {})
    BY <2>1 DEF Effect
  <2>3. Banks(Rams(g)) \subseteq Banks(4) /\ Banks(4) \cap {"on", "on2nd", "rstb"} = {}
    <3>1. Rams(g) \in {0, 1, 2, 4}
      BY DEF Rams
    <3> QED BY <3>1, TheBanks
  <2>4. Never({"fence", "open"})' /\ Done(s, "set") \cap Banks(4) = {}
    BY <2>2, <2>3 DEF Never, s
  <2>5. "on" \notin Done(s, "clr") /\ "on2nd" \notin Done(s, "clr") /\ "rstb" \notin Done(s, "clr")
    BY <2>2, <2>3
  <2>6. Comes("set", "on")' /\ Comes("set", "on2nd")' /\ Comes("clr", "iso")' /\ Comes("clr", "clkdis")' /\ Comes("set", "rstb")'
    BY <2>2, <2>5 DEF Comes, Undoes, s
  <2>7. g \in RamWithPower => \A b \in Banks(Rams(g)) : Comes("clr", b)'
    BY <2>2, <2>3 DEF Comes, Undoes, s
  <2>8. Lasting(s)
    <3>1. Done(s, "set") \cap Done(s, "clr") = {} /\ Done(s, "fence") \cap Done(s, "open") = {}
      BY <2>2, <2>3
    <3> QED BY <2>2, <3>1, OppositeLasts
  <2> QED BY <2>2, <2>4, <2>6, <2>7, <2>8 DEF PowerComes, s, Rams, Banks, Bank, RamWithPower
<1> QED BY <1>1, <1>2

\* The call of a gate, as the steps of pg_prepare find it.
LEMMA PrepareNow ==
  ASSUME IInv, job.kind = "prepare"
  PROVE  /\ job \in [kind : {"prepare", "unprepare"}, gates : Seq(Domains), stage : {"enter", "power", "bus"},
                     steps : Seq(Steps), skip : BOOLEAN, err1 : BOOLEAN, err3 : BOOLEAN, user : Domains]
         /\ Gate \in Domains /\ job # Idle /\ job.user \in Domains /\ job.gates \in PathTo(job.user)
         /\ \A i \in DOMAIN job.gates : job.gates[i] \in Domains /\ count[job.gates[i]] = 0
         /\ job.gates # << >> /\ Gate = job.gates[1] /\ count[Gate] = 0
<1>1. /\ job \in [kind : {"prepare", "unprepare"}, gates : Seq(Domains), stage : {"enter", "power", "bus"},
                     steps : Seq(Steps), skip : BOOLEAN, err1 : BOOLEAN, err3 : BOOLEAN, user : Domains]
      /\ Gate \in Domains /\ job # Idle
  BY JobShape
<1>2. /\ job.user \in Domains /\ job.gates \in PathTo(job.user)
      /\ \A i \in DOMAIN job.gates : job.gates[i] \in Domains /\ count[job.gates[i]] = 0
  BY DEF IInv, PrepareGoesOn
<1>3. job.gates # << >> /\ Gate = job.gates[1] /\ 1 \in DOMAIN job.gates
  BY <1>2 DEF PathTo, Gate
<1> QED BY <1>1, <1>2, <1>3

LEMMA PreparePowerInv == ASSUME IInv, PreparePower PROVE IInv'
<1>1. /\ job.kind = "prepare" /\ job.stage = "enter"
      /\ con' = con /\ prot' = prot /\ count' = count /\ held' = held /\ told' = told /\ bare' = bare
  BY DEF PreparePower
<1>2. PICK ok \in BOOLEAN :
       /\ EnableList(pre_clk1(Gate), ok)
       /\ job' = [job EXCEPT !.stage = "power", !.skip = Powered(Gate), !.err1 = ~ok,
                    !.steps = IF Powered(Gate) THEN << >> ELSE ctrl_pwr(Gate, STA_POWER_ON)]
  BY Zenon DEF PreparePower
<1>3. PICK g \in Domains : g = Gate
  BY <1>1, PrepareNow
<1>4. PICK s : s = IF Powered(g) THEN << >> ELSE ctrl_pwr(g, STA_POWER_ON)
  OBVIOUS
<1>5. Sequence(s) /\ s \in Seq(Steps)
  <2>1. CASE Powered(g)
    BY <1>4, <2>1, NoStep DEF Sequence
  <2>2. CASE ~Powered(g)
    BY <1>4, <2>2, ModemUpEffect, PowerUpEffect DEF Effect, Sequence
  <2> QED BY <2>1, <2>2
<1>7. /\ job.kind' = "prepare" /\ job.stage' = "power" /\ job.steps' = s /\ (job.skip' <=> Powered(g)) /\ (job.err1' <=> ~ok)
      /\ job.gates' = job.gates /\ job.user' = job.user /\ job' # Idle /\ job' \in Jobs
  <2>1. job' = [job EXCEPT !.stage = "power", !.skip = Powered(g), !.err1 = ~ok, !.steps = s]
    BY <1>2, <1>3, <1>4
  <2>2. Powered(g) \in BOOLEAN
    BY DEF Powered
  <2> QED BY <1>1, <1>5, <2>1, <2>2, PrepareNow DEF Jobs, Idle
<1>8. Gate' = g
  BY <1>3, <1>7 DEF Gate
<1>9. /\ clks' \in [Clocks -> Nat] /\ \A c \in Clocks : clks[c] > 0 => clks'[c] > 0
      /\ \A c \in Clocks : ok /\ (\E i \in 1..Len(pre_clk1(g)) : pre_clk1(g)[i] = c) => clks'[c] > 0
  <2>1. clks \in [Clocks -> Nat] /\ Len(pre_clk1(g)) \in Nat
    BY SramClocks DEF IInv, Types
  <2> QED BY <1>2, <1>3, <2>1, ClocksRise
<1>10. \A d : ~Busy(d) /\ (Busy(d)' <=> d = g /\ ~Powered(g))
  BY <1>1, <1>3, <1>7, <1>8 DEF Busy
<1>11. Types'
  BY <1>1, <1>7, <1>9 DEF IInv, Types, Rams, Banks, Bank
<1>12. WaitsAreLed'
  <2>1. CASE Powered(g)
    <3>1. DOMAIN job.steps' = {}
      BY <1>4, <1>7, <2>1
    <3> QED BY <3>1 DEF WaitsAreLed
  <2>2. CASE ~Powered(g)
    <3>1. job.steps' = ctrl_pwr(g, STA_POWER_ON)
      BY <1>4, <1>7, <2>2
    <3>2. Sequence(job.steps') /\ Lasting(job.steps')
      BY <1>8, <3>1, PowerWillCome
    <3>3. Sequence(s) /\ Lasting(s) /\ job.steps' = s
      BY <1>7, <3>2
    <3> QED BY <3>3, StartLed
  <2> QED BY <2>1, <2>2
<1>13. RestIsClean'
  <2>1. \A d \in Domains : Powered(d) => Clean(d) /\ Reached(d)
    BY <1>10 DEF IInv, RestIsClean
  <2> QED BY <1>1, <1>10, <2>1, SameRegisters DEF RestIsClean
<1>14. \A d : Holds(d)' <=> Holds(d)
  BY <1>1, <1>3, <1>7, <1>8 DEF Holds
<1>15. Counted'
  <2>1. \A d \in Domains : Load(d)' = Load(d)
    BY <1>1, <1>14 DEF Load, One
  <2> QED BY <1>1, <2>1 DEF IInv, Counted
<1>16. CountedIsOn'
  <2>1. \A d \in Domains : count[d] > 0 \/ d \in told => Powered(d)
    BY DEF IInv, CountedIsOn
  <2>2. \A d \in Domains : Powered(d)' <=> Powered(d)
    BY <1>1, SameRegisters
  <2> QED BY <1>1, <1>10, <2>1, <2>2 DEF CountedIsOn
<1>17. ClocksRun'
  <2>1. ASSUME NEW d \in Domains, Needs(d)'
        PROVE  Needs(d) \/ (d = g /\ ok)
    BY <1>1, <1>7, <1>8, <2>1 DEF Needs
  <2>2. Needs("dis")' => clks'["mm_sel"] > 0
    <3>1. CASE Needs("dis")
      BY <1>9, <3>1, SramClocks DEF IInv, ClocksRun
    <3>2. CASE "dis" = g /\ ok
      <4>1. 1 \in 1..Len(pre_clk1(g)) /\ pre_clk1(g)[1] = "mm_sel"
        BY <3>2, SramClocks
      <4> QED BY <1>9, <3>2, <4>1, SramClocks
    <3> QED BY <2>1, <3>1, <3>2 DEF Domains
  <2>3. Needs("async")' => clks'["mfg_sel"] > 0
    <3>1. CASE Needs("async")
      BY <1>9, <3>1, SramClocks DEF IInv, ClocksRun
    <3>2. CASE "async" = g /\ ok
      <4>1. 1 \in 1..Len(pre_clk1(g)) /\ pre_clk1(g)[1] = "mfg_sel"
        BY <3>2, SramClocks
      <4> QED BY <1>9, <3>2, <4>1, SramClocks
    <3> QED BY <2>1, <3>1, <3>2 DEF Domains
  <2> QED BY <2>2, <2>3 DEF ClocksRun
<1>18. InitGoesOn' /\ UnprepareGoesOn'
  BY <1>7 DEF InitGoesOn, UnprepareGoesOn
<1>19. PrepareGoesOn'
  <2>1. /\ job.user \in Domains /\ job.gates \in PathTo(job.user)
        /\ \A i \in DOMAIN job.gates : job.gates[i] \in Domains /\ count[job.gates[i]] = 0
    BY <1>1, PrepareNow
  <2>2. Powered(g) => job.steps' = << >> /\ Powered(g)'
    BY <1>1, <1>4, <1>7, SameRegisters
  <2>3. ~Powered(g) => PowerComes'
    BY <1>4, <1>7, <1>8, PowerWillCome
  <2> QED BY <1>1, <1>7, <1>8, <2>1, <2>2, <2>3 DEF PrepareGoesOn, PathTo, Parent
<1>20. OffIsFenced'
  BY <1>1, SameRegisters DEF IInv
<1> QED BY <1>11, <1>12, <1>13, <1>15, <1>16, <1>17, <1>18, <1>19, <1>20 DEF IInv

LEMMA NothingIsDone ==
  ASSUME job.steps = << >>
  PROVE  \A what, b : Done(job.steps, what) = {} /\ (Comes(what, b) => Is(what, b))
  BY NoStep DEF Comes

\* With its power sequence done, a domain works but for the fence and the SRAM of it.
LEMMA PowerHasCome ==
  ASSUME job.steps = << >>, PowerComes
  PROVE  /\ Up(Gate)
         /\ Gate \in RamWithPower => con[Gate] \cap Banks(Rams(Gate)) = {}
<1>1. /\ "on" \in con[Gate] /\ "on2nd" \in con[Gate] /\ "iso" \notin con[Gate] /\ "clkdis" \notin con[Gate]
      /\ "rstb" \in con[Gate]
  BY NothingIsDone DEF PowerComes, Is
<1>2. Gate \in RamWithPower => \A b \in Banks(Rams(Gate)) : b \notin con[Gate]
  BY NothingIsDone DEF PowerComes, Is
<1> QED BY <1>1, <1>2 DEF Up, Powered

LEMMA PrepareBusInv == ASSUME IInv, PrepareBus PROVE IInv'
<1>1. /\ job.kind = "prepare" /\ job.stage = "power" /\ job.steps = << >>
      /\ con' = con /\ prot' = prot /\ count' = count /\ held' = held /\ told' = told
      /\ bare' = (bare /\ Gate # "md1")
  BY DEF PrepareBus
<1>2. PICK ok \in BOOLEAN :
       /\ EnableList(pre_clk2(Gate), ok)
       /\ job' = [job EXCEPT !.stage = "bus", !.err3 = ~ok,
                    !.steps = IF job.skip THEN << >> ELSE ctrl_bus_prot(Gate, STA_POWER_ON)]
  BY Zenon DEF PrepareBus
<1>3. PICK g \in Domains : g = Gate
  BY <1>1, PrepareNow
<1>f. FencesOf(g, Bits(g))
  BY BusEffect
<1>4. PICK s : s = IF job.skip THEN << >> ELSE ctrl_bus_prot(g, STA_POWER_ON)
  OBVIOUS
<1>5. Sequence(s) /\ s \in Seq(Steps) /\ Lasting(s)
  <2>1. CASE job.skip
    <3>1. Sequence(s) /\ DOMAIN s = {}
      BY <1>4, <2>1, NoStep
    <3> QED BY <3>1 DEF Sequence, Lasting
  <2>2. CASE ~job.skip
    <3>1. Sequence(s) /\ Done(s, "set") = {} /\ Done(s, "fence") = {}
      BY <1>4, <1>f, <2>2 DEF FencesOf, FenceAndOpen, Effect
    <3>2. Done(s, "set") \cap Done(s, "clr") = {} /\ Done(s, "fence") \cap Done(s, "open") = {}
      BY <3>1
    <3> QED BY <3>1, <3>2, OppositeLasts DEF Sequence
  <2> QED BY <2>1, <2>2
<1>7. /\ job.kind' = "prepare" /\ job.stage' = "bus" /\ job.steps' = s /\ job.skip' = job.skip /\ job.err1' = job.err1
      /\ job.gates' = job.gates /\ job.user' = job.user /\ job' # Idle /\ job' \in Jobs
  <2>1. job' = [job EXCEPT !.stage = "bus", !.err3 = ~ok, !.steps = s]
    BY <1>2, <1>3, <1>4
  <2> QED BY <1>1, <1>5, <2>1, PrepareNow DEF Jobs, Idle
<1>8. Gate' = g
  BY <1>3, <1>7 DEF Gate
<1>9. /\ clks' \in [Clocks -> Nat] /\ \A c \in Clocks : clks[c] > 0 => clks'[c] > 0
  <2>1. clks \in [Clocks -> Nat] /\ Len(pre_clk2(g)) \in Nat
    BY SramClocks DEF IInv, Types
  <2> QED BY <1>2, <1>3, <2>1, ClocksRise
<1>10. \A d : (Busy(d) <=> d = g /\ ~job.skip) /\ (Busy(d)' <=> d = g /\ ~job.skip)
  BY <1>1, <1>3, <1>7, <1>8, PrepareNow DEF Busy
<1>11. Types'
  BY <1>1, <1>7, <1>9 DEF IInv, Types, Rams, Banks, Bank
<1>12. WaitsAreLed'
  BY <1>5, <1>7, StartLed
<1>13. RestIsClean'
  BY <1>1, <1>10, SameRegisters DEF IInv, RestIsClean
<1>14. \A d : (Holds(d)' <=> Holds(d)) /\ (Needs(d)' <=> Needs(d))
  BY <1>1, <1>3, <1>7, <1>8 DEF Holds, Needs
<1>15. Counted'
  <2>1. \A d \in Domains : Load(d)' = Load(d)
    BY <1>1, <1>14 DEF Load, One
  <2> QED BY <1>1, <2>1 DEF IInv, Counted
<1>16. CountedIsOn'
  BY <1>1, <1>10, SameRegisters DEF IInv, CountedIsOn
<1>17. ClocksRun'
  BY <1>9, <1>14, SramClocks DEF IInv, ClocksRun
<1>18. InitGoesOn' /\ UnprepareGoesOn'
  BY <1>7 DEF InitGoesOn, UnprepareGoesOn
\* with its power on, the gate is ready for its fences to open
<1>19. (job.skip => Powered(g)) /\ (~job.skip => PowerComes)
  BY <1>1, <1>3 DEF IInv, PrepareGoesOn
<1>20. ~job.skip => BusComes'
  <2> SUFFICES ASSUME ~job.skip
               PROVE  BusComes'
    OBVIOUS
  <2>1. Up(g) /\ (g \in RamWithPower => con[g] \cap Banks(Rams(g)) = {})
    BY <1>1, <1>3, <1>19, PowerHasCome
  <2>2. Done(s, "set") = {} /\ Done(s, "fence") = {} /\ Done(s, "clr") = RamByBus(g) /\ Done(s, "open") = Bits(g)
    BY <1>4, <1>f DEF FencesOf, FenceAndOpen, Effect
  <2>3. Banks(Rams(g)) \subseteq Banks(4)
    <3>1. Rams(g) \in {0, 1, 2, 4}
      BY DEF Rams
    <3> QED BY <3>1, TheBanks
  <2>4. Up(g)' /\ Never({"set", "fence"})' /\ Done(job.steps', "clr") \subseteq Banks(4) /\ Done(job.steps', "open") \subseteq Bits(g)
    BY <1>1, <1>7, <2>1, <2>2, <2>3, SameRegisters DEF Never, RamByBus
  <2>5. \A b \in Banks(Rams(g)) : Comes("clr", b)'
    BY <1>1, <1>7, <1>8, <2>1, <2>2 DEF Comes, Undoes, Is, RamByBus
  <2>6. \A b \in Bits(g) : Comes("open", b)'
    BY <1>7, <2>2 DEF Comes, Undoes
  <2> QED BY <1>8, <2>4, <2>5, <2>6 DEF BusComes, Bits, Done, Rams, Banks, Bank
<1>21. PrepareGoesOn'
  <2>1. /\ job.user \in Domains /\ job.gates \in PathTo(job.user)
        /\ \A i \in DOMAIN job.gates : job.gates[i] \in Domains /\ count[job.gates[i]] = 0
    BY <1>1, PrepareNow
  <2>2. job.skip => job.steps' = << >> /\ Powered(g)'
    BY <1>1, <1>4, <1>7, <1>19, SameRegisters
  <2> QED BY <1>1, <1>7, <1>8, <1>20, <2>1, <2>2 DEF PrepareGoesOn, PathTo, Parent
<1>22. OffIsFenced'
  <2>1. Powered(g)
    BY <1>1, <1>3, <1>19, PowerHasCome DEF Up
  <2>2. \A d \in Domains : (~Powered(d)' /\ ~(d = "md1" /\ bare')) =>
          \A b \in Bits(d) : b \in prot' \/ \E e \in Domains \ {d} : Powered(e)' /\ b \in Bits(e)
    BY <1>1, <1>3, <2>1, SameRegisters DEF IInv, OffIsFenced
  <2> QED BY <2>2 DEF OffIsFenced, Bits, Done
<1> QED BY <1>11, <1>12, <1>13, <1>15, <1>16, <1>17, <1>18, <1>21, <1>22 DEF IInv

\* With its fences open, or found on, the gate works and can be reached.
LEMMA BusHasCome ==
  ASSUME IInv, job.kind = "prepare", job.stage = "bus", job.steps = << >>
  PROVE  /\ Powered(Gate) /\ Clean(Gate)
         /\ ~job.skip => Bits(Gate) \cap prot = {}
         /\ job.skip => Reached(Gate)
         /\ \A d : Busy(d) <=> d = Gate /\ ~job.skip
<1> PICK g \in Domains : g = Gate
  BY PrepareNow
<1>1. \A d : Busy(d) <=> d = g /\ ~job.skip
  BY PrepareNow DEF Busy
<1>2. CASE job.skip
  <2>1. Powered(g) /\ ~Busy(g)
    BY <1>1, <1>2 DEF IInv, PrepareGoesOn
  <2> QED BY <1>1, <1>2, <2>1 DEF IInv, RestIsClean
<1>3. CASE ~job.skip
  <2>1. BusComes
    BY <1>3 DEF IInv, PrepareGoesOn
  <2>2. /\ Up(g) /\ \A b \in Banks(Rams(g)) : Comes("clr", b)
        /\ \A b \in Bits(g) : Comes("open", b)
    BY <2>1 DEF BusComes
  <2>3. (\A b \in Banks(Rams(g)) : b \notin con[g]) /\ (\A b \in Bits(g) : b \notin prot)
    BY <2>2, NothingIsDone DEF Is
  <2>4. con[g] \cap Banks(4) = {}
    BY <2>3 DEF IInv, Types
  <2> QED BY <1>1, <1>3, <2>2, <2>3, <2>4 DEF Clean, Up
<1> QED BY <1>2, <1>3

\* What holds of every way that a prepare ends.
LEMMA AfterOnRest ==
  ASSUME IInv, AfterOn, \A d : ~Busy(d)',
         \A d \in Domains : count'[d] > 0 => count[d] > 0 \/ d = Gate
  PROVE  RestIsClean' /\ CountedIsOn' /\ OffIsFenced'
<1>1. /\ job.kind = "prepare" /\ job.stage = "bus" /\ job.steps = << >>
      /\ con' = con /\ prot' = prot /\ bare' = bare
      /\ \A d : d \in told' => d \in told \/ d = Gate
  BY DEF AfterOn
<1> PICK g \in Domains : g = Gate
  BY <1>1, PrepareNow
<1>2. /\ Powered(g) /\ Clean(g) /\ (~job.skip => Bits(g) \cap prot = {}) /\ (job.skip => Reached(g))
      /\ \A d : Busy(d) <=> d = g /\ ~job.skip
  BY <1>1, BusHasCome
<1>3. ASSUME NEW d \in Domains, Powered(d)
      PROVE  Clean(d)' /\ Reached(d)'
  <2>1. CASE d = g /\ ~job.skip
    <3>1. Bits(d) \cap prot' = {}
      BY <1>1, <1>2, <2>1
    <3> QED BY <1>1, <1>2, <2>1, <3>1, SameRegisters DEF Reached, Bits, Done
  <2>2. CASE ~(d = g /\ ~job.skip)
    <3>1. Clean(d) /\ Reached(d)
      BY <1>2, <1>3, <2>2 DEF IInv, RestIsClean
    <3>2. ASSUME NEW b \in Bits(d), b \in prot'
          PROVE  \E e \in Domains \ {d} : b \in Bits(e) /\ (~Up(e)' \/ Busy(e)')
      <4>1. PICK e \in Domains \ {d} : b \in Bits(e) /\ (~Up(e) \/ Busy(e))
        BY <1>1, <3>1, <3>2 DEF Reached
      <4>2. ~Up(e)
        BY <1>1, <1>2, <3>2, <4>1
      <4> QED BY <1>1, <4>1, <4>2, SameRegisters
    <3> QED BY <1>1, <3>1, <3>2, SameRegisters DEF Reached, Bits, Done
  <2> QED BY <2>1, <2>2
<1>4. RestIsClean'
  BY <1>1, <1>3, SameRegisters DEF RestIsClean
<1>5. CountedIsOn'
  BY <1>1, <1>2, SameRegisters DEF IInv, CountedIsOn
<1>6. OffIsFenced'
  BY <1>1, SameRegisters DEF IInv
<1> QED BY <1>4, <1>5, <1>6

\* The path to a gate, without its first.
LEMMA PathGoesOn ==
  ASSUME NEW d \in Domains, NEW gates \in PathTo(d), gates[1] # d,
         \A i \in DOMAIN gates : gates[i] \in Domains
  PROVE  /\ Tail(gates) \in PathTo(d) /\ Tail(gates) \in Seq(Domains) /\ Tail(gates) # << >>
         /\ Head(Tail(gates)) \in Domains /\ Parent(Head(Tail(gates))) = gates[1]
         /\ \A i \in DOMAIN Tail(gates) : /\ Tail(gates)[i] # gates[1]
                                          /\ \E j \in DOMAIN gates : Tail(gates)[i] = gates[j]
<1>1. CASE gates = <<Parent(d), d>>
  <2>1. Parent(d) \in Domains /\ Parent(d) # d
    <3>1. 1 \in DOMAIN gates /\ gates[1] = Parent(d)
      BY <1>1
    <3> QED BY <3>1
  <2>2. DOMAIN gates = {1, 2} /\ gates[1] = Parent(d) /\ gates[2] = d
    BY <1>1
  <2>3. Tail(gates) = <<d>>
    BY <1>1
  <2>4. <<d>> \in Seq(Domains) /\ <<d>> # << >> /\ Head(<<d>>) = d /\ DOMAIN <<d>> = {1} /\ <<d>>[1] = d
    OBVIOUS
  <2> QED BY <2>1, <2>2, <2>3, <2>4 DEF PathTo
<1>2. CASE gates = <<Parent(Parent(d)), Parent(d), d>>
  <2> DEFINE p == Parent(d)
             pp == Parent(p)
  <2> HIDE DEF p
  <2>0. gates = <<pp, p, d>>
    BY <1>2 DEF p
  <2> HIDE DEF pp
  <2>1. DOMAIN gates = {1, 2, 3} /\ gates[1] = pp /\ gates[2] = p /\ gates[3] = d /\ Tail(gates) = <<p, d>>
    BY <2>0
  <2>2. p \in Domains /\ pp \in Domains /\ pp # d
    BY <2>1
  <2>3. p # pp
    BY <2>2, Parents DEF pp
  <2>4. <<p, d>> \in Seq(Domains) /\ <<p, d>> # << >> /\ Head(<<p, d>>) = p /\ DOMAIN <<p, d>> = {1, 2}
        /\ <<p, d>>[1] = p /\ <<p, d>>[2] = d
    BY <2>2
  <2>5. <<p, d>> \in PathTo(d) /\ Parent(p) = pp
    BY DEF PathTo, p, pp
  <2> QED BY <2>1, <2>2, <2>3, <2>4, <2>5
<1>3. gates # <<d>>
  OBVIOUS
<1> QED BY <1>1, <1>2, <1>3 DEF PathTo

LEMMA AfterOnInv == ASSUME IInv, AfterOn PROVE IInv'
<1>1. /\ job.kind = "prepare" /\ job.stage = "bus" /\ job.steps = << >>
      /\ con' = con /\ prot' = prot /\ clks' = clks /\ bare' = bare
      /\ told' = IF HasBus(Gate) /\ ~job.skip THEN told \cup {Gate} ELSE told
  BY DEF AfterOn
<1>2. PICK g \in Domains : g = Gate
  BY <1>1, PrepareNow
<1>3. PICK p : p = Parent(g)
  OBVIOUS
<1>4. /\ job.user \in Domains /\ job.gates \in PathTo(job.user)
      /\ \A i \in DOMAIN job.gates : job.gates[i] \in Domains /\ count[job.gates[i]] = 0
      /\ job.gates # << >> /\ g = job.gates[1] /\ count[g] = 0
  BY <1>1, <1>2, PrepareNow
<1>5. /\ con \in [Domains -> SUBSET Bit] /\ prot \subseteq Bit
      /\ \A x \in Domains : con[x] \cap Banks(4) \subseteq Banks(Rams(x))
      /\ clks \in [Clocks -> Nat] /\ count \in [Domains -> Nat]
      /\ held \subseteq Domains /\ told \subseteq {x \in Domains : HasBus(x)}
  BY DEF IInv, Types
<1>6. told' \subseteq {x \in Domains : HasBus(x)}
  BY <1>1, <1>2, <1>5
<1>7. \A x \in Domains : /\ Holds(x) <=> count[x] > 0 \/ x = g
                         /\ count[x] > 0 => Needs(x)
                         /\ x = g /\ ~job.err1 => Needs(x)
  BY <1>1, <1>2 DEF Holds, Needs
<1>8. \A x \in Domains : Load(x) <= count[x] /\ Load(x) \in Nat /\ Load(x)' \in Nat /\ count[x] \in Nat
  BY <1>5, LoadNat, LoadNatNext DEF IInv, Counted
<1>9. p # "none" => p \in Domains /\ count[p] > 0
  BY <1>2, <1>3, <1>7, HeldIsCounted
<1>10. p # g /\ "none" \notin Domains
  BY <1>3, Parents
<1>11. CASE (job.err1 \/ job.err3) /\ p # "none" /\ count[p] = 1
  <2>1. /\ count' = [count EXCEPT ![p] = 0] /\ job' = Call("unprepare", <<p>>, p) /\ held' = held
    BY <1>2, <1>3, <1>11 DEF AfterOn
  <2>2. <<p>> \in Seq(Domains) /\ <<p>> # << >> /\ Head(<<p>>) = p /\ p \in Domains
    BY <1>9, <1>11
  <2>3. /\ WaitsAreLed' /\ InitGoesOn' /\ PrepareGoesOn' /\ job' \in Jobs
        /\ job.kind' = "unprepare" /\ job.gates' = <<p>> /\ Gate' = p /\ job.stage' = "enter"
        /\ job.steps' = << >> /\ job.skip' = FALSE
        /\ \A x : /\ ~Busy(x)'
                  /\ Holds(x)' <=> count'[x] > 0 \/ x = p
                  /\ Needs(x)' <=> count'[x] > 0 \/ x = p
    BY <2>1, <2>2, CallNext
  <2>4. count' \in [Domains -> Nat] /\ \A x \in Domains : count'[x] = IF x = p THEN 0 ELSE count[x]
    BY <1>5, <2>1
  <2>5. Types'
    BY <1>1, <1>5, <1>6, <2>1, <2>3, <2>4 DEF Types, Rams, Banks, Bank
  <2>6. RestIsClean' /\ CountedIsOn' /\ OffIsFenced'
    BY <2>3, <2>4, AfterOnRest
  <2>7. Counted'
    <3>1. \A x \in Domains : Holds(x)' => Holds(x)
      BY <1>7, <1>11, <2>3, <2>4
    <3>2. ~Holds(g)' /\ Holds(g)
      BY <1>4, <1>7, <1>10, <2>3, <2>4
    <3>3. ASSUME NEW x \in Domains
          PROVE  Load(x)' <= count'[x]
      <4>1. CASE x = p
        <5>1. Load(x)' <= Load(x) - 1
          BY <1>3, <2>1, <3>1, <3>2, <4>1, LoadDrops
        <5> QED BY <1>8, <1>11, <2>4, <4>1, <5>1
      <4>2. CASE x # p
        <5>1. Load(x)' <= Load(x)
          BY <2>1, <3>1, LoadKeeps
        <5> QED BY <1>8, <2>4, <4>2, <5>1
      <4> QED BY <4>1, <4>2
    <3> QED BY <3>3 DEF Counted
  <2>8. ClocksRun'
    <3>1. \A x \in Domains : Needs(x)' => Needs(x)
      BY <1>7, <1>11, <2>3, <2>4
    <3> QED BY <1>1, <3>1 DEF IInv, ClocksRun, Domains
  <2>9. UnprepareGoesOn'
    <3>1. Powered(p)'
      BY <1>1, <1>11, <2>2, SameRegisters DEF IInv, CountedIsOn
    <3> QED BY <2>2, <2>3, <2>4, <3>1 DEF UnprepareGoesOn
  <2> QED BY <2>3, <2>5, <2>6, <2>7, <2>8, <2>9 DEF IInv
<1>12. CASE (job.err1 \/ job.err3) /\ ~(p # "none" /\ count[p] = 1)
  <2>1. /\ count' = [x \in Domains |-> IF x = p THEN count[x] - 1 ELSE count[x]] /\ job' = Idle /\ held' = held
    BY <1>2, <1>3, <1>12 DEF AfterOn
  <2>2. p \in Domains => count[p] \in Nat /\ count[p] > 1
    BY <1>5, <1>9, <1>10, <1>12
  <2>3. /\ WaitsAreLed' /\ InitGoesOn' /\ PrepareGoesOn' /\ UnprepareGoesOn' /\ job' \in Jobs
        /\ \A x : ~Busy(x)' /\ (Holds(x)' <=> count'[x] > 0) /\ (Needs(x)' <=> count'[x] > 0)
    BY <2>1, IdleNext
  <2>4. count' \in [Domains -> Nat] /\ \A x \in Domains : count'[x] = IF x = p THEN count[x] - 1 ELSE count[x]
    BY <1>5, <2>1, <2>2
  <2>a. \A x \in Domains : count'[x] > 0 => count[x] > 0
    BY <1>5, <2>2, <2>4
  <2>5. Types'
    BY <1>1, <1>5, <1>6, <2>1, <2>3, <2>4 DEF Types, Rams, Banks, Bank
  <2>6. RestIsClean' /\ CountedIsOn' /\ OffIsFenced'
    BY <2>3, <2>a, AfterOnRest
  <2>7. Counted'
    <3>1. \A x \in Domains : Holds(x)' => Holds(x)
      BY <1>7, <2>3, <2>a
    <3>2. ~Holds(g)' /\ Holds(g)
      BY <1>4, <1>7, <1>10, <2>3, <2>4
    <3>3. ASSUME NEW x \in Domains
          PROVE  Load(x)' <= count'[x]
      <4>1. CASE x = p
        <5>1. Load(x)' <= Load(x) - 1
          BY <1>3, <2>1, <3>1, <3>2, <4>1, LoadDrops
        <5> QED BY <1>8, <2>4, <4>1, <5>1
      <4>2. CASE x # p
        <5>1. Load(x)' <= Load(x)
          BY <2>1, <3>1, LoadKeeps
        <5> QED BY <1>8, <2>4, <4>2, <5>1
      <4> QED BY <4>1, <4>2
    <3> QED BY <3>3 DEF Counted
  <2>8. ClocksRun'
    <3>1. \A x \in Domains : Needs(x)' => Needs(x)
      BY <1>7, <2>3, <2>a
    <3> QED BY <1>1, <3>1 DEF IInv, ClocksRun, Domains
  <2> QED BY <2>3, <2>5, <2>6, <2>7, <2>8 DEF IInv
<1>13. CASE ~(job.err1 \/ job.err3) /\ g = job.user
  <2>1. /\ count' = [count EXCEPT ![g] = 1] /\ job' = Idle /\ held' = held \cup {g}
    BY <1>2, <1>13 DEF AfterOn
  <2>3. /\ WaitsAreLed' /\ InitGoesOn' /\ PrepareGoesOn' /\ UnprepareGoesOn' /\ job' \in Jobs
        /\ \A x : ~Busy(x)' /\ (Holds(x)' <=> count'[x] > 0) /\ (Needs(x)' <=> count'[x] > 0)
    BY <2>1, IdleNext
  <2>4. count' \in [Domains -> Nat] /\ \A x \in Domains : count'[x] = IF x = g THEN 1 ELSE count[x]
    BY <1>5, <2>1
  <2>5. Types'
    BY <1>1, <1>5, <1>6, <2>1, <2>3, <2>4 DEF Types, Rams, Banks, Bank
  <2>6. RestIsClean' /\ CountedIsOn' /\ OffIsFenced'
    BY <1>2, <2>3, <2>4, AfterOnRest
  <2>7. Counted'
    <3>1. \A x \in Domains : Holds(x)' => Holds(x)
      BY <1>7, <2>3, <2>4
    <3>3. ASSUME NEW x \in Domains
          PROVE  Load(x)' <= count'[x]
      <4>1. CASE x = g
        <5>1. Load(x)' <= Load(x) + 1 /\ Load(x) = 0
          BY <1>4, <1>8, <3>1, <4>1, LoadOfUser
        <5> QED BY <1>8, <2>4, <4>1, <5>1
      <4>2. CASE x # g
        <5>1. Load(x)' <= Load(x)
          BY <2>1, <3>1, <4>2, LoadKeeps
        <5> QED BY <1>8, <2>4, <4>2, <5>1
      <4> QED BY <4>1, <4>2
    <3> QED BY <3>3 DEF Counted
  <2>8. ClocksRun'
    <3>1. \A x \in Domains : Needs(x)' => Needs(x)
      BY <1>7, <1>13, <2>3, <2>4
    <3> QED BY <1>1, <3>1 DEF IInv, ClocksRun, Domains
  <2> QED BY <2>3, <2>5, <2>6, <2>7, <2>8 DEF IInv
<1>14. CASE ~(job.err1 \/ job.err3) /\ g # job.user
  <2> DEFINE path == Tail(job.gates)
             h == Head(path)
             d == job.user
  <2>1. /\ count' = [count EXCEPT ![g] = 1] /\ job' = Call("prepare", path, job.user) /\ held' = held
    BY <1>2, <1>14 DEF AfterOn
  <2>2. /\ path \in PathTo(d) /\ path \in Seq(Domains) /\ path # << >> /\ h \in Domains /\ Parent(h) = g
        /\ \A i \in DOMAIN path : path[i] # g /\ \E j \in DOMAIN job.gates : path[i] = job.gates[j]
    BY <1>4, <1>14, PathGoesOn
  <2>3. /\ WaitsAreLed' /\ InitGoesOn' /\ UnprepareGoesOn' /\ job' \in Jobs
        /\ job.kind' = "prepare" /\ job.gates' = path /\ job.stage' = "enter"
        /\ job.steps' = << >> /\ job.user' = job.user
        /\ \A x : /\ ~Busy(x)'
                  /\ Holds(x)' <=> count'[x] > 0 \/ x = h
                  /\ Needs(x)' <=> count'[x] > 0
    BY <1>4, <2>1, <2>2, CallNext
  <2> HIDE DEF path, h
  <2>4. count' \in [Domains -> Nat] /\ \A x \in Domains : count'[x] = IF x = g THEN 1 ELSE count[x]
    BY <1>5, <2>1
  <2>5. Types'
    BY <1>1, <1>5, <1>6, <2>1, <2>3, <2>4 DEF Types, Rams, Banks, Bank
  <2>6. RestIsClean' /\ CountedIsOn' /\ OffIsFenced'
    BY <1>2, <2>3, <2>4, AfterOnRest
  <2>7. Counted'
    <3>1. \A x \in Domains \ {h} : Holds(x)' => Holds(x)
      BY <1>7, <2>3, <2>4
    <3>3. ASSUME NEW x \in Domains
          PROVE  Load(x)' <= count'[x]
      <4>1. CASE x = g
        <5>1. Load(x)' <= Load(x) + 1 /\ Load(x) = 0
          BY <1>4, <1>8, <2>1, <2>2, <3>1, <4>1, LoadRises
        <5> QED BY <1>8, <2>4, <4>1, <5>1
      <4>2. CASE x # g
        <5>1. Load(x)' <= Load(x)
          BY <2>1, <2>2, <3>1, <4>2, LoadKeeps
        <5> QED BY <1>8, <2>4, <4>2, <5>1
      <4> QED BY <4>1, <4>2
    <3> QED BY <3>3 DEF Counted
  <2>8. ClocksRun'
    <3>1. \A x \in Domains : Needs(x)' => Needs(x)
      BY <1>7, <1>14, <2>3, <2>4
    <3> QED BY <1>1, <3>1 DEF IInv, ClocksRun, Domains
  <2>9. PrepareGoesOn'
    <3>1. \A i \in DOMAIN path : path[i] \in Domains /\ count'[path[i]] = 0
      BY <1>4, <2>2, <2>4
    <3> QED BY <1>4, <2>2, <2>3, <3>1 DEF PrepareGoesOn, PathTo, Parent
  <2> QED BY <2>3, <2>5, <2>6, <2>7, <2>8, <2>9 DEF IInv
<1> QED BY <1>11, <1>12, <1>13, <1>14

LEMMA UnprepareNow ==
  ASSUME IInv, job.kind = "unprepare"
  PROVE  /\ job \in [kind : {"prepare", "unprepare"}, gates : Seq(Domains), stage : {"enter", "power", "bus"},
                     steps : Seq(Steps), skip : BOOLEAN, err1 : BOOLEAN, err3 : BOOLEAN, user : Domains]
         /\ Gate \in Domains /\ job # Idle /\ job.gates = <<Gate>> /\ count[Gate] = 0 /\ ~job.skip
         /\ \A d : Busy(d) <=> d = Gate /\ job.stage # "enter"
<1>1. /\ job \in [kind : {"prepare", "unprepare"}, gates : Seq(Domains), stage : {"enter", "power", "bus"},
                     steps : Seq(Steps), skip : BOOLEAN, err1 : BOOLEAN, err3 : BOOLEAN, user : Domains]
      /\ Gate \in Domains /\ job # Idle
  BY JobShape
<1>2. job.gates = <<Gate>> /\ count[Gate] = 0 /\ ~job.skip
  BY DEF IInv, UnprepareGoesOn
<1>3. \A d : Busy(d) <=> d = Gate /\ job.stage # "enter"
  BY <1>1, <1>2 DEF Busy
<1> QED BY <1>1, <1>2, <1>3

LEMMA BeforeOffInv == ASSUME IInv, BeforeOff PROVE IInv'
<1>1. /\ job.kind = "unprepare" /\ job.stage = "enter"
      /\ con' = con /\ prot' = prot /\ clks' = clks /\ count' = count /\ held' = held /\ bare' = bare
      /\ told' = IF HasBus(Gate) /\ Powered(Gate) THEN told \ {Gate} ELSE told
      /\ job' = [job EXCEPT !.stage = "bus", !.skip = ~Powered(Gate),
               !.steps = IF Powered(Gate) THEN ctrl_bus_prot(Gate, STA_POWER_DOWN) ELSE << >>]
  BY Zenon DEF BeforeOff
<1>2. PICK g \in Domains : g = Gate
  BY <1>1, UnprepareNow
<1>3. Powered(g) /\ count[g] = 0
  BY <1>1, <1>2 DEF IInv, UnprepareGoesOn
<1>4. told' \subseteq told /\ g \notin told'
  BY <1>1, <1>2, <1>3 DEF IInv, Types
<1>5. PICK s : s = ctrl_bus_prot(g, STA_POWER_DOWN)
  OBVIOUS
<1>6. /\ Sequence(s) /\ s \in Seq(Steps) /\ Done(s, "set") = RamByBus(g) /\ Done(s, "clr") = {}
      /\ Done(s, "fence") = Bits(g) /\ Done(s, "open") = {}
  BY <1>5, BusEffect DEF FencesOf, FenceAndOpen, Effect, Sequence
<1>7. Lasting(s)
  <2>1. Done(s, "set") \cap Done(s, "clr") = {} /\ Done(s, "fence") \cap Done(s, "open") = {}
    BY <1>6
  <2> QED BY <1>6, <2>1, OppositeLasts
<1>8. /\ job.kind' = "unprepare" /\ job.stage' = "bus" /\ job.steps' = s /\ ~job.skip'
      /\ job.gates' = job.gates /\ job' # Idle /\ job' \in Jobs
  <2>1. job' = [job EXCEPT !.stage = "bus", !.skip = FALSE, !.steps = s]
    BY <1>1, <1>2, <1>3, <1>5
  <2> QED BY <1>1, <1>6, <2>1, UnprepareNow DEF Jobs, Idle
<1>9. Gate' = g
  BY <1>2, <1>8 DEF Gate
<1>10. \A d : ~Busy(d) /\ (Busy(d)' <=> d = g)
  BY <1>1, <1>8, <1>9, UnprepareNow DEF Busy
<1>11. Types'
  BY <1>1, <1>4, <1>8 DEF IInv, Types, Rams, Banks, Bank
<1>12. WaitsAreLed'
  BY <1>6, <1>7, <1>8, StartLed
<1>13. RestIsClean'
  BY <1>1, <1>10, SameRegisters DEF IInv, RestIsClean
<1>14. \A d : (Holds(d)' <=> Holds(d)) /\ (Needs(d)' <=> Needs(d))
  BY <1>1, <1>2, <1>8, <1>9 DEF Holds, Needs
<1>15. Counted'
  <2>1. \A d \in Domains : Load(d)' = Load(d)
    BY <1>1, <1>14 DEF Load, One
  <2> QED BY <1>1, <2>1 DEF IInv, Counted
<1>16. CountedIsOn'
  <2>1. \A d \in Domains : count[d] > 0 \/ d \in told => Powered(d)
    BY DEF IInv, CountedIsOn
  <2> QED BY <1>1, <1>3, <1>4, <1>10, <2>1, SameRegisters DEF CountedIsOn
<1>17. ClocksRun'
  BY <1>1, <1>14 DEF IInv, ClocksRun
<1>18. InitGoesOn' /\ PrepareGoesOn'
  BY <1>8 DEF InitGoesOn, PrepareGoesOn
<1>19. FenceComes'
  <2>1. Powered(g)' /\ Never({"clr", "open"})'
    BY <1>1, <1>3, <1>6, <1>8, SameRegisters DEF Never
  <2>2. Done(job.steps', "set") \subseteq Banks(Rams(g)) /\ Done(job.steps', "fence") \subseteq Bits(g)
    BY <1>6, <1>8 DEF RamByBus
  <2>3. \A b \in Bits(g) : Comes("fence", b)'
    BY <1>6, <1>8 DEF Comes, Undoes
  <2> QED BY <1>9, <2>1, <2>2, <2>3 DEF FenceComes, Bits, Done, Rams, Banks, Bank
<1>20. UnprepareGoesOn'
  <2>1. job.gates' = <<g>> /\ count'[g] = 0
    BY <1>1, <1>2, <1>3, <1>8, UnprepareNow
  <2> QED BY <1>8, <1>9, <1>19, <2>1 DEF UnprepareGoesOn
<1>21. OffIsFenced'
  BY <1>1, SameRegisters DEF IInv
<1> QED BY <1>11, <1>12, <1>13, <1>15, <1>16, <1>17, <1>18, <1>20, <1>21 DEF IInv

\* Disabling a list of clocks touches the clocks of that list alone.
LEMMA ClocksFall ==
  ASSUME clks \in [Clocks -> Nat], NEW list, DisableList(list)
  PROVE  clks' \in [Clocks -> Nat] /\ \A c \in Clocks : c \notin Named(list) => clks'[c] = clks[c]
  BY DEF DisableList

LEMMA SramClocksApart ==
  /\ \A d : "mm_sel" \notin Named(pre_clk2(d)) /\ "mfg_sel" \notin Named(pre_clk2(d))
  /\ \A d : d # "dis" => "mm_sel" \notin Named(pre_clk1(d))
  /\ \A d : d # "async" => "mfg_sel" \notin Named(pre_clk1(d))
<1>1. ASSUME NEW d
      PROVE  "mm_sel" \notin Named(pre_clk2(d)) /\ "mfg_sel" \notin Named(pre_clk2(d))
  <2> USE DEF Named
  <2>1. CASE d = "dis"
    BY <2>1 DEF pre_clk2
  <2>2. CASE d = "isp"
    BY <2>2 DEF pre_clk2
  <2>3. CASE d = "cam"
    BY <2>3 DEF pre_clk2
  <2>4. CASE d = "ven"
    BY <2>4 DEF pre_clk2
  <2>5. CASE d = "vde"
    BY <2>5 DEF pre_clk2
  <2>6. CASE d \notin {"dis", "isp", "cam", "ven", "vde"}
    BY <2>6 DEF pre_clk2
  <2> QED BY <2>1, <2>2, <2>3, <2>4, <2>5, <2>6
<1>2. ASSUME NEW d
      PROVE  (d # "dis" => "mm_sel" \notin Named(pre_clk1(d))) /\ (d # "async" => "mfg_sel" \notin Named(pre_clk1(d)))
  <2> USE DEF Named
  <2>1. CASE d = "dis"
    BY <2>1 DEF pre_clk1
  <2>2. CASE d = "async"
    BY <2>2 DEF pre_clk1
  <2>3. CASE d \notin {"dis", "async"}
    BY <2>3 DEF pre_clk1
  <2> QED BY <2>1, <2>2, <2>3
<1> QED BY <1>1, <1>2

LEMMA UnpreparePowerInv == ASSUME IInv, UnpreparePower PROVE IInv'
<1>1. /\ job.kind = "unprepare" /\ job.stage = "bus" /\ job.steps = << >>
      /\ con' = con /\ prot' = prot /\ count' = count /\ held' = held /\ told' = told /\ bare' = bare
      /\ DisableList(pre_clk2(Gate))
      /\ job' = [job EXCEPT !.stage = "power",
               !.steps = IF job.skip THEN << >> ELSE ctrl_pwr(Gate, STA_POWER_DOWN)]
  BY Zenon DEF UnpreparePower
<1>2. PICK g \in Domains : g = Gate
  BY <1>1, UnprepareNow
<1>3. Bits(g) \subseteq prot /\ count[g] = 0 /\ ~job.skip
  <2>1. \A b \in Bits(g) : Comes("fence", b)
    BY <1>1, <1>2 DEF IInv, UnprepareGoesOn, FenceComes
  <2> QED BY <1>1, <1>2, <2>1, NothingIsDone, UnprepareNow DEF Is
<1>5. PICK s : s = ctrl_pwr(g, STA_POWER_DOWN)
  OBVIOUS
<1>6. /\ Sequence(s) /\ s \in Seq(Steps) /\ Done(s, "fence") = {} /\ Done(s, "open") = {}
      /\ "on" \in Done(s, "clr") /\ "on" \notin Done(s, "set")
      /\ "iso" \in Done(s, "set") /\ "iso" \notin Done(s, "clr")
      /\ Done(s, "set") \cap Banks(4) \subseteq Banks(Rams(g))
      /\ Done(s, "set") \cap Done(s, "clr") = {}
  BY <1>5, PowerDownGoes DEF Sequence
<1>7. Lasting(s)
  <2>1. Done(s, "fence") \cap Done(s, "open") = {}
    BY <1>6
  <2> QED BY <1>6, <2>1, OppositeLasts
<1>8. /\ job.kind' = "unprepare" /\ job.stage' = "power" /\ job.steps' = s /\ ~job.skip'
      /\ job.gates' = job.gates /\ job' # Idle /\ job' \in Jobs
  <2>1. job' = [job EXCEPT !.stage = "power", !.steps = s]
    BY <1>1, <1>2, <1>3, <1>5
  <2> QED BY <1>1, <1>3, <1>6, <2>1, UnprepareNow DEF Jobs, Idle
<1>9. Gate' = g
  BY <1>2, <1>8 DEF Gate
<1>10. \A d : Busy(d)' <=> Busy(d)
  BY <1>1, <1>2, <1>8, <1>9, UnprepareNow DEF Busy
<1>c. /\ clks' \in [Clocks -> Nat] /\ clks'["mm_sel"] = clks["mm_sel"] /\ clks'["mfg_sel"] = clks["mfg_sel"]
  <2>1. clks \in [Clocks -> Nat]
    BY DEF IInv, Types
  <2> QED BY <1>1, <2>1, ClocksFall, SramClocks, SramClocksApart
<1>11. Types'
  BY <1>1, <1>8, <1>c DEF IInv, Types, Rams, Banks, Bank
<1>12. WaitsAreLed'
  BY <1>6, <1>7, <1>8, StartLed
<1>13. RestIsClean'
  BY <1>1, <1>10, SameRegisters DEF IInv, RestIsClean
<1>14. \A d : (Holds(d)' <=> Holds(d)) /\ (Needs(d)' <=> Needs(d))
  BY <1>1, <1>2, <1>8, <1>9 DEF Holds, Needs
<1>15. Counted'
  <2>1. \A d \in Domains : Load(d)' = Load(d)
    BY <1>1, <1>14 DEF Load, One
  <2> QED BY <1>1, <2>1 DEF IInv, Counted
<1>16. CountedIsOn'
  BY <1>1, <1>10, SameRegisters DEF IInv, CountedIsOn
<1>17. ClocksRun'
  BY <1>c, <1>14 DEF IInv, ClocksRun
<1>18. InitGoesOn' /\ PrepareGoesOn'
  BY <1>8 DEF InitGoesOn, PrepareGoesOn
<1>19. PowerGoes'
  <2>1. Bits(g) \subseteq prot' /\ Never({"fence", "open"})' /\ Comes("clr", "on")' /\ Comes("set", "iso")'
    BY <1>1, <1>3, <1>6, <1>8 DEF Never, Comes, Undoes
  <2>2. Done(job.steps', "set") \cap Banks(4) \subseteq Banks(Rams(g))
    BY <1>6, <1>8
  <2> QED BY <1>9, <2>1, <2>2 DEF PowerGoes, Bits, Done, Rams, Banks, Bank
<1>20. UnprepareGoesOn'
  <2>1. job.gates' = <<g>> /\ count'[g] = 0
    BY <1>1, <1>2, <1>3, <1>8, UnprepareNow
  <2> QED BY <1>8, <1>9, <1>19, <2>1 DEF UnprepareGoesOn
<1>21. OffIsFenced'
  BY <1>1, SameRegisters DEF IInv
<1> QED BY <1>11, <1>12, <1>13, <1>15, <1>16, <1>17, <1>18, <1>20, <1>21 DEF IInv

\* A reference given back: the gate is switched off with its last.
LEMMA DropNext ==
  ASSUME NEW d \in Domains, Drop(d), count[d] \in Nat, count[d] > 0, count'[d] = count[d] - 1, Powered(d)'
  PROVE  /\ WaitsAreLed' /\ InitGoesOn' /\ PrepareGoesOn' /\ UnprepareGoesOn' /\ job' \in Jobs
         /\ \A x : /\ ~Busy(x)'
                   /\ Holds(x)' => count'[x] > 0 \/ x = d
                   /\ Needs(x)' => count'[x] > 0 \/ x = d
<1>1. CASE count[d] = 1
  <2>1. job' = Call("unprepare", <<d>>, d)
    BY <1>1 DEF Drop
  <2>2. <<d>> \in Seq(Domains) /\ <<d>> # << >> /\ Head(<<d>>) = d
    OBVIOUS
  <2>3. /\ WaitsAreLed' /\ InitGoesOn' /\ PrepareGoesOn' /\ job' \in Jobs
        /\ job.kind' = "unprepare" /\ job.gates' = <<d>> /\ Gate' = d /\ job.stage' = "enter"
        /\ job.steps' = << >> /\ job.skip' = FALSE
        /\ \A x : /\ ~Busy(x)'
                  /\ Holds(x)' <=> count'[x] > 0 \/ x = d
                  /\ Needs(x)' <=> count'[x] > 0 \/ x = d
    BY <2>1, <2>2, CallNext
  <2>4. UnprepareGoesOn'
    BY <1>1, <2>3 DEF UnprepareGoesOn
  <2> QED BY <2>3, <2>4
<1>2. CASE count[d] # 1
  <2>1. job' = Idle
    BY <1>2 DEF Drop
  <2> QED BY <2>1, IdleNext
<1> QED BY <1>1, <1>2

LEMMA UnprepareInv == ASSUME IInv, NEW d \in Domains, Unprepare(d) PROVE IInv'
<1>1. /\ job = Idle /\ d \in held /\ held' = held \ {d} /\ Drop(d)
      /\ count' = [count EXCEPT ![d] = count[d] - 1]
      /\ con' = con /\ prot' = prot /\ clks' = clks /\ told' = told /\ bare' = bare
  BY DEF Unprepare
<1>2. \A x : ~Busy(x) /\ (Holds(x) <=> count[x] > 0) /\ (Needs(x) <=> count[x] > 0)
  BY <1>1, IdleNow
<1>3. /\ con \in [Domains -> SUBSET Bit] /\ prot \subseteq Bit
      /\ \A x \in Domains : con[x] \cap Banks(4) \subseteq Banks(Rams(x))
      /\ clks \in [Clocks -> Nat] /\ count \in [Domains -> Nat]
      /\ held \subseteq Domains /\ told \subseteq {x \in Domains : HasBus(x)}
  BY DEF IInv, Types
<1>4. count[d] \in Nat /\ count[d] > 0
  BY <1>1, HeldIsCounted
<1>5. count' \in [Domains -> Nat] /\ \A x \in Domains : count'[x] = IF x = d THEN count[d] - 1 ELSE count[x]
  BY <1>1, <1>3, <1>4
<1>6. Powered(d) /\ Powered(d)'
  BY <1>1, <1>4, SameRegisters DEF IInv, CountedIsOn
<1>7. /\ WaitsAreLed' /\ InitGoesOn' /\ PrepareGoesOn' /\ UnprepareGoesOn' /\ job' \in Jobs
      /\ \A x : /\ ~Busy(x)'
                /\ Holds(x)' => count'[x] > 0 \/ x = d
                /\ Needs(x)' => count'[x] > 0 \/ x = d
  BY <1>1, <1>4, <1>5, <1>6, DropNext
<1>8. Types'
  BY <1>1, <1>3, <1>5, <1>7 DEF Types, Rams, Banks, Bank
<1>9. \A x \in Domains : count'[x] > 0 => count[x] > 0
  BY <1>4, <1>5
<1>10. RestIsClean'
  BY <1>1, <1>2, <1>7, SameRegisters DEF IInv, RestIsClean
<1>11. CountedIsOn'
  BY <1>1, <1>7, <1>9, SameRegisters DEF IInv, CountedIsOn
<1>12. Counted'
  <2>1. \A x \in Domains : Load(x) <= count[x] /\ Load(x) \in Nat /\ Load(x)' \in Nat /\ count[x] \in Nat
    BY <1>3, LoadNat, LoadNatNext DEF IInv, Counted
  <2>2. \A x \in Domains : Holds(x)' => Holds(x)
    BY <1>2, <1>4, <1>7, <1>9
  <2>3. ASSUME NEW x \in Domains
        PROVE  Load(x)' <= count'[x]
    <3>1. CASE x = d
      <4>1. Load(x)' <= Load(x) - 1
        BY <1>1, <2>2, <3>1, LoadOfUser
      <4> QED BY <1>5, <2>1, <3>1, <4>1
    <3>2. CASE x # d
      <4>1. Load(x)' <= Load(x)
        BY <1>1, <2>2, LoadKeeps
      <4> QED BY <1>5, <2>1, <3>2, <4>1
    <3> QED BY <3>1, <3>2
  <2> QED BY <2>3 DEF Counted
<1>13. ClocksRun'
  <2>1. \A x \in Domains : Needs(x)' => Needs(x)
    BY <1>2, <1>4, <1>7, <1>9
  <2> QED BY <1>1, <2>1 DEF IInv, ClocksRun, Domains
<1>14. OffIsFenced'
  BY <1>1, SameRegisters DEF IInv
<1> QED BY <1>7, <1>8, <1>10, <1>11, <1>12, <1>13, <1>14 DEF IInv

LEMMA UnpreparedInv == ASSUME IInv, Unprepared PROVE IInv'
<1>1. /\ job.kind = "unprepare" /\ job.stage = "power" /\ job.steps = << >>
      /\ con' = con /\ prot' = prot /\ held' = held /\ told' = told /\ bare' = bare
      /\ DisableList(pre_clk1(Gate))
  BY DEF Unprepared
<1>2. PICK g \in Domains : g = Gate
  BY <1>1, UnprepareNow
<1>3. PICK p : p = Parent(g)
  OBVIOUS
<1>4. /\ p = "none" => count' = count /\ job' = Idle
      /\ p # "none" => count' = [count EXCEPT ![p] = count[p] - 1] /\ Drop(p)
  BY <1>2, <1>3 DEF Unprepared
<1>5. /\ con \in [Domains -> SUBSET Bit] /\ prot \subseteq Bit
      /\ \A x \in Domains : con[x] \cap Banks(4) \subseteq Banks(Rams(x))
      /\ clks \in [Clocks -> Nat] /\ count \in [Domains -> Nat]
      /\ held \subseteq Domains /\ told \subseteq {x \in Domains : HasBus(x)}
  BY DEF IInv, Types
<1>6. ~Powered(g) /\ ~Up(g) /\ count[g] = 0 /\ \A d : Busy(d) <=> d = g
  <2>1. Comes("clr", "on")
    BY <1>1 DEF IInv, UnprepareGoesOn, PowerGoes
  <2> QED BY <1>1, <1>2, <2>1, NothingIsDone, UnprepareNow DEF Is, Up, Powered
<1>7. \A x \in Domains : /\ Holds(x) <=> count[x] > 0 \/ x = g
                         /\ Needs(x) <=> count[x] > 0 \/ x = g
  BY <1>1, <1>2 DEF Holds, Needs
<1>8. p # "none" => p \in Domains /\ count[p] \in Nat /\ count[p] > 0 /\ Powered(p) /\ Powered(p)'
  <2>1. p # "none" => p \in Domains /\ count[p] > 0
    BY <1>2, <1>3, <1>7, HeldIsCounted
  <2> QED BY <1>1, <1>5, <2>1, SameRegisters DEF IInv, CountedIsOn
<1>9. p # g /\ "none" \notin Domains
  BY <1>3, Parents
<1>10. count' \in [Domains -> Nat] /\ \A x \in Domains : count'[x] = IF x = p THEN count[x] - 1 ELSE count[x]
  <2>1. CASE p = "none"
    BY <1>4, <1>5, <1>9, <2>1
  <2>2. CASE p # "none"
    BY <1>4, <1>5, <1>8, <2>2
  <2> QED BY <2>1, <2>2
<1>11. /\ WaitsAreLed' /\ InitGoesOn' /\ PrepareGoesOn' /\ UnprepareGoesOn' /\ job' \in Jobs
       /\ \A x : /\ ~Busy(x)'
                 /\ Holds(x)' => count'[x] > 0 \/ x = p
                 /\ Needs(x)' => count'[x] > 0 \/ x = p
  <2>1. CASE p = "none"
    BY <1>4, <2>1, IdleNext
  <2>2. CASE p # "none"
    BY <1>4, <1>8, <1>10, <2>2, DropNext
  <2> QED BY <2>1, <2>2
<1>12. \A x \in Domains : count'[x] > 0 => count[x] > 0
  BY <1>8, <1>9, <1>10
<1>13. /\ clks' \in [Clocks -> Nat]
       /\ g # "dis" => clks'["mm_sel"] = clks["mm_sel"]
       /\ g # "async" => clks'["mfg_sel"] = clks["mfg_sel"]
  BY <1>1, <1>2, <1>5, ClocksFall, SramClocks, SramClocksApart
<1>14. Types'
  BY <1>1, <1>5, <1>10, <1>11, <1>13 DEF Types, Rams, Banks, Bank
<1>15. RestIsClean'
  BY <1>1, <1>6, <1>11, SameRegisters DEF IInv, RestIsClean
<1>16. CountedIsOn'
  BY <1>1, <1>11, <1>12, SameRegisters DEF IInv, CountedIsOn
<1>17. Counted'
  <2>1. \A x \in Domains : Load(x) <= count[x] /\ Load(x) \in Nat /\ Load(x)' \in Nat /\ count[x] \in Nat
    BY <1>5, LoadNat, LoadNatNext DEF IInv, Counted
  <2>2. \A x \in Domains : Holds(x)' => Holds(x)
    BY <1>7, <1>8, <1>9, <1>11, <1>12
  <2>3. Holds(g) /\ ~Holds(g)'
    BY <1>6, <1>7, <1>9, <1>10, <1>11
  <2>4. ASSUME NEW x \in Domains
        PROVE  Load(x)' <= count'[x]
    <3>1. CASE x = p
      <4>1. Load(x)' <= Load(x) - 1
        BY <1>1, <1>3, <2>2, <2>3, <3>1, LoadDrops
      <4> QED BY <1>10, <2>1, <3>1, <4>1
    <3>2. CASE x # p
      <4>1. Load(x)' <= Load(x)
        BY <1>1, <2>2, LoadKeeps
      <4> QED BY <1>10, <2>1, <3>2, <4>1
    <3> QED BY <3>1, <3>2
  <2> QED BY <2>4 DEF Counted
<1>18. ClocksRun'
  <2>1. \A x \in Domains : Needs(x)' => x # g /\ Needs(x)
    BY <1>6, <1>7, <1>8, <1>9, <1>10, <1>11, <1>12
  <2> QED BY <1>13, <2>1 DEF IInv, ClocksRun, Domains
<1>19. OffIsFenced'
  BY <1>1, SameRegisters DEF IInv
<1> QED BY <1>11, <1>14, <1>15, <1>16, <1>17, <1>18, <1>19 DEF IInv

LEMMA NextInv == ASSUME IInv, Next PROVE IInv'
  BY RunStepInv, InitDoneInv, PreparePowerInv, PrepareBusInv, AfterOnInv, BeforeOffInv, UnpreparePowerInv,
     UnpreparedInv, PrepareInv, UnprepareInv DEF Next

LEMMA SameInv == ASSUME IInv, UNCHANGED vars PROVE IInv'
<1>1. /\ con' = con /\ prot' = prot /\ clks' = clks /\ count' = count /\ held' = held /\ told' = told
      /\ job' = job /\ bare' = bare /\ team' = team /\ fails' = fails
  BY DEF vars
<1>2. Types'
  BY <1>1 DEF IInv, Types
<1>3. WaitsAreLed'
  BY <1>1 DEF IInv, WaitsAreLed, Is, Gate
<1>4. RestIsClean' /\ CountedIsOn' /\ OffIsFenced'
  BY <1>1 DEF IInv, RestIsClean, Busy, Clean, Up, Powered, Reached, Gate, CountedIsOn, OffIsFenced
<1>5. Counted' /\ ClocksRun'
  BY <1>1 DEF IInv, Counted, Load, Holds, One, Gate, ClocksRun, Needs
<1>6. InitGoesOn'
  BY <1>1 DEF IInv, InitGoesOn, Never, Comes, Is, Gate, Powered
<1>7. PrepareGoesOn'
  BY <1>1 DEF IInv, PrepareGoesOn, Gate, Powered, Up, PowerComes, BusComes, Never, Comes, Is, Step1
<1>8. UnprepareGoesOn'
  BY <1>1 DEF IInv, UnprepareGoesOn, Gate, Powered, FenceComes, PowerGoes, Never, Comes, Is
<1> QED BY <1>2, <1>3, <1>4, <1>5, <1>6, <1>7, <1>8 DEF IInv

-----------------------------------------------------------------------------
(* The bootloader's domains.                                                *)

LEMMA InitInv == ASSUME Init PROVE IInv
<1>1. PICK up \in {{"dpy", "ifr"} \cup x : x \in SUBSET {"dis", "md1"}} :
        /\ con = [d \in Domains |->
                   IF d \in up THEN IF d = "md1" THEN Working \cup {"sramiso"} ELSE Working
                   ELSE IF d = "md1" THEN {"extra", "clkdis", "iso", "sram0", "rstb"}
                   ELSE Asleep(d)]
        /\ prot = (UNION {Bits(d) : d \in Domains \ up}) \ (IF "dis" \in up THEN Bits("dis") ELSE {})
  BY Zenon DEF Init
<1>2. /\ clks = [c \in Clocks |-> 0] /\ count = [d \in Domains |-> 0] /\ held = {} /\ told = {} /\ bare = TRUE
      /\ job = [kind |-> "init", steps |-> md1_pwr(STA_POWER_DOWN), gates |-> <<"md1">>]
  BY DEF Init
<1>3. up \subseteq {"dpy", "ifr", "dis", "md1"} /\ up \subseteq Domains
  BY DEF Domains
<1>4. \A d \in Domains : Rams(d) \in {0, 1, 2, 4} /\ Banks(Rams(d)) \subseteq Banks(4) /\ Banks(Rams(d)) \subseteq Bit
  BY TheBanks, BanksAreBits DEF Rams
<1>5. \A d \in Domains : con[d] = IF d \in up THEN IF d = "md1" THEN Working \cup {"sramiso"} ELSE Working
                   ELSE IF d = "md1" THEN {"extra", "clkdis", "iso", "sram0", "rstb"}
                   ELSE {"iso", "clkdis"} \cup Banks(Rams(d))
  BY <1>1 DEF Asleep
<1>6. Banks(4) \cap {"on", "on2nd", "rstb", "sramiso", "extra", "clkdis", "iso"} = {}
  BY TheBanks
<1>7. \A d \in Domains : /\ d \in up => Clean(d) /\ Powered(d)
                         /\ d \notin up => ~Powered(d) /\ ~Up(d)
  <2> TAKE d \in Domains
  <2>1. CASE d \in up
    <3>1. con[d] = Working \cup {"sramiso"} \/ con[d] = Working
      BY <1>5, <2>1
    <3> QED BY <1>6, <2>1, <3>1 DEF Clean, Up, Powered, Working
  <2>2. CASE d \notin up
    <3>1. con[d] = {"extra", "clkdis", "iso", "sram0", "rstb"} \/ con[d] = {"iso", "clkdis"} \cup Banks(Rams(d))
      BY <1>5, <2>2
    <3>2. "on" \notin con[d]
      <4>1. "on" \notin Banks(Rams(d))
        BY <1>4, <1>6
      <4> QED BY <3>1, <4>1
    <3> QED BY <2>2, <3>2 DEF Up, Powered
  <2> QED BY <2>1, <2>2
<1>8. job \in Jobs /\ job.kind = "init" /\ job # Idle /\ Gate = "md1" /\ job.steps = ctrl_pwr("md1", STA_POWER_DOWN)
  <2>1. md1_pwr(STA_POWER_DOWN) = ctrl_pwr("md1", STA_POWER_DOWN)
    BY DEF ctrl_pwr
  <2>2. ctrl_pwr("md1", STA_POWER_DOWN) \in Seq(Steps)
    BY ModemDownEffect DEF Effect, Sequence
  <2>3. job = [kind |-> "init", steps |-> ctrl_pwr("md1", STA_POWER_DOWN), gates |-> <<"md1">>]
    BY <1>2, <2>1
  <2> HIDE DEF ctrl_pwr
  <2>4. Head(<<"md1">>) = "md1"
    OBVIOUS
  <2> QED BY <2>2, <2>3, <2>4 DEF Jobs, Idle, Gate
<1>9. PICK s : s = job.steps
  OBVIOUS
<1>10. /\ Sequence(s) /\ Done(s, "set") = {"extra", "clkdis", "iso", "sram0"} /\ Done(s, "clr") = {"sramiso", "on", "on2nd"}
       /\ Done(s, "fence") = {} /\ Done(s, "open") = {}
  BY <1>8, <1>9, ModemDownEffect DEF Effect
<1>11. Types
  <2>1. \A d \in Domains : con[d] \in SUBSET Bit
    <3> TAKE d \in Domains
    <3>1. Working \subseteq Bit /\ {"sramiso", "extra", "clkdis", "iso", "sram0", "rstb"} \subseteq Bit
      BY TheBanks DEF Working, Bit
    <3>2. \/ con[d] = Working \cup {"sramiso"} \/ con[d] = Working
          \/ con[d] = {"extra", "clkdis", "iso", "sram0", "rstb"} \/ con[d] = {"iso", "clkdis"} \cup Banks(Rams(d))
      BY <1>5
    <3> QED BY <1>4, <3>1, <3>2
  <2>2. con \in [Domains -> SUBSET Bit]
    BY <1>1, <2>1
  <2>3. \A d \in Domains : Bits(d) \in SUBSET Bit
    BY BusEffect DEF FencesOf, FenceAndOpen
  <2>4. prot \subseteq Bit
    BY <1>1, <2>3
  <2>5. \A d \in Domains : con[d] \cap Banks(4) \subseteq Banks(Rams(d))
    <3> TAKE d \in Domains
    <3>1. CASE d = "md1"
      <4>1. Rams(d) = 1
        BY <3>1 DEF Rams
      <4> QED BY <1>5, <1>6, <3>1, <4>1, TheBanks DEF Working
    <3>2. CASE d # "md1"
      BY <1>5, <1>6, <3>2 DEF Working
    <3> QED BY <3>1, <3>2
  <2> QED BY <1>2, <1>8, <2>2, <2>4, <2>5 DEF Types
<1>12. WaitsAreLed
  <2>1. Lasting(s)
    <3>1. Done(s, "set") \cap Done(s, "clr") = {} /\ Done(s, "fence") \cap Done(s, "open") = {}
      BY <1>10
    <3> QED BY <1>10, <3>1, OppositeLasts
  <2>2. ASSUME NEW i \in DOMAIN s, s[i][1] \in Waits, NEW b \in Asked(s[i])
        PROVE  /\ b \notin Done(s, Undoes(AskedTo(s[i])))
               /\ \E j \in 1..(i - 1) : s[j][1] = AskedTo(s[i]) /\ b \in s[j][2]
    BY <1>10, <2>1, <2>2 DEF Sequence, Led, Lasting
  <2> QED BY <1>9, <2>2 DEF WaitsAreLed
\* a fence bit that is set belongs to a domain that is down
<1>13. \A d \in Domains : \A b \in Bits(d) \cap prot : \E e \in Domains : b \in Bits(e) /\ e \notin up
  BY <1>1
<1>14. RestIsClean
  <2>1. ASSUME NEW d \in Domains, Powered(d)
        PROVE  Clean(d) /\ Reached(d)
    <3>1. d \in up
      BY <1>7, <2>1
    <3> QED BY <1>7, <1>13, <3>1 DEF Reached
  <2> QED BY <2>1 DEF RestIsClean
<1>15. \A d \in Domains : count[d] = 0 /\ ~Holds(d) /\ d \notin held /\ ~Needs(d)
  BY <1>2, <1>8 DEF Holds, Needs
<1>16. Counted
  <2>1. ASSUME NEW d \in Domains
        PROVE  Load(d) = 0
    BY <1>15, Children DEF Load, One
  <2> QED BY <1>15, <2>1 DEF Counted
<1>17. CountedIsOn
  BY <1>2, <1>15 DEF CountedIsOn
<1>18. ClocksRun
  BY <1>15 DEF ClocksRun, Domains
<1>19. \A d \in Domains \ up : \A b \in Bits(d) : b \in prot \/ ("dis" \in up /\ b \in Bits("dis"))
  BY <1>1
<1>20. InitGoesOn
  <2>1. Never({"fence", "open"}) /\ Comes("clr", "on")
    BY <1>9, <1>10 DEF Never, Comes, Undoes
  <2>2. Done(job.steps, "set") \cap Banks(4) \subseteq Banks(1)
    BY <1>9, <1>10, TheBanks
  <2>3. ASSUME NEW d \in Domains \ {"md1"}, ~Powered(d), NEW b \in Bits(d)
        PROVE  b \in prot \/ \E e \in Domains \ {d, "md1"} : Powered(e) /\ b \in Bits(e)
    <3>1. d \notin up
      BY <1>7, <2>3
    <3>2. "dis" \in up => "dis" \in Domains \ {d, "md1"} /\ Powered("dis")
      BY <1>3, <1>7, <3>1
    <3> QED BY <1>19, <3>1, <3>2
  <2> QED BY <1>2, <1>15, <2>1, <2>2, <2>3 DEF InitGoesOn
<1>21. PrepareGoesOn /\ UnprepareGoesOn
  BY <1>8 DEF PrepareGoesOn, UnprepareGoesOn
<1>22. OffIsFenced
  BY <1>2, <1>8, <1>20 DEF OffIsFenced, InitGoesOn
<1> QED BY <1>11, <1>12, <1>14, <1>16, <1>17, <1>18, <1>20, <1>21, <1>22 DEF IInv

-----------------------------------------------------------------------------
(* What the invariant says to the users of a gate and to the busy waits.    *)

LEMMA UsersReach == ASSUME IInv PROVE InUseIsReachable
<1> SUFFICES ASSUME NEW d \in held \cup told
             PROVE  /\ Up(d) /\ con[d] \cap Banks(4) = {}
                    /\ \A b \in Bits(d) \cap prot : \E e \in Domains \ {d} :
                         b \in Bits(e) /\ (~Up(e) \/ (job # Idle /\ e = Gate))
  BY DEF InUseIsReachable
<1>1. d \in Domains
  BY DEF IInv, Types
<1>2. count[d] > 0 \/ d \in told
  BY <1>1, HeldIsCounted
<1>3. Powered(d) /\ ~Busy(d)
  BY <1>1, <1>2 DEF IInv, CountedIsOn
<1>4. Clean(d) /\ Reached(d)
  BY <1>1, <1>3 DEF IInv, RestIsClean
<1> QED BY <1>4 DEF Clean, Reached, Busy

LEMMA WaitsEnd == ASSUME IInv PROVE WaitsCanEnd
<1> SUFFICES ASSUME job.kind # "none", job.steps # << >>, ~(job.kind = "prepare" /\ job.err1)
             PROVE  Answered(Gate, Step1)
  BY DEF WaitsCanEnd
<1>1. job.steps \in Seq(Steps) /\ Step1 = job.steps[1] /\ 1 \in DOMAIN job.steps /\ Gate \in Domains
  BY JobShape, TailAt DEF Step1
<1>2. CASE Step1[1] \notin Waits
  BY <1>2 DEF Answered, Waits
<1>3. CASE Step1[1] \in Waits
  <2>1. \A b \in Asked(Step1) : Is(AskedTo(Step1), b)
    <3>1. 1..(1 - 1) = {}
      OBVIOUS
    <3> QED BY <1>1, <1>3, <3>1 DEF IInv, WaitsAreLed
  <2>2. Clocked(Gate)
    <3>1. job.kind # "init" => job.stage # "enter"
      BY Phase
    <3>2. job.kind \in {"init", "prepare", "unprepare"} /\ (job.kind = "init" => Gate = "md1")
      BY JobShape
    <3>3. job.kind # "init" => Needs(Gate) /\ Holds(Gate)
      BY <3>1, <3>2 DEF Needs, Holds
    <3>4. Gate = "dis" => clks["mm_sel"] > 0
      BY <3>2, <3>3 DEF IInv, ClocksRun
    <3>5. Gate \in {"isp", "ven"} => clks["mm_sel"] > 0
      <4>1. Gate \in {"isp", "ven"} => count["dis"] > 0
        BY <1>1, <3>2, <3>3, HeldIsCounted DEF Parent
      <4>2. Gate \in {"isp", "ven"} => Needs("dis")
        BY <4>1 DEF Needs
      <4> QED BY <4>2 DEF IInv, ClocksRun
    <3>6. Gate = "mfg" => clks["mfg_sel"] > 0
      <4>1. Gate = "mfg" => count["async"] > 0
        BY <1>1, <3>2, <3>3, HeldIsCounted DEF Parent
      <4>2. Gate = "mfg" => Needs("async")
        BY <4>1 DEF Needs
      <4> QED BY <4>2 DEF IInv, ClocksRun
    <3> QED BY <3>4, <3>5, <3>6 DEF Clocked
  <2>3. CASE Step1[1] = "acked"
    BY <2>1, <2>3 DEF Answered, Asked, AskedTo, Is
  <2>4. CASE Step1[1] = "asleep"
    BY <2>1, <2>2, <2>4 DEF Answered, Asked, AskedTo, Is
  <2>5. CASE Step1[1] = "awake"
    BY <2>1, <2>2, <2>5 DEF Answered, Asked, AskedTo, Is
  <2>6. CASE Step1[1] = "wait"
    BY <2>1, <2>6 DEF Answered, Asked, AskedTo, Is, Powered
  <2> QED BY <1>3, <2>3, <2>4, <2>5, <2>6 DEF Waits
<1> QED BY <1>2, <1>3

-----------------------------------------------------------------------------
(* SiaAmp: one call at a time, and two amplifiers on one address.               *)

LEMMA KindIs ==
  ASSUME kind \in AllKinds
  PROVE  /\ kind.chip \in {"sia8101", "sia8108", "sia8109"} /\ kind.pins \in BOOLEAN
         /\ ~kind.pins => kind.chip = "sia8109"
<1>1. CASE kind \in {[chip |-> x, pins |-> TRUE] : x \in {"sia8101", "sia8108", "sia8109"}}
  <2>1. PICK x \in {"sia8101", "sia8108", "sia8109"} : kind = [chip |-> x, pins |-> TRUE]
    BY <1>1
  <2> QED BY <2>1
<1>2. CASE kind = [chip |-> "sia8109", pins |-> FALSE]
  BY <1>2
<1> QED BY <1>1, <1>2 DEF AllKinds

\* A step, and what comes after it.
LEMMA StepFirst ==
  ASSUME NEW a \in Amp!Amps, NEW rest \in Seq(Amp!Steps), NEW step,
         [do |-> step, amp |-> a] \in Amp!Steps
  PROVE  /\ Amp!Do(step, a) \o rest \in Seq(Amp!Steps) /\ Amp!Do(step, a) \o rest # << >>
         /\ Head(Amp!Do(step, a) \o rest) = [do |-> step, amp |-> a]
         /\ Tail(Amp!Do(step, a) \o rest) = rest
<1> DEFINE s == [do |-> step, amp |-> a]
<1>1. s \in Amp!Steps /\ Amp!Do(step, a) = <<s>>
  BY DEF Amp!Do
<1> HIDE DEF s
<1>2. /\ <<s>> \o rest \in Seq(Amp!Steps) /\ <<s>> \o rest # << >> /\ Head(<<s>> \o rest) = s
      /\ Tail(<<s>> \o rest) = rest
  BY <1>1
<1> QED BY <1>1, <1>2 DEF s

\* What each step does.
LEMMA StepMoves ==
  ASSUME late \in Nat, NEW c, NEW h, Amp!Step(c), h = Head(todo[c])
  PROVE  /\ todo[c] # << >> /\ UNCHANGED <<kind, removed, goal, mixed>>
         /\ h.do \in {"resume", "return", "owi_mode"} => UNCHANGED <<rst, conf, chipon>>
         /\ h.do # "resume" /\ late' = late => todo' = [todo EXCEPT ![c] = Tail(todo[c])]
         /\ h.do = "resume" => Amp!ResumeStep(c)
         /\ h.do = "rst_high" => rst' = rst \union {h.amp} /\ UNCHANGED <<conf, chipon>>
         /\ h.do = "reg_init" => Amp!RegInit(c)
         /\ h.do = "chip_on" => Amp!ChipOn(c)
         /\ h.do = "chip_off" => Amp!ChipOff(c)
         /\ h.do = "rst_low" => Amp!RstLow(c)
         /\ late' = 0 => late = 0
<1>1. CASE Amp!ResumeStep(c)
  BY <1>1 DEF Amp!ResumeStep, Amp!AtStep
<1>2. CASE Amp!OwiWriteMode(c)
  <2>1. /\ todo[c] # << >> /\ h.do = "owi_mode" /\ UNCHANGED <<kind, rst, conf, chipon, removed, goal, mixed>>
        /\ (todo' = [todo EXCEPT ![c] = Tail(@)] /\ late' = late) \/ late' = late + 1
    BY <1>2 DEF Amp!OwiWriteMode, Amp!AtStep, Amp!Advance
  <2> QED BY <2>1
<1>3. CASE Amp!RstHigh(c)
  BY <1>3 DEF Amp!RstHigh, Amp!AtStep, Amp!StepOnly, Amp!Advance, Amp!Amp
<1>4. CASE Amp!RegInit(c)
  BY <1>4 DEF Amp!RegInit, Amp!AtStep, Amp!StepOnly, Amp!Advance
<1>5. CASE Amp!ChipOn(c)
  BY <1>5 DEF Amp!ChipOn, Amp!AtStep, Amp!StepOnly, Amp!Advance
<1>6. CASE Amp!ChipOff(c)
  BY <1>6 DEF Amp!ChipOff, Amp!AtStep, Amp!StepOnly, Amp!Advance
<1>7. CASE Amp!RstLow(c)
  BY <1>7 DEF Amp!RstLow, Amp!AtStep, Amp!StepOnly, Amp!Advance
<1>8. CASE Amp!Return(c)
  BY <1>8 DEF Amp!Return, Amp!AtStep, Amp!StepOnly, Amp!Advance
<1> QED BY <1>1, <1>2, <1>3, <1>4, <1>5, <1>6, <1>7, <1>8 DEF Amp!Step

\* Who hears what: an amplifier that is up or down is never reached by what is sent to
\* the other, but through the address of the default device.
LEMMA Heard ==
  ASSUME kind \in AllKinds, NEW a \in Amp!Amps, NEW b \in Amp!Amps, a # b
  PROVE  /\ Amp!Up(b) => b \notin Amp!Hear(a)
         /\ Amp!Down(b) /\ kind.pins => b \notin Amp!Hear(a)
         /\ kind.chip # "sia8101" => Amp!Hear(a) = (IF kind.pins THEN {a} \intersect rst ELSE {a})
         /\ kind.chip = "sia8101" /\ a \in rst /\ conf[a] = a => a \in Amp!Hear(a)
         /\ kind.chip = "sia8101" /\ a \in rst /\ conf[a] = "none" => a \in Amp!Hear("L")
         /\ kind.chip = "sia8101" /\ b \notin rst => b \notin Amp!Hear("L")
  BY KindIs DEF Amp!Hear, Amp!AddressOf, Amp!Up, Amp!Down, Amp!Amps

StepOn(n) == IF n = 1 THEN "chip_on" ELSE IF n = 2 THEN "reg_init" ELSE IF n = 3 THEN "rst_high" ELSE "owi_mode"

LEMMA TurningOnFirst ==
  ASSUME NEW a \in Amp!Amps, NEW rest \in Seq(Amp!Steps), NEW n \in 1 .. 4
  PROVE  /\ Amp!TurningOn(n, a, rest) \in Seq(Amp!Steps) /\ Amp!TurningOn(n, a, rest) # << >>
         /\ Head(Amp!TurningOn(n, a, rest)) = [do |-> StepOn(n), amp |-> a]
         /\ Tail(Amp!TurningOn(n, a, rest)) = IF n = 1 THEN rest ELSE Amp!TurningOn(n - 1, a, rest)
<1>1. /\ Amp!TurningOn(1, a, rest) \in Seq(Amp!Steps) /\ Amp!TurningOn(1, a, rest) # << >>
      /\ Head(Amp!TurningOn(1, a, rest)) = [do |-> "chip_on", amp |-> a]
      /\ Tail(Amp!TurningOn(1, a, rest)) = rest
  <2>1. [do |-> "chip_on", amp |-> a] \in Amp!Steps /\ rest \in Seq(Amp!Steps)
    BY DEF Amp!Steps
  <2>2. Amp!TurningOn(1, a, rest) = Amp!Do("chip_on", a) \o rest
    BY DEF Amp!TurningOn
  <2>3. PICK r : r = rest
    OBVIOUS
  <2>4. /\ Amp!Do("chip_on", a) \o r \in Seq(Amp!Steps) /\ Amp!Do("chip_on", a) \o r # << >>
        /\ Head(Amp!Do("chip_on", a) \o r) = [do |-> "chip_on", amp |-> a]
        /\ Tail(Amp!Do("chip_on", a) \o r) = r
    BY <2>1, <2>3, StepFirst
  <2> QED BY <2>2, <2>3, <2>4
<1>2. /\ Amp!TurningOn(2, a, rest) \in Seq(Amp!Steps) /\ Amp!TurningOn(2, a, rest) # << >>
      /\ Head(Amp!TurningOn(2, a, rest)) = [do |-> "reg_init", amp |-> a]
      /\ Tail(Amp!TurningOn(2, a, rest)) = Amp!TurningOn(1, a, rest)
  <2>1. [do |-> "reg_init", amp |-> a] \in Amp!Steps /\ Amp!TurningOn(1, a, rest) \in Seq(Amp!Steps)
    BY <1>1 DEF Amp!Steps
  <2>2. Amp!TurningOn(2, a, rest) = Amp!Do("reg_init", a) \o Amp!TurningOn(1, a, rest)
    BY DEF Amp!TurningOn
  <2>3. PICK r : r = Amp!TurningOn(1, a, rest)
    OBVIOUS
  <2>4. /\ Amp!Do("reg_init", a) \o r \in Seq(Amp!Steps) /\ Amp!Do("reg_init", a) \o r # << >>
        /\ Head(Amp!Do("reg_init", a) \o r) = [do |-> "reg_init", amp |-> a]
        /\ Tail(Amp!Do("reg_init", a) \o r) = r
    BY <2>1, <2>3, StepFirst
  <2> QED BY <2>2, <2>3, <2>4
<1>3. /\ Amp!TurningOn(3, a, rest) \in Seq(Amp!Steps) /\ Amp!TurningOn(3, a, rest) # << >>
      /\ Head(Amp!TurningOn(3, a, rest)) = [do |-> "rst_high", amp |-> a]
      /\ Tail(Amp!TurningOn(3, a, rest)) = Amp!TurningOn(2, a, rest)
  <2>1. [do |-> "rst_high", amp |-> a] \in Amp!Steps /\ Amp!TurningOn(2, a, rest) \in Seq(Amp!Steps)
    BY <1>2 DEF Amp!Steps
  <2>2. Amp!TurningOn(3, a, rest) = Amp!Do("rst_high", a) \o Amp!TurningOn(2, a, rest)
    BY DEF Amp!TurningOn
  <2>3. PICK r : r = Amp!TurningOn(2, a, rest)
    OBVIOUS
  <2>4. /\ Amp!Do("rst_high", a) \o r \in Seq(Amp!Steps) /\ Amp!Do("rst_high", a) \o r # << >>
        /\ Head(Amp!Do("rst_high", a) \o r) = [do |-> "rst_high", amp |-> a]
        /\ Tail(Amp!Do("rst_high", a) \o r) = r
    BY <2>1, <2>3, StepFirst
  <2> QED BY <2>2, <2>3, <2>4
<1>4. /\ Amp!TurningOn(4, a, rest) \in Seq(Amp!Steps) /\ Amp!TurningOn(4, a, rest) # << >>
      /\ Head(Amp!TurningOn(4, a, rest)) = [do |-> "owi_mode", amp |-> a]
      /\ Tail(Amp!TurningOn(4, a, rest)) = Amp!TurningOn(3, a, rest)
  <2>1. [do |-> "owi_mode", amp |-> a] \in Amp!Steps /\ Amp!TurningOn(3, a, rest) \in Seq(Amp!Steps)
    BY <1>3 DEF Amp!Steps
  <2>2. Amp!TurningOn(4, a, rest) = Amp!Do("owi_mode", a) \o Amp!TurningOn(3, a, rest)
    BY DEF Amp!TurningOn
  <2>3. PICK r : r = Amp!TurningOn(3, a, rest)
    OBVIOUS
  <2>4. /\ Amp!Do("owi_mode", a) \o r \in Seq(Amp!Steps) /\ Amp!Do("owi_mode", a) \o r # << >>
        /\ Head(Amp!Do("owi_mode", a) \o r) = [do |-> "owi_mode", amp |-> a]
        /\ Tail(Amp!Do("owi_mode", a) \o r) = r
    BY <2>1, <2>3, StepFirst
  <2> QED BY <2>2, <2>3, <2>4
<1>5. n = 1 \/ n = 2 \/ n = 3 \/ n = 4
  OBVIOUS
<1>6. /\ n = 2 => n - 1 = 1
      /\ n = 3 => n - 1 = 2
      /\ n = 4 => n - 1 = 3
  OBVIOUS
<1> HIDE DEF Amp!TurningOn
<1>7. StepOn(1) = "chip_on" /\ StepOn(2) = "reg_init" /\ StepOn(3) = "rst_high" /\ StepOn(4) = "owi_mode"
  BY DEF StepOn
<1> QED BY <1>1, <1>2, <1>3, <1>4, <1>5, <1>6, <1>7

LEMMA TurnsOn ==
  ASSUME Amp!Types, late = 0, late' = 0, NEW c \in Callers, Amp!Step(c),
         NEW a \in Amp!Amps, NEW b \in Amp!Amps, a # b,
         NEW n \in 1 .. 4, NEW rest \in Seq(Amp!Steps), todo[c] = Amp!TurningOn(n, a, rest)
  PROVE  /\ todo' = [todo EXCEPT ![c] = IF n = 1 THEN rest ELSE Amp!TurningOn(n - 1, a, rest)]
         /\ UNCHANGED <<kind, goal, mixed>>
         /\ Amp!BeforeOn(n, a) => IF n = 1 THEN Amp!Up(a)' ELSE Amp!BeforeOn(n - 1, a)'
         /\ b \notin rst => b \notin rst'
         /\ (Amp!SharesAddress(a) => b \notin rst) =>
              (Amp!Up(b) => Amp!Up(b)') /\ (Amp!Down(b) => Amp!Down(b)')
<1>1. kind \in AllKinds /\ c \in DOMAIN todo
  BY DEF Amp!Types
<1>0. late \in Nat /\ late' = late /\ todo[c] = todo[c]
  OBVIOUS
<1>2. /\ Head(todo[c]) = [do |-> StepOn(n), amp |-> a]
      /\ Tail(todo[c]) = IF n = 1 THEN rest ELSE Amp!TurningOn(n - 1, a, rest)
  <2>1. /\ Head(Amp!TurningOn(n, a, rest)) = [do |-> StepOn(n), amp |-> a]
        /\ Tail(Amp!TurningOn(n, a, rest)) = IF n = 1 THEN rest ELSE Amp!TurningOn(n - 1, a, rest)
    BY TurningOnFirst
  <2>2. PICK s : s = Amp!TurningOn(n, a, rest)
    OBVIOUS
  <2> QED BY <2>1, <2>2
<1>3. PICK h, t : h = Head(todo[c]) /\ t = Tail(todo[c])
  OBVIOUS
<1>m. /\ UNCHANGED <<kind, goal, mixed>>
      /\ h.do \in {"resume", "return", "owi_mode"} => UNCHANGED <<rst, conf, chipon>>
      /\ h.do # "resume" => todo' = [todo EXCEPT ![c] = t]
      /\ h.do = "rst_high" => rst' = rst \union {h.amp} /\ UNCHANGED <<conf, chipon>>
      /\ h.do = "reg_init" =>
           /\ rst' = rst
           /\ conf' = [x \in Amp!Amps |-> IF x \in Amp!Hear(Amp!InitMap(h.amp)) THEN h.amp ELSE conf[x]]
           /\ chipon' = IF kind.chip = "sia8101" THEN chipon ELSE chipon \union Amp!Hear(Amp!InitMap(h.amp))
      /\ h.do = "chip_on" =>
           /\ UNCHANGED <<rst, conf>>
           /\ chipon' = IF kind.chip = "sia8101" THEN chipon \union Amp!Hear(h.amp) ELSE chipon
  <2>1. h.do = "reg_init" => Amp!RegInit(c)
    BY <1>0, <1>3, StepMoves
  <2>2. h.do = "chip_on" => Amp!ChipOn(c)
    BY <1>0, <1>3, StepMoves
  <2>3. h.amp = Amp!Amp(c)
    BY <1>3 DEF Amp!Amp
  <2>4. /\ UNCHANGED <<kind, goal, mixed>>
        /\ h.do \in {"resume", "return", "owi_mode"} => UNCHANGED <<rst, conf, chipon>>
        /\ h.do # "resume" => todo' = [todo EXCEPT ![c] = t]
        /\ h.do = "rst_high" => rst' = rst \union {h.amp} /\ UNCHANGED <<conf, chipon>>
    BY <1>0, <1>3, StepMoves
  <2> QED BY <2>1, <2>2, <2>3, <2>4 DEF Amp!RegInit, Amp!ChipOn
<1>8. h.do = StepOn(n) /\ h.amp = a /\ t = IF n = 1 THEN rest ELSE Amp!TurningOn(n - 1, a, rest)
  BY <1>2, <1>3
<1> USE DEF Amp!Amps
<1>4. CASE n = 4
  <2>1. h.do = "owi_mode" /\ h.amp = a /\ t = Amp!TurningOn(3, a, rest)
    BY <1>8, <1>4 DEF StepOn
  <2>2. todo' = [todo EXCEPT ![c] = Amp!TurningOn(3, a, rest)] /\ UNCHANGED <<rst, conf, chipon, kind, goal, mixed>>
    BY <1>m, <2>1
  <2> QED BY <1>4, <2>2 DEF Amp!BeforeOn, Amp!Up, Amp!Down
<1>5. CASE n = 3
  <2>1. h.do = "rst_high" /\ h.amp = a /\ t = Amp!TurningOn(2, a, rest)
    BY <1>8, <1>5 DEF StepOn
  <2>2. /\ todo' = [todo EXCEPT ![c] = Amp!TurningOn(2, a, rest)] /\ UNCHANGED <<conf, chipon, kind, goal, mixed>>
        /\ rst' = rst \union {a}
    BY <1>m, <2>1
  <2> QED BY <1>5, <2>2 DEF Amp!BeforeOn, Amp!Up, Amp!Down
<1>6. CASE n = 2
  <2>1. h.do = "reg_init" /\ h.amp = a /\ t = Amp!TurningOn(1, a, rest)
    BY <1>8, <1>6 DEF StepOn
  <2>3. PICK hears : hears = Amp!Hear(Amp!InitMap(a))
    OBVIOUS
  <2>2. todo' = [todo EXCEPT ![c] = Amp!TurningOn(1, a, rest)] /\ UNCHANGED <<rst, kind, goal, mixed>>
    BY <1>m, <2>1
  <2>4. /\ conf' = [x \in Amp!Amps |-> IF x \in hears THEN a ELSE conf[x]]
        /\ chipon' = IF kind.chip = "sia8101" THEN chipon ELSE chipon \union hears
    BY <1>m, <2>1, <2>3
  <2>5. \A x \in Amp!Amps : conf'[x] = IF x \in hears THEN a ELSE conf[x]
    BY <2>4
  <2>6. Amp!BeforeOn(2, a) => Amp!BeforeOn(1, a)'
    <3>1. CASE kind.chip = "sia8101"
      <4>1. kind.pins
        BY <1>1, <3>1, KindIs
      <4>2. CASE Amp!Up(a)
        BY <2>2, <2>4, <2>5, <3>1, <4>1, <4>2 DEF Amp!Up, Amp!BeforeOn
      <4>3. CASE a \in rst /\ conf[a] = "none"
        <5>1. Amp!InitMap(a) = "L"
          BY <3>1 DEF Amp!InitMap, Amp!SharesAddress
        <5>2. a \in hears
          BY <1>1, <2>3, <3>1, <4>3, <5>1, Heard
        <5> QED BY <2>2, <2>5, <3>1, <4>3, <5>2 DEF Amp!BeforeOn
      <4> QED BY <4>1, <4>2, <4>3 DEF Amp!BeforeOn
    <3>2. CASE kind.chip # "sia8101"
      <4>1. Amp!InitMap(a) = a
        BY <3>2 DEF Amp!InitMap, Amp!SharesAddress
      <4>2. kind.pins => a \in rst \/ ~Amp!BeforeOn(2, a)
        BY DEF Amp!BeforeOn, Amp!Up
      <4>3. Amp!BeforeOn(2, a) => a \in hears
        BY <1>1, <2>3, <3>2, <4>1, <4>2, Heard
      <4> QED BY <2>2, <2>4, <2>5, <3>2, <4>2, <4>3 DEF Amp!BeforeOn
    <3> QED BY <3>1, <3>2
  <2>7. ASSUME Amp!SharesAddress(a) => b \notin rst
        PROVE  (Amp!Up(b) => Amp!Up(b)') /\ (Amp!Down(b) => Amp!Down(b)')
    <3>1. Amp!Up(b) \/ Amp!Down(b) => b \notin hears
      <4>1. CASE Amp!SharesAddress(a)
        <5>1. b \notin rst /\ Amp!InitMap(a) = "L" /\ kind.chip = "sia8101"
          BY <2>7, <4>1 DEF Amp!InitMap, Amp!SharesAddress
        <5> QED BY <1>1, <2>3, <5>1, Heard
      <4>2. CASE ~Amp!SharesAddress(a)
        <5>1. Amp!InitMap(a) = a
          BY <4>2 DEF Amp!InitMap
        <5>2. ~kind.pins => b \notin Amp!Hear(a)
          BY <1>1, KindIs, Heard
        <5> QED BY <1>1, <2>3, <5>1, <5>2, Heard
      <4> QED BY <4>1, <4>2
    <3> QED BY <2>2, <2>4, <2>5, <3>1 DEF Amp!Up, Amp!Down
  <2> QED BY <1>6, <2>2, <2>6, <2>7
<1>7. CASE n = 1
  <2>1. h.do = "chip_on" /\ h.amp = a /\ t = rest
    BY <1>8, <1>7 DEF StepOn
  <2>2. /\ todo' = [todo EXCEPT ![c] = rest] /\ UNCHANGED <<rst, conf, kind, goal, mixed>>
        /\ chipon' = IF kind.chip = "sia8101" THEN chipon \union Amp!Hear(a) ELSE chipon
    BY <1>m, <2>1
  <2>3. Amp!BeforeOn(1, a) => Amp!Up(a)'
    BY <1>1, <2>2, Heard, KindIs DEF Amp!BeforeOn, Amp!Up
  <2>4. (Amp!Up(b) => Amp!Up(b)') /\ (Amp!Down(b) => Amp!Down(b)')
    BY <1>1, <2>2, Heard, KindIs DEF Amp!Up, Amp!Down
  <2> QED BY <1>7, <2>2, <2>3, <2>4
<1> QED BY <1>4, <1>5, <1>6, <1>7

LEMMA SuspendingFirst ==
  ASSUME NEW a \in Amp!Amps, NEW rest \in Seq(Amp!Steps), NEW n \in 1 .. 2
  PROVE  /\ Amp!Suspending(n, a, rest) \in Seq(Amp!Steps) /\ Amp!Suspending(n, a, rest) # << >>
         /\ Head(Amp!Suspending(n, a, rest)) = [do |-> IF n = 1 THEN "rst_low" ELSE "chip_off", amp |-> a]
         /\ Tail(Amp!Suspending(n, a, rest)) = IF n = 1 THEN rest ELSE Amp!Suspending(n - 1, a, rest)
<1>1. PICK r : r = Amp!Do("rst_low", a) \o rest
  OBVIOUS
<1>2. [do |-> "rst_low", amp |-> a] \in Amp!Steps /\ [do |-> "chip_off", amp |-> a] \in Amp!Steps
  BY DEF Amp!Steps
<1>3. /\ r \in Seq(Amp!Steps) /\ r # << >>
      /\ Head(r) = [do |-> "rst_low", amp |-> a] /\ Tail(r) = rest
  BY <1>1, <1>2, StepFirst
<1>4. PICK q : q = Amp!Do("chip_off", a) \o r
  OBVIOUS
<1>5. /\ q \in Seq(Amp!Steps) /\ q # << >>
      /\ Head(q) = [do |-> "chip_off", amp |-> a] /\ Tail(q) = r
  BY <1>2, <1>3, <1>4, StepFirst
<1>6. Amp!Suspending(1, a, rest) = r /\ Amp!Suspending(2, a, rest) = q
  BY <1>1, <1>4 DEF Amp!Suspending
<1>7. n = 1 \/ (n = 2 /\ n - 1 = 1)
  OBVIOUS
<1> QED BY <1>3, <1>5, <1>6, <1>7

LEMMA Suspends ==
  ASSUME Amp!Types, Amp!NoPins, late = 0, late' = 0, NEW c \in Callers, Amp!Step(c),
         NEW a \in Amp!Amps, NEW b \in Amp!Amps, a # b,
         NEW n \in 1 .. 2, NEW rest \in Seq(Amp!Steps), todo[c] = Amp!Suspending(n, a, rest)
  PROVE  /\ todo' = [todo EXCEPT ![c] = IF n = 1 THEN rest ELSE Amp!Suspending(n - 1, a, rest)]
         /\ UNCHANGED <<kind, goal, mixed>>
         /\ Amp!BeforeOff(n, a) => IF n = 1 THEN Amp!Down(a)' ELSE Amp!BeforeOff(n - 1, a)'
         /\ b \notin rst => b \notin rst'
         /\ (Amp!Up(b) => Amp!Up(b)') /\ (Amp!Down(b) => Amp!Down(b)')
<1>1. kind \in AllKinds
  BY DEF Amp!Types
<1>2. /\ Head(todo[c]) = [do |-> IF n = 1 THEN "rst_low" ELSE "chip_off", amp |-> a]
      /\ Tail(todo[c]) = IF n = 1 THEN rest ELSE Amp!Suspending(n - 1, a, rest)
  <2>1. /\ Head(Amp!Suspending(n, a, rest)) = [do |-> IF n = 1 THEN "rst_low" ELSE "chip_off", amp |-> a]
        /\ Tail(Amp!Suspending(n, a, rest)) = IF n = 1 THEN rest ELSE Amp!Suspending(n - 1, a, rest)
    BY SuspendingFirst
  <2>2. PICK s : s = Amp!Suspending(n, a, rest)
    OBVIOUS
  <2> QED BY <2>1, <2>2
<1>3. PICK h, t : h = Head(todo[c]) /\ t = Tail(todo[c])
  OBVIOUS
<1>4. /\ UNCHANGED <<kind, goal, mixed>>
      /\ h.do # "resume" => todo' = [todo EXCEPT ![c] = t]
      /\ h.do = "chip_off" =>
           /\ UNCHANGED <<rst, conf>>
           /\ chipon' = IF kind.chip = "sia8108" THEN chipon ELSE chipon \ Amp!Hear(h.amp)
      /\ h.do = "rst_low" =>
           IF kind.pins
           THEN /\ rst' = rst \ {h.amp} /\ chipon' = chipon \ {h.amp}
                /\ conf' = [conf EXCEPT ![h.amp] = "none"]
           ELSE UNCHANGED <<rst, conf, chipon>>
  <2>0. late \in Nat /\ late' = late
    OBVIOUS
  <2>1. h.do = "chip_off" => Amp!ChipOff(c)
    BY <2>0, <1>3, StepMoves
  <2>2. h.do = "rst_low" => Amp!RstLow(c)
    BY <2>0, <1>3, StepMoves
  <2>3. h.amp = Amp!Amp(c)
    BY <1>3 DEF Amp!Amp
  <2>4. UNCHANGED <<kind, goal, mixed>> /\ (h.do # "resume" => todo' = [todo EXCEPT ![c] = t])
    BY <2>0, <1>3, StepMoves
  <2> QED BY <2>1, <2>2, <2>3, <2>4 DEF Amp!ChipOff, Amp!RstLow
<1>5. /\ h.do = (IF n = 1 THEN "rst_low" ELSE "chip_off") /\ h.amp = a
      /\ t = IF n = 1 THEN rest ELSE Amp!Suspending(n - 1, a, rest)
  BY <1>2, <1>3
<1>6. todo' = [todo EXCEPT ![c] = IF n = 1 THEN rest ELSE Amp!Suspending(n - 1, a, rest)]
  BY <1>4, <1>5
<1>7. CASE n = 1
  <2>1. IF kind.pins
        THEN /\ rst' = rst \ {a} /\ chipon' = chipon \ {a}
             /\ conf' = [conf EXCEPT ![a] = "none"]
        ELSE UNCHANGED <<rst, conf, chipon>>
    BY <1>4, <1>5, <1>7
  <2>2. kind.pins => conf'[a] = "none" /\ conf'[b] = conf[b]
    BY <2>1 DEF Amp!Types
  <2>3. UNCHANGED kind
    BY <1>4
  <2> QED BY <1>4, <1>6, <1>7, <2>1, <2>2, <2>3 DEF Amp!Up, Amp!Down, Amp!BeforeOff
<1>8. CASE n = 2
  <2>1. /\ UNCHANGED <<rst, conf, kind>>
        /\ chipon' = IF kind.chip = "sia8108" THEN chipon ELSE chipon \ Amp!Hear(a)
    BY <1>4, <1>5, <1>8
  <2>2. ~kind.pins => a \notin chipon' /\ b \notin Amp!Hear(a)
    BY <1>1, <2>1, KindIs, Heard
  <2>3. (Amp!Up(b) => Amp!Up(b)') /\ (Amp!Down(b) => Amp!Down(b)')
    BY <1>1, <2>1, Heard DEF Amp!Up, Amp!Down
  <2> QED BY <1>4, <1>6, <1>8, <2>1, <2>2, <2>3 DEF Amp!BeforeOff
<1> QED BY <1>7, <1>8

LEMMA DoIsSteps ==
  ASSUME NEW step \in {"resume", "return", "owi_mode", "rst_high", "reg_init", "chip_on", "chip_off", "rst_low"},
         NEW a \in Amp!Amps
  PROVE  Amp!Do(step, a) \in Seq(Amp!Steps)
<1>1. [do |-> step, amp |-> a] \in Amp!Steps
  BY DEF Amp!Steps
<1> QED BY <1>1 DEF Amp!Do

\* The calls' steps in the forms of the invariant.
LEMMA CallForms ==
  ASSUME NEW a \in Amp!Amps
  PROVE  /\ Amp!Suspend(a) = Amp!Suspending(2, a, << >>)
         /\ Amp!Resume(a) = Amp!Resuming(a, << >>)
         /\ Amp!Reboot(a) = Amp!Suspending(2, a, Amp!Resuming(a, << >>))
<1>1. PICK off, low, back, ret : off = Amp!Do("chip_off", a) /\ low = Amp!Do("rst_low", a)
                                 /\ back = Amp!Do("resume", a) /\ ret = Amp!Do("return", a)
  OBVIOUS
<1>2. off \in Seq(Amp!Steps) /\ low \in Seq(Amp!Steps) /\ back \in Seq(Amp!Steps) /\ ret \in Seq(Amp!Steps)
  BY <1>1, DoIsSteps
<1>3. ret \o << >> = ret /\ low \o << >> = low /\ (off \o low) \o (back \o ret) = off \o (low \o (back \o ret))
  BY <1>2
<1> QED BY <1>1, <1>3 DEF Amp!Suspend, Amp!Resume, Amp!Reboot, Amp!Suspending, Amp!Resuming

\* Lists of steps joined.
Joins(x, y, z) == x \o y \in Seq(Amp!Steps) /\ (x \o y) \o z = x \o (y \o z)

LEMMA StepsJoin ==
  ASSUME NEW x \in Seq(Amp!Steps), NEW y \in Seq(Amp!Steps), NEW z \in Seq(Amp!Steps)
  PROVE  Joins(x, y, z)
  BY DEF Joins

OnJoin(mode, x, y, z, rest) ==
  /\ (mode \o ((x \o y) \o z)) \o rest = mode \o (x \o (y \o (z \o rest)))
  /\ mode \o ((x \o y) \o z) \in Seq(Amp!Steps)

LEMMA OnJoins ==
  ASSUME NEW x \in Seq(Amp!Steps), NEW y \in Seq(Amp!Steps), NEW z \in Seq(Amp!Steps),
         NEW mode \in Seq(Amp!Steps), NEW rest \in Seq(Amp!Steps)
  PROVE  OnJoin(mode, x, y, z, rest)
<1>1. x \o y \in Seq(Amp!Steps) /\ z \o rest \in Seq(Amp!Steps)
  <2>1. Joins(x, y, z) /\ Joins(z, rest, rest)
    BY Zenon, StepsJoin
  <2> QED BY Zenon, <2>1 DEF Joins
<1>2. (x \o y) \o z \in Seq(Amp!Steps) /\ ((x \o y) \o z) \o rest = (x \o y) \o (z \o rest)
  <2>1. Joins(x \o y, z, rest)
    BY Zenon, <1>1, StepsJoin
  <2> QED BY Zenon, <2>1 DEF Joins
<1>3. /\ mode \o ((x \o y) \o z) \in Seq(Amp!Steps)
      /\ (mode \o ((x \o y) \o z)) \o rest = mode \o (((x \o y) \o z) \o rest)
  <2>1. Joins(mode, (x \o y) \o z, rest)
    BY Zenon, <1>2, StepsJoin
  <2> QED BY Zenon, <2>1 DEF Joins
<1>4. (x \o y) \o (z \o rest) = x \o (y \o (z \o rest))
  <2>1. Joins(x, y, z \o rest)
    BY Zenon, <1>1, StepsJoin
  <2> QED BY Zenon, <2>1 DEF Joins
<1> QED BY Zenon, <1>2, <1>3, <1>4 DEF OnJoin

AsideJoin(off, low, up, back, ret, rest) ==
  (((off \o low) \o up) \o (back \o ret)) \o rest = off \o (low \o (up \o (back \o (ret \o rest))))

LEMMA AsideJoins ==
  ASSUME NEW off \in Seq(Amp!Steps), NEW low \in Seq(Amp!Steps), NEW up \in Seq(Amp!Steps),
         NEW back \in Seq(Amp!Steps), NEW ret \in Seq(Amp!Steps), NEW rest \in Seq(Amp!Steps)
  PROVE  AsideJoin(off, low, up, back, ret, rest)
<1>1. (back \o ret) \o rest = back \o (ret \o rest) /\ back \o ret \in Seq(Amp!Steps)
  <2>1. Joins(back, ret, rest)
    BY Zenon, StepsJoin
  <2> QED BY Zenon, <2>1 DEF Joins
<1>2. off \o low \in Seq(Amp!Steps) /\ (back \o ret) \o rest \in Seq(Amp!Steps)
  <2>1. Joins(off, low, rest) /\ Joins(back \o ret, rest, rest)
    BY Zenon, <1>1, StepsJoin
  <2> QED BY Zenon, <2>1 DEF Joins
<1>3. PICK aside, r : /\ aside = off \o low /\ aside \in Seq(Amp!Steps)
                      /\ r = (back \o ret) \o rest /\ r \in Seq(Amp!Steps)
  BY Zenon, <1>2
<1>4. aside \o up \in Seq(Amp!Steps) /\ (aside \o up) \o r = aside \o (up \o r) /\ up \o r \in Seq(Amp!Steps)
  <2>1. Joins(aside, up, r) /\ Joins(up, r, r)
    BY Zenon, <1>3, StepsJoin
  <2> QED BY Zenon, <2>1 DEF Joins
<1>5. ((aside \o up) \o (back \o ret)) \o rest = (aside \o up) \o r
  <2>1. Joins(aside \o up, back \o ret, rest)
    BY Zenon, <1>1, <1>4, StepsJoin
  <2> QED BY Zenon, <1>3, <2>1 DEF Joins
<1>6. (off \o low) \o (up \o r) = off \o (low \o (up \o r))
  <2>1. Joins(off, low, up \o r)
    BY Zenon, <1>4, StepsJoin
  <2> QED BY Zenon, <2>1 DEF Joins
<1> QED BY Zenon, <1>1, <1>3, <1>4, <1>5, <1>6 DEF AsideJoin

\* What resume comes down to, for the rest of its call.
LEMMA ResumeForms ==
  ASSUME NEW a \in Amp!Amps, NEW rest \in Seq(Amp!Steps)
  PROVE  /\ Amp!WithDefaultAside(a) \o rest =
              IF Amp!SharesAddress(a) /\ "L" \in rst
              THEN Amp!Suspending(2, "L", Amp!TurningOn(4, a, Amp!Resuming("L", rest)))
              ELSE Amp!TurningOn(4, a, rest)
         /\ (Amp!Do("reg_init", a) \o Amp!Do("chip_on", a)) \o rest = Amp!TurningOn(2, a, rest)
<1>0. "L" \in Amp!Amps
  BY DEF Amp!Amps
<1>1. PICK off, low, back, ret : off = Amp!Do("chip_off", "L") /\ low = Amp!Do("rst_low", "L")
                                 /\ back = Amp!Do("resume", "L") /\ ret = Amp!Do("return", "L")
  OBVIOUS
<1>2. PICK mode, high, init, on : mode = Amp!Do("owi_mode", a) /\ high = Amp!Do("rst_high", a)
                                  /\ init = Amp!Do("reg_init", a) /\ on = Amp!Do("chip_on", a)
  OBVIOUS
<1>3. off \in Seq(Amp!Steps) /\ low \in Seq(Amp!Steps) /\ back \in Seq(Amp!Steps) /\ ret \in Seq(Amp!Steps)
  BY <1>0, <1>1, DoIsSteps
<1>4. mode \in Seq(Amp!Steps) /\ high \in Seq(Amp!Steps) /\ init \in Seq(Amp!Steps) /\ on \in Seq(Amp!Steps)
  BY <1>2, DoIsSteps
<1>5. PICK q : q = back \o (ret \o rest) /\ q \in Seq(Amp!Steps)
  <2>1. Joins(ret, rest, rest)
    BY Zenon, <1>3, StepsJoin
  <2>2. ret \o rest \in Seq(Amp!Steps)
    BY Zenon, <2>1 DEF Joins
  <2>3. Joins(back, ret \o rest, rest)
    BY Zenon, <1>3, <2>2, StepsJoin
  <2> QED BY Zenon, <2>3 DEF Joins
<1>6. PICK up : up = mode \o ((high \o init) \o on)
  OBVIOUS
<1>7. /\ up \in Seq(Amp!Steps) /\ up \o rest = mode \o (high \o (init \o (on \o rest)))
      /\ up \o q = mode \o (high \o (init \o (on \o q)))
  <2>1. OnJoin(mode, high, init, on, rest) /\ OnJoin(mode, high, init, on, q)
    BY Zenon, <1>4, <1>5, OnJoins
  <2> QED BY Zenon, <1>6, <2>1 DEF OnJoin
<1>8. (((off \o low) \o up) \o (back \o ret)) \o rest = off \o (low \o (up \o q))
  <2>1. up \in Seq(Amp!Steps) /\ q = back \o (ret \o rest)
    BY Zenon, <1>5, <1>7
  <2>2. AsideJoin(off, low, up, back, ret, rest)
    BY Zenon, <1>3, <2>1, AsideJoins
  <2> QED BY Zenon, <2>1, <2>2 DEF AsideJoin
<1>14. ((off \o low) \o mode) \o ((high \o init) \o on) = (off \o low) \o up
  <2>1. PICK aside, turn : aside = off \o low /\ turn = (high \o init) \o on
    OBVIOUS
  <2>2. aside \in Seq(Amp!Steps) /\ (high \o init) \in Seq(Amp!Steps)
    <3>1. Joins(off, low, low) /\ Joins(high, init, on)
      BY Zenon, <1>3, <1>4, StepsJoin
    <3> QED BY Zenon, <2>1, <3>1 DEF Joins
  <2>3. turn \in Seq(Amp!Steps)
    <3>1. Joins(high \o init, on, on)
      BY Zenon, <1>4, <2>2, StepsJoin
    <3> QED BY Zenon, <2>1, <3>1 DEF Joins
  <2>4. Joins(aside, mode, turn)
    BY Zenon, <1>4, <2>2, <2>3, StepsJoin
  <2> QED BY Zenon, <1>6, <2>1, <2>4 DEF Joins
<1>9. (init \o on) \o rest = init \o (on \o rest)
  <2>1. Joins(init, on, rest)
    BY Zenon, <1>4, StepsJoin
  <2> QED BY Zenon, <2>1 DEF Joins
<1>10. /\ Amp!TurningOn(2, a, rest) = init \o (on \o rest)
       /\ Amp!TurningOn(4, a, rest) = mode \o (high \o (init \o (on \o rest)))
       /\ Amp!TurningOn(4, a, q) = mode \o (high \o (init \o (on \o q)))
  BY <1>2 DEF Amp!TurningOn
<1>11. /\ Amp!Resuming("L", rest) = q
       /\ Amp!Suspending(2, "L", Amp!TurningOn(4, a, q)) = off \o (low \o Amp!TurningOn(4, a, q))
  BY <1>1, <1>5 DEF Amp!Suspending, Amp!Resuming
<1>12. Amp!WithDefaultAside(a) = IF Amp!SharesAddress(a) /\ "L" \in rst
                                THEN ((off \o low) \o up) \o (back \o ret) ELSE up
  BY <1>1, <1>2, <1>6, <1>14 DEF Amp!WithDefaultAside, Amp!Suspend, Amp!TurnOn, Amp!Resume
<1>13. Amp!Do("reg_init", a) \o Amp!Do("chip_on", a) = init \o on
  BY <1>2
<1> QED BY <1>7, <1>8, <1>9, <1>10, <1>11, <1>12, <1>13

Resumed(a, rest) ==
  IF ~kind.pins THEN Amp!TurningOn(2, a, rest)
  ELSE IF Amp!SharesAddress(a) /\ "L" \in rst
  THEN Amp!Suspending(2, "L", Amp!TurningOn(4, a, Amp!Resuming("L", rest)))
  ELSE Amp!TurningOn(4, a, rest)

LEMMA Resumes ==
  ASSUME Amp!Types, late = 0, late' = 0, NEW c \in Callers, Amp!Step(c),
         NEW a \in Amp!Amps, NEW rest \in Seq(Amp!Steps), todo[c] = Amp!Do("resume", a) \o rest
  PROVE  /\ todo' = [todo EXCEPT ![c] = Resumed(a, rest)]
         /\ UNCHANGED <<kind, rst, conf, chipon, goal, mixed>>
<1>1. kind \in AllKinds
  BY DEF Amp!Types
<1>2. Head(todo[c]) = [do |-> "resume", amp |-> a] /\ Tail(todo[c]) = rest
  <2>1. [do |-> "resume", amp |-> a] \in Amp!Steps
    BY DEF Amp!Steps
  <2>2. PICK s : s = Amp!Do("resume", a) \o rest
    OBVIOUS
  <2>3. Head(s) = [do |-> "resume", amp |-> a] /\ Tail(s) = rest
    BY <2>1, <2>2, StepFirst
  <2> QED BY <2>2, <2>3
<1>3. PICK h : h = Head(todo[c])
  OBVIOUS
<1>4. Amp!ResumeStep(c)
  <2>1. h = [do |-> "resume", amp |-> a]
    BY Zenon, <1>2, <1>3
  <2>2. h.do = "resume" /\ late \in Nat
    BY <2>1
  <2> QED BY <1>3, <2>2, StepMoves
<1>5. Amp!Amp(c) = a
  <2>1. h = [do |-> "resume", amp |-> a]
    BY Zenon, <1>2, <1>3
  <2>2. h.amp = a
    BY <2>1
  <2> QED BY Zenon, <1>3, <2>2 DEF Amp!Amp
<1>6. UNCHANGED <<kind, rst, conf, chipon, goal, mixed>>
  BY <1>4 DEF Amp!ResumeStep
<1>7. PICK t : t = Tail(todo[c])
  OBVIOUS
<1>8. todo' = [todo EXCEPT ![c] =
                 (IF kind.pins THEN Amp!WithDefaultAside(a) ELSE Amp!Do("reg_init", a) \o Amp!Do("chip_on", a)) \o t]
  BY Zenon, <1>4, <1>5, <1>7 DEF Amp!ResumeStep
<1>9. t = rest
  BY <1>2, <1>7
<1>10. (IF kind.pins THEN Amp!WithDefaultAside(a) ELSE Amp!Do("reg_init", a) \o Amp!Do("chip_on", a)) \o rest
         = Resumed(a, rest)
  <2>1. PICK w, x, p, q, r : /\ w = Amp!WithDefaultAside(a) /\ x = Amp!Do("reg_init", a) \o Amp!Do("chip_on", a)
        /\ p = Amp!TurningOn(2, a, rest) /\ r = Amp!TurningOn(4, a, rest)
        /\ q = Amp!Suspending(2, "L", Amp!TurningOn(4, a, Amp!Resuming("L", rest)))
    OBVIOUS
  <2>2. /\ w \o rest = IF Amp!SharesAddress(a) /\ "L" \in rst THEN q ELSE r
        /\ x \o rest = p
    BY Zenon, <2>1, ResumeForms
  <2>3. Resumed(a, rest) = IF ~kind.pins THEN p ELSE IF Amp!SharesAddress(a) /\ "L" \in rst THEN q ELSE r
    BY Zenon, <2>1 DEF Resumed
  <2>4. CASE kind.pins
    BY Zenon, <2>1, <2>2, <2>3, <2>4
  <2>5. CASE ~kind.pins
    BY Zenon, <2>1, <2>2, <2>3, <2>5
  <2> QED BY <2>4, <2>5
<1> QED BY Zenon, <1>6, <1>8, <1>9, <1>10

LEMMA Returns ==
  ASSUME Amp!Types, late = 0, late' = 0, NEW c \in Callers, Amp!Step(c), todo[c] # << >>,
         Amp!Returning(todo[c])
  PROVE  /\ todo' = [todo EXCEPT ![c] = Tail(todo[c])] /\ Amp!Returning(Tail(todo[c]))
         /\ UNCHANGED <<kind, rst, conf, chipon, goal, mixed>>
<1>1. todo[c] \in Seq(Amp!Steps)
  BY DEF Amp!Types
<1>2. PICK s, h, t : s = todo[c] /\ h = Head(s) /\ t = Tail(s)
  OBVIOUS
<1>3. s \in Seq(Amp!Steps) /\ s # << >> /\ \A i \in DOMAIN s : s[i].do = "return"
  BY <1>1, <1>2 DEF Amp!Returning
<1>4. h.do = "return" /\ \A i \in DOMAIN t : t[i].do = "return"
  <2>1. 1 \in DOMAIN s /\ h = s[1]
    BY <1>2, <1>3
  <2>2. \A i \in DOMAIN t : i + 1 \in DOMAIN s /\ t[i] = s[i + 1]
    BY <1>2, <1>3
  <2> QED BY <1>3, <2>1, <2>2
<1>5. /\ todo' = [todo EXCEPT ![c] = Tail(todo[c])]
      /\ UNCHANGED <<kind, rst, conf, chipon, goal, mixed>>
  <2>1. h = Head(todo[c]) /\ late \in Nat /\ late' = late
    BY <1>2
  <2> QED BY <1>4, <2>1, StepMoves
<1> QED BY <1>2, <1>4, <1>5 DEF Amp!Returning

AllAsAsked == \A a \in Amp!Amps : Amp!Clean(a) => Amp!AsAsked(a)

\* c's step ends in place, and if it was the last one of a call, all is as was asked.
EndsInPlace(c) ==
  /\ todo' = [todo EXCEPT ![c] = todo'[c]] /\ UNCHANGED <<kind, goal, mixed>>
  /\ Amp!InPlace(todo[c])'
  /\ todo'[c] = << >> => AllAsAsked'

LEMMA ReturningJoins ==
  ASSUME NEW x \in Amp!Steps, x.do = "return", NEW e \in Seq(Amp!Steps), Amp!Returning(e)
  PROVE  Amp!Returning(<<x>> \o e)
<1>1. PICK s : s = <<x>> \o e
  OBVIOUS
<1>2. \A i \in DOMAIN s : s[i] = x \/ \E j \in DOMAIN e : s[i] = e[j]
  BY <1>1
<1>3. \A j \in DOMAIN e : e[j].do = "return"
  BY DEF Amp!Returning
<1>4. \A i \in DOMAIN s : s[i].do = "return"
  BY <1>2, <1>3
<1> QED BY Zenon, <1>1, <1>4 DEF Amp!Returning

LEMMA FormsAreSteps ==
  ASSUME NEW a \in Amp!Amps, NEW e \in Amp!Ends(a)
  PROVE  /\ e \in Seq(Amp!Steps) /\ Amp!Do("return", a) \o e \in Seq(Amp!Steps)
         /\ Amp!Resuming(a, e) \in Seq(Amp!Steps) /\ Amp!Resuming(a, << >>) \in Seq(Amp!Steps)
         /\ Amp!Resuming(a, e) = Amp!Do("resume", a) \o (Amp!Do("return", a) \o e)
         /\ Amp!Do("return", a) \o e # << >> /\ Amp!Resuming(a, e) # << >>
         /\ Amp!Resuming(a, << >>) # << >>
         /\ Amp!Returning(Amp!Do("return", a) \o e) /\ Amp!Returning(<< >>)
         /\ a # "L" => e = << >> /\ Amp!Do("return", a) \o e = Amp!Do("return", a)
<1>1. [do |-> "return", amp |-> a] \in Amp!Steps /\ [do |-> "resume", amp |-> a] \in Amp!Steps
      /\ [do |-> "return", amp |-> "R"] \in Amp!Steps
  BY DEF Amp!Steps, Amp!Amps
<1>2. PICK x, y, z : x = [do |-> "return", amp |-> a] /\ y = [do |-> "resume", amp |-> a]
                     /\ z = [do |-> "return", amp |-> "R"]
  OBVIOUS
<1>3. x \in Amp!Steps /\ y \in Amp!Steps /\ z \in Amp!Steps /\ x.do = "return" /\ z.do = "return"
  BY <1>1, <1>2
<1>4. e = << >> \/ (a = "L" /\ e = <<z>>)
  BY <1>2 DEF Amp!Ends, Amp!Do
<1>5. e \in Seq(Amp!Steps) /\ << >> \in Seq(Amp!Steps)
  <2>1. << >> \in Seq(Amp!Steps) /\ <<z>> \in Seq(Amp!Steps)
    BY <1>3
  <2> QED BY Zenon, <1>4, <2>1
<1>6. Amp!Returning(<< >>) /\ Amp!Returning(e)
  BY <1>3, <1>4 DEF Amp!Returning
<1>7. PICK q : q = Amp!Do("return", a) \o e
  OBVIOUS
<1>8. q \in Seq(Amp!Steps) /\ q # << >>
  BY <1>1, <1>5, <1>7, StepFirst
<1>9. Amp!Returning(q)
  BY Zenon, <1>2, <1>3, <1>5, <1>6, <1>7, ReturningJoins DEF Amp!Do
<1>10. PICK r : r = Amp!Do("return", a) \o << >>
  OBVIOUS
<1>11. r \in Seq(Amp!Steps) /\ r = Amp!Do("return", a)
  <2>1. <<x>> \o << >> = <<x>>
    BY <1>3
  <2>2. r = Amp!Do("return", a)
    BY Zenon, <1>2, <1>10, <2>1 DEF Amp!Do
  <2> QED BY <1>2, <1>3, <2>2 DEF Amp!Do
<1>12. Amp!Resuming(a, e) = Amp!Do("resume", a) \o q /\ Amp!Resuming(a, << >>) = Amp!Do("resume", a) \o r
  BY Zenon, <1>7, <1>10 DEF Amp!Resuming
<1>13. /\ Amp!Resuming(a, e) \in Seq(Amp!Steps) /\ Amp!Resuming(a, e) # << >>
       /\ Amp!Resuming(a, << >>) \in Seq(Amp!Steps) /\ Amp!Resuming(a, << >>) # << >>
  BY <1>1, <1>8, <1>11, <1>12, StepFirst
<1>14. a # "L" => e = << >> /\ q = Amp!Do("return", a)
  BY Zenon, <1>4, <1>7, <1>10, <1>11
<1> QED BY Zenon, <1>5, <1>6, <1>7, <1>8, <1>9, <1>12, <1>13, <1>14

LEMMA Counts == 1 \in 1 .. 2 /\ 2 \in 1 .. 2 /\ 2 \in 1 .. 4 /\ 4 \in 1 .. 4 /\ 4 # 1 /\ 4 # 2 /\ 4 > 2
  OBVIOUS

LEMMA OnIsSteps ==
  ASSUME NEW a \in Amp!Amps, NEW rest \in Seq(Amp!Steps), NEW n \in 1 .. 4
  PROVE  Amp!TurningOn(n, a, rest) \in Seq(Amp!Steps) /\ Amp!TurningOn(n, a, rest) # << >>
  BY Zenon, TurningOnFirst

LEMMA OffIsSteps ==
  ASSUME NEW a \in Amp!Amps, NEW rest \in Seq(Amp!Steps), NEW n \in 1 .. 2
  PROVE  Amp!Suspending(n, a, rest) \in Seq(Amp!Steps) /\ Amp!Suspending(n, a, rest) # << >>
  BY Zenon, SuspendingFirst

LEMMA AskedKept ==
  ASSUME UNCHANGED <<goal, mixed>>, NEW b, Amp!Clean(b) => Amp!AsAsked(b),
         Amp!Clean(b) => (Amp!Up(b) => Amp!Up(b)') /\ (Amp!Down(b) => Amp!Down(b)')
  PROVE  (Amp!Clean(b) => Amp!AsAsked(b))'
  BY DEF Amp!Clean, Amp!AsAsked

LEMMA Arrived ==
  ASSUME NEW c \in Callers, NEW t, todo' = [todo EXCEPT ![c] = t], Amp!Types, UNCHANGED <<kind, goal, mixed>>,
         Amp!InPlace(t)', t = << >> => AllAsAsked'
  PROVE  EndsInPlace(c)
<1>1. todo'[c] = t
  BY DEF Amp!Types
<1>2. Amp!InPlace(todo[c])'
  BY Zenon, <1>1
<1> QED BY Zenon, <1>1, <1>2 DEF EndsInPlace

LEMMA OneMoves ==
  ASSUME Amp!Types, Amp!NoPins, late = 0, late' = 0, NEW c \in Callers, Amp!Step(c),
         NEW a \in Amp!Amps, NEW b \in Amp!Amps, a # b, Amp!OfOne(todo[c], a, b)
  PROVE  EndsInPlace(c)
<1>0. kind \in AllKinds /\ a \in {"L", "R"} /\ b \in {"L", "R"}
  BY DEF Amp!Types, Amp!Amps
<1>1. Amp!Clean(b) => Amp!AsAsked(b)
  BY DEF Amp!OfOne
<1>p. ASSUME NEW s, Amp!OfOne(s, a, b)' PROVE Amp!InPlace(s)'
  <2>1. (a = "L" /\ b = "R") \/ (a = "R" /\ b = "L")
    BY <1>0
  <2> QED BY Zenon, <1>p, <2>1 DEF Amp!InPlace
<1>2. ASSUME NEW e \in Amp!Ends(a), todo[c] = Amp!Resuming(a, e), Amp!Clean(a) => a \in goal /\ Amp!BeforeOn(4, a)
      PROVE  EndsInPlace(c)
  <2>1. PICK rest : rest = Amp!Do("return", a) \o e
    OBVIOUS
  <2>2. rest \in Seq(Amp!Steps) /\ todo[c] = Amp!Do("resume", a) \o rest
        /\ (a # "L" => e = << >> /\ rest = Amp!Do("return", a))
    BY Zenon, <1>2, <2>1, FormsAreSteps
  <2>3. /\ todo' = [todo EXCEPT ![c] = Resumed(a, rest)]
        /\ UNCHANGED <<kind, rst, conf, chipon, goal, mixed>>
    BY Zenon, <2>2, Resumes
  <2>4. PICK t : t = Resumed(a, rest)
    OBVIOUS
  <2>5. (Amp!Clean(b) => Amp!AsAsked(b))' /\ (Amp!Clean(a) => a \in goal)'
    BY <1>1, <1>2, <2>3 DEF Amp!Clean, Amp!AsAsked, Amp!Up, Amp!Down
  <2>6. CASE ~kind.pins
    <3>1. t = Amp!TurningOn(2, a, rest) /\ ~Amp!SharesAddress(a)
      BY <1>0, <2>4, <2>6, KindIs DEF Resumed, Amp!SharesAddress
    <3>2. (Amp!Clean(a) => Amp!BeforeOn(2, a))'
      BY <1>2, <2>3, <2>6 DEF Amp!BeforeOn, Amp!Up, Amp!Down, Amp!Clean
    <3>3. t # << >>
      BY Zenon, <2>2, <3>1, OnIsSteps, Counts
    <3>4. ~Amp!SharesAddress(a)'
      BY <2>3, <3>1 DEF Amp!SharesAddress
    <3>5. Amp!OfOne(t, a, b)'
      BY Zenon, <2>1, <2>5, <3>1, <3>2, <3>4, Counts DEF Amp!OfOne
    <3> QED BY Zenon, <1>p, <2>3, <2>4, <3>3, <3>5, Arrived
  <2>7. CASE kind.pins /\ ~(Amp!SharesAddress(a) /\ "L" \in rst)
    <3>1. t = Amp!TurningOn(4, a, rest)
      BY Zenon, <2>4, <2>7 DEF Resumed
    <3>2. (Amp!Clean(a) => Amp!BeforeOn(4, a))'
      BY <1>2, <2>3 DEF Amp!BeforeOn, Amp!Up, Amp!Down, Amp!Clean
    <3>3. t # << >>
      BY Zenon, <2>2, <3>1, OnIsSteps, Counts
    <3>4. (Amp!SharesAddress(a) => b \notin rst)'
      BY <1>0, <2>3, <2>7 DEF Amp!SharesAddress
    <3>5. Amp!OfOne(t, a, b)'
      BY Zenon, <2>1, <2>5, <3>1, <3>2, <3>4, Counts DEF Amp!OfOne
    <3> QED BY Zenon, <1>p, <2>3, <2>4, <3>3, <3>5, Arrived
  <2>8. CASE kind.pins /\ Amp!SharesAddress(a) /\ "L" \in rst
    <3>1. a = "R" /\ b = "L" /\ kind.chip = "sia8101"
      BY <1>0, <2>8 DEF Amp!SharesAddress
    <3>2. PICK back : back = Amp!Resuming("L", Amp!Do("return", "R"))
      OBVIOUS
    <3>3. t = Amp!Suspending(2, "L", Amp!TurningOn(4, "R", back))
      BY Zenon, <2>2, <2>4, <2>8, <3>1, <3>2 DEF Resumed
    <3>4. (\A x \in Amp!Amps : Amp!Clean(x) => x \in goal)'
      <4>1. Amp!Clean("L") => "L" \in goal
        BY <1>1, <2>8, <3>1 DEF Amp!AsAsked, Amp!Down
      <4> QED BY <1>2, <2>3, <3>1, <4>1 DEF Amp!Clean, Amp!Amps
    <3>5. (Amp!Clean("R") => Amp!BeforeOn(4, "R"))' /\ (kind.chip = "sia8101")'
      BY <1>2, <2>3, <3>1 DEF Amp!BeforeOn, Amp!Up, Amp!Down, Amp!Clean
    <3>6. t # << >>
      <4>1. "L" \in Amp!Amps /\ "R" \in Amp!Amps /\ Amp!Do("return", "R") \in Amp!Ends("L")
        BY DEF Amp!Amps, Amp!Ends
      <4>2. back \in Seq(Amp!Steps)
        BY Zenon, <3>2, <4>1, FormsAreSteps
      <4>3. Amp!TurningOn(4, "R", back) \in Seq(Amp!Steps)
        BY Zenon, <4>1, <4>2, OnIsSteps, Counts
      <4> QED BY Zenon, <3>3, <4>1, <4>3, OffIsSteps, Counts
    <3>7. Amp!LeftAside(t)'
      BY Zenon, <3>2, <3>3, <3>4, <3>5, Counts DEF Amp!LeftAside
    <3>8. Amp!InPlace(t)'
      BY Zenon, <3>7 DEF Amp!InPlace
    <3> QED BY Zenon, <2>3, <2>4, <3>6, <3>8, Arrived
  <2> QED BY <2>6, <2>7, <2>8
<1>3. ASSUME NEW e \in Amp!Ends(a), NEW n \in 1 .. 4, todo[c] = Amp!TurningOn(n, a, Amp!Do("return", a) \o e),
             Amp!Clean(a) => a \in goal /\ Amp!BeforeOn(n, a), Amp!SharesAddress(a) /\ Amp!Clean(b) => b \notin rst
      PROVE  EndsInPlace(c)
  <2>1. PICK rest : rest = Amp!Do("return", a) \o e
    OBVIOUS
  <2>2. rest \in Seq(Amp!Steps) /\ rest # << >> /\ Amp!Returning(rest)
    BY Zenon, <2>1, FormsAreSteps
  <2>3. PICK t : t = IF n = 1 THEN rest ELSE Amp!TurningOn(n - 1, a, rest)
    OBVIOUS
  <2>4. /\ todo' = [todo EXCEPT ![c] = t] /\ UNCHANGED <<kind, goal, mixed>>
        /\ Amp!BeforeOn(n, a) => IF n = 1 THEN Amp!Up(a)' ELSE Amp!BeforeOn(n - 1, a)'
        /\ b \notin rst => b \notin rst'
        /\ (Amp!SharesAddress(a) => b \notin rst) =>
              (Amp!Up(b) => Amp!Up(b)') /\ (Amp!Down(b) => Amp!Down(b)')
    <3>1. todo[c] = Amp!TurningOn(n, a, rest)
      BY Zenon, <1>3, <2>1
    <3>2. /\ todo' = [todo EXCEPT ![c] = IF n = 1 THEN rest ELSE Amp!TurningOn(n - 1, a, rest)]
          /\ UNCHANGED <<kind, goal, mixed>>
          /\ Amp!BeforeOn(n, a) => IF n = 1 THEN Amp!Up(a)' ELSE Amp!BeforeOn(n - 1, a)'
          /\ b \notin rst => b \notin rst'
          /\ (Amp!SharesAddress(a) => b \notin rst) =>
                (Amp!Up(b) => Amp!Up(b)') /\ (Amp!Down(b) => Amp!Down(b)')
      BY <2>2, <3>1, TurnsOn
    <3> QED BY Zenon, <2>3, <3>2
  <2>5. (Amp!Clean(b) => Amp!AsAsked(b))'
    <3>1. Amp!Clean(b) => (Amp!Up(b) => Amp!Up(b)') /\ (Amp!Down(b) => Amp!Down(b)')
      BY Zenon, <1>3, <2>4
    <3>2. UNCHANGED <<goal, mixed>>
      BY <2>4
    <3> QED BY Zenon, <1>1, <3>1, <3>2, AskedKept
  <2>6. (Amp!Clean(a) => a \in goal)' /\ (Amp!SharesAddress(a) /\ Amp!Clean(b) => b \notin rst)'
    BY <1>3, <2>4 DEF Amp!Clean, Amp!SharesAddress
  <2>7. CASE n = 1
    <3>1. (Amp!Clean(a) => Amp!AsAsked(a))'
      BY <1>3, <2>4, <2>6, <2>7 DEF Amp!Clean, Amp!AsAsked
    <3>2. AllAsAsked' /\ t = rest
      BY <1>0, <2>3, <2>5, <2>7, <3>1 DEF AllAsAsked, Amp!Amps
    <3>3. Amp!InPlace(t)'
      BY Zenon, <2>2, <3>2 DEF Amp!InPlace, AllAsAsked, Amp!Returning
    <3> QED BY Zenon, <2>4, <3>2, <3>3, Arrived
  <2>8. CASE n # 1
    <3>1. PICK m \in 1 .. 4 : m = n - 1
      BY <2>8
    <3>2. t = Amp!TurningOn(m, a, rest) /\ (Amp!BeforeOn(n, a) => Amp!BeforeOn(m, a)')
      BY Zenon, <2>3, <2>4, <2>8, <3>1
    <3>3. (Amp!Clean(a) => Amp!BeforeOn(m, a))'
      BY <1>3, <2>4, <3>2 DEF Amp!Clean
    <3>4. Amp!OfOne(t, a, b)'
      BY Zenon, <2>1, <2>5, <2>6, <3>2, <3>3 DEF Amp!OfOne
    <3>5. t # << >>
      BY Zenon, <2>2, <3>2, OnIsSteps
    <3> QED BY Zenon, <1>p, <2>4, <3>4, <3>5, Arrived
  <2> QED BY <2>7, <2>8
<1>4. ASSUME NEW n \in 1 .. 2, NEW rest, rest = << >> \/ rest = Amp!Resuming(a, << >>),
             todo[c] = Amp!Suspending(n, a, rest),
             Amp!Clean(a) => Amp!BeforeOff(n, a) /\ (a \in goal <=> rest # << >>)
      PROVE  EndsInPlace(c)
  <2>2. << >> \in Amp!Ends(a) /\ rest \in Seq(Amp!Steps) /\ Amp!Resuming(a, << >>) # << >> /\ Amp!Returning(<< >>)
    <3>1. << >> \in Amp!Ends(a)
      BY DEF Amp!Ends
    <3>2. << >> \in Seq(Amp!Steps)
      OBVIOUS
    <3> QED BY Zenon, <1>4, <3>1, <3>2, FormsAreSteps
  <2>3. PICK t : t = IF n = 1 THEN rest ELSE Amp!Suspending(n - 1, a, rest)
    OBVIOUS
  <2>4. /\ todo' = [todo EXCEPT ![c] = t] /\ UNCHANGED <<kind, goal, mixed>>
        /\ Amp!BeforeOff(n, a) => IF n = 1 THEN Amp!Down(a)' ELSE Amp!BeforeOff(n - 1, a)'
        /\ (Amp!Up(b) => Amp!Up(b)') /\ (Amp!Down(b) => Amp!Down(b)')
    <3>1. /\ todo' = [todo EXCEPT ![c] = IF n = 1 THEN rest ELSE Amp!Suspending(n - 1, a, rest)]
          /\ UNCHANGED <<kind, goal, mixed>>
          /\ Amp!BeforeOff(n, a) => IF n = 1 THEN Amp!Down(a)' ELSE Amp!BeforeOff(n - 1, a)'
          /\ (Amp!Up(b) => Amp!Up(b)') /\ (Amp!Down(b) => Amp!Down(b)')
      BY <1>4, <2>2, Suspends
    <3> QED BY Zenon, <2>3, <3>1
  <2>5. (Amp!Clean(b) => Amp!AsAsked(b))'
    <3>2. UNCHANGED <<goal, mixed>>
      BY <2>4
    <3> QED BY Zenon, <1>1, <2>4, <3>2, AskedKept
  <2>6. (Amp!Clean(a) => (a \in goal <=> rest # << >>))'
    BY <1>4, <2>4 DEF Amp!Clean
  <2>7. CASE n = 1
    <3>1. (Amp!Clean(a) => Amp!Down(a))' /\ t = rest
      BY <1>4, <2>3, <2>4, <2>7 DEF Amp!Clean
    <3>2. CASE rest = << >>
      <4>1. (Amp!Clean(a) => Amp!AsAsked(a))'
        BY <2>6, <3>1, <3>2 DEF Amp!AsAsked
      <4>2. AllAsAsked'
        BY <1>0, <2>5, <4>1 DEF AllAsAsked, Amp!Amps
      <4>3. Amp!InPlace(t)'
        BY Zenon, <2>2, <3>1, <3>2, <4>2 DEF Amp!InPlace, AllAsAsked, Amp!Returning
      <4> QED BY Zenon, <2>4, <4>2, <4>3, Arrived
    <3>3. CASE rest = Amp!Resuming(a, << >>)
      <4>1. (Amp!Clean(a) => a \in goal /\ Amp!BeforeOn(4, a))'
        BY Zenon, <2>2, <2>6, <3>1, <3>3, Counts DEF Amp!BeforeOn
      <4>2. Amp!OfOne(t, a, b)'
        BY Zenon, <2>2, <2>5, <3>1, <3>3, <4>1 DEF Amp!OfOne
      <4> QED BY Zenon, <1>p, <2>2, <2>4, <3>1, <3>3, <4>2, Arrived
    <3> QED BY <1>4, <3>2, <3>3
  <2>8. CASE n = 2
    <3>2. t = Amp!Suspending(1, a, rest) /\ (Amp!BeforeOff(2, a) => Amp!BeforeOff(1, a)')
      <4>1. 2 - 1 = 1 /\ 2 # 1
        OBVIOUS
      <4> QED BY Zenon, <2>3, <2>4, <2>8, <4>1
    <3>3. (Amp!Clean(a) => Amp!BeforeOff(1, a))'
      BY <1>4, <2>4, <2>8, <3>2 DEF Amp!Clean
    <3>4. Amp!OfOne(t, a, b)'
      BY Zenon, <1>4, <2>2, <2>5, <2>6, <3>2, <3>3, Counts DEF Amp!OfOne
    <3>5. t # << >>
      BY Zenon, <2>2, <3>2, OffIsSteps, Counts
    <3> QED BY Zenon, <1>p, <2>4, <3>4, <3>5, Arrived
  <2> QED BY <2>7, <2>8
<1>5. << >> # Amp!Resuming(a, << >>)
  <2>1. << >> \in Amp!Ends(a)
    BY DEF Amp!Ends
  <2> QED BY Zenon, <2>1, FormsAreSteps
<1> QED BY Zenon, <1>2, <1>3, <1>4, <1>5 DEF Amp!OfOne

LEMMA AsideMoves ==
  ASSUME Amp!Types, Amp!NoPins, late = 0, late' = 0, NEW c \in Callers, Amp!Step(c),
         Amp!LeftAside(todo[c])
  PROVE  EndsInPlace(c)
<1>1. PICK back : back = Amp!Resuming("L", Amp!Do("return", "R"))
  OBVIOUS
<1>2. /\ "L" \in Amp!Amps /\ "R" \in Amp!Amps /\ "L" # "R" /\ Amp!Do("return", "R") \in Amp!Ends("L")
      /\ Amp!SharesAddress("R") /\ kind.pins
  <2>1. kind.chip = "sia8101" /\ kind \in AllKinds
    BY DEF Amp!LeftAside, Amp!Types
  <2> QED BY <2>1, KindIs DEF Amp!Amps, Amp!Ends, Amp!SharesAddress
<1>3. back \in Seq(Amp!Steps) /\ back # << >>
  BY Zenon, <1>1, <1>2, FormsAreSteps
<1>4. kind.chip = "sia8101" /\ \A a \in Amp!Amps : Amp!Clean(a) => a \in goal
  BY DEF Amp!LeftAside
<1>5. ASSUME NEW s, Amp!LeftAside(s)' PROVE Amp!InPlace(s)'
  BY Zenon, <1>5 DEF Amp!InPlace
<1>6. ASSUME UNCHANGED <<kind, goal, mixed>>
      PROVE  (kind.chip = "sia8101" /\ \A a \in Amp!Amps : Amp!Clean(a) => a \in goal)'
  BY <1>4, <1>6 DEF Amp!Clean, Amp!Amps
<1>7. ASSUME NEW n \in 1 .. 2, todo[c] = Amp!Suspending(n, "L", Amp!TurningOn(4, "R", back)),
             Amp!Clean("R") => Amp!BeforeOn(4, "R")
      PROVE  EndsInPlace(c)
  <2>1. PICK rest : rest = Amp!TurningOn(4, "R", back)
    OBVIOUS
  <2>2. rest \in Seq(Amp!Steps) /\ rest # << >>
    BY Zenon, <1>2, <1>3, <2>1, OnIsSteps, Counts
  <2>3. Amp!BeforeOff(n, "L")
    BY <1>2 DEF Amp!BeforeOff
  <2>4. todo[c] = Amp!Suspending(n, "L", rest)
    BY Zenon, <1>7, <2>1
  <2>5. /\ todo' = [todo EXCEPT ![c] = IF n = 1 THEN rest ELSE Amp!Suspending(n - 1, "L", rest)]
        /\ UNCHANGED <<kind, goal, mixed>>
        /\ n = 1 => Amp!Down("L")'
        /\ (Amp!Up("R") => Amp!Up("R")') /\ (Amp!Down("R") => Amp!Down("R")')
    BY <1>2, <2>2, <2>3, <2>4, Suspends
  <2>6. (Amp!Clean("R") => Amp!BeforeOn(4, "R"))'
    <3>1. Amp!BeforeOn(4, "R") <=> Amp!Up("R") \/ Amp!Down("R")
      BY Counts DEF Amp!BeforeOn
    <3>2. (Amp!BeforeOn(4, "R"))' <=> Amp!Up("R")' \/ Amp!Down("R")'
      BY Counts DEF Amp!BeforeOn
    <3>3. Amp!Clean("R")' => Amp!Clean("R")
      BY <2>5 DEF Amp!Clean
    <3> QED BY <1>7, <2>5, <3>1, <3>2, <3>3
  <2>7. PICK t : t = IF n = 1 THEN rest ELSE Amp!Suspending(n - 1, "L", rest)
    OBVIOUS
  <2>8. t # << >> /\ Amp!LeftAside(t)'
    <3>1. CASE n = 1
      <4>1. t = Amp!TurningOn(4, "R", back) /\ t # << >> /\ Amp!Down("L")'
        BY Zenon, <2>1, <2>2, <2>5, <2>7, <3>1
      <4> QED BY Zenon, <1>1, <1>6, <2>5, <2>6, <4>1, Counts DEF Amp!LeftAside
    <3>2. CASE n = 2
      <4>1. 2 - 1 = 1 /\ 2 # 1
        OBVIOUS
      <4>2. t = Amp!Suspending(1, "L", rest)
        BY Zenon, <2>7, <3>2, <4>1
      <4>3. t # << >>
        BY Zenon, <1>2, <2>2, <4>2, OffIsSteps, Counts
      <4> QED BY Zenon, <1>1, <1>6, <2>1, <2>5, <2>6, <4>2, <4>3, Counts DEF Amp!LeftAside
    <3> QED BY <3>1, <3>2
  <2>9. todo' = [todo EXCEPT ![c] = t] /\ UNCHANGED <<kind, goal, mixed>>
    BY Zenon, <2>5, <2>7
  <2> QED BY Zenon, <1>5, <2>8, <2>9, Arrived
<1>8. ASSUME NEW n \in 1 .. 4, todo[c] = Amp!TurningOn(n, "R", back),
             Amp!Clean("R") => Amp!BeforeOn(n, "R"), Amp!Clean("L") => Amp!Down("L")
      PROVE  EndsInPlace(c)
  <2>1. /\ todo' = [todo EXCEPT ![c] = IF n = 1 THEN back ELSE Amp!TurningOn(n - 1, "R", back)]
        /\ UNCHANGED <<kind, goal, mixed>>
        /\ Amp!BeforeOn(n, "R") => IF n = 1 THEN Amp!Up("R")' ELSE Amp!BeforeOn(n - 1, "R")'
        /\ "L" \notin rst => (Amp!Down("L") => Amp!Down("L")')
    BY <1>2, <1>3, <1>8, TurnsOn
  <2>2. (Amp!Clean("L") => Amp!Down("L"))'
    <3>1. Amp!Down("L") => "L" \notin rst
      BY <1>2 DEF Amp!Down
    <3> QED BY <1>8, <2>1, <3>1 DEF Amp!Clean
  <2>3. PICK t : t = IF n = 1 THEN back ELSE Amp!TurningOn(n - 1, "R", back)
    OBVIOUS
  <2>4. todo' = [todo EXCEPT ![c] = t] /\ UNCHANGED <<kind, goal, mixed>>
    BY Zenon, <2>1, <2>3
  <2>5. (\A a \in Amp!Amps : Amp!Clean(a) => a \in goal)'
    BY Zenon, <1>6, <2>4
  <2>6. CASE n = 1
    <3>1. t = Amp!Resuming("L", Amp!Do("return", "R")) /\ t # << >>
      BY Zenon, <1>1, <1>3, <2>3, <2>6
    <3>2. (Amp!Clean("R") => Amp!AsAsked("R"))'
      <4>1. Amp!Clean("R")' => Amp!Clean("R")
        BY <2>4 DEF Amp!Clean
      <4>2. (Amp!Clean("R") => "R" \in goal)'
        BY Zenon, <1>2, <2>5
      <4> QED BY <1>8, <2>1, <2>6, <4>1, <4>2 DEF Amp!AsAsked
    <3>3. (Amp!Clean("L") => "L" \in goal /\ Amp!BeforeOn(4, "L"))'
      BY Zenon, <1>2, <2>2, <2>5, Counts DEF Amp!BeforeOn
    <3>4. Amp!OfOne(t, "L", "R")'
      <4>1. Amp!Do("return", "R") \in Amp!Ends("L")
        BY <1>2
      <4> QED BY Zenon, <3>1, <3>2, <3>3, <4>1 DEF Amp!OfOne
    <3>5. Amp!InPlace(t)'
      BY Zenon, <3>4 DEF Amp!InPlace
    <3> QED BY Zenon, <2>4, <3>1, <3>5, Arrived
  <2>7. CASE n # 1
    <3>1. PICK m \in 1 .. 4 : m = n - 1
      BY <2>7
    <3>2. t = Amp!TurningOn(m, "R", back) /\ (Amp!BeforeOn(n, "R") => Amp!BeforeOn(m, "R")')
      BY Zenon, <2>1, <2>3, <2>7, <3>1
    <3>3. (Amp!Clean("R") => Amp!BeforeOn(m, "R"))'
      BY <1>8, <2>4, <3>2 DEF Amp!Clean
    <3>4. Amp!LeftAside(t)'
      BY Zenon, <1>1, <1>6, <2>2, <2>4, <3>2, <3>3 DEF Amp!LeftAside
    <3>5. t # << >>
      BY Zenon, <1>2, <1>3, <3>2, OnIsSteps
    <3> QED BY Zenon, <1>5, <2>4, <3>4, <3>5, Arrived
  <2> QED BY <2>6, <2>7
<1> QED BY Zenon, <1>1, <1>7, <1>8 DEF Amp!LeftAside

LEMMA PlaceMoves ==
  ASSUME Amp!Types, Amp!NoPins, late = 0, late' = 0, NEW c \in Callers, Amp!Step(c),
         Amp!InPlace(todo[c])
  PROVE  EndsInPlace(c)
<1>1. todo[c] # << >> /\ "L" \in Amp!Amps /\ "R" \in Amp!Amps /\ "L" # "R"
  <2>1. PICK h : h = Head(todo[c])
    OBVIOUS
  <2>2. late \in Nat
    OBVIOUS
  <2> QED BY <2>1, <2>2, StepMoves DEF Amp!Amps
<1>2. CASE Amp!Returning(todo[c]) /\ \A a \in Amp!Amps : Amp!Clean(a) => Amp!AsAsked(a)
  <2>1. PICK t : t = Tail(todo[c])
    OBVIOUS
  <2>2. /\ todo' = [todo EXCEPT ![c] = t] /\ Amp!Returning(t)
        /\ UNCHANGED <<kind, rst, conf, chipon, goal, mixed>>
    BY <1>1, <1>2, <2>1, Returns
  <2>3. AllAsAsked'
    BY <1>2, <2>2 DEF AllAsAsked, Amp!Clean, Amp!AsAsked, Amp!Up, Amp!Down, Amp!Amps
  <2>4. Amp!InPlace(t)'
    BY Zenon, <2>2, <2>3 DEF Amp!InPlace, AllAsAsked, Amp!Returning
  <2> QED BY Zenon, <2>2, <2>3, <2>4, Arrived
<1>3. CASE Amp!OfOne(todo[c], "L", "R")
  BY Zenon, <1>1, <1>3, OneMoves
<1>4. CASE Amp!OfOne(todo[c], "R", "L")
  BY Zenon, <1>1, <1>4, OneMoves
<1>5. CASE Amp!LeftAside(todo[c])
  BY Zenon, <1>5, AsideMoves
<1> QED BY Zenon, <1>2, <1>3, <1>4, <1>5 DEF Amp!InPlace

NoReset(s) == \A i \in DOMAIN s : s[i].do \notin {"rst_high", "owi_mode"}

LEMMA NoResetJoins ==
  ASSUME NEW x \in Amp!Steps, x.do \notin {"rst_high", "owi_mode"}, NEW e \in Seq(Amp!Steps), NoReset(e)
  PROVE  NoReset(<<x>> \o e)
<1>1. PICK s : s = <<x>> \o e
  OBVIOUS
<1>2. \A i \in DOMAIN s : s[i] = x \/ \E j \in DOMAIN e : s[i] = e[j]
  BY <1>1
<1>3. \A j \in DOMAIN e : e[j].do \notin {"rst_high", "owi_mode"}
  BY DEF NoReset
<1>4. \A i \in DOMAIN s : s[i].do \notin {"rst_high", "owi_mode"}
  BY <1>2, <1>3
<1> QED BY Zenon, <1>1, <1>4 DEF NoReset

LEMMA FirstAndRest ==
  ASSUME NEW s \in Seq(Amp!Steps), s # << >>
  PROVE  /\ Head(s) \in Amp!Steps /\ Tail(s) \in Seq(Amp!Steps) /\ s = <<Head(s)>> \o Tail(s)
         /\ NoReset(s) => Head(s).do \notin {"rst_high", "owi_mode"} /\ NoReset(Tail(s))
<1>1. PICK h, t : h = Head(s) /\ t = Tail(s)
  OBVIOUS
<1>2. h \in Amp!Steps /\ t \in Seq(Amp!Steps) /\ 1 \in DOMAIN s /\ h = s[1]
  BY <1>1
<1>3. \A i \in DOMAIN t : i + 1 \in DOMAIN s /\ t[i] = s[i + 1]
  BY <1>1
<1>4. s = <<h>> \o t
  <2>1. <<Head(s)>> \o Tail(s) = s
    OBVIOUS
  <2> QED BY Zenon, <1>1, <2>1
<1>5. NoReset(s) => h.do \notin {"rst_high", "owi_mode"} /\ NoReset(t)
  BY <1>2, <1>3 DEF NoReset
<1> QED BY Zenon, <1>1, <1>2, <1>4, <1>5

LEMMA ResumedIsSteps ==
  ASSUME NEW a \in Amp!Amps, NEW rest \in Seq(Amp!Steps)
  PROVE  Resumed(a, rest) \in Seq(Amp!Steps) /\ (~kind.pins /\ NoReset(rest) => NoReset(Resumed(a, rest)))
<1>1. PICK x, y, z : x = [do |-> "resume", amp |-> "L"] /\ y = [do |-> "return", amp |-> "L"]
                     /\ z = [do |-> "reg_init", amp |-> a]
  OBVIOUS
<1>2. /\ "L" \in Amp!Amps /\ [do |-> "resume", amp |-> "L"] \in Amp!Steps /\ [do |-> "return", amp |-> "L"] \in Amp!Steps
      /\ [do |-> "reg_init", amp |-> a] \in Amp!Steps /\ [do |-> "chip_on", amp |-> a] \in Amp!Steps
  BY DEF Amp!Steps, Amp!Amps
<1>3. PICK r : r = Amp!Do("return", "L") \o rest
  OBVIOUS
<1>4. r \in Seq(Amp!Steps)
  BY <1>2, <1>3, StepFirst
<1>5. Amp!Do("resume", "L") \o r \in Seq(Amp!Steps)
  BY <1>2, <1>4, StepFirst
<1>6. Amp!Resuming("L", rest) \in Seq(Amp!Steps)
  BY Zenon, <1>3, <1>5 DEF Amp!Resuming
<1>7. Amp!TurningOn(4, a, Amp!Resuming("L", rest)) \in Seq(Amp!Steps)
  BY Zenon, <1>6, OnIsSteps, Counts
<1>8. /\ Amp!Suspending(2, "L", Amp!TurningOn(4, a, Amp!Resuming("L", rest))) \in Seq(Amp!Steps)
      /\ Amp!TurningOn(2, a, rest) \in Seq(Amp!Steps) /\ Amp!TurningOn(4, a, rest) \in Seq(Amp!Steps)
  BY Zenon, <1>2, <1>7, OnIsSteps, OffIsSteps, Counts
<1>9. NoReset(rest) => NoReset(Amp!TurningOn(2, a, rest))
  <2>1. PICK u, v : u = [do |-> "reg_init", amp |-> a] /\ v = [do |-> "chip_on", amp |-> a]
    OBVIOUS
  <2>2. /\ u \in Amp!Steps /\ v \in Amp!Steps
        /\ u.do \notin {"rst_high", "owi_mode"} /\ v.do \notin {"rst_high", "owi_mode"}
    BY <1>2, <2>1
  <2>3. NoReset(rest) => NoReset(<<v>> \o rest)
    BY Zenon, <2>2, NoResetJoins
  <2>4. PICK w : w = <<v>> \o rest
    OBVIOUS
  <2>5. w \in Seq(Amp!Steps)
    BY <2>2, <2>4
  <2>6. NoReset(rest) => NoReset(<<u>> \o w)
    BY Zenon, <2>2, <2>3, <2>4, <2>5, NoResetJoins
  <2>7. Amp!TurningOn(2, a, rest) = <<u>> \o w
    <3>1. Amp!TurningOn(2, a, rest) = Amp!Do("reg_init", a) \o (Amp!Do("chip_on", a) \o rest)
      BY DEF Amp!TurningOn
    <3> QED BY Zenon, <2>1, <2>4, <3>1 DEF Amp!Do
  <2> QED BY Zenon, <2>6, <2>7
<1> QED BY Zenon, <1>8, <1>9 DEF Resumed

\* A step keeps the types, and without pins nothing goes in or out of reset.
LEMMA TypesKept ==
  ASSUME Amp!Types, Amp!NoPins, late = 0, late' = 0, NEW c \in Callers, Amp!Step(c)
  PROVE  Amp!Types' /\ Amp!NoPins' /\ todo[c] # << >> /\ todo' = [todo EXCEPT ![c] = todo'[c]]
<1>0. late \in Nat /\ late' = late
  OBVIOUS
<1>1. PICK h, t : h = Head(todo[c]) /\ t = Tail(todo[c])
  OBVIOUS
<1>2. todo[c] # << >> /\ todo[c] \in Seq(Amp!Steps)
  BY <1>0, <1>1, StepMoves DEF Amp!Types
<1>3. PICK s : s = todo[c]
  OBVIOUS
<1>4. h \in Amp!Steps /\ t \in Seq(Amp!Steps) /\ s = <<h>> \o t
      /\ (NoReset(s) => h.do \notin {"rst_high", "owi_mode"} /\ NoReset(t))
  BY Zenon, <1>1, <1>2, <1>3, FirstAndRest
<1>5. /\ UNCHANGED <<kind, removed, goal, mixed>>
      /\ h.do \in {"resume", "return", "owi_mode"} => UNCHANGED <<rst, conf, chipon>>
      /\ h.do # "resume" => todo' = [todo EXCEPT ![c] = t]
      /\ h.do = "rst_high" => rst' = rst \union {h.amp} /\ UNCHANGED <<conf, chipon>>
      /\ h.do = "reg_init" => Amp!RegInit(c)
      /\ h.do = "chip_on" => Amp!ChipOn(c)
      /\ h.do = "chip_off" => Amp!ChipOff(c)
      /\ h.do = "rst_low" => Amp!RstLow(c)
  BY <1>0, <1>1, StepMoves
<1>6. /\ rst' \subseteq Amp!Amps /\ chipon' \subseteq Amp!Amps /\ conf' \in [Amp!Amps -> Amp!Amps \union {"none"}]
      /\ ~kind.pins /\ h.do # "rst_high" => rst' \subseteq rst
  <2>1. h.amp \in Amp!Amps /\ Amp!Amp(c) = h.amp
    BY <1>1, <1>4 DEF Amp!Steps, Amp!Amp
  <2>2. \A d : Amp!Hear(d) \subseteq Amp!Amps
    BY DEF Amp!Hear
  <2>3. h.do \in {"resume", "return", "owi_mode", "rst_high", "reg_init", "chip_on", "chip_off", "rst_low"}
    BY <1>4 DEF Amp!Steps
  <2>4. /\ rst \subseteq Amp!Amps /\ chipon \subseteq Amp!Amps /\ conf \in [Amp!Amps -> Amp!Amps \union {"none"}]
    BY DEF Amp!Types
  <2>5. CASE h.do = "reg_init"
    BY <1>5, <2>1, <2>2, <2>4, <2>5 DEF Amp!RegInit
  <2>6. CASE h.do = "chip_on"
    BY <1>5, <2>2, <2>4, <2>6 DEF Amp!ChipOn
  <2>7. CASE h.do = "chip_off"
    BY <1>5, <2>4, <2>7 DEF Amp!ChipOff
  <2>8. CASE h.do = "rst_low"
    BY <1>5, <2>1, <2>4, <2>8 DEF Amp!RstLow
  <2>9. CASE h.do \in {"resume", "return", "owi_mode", "rst_high"}
    BY <1>5, <2>1, <2>4, <2>9
  <2> QED BY <2>3, <2>5, <2>6, <2>7, <2>8, <2>9
<1>7. PICK n : /\ todo' = [todo EXCEPT ![c] = n] /\ n \in Seq(Amp!Steps)
               /\ (~kind.pins /\ NoReset(s) => NoReset(n))
  <2>1. CASE h.do # "resume"
    BY <1>4, <1>5, <2>1
  <2>2. CASE h.do = "resume"
    <3>1. PICK a \in Amp!Amps : h = [do |-> "resume", amp |-> a]
      BY <1>4, <2>2 DEF Amp!Steps
    <3>2. todo[c] = Amp!Do("resume", a) \o t
      BY Zenon, <1>3, <1>4, <3>1 DEF Amp!Do
    <3>3. todo' = [todo EXCEPT ![c] = Resumed(a, t)]
      BY Zenon, <1>4, <3>2, Resumes
    <3>4. Resumed(a, t) \in Seq(Amp!Steps) /\ (~kind.pins /\ NoReset(t) => NoReset(Resumed(a, t)))
      BY Zenon, <1>4, ResumedIsSteps
    <3> QED BY Zenon, <1>4, <3>3, <3>4
  <2> QED BY <2>1, <2>2
<1>8. todo'[c] = n /\ \A d \in Callers : d # c => todo'[d] = todo[d]
  BY <1>7 DEF Amp!Types
<1>9. Amp!Types'
  BY <1>5, <1>6, <1>7 DEF Amp!Types
<1>10. Amp!NoPins'
  <2>1. ASSUME ~kind.pins
        PROVE  rst' = {} /\ \A d \in Callers : NoReset(todo'[d])
    <3>1. rst = {} /\ \A d \in Callers : NoReset(todo[d])
      BY <2>1 DEF Amp!NoPins, NoReset
    <3>2. NoReset(s)
      BY Zenon, <1>3, <3>1
    <3>3. rst' = {}
      BY <1>4, <1>6, <2>1, <3>1, <3>2
    <3>4. NoReset(n)
      BY <1>7, <2>1, <3>2
    <3>5. ASSUME NEW d \in Callers PROVE NoReset(todo'[d])
      BY Zenon, <1>8, <3>1, <3>4
    <3> QED BY <3>3, <3>5
  <2> QED BY <1>5, <2>1 DEF Amp!NoPins, NoReset
<1> QED BY Zenon, <1>2, <1>7, <1>8, <1>9, <1>10

LEMMA StepKeepsAmps ==
  ASSUME Amp!IInv, NEW c \in Callers, Amp!Step(c)
  PROVE  Amp!IInv'
<1>1. late \in Nat /\ late' \in Nat
  <2>1. PICK h : h = Head(todo[c])
    OBVIOUS
  <2>2. late \in Nat
    BY DEF Amp!IInv
  <2>3. CASE Amp!OwiWriteMode(c)
    BY <2>2, <2>3 DEF Amp!OwiWriteMode
  <2>4. CASE ~Amp!OwiWriteMode(c)
    BY <2>2, <2>4 DEF Amp!Step, Amp!ResumeStep, Amp!RstHigh, Amp!RegInit, Amp!ChipOn, Amp!ChipOff, Amp!RstLow, Amp!Return
  <2> QED BY <2>2, <2>3, <2>4
<1>2. SUFFICES ASSUME late' = 0 PROVE Amp!Types' /\ Amp!NoPins' /\ (mixed' # Amp!Amps => Amp!OneAtATime' /\ Amp!Places')
  BY <1>1 DEF Amp!IInv
<1>3. late = 0
  <2>1. PICK h : h = Head(todo[c])
    OBVIOUS
  <2> QED BY <1>1, <1>2, <2>1, StepMoves
<1>4. Amp!Types /\ Amp!NoPins /\ (mixed # Amp!Amps => Amp!OneAtATime /\ Amp!Places)
  BY <1>3 DEF Amp!IInv
<1>5. Amp!Types' /\ Amp!NoPins' /\ todo[c] # << >> /\ todo' = [todo EXCEPT ![c] = todo'[c]]
  BY Zenon, <1>2, <1>3, <1>4, TypesKept
<1>6. ASSUME mixed' # Amp!Amps PROVE Amp!OneAtATime' /\ Amp!Places'
  <2>1. mixed' = mixed
    <3>1. PICK h : h = Head(todo[c])
      OBVIOUS
    <3> QED BY <1>1, <3>1, StepMoves
  <2>2. Amp!OneAtATime /\ Amp!Places
    BY <1>4, <1>6, <2>1
  <2>3. EndsInPlace(c)
    BY Zenon, <1>2, <1>3, <1>4, <1>5, <2>2, PlaceMoves DEF Amp!Places
  <2>4. PICK n : n = todo'[c] /\ todo' = [todo EXCEPT ![c] = n]
    BY Zenon, <1>5
  <2>5. \A d \in Callers : d # c => todo[d] = << >> /\ todo'[d] = << >>
    BY <1>4, <1>5, <2>2, <2>4 DEF Amp!OneAtATime, Amp!Types
  <2>6. Amp!OneAtATime'
    BY <2>5 DEF Amp!OneAtATime
  <2>7. ASSUME NEW d \in Callers, todo'[d] # << >> PROVE Amp!InPlace(todo[d])'
    <3>1. d = c
      BY <2>5, <2>7
    <3> QED BY Zenon, <2>3, <3>1 DEF EndsInPlace
  <2>8. (\A d \in Callers : todo'[d] = << >>) => AllAsAsked'
    BY Zenon, <2>3 DEF EndsInPlace
  <2> QED BY Zenon, <2>6, <2>7, <2>8 DEF Amp!Places, AllAsAsked
<1> QED BY <1>5, <1>6

LEMMA CallsDiffer ==
  ASSUME NEW a \in Amp!Amps
  PROVE  /\ Amp!Suspend(a) \in Seq(Amp!Steps) /\ Amp!Resume(a) \in Seq(Amp!Steps) /\ Amp!Reboot(a) \in Seq(Amp!Steps)
         /\ Amp!Suspend(a) # << >> /\ Amp!Resume(a) # << >> /\ Amp!Reboot(a) # << >>
         /\ Amp!Suspend(a) # Amp!Resume(a) /\ Amp!Suspend(a) # Amp!Reboot(a)
         /\ NoReset(Amp!Suspend(a)) /\ NoReset(Amp!Resume(a)) /\ NoReset(Amp!Reboot(a))
<1>1. PICK off, low, back, ret : /\ off = [do |-> "chip_off", amp |-> a] /\ low = [do |-> "rst_low", amp |-> a]
                                 /\ back = [do |-> "resume", amp |-> a] /\ ret = [do |-> "return", amp |-> a]
  OBVIOUS
<1>2. /\ off \in Amp!Steps /\ low \in Amp!Steps /\ back \in Amp!Steps /\ ret \in Amp!Steps
      /\ off.do = "chip_off" /\ back.do = "resume" /\ NoReset(<< >>)
      /\ \A x \in {off, low, back, ret} : x.do \notin {"rst_high", "owi_mode"}
  BY <1>1 DEF Amp!Steps, NoReset
<1>3. \A x \in Amp!Steps, s \in Seq(Amp!Steps) :
        /\ <<x>> \o s \in Seq(Amp!Steps) /\ <<x>> \o s # << >> /\ Head(<<x>> \o s) = x /\ Tail(<<x>> \o s) = s
  OBVIOUS
<1>4. PICK r1 : r1 = <<ret>> \o << >>
  OBVIOUS
<1>5. r1 \in Seq(Amp!Steps) /\ NoReset(r1)
  <2>1. << >> \in Seq(Amp!Steps)
    OBVIOUS
  <2> QED BY Zenon, <1>2, <1>3, <1>4, <2>1, NoResetJoins
<1>6. PICK r2 : r2 = <<back>> \o r1
  OBVIOUS
<1>7. r2 \in Seq(Amp!Steps) /\ NoReset(r2) /\ r2 # << >> /\ Head(r2) = back
  BY Zenon, <1>2, <1>3, <1>5, <1>6, NoResetJoins
<1>8. ASSUME NEW r \in Seq(Amp!Steps), NoReset(r), NEW s1, s1 = <<low>> \o r, NEW s2, s2 = <<off>> \o s1
      PROVE  /\ s2 \in Seq(Amp!Steps) /\ s2 # << >> /\ NoReset(s2) /\ Head(s2) = off /\ Tail(Tail(s2)) = r
  <2>1. s1 \in Seq(Amp!Steps) /\ NoReset(s1) /\ Tail(s1) = r
    BY Zenon, <1>2, <1>3, <1>8, NoResetJoins
  <2> QED BY Zenon, <1>2, <1>3, <1>8, <2>1, NoResetJoins
<1>9. PICK e1, e2, b1, b2 : /\ e1 = <<low>> \o << >> /\ e2 = <<off>> \o e1
                            /\ b1 = <<low>> \o r2 /\ b2 = <<off>> \o b1
  OBVIOUS
<1>10. /\ e2 \in Seq(Amp!Steps) /\ e2 # << >> /\ NoReset(e2) /\ Head(e2) = off /\ Tail(Tail(e2)) = << >>
       /\ b2 \in Seq(Amp!Steps) /\ b2 # << >> /\ NoReset(b2) /\ Tail(Tail(b2)) = r2
  <2>1. << >> \in Seq(Amp!Steps)
    OBVIOUS
  <2>2. /\ e2 \in Seq(Amp!Steps) /\ e2 # << >> /\ NoReset(e2) /\ Head(e2) = off /\ Tail(Tail(e2)) = << >>
    BY Zenon, <1>2, <1>8, <1>9, <2>1
  <2>3. /\ b2 \in Seq(Amp!Steps) /\ b2 # << >> /\ NoReset(b2) /\ Tail(Tail(b2)) = r2
    BY Zenon, <1>7, <1>8, <1>9
  <2> QED BY <2>2, <2>3
<1>11. e2 # r2 /\ e2 # b2
  <2>1. off # back
    BY <1>2
  <2> QED BY Zenon, <1>7, <1>10, <2>1
<1>12. /\ Amp!Suspend(a) = e2 /\ Amp!Resume(a) = r2 /\ Amp!Reboot(a) = b2
  <2>1. /\ Amp!Suspending(2, a, << >>) = e2 /\ Amp!Resuming(a, << >>) = r2
        /\ Amp!Suspending(2, a, r2) = b2
    <3>1. \A rest : Amp!Suspending(2, a, rest) = Amp!Do("chip_off", a) \o (Amp!Do("rst_low", a) \o rest)
      BY DEF Amp!Suspending
    <3> QED BY Zenon, <1>1, <1>4, <1>6, <1>9, <3>1 DEF Amp!Do, Amp!Resuming
  <2> QED BY Zenon, <2>1, CallForms
<1> QED BY Zenon, <1>7, <1>10, <1>11, <1>12

LEMMA BeginKeepsAmps ==
  ASSUME Amp!IInv, NEW c \in Callers, NEW a \in Amp!Amps, NEW steps, NEW wanted, Amp!Begin(c, a, steps, wanted),
         wanted \subseteq Amp!Amps, wanted \ {a} = goal \ {a},
         \/ steps = Amp!Suspend(a) /\ a \notin wanted
         \/ steps \in {Amp!Resume(a), Amp!Reboot(a)} /\ a \in wanted
  PROVE  Amp!IInv'
<1>1. /\ todo[c] = << >> /\ todo' = [todo EXCEPT ![c] = steps] /\ goal' = wanted
      /\ mixed' = IF \E d \in Callers : todo[d] # << >> THEN Amp!Amps
                  ELSE IF steps = Amp!Suspend(a) THEN mixed \ {a} ELSE mixed
      /\ UNCHANGED <<kind, rst, conf, chipon, late>>
  BY Zenon DEF Amp!Begin
<1>2. steps \in Seq(Amp!Steps) /\ NoReset(steps) /\ steps # << >>
  BY Zenon, CallsDiffer
<1>3. SUFFICES ASSUME late = 0 PROVE Amp!Types' /\ Amp!NoPins' /\ (mixed' # Amp!Amps => Amp!OneAtATime' /\ Amp!Places')
  BY <1>1 DEF Amp!IInv
<1>4. Amp!Types /\ Amp!NoPins /\ (mixed # Amp!Amps => Amp!OneAtATime /\ Amp!Places)
  BY <1>3 DEF Amp!IInv
<1>5. todo'[c] = steps /\ \A d \in Callers : d # c => todo'[d] = todo[d]
  BY <1>1, <1>4 DEF Amp!Types
<1>6. Amp!Types'
  <2>1. mixed' \subseteq Amp!Amps
    BY <1>1, <1>4 DEF Amp!Types
  <2> QED BY <1>1, <1>2, <1>4, <2>1 DEF Amp!Types
<1>7. Amp!NoPins'
  <2>1. ASSUME ~kind.pins PROVE rst' = {} /\ \A d \in Callers : NoReset(todo'[d])
    <3>1. rst = {} /\ \A d \in Callers : NoReset(todo[d])
      BY <1>4, <2>1 DEF Amp!NoPins, NoReset
    <3>2. ASSUME NEW d \in Callers PROVE NoReset(todo'[d])
      BY Zenon, <1>2, <1>5, <3>1
    <3> QED BY <1>1, <3>1, <3>2
  <2> QED BY <1>1, <2>1 DEF Amp!NoPins, NoReset
<1>8. ASSUME mixed' # Amp!Amps PROVE Amp!OneAtATime' /\ Amp!Places'
  <2>1. \A d \in Callers : todo[d] = << >>
    BY <1>1, <1>8
  <2>2. \A d \in Callers : d # c => todo'[d] = << >>
    BY Zenon, <1>5, <2>1
  <2>3. Amp!OneAtATime'
    BY Zenon, <2>2 DEF Amp!OneAtATime
  <2>4. mixed # Amp!Amps => AllAsAsked
    BY Zenon, <1>4, <2>1 DEF Amp!Places, AllAsAsked
  <2>5. PICK b \in Amp!Amps : b # a /\ ((a = "L" /\ b = "R") \/ (a = "R" /\ b = "L"))
    BY DEF Amp!Amps
  <2>6. mixed' = IF steps = Amp!Suspend(a) THEN mixed \ {a} ELSE mixed
    BY Zenon, <1>1, <2>1
  <2>7. (Amp!Clean(b) => Amp!AsAsked(b))'
    <3>1. ASSUME Amp!Clean(b)' PROVE Amp!AsAsked(b)
      <4>1. b \notin mixed
        BY <2>5, <2>6, <3>1 DEF Amp!Clean
      <4> QED BY <2>4, <4>1 DEF AllAsAsked, Amp!Clean
    <3>2. (b \in goal)' <=> b \in goal
      BY <1>1, <2>5
    <3> QED BY <1>1, <3>1, <3>2 DEF Amp!AsAsked, Amp!Up, Amp!Down
  <2>8. << >> \in Amp!Ends(a)
    BY DEF Amp!Ends
  <2>9. CASE steps = Amp!Suspend(a) /\ a \notin wanted
    <3>1. steps = Amp!Suspending(2, a, << >>)
      BY Zenon, <2>9, CallForms
    <3>2. (Amp!Clean(a) => Amp!BeforeOff(2, a) /\ a \notin goal)'
      BY <1>1, <2>9 DEF Amp!BeforeOff
    <3>3. Amp!OfOne(steps, a, b)'
      BY Zenon, <2>7, <3>1, <3>2, Counts DEF Amp!OfOne
    <3> QED BY Zenon, <1>2, <1>5, <2>2, <2>3, <2>5, <3>3 DEF Amp!Places, Amp!InPlace
  <2>10. CASE steps = Amp!Resume(a) /\ a \in wanted
    <3>1. steps = Amp!Resuming(a, << >>) /\ steps # Amp!Suspend(a)
      BY Zenon, <2>10, CallForms, CallsDiffer
    <3>2. mixed' = mixed
      BY <2>6, <3>1
    <3>3. (Amp!Clean(a) => a \in goal /\ Amp!BeforeOn(4, a))'
      <4>1. Amp!Clean(a)' => Amp!Up(a) \/ Amp!Down(a)
        BY <1>8, <2>4, <3>2 DEF AllAsAsked, Amp!Clean, Amp!AsAsked
      <4>2. Amp!Up(a) \/ Amp!Down(a) => Amp!Up(a)' \/ Amp!Down(a)'
        BY <1>1 DEF Amp!Up, Amp!Down
      <4>3. Amp!Up(a)' \/ Amp!Down(a)' => Amp!BeforeOn(4, a)'
        BY Zenon, Counts DEF Amp!BeforeOn
      <4> QED BY <1>1, <2>10, <4>1, <4>2, <4>3
    <3>4. Amp!OfOne(steps, a, b)'
      BY Zenon, <2>7, <2>8, <3>1, <3>3 DEF Amp!OfOne
    <3> QED BY Zenon, <1>2, <1>5, <2>2, <2>3, <2>5, <3>4 DEF Amp!Places, Amp!InPlace
  <2>11. CASE steps = Amp!Reboot(a) /\ a \in wanted
    <3>1. steps = Amp!Suspending(2, a, Amp!Resuming(a, << >>))
      BY Zenon, <2>11, CallForms
    <3>2. (Amp!Clean(a) => Amp!BeforeOff(2, a) /\ a \in goal)'
      BY <1>1, <2>11 DEF Amp!BeforeOff
    <3>3. Amp!OfOne(steps, a, b)'
      BY Zenon, <2>7, <3>1, <3>2, Counts DEF Amp!OfOne
    <3> QED BY Zenon, <1>2, <1>5, <2>2, <2>3, <2>5, <3>3 DEF Amp!Places, Amp!InPlace
  <2> QED BY <2>9, <2>10, <2>11
<1> QED BY <1>6, <1>7, <1>8

LEMMA AmpInit ==
  ASSUME Amp!Init PROVE Amp!IInv
<1>1. /\ kind \in AllKinds /\ rst = {} /\ chipon = {} /\ goal = {} /\ mixed = {} /\ late = 0
      /\ conf = [a \in Amp!Amps |-> "none"] /\ todo = [c \in Callers |-> << >>]
  BY Zenon DEF Amp!Init
<1>2. Amp!Types
  BY <1>1 DEF Amp!Types
<1>3. \A c \in Callers : todo[c] = << >>
  BY <1>1
<1>4. Amp!NoPins
  BY <1>1, <1>3 DEF Amp!NoPins
<1>5. Amp!OneAtATime /\ Amp!Places
  BY <1>1, <1>3 DEF Amp!OneAtATime, Amp!Places, Amp!AsAsked, Amp!Down
<1> QED BY <1>1, <1>2, <1>4, <1>5 DEF Amp!IInv

LEMMA AmpStep ==
  ASSUME Amp!IInv, [Amp!Next]_amp_vars PROVE Amp!IInv'
<1>1. CASE UNCHANGED amp_vars
  <2>1. /\ UNCHANGED kind /\ UNCHANGED rst /\ UNCHANGED conf /\ UNCHANGED chipon /\ UNCHANGED todo
        /\ UNCHANGED goal /\ UNCHANGED mixed /\ UNCHANGED late
    BY <1>1 DEF amp_vars
  <2>2. ASSUME NEW a
        PROVE  /\ Amp!Clean(a)' <=> Amp!Clean(a)
               /\ Amp!Up(a)' <=> Amp!Up(a)
               /\ Amp!Down(a)' <=> Amp!Down(a)
               /\ Amp!SharesAddress(a)' <=> Amp!SharesAddress(a)
    BY <2>1 DEF Amp!Clean, Amp!Up, Amp!Down, Amp!SharesAddress
  <2>3. ASSUME NEW a
        PROVE  Amp!AsAsked(a)' <=> Amp!AsAsked(a)
    BY <2>1, <2>2 DEF Amp!AsAsked
  <2>4. ASSUME NEW a, NEW n
        PROVE  /\ Amp!BeforeOn(n, a)' <=> Amp!BeforeOn(n, a)
               /\ Amp!BeforeOff(n, a)' <=> Amp!BeforeOff(n, a)
    BY <2>1, <2>2 DEF Amp!BeforeOn, Amp!BeforeOff
  <2>5. ASSUME NEW s, NEW a, NEW b, Amp!OfOne(s, a, b) PROVE Amp!OfOne(s, a, b)'
    BY Zenon, <2>1, <2>2, <2>3, <2>4, <2>5 DEF Amp!OfOne
  <2>6. ASSUME NEW s, Amp!LeftAside(s) PROVE Amp!LeftAside(s)'
    BY Zenon, <2>1, <2>2, <2>4, <2>6 DEF Amp!LeftAside
  <2>7. ASSUME NEW s, Amp!InPlace(s) PROVE Amp!InPlace(s)'
    BY Zenon, <2>2, <2>3, <2>5, <2>6, <2>7 DEF Amp!InPlace
  <2>8. Amp!Places => Amp!Places'
    <3>1. ASSUME NEW c \in Callers, Amp!InPlace(todo[c]) PROVE Amp!InPlace(todo[c])'
      <4>1. PICK s : s = todo[c]
        OBVIOUS
      <4>2. s = todo'[c]
        BY <2>1, <4>1
      <4>3. Amp!InPlace(s)'
        BY Zenon, <2>7, <3>1, <4>1
      <4> QED BY Zenon, <4>2, <4>3
    <3> QED BY Zenon, <2>1, <2>2, <2>3, <3>1 DEF Amp!Places
  <2>9. Amp!OneAtATime => Amp!OneAtATime'
    BY <2>1 DEF Amp!OneAtATime
  <2>10. (Amp!Types => Amp!Types') /\ (Amp!NoPins => Amp!NoPins')
    BY <2>1 DEF Amp!Types, Amp!NoPins
  <2> QED BY <2>1, <2>8, <2>9, <2>10 DEF Amp!IInv
<1>2. ASSUME NEW c \in Callers, Amp!Step(c) PROVE Amp!IInv'
  BY <1>2, StepKeepsAmps
<1>3. ASSUME NEW c \in Callers, NEW a \in Amp!Amps,
             \/ Amp!PowerOn(c, a) \/ Amp!PowerOff(c, a) \/ Amp!SetMode(c, a)
             \/ Amp!AudioSceneSet(c, a) \/ Amp!DevRemove(c, a)
      PROVE  Amp!IInv'
  <2>1. PICK steps, wanted :
          /\ Amp!Begin(c, a, steps, wanted)
          /\ \/ steps = Amp!Suspend(a) /\ wanted = goal \ {a}
             \/ steps \in {Amp!Resume(a), Amp!Reboot(a)} /\ wanted = goal \union {a}
    BY Zenon, <1>3 DEF Amp!PowerOn, Amp!PowerOff, Amp!SetMode, Amp!AudioSceneSet, Amp!DevRemove
  <2>2. late = 0 => goal \subseteq Amp!Amps
    BY DEF Amp!IInv, Amp!Types
  <2>3. CASE late = 0
    <3>1. /\ wanted \subseteq Amp!Amps /\ wanted \ {a} = goal \ {a}
          /\ \/ steps = Amp!Suspend(a) /\ a \notin wanted
             \/ steps \in {Amp!Resume(a), Amp!Reboot(a)} /\ a \in wanted
      BY <2>1, <2>2, <2>3
    <3> QED BY Zenon, <2>1, <3>1, BeginKeepsAmps
  <2>4. CASE late # 0
    BY <2>1, <2>4 DEF Amp!Begin, Amp!IInv
  <2> QED BY <2>3, <2>4
<1>4. CASE Amp!Next
  BY Zenon, <1>2, <1>3, <1>4 DEF Amp!Next
<1> QED BY <1>1, <1>4

\* Between calls, what the invariant says is what the property asks.
LEMMA AmpsAsTwo ==
  ASSUME Amp!IInv PROVE AmpsAreTwo
<1>1. SUFFICES ASSUME \A c \in Callers : todo[c] = << >>, late = 0
               PROVE  Amp!Sounding \ mixed = goal \ mixed /\ \A a \in rst \ mixed : conf[a] = a
  BY DEF AmpsAreTwo, Amp!AmpsAreTwo, Amp!PowerFollows, Amp!OwnSettings, Amp!Quiet
<1>2. Amp!Types /\ Amp!NoPins /\ (mixed # Amp!Amps => AllAsAsked)
  BY <1>1 DEF Amp!IInv, Amp!Places, AllAsAsked
<1>3. /\ rst \subseteq Amp!Amps /\ chipon \subseteq Amp!Amps /\ goal \subseteq Amp!Amps /\ mixed \subseteq Amp!Amps
      /\ (~kind.pins => rst = {}) /\ kind.pins \in BOOLEAN
  BY <1>2, KindIs DEF Amp!Types, Amp!NoPins
<1>4. CASE mixed = Amp!Amps
  BY <1>3, <1>4 DEF Amp!Sounding
<1>5. CASE mixed # Amp!Amps
  <2>1. \A a \in Amp!Amps : a \notin mixed => IF a \in goal THEN Amp!Up(a) ELSE Amp!Down(a)
    BY <1>2, <1>5 DEF AllAsAsked, Amp!Clean, Amp!AsAsked
  <2> QED BY <1>3, <2>1 DEF Amp!Sounding, Amp!Up, Amp!Down
<1> QED BY <1>4, <1>5

-----------------------------------------------------------------------------
(* SiaAfe: one command at a time behind the busy flag. *)

USE DEF Afe!FlagCoversPending, Afe!OnePending, Afe!WaitedIsKnown, Afe!NoCrossedAnswers

\* sia81xx_afe_open: nothing was sent.
LEMMA AfeInit == Afe!Init => Afe!IInv
  BY DEF Afe!Init, Afe!IInv

\* What a close, or an unmapping, does: the commands that it forgets are lost, not
\* answered, and none is left that could be.
LEMMA AfeFreed ==
  ASSUME Afe!IInv, Afe!Freed, trusted' \subseteq trusted \union heard,
         stage' = "wait" => stage = "wait" /\ waits' = waits
  PROVE  Afe!IInv'
<1>1. pending' = {} /\ heard' = heard \union {m.cmd : m \in pending}
  BY DEF Afe!Freed
<1>2. Afe!WaitedIsKnown'
  BY <1>1 DEF Afe!IInv
<1> QED BY <1>1, <1>2 DEF Afe!IInv

\* A command goes out only when the flag is clear, hence when none is unanswered.
LEMMA AfeSends ==
  ASSUME Afe!IInv, NEW k \in {"map", "param", "unmap"}, Afe!AprSend(k)
  PROVE  Afe!IInv'
<1>1. CASE /\ Afe!Failed(k)
           /\ IF k = "unmap" THEN Afe!Freed
              ELSE busy' = TRUE /\ UNCHANGED <<pending, heard>>
  <2>1. stage' # "wait" /\ trusted' = trusted
    BY <1>1 DEF Afe!AprSend, Afe!Failed, Afe!Return
  <2>2. CASE k = "unmap"
    BY <1>1, <2>1, <2>2, AfeFreed
  <2>3. CASE k # "unmap"
    BY <1>1, <2>1, <2>3 DEF Afe!IInv
  <2> QED BY <2>2, <2>3
<1>2. CASE /\ ~Afe!Refused /\ busy' = TRUE
           /\ pending' = pending \union {[cmd |-> afe_sent + 1, kind |-> k]}
           /\ waits' = [cmd |-> afe_sent + 1, kind |-> k] /\ UNCHANGED heard
  <2>1. pending' = {[cmd |-> afe_sent + 1, kind |-> k]} /\ trusted' = trusted
    BY <1>2 DEF Afe!IInv, Afe!Refused, Afe!AprSend
  <2> QED BY <1>2, <2>1 DEF Afe!IInv
<1>3. CASE Afe!Return /\ UNCHANGED <<busy, pending, heard>>
  BY <1>3 DEF Afe!AprSend, Afe!Return, Afe!IInv
<1> QED BY <1>1, <1>2, <1>3 DEF Afe!AprSend

\* A wait that ends with the flag clear: nothing is pending, so the command was heard of.
LEMMA AfeWaitEnds ==
  ASSUME Afe!IInv, Afe!Answered \/ Afe!TimesOut
  PROVE  Afe!IInv'
<1>1. trusted' \subseteq trusted \union heard
  BY DEF Afe!Answered, Afe!TimesOut, Afe!IInv
<1>2. stage' # "wait"
  BY DEF Afe!Answered, Afe!TimesOut, Afe!Continue, Afe!Return
<1>3. CASE pending' = {} /\ heard \subseteq heard'
  BY <1>1, <1>2, <1>3 DEF Afe!IInv
<1>4. CASE UNCHANGED <<pending, heard>>
  <2>1. CASE Afe!Answered
    BY <1>1, <1>2, <1>4, <2>1 DEF Afe!Answered, Afe!IInv
  <2>2. CASE Afe!TimesOut /\ busy' = busy
    BY <1>1, <1>2, <1>4, <2>2 DEF Afe!IInv
  <2>3. CASE Afe!TimesOut /\ waits.kind = "unmap"
    <3>1. pending' = {}
      BY <2>3 DEF Afe!TimesOut, Afe!Continue, Afe!Freed
    <3> QED BY <1>1, <1>2, <1>4, <3>1 DEF Afe!IInv
  <2> QED BY <2>1, <2>2, <2>3 DEF Afe!TimesOut, Afe!FlagAfterTimeout
<1>5. (pending' = {} /\ heard \subseteq heard') \/ UNCHANGED <<pending, heard>>
  BY DEF Afe!Answered, Afe!TimesOut, Afe!Continue, Afe!Freed
<1> QED BY <1>3, <1>4, <1>5

\* The processor answers the one command that is unanswered, or forgets it.
LEMMA AfeHears ==
  ASSUME Afe!IInv, Afe!Reset \/ \E m \in pending : Afe!Answer(m)
  PROVE  Afe!IInv'
<1>1. CASE Afe!Reset
  <2>1. pending' = {} /\ heard' = heard \union {m.cmd : m \in pending}
        /\ UNCHANGED <<stage, waits, trusted>>
    BY <1>1 DEF Afe!Reset
  <2> QED BY <2>1 DEF Afe!IInv
<1>2. ASSUME NEW m \in pending, Afe!Answer(m)
      PROVE  Afe!IInv'
  <2>1. pending' = {} /\ heard' = heard \union {m.cmd} /\ UNCHANGED <<stage, waits, trusted>>
    BY <1>2 DEF Afe!Answer, Afe!IInv
  <2>2. \A n \in pending : n = m
    BY DEF Afe!IInv
  <2> QED BY <2>1, <2>2 DEF Afe!IInv
<1> QED BY <1>1, <1>2

\* Any step of the link or its processor.
LEMMA AfeStep ==
  ASSUME Afe!IInv, [Afe!Next]_afe_vars PROVE Afe!IInv'
<1>1. CASE UNCHANGED afe_vars
  BY <1>1 DEF afe_vars, Afe!IInv
<1>2. CASE \E c \in {"send", "read"} : Afe!Call(c)
  BY <1>2 DEF Afe!Call, Afe!IInv
<1>3. CASE Afe!CheckApr \/ Afe!CheckCalBlock
  BY <1>3 DEF Afe!CheckApr, Afe!CheckCalBlock, Afe!Return, Afe!IInv
<1>4. CASE \E k \in {"map", "param", "unmap"} : Afe!AprSend(k)
  BY <1>4, AfeSends
<1>5. CASE Afe!Close
  <2>1. CASE call' = "close"
    BY <1>5, <2>1, AfeFreed DEF Afe!Close, Afe!IInv
  <2>2. CASE Afe!Freed /\ UNCHANGED stage
    BY <1>5, <2>2, AfeFreed DEF Afe!Close
  <2> QED BY <1>5, <2>1, <2>2 DEF Afe!Close
<1> QED BY <1>1, <1>2, <1>3, <1>4, <1>5, AfeWaitEnds, AfeHears DEF Afe!Next

-----------------------------------------------------------------------------
(* SiaMailbox: a command stays in its unit until it is picked up. *)

USE DEF Mailbox!CommandsMeet, Mailbox!WriteWasTaken, Mailbox!ReplyIsForParam

LEMMA MailboxInit == Mailbox!Init => Mailbox!IInv
  BY DEF Mailbox!Init, Mailbox!IInv, Mailbox!TypeOK, Mailbox!FreeUnit, Mailbox!Nothing, Mailbox!Idle,
         Mailbox!NoFile, Mailbox!NoHandle, Mailbox!Free, Mailbox!Cmds, Mailbox!Contents, Mailbox!Requests,
         Mailbox!Calls, Mailbox!Fates, Mailbox!HasHandle, Mailbox!CommandStays, Mailbox!AnswerStays, Mailbox!CallsHaveUnits

\* What a unit, a request and a call become keeps its shape.
LEMMA UnitTyped ==
  ASSUME Mailbox!TypeOK, NEW u \in Units
  PROVE  /\ \A w \in BOOLEAN : [unit EXCEPT ![u].writen = w] \in [Units -> Mailbox!Contents]
         /\ unit[u].cmd \in Mailbox!Cmds
<1>1. ASSUME NEW c \in Mailbox!Contents, NEW w \in BOOLEAN
      PROVE  [c EXCEPT !.writen = w] \in Mailbox!Contents
  BY DEF Mailbox!Contents
<1> QED BY <1>1 DEF Mailbox!TypeOK, Mailbox!Contents

\* The state of a unit is stored: its command stays, and so do the other units.
LEMMA StateStored ==
  ASSUME Mailbox!TypeOK, NEW u \in Units, NEW w \in BOOLEAN,
         unit' = [unit EXCEPT ![u].writen = w]
  PROVE  /\ unit' \in [Units -> Mailbox!Contents]
         /\ unit'[u].writen = w
         /\ \A v \in Units : unit'[v].cmd = unit[v].cmd /\ (v # u => unit'[v] = unit[v])
<1>1. unit' \in [Units -> Mailbox!Contents]
  BY UnitTyped
<1> QED BY <1>1 DEF Mailbox!TypeOK, Mailbox!Contents

\* A new command in a unit: nobody else's unit changes.
LEMMA CommandTyped ==
  ASSUME Mailbox!TypeOK, NEW u \in Units, NEW cmd \in Mailbox!Cmds, NEW w \in BOOLEAN,
         unit' = [unit EXCEPT ![u] = [fp |-> unit[u].fp, cal |-> unit[u].cal, cmd |-> cmd, writen |-> w]]
  PROVE  /\ unit' \in [Units -> Mailbox!Contents]
         /\ unit'[u].cmd = cmd /\ unit'[u].writen = w
         /\ \A v \in Units \ {u} : unit'[v] = unit[v]
<1>1. [fp |-> unit[u].fp, cal |-> unit[u].cal, cmd |-> cmd, writen |-> w] \in Mailbox!Contents
  BY DEF Mailbox!TypeOK, Mailbox!Contents
<1> QED BY <1>1 DEF Mailbox!TypeOK

LEMMA FateTyped ==
  ASSUME Mailbox!TypeOK, NEW u
  PROVE  /\ \A fate \in Mailbox!Fates : Mailbox!Lost(u, fate) \in [Users -> Mailbox!Requests]
         /\ Mailbox!Swept(u) \in [Users -> Mailbox!Requests]
         /\ Mailbox!Copied(u) \in [Users -> Mailbox!Requests]
<1>1. ASSUME NEW r \in Mailbox!Requests, NEW fate \in Mailbox!Fates
      PROVE  [r EXCEPT !.fate = fate] \in Mailbox!Requests
  BY DEF Mailbox!Requests
<1>2. \A k \in Users : req[k] \in Mailbox!Requests
  BY DEF Mailbox!TypeOK
<1>3. "swept" \in Mailbox!Fates /\ "taken" \in Mailbox!Fates
  BY DEF Mailbox!Fates
<1>4. ASSUME NEW fate \in Mailbox!Fates PROVE Mailbox!Lost(u, fate) \in [Users -> Mailbox!Requests]
  BY <1>1, <1>2 DEF Mailbox!Lost
<1>5. Mailbox!Swept(u) \in [Users -> Mailbox!Requests]
  BY <1>1, <1>2, <1>3 DEF Mailbox!Swept
<1>6. Mailbox!Copied(u) \in [Users -> Mailbox!Requests]
  BY <1>1, <1>2, <1>3 DEF Mailbox!Copied
<1> QED BY <1>4, <1>5, <1>6

LEMMA RequestTyped ==
  ASSUME Mailbox!TypeOK, NEW k \in Users,
         NEW a \in {"idle", "set", "get", "answer", "posted", "tested"}
  PROVE  [req EXCEPT ![k].at = a] \in [Users -> Mailbox!Requests]
<1>1. ASSUME NEW r \in Mailbox!Requests PROVE [r EXCEPT !.at = a] \in Mailbox!Requests
  BY DEF Mailbox!Requests
<1> QED BY <1>1 DEF Mailbox!TypeOK

LEMMA CallTyped ==
  ASSUME Mailbox!IInv, NEW d \in Daemons, NEW call2 \in Mailbox!Calls,
         picked' = [picked EXCEPT ![d] = call2],
         call2.at \in {"looked", "checked", "copied", "wrote"} => call2.unit \in Units
  PROVE  picked' \in [Daemons -> Mailbox!Calls] /\ Mailbox!CallsHaveUnits'
BY DEF Mailbox!IInv, Mailbox!TypeOK, Mailbox!CallsHaveUnits

\* What replaces the command of a unit befalls whoever has a request there.
LEMMA LostKeeps ==
  ASSUME Mailbox!IInv, NEW u \in Units, NEW fate \in {"changed", "answered"},
         req' = Mailbox!Lost(u, fate),
         \A v \in Units \ {u} : unit'[v] = unit[v],
         fate = "answered" => unit'[u].cmd.opt = "reply",
         UNCHANGED <<handle, misled>>
  PROVE  /\ Mailbox!CommandsMeet' /\ Mailbox!HasHandle'
         /\ Mailbox!CommandStays' /\ Mailbox!AnswerStays'
<1>1. \A k \in Users : /\ req'[k].at = req[k].at
                       /\ handle[k] = u /\ req[k].at # "idle" => req'[k].fate = fate
                       /\ handle[k] # u => req'[k] = req[k]
  BY DEF Mailbox!IInv, Mailbox!TypeOK, Mailbox!Lost, Mailbox!Requests
<1>2. Mailbox!CommandsMeet' /\ Mailbox!HasHandle'
  BY <1>1 DEF Mailbox!IInv, Mailbox!HasHandle
<1>3. Mailbox!CommandStays'
  BY <1>1 DEF Mailbox!IInv, Mailbox!HasHandle, Mailbox!CommandStays
<1>4. Mailbox!AnswerStays'
  BY <1>1 DEF Mailbox!IInv, Mailbox!HasHandle, Mailbox!AnswerStays
<1> QED BY <1>2, <1>3, <1>4

\* Calls that store nothing but their own progress.
LEMMA CallKeeps ==
  ASSUME Mailbox!IInv, UNCHANGED <<unit, handle, req, misled>>,
         picked' \in [Daemons -> Mailbox!Calls] /\ Mailbox!CallsHaveUnits'
  PROVE  Mailbox!IInv'
BY DEF Mailbox!IInv, Mailbox!TypeOK, Mailbox!HasHandle, Mailbox!CommandStays, Mailbox!AnswerStays

\* The daemons' units come and go.
LEMMA UnitsKeep ==
  ASSUME Mailbox!IInv, NEW f \in Files,
         (\E cal \in Scenes : Mailbox!AddCalId(f, cal)) \/ Mailbox!RmCalId(f)
  PROVE  Mailbox!IInv'
<1>0. "changed" \in Mailbox!Fates
  BY DEF Mailbox!Fates
<1>1. PICK u \in Units, c \in Mailbox!Contents :
        /\ unit' = [unit EXCEPT ![u] = c]
        /\ req' = Mailbox!Lost(u, "changed") /\ UNCHANGED <<handle, picked, misled>>
  <2>1. ASSUME NEW cal \in Scenes, Mailbox!AddCalId(f, cal)
        PROVE  \E u \in Units, c \in Mailbox!Contents :
                 /\ unit' = [unit EXCEPT ![u] = c]
                 /\ req' = Mailbox!Lost(u, "changed") /\ UNCHANGED <<handle, picked, misled>>
    <3>1. PICK u \in Units :
            /\ unit' = [unit EXCEPT ![u] = [fp |-> f, cal |-> cal, cmd |-> @.cmd, writen |-> FALSE]]
            /\ req' = Mailbox!Lost(u, "changed") /\ UNCHANGED <<handle, picked, misled>>
      BY <2>1 DEF Mailbox!AddCalId, Mailbox!GetOneCanUse, Mailbox!UnitOfCal
    <3>2. [fp |-> f, cal |-> cal, cmd |-> unit[u].cmd, writen |-> FALSE] \in Mailbox!Contents
      BY DEF Mailbox!Contents, Mailbox!IInv, Mailbox!TypeOK
    <3> QED BY <3>1, <3>2
  <2>2. ASSUME Mailbox!RmCalId(f)
        PROVE  \E u \in Units, c \in Mailbox!Contents :
                 /\ unit' = [unit EXCEPT ![u] = c]
                 /\ req' = Mailbox!Lost(u, "changed") /\ UNCHANGED <<handle, picked, misled>>
    <3>1. Mailbox!FreeUnit \in Mailbox!Contents
      BY DEF Mailbox!Nothing, Mailbox!Cmds, Mailbox!FreeUnit, Mailbox!Contents
    <3> QED BY <2>2, <3>1 DEF Mailbox!RmCalId, Mailbox!UnitOfFile
  <2> QED BY <2>1, <2>2
<1>2. req' \in [Users -> Mailbox!Requests]
  BY <1>0, <1>1, FateTyped DEF Mailbox!IInv
<1>3. Mailbox!TypeOK'
  BY <1>1, <1>2 DEF Mailbox!IInv, Mailbox!TypeOK
<1>4. \A v \in Units \ {u} : unit'[v] = unit[v]
  BY <1>1 DEF Mailbox!IInv, Mailbox!TypeOK
<1>5. Mailbox!CommandsMeet' /\ Mailbox!HasHandle' /\ Mailbox!CommandStays' /\ Mailbox!AnswerStays'
  BY <1>1, <1>4, LostKeeps
<1>6. Mailbox!CallsHaveUnits'
  BY <1>1 DEF Mailbox!IInv, Mailbox!CallsHaveUnits
<1> QED BY <1>3, <1>5, <1>6 DEF Mailbox!IInv

\* PICK_CMD, step by step.
LEMMA PickKeeps ==
  ASSUME Mailbox!IInv, NEW d \in Daemons,
         Mailbox!PickLooks(d) \/ Mailbox!PickChecks(d) \/ Mailbox!PickCopies(d) \/ Mailbox!PickEnds(d)
  PROVE  Mailbox!IInv'
<1> DEFINE u == picked[d].unit
<1>0. /\ Mailbox!Nothing \in Mailbox!Cmds /\ Mailbox!Free \in Mailbox!Calls
      /\ Mailbox!Free.at = "idle"
      /\ \A a \in {"looked", "checked", "copied", "has", "wrote"},
            v \in Units \union {Mailbox!NoHandle}, c \in Mailbox!Cmds :
           [at |-> a, unit |-> v, cmd |-> c] \in Mailbox!Calls
  BY DEF Mailbox!Nothing, Mailbox!Cmds, Mailbox!Free, Mailbox!Calls
<1>a. picked[d] \in Mailbox!Calls
  BY DEF Mailbox!IInv, Mailbox!TypeOK
<1>b. picked[d].at \in {"looked", "checked", "copied"} => u \in Units
  BY DEF Mailbox!IInv, Mailbox!CallsHaveUnits
<1>1. CASE Mailbox!PickLooks(d)
  <2>1. PICK v \in Units : picked' = [picked EXCEPT ![d] = [at |-> "looked", unit |-> v, cmd |-> Mailbox!Nothing]]
    BY <1>1 DEF Mailbox!PickLooks, Mailbox!UnitOfFile
  <2>2. picked' \in [Daemons -> Mailbox!Calls] /\ Mailbox!CallsHaveUnits'
    BY <1>0, <2>1, CallTyped
  <2> QED BY <1>1, <2>2, CallKeeps DEF Mailbox!PickLooks
<1>2. CASE Mailbox!PickChecks(d)
  <2>1. PICK c \in Mailbox!Calls :
          /\ picked' = [picked EXCEPT ![d] = c]
          /\ c.at \in {"looked", "checked", "copied", "wrote"} => c.unit \in Units
    <3>1. CASE unit[u].cmd.opt = "reply"
      BY <1>0, <1>2, <3>1 DEF Mailbox!PickChecks
    <3>2. CASE unit[u].cmd.opt # "reply"
      <4>1. picked' = [picked EXCEPT ![d] = [at |-> "checked", unit |-> u, cmd |-> Mailbox!Nothing]]
        BY <1>2, <3>2 DEF Mailbox!PickChecks
      <4>2. u \in Units
        BY <1>2, <1>b DEF Mailbox!PickChecks
      <4>3. [at |-> "checked", unit |-> u, cmd |-> Mailbox!Nothing] \in Mailbox!Calls
        BY <1>0, <4>2
      <4> QED BY <4>1, <4>2, <4>3
    <3> QED BY <3>1, <3>2
  <2>2. picked' \in [Daemons -> Mailbox!Calls] /\ Mailbox!CallsHaveUnits'
    BY <2>1, CallTyped
  <2> QED BY <1>2, <2>2, CallKeeps DEF Mailbox!PickChecks
<1>3. CASE Mailbox!PickCopies(d)
  <2>1. /\ u \in Units /\ picked' = [picked EXCEPT ![d] = [at |-> "copied", unit |-> u, cmd |-> unit[u].cmd]]
        /\ req' = Mailbox!Copied(u) /\ UNCHANGED <<unit, handle, misled>>
    BY <1>3, <1>b DEF Mailbox!PickCopies
  <2>2. picked' \in [Daemons -> Mailbox!Calls] /\ Mailbox!CallsHaveUnits'
    <3>1. unit[u].cmd \in Mailbox!Cmds
      BY <2>1, UnitTyped DEF Mailbox!IInv
    <3> QED BY <1>0, <2>1, <3>1, CallTyped
  <2>3. req' \in [Users -> Mailbox!Requests]
    BY <2>1, FateTyped DEF Mailbox!IInv
  <2>4. \A k \in Users : req'[k].at = req[k].at /\ (req'[k].fate = req[k].fate \/ req'[k].fate = "taken")
                         /\ (req[k].fate = "changed" => req'[k].fate = "changed")
    BY <2>1 DEF Mailbox!Copied, Mailbox!Waits, Mailbox!IInv, Mailbox!TypeOK, Mailbox!Requests
  <2>5. Mailbox!TypeOK' /\ Mailbox!CommandsMeet'
    BY <2>1, <2>2, <2>3 DEF Mailbox!IInv, Mailbox!TypeOK
  <2>6. Mailbox!HasHandle' /\ Mailbox!CommandStays' /\ Mailbox!AnswerStays'
    BY <2>1, <2>4 DEF Mailbox!IInv, Mailbox!HasHandle, Mailbox!CommandStays, Mailbox!AnswerStays
  <2> QED BY <2>2, <2>5, <2>6 DEF Mailbox!IInv
<1>4. CASE Mailbox!PickEnds(d)
  <2>1. /\ u \in Units /\ unit' = [unit EXCEPT ![u].writen = FALSE]
        /\ req' = Mailbox!Swept(u) /\ UNCHANGED <<handle, misled>>
    BY <1>4, <1>b DEF Mailbox!PickEnds
  <2>2. picked' \in [Daemons -> Mailbox!Calls] /\ Mailbox!CallsHaveUnits'
    <3>1. PICK c \in Mailbox!Calls : picked' = [picked EXCEPT ![d] = c] /\ c.at \in {"has", "idle"}
      <4>1. picked[d].cmd \in Mailbox!Cmds
        BY <1>a DEF Mailbox!Calls
      <4>2. CASE picked[d].cmd.opt = "get"
        <5>1. picked' = [picked EXCEPT ![d] = [at |-> "has", unit |-> Mailbox!NoHandle, cmd |-> picked[d].cmd]]
          BY <1>4, <4>2 DEF Mailbox!PickEnds
        <5>2. [at |-> "has", unit |-> Mailbox!NoHandle, cmd |-> picked[d].cmd] \in Mailbox!Calls
          BY <1>0, <4>1
        <5> QED BY <5>1, <5>2
      <4>3. CASE picked[d].cmd.opt # "get"
        BY <1>0, <1>4, <4>3 DEF Mailbox!PickEnds
      <4> QED BY <4>2, <4>3
    <3> QED BY <3>1, CallTyped
  <2>3. req' \in [Users -> Mailbox!Requests]
    BY <2>1, FateTyped DEF Mailbox!IInv
  <2>4. /\ unit' \in [Units -> Mailbox!Contents]
        /\ \A v \in Units : unit'[v].cmd = unit[v].cmd /\ (v # u => unit'[v] = unit[v])
    BY <2>1, StateStored DEF Mailbox!IInv
  <2>5. \A k \in Users : /\ req'[k].at = req[k].at
                         /\ req'[k].fate = "waiting" => req[k].fate = "waiting" /\ handle[k] # u
                         /\ req[k].fate = "changed" => req'[k].fate = "changed"
    BY <2>1 DEF Mailbox!Swept, Mailbox!Waits, Mailbox!IInv, Mailbox!TypeOK, Mailbox!Requests
  <2>6. Mailbox!TypeOK' /\ Mailbox!CommandsMeet' /\ Mailbox!HasHandle'
    BY <2>1, <2>2, <2>3, <2>4, <2>5 DEF Mailbox!IInv, Mailbox!TypeOK, Mailbox!HasHandle
  <2>7. Mailbox!CommandStays'
    BY <2>1, <2>4, <2>5 DEF Mailbox!IInv, Mailbox!HasHandle, Mailbox!CommandStays
  <2>8. Mailbox!AnswerStays'
    BY <2>1, <2>4, <2>5 DEF Mailbox!IInv, Mailbox!HasHandle, Mailbox!AnswerStays
  <2> QED BY <2>2, <2>6, <2>7, <2>8 DEF Mailbox!IInv
<1> QED BY <1>1, <1>2, <1>3, <1>4

\* The daemon's answer.
LEMMA AnswerKeeps ==
  ASSUME Mailbox!IInv, NEW d \in Daemons, Mailbox!DevWrite(d) \/ Mailbox!DevWritten(d)
  PROVE  Mailbox!IInv'
<1>0. /\ Mailbox!Nothing \in Mailbox!Cmds /\ Mailbox!Free \in Mailbox!Calls
      /\ Mailbox!Free.at = "idle" /\ "answered" \in Mailbox!Fates
      /\ \A v \in Units : [at |-> "wrote", unit |-> v, cmd |-> Mailbox!Nothing] \in Mailbox!Calls
  BY DEF Mailbox!Nothing, Mailbox!Cmds, Mailbox!Free, Mailbox!Calls, Mailbox!Fates
<1>1. CASE Mailbox!DevWrite(d)
  <2> DEFINE reply == [opt |-> "reply", param |-> picked[d].cmd.param, from |-> "none"]
  <2>1. PICK u \in Units :
          /\ unit' = [unit EXCEPT ![u].cmd = reply]
          /\ req' = Mailbox!Lost(u, "answered") /\ UNCHANGED <<handle, misled>>
          /\ picked' = [picked EXCEPT ![d] = [at |-> "wrote", unit |-> u, cmd |-> Mailbox!Nothing]]
    BY <1>1 DEF Mailbox!DevWrite, Mailbox!UnitOfFile
  <2>2. reply \in Mailbox!Cmds
    BY DEF Mailbox!IInv, Mailbox!TypeOK, Mailbox!Calls, Mailbox!Cmds
  <2>3. unit[u] \in Mailbox!Contents
    BY DEF Mailbox!IInv, Mailbox!TypeOK
  <2>4. unit' = [unit EXCEPT ![u] = [fp |-> unit[u].fp, cal |-> unit[u].cal, cmd |-> reply,
                                     writen |-> unit[u].writen]]
    <3> HIDE DEF reply
    <3>1. [unit[u] EXCEPT !.cmd = reply]
            = [fp |-> unit[u].fp, cal |-> unit[u].cal, cmd |-> reply, writen |-> unit[u].writen]
      BY <2>3 DEF Mailbox!Contents
    <3> QED BY <2>1, <3>1
  <2>5. unit[u].writen \in BOOLEAN
    BY <2>3 DEF Mailbox!Contents
  <2>6. /\ unit' \in [Units -> Mailbox!Contents] /\ unit'[u].cmd = reply
        /\ \A v \in Units \ {u} : unit'[v] = unit[v]
    <3> HIDE DEF reply
    <3> QED BY <2>2, <2>4, <2>5, CommandTyped DEF Mailbox!IInv
  <2>7. req' \in [Users -> Mailbox!Requests]
    BY <1>0, <2>1, FateTyped DEF Mailbox!IInv
  <2>8. picked' \in [Daemons -> Mailbox!Calls] /\ Mailbox!CallsHaveUnits'
    BY <1>0, <2>1, CallTyped
  <2>9. Mailbox!CommandsMeet' /\ Mailbox!HasHandle' /\ Mailbox!CommandStays' /\ Mailbox!AnswerStays'
    BY <2>1, <2>6, LostKeeps
  <2>10. Mailbox!TypeOK'
    BY <2>1, <2>6, <2>7, <2>8 DEF Mailbox!IInv, Mailbox!TypeOK
  <2> QED BY <2>8, <2>9, <2>10 DEF Mailbox!IInv
<1>2. CASE Mailbox!DevWritten(d)
  <2> DEFINE u == picked[d].unit
  <2>1. /\ u \in Units /\ unit' = [unit EXCEPT ![u].writen = TRUE]
        /\ picked' = [picked EXCEPT ![d] = Mailbox!Free] /\ UNCHANGED <<handle, req, misled>>
    BY <1>2 DEF Mailbox!DevWritten, Mailbox!IInv, Mailbox!CallsHaveUnits
  <2>2. /\ unit' \in [Units -> Mailbox!Contents] /\ unit'[u].writen
        /\ \A v \in Units : unit'[v].cmd = unit[v].cmd /\ (v # u => unit'[v] = unit[v])
    BY <2>1, StateStored DEF Mailbox!IInv
  <2>3. picked' \in [Daemons -> Mailbox!Calls] /\ Mailbox!CallsHaveUnits'
    BY <1>0, <2>1, CallTyped
  <2>4. Mailbox!TypeOK' /\ Mailbox!CommandsMeet'
    BY <2>1, <2>2, <2>3 DEF Mailbox!IInv, Mailbox!TypeOK
  <2>5. Mailbox!HasHandle' /\ Mailbox!CommandStays' /\ Mailbox!AnswerStays'
    BY <2>1, <2>2 DEF Mailbox!IInv, Mailbox!HasHandle, Mailbox!CommandStays, Mailbox!AnswerStays
  <2> QED BY <2>3, <2>4, <2>5 DEF Mailbox!IInv
<1> QED BY <1>1, <1>2

\* The kernel's steps.  A write returns only once its command was taken, or something
\* became of it; a read empties a unit that had the answer when it looked.
LEMMA UserKeeps ==
  ASSUME Mailbox!IInv, NEW k \in Users,
         \/ \E cal \in Scenes : Mailbox!Open(k, cal)
         \/ Mailbox!Close(k) \/ Mailbox!WriteReturns(k) \/ Mailbox!GivesUp(k)
         \/ Mailbox!ReadIsPicked(k) \/ Mailbox!ReadIsAnswered(k) \/ Mailbox!ReadTests(k)
  PROVE  Mailbox!IInv'
<1>0. Mailbox!Idle \in Mailbox!Requests /\ Mailbox!Idle.at = "idle"
  BY DEF Mailbox!Requests, Mailbox!Idle, Mailbox!Fates
<1>1. CASE (\E cal \in Scenes : Mailbox!Open(k, cal)) \/ Mailbox!Close(k)
  <2>1. /\ req[k].at = "idle" /\ UNCHANGED <<unit, req, picked, misled>>
        /\ handle' \in [Users -> Units \union {Mailbox!NoHandle}]
        /\ \A j \in Users \ {k} : handle'[j] = handle[j]
    BY <1>1 DEF Mailbox!Open, Mailbox!Close, Mailbox!UnitOfCal, Mailbox!IInv, Mailbox!TypeOK
  <2>2. Mailbox!HasHandle' /\ Mailbox!CommandStays' /\ Mailbox!AnswerStays'
    BY <2>1 DEF Mailbox!IInv, Mailbox!HasHandle, Mailbox!CommandStays, Mailbox!AnswerStays
  <2> QED BY <2>1, <2>2 DEF Mailbox!IInv, Mailbox!TypeOK, Mailbox!CallsHaveUnits
<1>2. ASSUME Mailbox!Done(k), UNCHANGED <<unit, handle, picked, misled>> PROVE Mailbox!IInv'
  <2>1. req' = [req EXCEPT ![k] = Mailbox!Idle]
    BY <1>2 DEF Mailbox!Done
  <2>2. /\ req' \in [Users -> Mailbox!Requests] /\ req'[k].at = "idle"
        /\ \A j \in Users \ {k} : req'[j] = req[j]
    BY <1>0, <2>1 DEF Mailbox!IInv, Mailbox!TypeOK
  <2>3. Mailbox!HasHandle' /\ Mailbox!CommandStays' /\ Mailbox!AnswerStays'
    BY <1>2, <2>2 DEF Mailbox!IInv, Mailbox!HasHandle, Mailbox!CommandStays, Mailbox!AnswerStays
  <2> QED BY <1>2, <2>2, <2>3 DEF Mailbox!IInv, Mailbox!TypeOK, Mailbox!CallsHaveUnits
<1>3. CASE Mailbox!WriteReturns(k)
  <2>1. req[k].fate # "waiting"
    BY <1>3 DEF Mailbox!WriteReturns, Mailbox!SetIsOver, Mailbox!IInv, Mailbox!CommandStays
  <2> QED BY <1>2, <1>3, <2>1 DEF Mailbox!WriteReturns
<1>4. CASE Mailbox!GivesUp(k)
  BY <1>2, <1>4 DEF Mailbox!GivesUp
<1>5. ASSUME NEW a \in {"answer", "posted", "tested"}, Mailbox!Goes(k, a),
             UNCHANGED <<unit, handle, picked, misled>>,
             req[k].at # "idle", a = "tested" => unit[handle[k]].cmd.opt = "reply"
      PROVE  Mailbox!IInv'
  <2>1. req' = [req EXCEPT ![k].at = a]
    BY <1>5 DEF Mailbox!Goes
  <2>2. /\ req' \in [Users -> Mailbox!Requests] /\ req'[k].at = a
        /\ \A j \in Users \ {k} : req'[j] = req[j]
    <3>1. req' \in [Users -> Mailbox!Requests]
      BY <2>1, RequestTyped DEF Mailbox!IInv
    <3>2. req \in [Users -> Mailbox!Requests] /\ req[k] \in Mailbox!Requests
      BY DEF Mailbox!IInv, Mailbox!TypeOK
    <3>3. req'[k] = [req[k] EXCEPT !.at = a] /\ \A j \in Users \ {k} : req'[j] = req[j]
      BY <2>1, <3>2
    <3>4. ASSUME NEW r \in Mailbox!Requests PROVE [r EXCEPT !.at = a].at = a
      BY DEF Mailbox!Requests
    <3> QED BY <3>1, <3>2, <3>3, <3>4
  <2>3. Mailbox!HasHandle' /\ Mailbox!CommandStays' /\ Mailbox!AnswerStays'
    BY <1>5, <2>2 DEF Mailbox!IInv, Mailbox!HasHandle, Mailbox!CommandStays, Mailbox!AnswerStays
  <2> QED BY <1>5, <2>2, <2>3 DEF Mailbox!IInv, Mailbox!TypeOK, Mailbox!CallsHaveUnits
<1>6. CASE Mailbox!ReadIsPicked(k)
  BY <1>5, <1>6 DEF Mailbox!ReadIsPicked
<1>7. CASE Mailbox!ReadIsAnswered(k)
  BY <1>5, <1>7 DEF Mailbox!ReadIsAnswered
<1>8. CASE Mailbox!ReadTests(k)
  BY <1>2, <1>5, <1>8 DEF Mailbox!ReadTests
<1> QED BY <1>1, <1>3, <1>4, <1>6, <1>7, <1>8

\* A read that copies: what it has tested is an answer still, unless another user's
\* command has come.
LEMMA ReadsKeep ==
  ASSUME Mailbox!IInv, NEW k \in Users, Mailbox!ReadReturns(k) PROVE Mailbox!IInv'
<1> DEFINE u == handle[k]
<1>0. Mailbox!Idle \in Mailbox!Requests /\ Mailbox!Idle.at = "idle"
  BY DEF Mailbox!Requests, Mailbox!Idle, Mailbox!Fates
<1>1. /\ req[k].at = "tested" /\ u \in Units /\ UNCHANGED <<handle, picked>>
  BY DEF Mailbox!ReadReturns, Mailbox!IInv, Mailbox!HasHandle
<1>2. CASE Mailbox!Done(k) /\ UNCHANGED <<unit, misled>>
  <2>2. req' = [req EXCEPT ![k] = Mailbox!Idle]
    BY <1>2 DEF Mailbox!Done
  <2>3. /\ req' \in [Users -> Mailbox!Requests] /\ req'[k].at = "idle"
        /\ \A j \in Users \ {k} : req'[j] = req[j]
    BY <1>0, <2>2 DEF Mailbox!IInv, Mailbox!TypeOK
  <2>4. Mailbox!HasHandle' /\ Mailbox!CommandStays' /\ Mailbox!AnswerStays'
    BY <1>1, <1>2, <2>3 DEF Mailbox!IInv, Mailbox!HasHandle, Mailbox!CommandStays, Mailbox!AnswerStays
  <2> QED BY <1>1, <1>2, <2>3, <2>4 DEF Mailbox!IInv, Mailbox!TypeOK, Mailbox!CallsHaveUnits
<1>3. CASE /\ unit' = [unit EXCEPT ![u].writen = FALSE]
           /\ req' = [Mailbox!Swept(u) EXCEPT ![k] = Mailbox!Idle]
           /\ misled' = IF /\ Mailbox!Accepted(k, unit[u].cmd) /\ unit[u].cmd.opt # "reply"
                           /\ req[k].fate # "changed"
                        THEN misled \union {<<k, "read">>} ELSE misled
  <2>1. misled' = misled
    <3>1. unit[u].cmd.opt = "reply" \/ req[k].fate = "changed"
      BY <1>1 DEF Mailbox!IInv, Mailbox!AnswerStays
    <3> QED BY <1>3, <3>1
  <2>2. req' \in [Users -> Mailbox!Requests] /\ req'[k].at = "idle"
    <3>1. Mailbox!Swept(u) \in [Users -> Mailbox!Requests]
      BY FateTyped DEF Mailbox!IInv
    <3> QED BY <1>0, <1>3, <3>1
  <2>3. /\ unit' \in [Units -> Mailbox!Contents]
        /\ \A v \in Units : unit'[v].cmd = unit[v].cmd /\ (v # u => unit'[v] = unit[v])
    BY <1>1, <1>3, StateStored DEF Mailbox!IInv
  <2>4. \A j \in Users \ {k} : /\ req'[j].at = req[j].at
                               /\ req'[j].fate = "waiting" => req[j].fate = "waiting" /\ handle[j] # u
                               /\ req[j].fate = "changed" => req'[j].fate = "changed"
    BY <1>3 DEF Mailbox!Swept, Mailbox!Waits, Mailbox!IInv, Mailbox!TypeOK, Mailbox!Requests
  <2>5. Mailbox!TypeOK' /\ Mailbox!CommandsMeet' /\ Mailbox!CallsHaveUnits'
    BY <1>1, <2>1, <2>2, <2>3 DEF Mailbox!IInv, Mailbox!TypeOK, Mailbox!CallsHaveUnits
  <2>6. Mailbox!HasHandle'
    BY <1>1, <2>2, <2>4 DEF Mailbox!IInv, Mailbox!HasHandle
  <2>7. Mailbox!CommandStays'
    BY <1>1, <2>2, <2>3, <2>4 DEF Mailbox!IInv, Mailbox!HasHandle, Mailbox!CommandStays
  <2>8. Mailbox!AnswerStays'
    BY <1>1, <2>2, <2>3, <2>4 DEF Mailbox!IInv, Mailbox!HasHandle, Mailbox!AnswerStays
  <2> QED BY <2>5, <2>6, <2>7, <2>8 DEF Mailbox!IInv
<1> QED BY <1>2, <1>3 DEF Mailbox!ReadReturns

\* A new command of a user's: whoever waited in that unit has lost his.
LEMMA AskKeeps ==
  ASSUME Mailbox!IInv, NEW k \in Users, NEW opt \in {"set", "get"}, NEW p \in Params \union {"none"},
         Mailbox!Ask(k, opt, p)
  PROVE  Mailbox!IInv'
<1> DEFINE u == handle[k]
           cmd == [opt |-> opt, param |-> p, from |-> k]
           asks == [at |-> opt, param |-> p, fate |-> "waiting"]
<1>1. /\ u \in Units
      /\ unit' = [unit EXCEPT ![u] = [fp |-> unit[u].fp, cal |-> unit[u].cal, cmd |-> cmd, writen |-> TRUE]]
      /\ req' = [Mailbox!Lost(u, "changed") EXCEPT ![k] = asks]
      /\ UNCHANGED <<handle, picked, misled>>
  BY DEF Mailbox!Ask, Mailbox!NoHandle, Mailbox!IInv, Mailbox!TypeOK
<1>2. cmd \in Mailbox!Cmds /\ asks \in Mailbox!Requests /\ "changed" \in Mailbox!Fates
  BY DEF Mailbox!Cmds, Mailbox!Requests, Mailbox!Fates
<1>3. /\ unit' \in [Units -> Mailbox!Contents] /\ unit'[u].cmd = cmd /\ unit'[u].writen
      /\ \A v \in Units \ {u} : unit'[v] = unit[v]
  <2> HIDE DEF cmd, u
  <2>1. u \in Units /\ cmd \in Mailbox!Cmds /\ Mailbox!TypeOK
    BY <1>1, <1>2 DEF Mailbox!IInv
  <2> QED BY <1>1, <2>1, CommandTyped
<1>4. req' \in [Users -> Mailbox!Requests] /\ req'[k] = asks
  <2> HIDE DEF asks
  <2>1. Mailbox!Lost(u, "changed") \in [Users -> Mailbox!Requests]
    BY <1>2, FateTyped DEF Mailbox!IInv
  <2> QED BY <1>1, <1>2, <2>1
<1>5. \A j \in Users \ {k} : /\ req'[j].at = req[j].at
                             /\ handle[j] = u /\ req[j].at # "idle" => req'[j].fate = "changed"
                             /\ handle[j] # u => req'[j] = req[j]
  BY <1>1 DEF Mailbox!Lost, Mailbox!Requests, Mailbox!IInv, Mailbox!TypeOK
<1>6. Mailbox!TypeOK' /\ Mailbox!CommandsMeet' /\ Mailbox!CallsHaveUnits'
  BY <1>1, <1>3, <1>4 DEF Mailbox!IInv, Mailbox!TypeOK, Mailbox!CallsHaveUnits
<1>7. Mailbox!HasHandle'
  BY <1>1, <1>4, <1>5 DEF Mailbox!IInv, Mailbox!HasHandle
<1>8. Mailbox!CommandStays'
  BY <1>1, <1>3, <1>4, <1>5 DEF Mailbox!IInv, Mailbox!HasHandle, Mailbox!CommandStays
<1>9. Mailbox!AnswerStays'
  BY <1>1, <1>3, <1>4, <1>5 DEF Mailbox!IInv, Mailbox!HasHandle, Mailbox!AnswerStays
<1> QED BY <1>6, <1>7, <1>8, <1>9 DEF Mailbox!IInv

LEMMA MailboxStep ==
  ASSUME Mailbox!IInv, [Mailbox!Next]_mail_vars PROVE Mailbox!IInv'
<1>1. CASE UNCHANGED mail_vars
  BY <1>1 DEF mail_vars, Mailbox!IInv, Mailbox!TypeOK, Mailbox!HasHandle, Mailbox!CommandStays,
              Mailbox!AnswerStays, Mailbox!CallsHaveUnits
<1> QED BY <1>1, UnitsKeep, PickKeeps, AnswerKeeps, UserKeeps, ReadsKeep, AskKeeps DEF Mailbox!Next

-----------------------------------------------------------------------------
(* SiaTimer: the counters agree with the samples while there is one thread. *)

USE NormalIsPositive
USE DEF Timer!FirstSamples, Timer!handles

\* What a thread becomes keeps its shape.
LEMMA DoingTyped ==
  ASSUME NEW b \in BOOLEAN
  PROVE  /\ Timer!Gone \in Timer!Doings /\ Timer!Resting \in Timer!Doings
         /\ [at |-> "scan", first |-> b, left |-> Clients, client |-> "none"] \in Timer!Doings
  BY DEF Timer!Gone, Timer!Resting, Timer!Doings

LEMMA TimerInit == Timer!Init => Timer!IInv
<1> SUFFICES ASSUME Timer!Init PROVE Timer!IInv
  OBVIOUS
<1>1. info \in [Clients -> Timer!Counters] /\ \A c \in Clients : info[c].sample_cnt < info[c].sample_send
  BY DEF Timer!Init, Timer!Counters
<1>2. thread \in [Threads -> Timer!Doings] /\ \A t \in Threads : thread[t].at = "gone"
  BY DoingTyped DEF Timer!Init, Timer!Gone
<1>3. Timer!TypeOK
  <2>1. since \in [Clients -> 0 .. 3] /\ sent \in [Clients -> {"none", "fresh", "stale"}]
    BY DEF Timer!Init
  <2> QED BY <1>1, <1>2, <2>1 DEF Timer!Init, Timer!TypeOK
<1> QED BY <1>2, <1>3 DEF Timer!Init, Timer!IInv, Timer!VoltageIsFresh, Timer!OneThread,
                    Timer!AsleepAgrees, Timer!CycleAgrees, Timer!Alive

\* A start puts the counters out of order, with the switch flag up.
LEMMA StartKeeps ==
  ASSUME Timer!IInv, Timer!Start PROVE Timer!IInv'
<1> USE DEF Timer!IInv, Timer!VoltageIsFresh, Timer!OneThread, Timer!AsleepAgrees,
            Timer!CycleAgrees, Timer!Alive, Timer!Agrees, Timer!StillToCome
<1>1. CASE UNCHANGED <<task_state, thread, crowded, since>>
  BY <1>1 DEF Timer!Start, Timer!TypeOK
<1>2. ASSUME NEW t \in Threads \ Timer!Alive, Timer!Created(t), since' = [c \in Clients |-> 0], task_state'
      PROVE  Timer!IInv'
  <2>1. /\ thread' = [thread EXCEPT ![t] = Timer!Resting]
        /\ crowded' = (crowded \/ Timer!Alive # {}) /\ switch_flag' = TRUE
        /\ UNCHANGED <<proc, info, sent, hdl, backup>>
    BY <1>2 DEF Timer!Created, Timer!Start
  <2>2. thread' \in [Threads -> Timer!Doings] /\ thread'[t].at = "while"
        /\ \A s \in Threads \ {t} : thread'[s] = thread[s]
    BY <2>1, DoingTyped DEF Timer!TypeOK, Timer!Resting
  <2>3. task_state' \in BOOLEAN /\ since' \in [Clients -> 0 .. 3]
    BY <1>2 DEF Timer!Start
  <2>4. Timer!TypeOK'
    BY <1>2, <2>1, <2>2, <2>3 DEF Timer!TypeOK
  <2>5. ~crowded' => \A s \in Threads : thread'[s].at # "gone" => s = t
    BY <2>1, <2>2
  <2> QED BY <1>2, <2>1, <2>2, <2>4, <2>5
<1> QED BY <1>1, <1>2 DEF Timer!Start

\* The calls that leave the thread alone: a stop only takes the state away, and a
\* channel that is registered begins again.
LEMMA TimerCallKeeps ==
  ASSUME Timer!IInv,
         \/ Timer!Stop \/ Timer!TimerTaskClose \/ Timer!TimerTaskOpen \/ Timer!RemoveDev
         \/ \E c \in Clients :
              \/ \E state \in BOOLEAN : Timer!AutoSetVddProbe(c, state) \/ Timer!SetWorkState(c, state)
              \/ Timer!AutoSetVddRemove(c)
  PROVE  Timer!IInv'
<1> USE DEF Timer!IInv, Timer!VoltageIsFresh, Timer!OneThread, Timer!AsleepAgrees,
            Timer!CycleAgrees, Timer!Alive, Timer!Agrees, Timer!StillToCome
<1>1. CASE Timer!Stop \/ Timer!TimerTaskClose \/ Timer!TimerTaskOpen
  <2>1. /\ UNCHANGED <<proc, thread, info, since, crowded, sent>>
        /\ hdl' \in {"task", "invalid"} /\ backup' \in {"task", "invalid"}
        /\ \/ task_state' = FALSE /\ switch_flag' = (switch_flag \/ task_state)
           \/ UNCHANGED <<task_state, switch_flag>>
    BY <1>1 DEF Timer!Stop, Timer!Stopped, Timer!TimerTaskClose, Timer!TimerTaskOpen, Timer!TypeOK
  <2>2. CASE task_state' = FALSE /\ switch_flag' = (switch_flag \/ task_state)
    BY <2>1, <2>2 DEF Timer!TypeOK
  <2>3. CASE UNCHANGED <<task_state, switch_flag>>
    BY <2>1, <2>3 DEF Timer!TypeOK
  <2> QED BY <2>1, <2>2, <2>3
<1>2. CASE Timer!RemoveDev
  BY <1>2 DEF Timer!RemoveDev, Timer!TypeOK
<1>3. ASSUME NEW c \in Clients, Timer!AutoSetVddRemove(c) PROVE Timer!IInv'
  BY <1>3 DEF Timer!AutoSetVddRemove, Timer!TypeOK
<1>4. ASSUME NEW c \in Clients, NEW state \in BOOLEAN, Timer!AutoSetVddProbe(c, state)
      PROVE  Timer!IInv'
  <2>1. /\ info' = [info EXCEPT ![c] = Timer!Opened(c, state)] /\ since' = [since EXCEPT ![c] = 0]
        /\ proc' = proc \union {c}
        /\ UNCHANGED <<task_state, switch_flag, thread, crowded, sent, hdl, backup>>
    BY <1>4 DEF Timer!AutoSetVddProbe
  <2>2. Timer!TypeOK' /\ Timer!Agrees(c)' /\ \A d \in Clients \ {c} : info'[d] = info[d] /\ since'[d] = since[d]
    BY <2>1 DEF Timer!Opened, Timer!TypeOK, Timer!Counters
  <2> QED BY <2>1, <2>2 DEF Timer!TypeOK
<1>5. ASSUME NEW c \in Clients, NEW state \in BOOLEAN, Timer!SetWorkState(c, state)
      PROVE  Timer!IInv'
  <2>1. /\ info' = [info EXCEPT ![c].is_enable = state]
        /\ UNCHANGED <<task_state, switch_flag, proc, thread, since, crowded, sent, hdl, backup>>
    BY <1>5 DEF Timer!SetWorkState
  <2>2. /\ Timer!TypeOK'
        /\ \A d \in Clients : info'[d].sample_cnt = info[d].sample_cnt /\ info'[d].sample_send = info[d].sample_send
    BY <2>1 DEF Timer!TypeOK, Timer!Counters
  <2> QED BY <2>1, <2>2 DEF Timer!TypeOK
<1> QED BY <1>1, <1>2, <1>3, <1>4, <1>5

\* The thread between two channels, and asleep.
LEMMA ScanKeeps ==
  ASSUME Timer!IInv, NEW t \in Threads, Timer!While(t) \/ Timer!Scan(t)
  PROVE  Timer!IInv'
<1> USE DEF Timer!IInv, Timer!VoltageIsFresh, Timer!OneThread, Timer!AsleepAgrees,
            Timer!CycleAgrees, Timer!Alive, Timer!StillToCome
<1>1. CASE Timer!While(t) /\ thread' = [thread EXCEPT ![t] = Timer!Gone]
  <2>1. thread' \in [Threads -> Timer!Doings] /\ thread'[t].at = "gone"
        /\ \A s \in Threads \ {t} : thread'[s] = thread[s]
    BY <1>1, DoingTyped DEF Timer!TypeOK, Timer!Gone
  <2>2. task_state' \in BOOLEAN /\ switch_flag' \in BOOLEAN
        /\ UNCHANGED <<task_state, proc, info, since, crowded, sent, hdl, backup>>
        /\ (switch_flag' = switch_flag \/ \A s \in Threads : ~crowded => thread'[s].at = "gone")
    BY <1>1, <2>1 DEF Timer!While, Timer!TypeOK
  <2> QED BY <2>1, <2>2 DEF Timer!TypeOK, Timer!Agrees
<1>2. CASE Timer!While(t) /\ Timer!KeepsRunning
             /\ thread' = [thread EXCEPT ![t] = [at |-> "scan", first |-> switch_flag,
                                                left |-> Clients, client |-> "none"]]
  <2>1. /\ thread' \in [Threads -> Timer!Doings]
        /\ thread'[t].at = "scan" /\ thread'[t].first = switch_flag /\ thread'[t].left = Clients
        /\ \A s \in Threads \ {t} : thread'[s] = thread[s]
    BY <1>2, DoingTyped DEF Timer!TypeOK
  <2>2. task_state /\ thread[t].at = "while" /\ switch_flag' \in BOOLEAN
        /\ UNCHANGED <<task_state, proc, info, since, crowded, sent, hdl, backup>>
    BY <1>2, <2>1 DEF Timer!While, Timer!KeepsRunning, Timer!TypeOK, Timer!Gone
  <2> QED BY <2>1, <2>2 DEF Timer!TypeOK, Timer!Agrees
<1>3. CASE Timer!Scan(t) /\ Timer!Asleep(t) /\ (switch_flag \/ thread[t].left = {} \/ ~task_state)
  <2>1. thread' \in [Threads -> Timer!Doings] /\ thread'[t].at = "while"
        /\ \A s \in Threads \ {t} : thread'[s] = thread[s]
    BY <1>3, DoingTyped DEF Timer!Asleep, Timer!TypeOK, Timer!Resting
  <2>2. /\ thread[t].at = "scan"
        /\ UNCHANGED <<task_state, switch_flag, proc, info, since, crowded, sent, hdl, backup>>
    BY <1>3 DEF Timer!Scan
  <2> QED BY <1>3, <2>1, <2>2 DEF Timer!TypeOK, Timer!Agrees
<1>4. ASSUME NEW c \in thread[t].left, Timer!Scan(t),
             thread' = [thread EXCEPT ![t] = [at |-> IF c \in proc THEN "process" ELSE "scan",
                                              first |-> @.first, left |-> @.left \ {c}, client |-> c]]
      PROVE  Timer!IInv'
  <2>1. /\ UNCHANGED <<task_state, switch_flag, proc, info, since, crowded, sent, hdl, backup>>
        /\ thread[t].at = "scan" /\ c \in Clients
    BY <1>4 DEF Timer!Scan, Timer!TypeOK, Timer!Doings
  <2>2. [at |-> IF c \in proc THEN "process" ELSE "scan", first |-> thread[t].first,
         left |-> thread[t].left \ {c}, client |-> c] \in Timer!Doings
    BY <2>1 DEF Timer!TypeOK, Timer!Doings
  <2>3. /\ thread' \in [Threads -> Timer!Doings]
        /\ thread'[t].at = IF c \in proc THEN "process" ELSE "scan"
        /\ thread'[t].first = thread[t].first /\ thread'[t].left = thread[t].left \ {c}
        /\ thread'[t].client = c
        /\ \A s \in Threads \ {t} : thread'[s] = thread[s]
    BY <1>4, <2>2 DEF Timer!TypeOK
  <2>4. Timer!TypeOK'
    BY <2>1, <2>3 DEF Timer!TypeOK
  <2> QED BY <2>1, <2>3, <2>4 DEF Timer!TypeOK, Timer!Agrees
<1> QED BY <1>1, <1>2, <1>3, <1>4 DEF Timer!While, Timer!Scan

\* A channel is sampled.  In a first cycle its counters start over with this sample;
\* otherwise they agreed before, so what it sends are samples of this run.
LEMMA ProcessKeeps ==
  ASSUME Timer!IInv, NEW t \in Threads, Timer!Process(t)
  PROVE  Timer!IInv'
<1>0. PICK c \in Clients : c = thread[t].client
  BY DEF Timer!Process, Timer!IInv, Timer!TypeOK
<1> DEFINE i == Timer!Counted(c, thread[t].first)
           taken == IF since[c] < 3 THEN since[c] + 1 ELSE since[c]
<1>1. /\ thread[t].at = "process" /\ thread[t].client = c
      /\ thread' = [thread EXCEPT ![t].at = "scan"]
      /\ since' = [since EXCEPT ![c] = taken]
      /\ UNCHANGED <<task_state, switch_flag, proc, crowded, hdl, backup>>
  BY <1>0 DEF Timer!Process
<1>2. info[c] \in Timer!Counters /\ info[c].sample_cnt \in Nat /\ info[c].sample_send \in {3, Normal}
      /\ info[c].sample_cnt < info[c].sample_send /\ since[c] \in 0 .. 3
      /\ thread[t].first \in BOOLEAN
  BY <1>1 DEF Timer!IInv, Timer!TypeOK, Timer!Counters, Timer!Doings
<1>3. ~crowded => thread[t].first \/ Timer!Agrees(c)
  BY <1>1 DEF Timer!IInv, Timer!CycleAgrees
<1>4. i = [open |-> info[c].open, is_enable |-> info[c].is_enable,
           sample_cnt |-> IF thread[t].first THEN 1 ELSE info[c].sample_cnt + 1,
           sample_send |-> IF thread[t].first THEN 3 ELSE info[c].sample_send]
  BY DEF Timer!Counted, Timer!Counting
<1>5. /\ i \in Timer!Counters
      /\ i.sample_cnt = IF thread[t].first THEN 1 ELSE info[c].sample_cnt + 1
      /\ i.sample_send = IF thread[t].first THEN 3 ELSE info[c].sample_send
      /\ taken \in 1 .. 3 /\ (taken = 3 \/ taken = since[c] + 1)
  BY <1>2, <1>4 DEF Timer!Counters
<1> HIDE DEF i, taken
<1>6. /\ \A d \in Clients \ {c} : info'[d] = info[d]
      /\ info' \in [Clients -> Timer!Counters]
      /\ info'[c].sample_cnt < info'[c].sample_send
      /\ ~crowded => Timer!Agrees(c)'
  <2>1. CASE i.sample_cnt < i.sample_send /\ info' = [info EXCEPT ![c] = i]
    BY <1>1, <1>2, <1>3, <1>5, <2>1 DEF Timer!Agrees, Timer!IInv, Timer!TypeOK
  <2>2. CASE i.sample_cnt >= i.sample_send /\ info' = [info EXCEPT ![c] = Timer!AfterSend(i, thread[t].first)]
    <3> DEFINE j == Timer!AfterSend(i, thread[t].first)
    <3>1. j = [open |-> i.open, is_enable |-> i.is_enable, sample_cnt |-> 0,
               sample_send |-> IF thread[t].first THEN i.sample_send ELSE Normal]
      BY DEF Timer!AfterSend, Timer!Counting
    <3>2. j \in Timer!Counters /\ j.sample_cnt = 0 /\ j.sample_send \in Nat \ {0}
      BY <3>1, <1>2, <1>5 DEF Timer!Counters
    <3>3. ~crowded => taken = 3
      BY <1>2, <1>3, <1>5, <2>2 DEF Timer!Agrees
    <3> HIDE DEF j
    <3>4. info' = [info EXCEPT ![c] = j] /\ info \in [Clients -> Timer!Counters] /\ c \in Clients
      BY <1>1, <2>2 DEF j, Timer!IInv, Timer!TypeOK
    <3>5. ~crowded => since'[c] = 3
      BY <1>1, <3>3 DEF Timer!IInv, Timer!TypeOK
    <3> QED BY <3>2, <3>4, <3>5 DEF Timer!Agrees
  <2> QED BY <1>0, <2>1, <2>2 DEF Timer!Process, i
<1>7. sent' \in [Clients -> {"none", "fresh", "stale"}] /\ Timer!VoltageIsFresh'
  <2>1. i.sample_cnt >= i.sample_send /\ ~crowded => taken = 3
    BY <1>2, <1>3, <1>5 DEF Timer!Agrees
  <2>2. \/ sent' = sent
        \/ i.sample_cnt >= i.sample_send
           /\ sent' = [sent EXCEPT ![c] = IF taken = 3 THEN "fresh" ELSE "stale"]
    BY <1>0 DEF Timer!Process, i, taken
  <2> QED BY <1>1, <2>1, <2>2 DEF Timer!IInv, Timer!TypeOK, Timer!VoltageIsFresh
<1>8. /\ thread' \in [Threads -> Timer!Doings]
      /\ \A s \in Threads : /\ s # t => thread'[s] = thread[s]
                            /\ thread'[s].first = thread[s].first /\ thread'[s].left = thread[s].left
                            /\ thread'[s].client = thread[s].client
      /\ thread'[t].at = "scan"
  <2>1. thread[t] \in Timer!Doings /\ thread' = [thread EXCEPT ![t] = [thread[t] EXCEPT !.at = "scan"]]
    BY <1>1 DEF Timer!IInv, Timer!TypeOK
  <2>2. [thread[t] EXCEPT !.at = "scan"] = [at |-> "scan", first |-> thread[t].first,
                                            left |-> thread[t].left, client |-> thread[t].client]
    BY <2>1 DEF Timer!Doings
  <2>3. [thread[t] EXCEPT !.at = "scan"] \in Timer!Doings
    BY <2>1, <2>2 DEF Timer!Doings
  <2> QED BY <2>1, <2>2, <2>3 DEF Timer!IInv, Timer!TypeOK
<1>9. Timer!TypeOK'
  <2>1. since' \in [Clients -> 0 .. 3]
    BY <1>1, <1>5 DEF Timer!IInv, Timer!TypeOK
  <2> QED BY <1>1, <1>6, <1>7, <1>8, <2>1 DEF Timer!IInv, Timer!TypeOK
<1>10. ~crowded' => Timer!OneThread' /\ Timer!AsleepAgrees' /\ Timer!CycleAgrees'
  <2>1. \A d \in Clients \ {c} : info'[d] = info[d] /\ since'[d] = since[d]
    BY <1>1, <1>6 DEF Timer!IInv, Timer!TypeOK
  <2>2. \A d \in Clients : ~crowded /\ Timer!Agrees(d) => Timer!Agrees(d)'
    <3> SUFFICES ASSUME NEW d \in Clients, ~crowded, Timer!Agrees(d) PROVE Timer!Agrees(d)'
      OBVIOUS
    <3>1. CASE d = c
      BY <1>6, <3>1 DEF Timer!Agrees
    <3>2. CASE d # c
      BY <2>1, <3>2 DEF Timer!Agrees
    <3> QED BY <3>1, <3>2
  <2>3. ~crowded => Timer!Agrees(c)'
    BY <1>6
  <2> QED BY <1>1, <1>8, <2>2, <2>3
          DEF Timer!IInv, Timer!TypeOK, Timer!OneThread, Timer!AsleepAgrees, Timer!CycleAgrees, Timer!StillToCome,
              Timer!Alive
<1> QED BY <1>7, <1>9, <1>10 DEF Timer!IInv

LEMMA TimerStep ==
  ASSUME Timer!IInv, [Timer!Next]_timer_vars PROVE Timer!IInv'
<1>1. CASE UNCHANGED timer_vars
  BY <1>1 DEF timer_vars, Timer!IInv, Timer!TypeOK, Timer!VoltageIsFresh, Timer!OneThread,
              Timer!AsleepAgrees, Timer!CycleAgrees, Timer!Alive, Timer!Agrees, Timer!StillToCome
<1> QED BY <1>1, StartKeeps, TimerCallKeeps, ScanKeeps, ProcessKeeps DEF Timer!Next, Timer!Step

-----------------------------------------------------------------------------
(* The composition. *)

LEMMA PartsStep ==
  [MCNext]_mc_vars => /\ [Next]_vars
                      /\ [Mailbox!Next]_mail_vars
                      /\ [Amp!Next]_amp_vars
                      /\ [Timer!Next]_timer_vars
                      /\ [Afe!Next]_afe_vars
  BY DEF MCNext, GatesNext, AmpNext, TimerNext, MailboxNext, AfeNext, mc_vars

LEMMA GatesStep == IInv /\ [MCNext]_mc_vars => IInv'
  BY NextInv, SameInv, PartsStep

LEMMA GatesInit == MCInit => IInv
  BY InitInv DEF MCInit

\* A domain without power (the *_sys_*_ctrl functions of clk-mt6768-pg.c) is behind
\* its fences, whoever uses the gates, in whatever order, and whichever clocks fail:
\* every one is set that it does not share with a domain that is on, except the
\* modem's until its first call, which the initialisation takes down without one.
THEOREM OffStaysFenced == MCSpec => []OffIsFenced
<1>1. IInv => OffIsFenced
  BY DEF IInv
<1> QED BY <1>1, GatesInit, GatesStep, PTL DEF MCSpec

\* A domain that clk_prepare gave to a user, or that a caller of register_pg_callback
\* was told of, is powered, clocked and out of reset, its memories are awake, and a
\* fence of its that is set is shared with a domain that is down or on its way.
THEOREM UsersReachTheirs == MCSpec => []InUseIsReachable
<1>1. IInv => InUseIsReachable
  BY UsersReach
<1> QED BY <1>1, GatesInit, GatesStep, PTL DEF MCSpec

\* No busy wait of a sequence is for what the hardware will not answer: it was asked
\* for by an earlier step that no step since has undone, and memories that are waited
\* for have the clock that they need; except where pg_prepare went on after the clock
\* of its domain had failed.
THEOREM WaitsAlwaysEnd == MCSpec => []WaitsCanEnd
<1>1. IInv => WaitsCanEnd
  BY WaitsEnd
<1> QED BY <1>1, GatesInit, GatesStep, PTL DEF MCSpec

\* A command that the driver takes for answered was answered or lost with a restart of
\* the processor (sia81xx_apr_send's wait against sia81xx_afe_callback), whenever the
\* answers come.
THEOREM AnswersNeverCross == MCSpec => []NoCrossedAnswers
<1>1. MCInit => Afe!IInv
  BY AfeInit DEF MCInit
<1>2. Afe!IInv /\ [MCNext]_mc_vars => Afe!IInv'
  BY AfeStep, PartsStep
<1>3. Afe!IInv => NoCrossedAnswers
  BY DEF Afe!IInv, NoCrossedAnswers
<1> QED BY <1>1, <1>2, <1>3, PTL DEF MCSpec

\* A write into the mailbox (sia81xx_tuning_if_dev_type_write's wait for the unit to be
\* idle) that reports success was copied by the daemon, unless its unit got another
\* command, an answer or another daemon while it waited, or was set idle by a PICK_CMD or
\* a read that had begun before; and a read takes nothing but an answer to its own
\* parameter, unless another user's command came between its test and its copy:
\* whichever daemons come and go and however late they answer.
THEOREM CommandsAlwaysMeet == MCSpec => []CommandsMeet
<1>1. MCInit => Mailbox!IInv
  BY MailboxInit DEF MCInit
<1>2. Mailbox!IInv /\ [MCNext]_mc_vars => Mailbox!IInv'
  BY MailboxStep, PartsStep
<1>3. Mailbox!IInv => CommandsMeet
  BY DEF Mailbox!IInv, CommandsMeet
<1> QED BY <1>1, <1>2, <1>3, PTL DEF MCSpec

\* A battery voltage that is sent to the amplifier averages samples taken since it was
\* started, unless a restart left the old kernel thread running beside the new one
\* (sia81xx_timer_task_stop, which waits for nobody).
THEOREM VoltageStaysFresh == MCSpec => []VoltageIsFresh
<1>1. MCInit => Timer!IInv
  BY TimerInit DEF MCInit
<1>2. Timer!IInv /\ [MCNext]_mc_vars => Timer!IInv'
  BY TimerStep, PartsStep
<1>3. Timer!IInv => VoltageIsFresh
  BY DEF Timer!IInv, VoltageIsFresh
<1> QED BY <1>1, <1>2, <1>3, PTL DEF MCSpec

\* Between calls, the amplifiers that were asked to sound do, each with the settings of
\* its own channel, though the right SIA8101 leaves reset at the left one's address
\* (sia81xx_resume takes the left one down and brings it back); after calls that
\* overlapped, the ones that a call of its own has since turned off.
THEOREM AmpsStayTwo == MCSpec => []AmpsAreTwo
<1>1. MCInit => Amp!IInv
  BY AmpInit DEF MCInit
<1>2. Amp!IInv /\ [MCNext]_mc_vars => Amp!IInv'
  BY AmpStep, PartsStep
<1>3. Amp!IInv => AmpsAreTwo
  BY AmpsAsTwo
<1> QED BY <1>1, <1>2, <1>3, PTL DEF MCSpec
=============================================================================
