--------------------------------- MODULE FmRds ---------------------------------
(* The RDS parser of the vendor FM driver (core/fm_rds_parser.c): a station        *)
(* repeats its name, its text and its frequencies group by group, and the parser  *)
(* shows what it has received twice.  Groups can be lost, have blocks that fail    *)
(* their check, or, once in a while, be wrong and pass it.                         *)
(*                                                                              *)
(* A segment is a number: 0 is blank, End(v) ends a text, and Wrong is what no     *)
(* station sends.  A station sends one kind of group in a behaviour, its program;  *)
(* the kinds share nothing but the event word.  Names and texts are shorter than   *)
(* the code's, with the same loops over them: MaxAddr stands for the text's 15,    *)
(* ManyTimes for RDS_RT_MULTI_REV_TH.  The events are those of the last group.      *)
EXTENDS Integers, Sequences, FiniteSets, TLC

CONSTANTS Names, Texts,   \* sequences of segments
          Lists,          \* <<count, frequency>>, then pairs of frequencies
          MaxAddr, ManyTimes,
          MaxBad,       \* groups that are lost, or received wrong
          MaxLate         \* groups of the old station while the tuner moves

VARIABLES
  program,   \* "name", "text", "list", "other" or "flags"
  station,   \* what it sends: [item, next, ab, whole, late, mixed]
  bad,
  ps,        \* PS_Data: [once, twice, shown, bm, pre]; bm is the bitmap's set
  rt,        \* RT_Data: [twice, shown, bm, cnt, ab, once_dirty]
  af, afon,  \* AF_Data, AFON_Data: [num, got, first, second, ready]
  flags,     \* the program's flags and codes
  events     \* event_status

rds_vars == <<program, station, bad, ps, rt, af, afon, flags, events>>

Blank     == 0
NotTuning == -1
Wrong   == 99
Ends(v) == v \in 11 .. 19    \* a segment with the end of the text in it

Addrs   == 0 .. 3
RtAddrs == 0 .. MaxAddr
Slots   == 0 .. 4
DIs     == {"Dynamic_PTY", "Compressed", "Artificial_Head", "Stereo"}
Bits    == {"PTY", "TP", "TA", "Music"} \union DIs

Items == CASE program = "name" -> Names
           [] program = "text" -> Texts
           [] program \in {"list", "other"} -> Lists
           [] OTHER -> {<<Blank>>}

NoName == [once |-> [a \in Addrs |-> Blank], twice |-> [a \in Addrs |-> Blank],
           shown |-> [a \in Addrs |-> Blank], bm |-> {}, pre |-> -1]
NoText == [twice |-> [a \in RtAddrs |-> Blank], shown |-> <<>>, bm |-> {}, cnt |-> 0,
           ab |-> 0, once_dirty |-> FALSE]
NoList == [num |-> 0, got |-> FALSE, first |-> [i \in Slots |-> 0],
           second |-> [i \in Slots |-> 0], ready |-> FALSE]

TypeOK ==
  /\ program \in {"name", "text", "list", "other", "flags"}
  /\ station.item \in Items /\ station.next \in 1 .. Len(station.item)
  /\ bad \in 0 .. MaxBad
  /\ ps.bm \subseteq Addrs /\ ps.pre \in Addrs \union {-1}
  /\ rt.bm \subseteq RtAddrs /\ rt.cnt \in Nat /\ Len(rt.shown) <= MaxAddr + 1
  /\ flags \in [Bits -> 0 .. 1]

Init ==
  /\ program \in {"name", "text", "list", "other", "flags"}
  /\ \E i \in Items : station = [item |-> i, next |-> 1, ab |-> 0, whole |-> FALSE, late |-> NotTuning, mixed |-> FALSE]
  /\ bad = 0
  /\ ps = NoName /\ rt = NoText /\ af = NoList /\ afon = NoList
  /\ flags = [b \in Bits |-> 0]
  /\ events = {}

-----------------------------------------------------------------------------
(* The program's name: rds_g0_ps_cmp, then the decision of rds_retrieve_g0_ps.  *)

\* The addresses that were skipped, or that come before when the name starts over.
Skipped(a, pre) == CASE a - pre > 1 -> pre + 1 .. a - 1
                     [] a - pre < 1 -> 0 .. a - 1
                     [] OTHER       -> {}

\* Plausible bug: what was confirmed of another name is kept.
KeepsConfirmed(p, a) == {}

Unconfirmed(p, a) ==
  Skipped(a, p.pre) \union (IF p.once[a] # Blank THEN a .. 3 ELSE {})

rds_g0_ps_cmp(p, a, v) ==
  IF v = p.once[a]
  THEN [p EXCEPT !.pre = a, !.twice[a] = v, !.bm = @ \union {a}]
  ELSE LET gone == Skipped(a, p.pre) IN
       [p EXCEPT !.pre = a, !.bm = @ \ Unconfirmed(p, a),
                 !.once = [x \in Addrs |-> IF x = a THEN v ELSE IF x \in gone THEN Blank ELSE @[x]],
                 !.twice = [x \in Addrs |-> IF x \in gone THEN Blank ELSE @[x]]]

AllBlank(s) == \A x \in DOMAIN s : s[x] = Blank

NewName(p) == p.bm = Addrs /\ p.shown # p.twice /\ ~AllBlank(p.twice)

\* A name that is shown already is forgotten, to be received afresh.
PsDecision(p) ==
  CASE p.bm # Addrs       -> p
    [] NewName(p)         -> [p EXCEPT !.shown = p.twice]
    [] p.shown # p.twice  -> [p EXCEPT !.bm = {}]
    [] OTHER              -> [NoName EXCEPT !.shown = p.shown, !.pre = p.pre]

-----------------------------------------------------------------------------
(* The text: rds_retrieve_g2.                                                 *)

\* rds_g2_txtAB_get: the flag has to differ in two groups in a row.
TextChanges(r, ab) == ab # r.ab /\ r.once_dirty

rds_g2_txtAB_get(r, ab) ==
  IF TextChanges(r, ab)
  THEN [NoText EXCEPT !.shown = r.shown, !.ab = ab]
  ELSE [r EXCEPT !.once_dirty = (ab # r.ab)]

\* Plausible bug: one group suffices.
CountsAtOnce(r, a, v) == r.bm \union {a}

\* rds_g2_rt_cmp: a segment counts when it is what it was the last time.
Confirmed(r, a, v) == IF r.twice[a] = v THEN r.bm \union {a} ELSE r.bm \ {a}

\* The counter of rds_bm_set.
Repeats(r, a, v) ==
  CASE r.twice[a] # v -> r.cnt
    [] a \in r.bm     -> r.cnt + 1
    [] r.cnt > 0      -> r.cnt - 1
    [] OTHER          -> r.cnt

rds_g2_rt_cmp(r, a, v) ==
  [r EXCEPT !.bm = Confirmed(r, a, v), !.cnt = Repeats(r, a, v), !.twice[a] = v]

\* rds_bm_get_pos: the last address of a bitmap without gaps.
rds_bm_get_pos(bm) ==
  IF bm = 0 .. Cardinality(bm) - 1 THEN Cardinality(bm) - 1 ELSE -1

Decides(r, a) == Ends(r.twice[a]) \/ r.bm = RtAddrs \/ r.cnt > ManyTimes

\* The segments before the one that came last are the text, if they all count.
IsComplete(r, a) == Decides(r, a) /\ rds_bm_get_pos(r.bm) = a

Trimmed(r, a) ==
  LET pos  == rds_bm_get_pos(r.bm)
      more == IF pos > a THEN {a + 1} ELSE {}
      tail == IF Ends(r.twice[a]) THEN a + 1 .. MaxAddr - 1 ELSE {}
  IN  IF Decides(r, a) THEN [r EXCEPT !.bm = @ \ (more \union tail)] ELSE r

TextOf(r, a) == [i \in 1 .. a + 1 |-> r.twice[i - 1]]

RtDecision(r, a) ==
  IF IsComplete(r, a) /\ ~AllBlank(TextOf(r, a))
  THEN [NoText EXCEPT !.shown = TextOf(r, a), !.ab = r.ab, !.once_dirty = r.once_dirty]
  ELSE Trimmed(r, a)

\* ok: blocks C and D passed their check.
rds_retrieve_g2(r, a, v, ab, ok) ==
  LET s == rds_g2_txtAB_get(r, ab)
  IN  RtDecision(IF ok THEN rds_g2_rt_cmp(s, a, v) ELSE s, a)

-----------------------------------------------------------------------------
(* The frequencies: rds_retrieve_g0_af, and rds_retrieve_g14 for the other        *)
(* network.                                                                     *)

Header(f, num, freq) ==
  [f EXCEPT !.num = num, !.got = (num = f.num),
            !.first[0] = freq, !.second[0] = freq,
            !.ready = @ \/ (program = "list" /\ num = f.num /\ num = 1)]

\* Plausible bug: a pair is never found again, as rds_retrieve_g14 compares it.
NeverFound(f, pair, i) == FALSE

PairAt(s, i) == <<s[2 * i - 1], s[2 * i]>>

InPlace(f, pair, i) == PairAt(f.first, i) = pair

SamePair(f, pair, i) == program = "list" /\ InPlace(f, pair, i)

Pairs(f) == 1 .. f.num \div 2

\* The pair goes to the first free place, unless it is found before.
Placed(f, pair) ==
  LET stop == {i \in Pairs(f) : SamePair(f, pair, i) \/ f.first[2 * i - 1] = 0}
      i    == CHOOSE j \in stop : \A k \in stop : j <= k
  IN  IF stop = {} \/ f.first[2 * i - 1] # 0 THEN f
      ELSE [f EXCEPT !.first[2 * i - 1] = pair[1], !.first[2 * i] = pair[2]]

Less(p, q) == p[1] < q[1] \/ (p[1] = q[1] /\ p[2] < q[2])

Orders(places) == {o \in [places -> places] : \A i, j \in places : i # j => o[i] # o[j]}

Ascends(first, o, places) ==
  \A i, j \in places : i < j => ~Less(PairAt(first, o[j]), PairAt(first, o[i]))

\* Ascending; the other network's list is compared in too few bits to be sorted.
Sorted(f) ==
  LET order == CHOOSE o \in Orders(Pairs(f)) : Ascends(f.first, o, Pairs(f))
  IN  IF program # "list" THEN f
      ELSE [f EXCEPT !.first = [s \in Slots |->
              IF s = 0 \/ (s + 1) \div 2 \notin Pairs(f) THEN @[s]
              ELSE PairAt(@, order[(s + 1) \div 2])[IF s % 2 = 1 THEN 1 ELSE 2]]]

\* A full list is copied, and ready when it is the copy of the last time.
Copied(f) ==
  [f EXCEPT !.second = [s \in Slots |-> IF s < f.num THEN f.first[s] ELSE @[s]],
            !.ready = \A s \in 0 .. f.num - 1 : f.first[s] = f.second[s] /\ f.first[s] # 0]

WithPair(f, pair) ==
  LET placed == Placed(f, pair) IN
  IF ~f.got \/ f.ready THEN f
  ELSE IF f.num = 0 \/ placed.first[f.num - 1] = 0 THEN placed
  ELSE Copied(Sorted(placed))

rds_retrieve_af(f, group, first) ==
  IF first THEN Header(f, group[1], group[2]) ELSE WithPair(f, group)

-----------------------------------------------------------------------------
(* What is received.                                                          *)

Group0Ps(a, v) ==
  LET p == rds_g0_ps_cmp(ps, a, v) IN
  /\ ps' = PsDecision(p)
  /\ events' = IF NewName(p) THEN {"PROGRAMNAME"} ELSE {}
  /\ UNCHANGED <<rt, af, afon, flags>>

Group2(a, v, ok) ==
  /\ rt' = rds_retrieve_g2(rt, a, v, station.ab, ok)
  /\ events' = IF rt'.shown # rt.shown THEN {"LAST_RADIOTEXT"} ELSE {}
  /\ UNCHANGED <<ps, af, afon, flags>>

Group0Af(group, first) ==
  /\ af' = rds_retrieve_af(af, group, first)
  /\ events' = IF af'.ready /\ ~af.ready THEN {"AF_LIST"} ELSE {}
  /\ UNCHANGED <<ps, rt, afon, flags>>

Group14(group, first) ==
  /\ afon' = rds_retrieve_af(afon, group, first)
  /\ events' = IF afon'.ready /\ ~afon.ready THEN {"AFON_LIST"} ELSE {}
  /\ UNCHANGED <<ps, rt, af, flags>>

\* Every group carries the codes of block B, and one DI flag that its address selects.
Told(changed, bits, event) == IF changed \intersect bits # {} THEN {event} ELSE {}

rds_grp_pty_get(changed)    == Told(changed, {"PTY"}, "PTY_CODE")
rds_grp_tp_get(changed)     == Told(changed, {"TP"}, "FLAGS")
rds_g0_ta_get(changed)      == Told(changed, {"TA"}, "FLAGS")
rds_g0_music_get(changed)   == Told(changed, {"Music"}, "FLAGS")
rds_retrieve_g0_di(changed) == Told(changed, DIs, "FLAGS")

GroupFlags ==
  /\ program = "flags"
  /\ \E di \in DIs : \E sent \in [(Bits \ DIs) \union {di} -> 0 .. 1] :
       LET changed == {b \in DOMAIN sent : sent[b] # flags[b]} IN
       /\ flags' = sent @@ flags
       /\ events' = rds_grp_pty_get(changed) \union rds_grp_tp_get(changed) \union rds_g0_ta_get(changed)
                      \union rds_g0_music_get(changed) \union rds_retrieve_g0_di(changed)
  /\ UNCHANGED <<ps, rt, af, afon>>

Parse(v, ok) ==
  LET k == station.next IN
  CASE program = "name" /\ ok -> Group0Ps(k - 1, v)
    [] program = "text"       -> Group2(k - 1, v, ok)
    [] program = "list" /\ ok -> Group0Af(v, k = 1)
    [] program = "other" /\ ok -> Group14(v, k = 1)
    [] OTHER -> events' = {} /\ UNCHANGED <<ps, rt, af, afon, flags>>

\* rds_parser: no events of the last group are kept, and the same PI code again is one.
Advance ==
  LET last == station.next = Len(station.item) IN
  /\ station.late # 0
  /\ station' = [station EXCEPT !.next = IF last THEN 1 ELSE @ + 1, !.whole = @ \/ last,
                                !.late = IF @ > 0 THEN @ - 1 ELSE @,
                                !.mixed = @ \/ station.late > 0]

Receive ==
  /\ program # "flags"
  /\ Parse(station.item[station.next], TRUE)
  /\ Advance /\ UNCHANGED <<program, bad>>

\* A group that is not received, or whose blocks A or B fail their check.
Lose ==
  /\ program # "flags" /\ bad < MaxBad /\ bad' = bad + 1
  /\ Advance /\ events' = {}
  /\ UNCHANGED <<program, ps, rt, af, afon, flags>>

\* Blocks C and D fail their check.
Fail ==
  /\ program # "flags" /\ bad < MaxBad /\ bad' = bad + 1
  /\ Parse(station.item[station.next], FALSE)
  /\ Advance /\ UNCHANGED program

\* An error that the check does not see.
ReceiveWrong ==
  /\ program \in {"name", "text"} /\ bad < MaxBad /\ bad' = bad + 1
  /\ Parse(Wrong, TRUE)
  /\ Advance /\ UNCHANGED program

\* The station has something new to send, and marks a new text with the A/B flag.
Change ==
  /\ program \in {"name", "text"} /\ station.whole
  /\ \E i \in Items \ {station.item} :
       station' = [station EXCEPT !.item = i, !.next = 1, !.ab = 1 - @, !.whole = FALSE]
  /\ events' = {}
  /\ UNCHANGED <<program, bad, ps, rt, af, afon, flags>>

\* fm_tune clears the data before the chip is tuned: groups of the station that it
\* leaves still come after, and mix with what follows.  The parser's static
\* variables stay.
FmTune ==
  /\ station.late = NotTuning
  /\ station' = [station EXCEPT !.late = MaxLate, !.mixed = FALSE]
  /\ ps' = [NoName EXCEPT !.pre = ps.pre]
  /\ rt' = [NoText EXCEPT !.cnt = rt.cnt, !.once_dirty = rt.once_dirty]
  /\ af' = NoList /\ afon' = NoList
  /\ flags' = [b \in Bits |-> 0] /\ events' = {}
  /\ UNCHANGED <<program, bad>>

Tuned ==
  /\ station.late # NotTuning
  /\ \E i \in Items : \E k \in 1 .. Len(i) :
       station' = [item |-> i, next |-> k, ab |-> 0, whole |-> FALSE, late |-> NotTuning,
                   mixed |-> station.mixed]
  /\ events' = {}
  /\ UNCHANGED <<program, bad, ps, rt, af, afon, flags>>

Next ==
  \/ Receive \/ Lose \/ Fail \/ ReceiveWrong
  \/ (GroupFlags /\ UNCHANGED <<program, station, bad>>)
  \/ Change \/ FmTune \/ Tuned

Spec == Init /\ [][Next]_rds_vars

-----------------------------------------------------------------------------
\* Each of the three is about what came since the last tuning, and only when no
\* group of the station that was left came late: station.mixed.
Prefixes(t) == {SubSeq(t, 1, n) : n \in 0 .. Len(t)}

\* The name that is shown is one that a station sent, with no segment of another
\* name or of an error in it: a name is shown once each of its segments has come
\* twice, and a change drops what was confirmed before.
NameIsWhole ==
  \/ station.mixed
  \/ AllBlank(ps.shown)
  \/ \E n \in Names : \A a \in Addrs : ps.shown[a] = n[a + 1]

\* The text that is shown is a text that a station sent, or the beginning of one.
TextIsWhole == station.mixed \/ rt.shown \in UNION {Prefixes(t) : t \in Texts}

\* Nothing is shown of a name or a text that no station sent.
ShownIsWhole == NameIsWhole /\ TextIsWhole

\* A list that is reported ready has the station's count, and every pair that the station
\* sends: no pair is in two places, which would push another out.  Of an even count the
\* last place is reported without its second frequency.
Reports(f, pair) ==
  \E i \in Pairs(f) : f.second[2 * i - 1] = pair[1] /\ (2 * i < f.num => f.second[2 * i] = pair[2])

ListIsStations ==
  af.ready /\ ~station.mixed =>
    /\ station.item[1][1] = af.num
    /\ \A k \in 2 .. Len(station.item) : Reports(af, station.item[k])

-----------------------------------------------------------------------------
(* The inductive invariant of ListIsStations.                                 *)

\* A list as stations send it: the count and one frequency, then the others in pairs,
\* the last of which has a filler in it when the count is even.
IsList(l) ==
  /\ l \in Seq(Nat \X Nat) /\ l[1][1] \in 1 .. 5
  /\ Len(l) = 1 + l[1][1] \div 2
  /\ \A k \in 2 .. Len(l) : l[k][1] # 0

AfData == [num : Nat, got : BOOLEAN, first : [Slots -> Nat], second : [Slots -> Nat],
           ready : BOOLEAN]

\* The places are filled in their order, each with a pair of l, and no two the same.
Holds(first, l) ==
  /\ \A i \in 1 .. 2 : PairAt(first, i) = <<0, 0>> \/ \E k \in 2 .. Len(l) : PairAt(first, i) = l[k]
  /\ first[1] = 0 => first[3] = 0
  /\ first[1] # 0 => PairAt(first, 1) # PairAt(first, 2)

FromList(f, l) ==
  /\ f \in AfData /\ Holds(f.first, l)
  /\ f.num \in {0, l[1][1]} /\ (f.got \/ f.ready => f.num = l[1][1])
  /\ f.ready => \A k \in 2 .. Len(l) : Reports(f, l[k])

Stations == [item : Lists, next : Nat, ab : 0 .. 1, whole : BOOLEAN,
             late : Nat \union {NotTuning}, mixed : BOOLEAN]

\* A group that comes while the tuner moves is the old station's, and marked.
ListInv ==
  /\ program # "list" => ~af.ready
  /\ program = "list" =>
       /\ station \in Stations /\ station.next \in 1 .. Len(station.item)
       /\ ~station.mixed => FromList(af, station.item) /\ (station.late # NotTuning => af = NoList)
=============================================================================
